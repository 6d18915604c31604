----------------------- MODULE AtlasConversationProofs -----------------------
(***************************************************************************)
(* Proofs about AtlasConversation, for any step budget, any number of tool *)
(* results per message and any number of restarts.                         *)
(***************************************************************************)
EXTENDS AtlasConversation, SequenceTheorems, FiniteSetTheorems, TLAPS

\* Questions and answers alternate, the thread has every message they are about,
\* and the run knows which of the two came last.
Shape ==
  /\ TypeOK
  /\ pc = "idle" <=> state # "running"
  /\ pc = "fresh" => artifacts = <<>> /\ messages = <<>>
  /\ state = "awaiting_user" => /\ artifacts # <<>>
                                /\ artifacts[Len(artifacts)].kind = "question"
  /\ state = "running" => \/ artifacts = <<>>
                          \/ artifacts[Len(artifacts)].kind = "user_response"
  /\ \A i \in 1..Len(artifacts) : artifacts[i].about <= Len(messages)
  /\ \A i \in 1..Len(artifacts) :
       artifacts[i].kind = "question" /\ i < Len(artifacts) =>
         artifacts[i + 1] = UserResponse(artifacts[i].about)

\* An answer is in the thread.
Told(i) == \E j \in 1..Len(messages) :
             /\ j > artifacts[i].about
             /\ messages[j] = Human(artifacts[i].about)

\* All answers are, but for the last one of a run that has not entered the graph.
Reached ==
  \A i \in 1..Len(artifacts) :
    /\ artifacts[i].kind = "user_response"
    /\ i < Len(artifacts) \/ pc \in {"atlas", "tools", "decide"}
    => Told(i)

------------------------------------------------------------------------------
(* The readers of the thread. *)

LEMMA WindowMax ==
  ASSUME NEW msgs \in Seq(Message), NEW S \in SUBSET Window(msgs), S # {}
  PROVE  /\ Max(S) \in S
         /\ \A y \in S : Max(S) >= y
<1> DEFINE n == Len(msgs)
<1>1. n \in Nat /\ DOMAIN msgs = 1..n
  BY LenProperties
<1>2. \A y \in S : y \in Nat /\ y \in n - 5 .. n
  BY <1>1 DEF Window
<1> HIDE DEF n
<1>3. \E x \in S : \A y \in S : x >= y
  <2>1. \A y \in S : y = n \/ y = n - 1 \/ y = n - 2 \/ y = n - 3 \/ y = n - 4 \/ y = n - 5
    BY <1>1, <1>2
  <2>2. CASE n \in S
    BY <1>1, <1>2, <2>2
  <2>3. CASE n \notin S /\ n - 1 \in S
    BY <1>1, <2>1, <2>3
  <2>4. CASE n \notin S /\ n - 1 \notin S /\ n - 2 \in S
    BY <1>1, <2>1, <2>4
  <2>5. CASE n \notin S /\ n - 1 \notin S /\ n - 2 \notin S /\ n - 3 \in S
    BY <1>1, <2>1, <2>5
  <2>6. CASE n \notin S /\ n - 1 \notin S /\ n - 2 \notin S /\ n - 3 \notin S
    BY <1>1, <2>1, <2>6
  <2> QED  BY <2>2, <2>3, <2>4, <2>5, <2>6
<1> QED  BY <1>3 DEF Max

\* The question found is the last thing anybody asked or said, in the window and in
\* the whole thread.
LEMMA PendingIsNewest ==
  ASSUME messages \in Seq(Message), ExtractPending(messages) # 0
  PROVE  /\ ExtractPending(messages) \in 1..Len(messages)
         /\ \A j \in 1..Len(messages) :
              j > ExtractPending(messages) =>
                messages[j].type # "human" /\ messages[j].body # "pending"
<1> DEFINE asked == {i \in Window(messages) : messages[i].body = "pending"}
           q == Max(asked)
<1>1. Len(messages) \in Nat /\ DOMAIN messages = 1..Len(messages)
  BY LenProperties
<1>2. /\ asked # {} /\ ExtractPending(messages) = q
      /\ \A j \in Window(messages) : j > q => messages[j].type # "human"
  BY DEF ExtractPending
<1>3. q \in asked /\ \A y \in asked : q >= y
  <2>1. asked \in SUBSET Window(messages)
    OBVIOUS
  <2> QED  BY <1>2, <2>1, WindowMax
<1> HIDE DEF q
<1>4. q \in 1..Len(messages) /\ q + 6 > Len(messages)
  BY <1>1, <1>3 DEF Window
<1>5. ASSUME NEW j \in 1..Len(messages), j > q
      PROVE  messages[j].type # "human" /\ messages[j].body # "pending"
  <2>1. j \in Window(messages)
    BY <1>1, <1>4, <1>5 DEF Window
  <2>2. j \notin asked
    BY <1>3, <1>4, <1>5
  <2> QED  BY <1>2, <1>5, <2>1, <2>2
<1> QED  BY <1>2, <1>4, <1>5

LEMMA MarkerIsOutcome ==
  ASSUME messages \in Seq(Message), LastFinishMarker(messages) # 0
  PROVE  messages[LastFinishMarker(messages)].body \in {"done", "failed"}
<1> DEFINE marked == {i \in Window(messages) : messages[i].body \in {"done", "failed"}}
<1>1. marked # {} /\ LastFinishMarker(messages) = Max(marked)
  BY DEF LastFinishMarker
<1>2. marked \in SUBSET Window(messages)
  OBVIOUS
<1> QED  BY <1>1, <1>2, WindowMax

\* What a resumed run begins with is the last artifact, or nothing.
LEMMA SeedIsLast ==
  ASSUME artifacts \in Seq(Artifact)
  PROVE  /\ artifacts = <<>> => Seed = <<>>
         /\ artifacts # <<>> /\ artifacts[Len(artifacts)].kind = "user_response" =>
              Seed = <<Human(artifacts[Len(artifacts)].about)>>
<1> DEFINE answers == {i \in DOMAIN artifacts : artifacts[i].kind = "user_response"}
           n == Len(artifacts)
<1>1. n \in Nat /\ DOMAIN artifacts = 1..n
  BY LenProperties
<1>2. CASE artifacts = <<>>
  <2>1. answers = {}
    BY <1>1, <1>2
  <2> QED  BY <1>2, <2>1 DEF Seed
<1>3. CASE artifacts # <<>> /\ artifacts[n].kind = "user_response"
  <2>1. n \in 1..n
    BY <1>1, <1>3, EmptySeq
  <2>2. n \in answers /\ \A y \in answers : n >= y /\ y \in Nat
    BY <1>1, <1>3, <2>1
  <2>3. Max(answers) = n
    BY <1>1, <2>2 DEF Max
  <2> QED  BY <2>2, <2>3 DEF Seed
<1> QED  BY <1>2, <1>3

------------------------------------------------------------------------------
(* What the steps do to the thread and to the artifacts. *)

ThreadGrows ==
  /\ messages' \in Seq(Message)
  /\ Len(messages') >= Len(messages)
  /\ \A i \in 1..Len(messages) : messages'[i] = messages[i]

LEMMA ThreadOnlyGrows ==
  ASSUME Shape, [Next]_vars
  PROVE  ThreadGrows
<1>0. /\ messages \in Seq(Message) /\ Len(messages) \in Nat
      /\ artifacts \in Seq(Artifact) /\ Len(artifacts) \in Nat
      /\ DOMAIN artifacts = 1..Len(artifacts)
  BY LenProperties DEF Shape, TypeOK
<1>1. ASSUME NEW more \in Seq(Message), messages' = messages \o more
      PROVE  ThreadGrows
  <2>1. Len(more) \in Nat
    BY LenProperties
  <2> QED  BY <1>0, <1>1, <2>1, ConcatProperties DEF ThreadGrows
<1>2. CASE UNCHANGED messages
  BY <1>0, <1>2 DEF ThreadGrows
<1>3. CASE Invoke
  <2>1. CASE pc = "fresh"
    <3>1. messages = <<>> /\ messages' = <<Human(0)>>
      BY <1>3, <2>1 DEF Invoke, Shape
    <3>2. <<Human(0)>> \in Seq(Message) /\ messages = <<>> /\ Len(messages) = 0
      BY <3>1 DEF Human, Message
    <3> QED  BY <3>1, <3>2 DEF ThreadGrows
  <2>2. CASE pc = "resume"
    <3>1. messages' = messages \o Seed
      BY <1>3, <2>2 DEF Invoke
    <3>2. Seed \in Seq(Message)
      <4>1. CASE artifacts = <<>>
        BY <1>0, <4>1, SeedIsLast
      <4>2. CASE artifacts # <<>>
        <5>1. artifacts[Len(artifacts)].kind = "user_response"
          BY <2>2, <4>2 DEF Shape
        <5>2. artifacts[Len(artifacts)] \in Artifact
          BY <1>0, <4>2, ElementOfSeq, EmptySeq
        <5>3. Human(artifacts[Len(artifacts)].about) \in Message
          BY <5>2 DEF Artifact, Human, Message
        <5>4. PICK h \in Message : h = Human(artifacts[Len(artifacts)].about)
          BY <5>3
        <5>5. Seed = <<h>>
          BY <1>0, <4>2, <5>1, <5>4, SeedIsLast
        <5> QED  BY <5>5
      <4> QED  BY <4>1, <4>2
    <3> QED  BY <1>1, <3>1, <3>2
  <2> QED  BY <1>3, <2>1, <2>2 DEF Invoke
<1>4. CASE AtlasNode
  <2>1. PICK body \in {"calls", "text", "pending"} : messages' = Append(messages, Ai(body))
    BY <1>4 DEF AtlasNode
  <2>2. Ai(body) \in Message
    BY DEF Ai, Message
  <2> QED  BY <1>0, <2>1, <2>2, AppendProperties DEF ThreadGrows
<1>5. CASE ToolsNode
  <2>1. PICK n \in 1..MaxBatch :
          \E results \in [1..n -> {"text", "pending", "done", "failed"}] :
            messages' = messages \o [i \in 1..n |-> Tool(results[i])]
    BY <1>5 DEF ToolsNode
  <2>2. PICK results \in [1..n -> {"text", "pending", "done", "failed"}] :
          messages' = messages \o [i \in 1..n |-> Tool(results[i])]
    BY <2>1
  <2>3. n \in Nat
    BY ConversationAssumption
  <2>4. [i \in 1..n |-> Tool(results[i])] \in [1..n -> Message]
    BY DEF Tool, Message
  <2>5. [i \in 1..n |-> Tool(results[i])] \in Seq(Message)
    BY <2>3, <2>4, IsASeq
  <2> QED  BY <1>1, <2>2, <2>5
<1> QED
  BY <1>2, <1>3, <1>4, <1>5 DEF Next, vars, GraphRaises, StepLimitExceeded, RequestUserInput,
     FinishMission, Resume, CrashAndRecover

\* Which artifact a step adds, and after which.
Asks ==
  /\ RequestUserInput
  /\ artifacts' = Append(artifacts, Question(ExtractPending(messages)))
  /\ ExtractPending(messages) \in 1..Len(messages)

Answers ==
  /\ Resume
  /\ artifacts # <<>> /\ Len(artifacts) \in 1..Len(artifacts)
  /\ artifacts[Len(artifacts)] \in Artifact
  /\ artifacts[Len(artifacts)].kind = "question"
  /\ artifacts' = Append(artifacts, UserResponse(artifacts[Len(artifacts)].about))

LEMMA ArtifactSteps ==
  ASSUME Shape, [Next]_vars
  PROVE  Asks \/ Answers \/ (UNCHANGED artifacts /\ ~RequestUserInput /\ ~Resume)
<1>0. artifacts \in Seq(Artifact) /\ Len(artifacts) \in Nat /\ messages \in Seq(Message)
  BY LenProperties DEF Shape, TypeOK
<1>1. CASE RequestUserInput
  BY <1>0, <1>1, PendingIsNewest DEF RequestUserInput, Asks
<1>2. CASE Resume
  <2>1. artifacts # <<>> /\ artifacts[Len(artifacts)].kind = "question"
    BY <1>2 DEF Resume, Shape
  <2>2. Len(artifacts) \in 1..Len(artifacts)
    BY <1>0, <2>1, EmptySeq
  <2>3. artifacts[Len(artifacts)] \in Artifact
    BY <1>0, <2>2, ElementOfSeq
  <2> QED  BY <1>2, <2>1, <2>2, <2>3 DEF Resume, Answers
<1> QED
  BY <1>1, <1>2 DEF Next, vars, Invoke, AtlasNode, ToolsNode, GraphRaises, StepLimitExceeded,
     FinishMission, CrashAndRecover

\* An artifact that is added is the last one; those before it stay.
LEMMA Added ==
  ASSUME NEW a \in Artifact, artifacts \in Seq(Artifact), artifacts' = Append(artifacts, a)
  PROVE  /\ artifacts' \in Seq(Artifact) /\ artifacts' # <<>>
         /\ Len(artifacts) \in Nat /\ Len(artifacts') = Len(artifacts) + 1
         /\ artifacts'[Len(artifacts')] = a
         /\ \A i \in 1..Len(artifacts) : artifacts'[i] = artifacts[i]
<1>1. Len(artifacts) \in Nat
  BY LenProperties
<1> QED  BY <1>1, AppendProperties

------------------------------------------------------------------------------
(* Types and shape. *)

LEMMA ShapeKept == Shape /\ [Next]_vars => Shape'
<1> SUFFICES ASSUME Shape, [Next]_vars
             PROVE  Shape'
  OBVIOUS
<1>0. /\ ThreadGrows /\ TypeOK
      /\ artifacts \in Seq(Artifact) /\ Len(artifacts) \in Nat
      /\ Len(messages) \in Nat /\ Len(messages') \in Nat
  BY ThreadOnlyGrows, LenProperties DEF Shape, TypeOK, ThreadGrows
<1>1. /\ state' \in {"running", "awaiting_user", "done", "failed"}
      /\ step_count' \in Nat
      /\ pc' \in {"fresh", "resume", "atlas", "tools", "decide", "idle"}
      /\ crashes' \in 0..MaxCrashes
  <2>1. FinishMission => state' \in {"done", "failed"}
    BY <1>0, MarkerIsOutcome DEF FinishMission, TypeOK
  <2>2. CrashAndRecover => crashes' \in 0..MaxCrashes
    BY <1>0, ConversationAssumption DEF CrashAndRecover, TypeOK
  <2> QED
    BY <1>0, <2>1, <2>2 DEF Next, vars, TypeOK, Invoke, AtlasNode, ToolsNode, GraphRaises,
       StepLimitExceeded, RequestUserInput, FinishMission, Resume, CrashAndRecover
<1>2. pc' = "idle" <=> state' # "running"
  <2>1. FinishMission => state' \in {"done", "failed"}
    BY <1>0, MarkerIsOutcome DEF FinishMission, TypeOK
  <2> QED
    BY <2>1 DEF Shape, Next, vars, Invoke, AtlasNode, ToolsNode, GraphRaises,
       StepLimitExceeded, RequestUserInput, FinishMission, Resume, CrashAndRecover
<1>3. pc' = "fresh" => artifacts' = <<>> /\ messages' = <<>>
  BY DEF Shape, Next, vars, Invoke, AtlasNode, ToolsNode, GraphRaises,
     StepLimitExceeded, RequestUserInput, FinishMission, Resume, CrashAndRecover
<1>4. CASE UNCHANGED artifacts /\ ~RequestUserInput /\ ~Resume
  <2>1. ASSUME NEW i \in 1..Len(artifacts)
        PROVE  artifacts[i].about \in Nat
    <3>1. artifacts[i] \in Artifact
      BY <1>0, ElementOfSeq
    <3> QED  BY <3>1 DEF Artifact
  <2>2. \A i \in 1..Len(artifacts) : artifacts[i].about <= Len(messages')
    BY <1>0, <2>1 DEF Shape, ThreadGrows
  <2>3. state' = "awaiting_user" => state = "awaiting_user"
    <3>1. FinishMission => state' \in {"done", "failed"}
      BY <1>0, MarkerIsOutcome DEF FinishMission, TypeOK
    <3> QED
      BY <1>4, <3>1 DEF Next, vars, Invoke, AtlasNode, ToolsNode, GraphRaises,
         StepLimitExceeded, CrashAndRecover
  <2>4. state' = "running" => state = "running"
    <3>1. FinishMission => state' \in {"done", "failed"}
      BY <1>0, MarkerIsOutcome DEF FinishMission, TypeOK
    <3> QED
      BY <1>4, <3>1 DEF Next, vars, Invoke, AtlasNode, ToolsNode, GraphRaises,
         StepLimitExceeded, CrashAndRecover
  <2> QED
    BY <1>0, <1>1, <1>2, <1>3, <1>4, <2>2, <2>3, <2>4 DEF Shape, TypeOK, ThreadGrows
<1>5. CASE Asks
  <2> DEFINE a == Question(ExtractPending(messages))
  <2>1. /\ a \in Artifact /\ a.kind = "question" /\ a.about \in 1..Len(messages)
        /\ artifacts' = Append(artifacts, a)
        /\ state = "running" /\ state' = "awaiting_user" /\ pc' = "idle" /\ messages' = messages
    BY <1>0, <1>5 DEF Asks, RequestUserInput, Question, Artifact, Shape
  <2> HIDE DEF a
  <2>2. /\ artifacts' \in Seq(Artifact) /\ artifacts' # <<>>
        /\ Len(artifacts') = Len(artifacts) + 1
        /\ artifacts'[Len(artifacts')] = a
        /\ \A i \in 1..Len(artifacts) : artifacts'[i] = artifacts[i]
    BY <1>0, <2>1, Added
  <2>3. artifacts = <<>> \/ artifacts[Len(artifacts)].kind = "user_response"
    BY <2>1 DEF Shape
  <2>4. \A i \in 1..Len(artifacts') : artifacts'[i].about <= Len(messages')
    BY <1>0, <2>1, <2>2 DEF Shape
  <2>5. ASSUME NEW i \in 1..Len(artifacts'), artifacts'[i].kind = "question",
               i < Len(artifacts')
        PROVE  artifacts'[i + 1] = UserResponse(artifacts'[i].about)
    <3>1. i \in 1..Len(artifacts) /\ artifacts[i].kind = "question"
      BY <1>0, <2>2, <2>5
    <3>2. i < Len(artifacts)
      BY <1>0, <2>3, <3>1, EmptySeq
    <3> QED  BY <1>0, <2>2, <3>1, <3>2 DEF Shape
  <2> QED  BY <1>0, <1>1, <1>2, <1>3, <2>1, <2>2, <2>4, <2>5 DEF Shape, TypeOK, ThreadGrows
<1>6. CASE Answers
  <2> DEFINE n == Len(artifacts)
             a == UserResponse(artifacts[n].about)
  <2>1. /\ a \in Artifact /\ a.kind = "user_response" /\ a.about = artifacts[n].about
        /\ artifacts[n].kind = "question" /\ n \in 1..n
        /\ artifacts' = Append(artifacts, a)
        /\ state' = "running" /\ pc' = "resume" /\ messages' = messages
    BY <1>0, <1>6 DEF Answers, Resume, UserResponse, Artifact
  <2>2. /\ artifacts' \in Seq(Artifact) /\ artifacts' # <<>>
        /\ Len(artifacts') = n + 1
        /\ artifacts'[n + 1] = a
        /\ \A i \in 1..n : artifacts'[i] = artifacts[i]
    BY <1>0, <2>1, Added
  <2> HIDE DEF n, a
  <2>3. n \in Nat /\ n = Len(artifacts)
    BY <1>0 DEF n
  <2>4. \A i \in 1..Len(artifacts') : artifacts'[i].about <= Len(messages')
    BY <1>0, <2>1, <2>2, <2>3 DEF Shape
  <2>5. ASSUME NEW i \in 1..Len(artifacts'), artifacts'[i].kind = "question",
               i < Len(artifacts')
        PROVE  artifacts'[i + 1] = UserResponse(artifacts'[i].about)
    <3>1. i \in 1..n /\ artifacts'[i] = artifacts[i]
      BY <2>2, <2>3, <2>5
    <3>2. CASE i = n
      BY <2>2, <3>1, <3>2 DEF a
    <3>3. CASE i < n
      BY <2>2, <2>3, <2>5, <3>1, <3>3 DEF Shape
    <3> QED  BY <2>3, <3>1, <3>2, <3>3
  <2>6. artifacts'[Len(artifacts')].kind = "user_response"
    BY <2>1, <2>2
  <2> QED  BY <1>0, <1>1, <1>2, <1>3, <2>1, <2>2, <2>4, <2>5, <2>6 DEF Shape, TypeOK, ThreadGrows
<1> QED  BY <1>4, <1>5, <1>6, ArtifactSteps

LEMMA InitShape == Init => Shape /\ Reached
<1> SUFFICES ASSUME Init
             PROVE  Shape /\ Reached
  OBVIOUS
<1>1. messages = <<>> /\ messages \in Seq(Message) /\ Len(messages) = 0
  BY EmptySeq DEF Init
<1>2. \/ artifacts = <<>> /\ state = "running" /\ pc = "fresh"
      \/ artifacts = <<Question(0)>> /\ state = "awaiting_user" /\ pc = "idle"
  BY DEF Init
<1>3. CASE artifacts = <<>>
  <2>1. artifacts \in Seq(Artifact) /\ Len(artifacts) = 0
    BY <1>3, EmptySeq
  <2> QED
    BY <1>1, <1>2, <1>3, <2>1, ConversationAssumption DEF Init, Shape, TypeOK, Reached
<1>4. CASE artifacts = <<Question(0)>>
  <2>1. Question(0) \in Artifact /\ Question(0).kind = "question" /\ Question(0).about = 0
    BY DEF Question, Artifact
  <2>2. PICK a \in Artifact : a = Question(0)
    BY <2>1
  <2>3. /\ artifacts \in Seq(Artifact) /\ Len(artifacts) = 1 /\ artifacts # <<>>
        /\ \A i \in 1..1 : artifacts[i] = a
    BY <1>4, <2>2
  <2> QED
    BY <1>1, <1>2, <1>4, <2>1, <2>2, <2>3, ConversationAssumption DEF Init, Shape, TypeOK, Reached
<1> QED  BY <1>2, <1>3, <1>4

\* Mission, artifacts and thread keep their types: what is read off the last
\* messages is always a question that was raised, or an outcome.
THEOREM ConversationTypes == Spec => []TypeOK
<1>1. Init => Shape
  BY InitShape
<1>2. Shape => TypeOK
  BY DEF Shape
<1> QED  BY <1>1, <1>2, ShapeKept, PTL DEF Spec

------------------------------------------------------------------------------
(* Answers. *)

LEMMA ReachedKept ==
  ASSUME Shape, Reached, [Next]_vars
  PROVE  Reached'
<1>0. /\ ThreadGrows /\ TypeOK /\ DOMAIN artifacts = 1..Len(artifacts)
      /\ artifacts \in Seq(Artifact) /\ Len(artifacts) \in Nat
      /\ messages \in Seq(Message) /\ Len(messages) \in Nat /\ Len(messages') \in Nat
  BY ThreadOnlyGrows, LenProperties DEF Shape, TypeOK, ThreadGrows
<1>1. ASSUME NEW i \in 1..Len(artifacts), Told(i), artifacts'[i] = artifacts[i]
      PROVE  Told(i)'
  <2>1. PICK j \in 1..Len(messages) :
           j > artifacts[i].about /\ messages[j] = Human(artifacts[i].about)
    BY <1>1 DEF Told
  <2>2. j \in 1..Len(messages') /\ messages'[j] = messages[j]
    BY <1>0, <2>1 DEF ThreadGrows
  <2> QED  BY <1>1, <2>1, <2>2 DEF Told
<1>2. CASE UNCHANGED artifacts /\ ~RequestUserInput /\ ~Resume
  <2>1. CASE pc \in {"atlas", "tools", "decide"} \/ pc' \notin {"atlas", "tools", "decide"}
    BY <1>1, <1>2, <2>1 DEF Reached
  <2>2. CASE pc \notin {"atlas", "tools", "decide"} /\ pc' \in {"atlas", "tools", "decide"}
    <3>1. Invoke
      BY <1>2, <2>2 DEF Next, vars, AtlasNode, ToolsNode, GraphRaises,
         StepLimitExceeded, FinishMission, CrashAndRecover
    <3>2. CASE artifacts = <<>>
      BY <1>0, <1>2, <3>2, EmptySeq DEF Reached
    <3>3. CASE artifacts # <<>>
      <4> DEFINE n == Len(artifacts)
      <4>1. pc = "resume" /\ artifacts[n].kind = "user_response" /\ n \in 1..n
        BY <1>0, <3>1, <3>3, EmptySeq DEF Invoke, Shape
      <4>2. artifacts[n] \in Artifact
        BY <1>0, <4>1, ElementOfSeq
      <4>3. PICK h \in Message : h = Human(artifacts[n].about)
        BY <4>2 DEF Human, Message, Artifact
      <4>4. messages' = messages \o <<h>>
        BY <1>0, <3>1, <3>3, <4>1, <4>3, SeedIsLast DEF Invoke
      <4>5. Len(messages') = Len(messages) + 1 /\ messages'[Len(messages) + 1] = h
        <5>1. <<h>> \in Seq(Message) /\ Len(<<h>>) = 1 /\ <<h>>[1] = h
          OBVIOUS
        <5> QED  BY <1>0, <4>4, <5>1, ConcatProperties
      <4>6. artifacts[n].about <= Len(messages) /\ artifacts[n].about \in Nat
        BY <4>1, <4>2 DEF Shape, Artifact
      <4>7. Told(n)'
        <5>1. artifacts'[n] = artifacts[n]
          BY <1>2
        <5>2. Len(messages) + 1 \in 1..Len(messages') /\ Len(messages) + 1 > artifacts[n].about
          BY <1>0, <4>5, <4>6
        <5>3. \E j \in 1..Len(messages') :
                j > artifacts[n].about /\ messages'[j] = Human(artifacts[n].about)
          BY <4>3, <4>5, <5>2
        <5> QED  BY <1>2, <5>3 DEF Told
      <4>8. \A i \in 1..n : i < n \/ i = n
        <5>1. n \in Nat
          BY <1>0
        <5> HIDE DEF n
        <5> QED  BY <5>1
      <4> QED  BY <1>1, <1>2, <4>7, <4>8 DEF Reached
    <3> QED  BY <3>2, <3>3
  <2> QED  BY <2>1, <2>2
<1>3. CASE Asks
  <2> DEFINE a == Question(ExtractPending(messages))
  <2>1. /\ a \in Artifact /\ a.kind = "question" /\ artifacts' = Append(artifacts, a)
        /\ pc = "decide"
    BY <1>0, <1>3 DEF Asks, RequestUserInput, Question, Artifact
  <2> HIDE DEF a
  <2>2. /\ Len(artifacts') = Len(artifacts) + 1 /\ artifacts'[Len(artifacts) + 1] = a
        /\ \A i \in 1..Len(artifacts) : artifacts'[i] = artifacts[i]
    BY <1>0, <2>1, Added
  <2> SUFFICES ASSUME NEW i \in 1..Len(artifacts'), artifacts'[i].kind = "user_response"
               PROVE  Told(i)'
    BY DEF Reached
  <2>3. i \in 1..Len(artifacts)
    BY <1>0, <2>1, <2>2
  <2> QED  BY <1>1, <2>1, <2>2, <2>3 DEF Reached
<1>4. CASE Answers
  <2> DEFINE a == UserResponse(artifacts[Len(artifacts)].about)
  <2>1. /\ a \in Artifact /\ artifacts' = Append(artifacts, a) /\ pc' = "resume"
        /\ artifacts[Len(artifacts)].kind = "question"
    BY <1>0, <1>4 DEF Answers, Resume, UserResponse, Artifact
  <2> HIDE DEF a
  <2>2. /\ Len(artifacts') = Len(artifacts) + 1
        /\ \A i \in 1..Len(artifacts) : artifacts'[i] = artifacts[i]
    BY <1>0, <2>1, Added
  <2> SUFFICES ASSUME NEW i \in 1..Len(artifacts'), artifacts'[i].kind = "user_response",
                      i < Len(artifacts')
               PROVE  Told(i)'
    BY <2>1 DEF Reached
  <2>3. i \in 1..Len(artifacts) /\ artifacts'[i] = artifacts[i]
    BY <1>0, <2>2
  <2>4. i < Len(artifacts)
    BY <1>0, <2>1, <2>3
  <2> QED  BY <1>1, <2>3, <2>4 DEF Reached
<1> QED  BY <1>2, <1>3, <1>4, ArtifactSteps

\* An answer is never lost between two processes.
THEOREM AnswersAreNotLost == Spec => []AnswersReachTheGraph
<1>1. Shape /\ Reached /\ [Next]_vars => Shape' /\ Reached'
  BY ShapeKept, ReachedKept
<1>2. Shape /\ Reached => AnswersReachTheGraph
  <2> SUFFICES ASSUME Shape, Reached
               PROVE  AnswersReachTheGraph
    OBVIOUS
  <2>1. DOMAIN artifacts = 1..Len(artifacts) /\ DOMAIN messages = 1..Len(messages)
    BY LenProperties DEF Shape, TypeOK
  <2> QED  BY <2>1 DEF AnswersReachTheGraph, Reached, Told
<1> QED  BY InitShape, <1>1, <1>2, PTL DEF Spec

------------------------------------------------------------------------------
(* Questions. *)

QuestionsInv == Shape /\ Reached /\ NoQuestionTwice /\ AskedIsNewest

\* A question the owner is asked was not asked before: it would have been answered,
\* and the answer would follow it in the thread.
LEMMA NewQuestion ==
  ASSUME Shape, Reached, Asks, NEW i \in 1..Len(artifacts)
  PROVE  artifacts[i] # Question(ExtractPending(messages))
<1> DEFINE q == ExtractPending(messages)
<1>0. /\ artifacts \in Seq(Artifact) /\ Len(artifacts) \in Nat /\ messages \in Seq(Message)
      /\ state = "running" /\ pc = "decide" /\ q # 0
  BY LenProperties DEF Shape, TypeOK, Asks, RequestUserInput
<1> SUFFICES ASSUME artifacts[i] = Question(q)
             PROVE  FALSE
  OBVIOUS
<1>1. artifacts[i].kind = "question" /\ artifacts[i].about = q
  BY DEF Question
<1>2. artifacts[Len(artifacts)].kind = "user_response"
  BY <1>0, EmptySeq DEF Shape
<1>3. i < Len(artifacts) /\ i + 1 \in 1..Len(artifacts)
  BY <1>0, <1>1, <1>2
<1>4. artifacts[i + 1] = UserResponse(q)
  BY <1>1, <1>3 DEF Shape
<1>5. artifacts[i + 1].kind = "user_response" /\ artifacts[i + 1].about = q
  BY <1>4 DEF UserResponse
<1>6. Told(i + 1)
  BY <1>0, <1>3, <1>5 DEF Reached
<1>7. PICK j \in 1..Len(messages) : j > q /\ messages[j] = Human(q)
  BY <1>5, <1>6 DEF Told
<1>8. messages[j].type = "human"
  BY <1>7 DEF Human
<1> QED  BY <1>0, <1>7, <1>8, PendingIsNewest

LEMMA QuestionsKept == QuestionsInv /\ [Next]_vars => QuestionsInv'
<1> SUFFICES ASSUME QuestionsInv, [Next]_vars
             PROVE  QuestionsInv'
  OBVIOUS
<1>0. /\ Shape /\ Reached /\ Shape' /\ Reached'
      /\ artifacts \in Seq(Artifact) /\ Len(artifacts) \in Nat
      /\ messages \in Seq(Message) /\ messages' \in Seq(Message)
      /\ DOMAIN artifacts = 1..Len(artifacts) /\ DOMAIN artifacts' = 1..Len(artifacts')
      /\ DOMAIN messages = 1..Len(messages) /\ DOMAIN messages' = 1..Len(messages')
  <2>1. Shape /\ Reached /\ Shape' /\ Reached'
    BY ShapeKept, ReachedKept DEF QuestionsInv
  <2> QED  BY <2>1, LenProperties DEF Shape, TypeOK
<1>1. CASE UNCHANGED artifacts /\ ~RequestUserInput /\ ~Resume
  <2>1. NoQuestionTwice'
    BY <1>1 DEF QuestionsInv, NoQuestionTwice
  <2>2. FinishMission => state' \in {"done", "failed"}
    BY <1>0, MarkerIsOutcome DEF FinishMission, Shape, TypeOK
  <2>3. state' = "awaiting_user" => state = "awaiting_user" /\ UNCHANGED messages
    BY <1>0, <1>1, <2>2 DEF Shape, Next, vars, Invoke, AtlasNode, ToolsNode, GraphRaises,
       StepLimitExceeded, CrashAndRecover
  <2>4. AskedIsNewest'
    BY <1>1, <2>3 DEF QuestionsInv, AskedIsNewest
  <2> QED  BY <1>0, <2>1, <2>4 DEF QuestionsInv
<1>2. CASE Asks
  <2> DEFINE q == ExtractPending(messages)
             a == Question(q)
             n == Len(artifacts)
  <2>1. /\ a \in Artifact /\ a.kind = "question" /\ a.about = q /\ artifacts' = Append(artifacts, a)
        /\ messages' = messages
        /\ \A j \in 1..Len(messages) :
             j > q => messages[j].type # "human" /\ messages[j].body # "pending"
    BY <1>0, <1>2, PendingIsNewest DEF Asks, RequestUserInput, Question, Artifact
  <2>2. \A i \in 1..n : artifacts[i] # a
    BY <1>0, <1>2, NewQuestion
  <2> HIDE DEF a, q
  <2>3. /\ n \in Nat /\ Len(artifacts') = n + 1 /\ artifacts'[n + 1] = a
        /\ \A i \in 1..n : artifacts'[i] = artifacts[i]
    BY <1>0, <2>1, Added
  <2>4. NoQuestionTwice'
    <3> SUFFICES ASSUME NEW i \in 1..Len(artifacts'), NEW j \in 1..Len(artifacts'),
                        artifacts'[i] = artifacts'[j], artifacts'[i].kind = "question"
                 PROVE  i = j
      BY <1>0 DEF NoQuestionTwice
    <3>1. (i \in 1..n \/ i = n + 1) /\ (j \in 1..n \/ j = n + 1)
      BY <2>3
    <3>2. CASE i \in 1..n /\ j \in 1..n
      BY <1>0, <2>3, <3>2 DEF QuestionsInv, NoQuestionTwice
    <3> QED  BY <2>2, <2>3, <3>1, <3>2
  <2>5. AskedIsNewest'
    <3>1. artifacts'[Len(artifacts')].about = q
      BY <2>1, <2>3
    <3> QED  BY <1>0, <2>1, <3>1 DEF AskedIsNewest
  <2> QED  BY <1>0, <2>4, <2>5 DEF QuestionsInv
<1>3. CASE Answers
  <2> DEFINE a == UserResponse(artifacts[Len(artifacts)].about)
             n == Len(artifacts)
  <2>1. /\ a \in Artifact /\ a.kind = "user_response" /\ artifacts' = Append(artifacts, a)
        /\ state' = "running"
    BY <1>3 DEF Answers, Resume, UserResponse, Artifact
  <2> HIDE DEF a
  <2>2. /\ n \in Nat /\ Len(artifacts') = n + 1 /\ artifacts'[n + 1] = a
        /\ \A i \in 1..n : artifacts'[i] = artifacts[i]
    BY <1>0, <2>1, Added
  <2>3. NoQuestionTwice'
    <3> SUFFICES ASSUME NEW i \in 1..Len(artifacts'), NEW j \in 1..Len(artifacts'),
                        artifacts'[i] = artifacts'[j], artifacts'[i].kind = "question"
                 PROVE  i = j
      BY <1>0 DEF NoQuestionTwice
    <3>1. i \in 1..n /\ j \in 1..n
      BY <2>1, <2>2
    <3> QED  BY <1>0, <2>2, <3>1 DEF QuestionsInv, NoQuestionTwice
  <2>4. AskedIsNewest'
    BY <2>1 DEF AskedIsNewest
  <2> QED  BY <1>0, <2>3, <2>4 DEF QuestionsInv
<1> QED  BY <1>0, <1>1, <1>2, <1>3, ArtifactSteps

LEMMA InitQuestions == Init => QuestionsInv
<1> SUFFICES ASSUME Init
             PROVE  QuestionsInv
  OBVIOUS
<1>1. Shape /\ Reached
  BY InitShape
<1>2. messages = <<>> /\ DOMAIN messages = {}
  BY DEF Init
<1>3. \A i, j \in DOMAIN artifacts : i = j
  BY DEF Init
<1> QED  BY <1>1, <1>2, <1>3 DEF QuestionsInv, NoQuestionTwice, AskedIsNewest

\* The owner is never asked the same question twice.
THEOREM QuestionsAreNew == Spec => []NoQuestionTwice
<1>1. QuestionsInv => NoQuestionTwice
  BY DEF QuestionsInv
<1> QED  BY InitQuestions, QuestionsKept, <1>1, PTL DEF Spec

\* What the owner is asked is the thread's last word: six messages are enough to see
\* that.
THEOREM QuestionIsLastWord == Spec => []AskedIsNewest
<1>1. QuestionsInv => AskedIsNewest
  BY DEF QuestionsInv
<1> QED  BY InitQuestions, QuestionsKept, <1>1, PTL DEF Spec

------------------------------------------------------------------------------
(* The step budget. *)

Own == {i \in 1..Len(artifacts) : artifacts[i].kind = "question" /\ artifacts[i].about # 0}

\* Between two questions the graph takes a step.
Budget ==
  /\ Cardinality(Own) <= MaxSteps
  /\ Cardinality(Own) <= step_count
  /\ pc \in {"tools", "decide"} => Cardinality(Own) < step_count

LEMMA BudgetKept ==
  ASSUME Shape, Budget, [Next]_vars
  PROVE  Budget'
<1>0. /\ artifacts \in Seq(Artifact) /\ Len(artifacts) \in Nat /\ messages \in Seq(Message)
      /\ step_count \in Nat /\ MaxSteps \in Nat
  BY LenProperties, ConversationAssumption DEF Shape, TypeOK
<1>1. IsFiniteSet(Own) /\ Cardinality(Own) \in Nat
  <2>1. Own \subseteq 1..Len(artifacts) /\ IsFiniteSet(1..Len(artifacts))
    BY <1>0, FS_Interval DEF Own
  <2> QED  BY <2>1, FS_Subset, FS_CardinalityType
<1>2. CASE UNCHANGED artifacts /\ ~RequestUserInput /\ ~Resume
  <2>1. Own' = Own
    BY <1>2 DEF Own
  <2>2. \/ step_count' = step_count + 1
        \/ step_count' = step_count /\ (pc' \in {"tools", "decide"} => pc \in {"tools", "decide"})
    BY <1>2 DEF Next, vars, Invoke, AtlasNode, ToolsNode, GraphRaises, StepLimitExceeded,
       FinishMission, CrashAndRecover
  <2> QED  BY <1>0, <1>1, <2>1, <2>2 DEF Budget
<1>3. CASE Asks
  <2> DEFINE a == Question(ExtractPending(messages))
             n == Len(artifacts)
  <2>1. /\ a \in Artifact /\ artifacts' = Append(artifacts, a)
        /\ pc = "decide" /\ pc' = "idle" /\ step_count' = step_count /\ step_count <= MaxSteps
    BY <1>0, <1>3 DEF Asks, RequestUserInput, Question, Artifact
  <2> HIDE DEF a
  <2>2. /\ n \in Nat /\ Len(artifacts') = n + 1
        /\ \A i \in 1..n : artifacts'[i] = artifacts[i]
    BY <1>0, <2>1, Added
  <2>3. Own' \subseteq Own \union {n + 1}
    BY <2>2 DEF Own
  <2>4. /\ IsFiniteSet(Own \union {n + 1})
        /\ Cardinality(Own \union {n + 1}) <= Cardinality(Own) + 1
        /\ Cardinality(Own \union {n + 1}) \in Nat
    <3>1. /\ IsFiniteSet(Own \union {n + 1})
          /\ Cardinality(Own \union {n + 1}) =
               IF n + 1 \in Own THEN Cardinality(Own) ELSE Cardinality(Own) + 1
      BY <1>1, FS_AddElement
    <3> QED  BY <1>1, <3>1
  <2>5. Cardinality(Own') <= Cardinality(Own) + 1 /\ Cardinality(Own') \in Nat
    BY <1>1, <2>3, <2>4, FS_Subset, FS_CardinalityType
  <2> QED  BY <1>0, <1>1, <2>1, <2>5 DEF Budget
<1>4. CASE Answers
  <2> DEFINE a == UserResponse(artifacts[Len(artifacts)].about)
             n == Len(artifacts)
  <2>1. /\ a \in Artifact /\ a.kind = "user_response" /\ artifacts' = Append(artifacts, a)
        /\ pc' = "resume" /\ step_count' = step_count
    BY <1>4 DEF Answers, Resume, UserResponse, Artifact
  <2> HIDE DEF a
  <2>2. /\ n \in Nat /\ Len(artifacts') = n + 1 /\ artifacts'[n + 1] = a
        /\ \A i \in 1..n : artifacts'[i] = artifacts[i]
    BY <1>0, <2>1, Added
  <2>3. Own' = Own
    BY <2>1, <2>2 DEF Own
  <2> QED  BY <1>0, <1>1, <2>1, <2>3 DEF Budget
<1> QED  BY <1>2, <1>3, <1>4, ArtifactSteps

\* A mission asks at most MaxSteps questions of its own, over all its resumes and
\* restarts.
THEOREM FewQuestions == Spec => []QuestionsAreBounded
<1>1. Init => Budget
  <2> SUFFICES ASSUME Init
               PROVE  Budget
    OBVIOUS
  <2>1. Own = {}
    BY DEF Init, Own, Question
  <2>2. Cardinality(Own) = 0
    BY <2>1, FS_EmptySet
  <2> QED  BY <2>2, ConversationAssumption DEF Init, Budget
<1>2. Shape /\ Budget /\ [Next]_vars => Shape' /\ Budget'
  BY ShapeKept, BudgetKept
<1>3. Shape /\ Budget => QuestionsAreBounded
  <2> SUFFICES ASSUME Shape, Budget
               PROVE  QuestionsAreBounded
    OBVIOUS
  <2>1. DOMAIN artifacts = 1..Len(artifacts)
    BY LenProperties DEF Shape, TypeOK
  <2> QED  BY <2>1 DEF QuestionsAreBounded, Budget, Own
<1> QED  BY InitShape, <1>1, <1>2, <1>3, PTL DEF Spec
=============================================================================
