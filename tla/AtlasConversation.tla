-------------------------- MODULE AtlasConversation --------------------------
(***************************************************************************)
(* The LangGraph thread of one mission: what _run_mission_sync feeds the   *)
(* Atlas graph, which messages the graph's nodes append, how the daemon    *)
(* reads the outcome off the last messages (agents/atlas/agent.py,         *)
(* agents/atlas/pending.py, daemon/atlas_daemon.py), and what remains of it*)
(* when the owner answers or the daemon restarts.                          *)
(*                                                                         *)
(* A message is its type and what the readers look for in its content.  A  *)
(* question is identified by the index of the message that raised it; an   *)
(* answer names the question it is about.  The checkpoint follows every    *)
(* node, so the messages survive a crash.                                  *)
(***************************************************************************)
EXTENDS Naturals, Sequences, FiniteSets, FiniteSetsExt

CONSTANTS
  MaxSteps,    \* settings.atlas_max_steps
  MaxBatch,    \* bound on the tool calls of one AI message
  MaxCrashes   \* bound on restarts of the daemon

ASSUME ConversationAssumption ==
  /\ MaxSteps \in Nat
  /\ MaxBatch \in Nat \ {0}
  /\ MaxCrashes \in Nat

VARIABLES
  state,       \* mission.state, from commit_plan on
  artifacts,   \* questions asked and answers given
  messages,    \* the thread's messages, as checkpointed
  step_count,  \* the thread's step counter, checkpointed with them
  pc,          \* what the run does next
  crashes

vars == <<state, artifacts, messages, step_count, pc, crashes>>

Message == [type : {"human", "ai", "tool"},
            body : {"text", "calls", "pending", "done", "failed"},
            about : Nat]

Human(q) == [type |-> "human", body |-> "text", about |-> q]
Ai(body) == [type |-> "ai", body |-> body, about |-> 0]
Tool(body) == [type |-> "tool", body |-> body, about |-> 0]

Artifact == [kind : {"question", "user_response"}, about : Nat]

Question(q) == [kind |-> "question", about |-> q]
UserResponse(q) == [kind |-> "user_response", about |-> q]

\* The indices of the last six messages.
Window(msgs) == {i \in DOMAIN msgs : i + 6 > Len(msgs)}

\* Mutant: the newest pending question, answered or not.
ExtractPending_Answered(msgs) ==
  LET asked == {i \in Window(msgs) : msgs[i].body = "pending"}
  IN  IF asked = {} THEN 0 ELSE Max(asked)

\* Mutant: the first pending question of the window instead of the last.
ExtractPending_First(msgs) ==
  LET asked == {i \in Window(msgs) : msgs[i].body = "pending"}
      first == Min(asked)
  IN  IF \/ asked = {}
         \/ \E j \in Window(msgs) : j > first /\ msgs[j].type = "human"
        THEN 0
        ELSE first

\* extract_pending_from_output: the newest pending question in the window, or 0
\* when there is none or a human message follows it.
ExtractPending(msgs) ==
  LET asked  == {i \in Window(msgs) : msgs[i].body = "pending"}
      newest == Max(asked)
  IN  IF \/ asked = {}
         \/ \E j \in Window(msgs) : j > newest /\ msgs[j].type = "human"
        THEN 0
        ELSE newest

\* Mutant: the last tool message is taken for a marker without looking.
LastFinishMarker_Unchecked(msgs) ==
  LET results == {i \in Window(msgs) : msgs[i].type = "tool"}
  IN  IF results = {} THEN 0 ELSE Max(results)

\* _last_finish_marker: the newest marker in the window, or 0.
LastFinishMarker(msgs) ==
  LET marked == {i \in Window(msgs) : msgs[i].body \in {"done", "failed"}}
  IN  IF marked = {} THEN 0 ELSE Max(marked)

\* Mutant: the artifacts are not searched from the end.
Seed_First ==
  LET answers == {i \in DOMAIN artifacts : artifacts[i].kind = "user_response"}
  IN  IF answers = {} THEN <<>> ELSE <<Human(artifacts[Min(answers)].about)>>

\* The newest user_response artifact as a human message, if there is one.
Seed ==
  LET answers == {i \in DOMAIN artifacts : artifacts[i].kind = "user_response"}
  IN  IF answers = {} THEN <<>> ELSE <<Human(artifacts[Max(answers)].about)>>

\* A mission Atlas just committed the plan of, or one a sentinel parked.
Init ==
  /\ \/ state = "running" /\ artifacts = <<>> /\ pc = "fresh"
     \/ state = "awaiting_user" /\ artifacts = <<Question(0)>> /\ pc = "idle"
  /\ messages = <<>>
  /\ step_count = 0
  /\ crashes = 0

\* graph.invoke: a fresh run starts the thread with the intent, a resumed one
\* continues it with the answer; both enter the graph at the atlas node.
Invoke ==
  /\ \/ /\ pc = "fresh"
        /\ messages' = <<Human(0)>>
     \/ /\ pc = "resume"
        /\ messages' = messages \o Seed
  /\ pc' = "atlas"
  /\ UNCHANGED <<state, artifacts, step_count, crashes>>

\* _atlas_node and _route: tool calls lead on, a final text (which may itself
\* relay a question) or an exhausted step budget ends the graph.
AtlasNode ==
  /\ pc = "atlas"
  /\ step_count' = step_count + 1
  /\ \E body \in {"calls", "text", "pending"} :
       /\ messages' = Append(messages, Ai(body))
       /\ pc' = IF step_count' <= MaxSteps /\ body = "calls"
                  THEN "tools" ELSE "decide"
  /\ UNCHANGED <<state, artifacts, crashes>>

\* _atlas_tools_node and _route: one result per call; the graph ends when the
\* last of them is a finish marker.
ToolsNode ==
  /\ pc = "tools"
  /\ \E n \in 1 .. MaxBatch :
       \E results \in [1 .. n -> {"text", "pending", "done", "failed"}] :
         /\ messages' = messages \o [i \in 1 .. n |-> Tool(results[i])]
         /\ pc' = IF results[n] \in {"done", "failed"} THEN "decide" ELSE "atlas"
  /\ UNCHANGED <<state, artifacts, step_count, crashes>>

\* The LLM or a tool raised: _bounded_run fails the mission.
GraphRaises ==
  /\ pc \in {"atlas", "tools"}
  /\ state' = "failed"
  /\ pc' = "idle"
  /\ UNCHANGED <<artifacts, messages, step_count, crashes>>

(* The end of _run_mission_sync, in the order the code looks.              *)

StepLimitExceeded ==
  /\ pc = "decide"
  /\ step_count > MaxSteps
  /\ state' = "failed"
  /\ pc' = "idle"
  /\ UNCHANGED <<artifacts, messages, step_count, crashes>>

\* Mutant: the pending question is looked for before the step limit.
RequestUserInput_BeforeLimit ==
  /\ pc = "decide"
  /\ ExtractPending(messages) # 0
  /\ state' = "awaiting_user"
  /\ artifacts' = Append(artifacts, Question(ExtractPending(messages)))
  /\ pc' = "idle"
  /\ UNCHANGED <<messages, step_count, crashes>>

RequestUserInput ==
  /\ pc = "decide"
  /\ step_count <= MaxSteps
  /\ ExtractPending(messages) # 0
  /\ state' = "awaiting_user"
  /\ artifacts' = Append(artifacts, Question(ExtractPending(messages)))
  /\ pc' = "idle"
  /\ UNCHANGED <<messages, step_count, crashes>>

\* Mutant: no fall-through for a graph that ends without a marker.
FinishMission_MarkerOnly ==
  /\ pc = "decide"
  /\ step_count <= MaxSteps
  /\ ExtractPending(messages) = 0
  /\ LastFinishMarker(messages) # 0
  /\ state' = messages[LastFinishMarker(messages)].body
  /\ pc' = "idle"
  /\ UNCHANGED <<artifacts, messages, step_count, crashes>>

\* The marker's outcome; without a marker the mission counts as done.
FinishMission ==
  /\ pc = "decide"
  /\ step_count <= MaxSteps
  /\ ExtractPending(messages) = 0
  /\ \/ /\ LastFinishMarker(messages) # 0
        /\ state' = messages[LastFinishMarker(messages)].body
     \/ /\ LastFinishMarker(messages) = 0
        /\ state' = "done"
  /\ pc' = "idle"
  /\ UNCHANGED <<artifacts, messages, step_count, crashes>>

\* engine.resume and the run that mission_resumed schedules.
Resume ==
  /\ state = "awaiting_user"
  /\ state' = "running"
  /\ artifacts' =
       Append(artifacts, UserResponse(artifacts[Len(artifacts)].about))
  /\ pc' = "resume"
  /\ UNCHANGED <<messages, step_count, crashes>>

\* The daemon dies during a run and recovery finds the running mission: it is
\* resumed if it has a checkpoint and failed otherwise.
CrashAndRecover ==
  /\ state = "running"
  /\ crashes < MaxCrashes
  /\ crashes' = crashes + 1
  /\ IF messages # <<>>
       THEN pc' = "resume" /\ UNCHANGED state
       ELSE pc' = "idle" /\ state' = "failed"
  /\ UNCHANGED <<artifacts, messages, step_count>>

Next ==
  \/ Invoke
  \/ AtlasNode
  \/ ToolsNode
  \/ GraphRaises
  \/ StepLimitExceeded
  \/ RequestUserInput
  \/ FinishMission
  \/ Resume
  \/ CrashAndRecover

Spec == Init /\ [][Next]_vars

RunStep ==
  \/ Invoke
  \/ AtlasNode
  \/ ToolsNode
  \/ StepLimitExceeded
  \/ RequestUserInput
  \/ FinishMission

\* The run goes on while the daemon lives (recovery restarts it otherwise), and
\* the owner eventually answers a question; no crash and no error is owed.
FairSpec == Spec /\ WF_vars(RunStep) /\ WF_vars(Resume)

-----------------------------------------------------------------------------
(* Properties                                                              *)

TypeOK ==
  /\ state \in {"running", "awaiting_user", "done", "failed"}
  /\ artifacts \in Seq(Artifact)
  /\ messages \in Seq(Message)
  /\ step_count \in Nat
  /\ pc \in {"fresh", "resume", "atlas", "tools", "decide", "idle"}
  /\ crashes \in 0 .. MaxCrashes

\* The owner is never asked the same question twice: once answered, a question
\* still in the message window must not park the mission again.
NoQuestionTwice ==
  \A i, j \in DOMAIN artifacts :
    artifacts[i] = artifacts[j] /\ artifacts[i].kind = "question" => i = j

\* What the owner is asked is the thread's last word: the six-message window
\* agrees with the whole history that no newer question and nothing the owner
\* said comes after it.
AskedIsNewest ==
  state = "awaiting_user" =>
    \A i \in DOMAIN messages :
      i > artifacts[Len(artifacts)].about =>
        messages[i].type # "human" /\ messages[i].body # "pending"

\* An answer is never lost between two processes: whenever the graph works on a
\* mission, each answer the owner gave is in the thread, after its question.
AnswersReachTheGraph ==
  pc \in {"atlas", "tools", "decide"} =>
    \A i \in DOMAIN artifacts :
      artifacts[i].kind = "user_response" =>
        \E j \in DOMAIN messages :
          /\ j > artifacts[i].about
          /\ messages[j] = Human(artifacts[i].about)

\* A mission cannot hold its owner hostage: the step counter runs on across
\* resumes and restarts, so it asks at most MaxSteps questions of its own.
QuestionsAreBounded ==
  Cardinality({i \in DOMAIN artifacts : artifacts[i].kind = "question"
                                           /\ artifacts[i].about # 0})
    <= MaxSteps

\* With an owner who answers, every mission ends: it does not bounce between
\* running and awaiting_user for ever.
MissionEnds == <>(state \in {"done", "failed"})

\* pending.py: a human message after the pending question means "the user has
\* already answered" it.
HumanAfterPendingMeansAnswered ==
  pc = "decide" =>
    \A i, j \in Window(messages) :
      /\ messages[i].body = "pending"
      /\ \A k \in DOMAIN messages : k > i => messages[k].body # "pending"
      /\ j > i /\ messages[j].type = "human"
      => UserResponse(i) \in {artifacts[k] : k \in DOMAIN artifacts}

=============================================================================
