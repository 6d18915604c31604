---------------------------- MODULE AtlasDaemon ----------------------------
(***************************************************************************)
(* The mission engine (missions/engine.py), the processes that write       *)
(* mission rows (API and CLI requests, sentinels, the mailbox observer) and*)
(* the Atlas daemon that plans and runs missions (daemon/atlas_daemon.py,  *)
(* missions/recovery.py).                                                  *)
(*                                                                         *)
(* Every action is one database transaction, or one stretch of code that   *)
(* runs without giving another process the chance to interleave.  A run is *)
(* an asyncio task of _bounded_run together with the thread it waits for;  *)
(* pc[r] says which call of _run_mission_sync the thread makes next.       *)
(***************************************************************************)
EXTENDS MissionGuards, Naturals, Sequences, FiniteSets

CONSTANTS
  OwnerMissions,  \* missions the owner declares
  Delegated,      \* missions the mail sentinel declares for Atlas to run
  Parked,         \* missions a sentinel parks for its owner's review
  Runs,           \* identities of runs; one may be reused once it is idle
  MaxConcurrent,  \* settings.atlas_max_concurrent_missions
  MaxArtifacts,   \* bound: no new question once a mission has that many
  MaxFaults,      \* bound on crashes, shutdowns, deaths of a daemon task and
                  \* database errors of a run
  None

Missions == OwnerMissions \union Delegated \union Parked

ASSUME MissionsAssumption ==
  /\ OwnerMissions \intersect (Delegated \union Parked) = {}
  /\ Delegated \intersect Parked = {}
  /\ None \notin Missions
ASSUME BoundsAssumption ==
  /\ MaxConcurrent \in Nat \ {0}
  /\ MaxArtifacts \in Nat
  /\ MaxFaults \in Nat

VARIABLES
  state,      \* mission.state
  artifacts,  \* mission.artifacts, each reduced to its kind
  order,      \* rows in declared_at order
  ckpt,       \* missions with a LangGraph checkpoint
  pc,         \* where the run is; "idle" when it does not exist
  mid,        \* the mission the run works on
  fresh,      \* is_fresh_claim
  zombie,     \* the task timed out, its thread goes on
  phase,      \* the daemon's main loop
  listener,   \* its LISTEN connection
  sweeper,    \* its periodic sweep
  toCheck,    \* recovery: rows of list_live not handled yet
  recovered,  \* recovery: missions to schedule
  faults,     \* how many of them happened so far
  unsent,     \* committed resumes whose mission_resumed is not sent yet
  lost,       \* history: missions a mission_resumed was dropped for, or whose
              \* failure could not be recorded, since the last boot
  matched     \* the mission draft_diff found for a sent mail

rowVars    == <<state, artifacts, order>>
runVars    == <<pc, mid, fresh, zombie>>
daemonVars == <<phase, listener, sweeper, toCheck, recovered, faults>>
noteVars   == <<unsent, lost>>
vars       == <<rowVars, ckpt, runVars, daemonVars, noteVars, matched>>

\* Inside asyncio.wait_for: the thread is at one of these calls.
ThreadPc ==
  {"get", "commit_plan", "invoke", "graph", "request_user_input",
   "finish_failed", "finish_done", "finish_marker_failed",
   "finish_marker_done", "read_back", "returning"}

\* The task waits for the semaphore, or handles an exception of its thread.
RunPc == ThreadPc \union {"idle", "queued", "crashed"}

ArtifactKind == {"question", "user_response", "final_answer"}

Phase == {"down", "recovering", "scheduling", "sweeping", "up", "draining"}

-----------------------------------------------------------------------------

\* Tasks of the daemon's task set that are not done.
Active == {r \in Runs : pc[r] # "idle" /\ ~zombie[r]}

\* Tasks that hold the semaphore.
Holding == {r \in Active : pc[r] # "queued"}

\* engine._transition, the guarded update of one locked row.
Transition(m, to) ==
  /\ check_transition(state[m], to)
  /\ state' = [state EXCEPT ![m] = to]

AppendArtifact(m, kind) ==
  artifacts' = [artifacts EXCEPT ![m] = Append(@, kind)]

Goto(r, label) == pc' = [pc EXCEPT ![r] = label]

\* Mutant: the task is created without the id of its mission.
CreateTask_NoMission(r, m, isFresh) ==
  /\ pc[r] = "idle"
  /\ Goto(r, "queued")
  /\ fresh' = [fresh EXCEPT ![r] = isFresh]
  /\ UNCHANGED <<mid, zombie>>

\* asyncio.create_task(_bounded_run(...)) added to the task set.
CreateTask(r, m, isFresh) ==
  /\ pc[r] = "idle"
  /\ Goto(r, "queued")
  /\ mid' = [mid EXCEPT ![r] = m]
  /\ fresh' = [fresh EXCEPT ![r] = isFresh]
  /\ zombie' = [zombie EXCEPT ![r] = FALSE]

\* The task is done and, with its thread, gone.
EndTask(r) ==
  /\ Goto(r, "idle")
  /\ mid' = [mid EXCEPT ![r] = None]
  /\ fresh' = [fresh EXCEPT ![r] = FALSE]
  /\ zombie' = [zombie EXCEPT ![r] = FALSE]

\* Mutant: the claim also takes a row that another claim has moved already.
Oldest_Claimed(m) ==
  \E i \in DOMAIN order :
    /\ order[i] = m
    /\ state[m] \in {"declared", "planning"}
    /\ \A j \in 1 .. i - 1 : state[order[j]] # "declared"

\* The row the claim's sub-select returns: the oldest declared one.
Oldest(m) ==
  \E i \in DOMAIN order :
    /\ order[i] = m
    /\ state[m] = "declared"
    /\ \A j \in 1 .. i - 1 : state[order[j]] # "declared"

\* The sweep loop runs while there is capacity and something to claim.
SweepCanClaim ==
  /\ Cardinality(Active) < MaxConcurrent
  /\ \E m \in Missions : Oldest(m)

Init ==
  /\ state     = [m \in Missions |-> Absent]
  /\ artifacts = [m \in Missions |-> <<>>]
  /\ order     = <<>>
  /\ ckpt      = {}
  /\ pc        = [r \in Runs |-> "idle"]
  /\ mid       = [r \in Runs |-> None]
  /\ fresh     = [r \in Runs |-> FALSE]
  /\ zombie    = [r \in Runs |-> FALSE]
  /\ phase     = "down"
  /\ listener  = "off"
  /\ sweeper   = "on"
  /\ toCheck   = {}
  /\ recovered = {}
  /\ faults    = 0
  /\ unsent    = [m \in Missions |-> 0]
  /\ lost      = {}
  /\ matched   = None

-----------------------------------------------------------------------------
(* Requests: the owner through the API or the CLI, sentinels, the observer *)

\* engine.declare.  Its NOTIFY only hastens the sweep that runs anyway.
Declare(m) ==
  /\ m \notin Parked
  /\ state[m] = Absent
  /\ state' = [state EXCEPT ![m] = "declared"]
  /\ order' = Append(order, m)
  /\ UNCHANGED <<artifacts, ckpt, runVars, daemonVars, noteVars, matched>>

\* engine.park_for_review: INSERT and UPDATE in one transaction.
park_for_review(m) ==
  /\ m \in Parked
  /\ state[m] = Absent
  /\ state' = [state EXCEPT ![m] = "awaiting_user"]
  /\ order' = Append(order, m)
  /\ AppendArtifact(m, "question")
  /\ UNCHANGED <<ckpt, runVars, daemonVars, noteVars, matched>>

\* Mutant: the answer travels in the notification only.
resume_NoArtifact(m) ==
  /\ Transition(m, "running")
  /\ unsent' = [unsent EXCEPT ![m] = @ + 1]
  /\ UNCHANGED <<artifacts, order, ckpt, runVars, daemonVars, lost, matched>>

\* engine.resume: the guard alone decides, so planning missions pass too; the
\* notification is a later transaction of the same request.
resume(m) ==
  /\ Transition(m, "running")
  /\ AppendArtifact(m, "user_response")
  /\ unsent' = [unsent EXCEPT ![m] = @ + 1]
  /\ UNCHANGED <<order, ckpt, runVars, daemonVars, lost, matched>>

\* engine.cancel.
cancel(m) ==
  /\ Transition(m, "cancelled")
  /\ UNCHANGED <<artifacts, order, ckpt, runVars, daemonVars, noteVars,
                 matched>>

\* draft_diff looks, among the missions declared by sentinel:mail that wait for
\* their owner, for one with an artifact naming the mail a sent mail answers.
\* The evidence a sentinel parks never names it; what the LLM puts into the
\* artifact of its question is free, so a delegated mission may match ...
FindMatchingMission(m) ==
  /\ matched = None
  /\ m \in Delegated
  /\ state[m] = "awaiting_user"
  /\ matched' = m
  /\ UNCHANGED <<rowVars, ckpt, runVars, daemonVars, noteVars>>

\* ... asks an LLM for memories, and overwrites the state without looking.
TransitionMissionToDone ==
  /\ matched # None
  /\ state' = [state EXCEPT ![matched] = "done"]
  /\ matched' = None
  /\ UNCHANGED <<artifacts, order, ckpt, runVars, daemonVars, noteVars>>

\* The diff was trivial, the LLM failed, or the sentinel process died.
AbandonMatch ==
  /\ matched # None
  /\ matched' = None
  /\ UNCHANGED <<rowVars, ckpt, runVars, daemonVars, noteVars>>

-----------------------------------------------------------------------------
(* mission_resumed: pg_notify in its own transaction, after the commit     *)

\* Mutant: a notification that finds no capacity is dropped, as claims are.
DeliverResumed_IfCapacity(m) ==
  /\ unsent[m] > 0
  /\ unsent' = [unsent EXCEPT ![m] = @ - 1]
  /\ phase = "up" /\ listener = "on"
  /\ IF state[m] = "running" /\ Cardinality(Active) < MaxConcurrent
       THEN \E r \in Runs : CreateTask(r, m, FALSE)
       ELSE UNCHANGED runVars
  /\ UNCHANGED <<rowVars, ckpt, daemonVars, lost, matched>>

\* _listener and _schedule_resumed: a task per notification, if still RUNNING.
DeliverResumed(m) ==
  /\ unsent[m] > 0
  /\ unsent' = [unsent EXCEPT ![m] = @ - 1]
  /\ phase = "up" /\ listener = "on"
  /\ IF state[m] = "running"
       THEN \E r \in Runs : CreateTask(r, m, FALSE)
       ELSE UNCHANGED runVars
  /\ UNCHANGED <<rowVars, ckpt, daemonVars, lost, matched>>

\* Nobody listens, or the NOTIFY failed and _notify swallowed the exception.
DropResumed(m) ==
  /\ unsent[m] > 0
  /\ unsent' = [unsent EXCEPT ![m] = @ - 1]
  /\ lost' = lost \union {m}
  /\ UNCHANGED <<rowVars, ckpt, runVars, daemonVars, matched>>

-----------------------------------------------------------------------------
(* Boot, recovery and shutdown of the daemon                               *)

\* Mutant: recovery looks at running missions only.
Boot_RunningOnly ==
  /\ phase = "down"
  /\ phase' = "recovering"
  /\ toCheck' = {m \in Missions : state[m] = "running"}
  /\ recovered' = {}
  /\ lost' = {}
  /\ UNCHANGED <<rowVars, ckpt, runVars, listener, sweeper, faults, unsent,
                 matched>>

\* resume_missions_after_restart reads list_live once and keeps what Atlas
\* may advance on its own.
Boot ==
  /\ phase = "down"
  /\ phase' = "recovering"
  /\ toCheck' = {m \in Missions : state[m] \in {"planning", "running"}}
  /\ recovered' = {}
  /\ lost' = {}
  /\ UNCHANGED <<rowVars, ckpt, runVars, listener, sweeper, faults, unsent,
                 matched>>

\* With a checkpoint: resume later.  Without: engine.finish(failed); if the
\* row is terminal by now, InvalidTransition ends the daemon's boot.
RecoverOne(m) ==
  /\ phase = "recovering"
  /\ m \in toCheck
  /\ IF m \in ckpt
       THEN /\ toCheck' = toCheck \ {m}
            /\ recovered' = recovered \union {m}
            /\ UNCHANGED <<state, phase>>
       ELSE \/ /\ Transition(m, "failed")
               /\ toCheck' = toCheck \ {m}
               /\ UNCHANGED <<phase, recovered>>
            \/ /\ ~check_transition(state[m], "failed")
               /\ phase' = "down"
               /\ toCheck' = {}
               /\ recovered' = {}
               /\ UNCHANGED state
  /\ UNCHANGED <<artifacts, order, ckpt, runVars, listener, sweeper, faults,
                 noteVars, matched>>

EndRecovery ==
  /\ phase = "recovering"
  /\ toCheck = {}
  /\ phase' = "scheduling"
  /\ UNCHANGED <<rowVars, ckpt, runVars, listener, sweeper, toCheck, recovered,
                 faults, noteVars, matched>>

\* _recover_and_schedule: one task per "resumed" outcome, whatever the
\* capacity; the event loop does not start any of them yet.
ScheduleRecovered(m) ==
  /\ phase = "scheduling"
  /\ m \in recovered
  /\ recovered' = recovered \ {m}
  /\ \E r \in Runs : CreateTask(r, m, FALSE)
  /\ UNCHANGED <<rowVars, ckpt, phase, listener, sweeper, toCheck, faults,
                 noteVars, matched>>

EndScheduling ==
  /\ phase = "scheduling"
  /\ recovered = {}
  /\ phase' = "sweeping"
  /\ UNCHANGED <<rowVars, ckpt, runVars, listener, sweeper, toCheck, recovered,
                 faults, noteVars, matched>>

\* The initial _schedule_declared_loop is over: the event loop starts turning.
EndInitialSweep ==
  /\ phase = "sweeping"
  /\ ~SweepCanClaim
  /\ phase' = "up"
  /\ UNCHANGED <<rowVars, ckpt, runVars, listener, sweeper, toCheck, recovered,
                 faults, noteVars, matched>>

\* notify.listen registers its LISTEN in a thread, once; an error there stays
\* in a future nobody awaits.
StartListening ==
  /\ phase = "up"
  /\ listener = "off"
  /\ \/ /\ listener' = "on"
        /\ UNCHANGED faults
     \/ /\ faults < MaxFaults
        /\ faults' = faults + 1
        /\ listener' = "dead"
  /\ UNCHANGED <<rowVars, ckpt, runVars, phase, sweeper, toCheck, recovered,
                 noteVars, matched>>

ListenerDies ==
  /\ phase = "up"
  /\ listener = "on"
  /\ faults < MaxFaults
  /\ faults' = faults + 1
  /\ listener' = "dead"
  /\ UNCHANGED <<rowVars, ckpt, runVars, phase, sweeper, toCheck, recovered,
                 noteVars, matched>>

\* An exception in _schedule_declared_loop, a lost database connection say,
\* ends the task of _periodic_sweep; nobody looks at it.
SweepDies ==
  /\ phase = "up"
  /\ sweeper = "on"
  /\ faults < MaxFaults
  /\ faults' = faults + 1
  /\ sweeper' = "dead"
  /\ UNCHANGED <<rowVars, ckpt, runVars, phase, listener, toCheck, recovered,
                 noteVars, matched>>

\* Mutant: no periodic sweep, claims follow notifications.
ClaimDeclared_OnNotify(m) ==
  /\ \/ phase = "sweeping"
     \/ phase = "up" /\ listener = "on"
  /\ Cardinality(Active) < MaxConcurrent
  /\ Oldest(m)
  /\ state' = [state EXCEPT ![m] = "planning"]
  /\ \E r \in Runs : CreateTask(r, m, TRUE)
  /\ UNCHANGED <<artifacts, order, ckpt, daemonVars, noteVars, matched>>

\* _claim_declared and create_task, one turn of _schedule_declared_loop: at
\* boot, on a mission_declared notification and every five seconds.
ClaimDeclared(m) ==
  /\ \/ phase = "sweeping"
     \/ phase = "up" /\ "on" \in {sweeper, listener}
  /\ Cardinality(Active) < MaxConcurrent
  /\ Oldest(m)
  /\ state' = [state EXCEPT ![m] = "planning"]
  /\ \E r \in Runs : CreateTask(r, m, TRUE)
  /\ UNCHANGED <<artifacts, order, ckpt, daemonVars, noteVars, matched>>

\* SIGTERM: no new task, those in flight drain.
Stop ==
  /\ phase = "up"
  /\ faults < MaxFaults
  /\ faults' = faults + 1
  /\ phase' = "draining"
  /\ listener' = "dead"
  /\ UNCHANGED <<rowVars, ckpt, runVars, sweeper, toCheck, recovered, noteVars,
                 matched>>

\* The process ends, by a crash or after the drain, and its threads with it.
Exit ==
  /\ \/ /\ phase \notin {"down", "draining"}
        /\ faults < MaxFaults
        /\ faults' = faults + 1
     \/ /\ phase = "draining"
        /\ UNCHANGED faults
  /\ phase' = "down"
  /\ listener' = "off"
  /\ sweeper' = "on"
  /\ toCheck' = {}
  /\ recovered' = {}
  /\ pc' = [r \in Runs |-> "idle"]
  /\ mid' = [r \in Runs |-> None]
  /\ fresh' = [r \in Runs |-> FALSE]
  /\ zombie' = [r \in Runs |-> FALSE]
  /\ UNCHANGED <<rowVars, ckpt, noteVars, matched>>

-----------------------------------------------------------------------------
(* One run: _bounded_run and the thread executing _run_mission_sync        *)

AtlasRuns == phase \in {"up", "draining"}

\* async with semaphore; asyncio.to_thread starts the thread.
AcquireSemaphore(r) ==
  /\ AtlasRuns
  /\ pc[r] = "queued"
  /\ Cardinality(Holding) < MaxConcurrent
  /\ Goto(r, "get")
  /\ UNCHANGED <<rowVars, ckpt, mid, fresh, zombie, daemonVars, noteVars,
                 matched>>

\* repository.get, and the branch taken on the state it returns.
GetMission(r) ==
  LET s == state[mid[r]]
  IN  /\ pc[r] = "get"
      /\ Goto(r, IF s = "planning" /\ ~fresh[r] THEN "finish_failed"
                 ELSE IF s \in {"running", "awaiting_user"} THEN "invoke"
                 ELSE "commit_plan")
      /\ UNCHANGED <<rowVars, ckpt, mid, fresh, zombie, daemonVars, noteVars,
                     matched>>

\* Mutant: the new artifacts replace the list instead of extending it.
EngineCall_Replaces(r, to, new, next) ==
  /\ \/ /\ Transition(mid[r], to)
        /\ artifacts' = [artifacts EXCEPT ![mid[r]] = new]
        /\ Goto(r, next)
     \/ /\ ~check_transition(state[mid[r]], to)
        /\ Goto(r, "crashed")
        /\ UNCHANGED <<state, artifacts>>
  /\ UNCHANGED <<order, ckpt, mid, fresh, zombie, daemonVars, noteVars,
                 matched>>

\* A guarded engine call of the thread that appends the artifacts new: next is
\* the call after it; InvalidTransition leaves the thread as an exception.
EngineCall(r, to, new, next) ==
  /\ \/ /\ Transition(mid[r], to)
        /\ artifacts' = [artifacts EXCEPT ![mid[r]] = @ \o new]
        /\ Goto(r, next)
     \/ /\ ~check_transition(state[mid[r]], to)
        /\ Goto(r, "crashed")
        /\ UNCHANGED <<state, artifacts>>
  /\ UNCHANGED <<order, ckpt, mid, fresh, zombie, daemonVars, noteVars,
                 matched>>

\* engine.commit_plan; the guard table lets it pass for a parked mission too.
CommitPlan(r) ==
  /\ pc[r] = "commit_plan"
  /\ EngineCall(r, "running", <<>>, "invoke")

\* graph.invoke writes its first checkpoint before it calls the LLM.
Invoke(r) ==
  /\ pc[r] = "invoke"
  /\ ckpt' = ckpt \union {mid[r]}
  /\ Goto(r, "graph")
  /\ UNCHANGED <<rowVars, mid, fresh, zombie, daemonVars, noteVars, matched>>

\* graph.invoke returns: step limit hit, pending input, finish marker or
\* neither (AtlasConversation says which), or it raises.
GraphReturns(r) ==
  /\ pc[r] = "graph"
  /\ \/ \E next \in {"finish_failed", "finish_marker_failed",
                     "finish_marker_done", "read_back", "crashed"} :
           Goto(r, next)
     \/ /\ Len(artifacts[mid[r]]) < MaxArtifacts
        /\ Goto(r, "request_user_input")
  /\ UNCHANGED <<rowVars, ckpt, mid, fresh, zombie, daemonVars, noteVars,
                 matched>>

\* Mutant: the mission is parked, the question stays behind.
RequestUserInput_Silent(r) ==
  /\ pc[r] = "request_user_input"
  /\ EngineCall(r, "awaiting_user", <<>>, "returning")

RequestUserInput(r) ==
  /\ pc[r] = "request_user_input"
  /\ EngineCall(r, "awaiting_user", <<"question">>, "returning")

\* engine.finish with the outcome the thread settled on; only a finish marker
\* brings an artifact, the answer.
Finish(r) ==
  \/ /\ pc[r] = "finish_failed"
     /\ EngineCall(r, "failed", <<>>, "returning")
  \/ /\ pc[r] = "finish_done"
     /\ EngineCall(r, "done", <<>>, "returning")
  \/ /\ pc[r] = "finish_marker_failed"
     /\ EngineCall(r, "failed", <<"final_answer">>, "returning")
  \/ /\ pc[r] = "finish_marker_done"
     /\ EngineCall(r, "done", <<"final_answer">>, "returning")

\* Mutant: the guard before the fall-through finish is inverted.
ReadBack_Inverted(r) ==
  /\ pc[r] = "read_back"
  /\ Goto(r, IF state[mid[r]] # "running" THEN "finish_done" ELSE "returning")
  /\ UNCHANGED <<rowVars, ckpt, mid, fresh, zombie, daemonVars, noteVars,
                 matched>>

\* Neither question nor marker: the state is read again before finishing.
ReadBack(r) ==
  /\ pc[r] = "read_back"
  /\ Goto(r, IF state[mid[r]] = "running" THEN "finish_done" ELSE "returning")
  /\ UNCHANGED <<rowVars, ckpt, mid, fresh, zombie, daemonVars, noteVars,
                 matched>>

\* The thread function returns; the task, if it still waits, is done.
Return(r) ==
  /\ pc[r] = "returning"
  /\ EndTask(r)
  /\ UNCHANGED <<rowVars, ckpt, daemonVars, noteVars, matched>>

\* A database error in a call of the thread leaves it as an exception.
CallFails(r) ==
  /\ pc[r] \in ThreadPc \ {"invoke", "graph", "returning"}
  /\ faults < MaxFaults
  /\ faults' = faults + 1
  /\ Goto(r, "crashed")
  /\ UNCHANGED <<rowVars, ckpt, mid, fresh, zombie, phase, listener, sweeper,
                 toCheck, recovered, noteVars, matched>>

\* Mutant: the handler writes the row without asking the guards.
FailMission_Unguarded(m) ==
  /\ state' = [state EXCEPT ![m] = "failed"]
  /\ UNCHANGED <<faults, lost>>

\* engine.finish(failed) from _bounded_run.  What it raises, InvalidTransition
\* or a database error, ends up in the task, which nobody inspects.
FailMission(m) ==
  \/ /\ check_transition(state[m], "failed")
     /\ state' = [state EXCEPT ![m] = "failed"]
     /\ UNCHANGED <<faults, lost>>
  \/ /\ ~check_transition(state[m], "failed")
     /\ UNCHANGED <<state, faults, lost>>
  \/ /\ faults < MaxFaults
     /\ faults' = faults + 1
     /\ lost' = lost \union {m}
     /\ UNCHANGED state

\* except Exception: atlas_crashed.  A task that timed out no longer listens.
HandleCrash(r) ==
  /\ pc[r] = "crashed"
  /\ IF zombie[r] THEN UNCHANGED <<state, faults, lost>> ELSE FailMission(mid[r])
  /\ EndTask(r)
  /\ UNCHANGED <<artifacts, order, ckpt, phase, listener, sweeper, toCheck,
                 recovered, unsent, matched>>

\* Mutant: a timeout is logged and the row left as it is.
Timeout_LeavesRow(r) ==
  /\ AtlasRuns
  /\ pc[r] \in ThreadPc
  /\ ~zombie[r]
  /\ zombie' = [zombie EXCEPT ![r] = TRUE]
  /\ UNCHANGED <<rowVars, ckpt, pc, mid, fresh, daemonVars, noteVars, matched>>

\* except TimeoutError: mission_timeout.  The thread cannot be killed.
Timeout(r) ==
  /\ AtlasRuns
  /\ pc[r] \in ThreadPc
  /\ ~zombie[r]
  /\ FailMission(mid[r])
  /\ zombie' = [zombie EXCEPT ![r] = TRUE]
  /\ UNCHANGED <<artifacts, order, ckpt, pc, mid, fresh, phase, listener,
                 sweeper, toCheck, recovered, unsent, matched>>

\* One step of a run that its thread or its task is bound to take.
RunStep(r) ==
  \/ AcquireSemaphore(r)
  \/ GetMission(r)
  \/ CommitPlan(r)
  \/ Invoke(r)
  \/ GraphReturns(r)
  \/ RequestUserInput(r)
  \/ Finish(r)
  \/ ReadBack(r)
  \/ Return(r)
  \/ HandleCrash(r)

-----------------------------------------------------------------------------

Next ==
  \/ \E m \in Missions :
       \/ Declare(m)
       \/ park_for_review(m)
       \/ resume(m)
       \/ cancel(m)
       \/ FindMatchingMission(m)
       \/ DeliverResumed(m)
       \/ DropResumed(m)
       \/ RecoverOne(m)
       \/ ScheduleRecovered(m)
       \/ ClaimDeclared(m)
  \/ TransitionMissionToDone
  \/ AbandonMatch
  \/ Boot
  \/ EndRecovery
  \/ EndScheduling
  \/ EndInitialSweep
  \/ StartListening
  \/ ListenerDies
  \/ SweepDies
  \/ Stop
  \/ Exit
  \/ \E r \in Runs : RunStep(r) \/ CallFails(r) \/ Timeout(r)

Spec == Init /\ [][Next]_vars

(***************************************************************************)
(* What the running system does by itself: a stopped daemon is restarted   *)
(* (compose restart policy), its main loop goes on, a drain ends, a request*)
(* that committed a resume sends or fails to send its notification, and    *)
(* every call a thread makes returns - an LLM call too, because the client *)
(* gives up on it, and the step limit bounds how many there are.  Owners,  *)
(* sentinels, timeouts and faults are under no obligation.                 *)
(***************************************************************************)
MainLoop ==
  \/ Boot
  \/ \E m \in Missions : RecoverOne(m) \/ ScheduleRecovered(m)
  \/ EndRecovery
  \/ EndScheduling
  \/ EndInitialSweep
  \/ phase = "draining" /\ Exit

Fairness ==
  /\ WF_vars(MainLoop)
  /\ WF_vars(sweeper = "on" /\ \E m \in Missions : ClaimDeclared(m))
  /\ WF_vars(StartListening)
  /\ \A m \in Missions : WF_vars(DeliverResumed(m) \/ DropResumed(m))
  /\ \A r \in Runs : WF_vars(RunStep(r))

FairSpec == Spec /\ Fairness

-----------------------------------------------------------------------------
(* Properties                                                              *)

\* Runs whose thread or task will still settle the mission's state.
Driving == {r \in Runs : pc[r] \notin {"idle", "returning"} /\ ~zombie[r]}

TypeOK ==
  /\ state \in [Missions -> MissionState \union {Absent}]
  /\ artifacts \in [Missions -> Seq(ArtifactKind)]
  /\ order \in Seq(Missions)
  /\ ckpt \subseteq Missions
  /\ pc \in [Runs -> RunPc]
  /\ mid \in [Runs -> Missions \union {None}]
  /\ \A r \in Runs : pc[r] # "idle" => mid[r] \in Missions
  /\ fresh \in [Runs -> BOOLEAN]
  /\ zombie \in [Runs -> BOOLEAN]
  /\ phase \in Phase
  /\ listener \in {"off", "on", "dead"}
  /\ sweeper \in {"on", "dead"}
  /\ toCheck \subseteq Missions
  /\ recovered \subseteq Missions
  /\ faults \in Nat
  /\ unsent \in [Missions -> Nat]
  /\ lost \subseteq Missions
  /\ matched \in Delegated \union {None}

\* Claims, runs, timeouts, crash handlers, recovery and requests together
\* never take a mission along a transition the guard table forbids, although
\* _claim_declared bypasses the engine: AtlasDaemon implements MissionLifecycle
\* on the rows the mailbox observer cannot match.
Guarded == Missions \ Delegated

Lifecycle ==
  INSTANCE MissionLifecycle WITH
    Missions <- Guarded,
    state <- [m \in Guarded |-> state[m]]

ImplementsLifecycle == Lifecycle!Spec

\* No mission is stranded in planning: as long as the daemon lives, either
\* recovery still has it on its list, or a fresh claim whose task has not
\* given up will commit its plan or fail it - unless its failure could not be
\* recorded.
PlanningIsOwned ==
  \A m \in Missions :
    state[m] = "planning" =>
      \/ phase = "down"
      \/ phase = "recovering" /\ m \in toCheck
      \/ m \in lost
      \/ \E r \in Driving :
           /\ mid[r] = m
           /\ fresh[r]
           /\ pc[r] \in {"queued", "get", "commit_plan", "crashed"}

\* A declared mission is claimed by one sweep only: notification, periodic
\* sweep and initial sweep never start two fresh runs of it.
ClaimedOnce ==
  \A r, q \in Runs :
    /\ pc[r] # "idle" /\ fresh[r]
    /\ pc[q] # "idle" /\ fresh[q]
    /\ mid[r] = mid[q]
    => r = q

\* The thread that outlives its timeout works on a mission that is over, so
\* nothing it still writes can move the mission; unless the timeout could not be
\* recorded.
ZombieMissionIsOver ==
  \A r \in Runs :
    zombie[r] => state[mid[r]] \in Terminal \/ mid[r] \in lost

\* The newest artifact of the mission is a question.
Asked(m) ==
  /\ artifacts[m] # <<>>
  /\ artifacts[m][Len(artifacts[m])] = "question"

\* The owner resumed the mission before it had asked anything.
ResumedEarly(m) ==
  /\ artifacts[m] # <<>>
  /\ artifacts[m][1] = "user_response"

\* A mission waits for its owner exactly while its newest artifact is the
\* question asked: it is never parked without a question, nor run again with
\* the question still unanswered.  A mission resumed while it was still being
\* planned is the exception: see OnlyResumeUnparks.
QuestionIsOutstanding ==
  \A m \in Missions :
    /\ state[m] = "awaiting_user" => Asked(m)
    /\ state[m] = "running" => ~Asked(m) \/ ResumedEarly(m)

\* A running mission has a run that will settle it, a wake-up on its way, or
\* lost its wake-up: there is no sweep for running missions, so a dropped
\* mission_resumed and a failure that cannot be recorded are the two ways to
\* strand it until the next restart.
RunningIsDriven ==
  phase = "up" =>
    \A m \in Missions :
      state[m] = "running" =>
        \/ \E r \in Driving : mid[r] = m
        \/ unsent[m] > 0
        \/ m \in lost

\* Nobody ever overwrites what the owner or the agents left on the mission:
\* the engine's read-modify-write of the artifacts list only appends.
ArtifactsOnlyGrow ==
  [][\A m \in Missions :
       /\ Len(artifacts'[m]) >= Len(artifacts[m])
       /\ SubSeq(artifacts'[m], 1, Len(artifacts[m])) = artifacts[m]]_vars

\* Every declared mission is eventually claimed (or cancelled), unless the
\* periodic sweep died: time and again no declared mission is left.  The sweep
\* alone makes up for the notifications a daemon that is busy, or not listening,
\* misses.
DeclaredIsClaimed ==
  []<>(sweeper = "dead" \/ \A m \in Missions : state[m] # "declared")

\* Every running mission eventually finishes or asks its owner, unless the
\* wake-up of its resume or the record of its failure was lost.
RunningSettles ==
  \A m \in Missions :
    state[m] = "running" ~> (state[m] # "running" \/ m \in lost)

-----------------------------------------------------------------------------
(* What the documentation says and the code does not do                    *)

\* engine.py: "Callers outside this file MUST NOT write to the row directly";
\* no row, the delegated ones included, leaves the guard table.
DelegatedLifecycle ==
  INSTANCE MissionLifecycle WITH
    Missions <- Delegated,
    state <- [m \in Delegated |-> state[m]]

NobodyBypassesTheGuards == DelegatedLifecycle!Spec

\* recovery.py, of missions that wait for their owner: "Only engine.resume (fired
\* when the user submits input) may move it to RUNNING".
OnlyResumeUnparks ==
  [][\A m \in Missions :
       state[m] = "awaiting_user" /\ state'[m] = "running"
         => unsent'[m] > unsent[m]]_vars

=============================================================================
