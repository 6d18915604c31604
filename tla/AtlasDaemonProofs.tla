------------------------- MODULE AtlasDaemonProofs -------------------------
(***************************************************************************)
(* The safety properties of AtlasDaemon, proved for any number of missions,*)
(* runs, artifacts and faults.                                             *)
(*                                                                         *)
(* The step lemmas RowStep, RunsStep, ArtifactsStep, ListsStep,            *)
(* MainLoopStep, CheckpointStep and WakeUpStep say once, over all actions, *)
(* what a step can do to one group of variables; the invariants are proved *)
(* from them and only expand the few actions they depend on.               *)
(***************************************************************************)
EXTENDS AtlasDaemon, TLAPS

-----------------------------------------------------------------------------
(* Type correctness                                                        *)

\* The initial state is well typed.
LEMMA InitTypeOK == Init => TypeOK
BY MissionsAssumption, BoundsAssumption
DEF Init, TypeOK, Missions, MissionState, Absent, RunPc, ThreadPc, Phase,
    ArtifactKind

\* Creating a task keeps the variables of the runs well typed: the new task
\* gets the id of a mission, nothing else of the run set changes.
LEMMA CreateTaskType ==
  ASSUME TypeOK, NEW r \in Runs, NEW m \in Missions, NEW f \in BOOLEAN,
         CreateTask(r, m, f)
  PROVE  /\ pc' \in [Runs -> RunPc]
         /\ mid' \in [Runs -> Missions \union {None}]
         /\ fresh' \in [Runs -> BOOLEAN]
         /\ zombie' \in [Runs -> BOOLEAN]
         /\ \A q \in Runs : pc'[q] # "idle" => mid'[q] \in Missions
BY DEF TypeOK, CreateTask, Goto, RunPc

\* The same of a task that ends.
LEMMA EndTaskType ==
  ASSUME TypeOK, NEW r \in Runs, EndTask(r)
  PROVE  /\ pc' \in [Runs -> RunPc]
         /\ mid' \in [Runs -> Missions \union {None}]
         /\ fresh' \in [Runs -> BOOLEAN]
         /\ zombie' \in [Runs -> BOOLEAN]
         /\ \A q \in Runs : pc'[q] # "idle" => mid'[q] \in Missions
BY DEF TypeOK, EndTask, Goto, RunPc

\* And of a thread that goes on to its next call.
LEMMA GotoType ==
  ASSUME TypeOK, NEW r \in Runs, NEW l \in RunPc, pc[r] # "idle", Goto(r, l),
         UNCHANGED <<mid, fresh, zombie>>
  PROVE  /\ pc' \in [Runs -> RunPc]
         /\ mid' \in [Runs -> Missions \union {None}]
         /\ fresh' \in [Runs -> BOOLEAN]
         /\ zombie' \in [Runs -> BOOLEAN]
         /\ \A q \in Runs : pc'[q] # "idle" => mid'[q] \in Missions
BY DEF TypeOK, Goto

\* The guard table leads to states of the model only.
LEMMA AllowedType ==
  \A from, to : check_transition(from, to) => /\ from \in Live
                                              /\ to \in MissionState
BY DEF check_transition, ALLOWED, MissionState, Live, Terminal

\* An engine call of a thread keeps the state well typed.
LEMMA EngineCallType ==
  ASSUME TypeOK, NEW r \in Runs, pc[r] # "idle", NEW to \in MissionState,
         NEW new \in Seq(ArtifactKind), NEW l \in RunPc,
         EngineCall(r, to, new, l)
  PROVE  TypeOK'
<1>1. mid[r] \in Missions
  BY DEF TypeOK
<1>2. /\ \E k \in RunPc : Goto(r, k)
      /\ UNCHANGED <<order, ckpt, mid, fresh, zombie, daemonVars, noteVars,
                     matched>>
  BY DEF EngineCall, RunPc
<1>3. artifacts[mid[r]] \o new \in Seq(ArtifactKind)
  BY <1>1 DEF TypeOK
<1>4. /\ state' \in [Missions -> MissionState \union {Absent}]
      /\ artifacts' \in [Missions -> Seq(ArtifactKind)]
  BY <1>1, <1>3 DEF EngineCall, Transition, TypeOK
<1> QED
  BY <1>2, <1>4, GotoType DEF TypeOK, daemonVars, noteVars

\* Every step keeps the state well typed.
LEMMA NextTypeOK == TypeOK /\ [Next]_vars => TypeOK'
<1> SUFFICES ASSUME TypeOK, [Next]_vars PROVE TypeOK'
  OBVIOUS
<1> USE DEF rowVars, runVars, daemonVars, noteVars
<1>1. CASE UNCHANGED vars
  BY <1>1 DEF vars, TypeOK
<1>2. ASSUME NEW m \in Missions, Declare(m) PROVE TypeOK'
  BY <1>2 DEF Declare, TypeOK, MissionState
<1>3. ASSUME NEW m \in Missions, park_for_review(m) PROVE TypeOK'
  BY <1>3 DEF park_for_review, TypeOK, MissionState, AppendArtifact,
              ArtifactKind
<1>4. ASSUME NEW m \in Missions, resume(m) PROVE TypeOK'
  BY <1>4 DEF resume, TypeOK, MissionState, AppendArtifact, ArtifactKind,
              Transition
<1>5. ASSUME NEW m \in Missions, cancel(m) PROVE TypeOK'
  BY <1>5 DEF cancel, TypeOK, MissionState, Transition
<1>6. ASSUME NEW m \in Missions, FindMatchingMission(m) PROVE TypeOK'
  BY <1>6 DEF FindMatchingMission, TypeOK
<1>7. ASSUME NEW m \in Missions, DeliverResumed(m) PROVE TypeOK'
  <2>1. /\ pc' \in [Runs -> RunPc]
        /\ mid' \in [Runs -> Missions \union {None}]
        /\ fresh' \in [Runs -> BOOLEAN]
        /\ zombie' \in [Runs -> BOOLEAN]
        /\ \A q \in Runs : pc'[q] # "idle" => mid'[q] \in Missions
    <3>1. CASE state[m] = "running"
      <4>1. PICK r \in Runs : CreateTask(r, m, FALSE)
        BY <1>7, <3>1 DEF DeliverResumed
      <4> QED
        BY <4>1, CreateTaskType
    <3>2. CASE state[m] # "running"
      BY <1>7, <3>2 DEF DeliverResumed, TypeOK
    <3> QED
      BY <3>1, <3>2
  <2> QED
    BY <1>7, <2>1 DEF DeliverResumed, TypeOK
<1>8. ASSUME NEW m \in Missions, DropResumed(m) PROVE TypeOK'
  BY <1>8 DEF DropResumed, TypeOK
<1>9. ASSUME NEW m \in Missions, RecoverOne(m) PROVE TypeOK'
  <2>1. /\ state' \in [Missions -> MissionState \union {Absent}]
        /\ phase' \in Phase
        /\ toCheck' \subseteq Missions
        /\ recovered' \subseteq Missions
    <3>1. CASE m \in ckpt
      BY <1>9, <3>1 DEF RecoverOne, TypeOK
    <3>2. CASE m \notin ckpt /\ check_transition(state[m], "failed")
      BY <1>9, <3>2 DEF RecoverOne, TypeOK, Transition, MissionState
    <3>3. CASE m \notin ckpt /\ ~check_transition(state[m], "failed")
      BY <1>9, <3>3 DEF RecoverOne, TypeOK, Transition, Phase
    <3> QED
      BY <3>1, <3>2, <3>3
  <2> QED
    BY <1>9, <2>1 DEF RecoverOne, TypeOK
<1>10. ASSUME NEW m \in Missions, ScheduleRecovered(m) PROVE TypeOK'
  <2>1. PICK r \in Runs : CreateTask(r, m, FALSE)
    BY <1>10 DEF ScheduleRecovered
  <2> QED
    BY <1>10, <2>1, CreateTaskType DEF ScheduleRecovered, TypeOK
<1>11. ASSUME NEW m \in Missions, ClaimDeclared(m) PROVE TypeOK'
  <2>1. PICK r \in Runs : CreateTask(r, m, TRUE)
    BY <1>11 DEF ClaimDeclared
  <2> QED
    BY <1>11, <2>1, CreateTaskType DEF ClaimDeclared, TypeOK, MissionState
<1>12. CASE TransitionMissionToDone
  BY <1>12 DEF TransitionMissionToDone, TypeOK, MissionState, Missions
<1>13. CASE AbandonMatch
  BY <1>13 DEF AbandonMatch, TypeOK
<1>14. CASE Boot \/ EndRecovery \/ EndScheduling \/ EndInitialSweep \/ Stop
  BY <1>14 DEF Boot, EndRecovery, EndScheduling, EndInitialSweep, Stop,
               TypeOK, Phase
<1>15. CASE StartListening \/ ListenerDies \/ SweepDies
  BY <1>15 DEF StartListening, ListenerDies, SweepDies, TypeOK
<1>16. CASE Exit
  BY <1>16 DEF Exit, TypeOK, Phase, RunPc
<1>17. ASSUME NEW r \in Runs, RunStep(r) PROVE TypeOK'
  <2>1. CASE AcquireSemaphore(r) \/ GetMission(r) \/ Invoke(r)
             \/ GraphReturns(r) \/ ReadBack(r)
    <3>1. /\ pc[r] # "idle"
          /\ \E l \in RunPc : Goto(r, l)
          /\ UNCHANGED <<mid, fresh, zombie>>
      BY <2>1 DEF AcquireSemaphore, GetMission, Invoke, GraphReturns, ReadBack,
                  RunPc, ThreadPc
    <3>2. /\ UNCHANGED <<rowVars, daemonVars, noteVars, matched>>
          /\ ckpt' \in {ckpt, ckpt \union {mid[r]}}
      BY <2>1 DEF AcquireSemaphore, GetMission, Invoke, GraphReturns, ReadBack
    <3> QED
      BY <3>1, <3>2, GotoType DEF TypeOK
  <2>2. CASE CommitPlan(r) \/ RequestUserInput(r) \/ Finish(r)
    <3>1. /\ {"running", "awaiting_user", "failed", "done"} \subseteq MissionState
          /\ {"invoke", "returning"} \subseteq RunPc
          /\ {<<>>, <<"question">>, <<"final_answer">>} \subseteq
               Seq(ArtifactKind)
      BY DEF MissionState, RunPc, ThreadPc, ArtifactKind
    <3> QED
      BY <2>2, <3>1, EngineCallType DEF CommitPlan, RequestUserInput, Finish
  <2>3. CASE Return(r)
    BY <2>3, EndTaskType DEF Return, TypeOK
  <2>4. CASE HandleCrash(r)
    <3>1. mid[r] \in Missions
      BY <2>4 DEF HandleCrash, TypeOK
    <3>2. UNCHANGED <<state, faults, lost>> \/ FailMission(mid[r])
      BY <2>4 DEF HandleCrash
    <3>3. /\ state' \in [Missions -> MissionState \union {Absent}]
          /\ faults' \in Nat
          /\ lost' \subseteq Missions
      BY <3>1, <3>2 DEF FailMission, TypeOK, MissionState
    <3> QED
      BY <2>4, <3>3, EndTaskType DEF HandleCrash, TypeOK
  <2> QED
    BY <1>17, <2>1, <2>2, <2>3, <2>4 DEF RunStep
<1>18. ASSUME NEW r \in Runs, Timeout(r) PROVE TypeOK'
  <2>1. mid[r] \in Missions
    BY <1>18 DEF Timeout, ThreadPc, TypeOK
  <2>2. /\ state' \in [Missions -> MissionState \union {Absent}]
        /\ faults' \in Nat
        /\ lost' \subseteq Missions
    BY <1>18, <2>1 DEF Timeout, FailMission, TypeOK, MissionState
  <2> QED
    BY <1>18, <2>2 DEF Timeout, TypeOK
<1>19. ASSUME NEW r \in Runs, CallFails(r) PROVE TypeOK'
  <2>1. /\ pc[r] # "idle"
        /\ "crashed" \in RunPc /\ Goto(r, "crashed")
        /\ UNCHANGED <<mid, fresh, zombie>>
    BY <1>19 DEF CallFails, ThreadPc, RunPc
  <2> QED
    BY <1>19, <2>1, GotoType DEF CallFails, TypeOK
<1> QED
  BY <1>1, <1>2, <1>3, <1>4, <1>5, <1>6, <1>7, <1>8, <1>9, <1>10, <1>11, <1>12,
     <1>13, <1>14, <1>15, <1>16, <1>17, <1>18, <1>19 DEF Next

\* Rows, runs, tasks and the daemon's bookkeeping stay well typed; in
\* particular every run that exists works on a mission.
THEOREM TypeCorrect == Spec => []TypeOK
BY InitTypeOK, NextTypeOK, PTL DEF Spec

-----------------------------------------------------------------------------
(* The mission rows: AtlasDaemon implements MissionLifecycle               *)

\* The mailbox observer's overwrite of the mission it matched.
Overwritten(m, to) == m = matched /\ to = "done"

\* The ways a mission row moves: it is created, it follows the guard table, or
\* it is overwritten.
Moves(m, to) ==
  /\ \/ state[m] = Absent /\ to \in {"declared", "awaiting_user"}
     \/ check_transition(state[m], to)
     \/ Overwritten(m, to)
  /\ to = "planning" => ClaimDeclared(m)
  /\ state' = [state EXCEPT ![m] = to]

\* Every step leaves the rows alone or moves a single one.
LEMMA RowStep ==
  ASSUME TypeOK, [Next]_vars
  PROVE  \/ UNCHANGED state
         \/ \E m \in Missions, to \in MissionState : Moves(m, to)
<1> USE DEF Moves, rowVars
<1>1. CASE UNCHANGED vars
  BY <1>1 DEF vars
<1>2. ASSUME NEW m \in Missions,
             Declare(m) \/ park_for_review(m) \/ ClaimDeclared(m)
      PROVE  \E to \in MissionState : Moves(m, to)
  BY <1>2 DEF Declare, park_for_review, ClaimDeclared, Oldest, MissionState,
              check_transition, ALLOWED
<1>3. ASSUME NEW m \in Missions, resume(m) \/ cancel(m)
      PROVE  \E to \in MissionState : Moves(m, to)
  BY <1>3 DEF resume, cancel, Transition, MissionState
<1>4. ASSUME NEW m \in Missions, RecoverOne(m)
      PROVE  UNCHANGED state \/ Moves(m, "failed")
  BY <1>4 DEF RecoverOne, Transition
<1>5. ASSUME NEW m \in Missions,
             \/ FindMatchingMission(m) \/ DeliverResumed(m)
             \/ DropResumed(m) \/ ScheduleRecovered(m)
      PROVE  UNCHANGED state
  BY <1>5 DEF FindMatchingMission, DeliverResumed, DropResumed,
              ScheduleRecovered
<1>6. CASE TransitionMissionToDone
  <2>1. matched \in Missions /\ Moves(matched, "done")
    BY <1>6 DEF TransitionMissionToDone, TypeOK, Missions, Overwritten
  <2> QED
    BY <2>1 DEF MissionState
<1>7. CASE \/ AbandonMatch \/ Boot \/ EndRecovery \/ EndScheduling
           \/ EndInitialSweep \/ StartListening \/ ListenerDies \/ SweepDies
           \/ Stop \/ Exit
  BY <1>7 DEF AbandonMatch, Boot, EndRecovery, EndScheduling, EndInitialSweep,
              StartListening, ListenerDies, SweepDies, Stop, Exit
<1>8. ASSUME NEW r \in Runs, RunStep(r) \/ CallFails(r) \/ Timeout(r)
      PROVE  \/ UNCHANGED state
             \/ \E m \in Missions, to \in MissionState : Moves(m, to)
  <2>1. CASE \/ AcquireSemaphore(r) \/ GetMission(r) \/ Invoke(r)
             \/ GraphReturns(r) \/ ReadBack(r) \/ Return(r) \/ CallFails(r)
    BY <2>1 DEF AcquireSemaphore, GetMission, Invoke, GraphReturns, ReadBack,
                Return, CallFails
  <2>2. CASE CommitPlan(r) \/ RequestUserInput(r) \/ Finish(r)
    <3>1. mid[r] \in Missions
      BY <2>2 DEF CommitPlan, RequestUserInput, Finish, TypeOK
    <3>2. \/ UNCHANGED state
          \/ \E to \in MissionState \ {"planning"} : Transition(mid[r], to)
      BY <2>2 DEF CommitPlan, RequestUserInput, Finish, EngineCall, MissionState
    <3> QED
      BY <3>1, <3>2 DEF Transition
  <2>3. CASE HandleCrash(r) \/ Timeout(r)
    <3>1. mid[r] \in Missions
      BY <2>3 DEF HandleCrash, Timeout, TypeOK, ThreadPc
    <3>2. UNCHANGED state \/ Moves(mid[r], "failed")
      BY <2>3 DEF HandleCrash, Timeout, FailMission
    <3> QED
      BY <3>1, <3>2 DEF MissionState
  <2> QED
    BY <1>8, <2>1, <2>2, <2>3 DEF RunStep
<1> QED
  BY <1>1, <1>2, <1>3, <1>4, <1>5, <1>6, <1>7, <1>8
  DEF Next, MissionState

\* The rows the observer cannot match follow the abstract specification.
LEMMA LifecycleStep ==
  ASSUME TypeOK, [Next]_vars
  PROVE  [Lifecycle!Next]_([m \in Guarded |-> state[m]])
<1> DEFINE rows == [m \in Guarded |-> state[m]]
<1>1. CASE UNCHANGED state
  BY <1>1
<1>2. ASSUME NEW m \in Missions, NEW to \in MissionState, Moves(m, to)
      PROVE  rows' = rows \/ Lifecycle!Next
  <2>1. CASE m \notin Guarded
    BY <1>2, <2>1 DEF Moves, TypeOK, Guarded
  <2>2. CASE m \in Guarded
    <3>1. rows' = [rows EXCEPT ![m] = to]
      BY <1>2, <2>2 DEF Moves, TypeOK, Guarded
    <3>2. ~Overwritten(m, to)
      BY <2>2, MissionsAssumption DEF Overwritten, Guarded, TypeOK
    <3>3. rows[m] = state[m]
      BY <2>2
    <3> QED
      BY <1>2, <2>2, <3>1, <3>2, <3>3
      DEF Moves, Lifecycle!Next, Lifecycle!Create, Lifecycle!Transition,
          Lifecycle!check_transition, check_transition, Lifecycle!ALLOWED,
          ALLOWED, Lifecycle!Absent, Absent, Lifecycle!MissionState,
          MissionState
  <2> QED
    BY <2>1, <2>2
<1> QED
  BY <1>1, <1>2, RowStep

\* AtlasDaemon implements MissionLifecycle: whatever claims, runs, timeouts,
\* crash handlers, recovery and requests do concurrently, the rows the mailbox
\* observer cannot match only ever move along the guard table.
THEOREM DaemonImplementsLifecycle == Spec => ImplementsLifecycle
<1>1. Init => Lifecycle!Init
  BY DEF Init, Lifecycle!Init, Lifecycle!Absent, Absent, Guarded
<1> QED
  BY <1>1, LifecycleStep, TypeCorrect, PTL
  DEF Spec, ImplementsLifecycle, Lifecycle!Spec

\* What follows from that for their owners: whatever is still running on a
\* mission that is over, nothing changes its outcome, and success is only ever
\* reported of a mission that was being run.
THEOREM OutcomesAreFinal ==
  Spec => Lifecycle!TerminalIsFinal /\ Lifecycle!DoneOnlyFromRunning
<1> DEFINE rows == [m \in Guarded |-> state[m]]
<1>1. ASSUME Lifecycle!Next, NEW m \in Guarded
      PROVE  /\ rows[m] \in Lifecycle!Terminal => rows'[m] = rows[m]
             /\ rows'[m] = "done" /\ rows[m] # "done" => rows[m] = "running"
  BY <1>1
  DEF Lifecycle!Next, Lifecycle!Create, Lifecycle!Transition,
      Lifecycle!check_transition, Lifecycle!ALLOWED, Lifecycle!Absent,
      Lifecycle!MissionState, Lifecycle!Terminal
<1>2. [Lifecycle!Next]_rows =>
        [\A m \in Guarded :
           rows[m] \in Lifecycle!Terminal => rows'[m] = rows[m]]_rows
  BY <1>1
<1>3. [Lifecycle!Next]_rows =>
        [\A m \in Guarded :
           rows'[m] = "done" /\ rows[m] # "done" => rows[m] = "running"]_rows
  BY <1>1
<1> QED
  BY <1>2, <1>3, DaemonImplementsLifecycle, PTL
  DEF ImplementsLifecycle, Lifecycle!Spec, Lifecycle!TerminalIsFinal,
      Lifecycle!DoneOnlyFromRunning

-----------------------------------------------------------------------------
(* The runs                                                                *)

\* A task comes into being: a claim that moves its declared mission to
\* planning in the same step, or a resume of a running or recovered mission.
Starts(r) ==
  /\ phase \in {"scheduling", "sweeping", "up"} /\ phase' = phase
  /\ pc[r] = "idle" /\ pc'[r] = "queued"
  /\ ~zombie'[r]
  /\ mid'[r] \in Missions
  /\ \/ /\ fresh'[r]
        /\ state[mid'[r]] = "declared" /\ state'[mid'[r]] = "planning"
     \/ /\ ~fresh'[r]
        /\ state[mid'[r]] = "running" \/ mid'[r] \in recovered

\* A run goes on, or is not concerned; only a timeout makes it a zombie.
Continues(r) ==
  /\ pc[r] # "idle" /\ pc'[r] # "idle"
  /\ mid'[r] = mid[r] /\ fresh'[r] = fresh[r]
  /\ pc'[r] # pc[r] => RunStep(r) \/ CallFails(r)
  /\ zombie'[r] # zombie[r] => Timeout(r)

\* A run does not exist after the step; if it did before, it has just ended.
IsGone(r) ==
  /\ pc'[r] = "idle" /\ ~zombie'[r]
  /\ pc[r] # "idle" => Return(r) \/ HandleCrash(r) \/ Exit

\* What a step does to the runs: each one is gone afterwards, goes on, or
\* starts, and at most one starts.
RunsStep ==
  /\ \A r \in Runs : IsGone(r) \/ Continues(r) \/ Starts(r)
  /\ \A r, q \in Runs : Starts(r) /\ Starts(q) => r = q

\* Runs that do not exist are no zombies.
IdleIsNoZombie == \A r \in Runs : pc[r] = "idle" => ~zombie[r]

\* Creating a task starts one run and leaves the others alone.
LEMMA CreateTaskStep ==
  ASSUME TypeOK, IdleIsNoZombie, NEW r \in Runs, NEW m \in Missions,
         NEW f \in BOOLEAN, CreateTask(r, m, f),
         phase \in {"scheduling", "sweeping", "up"}, phase' = phase,
         \/ f /\ state[m] = "declared" /\ state'[m] = "planning"
         \/ ~f /\ (state[m] = "running" \/ m \in recovered)
  PROVE  RunsStep
BY DEF TypeOK, IdleIsNoZombie, CreateTask, Goto, RunsStep, Starts, Continues,
       IsGone

\* A run that ends, or whose thread goes on, leaves the other runs alone.
LEMMA OneRunStep ==
  ASSUME TypeOK, IdleIsNoZombie, NEW r \in Runs, pc[r] # "idle",
         \/ EndTask(r) /\ (Return(r) \/ HandleCrash(r))
         \/ /\ RunStep(r) \/ CallFails(r)
            /\ \E l \in RunPc \ {"idle"} : Goto(r, l)
            /\ UNCHANGED <<mid, fresh, zombie>>
         \/ Timeout(r)
  PROVE  RunsStep
BY DEF TypeOK, IdleIsNoZombie, EndTask, Goto, RunsStep, Starts, Continues,
       IsGone, Timeout

\* Steps that do not touch the runs.
LEMMA NoRunStep ==
  ASSUME TypeOK, IdleIsNoZombie, UNCHANGED runVars
  PROVE  RunsStep
BY DEF TypeOK, IdleIsNoZombie, runVars, RunsStep, Starts, Continues,
       IsGone

\* Every step is one of these.
LEMMA RunsStepHolds ==
  ASSUME TypeOK, IdleIsNoZombie, [Next]_vars
  PROVE  RunsStep
<1>1. CASE UNCHANGED vars
  BY <1>1, NoRunStep DEF vars
<1>2. ASSUME NEW m \in Missions,
             \/ Declare(m) \/ park_for_review(m) \/ resume(m) \/ cancel(m)
             \/ FindMatchingMission(m) \/ DropResumed(m) \/ RecoverOne(m)
      PROVE  RunsStep
  BY <1>2, NoRunStep DEF Declare, park_for_review, resume, cancel,
                         FindMatchingMission, DropResumed, RecoverOne
<1>3. ASSUME NEW m \in Missions, DeliverResumed(m) PROVE RunsStep
  <2>1. CASE state[m] = "running"
    <3>1. PICK r \in Runs : CreateTask(r, m, FALSE)
      BY <1>3, <2>1 DEF DeliverResumed
    <3>2. phase = "up" /\ phase' = phase
      BY <1>3 DEF DeliverResumed, daemonVars
    <3> QED
      BY <2>1, <3>1, <3>2, CreateTaskStep
  <2>2. CASE state[m] # "running"
    BY <1>3, <2>2, NoRunStep DEF DeliverResumed
  <2> QED
    BY <2>1, <2>2
<1>4. ASSUME NEW m \in Missions, ScheduleRecovered(m) PROVE RunsStep
  <2>1. PICK r \in Runs : CreateTask(r, m, FALSE)
    BY <1>4 DEF ScheduleRecovered
  <2> QED
    BY <1>4, <2>1, CreateTaskStep DEF ScheduleRecovered
<1>5. ASSUME NEW m \in Missions, ClaimDeclared(m) PROVE RunsStep
  <2>1. PICK r \in Runs : CreateTask(r, m, TRUE)
    BY <1>5 DEF ClaimDeclared
  <2>2. /\ state[m] = "declared" /\ state'[m] = "planning"
        /\ phase \in {"sweeping", "up"} /\ phase' = phase
    BY <1>5 DEF ClaimDeclared, Oldest, TypeOK, daemonVars
  <2> QED
    BY <2>1, <2>2, CreateTaskStep
<1>6. CASE \/ TransitionMissionToDone \/ AbandonMatch \/ Boot \/ EndRecovery
           \/ EndScheduling \/ EndInitialSweep \/ StartListening
           \/ ListenerDies \/ SweepDies \/ Stop
  BY <1>6, NoRunStep
  DEF TransitionMissionToDone, AbandonMatch, Boot, EndRecovery, EndScheduling,
      EndInitialSweep, StartListening, ListenerDies, SweepDies, Stop
<1>7. CASE Exit
  BY <1>7 DEF Exit, RunsStep, Starts, IsGone
<1>8. ASSUME NEW r \in Runs, RunStep(r) \/ CallFails(r) \/ Timeout(r)
      PROVE  RunsStep
  <2>1. CASE \/ AcquireSemaphore(r) \/ GetMission(r) \/ Invoke(r)
             \/ GraphReturns(r) \/ ReadBack(r) \/ CallFails(r)
    <3>1. /\ pc[r] # "idle"
          /\ \E l \in RunPc \ {"idle"} : Goto(r, l)
          /\ UNCHANGED <<mid, fresh, zombie>>
      BY <2>1 DEF AcquireSemaphore, GetMission, Invoke, GraphReturns, ReadBack,
                  CallFails, RunPc, ThreadPc
    <3> QED
      BY <2>1, <3>1, OneRunStep DEF RunStep
  <2>2. CASE CommitPlan(r) \/ RequestUserInput(r) \/ Finish(r)
    <3>1. /\ pc[r] # "idle"
          /\ \E l \in RunPc \ {"idle"} : Goto(r, l)
          /\ UNCHANGED <<mid, fresh, zombie>>
      BY <2>2 DEF CommitPlan, RequestUserInput, Finish, EngineCall, RunPc,
                  ThreadPc
    <3> QED
      BY <2>2, <3>1, OneRunStep DEF RunStep
  <2>3. CASE Return(r) \/ HandleCrash(r) \/ Timeout(r)
    BY <2>3, OneRunStep DEF Return, HandleCrash, Timeout, ThreadPc
  <2> QED
    BY <1>8, <2>1, <2>2, <2>3 DEF RunStep
<1> QED
  BY <1>1, <1>2, <1>3, <1>4, <1>5, <1>6, <1>7, <1>8 DEF Next

\* Only a timeout makes a zombie.
LEMMA IdleIsNoZombieInvariant == Spec => []IdleIsNoZombie
<1>1. Init => IdleIsNoZombie
  BY DEF Init, IdleIsNoZombie
<1>2. TypeOK /\ IdleIsNoZombie /\ [Next]_vars => IdleIsNoZombie'
  BY RunsStepHolds DEF RunsStep, Continues, Starts, IsGone, IdleIsNoZombie
<1> QED
  BY <1>1, <1>2, TypeCorrect, PTL DEF Spec

\* The steps of the daemon's main loop that change its phase or the lists of
\* its recovery.
LEMMA MainLoopStep ==
  ASSUME [Next]_vars
  PROVE  \/ UNCHANGED <<phase, toCheck, recovered>>
         \/ Exit /\ phase' = "down"
         \/ Boot \/ EndRecovery \/ EndScheduling \/ EndInitialSweep \/ Stop
         \/ \E m \in Missions : RecoverOne(m) \/ ScheduleRecovered(m)
<1> USE DEF daemonVars
<1>1. CASE UNCHANGED daemonVars
  BY <1>1
<1>2. CASE UNCHANGED vars
  BY <1>1, <1>2 DEF vars
<1>3. CASE \/ \E m \in Missions :
                \/ Declare(m) \/ park_for_review(m) \/ resume(m) \/ cancel(m)
                \/ FindMatchingMission(m) \/ DeliverResumed(m)
                \/ DropResumed(m) \/ ClaimDeclared(m)
           \/ TransitionMissionToDone \/ AbandonMatch
           \/ \E r \in Runs : RunStep(r) \/ CallFails(r) \/ Timeout(r)
  BY <1>1, <1>3
  DEF Declare, park_for_review, resume, cancel, FindMatchingMission,
      DeliverResumed, DropResumed, ClaimDeclared, TransitionMissionToDone,
      AbandonMatch, RunStep, AcquireSemaphore, GetMission, CommitPlan, Invoke,
      GraphReturns, RequestUserInput, Finish, EngineCall, ReadBack, Return,
      HandleCrash, CallFails, Timeout
<1>4. CASE StartListening \/ ListenerDies \/ SweepDies \/ Exit
  BY <1>4 DEF StartListening, ListenerDies, SweepDies, Exit
<1> QED
  BY <1>2, <1>3, <1>4 DEF Next

\* Before its tasks are scheduled, a booting daemon has none.
NoRunsYet ==
  phase \in {"down", "recovering"} => \A r \in Runs : pc[r] = "idle"

\* The exit that leads to a boot ends every run, and recovery starts none.
LEMMA NoRunsYetInvariant == Spec => []NoRunsYet
<1>1. Init => NoRunsYet
  BY DEF Init, NoRunsYet
<1>2. ASSUME TypeOK, IdleIsNoZombie, NoRunsYet, [Next]_vars
      PROVE  NoRunsYet'
  <2>1. CASE Exit
    BY <2>1 DEF Exit, NoRunsYet
  <2>2. CASE phase' \in {"down", "recovering"} /\ ~Exit
    <3>1. phase \in {"down", "recovering"}
      BY <1>2, <2>2, MainLoopStep
      DEF Boot, EndRecovery, EndScheduling, EndInitialSweep, Stop, RecoverOne,
          ScheduleRecovered
    <3> QED
      BY <1>2, <3>1, RunsStepHolds
      DEF NoRunsYet, RunsStep, Continues, Starts, IsGone
  <2> QED
    BY <2>1, <2>2 DEF NoRunsYet
<1> QED
  BY <1>1, <1>2, TypeCorrect, IdleIsNoZombieInvariant, PTL DEF Spec

\* Steps that take a wake-up away deliver it, lose it, or restart the daemon.
LEMMA WakeUpStep ==
  ASSUME TypeOK, [Next]_vars, NEW m \in Missions
  PROVE  /\ \/ unsent'[m] >= unsent[m]
            \/ DeliverResumed(m)
            \/ DropResumed(m)
         /\ m \in lost => m \in lost' \/ Boot
<1> USE DEF noteVars
<1>1. CASE UNCHANGED noteVars
  BY <1>1 DEF TypeOK
<1>2. CASE UNCHANGED vars
  BY <1>1, <1>2 DEF vars
<1>3. ASSUME NEW n \in Missions, resume(n)
      PROVE  unsent'[m] >= unsent[m] /\ lost' = lost
  BY <1>3 DEF resume, TypeOK
<1>4. ASSUME NEW n \in Missions, DeliverResumed(n) \/ DropResumed(n)
      PROVE  /\ n # m => unsent'[m] >= unsent[m]
             /\ lost \subseteq lost'
  <2>1. unsent' = [unsent EXCEPT ![n] = @ - 1] /\ lost \subseteq lost'
    BY <1>4 DEF DeliverResumed, DropResumed
  <2> QED
    BY <2>1 DEF TypeOK
<1>5. CASE Boot
  BY <1>5 DEF Boot, TypeOK
<1>6. CASE \/ \E n \in Missions :
                \/ Declare(n) \/ park_for_review(n) \/ cancel(n)
                \/ FindMatchingMission(n) \/ RecoverOne(n)
                \/ ScheduleRecovered(n) \/ ClaimDeclared(n)
           \/ TransitionMissionToDone \/ AbandonMatch \/ EndRecovery
           \/ EndScheduling \/ EndInitialSweep \/ StartListening
           \/ ListenerDies \/ SweepDies \/ Stop \/ Exit
  BY <1>1, <1>6
  DEF Declare, park_for_review, cancel, FindMatchingMission, RecoverOne,
      ScheduleRecovered, ClaimDeclared, TransitionMissionToDone, AbandonMatch,
      EndRecovery, EndScheduling, EndInitialSweep, StartListening,
      ListenerDies, SweepDies, Stop, Exit
<1>7. CASE \E r \in Runs : RunStep(r) \/ CallFails(r) \/ Timeout(r)
  <2>1. UNCHANGED unsent /\ lost \subseteq lost'
    BY <1>7
    DEF RunStep, AcquireSemaphore, GetMission, CommitPlan, Invoke, GraphReturns,
        RequestUserInput, Finish, EngineCall, ReadBack, Return, HandleCrash,
        CallFails, Timeout, FailMission
  <2> QED
    BY <2>1 DEF TypeOK
<1> QED
  BY <1>2, <1>3, <1>4, <1>5, <1>6, <1>7 DEF Next

-----------------------------------------------------------------------------
(* What runs and recovery work on has been claimed                         *)

\* The mission exists and has left "declared" for good.
Claimed(m) == state[m] \notin {Absent, "declared"}

\* Every run, and everything recovery has on its lists, is such a mission.
WorkIsClaimed ==
  /\ \A r \in Runs : pc[r] # "idle" => Claimed(mid[r])
  /\ \A m \in toCheck \union recovered : Claimed(m)

\* No step takes a claimed mission back, none ends the end of a mission.
LEMMA ClaimedStays ==
  ASSUME TypeOK, [Next]_vars, NEW m \in Missions
  PROVE  /\ Claimed(m) => Claimed(m)'
         /\ state[m] \in Terminal => state'[m] \in Terminal
<1>1. CASE UNCHANGED state
  BY <1>1 DEF Claimed
<1>2. ASSUME NEW n \in Missions, NEW to \in MissionState, Moves(n, to)
      PROVE  /\ Claimed(m) => Claimed(m)'
             /\ state[m] \in Terminal => state'[m] \in Terminal
  BY <1>2 DEF Moves, Overwritten, Claimed, TypeOK, check_transition, ALLOWED,
              Terminal, Absent
<1> QED
  BY <1>1, <1>2, RowStep

\* The lists of recovery only grow by missions in planning or running.
LEMMA ListsStep ==
  ASSUME TypeOK, [Next]_vars
  PROVE  \A m \in toCheck' \union recovered' :
           \/ m \in toCheck \union recovered
           \/ m \in Missions /\ state[m] \in {"planning", "running"}
<1> USE DEF daemonVars
<1>1. CASE UNCHANGED vars
  BY <1>1 DEF vars
<1>2. CASE \/ \E m \in Missions :
                \/ Declare(m) \/ park_for_review(m) \/ resume(m) \/ cancel(m)
                \/ FindMatchingMission(m) \/ DeliverResumed(m)
                \/ DropResumed(m) \/ ClaimDeclared(m)
           \/ TransitionMissionToDone \/ AbandonMatch
           \/ \E r \in Runs : RunStep(r) \/ CallFails(r) \/ Timeout(r)
  <2>1. UNCHANGED <<toCheck, recovered>>
    BY <1>2
    DEF Declare, park_for_review, resume, cancel, FindMatchingMission,
        DeliverResumed, DropResumed, ClaimDeclared, TransitionMissionToDone,
        AbandonMatch, RunStep, AcquireSemaphore, GetMission, CommitPlan, Invoke,
        GraphReturns, RequestUserInput, Finish, EngineCall, ReadBack, Return,
        HandleCrash, CallFails, Timeout
  <2> QED
    BY <2>1
<1>3. CASE \/ Boot \/ EndRecovery \/ EndScheduling \/ EndInitialSweep
           \/ StartListening \/ ListenerDies \/ SweepDies \/ Stop \/ Exit
  BY <1>3 DEF Boot, EndRecovery, EndScheduling, EndInitialSweep,
              StartListening, ListenerDies, SweepDies, Stop, Exit
<1>4. CASE \E m \in Missions : RecoverOne(m) \/ ScheduleRecovered(m)
  BY <1>4 DEF RecoverOne, ScheduleRecovered
<1> QED
  BY <1>1, <1>2, <1>3, <1>4 DEF Next

\* Neither runs nor recovery ever work on a mission nobody has claimed.
LEMMA WorkIsClaimedInvariant == Spec => []WorkIsClaimed
<1>1. Init => WorkIsClaimed
  BY DEF Init, WorkIsClaimed
<1>2. ASSUME TypeOK, IdleIsNoZombie, WorkIsClaimed, [Next]_vars
      PROVE  WorkIsClaimed'
  <2>1. ASSUME NEW r \in Runs, pc'[r] # "idle" PROVE Claimed(mid[r])'
    <3>1. CASE Continues(r)
      BY <1>2, <3>1, ClaimedStays DEF Continues, WorkIsClaimed, TypeOK, Claimed
    <3>2. CASE Starts(r)
      <4>1. CASE state'[mid'[r]] = "planning"
        BY <4>1 DEF Claimed, Absent
      <4>2. CASE Claimed(mid'[r])
        BY <1>2, <3>2, <4>2, ClaimedStays DEF Starts, Claimed
      <4> QED
        BY <1>2, <3>2, <4>1, <4>2 DEF Starts, WorkIsClaimed, Claimed, Absent
    <3> QED
      BY <1>2, <2>1, <3>1, <3>2, RunsStepHolds DEF RunsStep, IsGone
  <2>2. ASSUME NEW m \in toCheck' \union recovered' PROVE Claimed(m)'
    <3>1. m \in Missions /\ Claimed(m)
      BY <1>2, ListsStep DEF WorkIsClaimed, TypeOK, Claimed, Absent
    <3> QED
      BY <1>2, <3>1, ClaimedStays
  <2> QED
    BY <2>1, <2>2 DEF WorkIsClaimed
<1> QED
  BY <1>1, <1>2, TypeCorrect, IdleIsNoZombieInvariant, PTL DEF Spec

\* No mission is claimed twice: whichever of the three sweeps moves the row
\* first, no second fresh run of it ever exists (_claim_declared).
THEOREM MissionsAreClaimedOnce == Spec => []ClaimedOnce
<1>1. Init => ClaimedOnce
  BY DEF Init, ClaimedOnce
<1>2. ASSUME TypeOK, IdleIsNoZombie, WorkIsClaimed, ClaimedOnce, [Next]_vars
      PROVE  ClaimedOnce'
  <2> SUFFICES ASSUME NEW r \in Runs, NEW q \in Runs,
                      pc'[r] # "idle", fresh'[r], pc'[q] # "idle", fresh'[q],
                      mid'[r] = mid'[q]
               PROVE  r = q
    BY DEF ClaimedOnce
  <2>1. RunsStep
    BY <1>2, RunsStepHolds
  <2>2. CASE Continues(r) /\ Continues(q)
    BY <1>2, <2>2 DEF Continues, ClaimedOnce
  <2>3. CASE Starts(r) /\ Starts(q)
    BY <2>1, <2>3 DEF RunsStep
  <2>4. CASE Starts(r) /\ Continues(q)
    BY <1>2, <2>4 DEF Starts, Continues, WorkIsClaimed, Claimed
  <2>5. CASE Continues(r) /\ Starts(q)
    BY <1>2, <2>5 DEF Starts, Continues, WorkIsClaimed, Claimed
  <2> QED
    BY <2>1, <2>2, <2>3, <2>4, <2>5 DEF RunsStep, IsGone
<1> QED
  BY <1>1, <1>2, TypeCorrect, IdleIsNoZombieInvariant, WorkIsClaimedInvariant,
     PTL DEF Spec

\* A live mission can always be failed, so whoever handles it as crashed or timed
\* out settles it, or could not record the failure.
LEMMA FailingSettles ==
  ASSUME TypeOK, WorkIsClaimed, NEW r \in Runs, pc[r] # "idle",
         \/ Timeout(r)
         \/ HandleCrash(r) /\ ~zombie[r]
  PROVE  state'[mid[r]] \in Terminal \/ mid[r] \in lost'
<1>1. Claimed(mid[r]) /\ mid[r] \in Missions
  BY DEF WorkIsClaimed, TypeOK
<1>2. FailMission(mid[r])
  BY DEF Timeout, HandleCrash
<1> QED
  BY <1>1, <1>2
  DEF FailMission, check_transition, ALLOWED, Terminal, Claimed, TypeOK,
      MissionState

\* A thread that outlives its timeout works on a mission that is over and stays
\* over: nothing the thread still calls can move the row, unless the timeout
\* could not be recorded (_bounded_run).
THEOREM ZombiesCannotMoveMissions == Spec => []ZombieMissionIsOver
<1>1. Init => ZombieMissionIsOver
  BY DEF Init, ZombieMissionIsOver
<1>2. ASSUME TypeOK, IdleIsNoZombie, WorkIsClaimed, NoRunsYet,
             ZombieMissionIsOver, [Next]_vars
      PROVE  ZombieMissionIsOver'
  <2> SUFFICES ASSUME NEW r \in Runs, zombie'[r]
               PROVE  state'[mid'[r]] \in Terminal \/ mid'[r] \in lost'
    BY DEF ZombieMissionIsOver
  <2>1. Continues(r)
    BY <1>2, RunsStepHolds DEF RunsStep, Starts, IsGone
  <2>2. mid'[r] \in Missions /\ mid'[r] = mid[r] /\ pc[r] # "idle"
    BY <1>2, <2>1 DEF Continues, TypeOK
  <2>3. CASE zombie[r] /\ state[mid[r]] \in Terminal
    BY <1>2, <2>2, <2>3, ClaimedStays
  <2>4. CASE zombie[r] /\ mid[r] \in lost
    <3>1. ~Boot
      BY <1>2, <2>2 DEF Boot, NoRunsYet
    <3> QED
      BY <1>2, <2>2, <2>4, <3>1, WakeUpStep
  <2>5. CASE ~zombie[r]
    <3>1. Timeout(r)
      BY <1>2, <2>1, <2>5 DEF Continues, TypeOK
    <3> QED
      BY <1>2, <2>2, <3>1, FailingSettles
  <2> QED
    BY <1>2, <2>3, <2>4, <2>5 DEF ZombieMissionIsOver
<1> QED
  BY <1>1, <1>2, TypeCorrect, IdleIsNoZombieInvariant, WorkIsClaimedInvariant,
     NoRunsYetInvariant, PTL DEF Spec

-----------------------------------------------------------------------------
(* Artifacts                                                               *)

\* A mission gets a question when it is parked, an answer when it is resumed,
\* the final answer when it is over.
Adds(m, kind) ==
  /\ artifacts' = [artifacts EXCEPT ![m] = Append(@, kind)]
  /\ \/ /\ kind = "question"
        /\ state[m] \in {Absent, "running"} /\ state'[m] = "awaiting_user"
     \/ /\ kind = "user_response"
        /\ state[m] \in {"planning", "awaiting_user"}
        /\ state'[m] = "running"
     \/ /\ kind = "final_answer"
        /\ Claimed(m) /\ state'[m] \in Terminal

\* What a step does to the artifacts, and which steps park and start missions.
ArtifactsStep ==
  /\ \/ UNCHANGED artifacts
     \/ \E m \in Missions, kind \in ArtifactKind : Adds(m, kind)
  /\ \A m \in Missions : state[m] # state'[m] =>
       /\ state'[m] = "awaiting_user" => Adds(m, "question")
       /\ state'[m] = "running" =>
            \/ resume(m) /\ Adds(m, "user_response")
            \/ \E r \in Runs :
                 /\ CommitPlan(r) /\ mid[r] = m /\ pc'[r] = "invoke"
                 /\ UNCHANGED artifacts

\* A call that extends the list by no artifact leaves it as it was.
LEMMA NothingAppended ==
  ASSUME TypeOK, NEW m \in Missions,
         artifacts' = [artifacts EXCEPT ![m] = @ \o << >>]
  PROVE  UNCHANGED artifacts
<1>1. artifacts[m] \in Seq(ArtifactKind)
  BY DEF TypeOK
<1>2. artifacts[m] \o << >> = artifacts[m]
  BY <1>1
<1> QED
  BY <1>2 DEF TypeOK

\* Extending the list by one artifact appends it.
LEMMA OneAppended ==
  ASSUME TypeOK, NEW m \in Missions, NEW kind \in ArtifactKind,
         artifacts' = [artifacts EXCEPT ![m] = @ \o <<kind>>]
  PROVE  artifacts' = [artifacts EXCEPT ![m] = Append(@, kind)]
<1>1. artifacts[m] \in Seq(ArtifactKind)
  BY DEF TypeOK
<1>2. artifacts[m] \o <<kind>> = Append(artifacts[m], kind)
  BY <1>1
<1> QED
  BY <1>2 DEF TypeOK

\* Every step is one of these.
LEMMA ArtifactsStepHolds ==
  ASSUME TypeOK, WorkIsClaimed, [Next]_vars
  PROVE  ArtifactsStep
<1> USE DEF ArtifactsStep, Adds, rowVars
<1>1. CASE UNCHANGED <<state, artifacts>>
  BY <1>1
<1>2. ASSUME NEW m \in Missions, Declare(m) \/ cancel(m) \/ ClaimDeclared(m)
      PROVE  ArtifactsStep
  BY <1>2 DEF Declare, cancel, ClaimDeclared, Transition, TypeOK
<1>3. ASSUME NEW m \in Missions, park_for_review(m) PROVE ArtifactsStep
  BY <1>3 DEF park_for_review, AppendArtifact, ArtifactKind, TypeOK
<1>4. ASSUME NEW m \in Missions, resume(m) PROVE ArtifactsStep
  <2>1. /\ state[m] \in {"planning", "awaiting_user"}
        /\ state' = [state EXCEPT ![m] = "running"]
        /\ artifacts' = [artifacts EXCEPT ![m] = Append(@, "user_response")]
    BY <1>4 DEF resume, Transition, AppendArtifact, check_transition, ALLOWED
  <2> QED
    BY <1>4, <2>1 DEF ArtifactKind, TypeOK
<1>5. ASSUME NEW m \in Missions, RecoverOne(m) PROVE ArtifactsStep
  BY <1>5 DEF RecoverOne, Transition, TypeOK
<1>6. CASE TransitionMissionToDone
  BY <1>6 DEF TransitionMissionToDone, TypeOK
<1>7. ASSUME NEW r \in Runs, CommitPlan(r) PROVE ArtifactsStep
  <2>1. mid[r] \in Missions
    BY <1>7 DEF CommitPlan, TypeOK
  <2>2. CASE UNCHANGED state
    <3>1. \/ UNCHANGED artifacts
          \/ artifacts' = [artifacts EXCEPT ![mid[r]] = @ \o << >>]
      BY <1>7 DEF CommitPlan, EngineCall
    <3> QED
      BY <2>1, <2>2, <3>1, NothingAppended
  <2>3. CASE state' # state
    <3>1. /\ state' = [state EXCEPT ![mid[r]] = "running"]
          /\ artifacts' = [artifacts EXCEPT ![mid[r]] = @ \o << >>]
          /\ pc' = [pc EXCEPT ![r] = "invoke"]
      BY <1>7, <2>3 DEF CommitPlan, EngineCall, Transition, Goto
    <3>2. UNCHANGED artifacts
      BY <2>1, <3>1, NothingAppended
    <3> QED
      BY <1>7, <2>1, <3>1, <3>2 DEF TypeOK
  <2> QED
    BY <2>2, <2>3
<1>8. ASSUME NEW r \in Runs, RequestUserInput(r) PROVE ArtifactsStep
  <2>1. mid[r] \in Missions
    BY <1>8 DEF RequestUserInput, TypeOK
  <2>2. \/ UNCHANGED <<state, artifacts>>
        \/ /\ check_transition(state[mid[r]], "awaiting_user")
           /\ state' = [state EXCEPT ![mid[r]] = "awaiting_user"]
           /\ artifacts' = [artifacts EXCEPT ![mid[r]] = @ \o <<"question">>]
    BY <1>8 DEF RequestUserInput, EngineCall, Transition
  <2>3. CASE check_transition(state[mid[r]], "awaiting_user")
             /\ state' = [state EXCEPT ![mid[r]] = "awaiting_user"]
             /\ artifacts' = [artifacts EXCEPT ![mid[r]] = @ \o <<"question">>]
    <3>1. "question" \in ArtifactKind
      BY DEF ArtifactKind
    <3>2. artifacts' = [artifacts EXCEPT ![mid[r]] = Append(@, "question")]
      BY <2>1, <2>3, <3>1, OneAppended
    <3>3. state[mid[r]] = "running"
      BY <1>8, <2>3
      DEF check_transition, ALLOWED, RequestUserInput, WorkIsClaimed, Claimed
    <3> QED
      BY <2>1, <2>3, <3>1, <3>2, <3>3 DEF TypeOK
  <2> QED
    BY <1>1, <2>2, <2>3
<1>9. ASSUME NEW r \in Runs, Finish(r) PROVE ArtifactsStep
  <2>1. mid[r] \in Missions
    BY <1>9 DEF Finish, TypeOK
  <2>2. Claimed(mid[r])
    BY <1>9 DEF Finish, WorkIsClaimed
  <2>3. CASE UNCHANGED <<state, artifacts>>
    BY <1>1, <2>3
  <2>4. CASE /\ \/ state' = [state EXCEPT ![mid[r]] = "done"]
                \/ state' = [state EXCEPT ![mid[r]] = "failed"]
             /\ artifacts' = [artifacts EXCEPT ![mid[r]] = @ \o << >>]
    BY <2>1, <2>4, NothingAppended DEF TypeOK
  <2>5. CASE /\ \/ state' = [state EXCEPT ![mid[r]] = "done"]
                \/ state' = [state EXCEPT ![mid[r]] = "failed"]
             /\ artifacts' =
                  [artifacts EXCEPT ![mid[r]] = @ \o <<"final_answer">>]
    <3>1. "final_answer" \in ArtifactKind
      BY DEF ArtifactKind
    <3>2. artifacts' = [artifacts EXCEPT ![mid[r]] = Append(@, "final_answer")]
      BY <2>1, <2>5, <3>1, OneAppended
    <3>3. Adds(mid[r], "final_answer")
      BY <2>1, <2>2, <2>5, <3>2 DEF TypeOK, Terminal
    <3> QED
      BY <2>1, <2>5, <3>1, <3>3 DEF TypeOK
  <2> QED
    BY <1>9, <2>3, <2>4, <2>5 DEF Finish, EngineCall, Transition
<1>10. ASSUME NEW r \in Runs, HandleCrash(r) \/ Timeout(r) PROVE ArtifactsStep
  BY <1>10 DEF HandleCrash, Timeout, FailMission, TypeOK
<1>11. CASE \/ \E m \in Missions :
                 \/ FindMatchingMission(m) \/ DeliverResumed(m)
                 \/ DropResumed(m) \/ ScheduleRecovered(m)
            \/ AbandonMatch \/ Boot \/ EndRecovery \/ EndScheduling
            \/ EndInitialSweep \/ StartListening \/ ListenerDies \/ SweepDies
            \/ Stop \/ Exit
            \/ \E r \in Runs :
                 \/ AcquireSemaphore(r) \/ GetMission(r) \/ Invoke(r)
                 \/ GraphReturns(r) \/ ReadBack(r) \/ Return(r)
                 \/ CallFails(r)
  BY <1>1, <1>11
  DEF FindMatchingMission, DeliverResumed, DropResumed, ScheduleRecovered,
      AbandonMatch, Boot, EndRecovery, EndScheduling, EndInitialSweep,
      StartListening, ListenerDies, SweepDies, Stop, Exit, AcquireSemaphore,
      GetMission, Invoke, GraphReturns, ReadBack, Return, CallFails
<1>12. CASE UNCHANGED vars
  BY <1>1, <1>12 DEF vars
<1> QED
  BY <1>2, <1>3, <1>4, <1>5, <1>6, <1>7, <1>8, <1>9, <1>10, <1>11, <1>12
  DEF Next, RunStep

\* Nothing that was left on a mission is ever overwritten, however the engine's
\* read-modify-writes of the artifacts list interleave (_transition).
THEOREM ArtifactsAreNeverLost == Spec => ArtifactsOnlyGrow
<1> DEFINE Kept(m) == /\ Len(artifacts'[m]) >= Len(artifacts[m])
                      /\ SubSeq(artifacts'[m], 1, Len(artifacts[m]))
                           = artifacts[m]
<1>1. ASSUME TypeOK, WorkIsClaimed, [Next]_vars, NEW m \in Missions
      PROVE  Kept(m)
  <2>1. artifacts[m] \in Seq(ArtifactKind)
    BY <1>1 DEF TypeOK
  <2>2. CASE artifacts'[m] = artifacts[m]
    BY <2>1, <2>2
  <2>3. ASSUME NEW kind \in ArtifactKind,
               artifacts'[m] = Append(artifacts[m], kind)
        PROVE  Kept(m)
    BY <2>1, <2>3
  <2> QED
    BY <1>1, <2>2, <2>3, ArtifactsStepHolds DEF ArtifactsStep, Adds, TypeOK
<1>2. TypeOK /\ WorkIsClaimed /\ [Next]_vars =>
        [\A m \in Missions :
           /\ Len(artifacts'[m]) >= Len(artifacts[m])
           /\ SubSeq(artifacts'[m], 1, Len(artifacts[m])) = artifacts[m]]_vars
  BY <1>1
<1> QED
  BY <1>2, TypeCorrect, WorkIsClaimedInvariant, PTL
  DEF Spec, ArtifactsOnlyGrow

-----------------------------------------------------------------------------
(* Questions and answers                                                   *)

\* A mission that has not been run yet has no artifacts.
NothingBeforeRunning ==
  \A m \in Missions :
    state[m] \in {Absent, "declared", "planning"} => artifacts[m] = << >>

\* A run about to commit its plan is the claim's, and finds the mission where
\* the claim left it, over, or resumed by its owner in the meantime.
CommitsItsClaim ==
  \A r \in Runs :
    pc[r] = "commit_plan" =>
      \/ state[mid[r]] \in Terminal
      \/ fresh[r] /\ (state[mid[r]] = "planning" \/ ResumedEarly(mid[r]))

\* A mission never goes back to planning or to a state before it.
LEMMA PlanningStep ==
  ASSUME TypeOK, [Next]_vars, NEW m \in Missions,
         state'[m] \in {Absent, "declared", "planning"}
  PROVE  state[m] \in {Absent, "declared", "planning"}
<1>1. ASSUME NEW n \in Missions, NEW to \in MissionState, Moves(n, to)
      PROVE  state[m] \in {Absent, "declared", "planning"}
  BY <1>1 DEF Moves, Overwritten, TypeOK, check_transition, ALLOWED, Absent
<1> QED
  BY <1>1, RowStep

\* Artifacts arrive with running.
LEMMA NothingBeforeRunningInvariant == Spec => []NothingBeforeRunning
<1>1. Init => NothingBeforeRunning
  BY DEF Init, NothingBeforeRunning
<1>2. ASSUME TypeOK, WorkIsClaimed, NothingBeforeRunning, [Next]_vars
      PROVE  NothingBeforeRunning'
  <2> SUFFICES ASSUME NEW m \in Missions,
                      state'[m] \in {Absent, "declared", "planning"}
               PROVE  artifacts'[m] = << >>
    BY DEF NothingBeforeRunning, Absent
  <2>1. artifacts[m] = << >>
    BY <1>2, PlanningStep DEF NothingBeforeRunning
  <2>2. artifacts'[m] = artifacts[m]
    BY <1>2, ArtifactsStepHolds
    DEF ArtifactsStep, Adds, TypeOK, Terminal, Absent
  <2> QED
    BY <2>1, <2>2
<1> QED
  BY <1>1, <1>2, TypeCorrect, WorkIsClaimedInvariant, PTL DEF Spec

\* The first artifact of a mission never changes.
LEMMA ResumedEarlyStays ==
  ASSUME TypeOK, WorkIsClaimed, [Next]_vars, NEW m \in Missions,
         ResumedEarly(m)
  PROVE  ResumedEarly(m)'
<1>1. artifacts[m] \in Seq(ArtifactKind)
  BY DEF TypeOK
<1>2. CASE artifacts'[m] = artifacts[m]
  BY <1>2 DEF ResumedEarly
<1>3. ASSUME NEW kind \in ArtifactKind,
             artifacts'[m] = Append(artifacts[m], kind)
      PROVE  ResumedEarly(m)'
  BY <1>1, <1>3 DEF ResumedEarly
<1> QED
  BY <1>2, <1>3, ArtifactsStepHolds DEF ArtifactsStep, Adds, TypeOK

\* What becomes of a run between two of its steps: if it is about to commit its
\* plan, it was so before or has just read its mission.
LEMMA CommitPlanStep ==
  ASSUME TypeOK, IdleIsNoZombie, [Next]_vars, NEW r \in Runs,
         pc'[r] = "commit_plan"
  PROVE  /\ mid'[r] = mid[r] /\ fresh'[r] = fresh[r] /\ mid[r] \in Missions
         /\ pc[r] # "idle"
         /\ \/ pc[r] = "commit_plan" /\ ~CommitPlan(r)
            \/ GetMission(r)
<1>1. Continues(r)
  BY RunsStepHolds DEF RunsStep, Starts, IsGone
<1>2. pc[r] = "commit_plan" \/ GetMission(r)
  BY <1>1
  DEF Continues, RunStep, AcquireSemaphore, CommitPlan, Invoke, GraphReturns,
      RequestUserInput, Finish, EngineCall, ReadBack, Return, HandleCrash,
      CallFails, EndTask, Goto, TypeOK
<1>3. ~CommitPlan(r)
  BY DEF CommitPlan, EngineCall, Goto, TypeOK
<1> QED
  BY <1>1, <1>2, <1>3 DEF Continues, TypeOK

\* A mission leaves planning by being resumed, by its own claim's commit_plan,
\* or for good.
LEMMA LeavingPlanning ==
  ASSUME TypeOK, WorkIsClaimed, NothingBeforeRunning, [Next]_vars,
         NEW m \in Missions, state[m] = "planning"
  PROVE  \/ state'[m] = "planning" \/ state'[m] \in Terminal
         \/ ResumedEarly(m)'
         \/ \E r \in Runs : CommitPlan(r) /\ mid[r] = m /\ pc'[r] = "invoke"
<1>1. state'[m] \in Terminal \union {"planning", "running"}
  <2>1. ASSUME NEW n \in Missions, NEW to \in MissionState, Moves(n, to)
        PROVE  state'[m] \in Terminal \union {"planning", "running"}
    BY <2>1 DEF Moves, Overwritten, TypeOK, check_transition, ALLOWED, Absent,
                Terminal
  <2> QED
    BY <2>1, RowStep
<1>2. ASSUME Adds(m, "user_response") PROVE ResumedEarly(m)'
  <2>1. artifacts[m] = << >>
    BY DEF NothingBeforeRunning
  <2>2. artifacts'[m] = << "user_response" >>
    BY <1>2, <2>1 DEF Adds, TypeOK
  <2> QED
    BY <2>2 DEF ResumedEarly
<1> QED
  BY <1>1, <1>2, ArtifactsStepHolds DEF ArtifactsStep

\* commit_plan never meets a mission its owner has not touched since the claim
\* in another state than planning.
LEMMA CommitsItsClaimInvariant == Spec => []CommitsItsClaim
<1>1. Init => CommitsItsClaim
  BY DEF Init, CommitsItsClaim
<1>2. ASSUME TypeOK, IdleIsNoZombie, WorkIsClaimed, ClaimedOnce,
             NothingBeforeRunning, CommitsItsClaim, [Next]_vars
      PROVE  CommitsItsClaim'
  <2> SUFFICES ASSUME NEW r \in Runs, pc'[r] = "commit_plan"
               PROVE  \/ state'[mid'[r]] \in Terminal
                      \/ /\ fresh'[r]
                         /\ \/ state'[mid'[r]] = "planning"
                            \/ ResumedEarly(mid[r])'
    BY DEF CommitsItsClaim, ResumedEarly
  <2> PICK m \in Missions : m = mid[r]
    BY <1>2, CommitPlanStep
  <2>1. /\ mid'[r] = m /\ fresh'[r] = fresh[r] /\ m \in Missions
        /\ pc[r] # "idle"
        /\ \/ pc[r] = "commit_plan" /\ ~CommitPlan(r)
           \/ GetMission(r)
    BY <1>2, CommitPlanStep
  <2>2. CASE GetMission(r)
    <3>1. state' = state /\ pc[r] = "get"
      BY <2>2 DEF GetMission, rowVars
    <3>2. /\ state[m] \notin {"running", "awaiting_user"}
          /\ state[m] = "planning" => fresh[r]
      BY <1>2, <2>2 DEF GetMission, Goto, TypeOK
    <3>3. Claimed(m)
      BY <1>2, <2>1 DEF WorkIsClaimed
    <3> QED
      BY <1>2, <2>1, <3>1, <3>2, <3>3
      DEF Claimed, TypeOK, MissionState, Terminal
  <2>3. CASE pc[r] = "commit_plan" /\ ~CommitPlan(r)
    <3>1. CASE state[m] \in Terminal
      BY <1>2, <2>1, <3>1, ClaimedStays
    <3>2. CASE fresh[r] /\ ResumedEarly(m)
      BY <1>2, <2>1, <3>2, ResumedEarlyStays DEF ResumedEarly
    <3>3. CASE fresh[r] /\ state[m] = "planning"
      <4>1. ASSUME NEW q \in Runs, CommitPlan(q), mid[q] = m PROVE FALSE
        <5>1. pc[q] = "commit_plan" /\ q # r
          BY <2>3, <4>1 DEF CommitPlan
        <5>2. fresh[q]
          BY <1>2, <3>3, <4>1, <5>1 DEF CommitsItsClaim, Terminal
        <5> QED
          BY <1>2, <2>1, <3>3, <4>1, <5>1, <5>2 DEF ClaimedOnce
      <4> QED
        BY <1>2, <2>1, <3>3, <4>1, LeavingPlanning DEF ResumedEarly
    <3> QED
      BY <1>2, <2>3, <3>1, <3>2, <3>3 DEF CommitsItsClaim
  <2> QED
    BY <2>1, <2>2, <2>3
<1> QED
  BY <1>1, <1>2, TypeCorrect, IdleIsNoZombieInvariant, WorkIsClaimedInvariant,
     MissionsAreClaimedOnce, NothingBeforeRunningInvariant, PTL DEF Spec

\* A mission waits for its owner exactly while its newest artifact is an
\* unanswered question, however runs, resumes and restarts interleave; only a
\* mission resumed before it was planned escapes (_run_mission_sync,
\* engine.resume, engine.request_user_input).
THEOREM QuestionsAreAnswered == Spec => []QuestionIsOutstanding
<1>1. Init => QuestionIsOutstanding
  BY DEF Init, QuestionIsOutstanding, Absent
<1>2. ASSUME TypeOK, WorkIsClaimed, NothingBeforeRunning, CommitsItsClaim,
             QuestionIsOutstanding, [Next]_vars
      PROVE  QuestionIsOutstanding'
  <2> SUFFICES ASSUME NEW m \in Missions
               PROVE  /\ state'[m] = "awaiting_user" => Asked(m)'
                      /\ state'[m] = "running" =>
                           ~Asked(m)' \/ ResumedEarly(m)'
    BY DEF QuestionIsOutstanding, Asked, ResumedEarly
  <2>1. ArtifactsStep
    BY <1>2, ArtifactsStepHolds
  <2>2. artifacts[m] \in Seq(ArtifactKind)
    BY <1>2 DEF TypeOK
  <2>3. CASE state'[m] = state[m]
    <3>1. CASE artifacts'[m] = artifacts[m]
      BY <1>2, <2>3, <3>1 DEF QuestionIsOutstanding, Asked, ResumedEarly
    <3>2. CASE artifacts'[m] # artifacts[m]
      <4>1. \E kind \in ArtifactKind : Adds(m, kind)
        BY <1>2, <2>1, <3>2 DEF ArtifactsStep, Adds, TypeOK
      <4> QED
        BY <2>3, <4>1 DEF Adds, Terminal, Absent
    <3> QED
      BY <3>1, <3>2
  <2>4. CASE state'[m] # state[m]
    <3>1. CASE state'[m] = "awaiting_user"
      <4>1. artifacts'[m] = Append(artifacts[m], "question")
        BY <1>2, <2>1, <2>4, <3>1 DEF ArtifactsStep, Adds, TypeOK
      <4> QED
        BY <2>2, <3>1, <4>1 DEF Asked
    <3>2. CASE state'[m] = "running" /\ Adds(m, "user_response")
      <4>1. artifacts'[m] = Append(artifacts[m], "user_response")
        BY <1>2, <3>2 DEF Adds, TypeOK
      <4> QED
        BY <2>2, <3>2, <4>1 DEF Asked
    <3>3. ASSUME state'[m] = "running", UNCHANGED artifacts, NEW r \in Runs,
                 CommitPlan(r), mid[r] = m, pc'[r] = "invoke"
          PROVE  ~Asked(m)' \/ ResumedEarly(m)'
      <4>1. pc[r] = "commit_plan" /\ check_transition(state[m], "running")
        BY <1>2, <3>3 DEF CommitPlan, EngineCall, Transition, Goto, TypeOK
      <4>2. state[m] \notin Terminal
        BY <4>1 DEF check_transition, ALLOWED, Terminal
      <4>3. state[m] = "planning" \/ ResumedEarly(m)
        BY <1>2, <3>3, <4>1, <4>2 DEF CommitsItsClaim
      <4>4. artifacts[m] = << >> \/ ResumedEarly(m)
        BY <1>2, <4>3 DEF NothingBeforeRunning
      <4> QED
        BY <3>3, <4>4 DEF Asked, ResumedEarly
    <3> QED
      BY <2>1, <2>4, <3>1, <3>2, <3>3 DEF ArtifactsStep
  <2> QED
    BY <2>3, <2>4
<1> QED
  BY <1>1, <1>2, TypeCorrect, WorkIsClaimedInvariant,
     NothingBeforeRunningInvariant, CommitsItsClaimInvariant, PTL DEF Spec

-----------------------------------------------------------------------------
(* No mission is stranded                                                  *)

\* The mission has been run.
WasRun(m) == state[m] \notin {Absent, "declared", "planning"}

\* Only missions that were run have a checkpoint.
CheckpointsAreOfRuns ==
  /\ \A m \in ckpt : WasRun(m)
  /\ \A r \in Runs : pc[r] = "invoke" => WasRun(mid[r])

\* Checkpoints are written by graph.invoke.
LEMMA CheckpointStep ==
  ASSUME [Next]_vars
  PROVE  ckpt' = ckpt \/ \E r \in Runs : Invoke(r)
<1>1. CASE UNCHANGED vars
  BY <1>1 DEF vars
<1>2. CASE \E m \in Missions :
             \/ Declare(m) \/ park_for_review(m) \/ resume(m) \/ cancel(m)
             \/ FindMatchingMission(m) \/ DeliverResumed(m) \/ DropResumed(m)
             \/ RecoverOne(m) \/ ScheduleRecovered(m) \/ ClaimDeclared(m)
  BY <1>2 DEF Declare, park_for_review, resume, cancel, FindMatchingMission,
              DeliverResumed, DropResumed, RecoverOne, ScheduleRecovered,
              ClaimDeclared
<1>3. CASE \/ TransitionMissionToDone \/ AbandonMatch \/ Boot \/ EndRecovery
           \/ EndScheduling \/ EndInitialSweep \/ StartListening
           \/ ListenerDies \/ SweepDies \/ Stop \/ Exit
  BY <1>3 DEF TransitionMissionToDone, AbandonMatch, Boot, EndRecovery,
              EndScheduling, EndInitialSweep, StartListening, ListenerDies,
              SweepDies, Stop, Exit
<1>4. CASE \E r \in Runs : RunStep(r) \/ CallFails(r) \/ Timeout(r)
  BY <1>4 DEF RunStep, AcquireSemaphore, GetMission, CommitPlan, GraphReturns,
              RequestUserInput, Finish, EngineCall, ReadBack, Return,
              HandleCrash, CallFails, Timeout
<1> QED
  BY <1>1, <1>2, <1>3, <1>4 DEF Next

\* graph.invoke, which writes the checkpoints, is only reached by runs whose
\* mission has left planning.
LEMMA CheckpointsInvariant == Spec => []CheckpointsAreOfRuns
<1>1. Init => CheckpointsAreOfRuns
  BY DEF Init, CheckpointsAreOfRuns
<1>2. ASSUME TypeOK, IdleIsNoZombie, CheckpointsAreOfRuns, [Next]_vars
      PROVE  CheckpointsAreOfRuns'
  <2>1. ASSUME NEW m \in Missions, WasRun(m) PROVE WasRun(m)'
    BY <1>2, <2>1, PlanningStep DEF WasRun
  <2>2. ASSUME NEW m \in ckpt' PROVE WasRun(m)'
    <3>1. m \in ckpt \/ \E r \in Runs : Invoke(r) /\ mid[r] = m
      BY <1>2, <2>2, CheckpointStep DEF Invoke
    <3>2. m \in Missions /\ WasRun(m)
      BY <1>2, <3>1 DEF Invoke, CheckpointsAreOfRuns, TypeOK, WasRun
    <3> QED
      BY <2>1, <3>2
  <2>3. ASSUME NEW r \in Runs, pc'[r] = "invoke" PROVE WasRun(mid[r])'
    <3>1. Continues(r)
      BY <1>2, <2>3, RunsStepHolds DEF RunsStep, Starts, IsGone
    <3>2. /\ mid'[r] = mid[r] /\ mid[r] \in Missions
          /\ pc'[r] # pc[r] => RunStep(r) \/ CallFails(r)
      BY <1>2, <3>1 DEF Continues, TypeOK
    <3>3. CASE pc[r] = "invoke"
      BY <1>2, <2>1, <3>2, <3>3 DEF CheckpointsAreOfRuns, WasRun
    <3>4. CASE GetMission(r)
      <4>1. state[mid[r]] \in {"running", "awaiting_user"} /\ state' = state
        BY <1>2, <2>3, <3>4 DEF GetMission, Goto, TypeOK, rowVars
      <4> QED
        BY <3>2, <4>1 DEF WasRun, Absent
    <3>5. CASE CommitPlan(r)
      <4>1. state'[mid[r]] = "running"
        BY <1>2, <2>3, <3>2, <3>5
        DEF CommitPlan, EngineCall, Transition, Goto, TypeOK
      <4> QED
        BY <3>2, <4>1 DEF WasRun, Absent
    <3>6. pc[r] = "invoke" \/ GetMission(r) \/ CommitPlan(r)
      BY <1>2, <2>3, <3>2
      DEF RunStep, AcquireSemaphore, Invoke, GraphReturns, RequestUserInput,
          Finish, EngineCall, ReadBack, Return, HandleCrash, CallFails, EndTask,
          Goto, TypeOK
    <3> QED
      BY <3>3, <3>4, <3>5, <3>6
  <2> QED
    BY <2>2, <2>3 DEF CheckpointsAreOfRuns
<1> QED
  BY <1>1, <1>2, TypeCorrect, IdleIsNoZombieInvariant, PTL DEF Spec

\* No mission is stranded in planning: while the daemon lives, recovery still
\* has it on its list or the claim's own run will commit its plan or fail it,
\* whatever crashes, timeouts and requests come between; unless its failure
\* could not be recorded (_claim_declared, _run_mission_sync,
\* resume_missions_after_restart).
THEOREM PlanningHasAnOwner == Spec => []PlanningIsOwned
<1>1. Init => PlanningIsOwned
  BY DEF Init, PlanningIsOwned, Absent
<1>2. ASSUME TypeOK, IdleIsNoZombie, WorkIsClaimed, CheckpointsAreOfRuns,
             PlanningIsOwned, [Next]_vars
      PROVE  PlanningIsOwned'
  <2> DEFINE Fresh(r, m) ==
        /\ r \in Driving
        /\ mid[r] = m
        /\ fresh[r]
        /\ pc[r] \in {"queued", "get", "commit_plan", "crashed"}
  <2> SUFFICES ASSUME NEW m \in Missions, state'[m] = "planning"
               PROVE  \/ phase' = "down"
                      \/ phase' = "recovering" /\ m \in toCheck'
                      \/ m \in lost'
                      \/ \E r \in Runs : Fresh(r, m)'
    BY DEF PlanningIsOwned, Driving
  <2>1. CASE state[m] # "planning"
    <3>1. ClaimDeclared(m)
      BY <1>2, <2>1, RowStep DEF Moves, TypeOK
    <3>2. PICK r \in Runs : CreateTask(r, m, TRUE)
      BY <3>1 DEF ClaimDeclared
    <3> QED
      BY <1>2, <3>2 DEF CreateTask, Goto, Driving, TypeOK
  <2>2. CASE state[m] = "planning" /\ phase = "down"
    BY <1>2, <2>2, MainLoopStep
    DEF Boot, EndRecovery, EndScheduling, EndInitialSweep, Stop, RecoverOne,
        ScheduleRecovered
  <2>3. CASE state[m] = "planning" /\ phase = "recovering" /\ m \in toCheck
    <3>1. ASSUME NEW n \in Missions, RecoverOne(n)
          PROVE  \/ phase' = "down"
                 \/ phase' = "recovering" /\ m \in toCheck'
      <4>1. CASE n = m
        <5>1. m \notin ckpt /\ check_transition(state[m], "failed")
          BY <1>2, <2>3
          DEF CheckpointsAreOfRuns, WasRun, check_transition, ALLOWED
        <5>2. state'[m] = "failed"
          BY <1>2, <3>1, <4>1, <5>1 DEF RecoverOne, Transition, TypeOK
        <5> QED
          BY <5>2
      <4>2. CASE n # m
        <5>1. CASE n \in ckpt
          BY <2>3, <3>1, <4>2, <5>1 DEF RecoverOne
        <5>2. CASE n \notin ckpt /\ check_transition(state[n], "failed")
          BY <2>3, <3>1, <4>2, <5>2 DEF RecoverOne
        <5>3. CASE n \notin ckpt /\ ~check_transition(state[n], "failed")
          BY <3>1, <5>3 DEF RecoverOne, Transition
        <5> QED
          BY <5>1, <5>2, <5>3
      <4> QED
        BY <4>1, <4>2
    <3> QED
      BY <1>2, <2>3, <3>1, MainLoopStep
      DEF Boot, EndRecovery, EndScheduling, EndInitialSweep, Stop,
          ScheduleRecovered
  <2>4. ASSUME state[m] = "planning", NEW r \in Runs, Fresh(r, m)
        PROVE  phase' = "down" \/ m \in lost' \/ Fresh(r, m)'
    <3> SUFFICES ASSUME m \notin lost' PROVE phase' = "down" \/ Fresh(r, m)'
      OBVIOUS
    <3>1. pc[r] # "idle" /\ pc[r] # "returning" /\ ~zombie[r]
      BY <2>4 DEF Driving
    <3>2. ~Timeout(r) /\ ~HandleCrash(r)
      BY <1>2, <2>4, <3>1, FailingSettles DEF Terminal
    <3>3. CASE IsGone(r)
      BY <3>1, <3>2, <3>3 DEF IsGone, Return, Exit
    <3>4. CASE Continues(r) /\ pc'[r] = pc[r]
      BY <2>4, <3>1, <3>2, <3>4 DEF Continues, Driving
    <3>5. CASE Continues(r) /\ RunStep(r)
      <4>1. AcquireSemaphore(r) \/ GetMission(r) \/ CommitPlan(r)
        BY <2>4, <3>2, <3>5
        DEF RunStep, Invoke, GraphReturns, RequestUserInput, Finish, ReadBack,
            Return
      <4>2. ~CommitPlan(r)
        <5>1. check_transition(state[m], "running")
          BY <2>4 DEF check_transition, ALLOWED
        <5> QED
          BY <1>2, <2>4, <5>1 DEF CommitPlan, EngineCall, Transition, TypeOK
      <4>3. pc'[r] \in {"get", "commit_plan"}
        BY <1>2, <2>4, <4>1, <4>2
        DEF AcquireSemaphore, GetMission, Goto, TypeOK
      <4> QED
        BY <2>4, <3>1, <3>2, <3>5, <4>3 DEF Continues, Driving
    <3>6. CASE Continues(r) /\ CallFails(r)
      <4>1. pc'[r] = "crashed"
        BY <1>2, <3>6 DEF CallFails, Goto, TypeOK
      <4> QED
        BY <2>4, <3>1, <3>2, <3>6, <4>1 DEF Continues, Driving
    <3> QED
      BY <1>2, <3>1, <3>3, <3>4, <3>5, <3>6, RunsStepHolds
      DEF RunsStep, Starts, Continues
  <2>5. CASE state[m] = "planning" /\ m \in lost
    <3>1. CASE Boot
      BY <2>5, <3>1 DEF Boot
    <3> QED
      BY <1>2, <2>5, <3>1, WakeUpStep
  <2> QED
    BY <1>2, <2>1, <2>2, <2>3, <2>4, <2>5 DEF PlanningIsOwned, Driving
<1> QED
  BY <1>1, <1>2, TypeCorrect, IdleIsNoZombieInvariant, WorkIsClaimedInvariant,
     CheckpointsInvariant, PTL DEF Spec

\* Who looks after a running mission, in every phase of the daemon.
LookedAfter(m) ==
  \/ phase = "down"
  \/ phase = "recovering" /\ m \in toCheck \union recovered
  \/ phase = "scheduling" /\ m \in recovered
  \/ \E r \in Driving : mid[r] = m
  \/ unsent[m] > 0
  \/ m \in lost

RunningIsLookedAfter ==
  \A m \in Missions : state[m] = "running" => LookedAfter(m)

\* A run that drives a running mission goes on driving it until the mission
\* leaves running, its failure cannot be recorded or the daemon goes down.
LEMMA DrivingGoesOn ==
  ASSUME TypeOK, IdleIsNoZombie, WorkIsClaimed, [Next]_vars,
         NEW m \in Missions, state[m] = "running", state'[m] = "running",
         NEW r \in Driving, mid[r] = m
  PROVE  \/ phase' = "down"
         \/ m \in lost'
         \/ r \in Driving' /\ mid'[r] = m
<1> SUFFICES ASSUME m \notin lost'
             PROVE  phase' = "down" \/ (r \in Driving' /\ mid'[r] = m)
  OBVIOUS
<1>1. /\ r \in Runs
      /\ pc[r] # "idle" /\ pc[r] # "returning" /\ ~zombie[r]
  BY DEF Driving
<1>2. ~Timeout(r) /\ ~HandleCrash(r)
  BY <1>1, FailingSettles DEF Terminal
<1>3. CASE IsGone(r)
  BY <1>1, <1>2, <1>3 DEF IsGone, Return, Exit
<1>4. CASE Continues(r) /\ pc'[r] = pc[r]
  BY <1>1, <1>2, <1>4 DEF Continues, Driving
<1>5. CASE Continues(r) /\ RunStep(r)
  <2>1. /\ check_transition(state[m], "awaiting_user")
        /\ check_transition(state[m], "done")
        /\ check_transition(state[m], "failed")
    BY DEF check_transition, ALLOWED
  <2>2. ~RequestUserInput(r)
    BY <2>1 DEF RequestUserInput, EngineCall, Transition, TypeOK
  <2>3. ~Finish(r)
    BY <2>1 DEF Finish, EngineCall, Transition, TypeOK
  <2>4. ASSUME AcquireSemaphore(r) \/ GetMission(r) \/ Invoke(r) \/ ReadBack(r)
        PROVE  pc'[r] # "returning"
    BY <1>1, <2>4 DEF AcquireSemaphore, GetMission, Invoke, ReadBack, Goto,
                      TypeOK
  <2>5. ASSUME CommitPlan(r) \/ GraphReturns(r)
        PROVE  pc'[r] # "returning"
    BY <1>1, <2>5 DEF CommitPlan, EngineCall, GraphReturns, Goto, TypeOK
  <2>6. pc'[r] # "returning"
    BY <1>1, <1>2, <1>5, <2>2, <2>3, <2>4, <2>5 DEF RunStep, Return
  <2> QED
    BY <1>1, <1>2, <1>5, <2>6 DEF Continues, Driving
<1>6. CASE Continues(r) /\ CallFails(r)
  <2>1. pc'[r] = "crashed"
    BY <1>1, <1>6 DEF CallFails, Goto, TypeOK
  <2> QED
    BY <1>1, <1>2, <1>6, <2>1 DEF Continues, Driving
<1> QED
  BY <1>1, <1>3, <1>4, <1>5, <1>6, RunsStepHolds DEF RunsStep, Starts, Continues

\* Every running mission is looked after, in every phase.
LEMMA RunningIsLookedAfterInvariant == Spec => []RunningIsLookedAfter
<1>1. Init => RunningIsLookedAfter
  BY DEF Init, RunningIsLookedAfter, Absent
<1>2. ASSUME TypeOK, IdleIsNoZombie, WorkIsClaimed, ZombieMissionIsOver,
             RunningIsLookedAfter, [Next]_vars
      PROVE  RunningIsLookedAfter'
  <2> SUFFICES ASSUME NEW m \in Missions, state'[m] = "running"
               PROVE  LookedAfter(m)'
    BY DEF RunningIsLookedAfter, LookedAfter, Driving
  <2>1. CASE state[m] # "running"
    <3>1. CASE resume(m)
      BY <1>2, <3>1 DEF resume, LookedAfter, TypeOK
    <3>2. ASSUME NEW r \in Runs, CommitPlan(r), mid[r] = m, pc'[r] = "invoke"
          PROVE  LookedAfter(m)'
      <4>1. check_transition(state[m], "running")
        BY <1>2, <3>2 DEF CommitPlan, EngineCall, Transition, Goto, TypeOK
      <4>2. state[m] \notin Terminal
        BY <4>1 DEF check_transition, ALLOWED, Terminal
      <4>3. zombie' = zombie /\ mid' = mid /\ lost' = lost
        BY <3>2 DEF CommitPlan, EngineCall, noteVars
      <4>4. CASE m \in lost
        BY <4>3, <4>4 DEF LookedAfter
      <4>5. CASE ~zombie[r]
        BY <3>2, <4>3, <4>5 DEF LookedAfter, Driving
      <4> QED
        BY <1>2, <3>2, <4>2, <4>4, <4>5 DEF ZombieMissionIsOver
    <3> QED
      BY <1>2, <2>1, <3>1, <3>2, ArtifactsStepHolds DEF ArtifactsStep
  <2>2. CASE state[m] = "running" /\ phase = "down"
    BY <1>2, <2>2, MainLoopStep
    DEF LookedAfter, Boot, EndRecovery, EndScheduling, EndInitialSweep, Stop,
        RecoverOne, ScheduleRecovered
  <2>3. CASE /\ state[m] = "running"
             /\ phase = "recovering" /\ m \in toCheck \union recovered
    <3>1. ASSUME NEW n \in Missions, RecoverOne(n) PROVE LookedAfter(m)'
      <4>1. CASE n \in ckpt
        BY <2>3, <3>1, <4>1 DEF RecoverOne, LookedAfter
      <4>2. CASE n \notin ckpt /\ ~check_transition(state[n], "failed")
        BY <3>1, <4>2 DEF RecoverOne, Transition, LookedAfter
      <4>3. CASE n \notin ckpt /\ check_transition(state[n], "failed")
        <5>1. n # m
          BY <1>2, <3>1, <4>3 DEF RecoverOne, Transition, TypeOK
        <5> QED
          BY <2>3, <3>1, <4>3, <5>1 DEF RecoverOne, LookedAfter
      <4> QED
        BY <4>1, <4>2, <4>3
    <3> QED
      BY <1>2, <2>3, <3>1, MainLoopStep
      DEF LookedAfter, Boot, EndRecovery, EndScheduling, EndInitialSweep, Stop,
          ScheduleRecovered
  <2>4. CASE state[m] = "running" /\ phase = "scheduling" /\ m \in recovered
    <3>1. ASSUME NEW n \in Missions, ScheduleRecovered(n) PROVE LookedAfter(m)'
      <4>1. PICK r \in Runs : CreateTask(r, n, FALSE)
        BY <3>1 DEF ScheduleRecovered
      <4>2. CASE n = m
        BY <1>2, <4>1, <4>2
        DEF CreateTask, Goto, LookedAfter, Driving, TypeOK
      <4>3. CASE n # m
        BY <2>4, <3>1, <4>3 DEF ScheduleRecovered, LookedAfter
      <4> QED
        BY <4>2, <4>3
    <3> QED
      BY <1>2, <2>4, <3>1, MainLoopStep
      DEF LookedAfter, Boot, EndRecovery, EndScheduling, EndInitialSweep, Stop,
          RecoverOne
  <2>5. ASSUME state[m] = "running", NEW r \in Driving, mid[r] = m
        PROVE  LookedAfter(m)'
    BY <1>2, <2>5, DrivingGoesOn DEF LookedAfter
  <2>6. CASE state[m] = "running" /\ unsent[m] > 0
    <3>1. CASE DeliverResumed(m)
      <4>1. PICK r \in Runs : CreateTask(r, m, FALSE)
        BY <2>6, <3>1 DEF DeliverResumed
      <4> QED
        BY <1>2, <4>1 DEF CreateTask, Goto, LookedAfter, Driving, TypeOK
    <3>2. CASE DropResumed(m)
      BY <3>2 DEF DropResumed, LookedAfter
    <3>3. CASE unsent'[m] >= unsent[m]
      <4>1. unsent[m] \in Nat /\ unsent'[m] \in Nat
        BY <1>2, NextTypeOK DEF TypeOK
      <4> QED
        BY <2>6, <3>3, <4>1 DEF LookedAfter
    <3> QED
      BY <1>2, <3>1, <3>2, <3>3, WakeUpStep
  <2>7. CASE state[m] = "running" /\ m \in lost
    <3>1. CASE Boot
      BY <2>7, <3>1 DEF Boot, LookedAfter
    <3>2. CASE m \in lost'
      BY <3>2 DEF LookedAfter
    <3> QED
      BY <1>2, <2>7, <3>1, <3>2, WakeUpStep
  <2> QED
    BY <1>2, <2>1, <2>2, <2>3, <2>4, <2>5, <2>6, <2>7
    DEF RunningIsLookedAfter, LookedAfter
<1> QED
  BY <1>1, <1>2, TypeCorrect, IdleIsNoZombieInvariant, WorkIsClaimedInvariant,
     ZombiesCannotMoveMissions, PTL DEF Spec

\* While the daemon is up, a running mission has a run that will settle it or a
\* wake-up on its way; only a mission_resumed nobody received, or a failure that
\* could not be recorded, strands it until the next boot (_schedule_resumed,
\* _recover_and_schedule, _bounded_run).
THEOREM RunningHasADriver == Spec => []RunningIsDriven
<1>1. RunningIsLookedAfter => RunningIsDriven
  BY DEF RunningIsLookedAfter, LookedAfter, RunningIsDriven
<1> QED
  BY <1>1, RunningIsLookedAfterInvariant, PTL

=============================================================================
