-------------------------- MODULE MissionLifecycle --------------------------
(***************************************************************************)
(* What the mission engine promises of the rows it owns: a mission appears *)
(* either declared or, for a sentinel that wants the owner's attention,    *)
(* already parked; from then on its state only moves along the guard       *)
(* table.  No process, lock, message or crash is visible here.  AtlasDaemon*)
(* implements this specification.                                          *)
(***************************************************************************)
EXTENDS MissionGuards

CONSTANT Missions

VARIABLE state

Init == state = [m \in Missions |-> Absent]

\* engine.declare inserts a declared row; engine.park_for_review inserts and
\* parks in one transaction, so nobody ever sees that row in "declared".
Create(m) ==
  /\ state[m] = Absent
  /\ \E s \in {"declared", "awaiting_user"} : state' = [state EXCEPT ![m] = s]

\* engine._transition and engine.finish: lock the row, check, update, commit.
Transition(m) ==
  \E to \in MissionState :
    /\ check_transition(state[m], to)
    /\ state' = [state EXCEPT ![m] = to]

Next == \E m \in Missions : Create(m) \/ Transition(m)

Spec == Init /\ [][Next]_state

-----------------------------------------------------------------------------

\* The states a mission row may be in.
TypeOK == state \in [Missions -> MissionState \union {Absent}]

\* A mission that reached a terminal state stays there, whoever else still
\* works on it (guards._ALLOWED gives terminal states no successor).
TerminalIsFinal ==
  [][\A m \in Missions : state[m] \in Terminal => state'[m] = state[m]]_state

\* Success is only ever reported of a mission that was being run: not of one
\* still being planned, nor of one waiting for its owner.
DoneOnlyFromRunning ==
  [][\A m \in Missions :
       state'[m] = "done" /\ state[m] # "done" => state[m] = "running"]_state

=============================================================================
