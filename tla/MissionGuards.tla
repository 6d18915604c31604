--------------------------- MODULE MissionGuards ---------------------------
(***************************************************************************)
(* The Mission state machine as data: the states of a row of the `mission` *)
(* table and the table of transitions that every mutation is checked       *)
(* against (missions/guards.py, missions/models.py).                       *)
(*                                                                         *)
(* "absent" is the state of an identifier for which no row exists yet.     *)
(***************************************************************************)

MissionState ==
  {"declared", "planning", "running", "awaiting_user", "done", "failed",
   "cancelled"}

Absent == "absent"

\* MissionState.is_terminal
Terminal == {"done", "failed", "cancelled"}

\* The states list_live returns: a row that is neither missing nor terminal.
Live == MissionState \ Terminal

\* guards._ALLOWED, as the set of its <<from, to>> pairs.
ALLOWED ==
  ({"declared"} \X {"planning", "awaiting_user", "cancelled", "failed"})
    \union ({"planning"} \X {"running", "cancelled", "failed"})
    \union ({"running"} \X {"awaiting_user", "done", "failed", "cancelled"})
    \union ({"awaiting_user"} \X {"running", "cancelled", "failed"})

\* guards.check_transition: FALSE where the code raises InvalidTransition.
check_transition(from, to) == <<from, to>> \in ALLOWED

=============================================================================
