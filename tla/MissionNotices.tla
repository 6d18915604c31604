---------------------------- MODULE MissionNotices ----------------------------
(***************************************************************************)
(* Who hears of a mission's changes.  The engine writes the row in one     *)
(* transaction and notifies mission_changed in another; two writers change *)
(* the row without notifying: the daemon's claim, and the observer when it *)
(* finds a draft sent.  Delegation waits for the mission's end in a        *)
(* sentinel's thread; the SSE broker of the API passes the notifications   *)
(* on to its subscribers through bounded queues.                           *)
(***************************************************************************)
EXTENDS Integers, Sequences, FiniteSets, MissionGuards

CONSTANTS Writers,    \* processes and threads that change the mission
          QueueSize,  \* queue_maxsize of a subscriber
          MaxRevs     \* changes of the mission
ASSUME NoticesAssumption == QueueSize \in Nat \ {0} /\ MaxRevs \in Nat \ {0}

VARIABLES
  mission,    \* the row: its state and how often it was changed
  unsent,     \* [Writers -> the change it has committed and not yet notified]
  wait,       \* the delegating thread: its step and, at the end, its result
  toWait,     \* notifications on their way to its connection
  toBroker,   \* notifications on their way to the broker's connection
  alive,      \* whether the broker's listener has its connection
  queue,      \* the subscriber's queue
  client,     \* the last change the client was told of; joined in "since"
  silent,     \* ghost: the last change whose notification was never sent
  newest,     \* ghost: the latest change notified of
  overtaken   \* ghost: the change whose notification came before an earlier one's

nvars ==
  <<mission, unsent, wait, toWait, toBroker, alive, queue, client, silent, newest,
    overtaken>>

NoChange == [state |-> Absent, rev |-> 0]
Ended(state) == state \in Terminal

NInit ==
  /\ mission = [state |-> "declared", rev |-> 1]
  /\ unsent = [w \in Writers |-> NoChange]
  /\ wait = [at |-> "connecting", result |-> "none"]
  /\ toWait = <<>> /\ toBroker = <<>> /\ alive = TRUE
  /\ queue = <<>> /\ client = [joined |-> FALSE, since |-> 0, told |-> 0]
  /\ silent = 0 /\ newest = 0 /\ overtaken = 0

\* _transition: check_transition and UPDATE, committed.
Commit(w) ==
  /\ unsent[w] = NoChange /\ mission.rev < MaxRevs
  /\ \E to \in MissionState :
       /\ check_transition(mission.state, to)
       /\ mission' = [state |-> to, rev |-> mission.rev + 1]
  /\ unsent' = [unsent EXCEPT ![w] = mission']
  /\ UNCHANGED <<wait, toWait, toBroker, alive, queue, client, silent, newest, overtaken>>

Listens == wait.at \in {"listening", "waiting"}

\* _notify, in a transaction of its own, to those who listen by then.
Notify(w) ==
  /\ unsent[w] # NoChange /\ unsent' = [unsent EXCEPT ![w] = NoChange]
  /\ toWait' = IF Listens THEN Append(toWait, unsent[w].rev) ELSE toWait
  /\ toBroker' = IF alive THEN Append(toBroker, unsent[w].rev) ELSE toBroker
  /\ IF unsent[w].rev < newest THEN overtaken' = newest /\ UNCHANGED newest
     ELSE newest' = unsent[w].rev /\ UNCHANGED overtaken
  /\ UNCHANGED <<mission, wait, alive, queue, client, silent>>

\* It fails, which is logged only, or the process ends in between.
NotifyFails(w) ==
  /\ unsent[w] # NoChange /\ unsent' = [unsent EXCEPT ![w] = NoChange]
  /\ silent' = IF unsent[w].rev > silent THEN unsent[w].rev ELSE silent
  /\ UNCHANGED <<mission, wait, toWait, toBroker, alive, queue, client, newest, overtaken>>

\* claim_declared_mission, and _transition_mission_to_done of the draft extractor,
\* which looks at no state.
WriteSilently ==
  /\ mission.rev < MaxRevs
  /\ \E to \in {"planning", "done"} :
       /\ to = "planning" => mission.state = "declared"
       /\ mission' = [state |-> to, rev |-> mission.rev + 1]
  /\ silent' = mission'.rev
  /\ UNCHANGED <<unsent, wait, toWait, toBroker, alive, queue, client, newest, overtaken>>

------------------------------------------------------------------------------
(* Delegation._await_terminal.                                                *)

Finish(result) == wait' = [at |-> "over", result |-> result] /\ toWait' = <<>>

\* LISTEN comes before the mission is read ...
Listen ==
  /\ wait.at = "connecting" /\ wait' = [wait EXCEPT !.at = "listening"]
  /\ UNCHANGED <<mission, unsent, toWait, toBroker, alive, queue, client, silent,
                 newest, overtaken>>

\* ... which ends the wait when Atlas was faster.
FastPath ==
  /\ wait.at = "listening"
  /\ IF Ended(mission.state) THEN Finish(mission.state)
     ELSE wait' = [wait EXCEPT !.at = "waiting"] /\ UNCHANGED toWait
  /\ UNCHANGED <<mission, unsent, toBroker, alive, queue, client, silent, newest, overtaken>>

\* A notification only says that there is something to read.
Reread ==
  /\ wait.at = "waiting" /\ toWait # <<>>
  /\ IF Ended(mission.state) THEN Finish(mission.state)
     ELSE toWait' = Tail(toWait) /\ UNCHANGED wait
  /\ UNCHANGED <<mission, unsent, toBroker, alive, queue, client, silent, newest, overtaken>>

\* timeout_s passes; the mission goes on.
Timeout ==
  /\ wait.at \in {"connecting", "listening", "waiting"} /\ Finish("timeout")
  /\ UNCHANGED <<mission, unsent, toBroker, alive, queue, client, silent, newest, overtaken>>

------------------------------------------------------------------------------
(* SSEBroker.                                                                 *)

Subscribe ==
  /\ ~client.joined
  /\ client' = [joined |-> TRUE, since |-> mission.rev, told |-> 0]
  /\ queue' = <<>>
  /\ UNCHANGED <<mission, unsent, wait, toWait, toBroker, alive, silent, newest, overtaken>>

Unsubscribe ==
  /\ client.joined /\ client' = [client EXCEPT !.joined = FALSE] /\ queue' = <<>>
  /\ UNCHANGED <<mission, unsent, wait, toWait, toBroker, alive, silent, newest, overtaken>>

\* Mutants: a queue without a bound; a full queue refuses what is new.
Put_Unbounded(q, x) == Append(q, x)
Put_DroppingNew(q, x) == IF Len(q) < QueueSize THEN Append(q, x) ELSE q

\* _put_dropping_oldest.
Put(q, x) == IF Len(q) < QueueSize THEN Append(q, x) ELSE Append(Tail(q), x)

Broadcast ==
  /\ toBroker # <<>> /\ toBroker' = Tail(toBroker)
  /\ queue' = IF client.joined THEN Put(queue, Head(toBroker)) ELSE queue
  /\ UNCHANGED <<mission, unsent, wait, toWait, alive, client, silent, newest, overtaken>>

\* _stream_events.
Tell ==
  /\ queue # <<>> /\ queue' = Tail(queue)
  /\ client' = [client EXCEPT !.told = Head(queue)]
  /\ UNCHANGED <<mission, unsent, wait, toWait, toBroker, alive, silent, newest, overtaken>>

\* The connection of the listening thread is lost: listen() goes on waiting, and
\* nothing comes any more until the API starts again.
ListenerDies ==
  /\ alive /\ alive' = FALSE /\ toBroker' = <<>>
  /\ UNCHANGED <<mission, unsent, wait, toWait, queue, client, silent, newest, overtaken>>

NNext ==
  \/ \E w \in Writers : Commit(w) \/ Notify(w) \/ NotifyFails(w)
  \/ WriteSilently
  \/ Listen \/ FastPath \/ Reread \/ Timeout
  \/ Subscribe \/ Unsubscribe \/ Broadcast \/ Tell \/ ListenerDies

NSpec == NInit /\ [][NNext]_nvars

------------------------------------------------------------------------------

\* The types of the variables.
NTypeOK ==
  /\ mission.state \in MissionState /\ mission.rev \in 1..MaxRevs
  /\ wait.at \in {"connecting", "listening", "waiting", "over"}
  /\ wait.result \in {"none", "timeout"} \cup Terminal
  /\ Len(queue) <= QueueSize /\ client.told \in 0..MaxRevs

Told == client.told = mission.rev \/ \E i \in DOMAIN queue : queue[i] = mission.rev

\* A delegating thread that waits for a mission that has ended is about to hear of
\* it, at whatever moment the mission ended; unless the end was written by somebody
\* who does not notify, or the notification failed: it then waits for its timeout
\* and reports a mission as timed out that is done (delegation.py _await_terminal).
WaitIsShort ==
  (wait.at = "waiting" /\ Ended(mission.state)) =>
    \/ toWait # <<>> \/ silent = mission.rev
    \/ \E w \in Writers : unsent[w].rev = mission.rev

\* A client that was connected when the mission last changed is told of that
\* change, or has it in its queue, once every notification has been passed on: the
\* queue drops old ones only.  It is not told if the broker's listener has died or
\* the change was written silently; and if the notification of an earlier change
\* came after it, the client believes that one (broker.py _put_dropping_oldest,
\* engine.py _notify_state_change).
LastChangeIsTold ==
  (client.joined /\ client.since < mission.rev /\ alive /\ toBroker = <<>>
     /\ silent < mission.rev /\ \A w \in Writers : unsent[w] = NoChange) =>
    \/ Told
    \/ overtaken = mission.rev

\* Those who wait for the end of a mission, and those who watch it, learn of it.
EndIsHeard == WaitIsShort /\ LastChangeIsTold
=============================================================================
