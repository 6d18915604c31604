--------------------------- MODULE RabbitRuntime ---------------------------
(***************************************************************************)
(* A sentinel on a RabbitMQ queue: RabbitMQEventSource                     *)
(* (sentinels/sources/rabbitmq.py) takes one message after the other,      *)
(* hands it to EventDispatch, and acknowledges it when its task asks for   *)
(* it.  What the broker does with messages nobody acknowledged is modelled *)
(* from what the source relies on.                                         *)
(***************************************************************************)
EXTENDS EventDispatch

CONSTANT Malformed  \* the messages whose body is not JSON

VARIABLES
  broker,  \* where the broker has a message of the sentinel's queue
  stream,  \* stream(): "down" without a process, "dead" after an exception
  stale    \* tasks whose message was delivered on a channel that is gone

sourceVars == <<broker, stream, stale>>
vars       == <<dispatchVars, faults, sourceVars>>

MessageState == {"none", "ready", "unacked", "acked", "rejected"}

Init ==
  /\ DispatchInit
  /\ broker = [e \in Events |-> "none"]
  /\ stream = "down"
  /\ stale  = {}

-----------------------------------------------------------------------------
(* The broker                                                              *)

Publish(e) ==
  /\ broker[e] = "none"
  /\ broker' = [broker EXCEPT ![e] = "ready"]
  /\ UNCHANGED <<dispatchVars, faults, stream, stale>>

\* With the channel, its unacknowledged messages return to the queue.
CloseChannel ==
  broker' = [e \in Events |-> IF broker[e] = "unacked" THEN "ready"
                              ELSE broker[e]]

\* The connection is restored between two get() calls, or one of them raises.
ConnectionLost ==
  /\ stream = "on"
  /\ Fault
  /\ CloseChannel
  /\ stale' = Active
  /\ stream' \in {"on", "dead"}
  /\ UNCHANGED dispatchVars

-----------------------------------------------------------------------------
(* stream() and the tasks                                                  *)

\* The process starts: run(), _run_one, and the declarations of stream().
Start ==
  /\ stream = "down"
  /\ stream' = "on"
  /\ UNCHANGED <<dispatchVars, faults, broker, stale>>

\* get() returns a message and a task is created for it.
Deliver(e) ==
  /\ stream = "on"
  /\ broker[e] = "ready"
  /\ e \notin Malformed
  /\ CreateTasks({e})
  /\ broker' = [broker EXCEPT ![e] = "unacked"]
  /\ UNCHANGED <<faults, stream, stale>>

\* nack(requeue=False).
Reject(e) ==
  /\ stream = "on"
  /\ broker[e] = "ready"
  /\ e \in Malformed
  /\ broker' = [broker EXCEPT ![e] = "rejected"]
  /\ UNCHANGED <<dispatchVars, faults, stream, stale>>

StillStale == stale' = {t \in stale : pc'[t] # "idle"}

\* ack() of a message of a channel that is gone raises: the task ends with it.
AckMessage(t) ==
  /\ Ack(t)
  /\ broker' = IF t \in stale THEN broker ELSE [broker EXCEPT ![ev[t]] = "acked"]
  /\ StillStale
  /\ UNCHANGED <<faults, stream>>

Work(t) ==
  /\ TaskStep(t)
  /\ StillStale
  /\ UNCHANGED <<broker, stream>>

WorkFails(t) ==
  /\ CallFails(t)
  /\ StillStale
  /\ UNCHANGED <<broker, stream>>

\* Crash or SIGTERM, between two messages or with one just delivered, which is
\* requeued; a runtime with a dead stream is restarted by its operator.
Exit ==
  /\ stream # "down"
  /\ \/ Fault
     \/ stream = "dead" /\ UNCHANGED faults
  /\ stream' = "down"
  /\ stale' = {}
  /\ CloseChannel
  /\ EndAllTasks

Dispatch(t) == AckMessage(t) \/ Work(t)

Next ==
  \/ \E e \in Events : Publish(e)
  \/ Start
  \/ \E e \in Events : Deliver(e)
  \/ \E e \in Events : Reject(e)
  \/ \E t \in Tasks : Dispatch(t)
  \/ \E t \in Tasks : WorkFails(t)
  \/ ConnectionLost
  \/ Exit
  \/ DayPasses /\ UNCHANGED sourceVars

Spec == Init /\ [][Next]_vars

(***************************************************************************)
(* The runtime is restarted, the loop of stream() takes the next message   *)
(* there is, and the calls of a task return.                               *)
(***************************************************************************)
FairSpec ==
  /\ Spec
  /\ WF_vars(Start)
  /\ \A e \in Events : WF_vars(Deliver(e)) /\ WF_vars(Reject(e))
  /\ \A t \in Tasks : WF_vars(Dispatch(t))

-----------------------------------------------------------------------------
(* Properties                                                              *)

TypeOK ==
  /\ DispatchTypeOK
  /\ broker \in [Events -> MessageState]
  /\ stream \in {"down", "on", "dead"}
  /\ stale \subseteq Active

Delivered(t) == t \in Active \ stale

\* process() came to an end for the event, with or without an error.
Handled(e) ==
  \E i \in 1 .. Len(rows) :
    rows[i].event = e /\ rows[i].complete /\ rows[i].outcome # "ignored"

\* A run of the event ended with its process or with an exception after its row
\* was inserted: the row says "processed", and nobody is going to complete it.
CutShort(e) ==
  \E i \in 1 .. Len(rows) :
    /\ rows[i].event = e /\ ~rows[i].complete /\ rows[i].outcome = "processed"
    /\ \A t \in Tasks : run[t] # i

\* A message that is acknowledged was taken: it has a row of its own, not only
\* that of a duplicate.  The row is written before process() is called; whether
\* process() came to an end is the question of MessageSettles.
AckedWasTaken ==
  \A e \in Events :
    broker[e] = "acked" =>
      \E i \in 1 .. Len(rows) : rows[i].event = e /\ rows[i].outcome # "ignored"

\* The broker is never left waiting for an acknowledgement in silence: a live
\* task has the message, or its run is recorded as an error, or the task ended
\* with an exception.
UnackedIsExplained ==
  \A e \in Events :
    broker[e] = "unacked" =>
      \/ \E t \in Tasks : Delivered(t) /\ ev[t] = e
      \/ \E i \in 1 .. Len(rows) : rows[i].event = e /\ rows[i].outcome = "error"
      \/ e \in abandoned

\* The queue is worked off, however often the process or its connection goes
\* down: time and again process() came to an end for every message published -
\* except those whose run was cut short, which are lost: the redelivery finds the
\* row and is acknowledged as a duplicate.  (So RabbitMQ's "at-least-once
\* guarantee" of jmap_poll.py does not reach process().)  Otherwise only a failure
\* of the bookkeeping or the end of the stream leaves a message unhandled.
MessageSettles ==
  []<>(\A e \in Events :
         \/ broker[e] \in {"none", "rejected"}
         \/ Handled(e)
         \/ CutShort(e)
         \/ broker[e] = "unacked" /\ e \in abandoned
         \/ stream = "dead")

=============================================================================
