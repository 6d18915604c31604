--------------------------- MODULE EventDispatch ---------------------------
(***************************************************************************)
(* What the sentinel runtime (sentinels/runtime.py) does with an event that*)
(* a source hands out: a dispatch task waits for the semaphore, looks for  *)
(* an earlier run of the event, inserts a row, calls process() in a thread *)
(* under a timeout, updates the row and acknowledges the event.            *)
(*                                                                         *)
(* One sentinel of one runtime process.  The actions say nothing of the    *)
(* source; JmapRuntime and RabbitRuntime compose them with one.            *)
(***************************************************************************)
EXTENDS Naturals, Sequences, FiniteSets

CONSTANTS
  Events,         \* what the source can deliver; each has a message id
  Tasks,          \* identities of dispatch tasks, reused once idle
  MaxConcurrent,  \* settings.sentinel_max_concurrent_events
  MaxFaults,      \* bound on crashes, connection losses and failing calls
  None

ASSUME DispatchAssumption ==
  /\ None \notin Events
  /\ MaxConcurrent \in Nat \ {0}
  /\ MaxFaults \in Nat

VARIABLES
  rows,       \* the sentinel's rows of sentinel_run, in the order of insertion
  old,        \* how many of them are older than 24 hours
  pc,         \* where a dispatch task is
  ev,         \* the event it was created for
  run,        \* the row it inserted
  abandoned,  \* history: events whose task ended with an exception, or with the
              \* process
  faults      \* how many faults there were

dispatchVars == <<rows, old, pc, ev, run, abandoned>>

TaskPc ==
  {"idle", "waiting", "find_run_by_event_ref", "insert_ignored",
   "update_ignored", "insert_run", "process",
   "update_processed", "update_error", "ack"}

\* "processed" stands for every outcome of a process() that returns.
Row == [event : Events, outcome : {"processed", "ignored", "error"},
        complete : BOOLEAN]

Active == {t \in Tasks : pc[t] # "idle"}

Holding == {t \in Active : pc[t] # "waiting"}

DispatchInit ==
  /\ rows      = <<>>
  /\ old       = 0
  /\ pc        = [t \in Tasks |-> "idle"]
  /\ ev        = [t \in Tasks |-> None]
  /\ run       = [t \in Tasks |-> 0]
  /\ abandoned = {}
  /\ faults    = 0

-----------------------------------------------------------------------------

Fault == faults < MaxFaults /\ faults' = faults + 1

Goto(t, label) == pc' = [pc EXCEPT ![t] = label]

\* asyncio.create_task(_dispatch(...)) for every event of a batch; which of the
\* idle identities they get is immaterial.
CreateTasks(batch) ==
  LET idle  == Tasks \ Active
      slots == {f \in [batch -> idle] :
                  \A e, g \in batch : f[e] = f[g] => e = g}
      slot  == CHOOSE f \in slots : TRUE
      EventOf(t) == CHOOSE e \in batch : slot[e] = t
      New   == {slot[e] : e \in batch}
  IN  /\ slots # {}
      /\ pc' = [t \in Tasks |-> IF t \in New THEN "waiting" ELSE pc[t]]
      /\ ev' = [t \in Tasks |-> IF t \in New THEN EventOf(t) ELSE ev[t]]
      /\ UNCHANGED <<rows, old, run, abandoned>>

EndTask(t) ==
  /\ Goto(t, "idle")
  /\ ev' = [ev EXCEPT ![t] = None]
  /\ run' = [run EXCEPT ![t] = 0]

InsertRow(t, outcome) ==
  /\ rows' = Append(rows, [event |-> ev[t], outcome |-> outcome,
                           complete |-> FALSE])
  /\ run' = [run EXCEPT ![t] = Len(rows) + 1]

CompleteRow(t, outcome) ==
  rows' = [rows EXCEPT ![run[t]].outcome = outcome, ![run[t]].complete = TRUE]

\* async with sem.
AcquireSemaphore(t) ==
  /\ pc[t] = "waiting"
  /\ Cardinality(Holding) < MaxConcurrent
  /\ Goto(t, "find_run_by_event_ref")
  /\ UNCHANGED <<rows, old, ev, run, abandoned>>

\* A row of the last 24 hours with the event's event_ref.
RecentRun(e) == \E i \in old + 1 .. Len(rows) : rows[i].event = e

\* Mutant: a run that has not ended, or ended in an error, does not count.
FindRun_Succeeded(t) ==
  /\ pc[t] = "find_run_by_event_ref"
  /\ Goto(t, IF \E i \in old + 1 .. Len(rows) :
                  /\ rows[i].event = ev[t]
                  /\ rows[i].complete /\ rows[i].outcome # "error"
               THEN "insert_ignored" ELSE "insert_run")
  /\ UNCHANGED <<rows, old, ev, run, abandoned>>

\* Mutant: the query forgets to compare the event.
FindRun_AnyEvent(t) ==
  /\ pc[t] = "find_run_by_event_ref"
  /\ Goto(t, IF old < Len(rows) THEN "insert_ignored" ELSE "insert_run")
  /\ UNCHANGED <<rows, old, ev, run, abandoned>>

\* The idempotency check matches rows of any outcome, ignored ones too.
FindRun(t) ==
  /\ pc[t] = "find_run_by_event_ref"
  /\ Goto(t, IF RecentRun(ev[t]) THEN "insert_ignored" ELSE "insert_run")
  /\ UNCHANGED <<rows, old, ev, run, abandoned>>

\* Mutant: a duplicate has no row of its own.
InsertIgnored_NoRow(t) ==
  /\ pc[t] = "insert_ignored"
  /\ Goto(t, "update_ignored")
  /\ UNCHANGED <<rows, old, ev, run, abandoned>>

InsertIgnored(t) ==
  /\ pc[t] = "insert_ignored"
  /\ InsertRow(t, "ignored")
  /\ Goto(t, "update_ignored")
  /\ UNCHANGED <<old, ev, abandoned>>

\* Mutant: duplicates are not acknowledged.
UpdateIgnored_NoAck(t) ==
  /\ pc[t] = "update_ignored"
  /\ CompleteRow(t, "ignored")
  /\ EndTask(t)
  /\ UNCHANGED <<old, abandoned>>

UpdateIgnored(t) ==
  /\ pc[t] = "update_ignored"
  /\ CompleteRow(t, "ignored")
  /\ Goto(t, "ack")
  /\ UNCHANGED <<old, ev, run, abandoned>>

\* The row says "processed" before process() is called.
InsertRun(t) ==
  /\ pc[t] = "insert_run"
  /\ InsertRow(t, "processed")
  /\ Goto(t, "process")
  /\ UNCHANGED <<old, ev, abandoned>>

\* process() returns, raises or exceeds sentinel_timeout_s; in the last case its
\* thread goes on, with nothing that matters here.
ProcessEnds(t) ==
  /\ pc[t] = "process"
  /\ \E label \in {"update_processed", "update_error"} : Goto(t, label)
  /\ UNCHANGED <<rows, old, ev, run, abandoned>>

\* Mutant: the semaphore is only given back after an acknowledgement.
UpdateRun_KeepsSlot(t) ==
  /\ \/ /\ pc[t] = "update_processed"
        /\ CompleteRow(t, "processed")
        /\ Goto(t, "ack")
     \/ /\ pc[t] = "update_error"
        /\ ~rows[run[t]].complete
        /\ CompleteRow(t, "error")
        /\ UNCHANGED pc
  /\ UNCHANGED <<old, ev, run, abandoned>>

\* update_run, and _dispatch's decision: events that ended in an error are not
\* acknowledged.
UpdateRun(t) ==
  \/ /\ pc[t] = "update_processed"
     /\ CompleteRow(t, "processed")
     /\ Goto(t, "ack")
     /\ UNCHANGED <<old, ev, run, abandoned>>
  \/ /\ pc[t] = "update_error"
     /\ CompleteRow(t, "error")
     /\ EndTask(t)
     /\ UNCHANGED <<old, abandoned>>

\* The task's part of the acknowledgement.
Ack(t) ==
  /\ pc[t] = "ack"
  /\ EndTask(t)
  /\ UNCHANGED <<rows, old, abandoned>>

\* The steps a task takes up to its acknowledgement.
TaskStep(t) ==
  /\ \/ AcquireSemaphore(t)
     \/ FindRun(t)
     \/ InsertIgnored(t)
     \/ UpdateIgnored(t)
     \/ InsertRun(t)
     \/ ProcessEnds(t)
     \/ UpdateRun(t)
  /\ UNCHANGED faults

\* A bookkeeping call raises: the task ends, nobody looks at its exception.
CallFails(t) ==
  /\ pc[t] \in {"find_run_by_event_ref", "insert_ignored", "update_ignored",
                "insert_run", "update_processed", "update_error"}
  /\ Fault
  /\ abandoned' = abandoned \union {ev[t]}
  /\ EndTask(t)
  /\ UNCHANGED <<rows, old>>

\* The process ends, and its tasks with it.
EndAllTasks ==
  /\ abandoned' = abandoned \union {ev[t] : t \in Active}
  /\ pc' = [t \in Tasks |-> "idle"]
  /\ ev' = [t \in Tasks |-> None]
  /\ run' = [t \in Tasks |-> 0]
  /\ UNCHANGED <<rows, old>>

\* A day passes.  Rows of runs in progress stay recent: process() is bounded by
\* its timeout, and the bookkeeping around it is quick.
DayPasses ==
  /\ \E n \in old + 1 .. Len(rows) :
       /\ \A t \in Tasks : run[t] # 0 => n < run[t]
       /\ old' = n
  /\ UNCHANGED <<rows, pc, ev, run, abandoned, faults>>

-----------------------------------------------------------------------------

DispatchTypeOK ==
  /\ rows \in Seq(Row)
  /\ old \in 0 .. Len(rows)
  /\ pc \in [Tasks -> TaskPc]
  /\ ev \in [Tasks -> Events \union {None}]
  /\ run \in [Tasks -> 0 .. Len(rows)]
  /\ \A t \in Tasks :
       /\ pc[t] # "idle" => ev[t] \in Events
       /\ pc[t] \in TaskPc \ {"idle", "waiting", "find_run_by_event_ref",
                             "insert_ignored", "insert_run"}
          => run[t] # 0 /\ rows[run[t]].event = ev[t]
  /\ abandoned \subseteq Events
  /\ faults \in Nat

\* process() is called once for an event in 24 hours: of two rows about one
\* event that are no duplicates, the first was too old to be found.
ProcessedOnce ==
  \A i, j \in 1 .. Len(rows) :
    /\ i < j
    /\ rows[i].event = rows[j].event
    /\ rows[i].outcome # "ignored"
    /\ rows[j].outcome # "ignored"
    => i <= old

\* The event has a row that says how it ended.
Settled(e) ==
  \E i \in 1 .. Len(rows) : rows[i].event = e /\ rows[i].complete

=============================================================================
