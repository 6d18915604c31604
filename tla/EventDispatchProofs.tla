------------------------- MODULE EventDispatchProofs -------------------------
(***************************************************************************)
(* What the steps of EventDispatch do to its variables, for any number of  *)
(* events, tasks and slots: the lemmas that the proofs about RabbitRuntime *)
(* and JmapRuntime, which compose these steps with a source, rest on.      *)
(***************************************************************************)
EXTENDS EventDispatch, SequenceTheorems, TLAPS

\* A step of the dispatch part, as the two sources compose it.
TaskMoves(t) ==
  \/ AcquireSemaphore(t) \/ FindRun(t) \/ InsertIgnored(t) \/ UpdateIgnored(t)
  \/ InsertRun(t) \/ ProcessEnds(t) \/ UpdateRun(t)
  \/ Ack(t) \/ CallFails(t)

DispatchMoves ==
  \/ UNCHANGED dispatchVars
  \/ \E batch \in SUBSET Events : CreateTasks(batch)
  \/ \E t \in Tasks : TaskMoves(t)
  \/ EndAllTasks
  \/ DayPasses

Outcomes == {"processed", "ignored", "error"}

\* Process() was called for the event, or was about to be.
TakenIn(rs, e) == \E i \in 1..Len(rs) : rs[i].event = e /\ rs[i].outcome # "ignored"

Taken(e) == TakenIn(rows, e)

------------------------------------------------------------------------------
(* Rows and tasks. *)

\* insert_run adds a row at the end.
LEMMA Inserted ==
  ASSUME DispatchTypeOK, NEW t \in Tasks, ev[t] \in Events,
         NEW outcome \in Outcomes, InsertRow(t, outcome)
  PROVE  /\ rows' \in Seq(Row) /\ Len(rows') = Len(rows) + 1
         /\ \A i \in 1..Len(rows) : rows'[i] = rows[i]
         /\ rows'[Len(rows) + 1].event = ev[t]
         /\ rows'[Len(rows) + 1].outcome = outcome
         /\ run' = [run EXCEPT ![t] = Len(rows) + 1]
<1> DEFINE row == [event |-> ev[t], outcome |-> outcome, complete |-> FALSE]
<1>1. row \in Row
  BY DEF Row, Outcomes
<1>2. rows \in Seq(Row)
  BY DEF DispatchTypeOK
<1>3. /\ Append(rows, row) \in Seq(Row) /\ Len(Append(rows, row)) = Len(rows) + 1
      /\ \A i \in 1..Len(rows) : Append(rows, row)[i] = rows[i]
      /\ Append(rows, row)[Len(rows) + 1] = row
  BY <1>1, <1>2, AppendProperties
<1>4. rows' = Append(rows, row) /\ run' = [run EXCEPT ![t] = Len(rows) + 1]
  BY DEF InsertRow
<1>5. row.event = ev[t] /\ row.outcome = outcome
  OBVIOUS
<1> QED  BY <1>3, <1>4, <1>5

\* update_run changes the outcome of one row and the event of none.
LEMMA Completed ==
  ASSUME DispatchTypeOK, NEW t \in Tasks, run[t] # 0,
         NEW outcome \in Outcomes, CompleteRow(t, outcome)
  PROVE  /\ rows' \in Seq(Row) /\ Len(rows') = Len(rows)
         /\ \A i \in 1..Len(rows) : rows'[i].event = rows[i].event
         /\ \A i \in 1..Len(rows) : i # run[t] => rows'[i] = rows[i]
         /\ rows'[run[t]].outcome = outcome
<1> DEFINE row == [rows[run[t]] EXCEPT !.outcome = outcome, !.complete = TRUE]
<1>1. rows \in Seq(Row) /\ run[t] \in 1..Len(rows)
  BY DEF DispatchTypeOK
<1>2. rows[run[t]] \in Row
  BY <1>1, ElementOfSeq
<1>3. row \in Row /\ row.event = rows[run[t]].event /\ row.outcome = outcome
  BY <1>2 DEF Row, Outcomes
<1>4. rows' = [rows EXCEPT ![run[t]] = row]
  BY DEF CompleteRow
<1>5. /\ [rows EXCEPT ![run[t]] = row] \in Seq(Row)
      /\ Len([rows EXCEPT ![run[t]] = row]) = Len(rows)
      /\ \A j \in 1..Len(rows) :
           [rows EXCEPT ![run[t]] = row][j] = IF j = run[t] THEN row ELSE rows[j]
  BY <1>1, <1>3, ExceptSeq
<1> QED  BY <1>1, <1>3, <1>4, <1>5

\* Creating tasks takes idle ones, gives each an event of the batch, and every
\* event of the batch to one of them.
LEMMA Created ==
  ASSUME DispatchTypeOK, NEW batch \in SUBSET Events, CreateTasks(batch)
  PROVE  \E N \in SUBSET Tasks :
           /\ \A t \in N : pc[t] = "idle" /\ pc'[t] = "waiting" /\ ev'[t] \in batch
           /\ \A t \in Tasks \ N : pc'[t] = pc[t] /\ ev'[t] = ev[t]
           /\ \A e \in batch : \E t \in N : ev'[t] = e
           /\ \A s, t \in N : ev'[s] = ev'[t] => s = t
           /\ pc' \in [Tasks -> TaskPc] /\ ev' \in [Tasks -> Events \union {None}]
           /\ UNCHANGED <<rows, old, run, abandoned>>
<1> DEFINE idle  == Tasks \ Active
           slots == {f \in [batch -> idle] : \A e, g \in batch : f[e] = f[g] => e = g}
           slot  == CHOOSE f \in slots : TRUE
           EventOf(t) == CHOOSE e \in batch : slot[e] = t
           N == {slot[e] : e \in batch}
<1>1. /\ slots # {}
      /\ pc' = [t \in Tasks |-> IF t \in N THEN "waiting" ELSE pc[t]]
      /\ ev' = [t \in Tasks |-> IF t \in N THEN EventOf(t) ELSE ev[t]]
      /\ UNCHANGED <<rows, old, run, abandoned>>
  BY DEF CreateTasks
<1>2. slot \in slots
  BY <1>1
<1>3. slot \in [batch -> idle] /\ \A e, g \in batch : slot[e] = slot[g] => e = g
  BY <1>2
<1> HIDE DEF slot, slots
<1>4. N \subseteq idle
  BY <1>3
<1>5. \A t \in N : EventOf(t) \in batch /\ slot[EventOf(t)] = t
  <2> TAKE t \in N
  <2>1. \E e \in batch : slot[e] = t
    OBVIOUS
  <2> QED  BY <2>1
<1>6. \A e \in batch : slot[e] \in N /\ EventOf(slot[e]) = e
  <2> TAKE e \in batch
  <2>1. slot[e] \in N
    OBVIOUS
  <2> QED  BY <2>1, <1>5, <1>3
<1> HIDE DEF N, EventOf
<1>7. N \subseteq Tasks /\ \A t \in N : pc[t] = "idle"
  BY <1>4 DEF Active
<1>8. \A t \in N : t \in Tasks /\ pc'[t] = "waiting" /\ ev'[t] = EventOf(t)
  BY <1>1, <1>7
<1>9. \A e \in batch : \E t \in N : ev'[t] = e
  BY <1>6, <1>8
<1>10. \A s, t \in N : ev'[s] = ev'[t] => s = t
  BY <1>5, <1>8
<1>11. pc' \in [Tasks -> TaskPc] /\ ev' \in [Tasks -> Events \union {None}]
  BY <1>1, <1>5 DEF DispatchTypeOK, TaskPc
<1>12. \A t \in Tasks \ N : pc'[t] = pc[t] /\ ev'[t] = ev[t]
  BY <1>1
<1>13. \A t \in N : pc[t] = "idle" /\ pc'[t] = "waiting" /\ ev'[t] \in batch
  BY <1>5, <1>7, <1>8
<1> QED  BY <1>1, <1>7, <1>9, <1>10, <1>11, <1>12, <1>13

------------------------------------------------------------------------------
(* Types. *)

LEMMA TypesKept ==
  ASSUME DispatchTypeOK, DispatchMoves, faults' \in Nat
  PROVE  DispatchTypeOK'
<1>1. CASE UNCHANGED dispatchVars
  BY <1>1 DEF DispatchTypeOK, dispatchVars
<1>2. CASE \E batch \in SUBSET Events : CreateTasks(batch)
  <2>1. PICK batch \in SUBSET Events : CreateTasks(batch)
    BY <1>2
  <2>2. PICK N \in SUBSET Tasks :
           /\ \A t \in N : pc[t] = "idle" /\ pc'[t] = "waiting" /\ ev'[t] \in batch
           /\ \A t \in Tasks \ N : pc'[t] = pc[t] /\ ev'[t] = ev[t]
           /\ pc' \in [Tasks -> TaskPc] /\ ev' \in [Tasks -> Events \union {None}]
           /\ UNCHANGED <<rows, old, run, abandoned>>
    BY <2>1, Created
  <2> QED  BY <2>2 DEF DispatchTypeOK
<1>3. CASE \E t \in Tasks : TaskMoves(t)
  <2>1. PICK t \in Tasks : TaskMoves(t)
    BY <1>3
  <2>2. CASE AcquireSemaphore(t)
    BY <2>2 DEF AcquireSemaphore, Goto, DispatchTypeOK, TaskPc
  <2>3. CASE FindRun(t)
    BY <2>3 DEF FindRun, Goto, DispatchTypeOK, TaskPc
  <2>4. CASE InsertIgnored(t)
    <3>1. pc[t] = "insert_ignored" /\ ev[t] \in Events /\ InsertRow(t, "ignored")
      BY <2>4 DEF InsertIgnored, DispatchTypeOK
    <3>2. "ignored" \in Outcomes
      BY DEF Outcomes
    <3>3. /\ rows' \in Seq(Row) /\ Len(rows') = Len(rows) + 1
          /\ \A i \in 1..Len(rows) : rows'[i] = rows[i]
          /\ rows'[Len(rows) + 1].event = ev[t]
          /\ run' = [run EXCEPT ![t] = Len(rows) + 1]
      BY <3>1, <3>2, Inserted
    <3>4. pc' = [pc EXCEPT ![t] = "update_ignored"] /\ UNCHANGED <<old, ev, abandoned>>
      BY <2>4 DEF InsertIgnored, Goto
    <3>5. Len(rows) \in Nat
      BY DEF DispatchTypeOK
    <3> QED  BY <3>1, <3>3, <3>4, <3>5 DEF DispatchTypeOK, TaskPc
  <2>5. CASE InsertRun(t)
    <3>1. pc[t] = "insert_run" /\ ev[t] \in Events /\ InsertRow(t, "processed")
      BY <2>5 DEF InsertRun, DispatchTypeOK
    <3>2. "processed" \in Outcomes
      BY DEF Outcomes
    <3>3. /\ rows' \in Seq(Row) /\ Len(rows') = Len(rows) + 1
          /\ \A i \in 1..Len(rows) : rows'[i] = rows[i]
          /\ rows'[Len(rows) + 1].event = ev[t]
          /\ run' = [run EXCEPT ![t] = Len(rows) + 1]
      BY <3>1, <3>2, Inserted
    <3>4. pc' = [pc EXCEPT ![t] = "process"] /\ UNCHANGED <<old, ev, abandoned>>
      BY <2>5 DEF InsertRun, Goto
    <3>5. Len(rows) \in Nat
      BY DEF DispatchTypeOK
    <3> QED  BY <3>1, <3>3, <3>4, <3>5 DEF DispatchTypeOK, TaskPc
  <2>6. CASE ProcessEnds(t)
    BY <2>6 DEF ProcessEnds, Goto, DispatchTypeOK, TaskPc
  <2>7. CASE UpdateIgnored(t) \/ UpdateRun(t)
    <3>1. PICK outcome \in Outcomes : CompleteRow(t, outcome)
      BY <2>7 DEF UpdateIgnored, UpdateRun, Outcomes
    <3>2. run[t] # 0
      BY <2>7 DEF UpdateIgnored, UpdateRun, DispatchTypeOK, TaskPc
    <3>3. /\ rows' \in Seq(Row) /\ Len(rows') = Len(rows)
          /\ \A i \in 1..Len(rows) : rows'[i].event = rows[i].event
      BY <3>1, <3>2, Completed
    <3>4. /\ UNCHANGED <<old, abandoned>>
          /\ \/ pc' = [pc EXCEPT ![t] = "ack"] /\ UNCHANGED <<ev, run>>
             \/ /\ pc' = [pc EXCEPT ![t] = "idle"] /\ ev' = [ev EXCEPT ![t] = None]
                /\ run' = [run EXCEPT ![t] = 0]
      BY <2>7 DEF UpdateIgnored, UpdateRun, Goto, EndTask
    <3>5. ev[t] \in Events /\ rows[run[t]].event = ev[t]
      BY <2>7 DEF UpdateIgnored, UpdateRun, DispatchTypeOK, TaskPc
    <3>a. Len(rows) \in Nat
      BY DEF DispatchTypeOK
    <3>b. run' \in [Tasks -> 0..Len(rows')]
      <4>1. run \in [Tasks -> 0..Len(rows)] /\ 0 \in 0..Len(rows)
        BY <3>a DEF DispatchTypeOK
      <4> QED  BY <3>3, <3>4, <4>1
    <3>6. /\ Len(rows) \in Nat /\ old' \in 0..Len(rows') /\ pc' \in [Tasks -> TaskPc]
          /\ ev' \in [Tasks -> Events \union {None}] /\ run' \in [Tasks -> 0..Len(rows')]
          /\ abandoned' \subseteq Events
      BY <3>3, <3>4, <3>a, <3>b DEF DispatchTypeOK, TaskPc
    <3>7. ASSUME NEW s \in Tasks
          PROVE  /\ pc'[s] # "idle" => ev'[s] \in Events
                 /\ pc'[s] \in TaskPc \ {"idle", "waiting", "find_run_by_event_ref",
                                        "insert_ignored", "insert_run"}
                      => run'[s] # 0 /\ rows'[run'[s]].event = ev'[s]
      <4>1. CASE s # t
        BY <4>1, <3>3, <3>4 DEF DispatchTypeOK, TaskPc
      <4>2. CASE s = t
        <5>1. run[t] \in 1..Len(rows)
          BY <3>2 DEF DispatchTypeOK
        <5> QED  BY <4>2, <5>1, <3>2, <3>3, <3>4, <3>5 DEF DispatchTypeOK, TaskPc
      <4> QED  BY <4>1, <4>2
    <3> QED  BY <3>3, <3>6, <3>7 DEF DispatchTypeOK
  <2>8. CASE Ack(t)
    BY <2>8 DEF Ack, EndTask, Goto, DispatchTypeOK, TaskPc
  <2>9. CASE CallFails(t)
    <3>1. ev[t] \in Events
      BY <2>9 DEF CallFails, DispatchTypeOK
    <3> QED  BY <2>9, <3>1 DEF CallFails, EndTask, Goto, DispatchTypeOK, TaskPc
  <2> QED  BY <2>1, <2>2, <2>3, <2>4, <2>5, <2>6, <2>7, <2>8, <2>9 DEF TaskMoves
<1>4. CASE EndAllTasks
  <2>1. \A t \in Active : ev[t] \in Events
    BY DEF Active, DispatchTypeOK
  <2>2. /\ pc' = [t \in Tasks |-> "idle"] /\ ev' = [t \in Tasks |-> None]
        /\ run' = [t \in Tasks |-> 0] /\ UNCHANGED <<rows, old>>
        /\ abandoned' \subseteq Events
    BY <1>4, <2>1 DEF EndAllTasks, DispatchTypeOK
  <2> QED  BY <2>2 DEF DispatchTypeOK, TaskPc
<1>5. CASE DayPasses
  BY <1>5 DEF DayPasses, DispatchTypeOK
<1> QED  BY <1>1, <1>2, <1>3, <1>4, <1>5 DEF DispatchMoves

------------------------------------------------------------------------------
(* Runs and rows. *)

\* A run belongs to one task, and its row says that it is in progress.
RunsAreOwn ==
  \A s, t \in Tasks : (s # t /\ run[s] # 0) => run[s] # run[t]

RowsMatch ==
  \A t \in Tasks :
    /\ pc[t] = "update_ignored" => rows[run[t]].outcome = "ignored"
    /\ pc[t] \in {"process", "update_processed", "update_error"} =>
         rows[run[t]].outcome = "processed"

RunInv == DispatchTypeOK /\ RunsAreOwn /\ RowsMatch

\* Rows stay, with their event and their being a duplicate or not; an error stays
\* one.
RowsStay ==
  /\ Len(rows') >= Len(rows)
  /\ \A i \in 1..Len(rows) :
       /\ rows'[i].event = rows[i].event
       /\ rows'[i].outcome = "ignored" <=> rows[i].outcome = "ignored"
       /\ rows[i].outcome = "error" => rows'[i].outcome = "error"

LEMMA RowsKept ==
  ASSUME RunInv, DispatchMoves
  PROVE  RowsStay
<1>0. DispatchTypeOK /\ rows \in Seq(Row) /\ Len(rows) \in Nat
  BY DEF RunInv, DispatchTypeOK
<1>1. CASE UNCHANGED rows
  BY <1>0, <1>1 DEF RowsStay
<1>2. ASSUME NEW t \in Tasks, InsertIgnored(t) \/ InsertRun(t)
      PROVE  RowsStay
  <2>1. PICK outcome \in Outcomes : InsertRow(t, outcome)
    BY <1>2 DEF InsertIgnored, InsertRun, Outcomes
  <2>2. ev[t] \in Events
    BY <1>0, <1>2 DEF InsertIgnored, InsertRun, DispatchTypeOK
  <2>3. Len(rows') = Len(rows) + 1 /\ \A i \in 1..Len(rows) : rows'[i] = rows[i]
    BY <1>0, <2>1, <2>2, Inserted
  <2> QED  BY <1>0, <2>3 DEF RowsStay
<1>3. ASSUME NEW t \in Tasks, UpdateIgnored(t) \/ UpdateRun(t)
      PROVE  RowsStay
  <2>1. PICK outcome \in Outcomes :
           /\ CompleteRow(t, outcome)
           /\ outcome = "ignored" <=> rows[run[t]].outcome = "ignored"
           /\ rows[run[t]].outcome # "error"
    BY <1>3 DEF UpdateIgnored, UpdateRun, Outcomes, RunInv, RowsMatch
  <2>2. run[t] # 0
    BY <1>0, <1>3 DEF UpdateIgnored, UpdateRun, DispatchTypeOK, TaskPc
  <2>3. /\ Len(rows') = Len(rows)
        /\ \A i \in 1..Len(rows) : rows'[i].event = rows[i].event
        /\ \A i \in 1..Len(rows) : i # run[t] => rows'[i] = rows[i]
        /\ rows'[run[t]].outcome = outcome
    BY <1>0, <2>1, <2>2, Completed
  <2> QED  BY <1>0, <2>1, <2>3 DEF RowsStay
<1>4. ASSUME NEW t \in Tasks, TaskMoves(t)
      PROVE  UNCHANGED rows \/ InsertIgnored(t) \/ InsertRun(t)
               \/ UpdateIgnored(t) \/ UpdateRun(t)
  BY <1>4 DEF TaskMoves, AcquireSemaphore, FindRun, ProcessEnds, Ack, CallFails
<1>5. \/ UNCHANGED rows
      \/ \E t \in Tasks : InsertIgnored(t) \/ InsertRun(t) \/ UpdateIgnored(t) \/ UpdateRun(t)
  BY <1>4 DEF DispatchMoves, dispatchVars, CreateTasks, EndAllTasks, DayPasses
<1> QED  BY <1>1, <1>2, <1>3, <1>5

LEMMA RunInvKept ==
  ASSUME RunInv, DispatchMoves, faults' \in Nat
  PROVE  RunInv'
<1>0. DispatchTypeOK /\ RunsAreOwn /\ RowsMatch /\ Len(rows) \in Nat
  BY DEF RunInv, DispatchTypeOK
<1>1. DispatchTypeOK'
  BY <1>0, TypesKept
<1>2. CASE UNCHANGED <<rows, pc, run>>
  BY <1>0, <1>1, <1>2 DEF RunsAreOwn, RowsMatch, RunInv
<1>3. CASE EndAllTasks
  BY <1>0, <1>1, <1>3 DEF EndAllTasks, RunsAreOwn, RowsMatch, RunInv
<1>4. CASE \E batch \in SUBSET Events : CreateTasks(batch)
  <2>1. PICK N \in SUBSET Tasks :
           /\ \A t \in N : pc'[t] = "waiting"
           /\ \A t \in Tasks \ N : pc'[t] = pc[t]
           /\ UNCHANGED <<rows, run>>
    BY <1>0, <1>4, Created
  <2> QED  BY <1>0, <1>1, <2>1 DEF RunsAreOwn, RowsMatch, RunInv
<1>5. ASSUME NEW t \in Tasks,
             AcquireSemaphore(t) \/ FindRun(t) \/ ProcessEnds(t) \/ Ack(t) \/ CallFails(t)
      PROVE  RunsAreOwn' /\ RowsMatch'
  <2>1. UNCHANGED rows /\ (UNCHANGED run \/ run' = [run EXCEPT ![t] = 0])
    BY <1>5 DEF AcquireSemaphore, FindRun, ProcessEnds, Ack, CallFails, EndTask
  <2>2. RunsAreOwn'
    BY <1>0, <2>1 DEF RunsAreOwn, DispatchTypeOK
  <2>3. \A s \in Tasks : s # t => pc'[s] = pc[s] /\ run'[s] = run[s]
    BY <1>0, <1>5, <2>1 DEF AcquireSemaphore, FindRun, ProcessEnds, Ack, CallFails, EndTask,
                          Goto, DispatchTypeOK
  <2>4. \/ pc'[t] \in {"find_run_by_event_ref", "insert_ignored", "insert_run", "idle"}
        \/ /\ pc[t] = "process" /\ pc'[t] \in {"update_processed", "update_error"}
           /\ run'[t] = run[t]
    BY <1>0, <1>5 DEF AcquireSemaphore, FindRun, ProcessEnds, Ack, CallFails, EndTask,
                      Goto, DispatchTypeOK
  <2>5. RowsMatch'
    BY <1>0, <2>1, <2>3, <2>4 DEF RowsMatch
  <2> QED  BY <2>2, <2>5
<1>6. ASSUME NEW t \in Tasks, InsertIgnored(t) \/ InsertRun(t)
      PROVE  RunsAreOwn' /\ RowsMatch'
  <2>1. PICK outcome \in Outcomes :
           /\ InsertRow(t, outcome)
           /\ \/ outcome = "ignored" /\ pc' = [pc EXCEPT ![t] = "update_ignored"]
              \/ outcome = "processed" /\ pc' = [pc EXCEPT ![t] = "process"]
    BY <1>6 DEF InsertIgnored, InsertRun, Outcomes, Goto
  <2>2. ev[t] \in Events
    BY <1>0, <1>6 DEF InsertIgnored, InsertRun, DispatchTypeOK
  <2>3. /\ \A i \in 1..Len(rows) : rows'[i] = rows[i]
        /\ rows'[Len(rows) + 1].outcome = outcome
        /\ run' = [run EXCEPT ![t] = Len(rows) + 1]
    BY <1>0, <2>1, <2>2, Inserted
  <2>4. \A s \in Tasks : run[s] \in 0..Len(rows)
    BY <1>0 DEF DispatchTypeOK
  <2>5. \A s \in Tasks : s # t => pc'[s] = pc[s] /\ run'[s] = run[s]
    BY <1>0, <2>1, <2>3 DEF DispatchTypeOK
  <2>6. run'[t] = Len(rows) + 1
    BY <1>0, <2>3 DEF DispatchTypeOK
  <2>7. RunsAreOwn'
    <3> SUFFICES ASSUME NEW r \in Tasks, NEW s \in Tasks, r # s, run'[r] # 0
                 PROVE  run'[r] # run'[s]
      BY DEF RunsAreOwn
    <3>1. CASE r = t
      BY <1>0, <3>1, <2>4, <2>5, <2>6
    <3>2. CASE s = t
      BY <1>0, <3>2, <2>4, <2>5, <2>6
    <3>3. CASE r # t /\ s # t
      BY <1>0, <3>3, <2>5 DEF RunsAreOwn
    <3> QED  BY <3>1, <3>2, <3>3
  <2>8. ASSUME NEW s \in Tasks
        PROVE  /\ pc'[s] = "update_ignored" => rows'[run'[s]].outcome = "ignored"
               /\ pc'[s] \in {"process", "update_processed", "update_error"} =>
                    rows'[run'[s]].outcome = "processed"
    <3>1. CASE s = t
      BY <1>0, <3>1, <2>1, <2>3, <2>6 DEF DispatchTypeOK
    <3>2. CASE s # t
      <4>1. pc[s] \in {"update_ignored", "process", "update_processed", "update_error"} =>
              run[s] \in 1..Len(rows)
        <5>1. pc[s] \in {"update_ignored", "process", "update_processed", "update_error"} =>
                run[s] # 0
          BY <1>0 DEF DispatchTypeOK, TaskPc
        <5> QED  BY <1>0, <2>4, <5>1
      <4> QED  BY <1>0, <3>2, <4>1, <2>3, <2>5 DEF RowsMatch
    <3> QED  BY <3>1, <3>2
  <2> QED  BY <2>7, <2>8 DEF RowsMatch
<1>7. ASSUME NEW t \in Tasks, UpdateIgnored(t) \/ UpdateRun(t)
      PROVE  RunsAreOwn' /\ RowsMatch'
  <2>1. PICK outcome \in Outcomes : CompleteRow(t, outcome)
    BY <1>7 DEF UpdateIgnored, UpdateRun, Outcomes
  <2>2. run[t] # 0
    BY <1>0, <1>7 DEF UpdateIgnored, UpdateRun, DispatchTypeOK, TaskPc
  <2>3. \A i \in 1..Len(rows) : i # run[t] => rows'[i] = rows[i]
    BY <1>0, <2>1, <2>2, Completed
  <2>4. /\ UNCHANGED run \/ run' = [run EXCEPT ![t] = 0]
        /\ \A s \in Tasks : s # t => pc'[s] = pc[s] /\ run'[s] = run[s]
        /\ pc'[t] \in {"ack", "idle"}
    BY <1>0, <1>7 DEF UpdateIgnored, UpdateRun, EndTask, Goto, DispatchTypeOK
  <2>5. RunsAreOwn'
    BY <1>0, <2>4 DEF RunsAreOwn, DispatchTypeOK
  <2>6. ASSUME NEW s \in Tasks
        PROVE  /\ pc'[s] = "update_ignored" => rows'[run'[s]].outcome = "ignored"
               /\ pc'[s] \in {"process", "update_processed", "update_error"} =>
                    rows'[run'[s]].outcome = "processed"
    <3>1. CASE s = t
      BY <3>1, <2>4
    <3>2. CASE s # t
      <4>1. pc[s] \in {"update_ignored", "process", "update_processed", "update_error"} =>
              run[s] \in 1..Len(rows) /\ run[s] # run[t]
        <5>1. pc[s] \in {"update_ignored", "process", "update_processed", "update_error"} =>
                run[s] # 0
          BY <1>0 DEF DispatchTypeOK, TaskPc
        <5>2. run[s] \in 0..Len(rows)
          BY <1>0 DEF DispatchTypeOK
        <5> QED  BY <1>0, <2>2, <3>2, <5>1, <5>2 DEF RunsAreOwn
      <4> QED  BY <1>0, <3>2, <4>1, <2>3, <2>4 DEF RowsMatch
    <3> QED  BY <3>1, <3>2
  <2> QED  BY <2>5, <2>6 DEF RowsMatch
<1>8. \/ UNCHANGED <<rows, pc, run>>
      \/ \E batch \in SUBSET Events : CreateTasks(batch)
      \/ \E t \in Tasks : TaskMoves(t)
      \/ EndAllTasks
  BY DEF DispatchMoves, dispatchVars, DayPasses
<1> QED  BY <1>1, <1>2, <1>3, <1>4, <1>5, <1>6, <1>7, <1>8 DEF RunInv, TaskMoves

------------------------------------------------------------------------------
(* What rows and tasks know of the events. *)

\* A duplicate has an original: every row's event was taken, and that of every
\* task that is past the check or the bookkeeping.
TakenInv ==
  /\ \A i \in 1..Len(rows) : Taken(rows[i].event)
  /\ \A t \in Tasks :
       pc[t] \in {"insert_ignored", "update_ignored", "ack"} => Taken(ev[t])

LEMMA TakenStays ==
  ASSUME RowsStay, Len(rows) \in Nat, Len(rows') \in Nat, NEW e, Taken(e)
  PROVE  TakenIn(rows', e)
<1>1. PICK i \in 1..Len(rows) : rows[i].event = e /\ rows[i].outcome # "ignored"
  BY DEF Taken, TakenIn
<1>2. i \in 1..Len(rows') /\ rows'[i].event = e /\ rows'[i].outcome # "ignored"
  BY <1>1 DEF RowsStay
<1> QED  BY <1>2 DEF Taken, TakenIn

LEMMA TakenKept ==
  ASSUME RunInv, TakenInv, DispatchMoves, faults' \in Nat
  PROVE  TakenInv'
<1>0. /\ DispatchTypeOK /\ DispatchTypeOK' /\ RowsMatch /\ RowsStay
      /\ Len(rows) \in Nat /\ Len(rows') \in Nat
  <2>1. RunInv' /\ RowsStay
    BY RunInvKept, RowsKept
  <2> QED  BY <2>1 DEF RunInv, DispatchTypeOK
<1>1. \A e : Taken(e) => TakenIn(rows', e)
  BY <1>0, TakenStays
\* The tasks that did not move, and the rows that were there.
<1>2. ASSUME NEW s \in Tasks, pc'[s] = pc[s], ev'[s] = ev[s],
             pc'[s] \in {"insert_ignored", "update_ignored", "ack"}
      PROVE  TakenIn(rows', ev'[s])
  BY <1>1, <1>2 DEF TakenInv
<1>3. ASSUME NEW i \in 1..Len(rows)
      PROVE  TakenIn(rows', rows'[i].event)
  BY <1>0, <1>1 DEF TakenInv, RowsStay
<1>4. ASSUME Len(rows') = Len(rows),
             \A s \in Tasks : \/ pc'[s] = pc[s] /\ ev'[s] = ev[s]
                              \/ pc'[s] \notin {"insert_ignored", "update_ignored", "ack"}
                              \/ Taken(ev'[s])
      PROVE  TakenInv'
  BY <1>1, <1>2, <1>3, <1>4 DEF TakenInv, Taken
<1>5. CASE UNCHANGED <<rows, pc, ev>>
  BY <1>4, <1>5
<1>6. CASE EndAllTasks
  BY <1>4, <1>6 DEF EndAllTasks
<1>7. CASE \E batch \in SUBSET Events : CreateTasks(batch)
  <2>1. PICK N \in SUBSET Tasks :
           /\ \A t \in N : pc'[t] = "waiting"
           /\ \A t \in Tasks \ N : pc'[t] = pc[t] /\ ev'[t] = ev[t]
           /\ UNCHANGED <<rows, run>>
    BY <1>0, <1>7, Created
  <2> QED  BY <1>4, <2>1
<1>8. ASSUME NEW t \in Tasks, TaskMoves(t)
      PROVE  TakenInv'
  <2>1. CASE AcquireSemaphore(t) \/ ProcessEnds(t) \/ Ack(t) \/ CallFails(t)
    BY <1>0, <1>4, <2>1 DEF AcquireSemaphore, ProcessEnds, Ack, CallFails, EndTask, Goto,
                            DispatchTypeOK
  <2>2. CASE FindRun(t)
    <3>1. RecentRun(ev[t]) => Taken(ev[t])
      <4> HAVE RecentRun(ev[t])
      <4>1. old \in Nat
        BY <1>0 DEF DispatchTypeOK
      <4>2. PICK i \in old + 1 .. Len(rows) : rows[i].event = ev[t]
        BY DEF RecentRun
      <4>3. i \in 1..Len(rows)
        BY <1>0, <4>1
      <4> QED  BY <4>2, <4>3 DEF TakenInv
    <3>2. UNCHANGED <<rows, ev>> /\ \A s \in Tasks : s # t => pc'[s] = pc[s]
      BY <1>0, <2>2 DEF FindRun, Goto, DispatchTypeOK
    <3>3. pc'[t] = "insert_ignored" => RecentRun(ev[t])
      BY <1>0, <2>2 DEF FindRun, Goto, DispatchTypeOK
    <3>4. pc'[t] \in {"insert_ignored", "insert_run"}
      BY <1>0, <2>2 DEF FindRun, Goto, DispatchTypeOK
    <3> QED  BY <1>4, <3>1, <3>2, <3>3, <3>4
  <2>3. CASE InsertIgnored(t) \/ InsertRun(t)
    <3>1. PICK outcome \in Outcomes :
             /\ InsertRow(t, outcome)
             /\ UNCHANGED ev
             /\ \/ outcome = "ignored" /\ Taken(ev[t])
                \/ outcome # "ignored" /\ pc' = [pc EXCEPT ![t] = "process"]
             /\ \A s \in Tasks : s # t => pc'[s] = pc[s]
      BY <1>0, <2>3 DEF InsertIgnored, InsertRun, Outcomes, Goto, TakenInv, DispatchTypeOK
    <3>2. ev[t] \in Events
      BY <1>0, <2>3 DEF InsertIgnored, InsertRun, DispatchTypeOK
    <3>3. /\ Len(rows') = Len(rows) + 1
          /\ rows'[Len(rows) + 1].event = ev[t]
          /\ rows'[Len(rows) + 1].outcome = outcome
      BY <1>0, <3>1, <3>2, Inserted
    <3>4. TakenIn(rows', ev[t])
      <4>1. CASE outcome = "ignored"
        BY <1>1, <3>1, <4>1
      <4>2. CASE outcome # "ignored"
        BY <1>0, <3>1, <3>3, <4>2 DEF Taken, TakenIn
      <4> QED  BY <4>1, <4>2
    <3>5. \A s \in Tasks :
            pc'[s] \in {"insert_ignored", "update_ignored", "ack"} => TakenIn(rows', ev'[s])
      BY <1>2, <3>1, <3>4
    <3>6. \A i \in 1..Len(rows') : TakenIn(rows', rows'[i].event)
      <4> TAKE i \in 1..Len(rows')
      <4>1. i \in 1..Len(rows) \/ i = Len(rows) + 1
        BY <1>0, <3>3
      <4> QED  BY <4>1, <1>3, <3>3, <3>4
    <3> QED  BY <3>5, <3>6 DEF TakenInv, Taken
  <2>4. CASE UpdateIgnored(t) \/ UpdateRun(t)
    <3>1. PICK outcome \in Outcomes : CompleteRow(t, outcome)
      BY <2>4 DEF UpdateIgnored, UpdateRun, Outcomes
    <3>2. run[t] # 0
      BY <1>0, <2>4 DEF UpdateIgnored, UpdateRun, DispatchTypeOK, TaskPc
    <3>3. Len(rows') = Len(rows)
      BY <1>0, <3>1, <3>2, Completed
    <3>4. \A s \in Tasks : s # t => pc'[s] = pc[s] /\ ev'[s] = ev[s]
      BY <1>0, <2>4 DEF UpdateIgnored, UpdateRun, EndTask, Goto, DispatchTypeOK
    <3>5. pc'[t] = "idle" \/ (ev' = ev /\ pc[t] = "update_ignored")
            \/ (ev' = ev /\ pc[t] = "update_processed")
      BY <1>0, <2>4 DEF UpdateIgnored, UpdateRun, EndTask, Goto, DispatchTypeOK
    <3>6. pc[t] = "update_ignored" => Taken(ev[t])
      BY DEF TakenInv
    <3>7. pc[t] = "update_processed" => Taken(ev[t])
      <4>1. run[t] \in 1..Len(rows)
        BY <1>0, <3>2 DEF DispatchTypeOK
      <4>2. pc[t] = "update_processed" =>
              rows[run[t]].event = ev[t] /\ rows[run[t]].outcome = "processed"
        BY <1>0 DEF DispatchTypeOK, TaskPc, RowsMatch
      <4> QED  BY <4>1, <4>2 DEF Taken, TakenIn
    <3> QED  BY <1>4, <3>3, <3>4, <3>5, <3>6, <3>7
  <2> QED  BY <1>8, <2>1, <2>2, <2>3, <2>4 DEF TaskMoves
<1> QED  BY <1>5, <1>6, <1>7, <1>8 DEF DispatchMoves, dispatchVars, DayPasses

\* The runtime knows of an event: it has a row, or a task, or a task had it and
\* ended without one.
Known(e) ==
  \/ \E i \in 1..Len(rows) : rows[i].event = e
  \/ \E t \in Tasks : pc[t] # "idle" /\ ev[t] = e
  \/ e \in abandoned

\* Which it does not forget.
LEMMA KnownKept ==
  ASSUME RunInv, DispatchMoves, faults' \in Nat, NEW e, Known(e)
  PROVE  Known(e)'
<1>0. DispatchTypeOK /\ RowsStay /\ Len(rows) \in Nat /\ Len(rows') \in Nat
  <2>1. RunInv' /\ RowsStay
    BY RunInvKept, RowsKept
  <2> QED  BY <2>1 DEF RunInv, DispatchTypeOK
<1>1. ASSUME NEW i \in 1..Len(rows), rows[i].event = e
      PROVE  Known(e)'
  <2>1. i \in 1..Len(rows') /\ rows'[i].event = e
    BY <1>0, <1>1 DEF RowsStay
  <2> QED  BY <2>1 DEF Known
<1>2. ASSUME e \in abandoned
      PROVE  Known(e)'
  <2>1. abandoned \subseteq abandoned'
    BY DEF DispatchMoves, dispatchVars, CreateTasks, TaskMoves, AcquireSemaphore, FindRun,
           InsertIgnored, UpdateIgnored, InsertRun, ProcessEnds, UpdateRun, Ack, CallFails,
           EndAllTasks, DayPasses
  <2> QED  BY <1>2, <2>1 DEF Known
<1>3. ASSUME NEW t \in Tasks, pc[t] # "idle", ev[t] = e
      PROVE  Known(e)'
  <2>1. CASE pc'[t] # "idle" /\ ev'[t] = ev[t]
    BY <1>3, <2>1 DEF Known
  <2>2. CASE EndAllTasks
    BY <1>3, <2>2 DEF EndAllTasks, Active, Known
  <2>3. CASE \E batch \in SUBSET Events : CreateTasks(batch)
    <3>1. PICK N \in SUBSET Tasks :
             /\ \A s \in N : pc[s] = "idle"
             /\ \A s \in Tasks \ N : pc'[s] = pc[s] /\ ev'[s] = ev[s]
      BY <1>0, <2>3, Created
    <3> QED  BY <1>3, <2>1, <3>1
  <2>4. CASE UNCHANGED <<pc, ev>>
    BY <1>3, <2>1, <2>4
  <2>5. ASSUME NEW s \in Tasks, TaskMoves(s)
        PROVE  Known(e)'
    <3>1. CASE s # t
      <4>1. pc'[t] = pc[t] /\ ev'[t] = ev[t]
        BY <1>0, <2>5, <3>1 DEF TaskMoves, AcquireSemaphore, FindRun, InsertIgnored,
           UpdateIgnored, InsertRun, ProcessEnds, UpdateRun, Ack, CallFails, EndTask, Goto,
           DispatchTypeOK
      <4> QED  BY <1>3, <2>1, <4>1
    <3>2. CASE s = t /\ (UpdateRun(t) \/ Ack(t))
      <4>1. pc[t] \in {"ack", "update_processed", "update_error"}
        BY <3>2 DEF UpdateRun, Ack
      <4>2. run[t] # 0 /\ rows[run[t]].event = ev[t]
        BY <1>0, <4>1 DEF DispatchTypeOK, TaskPc
      <4>3. run[t] \in 1..Len(rows)
        BY <1>0, <4>2 DEF DispatchTypeOK
      <4> QED  BY <1>1, <1>3, <4>2, <4>3
    <3>3. CASE s = t /\ CallFails(t)
      BY <1>3, <3>3 DEF CallFails, Known
    <3>4. CASE s = t /\ ~UpdateRun(t) /\ ~Ack(t) /\ ~CallFails(t)
      <4>1. pc'[t] # "idle" /\ ev'[t] = ev[t]
        BY <1>0, <2>5, <3>4 DEF TaskMoves, AcquireSemaphore, FindRun, InsertIgnored,
           UpdateIgnored, InsertRun, ProcessEnds, Goto, DispatchTypeOK
      <4> QED  BY <2>1, <4>1
    <3> QED  BY <3>1, <3>2, <3>3, <3>4
  <2> QED  BY <2>2, <2>3, <2>4, <2>5 DEF DispatchMoves, dispatchVars, DayPasses
<1> QED  BY <1>1, <1>2, <1>3 DEF Known

------------------------------------------------------------------------------
(* Once in 24 hours. *)

\* Two tasks past the semaphore are about two events.
HoldersDiffer == \A s, t \in Holding : ev[s] = ev[t] => s = t

\* What the check saw is still so when the run is inserted.
NotFound == \A t \in Tasks : pc[t] = "insert_run" => ~RecentRun(ev[t])

LEMMA Between ==
  \A o, n \in Nat : \A i \in o + 1 .. n : i \in 1..n /\ o < i
OBVIOUS

LEMMA OnceKept ==
  ASSUME RunInv, HoldersDiffer, NotFound, ProcessedOnce, DispatchMoves, faults' \in Nat
  PROVE  NotFound' /\ ProcessedOnce'
<1>0. /\ DispatchTypeOK /\ DispatchTypeOK' /\ RowsStay
      /\ Len(rows) \in Nat /\ Len(rows') \in Nat /\ old \in Nat /\ old' \in Nat
      /\ old \in 0..Len(rows)
  <2>1. RunInv' /\ RowsStay
    BY RunInvKept, RowsKept
  <2> QED  BY <2>1 DEF RunInv, DispatchTypeOK
<1>1. old' >= old
  BY <1>0 DEF DispatchMoves, dispatchVars, CreateTasks, TaskMoves, AcquireSemaphore, FindRun,
         InsertIgnored, UpdateIgnored, InsertRun, ProcessEnds, UpdateRun, Ack, CallFails,
         EndAllTasks, DayPasses
\* Steps that add no row.
<1>2. ASSUME Len(rows') = Len(rows)
      PROVE  ProcessedOnce'
  <2> SUFFICES ASSUME NEW i \in 1..Len(rows'), NEW j \in 1..Len(rows'), i < j,
                      rows'[i].event = rows'[j].event,
                      rows'[i].outcome # "ignored", rows'[j].outcome # "ignored"
               PROVE  i <= old'
    BY DEF ProcessedOnce
  <2>1. i \in 1..Len(rows) /\ j \in 1..Len(rows)
    BY <1>2
  <2>2. /\ rows[i].event = rows[j].event
        /\ rows[i].outcome # "ignored" /\ rows[j].outcome # "ignored"
    BY <1>0, <2>1 DEF RowsStay
  <2>3. i <= old
    BY <2>1, <2>2 DEF ProcessedOnce
  <2> QED  BY <1>0, <1>1, <2>1, <2>3
<1>3. ASSUME Len(rows') = Len(rows), NEW e, ~RecentRun(e),
             NEW i, i \in old' + 1 .. Len(rows')
      PROVE  rows'[i].event # e
  <2>1. i \in 1..Len(rows') /\ old' < i
    BY <1>0, <1>3, Between, Zenon
  <2>2. i \in old + 1 .. Len(rows) /\ i \in 1..Len(rows)
    BY <1>0, <1>1, <1>3, <2>1
  <2> QED  BY <1>0, <1>3, <2>2 DEF RowsStay, RecentRun
<1>4. ASSUME Len(rows') = Len(rows),
             \A s \in Tasks : \/ pc'[s] = pc[s] /\ ev'[s] = ev[s]
                              \/ pc'[s] # "insert_run"
                              \/ ~RecentRun(ev'[s])
      PROVE  NotFound' /\ ProcessedOnce'
  BY <1>2, <1>3, <1>4 DEF NotFound, RecentRun
<1>5. CASE UNCHANGED <<rows, pc, ev>>
  BY <1>4, <1>5
<1>6. CASE EndAllTasks
  BY <1>4, <1>6 DEF EndAllTasks
<1>7. CASE \E batch \in SUBSET Events : CreateTasks(batch)
  <2>1. PICK N \in SUBSET Tasks :
           /\ \A t \in N : pc'[t] = "waiting"
           /\ \A t \in Tasks \ N : pc'[t] = pc[t] /\ ev'[t] = ev[t]
           /\ UNCHANGED <<rows, run>>
    BY <1>0, <1>7, Created
  <2> QED  BY <1>4, <2>1
<1>8. ASSUME NEW t \in Tasks, TaskMoves(t)
      PROVE  NotFound' /\ ProcessedOnce'
  <2>1. CASE AcquireSemaphore(t) \/ ProcessEnds(t) \/ Ack(t) \/ CallFails(t)
    BY <1>0, <1>4, <2>1 DEF AcquireSemaphore, ProcessEnds, Ack, CallFails, EndTask, Goto,
                            DispatchTypeOK
  <2>2. CASE FindRun(t)
    <3>1. UNCHANGED <<rows, ev>> /\ \A s \in Tasks : s # t => pc'[s] = pc[s]
      BY <1>0, <2>2 DEF FindRun, Goto, DispatchTypeOK
    <3>2. pc'[t] = "insert_run" => ~RecentRun(ev[t])
      BY <1>0, <2>2 DEF FindRun, Goto, DispatchTypeOK
    <3> QED  BY <1>4, <3>1, <3>2
  <2>3. CASE UpdateIgnored(t) \/ UpdateRun(t)
    <3>1. PICK outcome \in Outcomes : CompleteRow(t, outcome)
      BY <2>3 DEF UpdateIgnored, UpdateRun, Outcomes
    <3>2. run[t] # 0
      BY <1>0, <2>3 DEF UpdateIgnored, UpdateRun, DispatchTypeOK, TaskPc
    <3>3. Len(rows') = Len(rows)
      BY <1>0, <3>1, <3>2, Completed
    <3>4. \A s \in Tasks : pc'[s] # "insert_run" \/ (pc'[s] = pc[s] /\ ev'[s] = ev[s])
      BY <1>0, <2>3 DEF UpdateIgnored, UpdateRun, EndTask, Goto, DispatchTypeOK
    <3> QED  BY <1>4, <3>3, <3>4
  <2>4. CASE InsertIgnored(t) \/ InsertRun(t)
    <3>1. PICK outcome \in Outcomes :
             /\ InsertRow(t, outcome)
             /\ UNCHANGED <<ev, old>>
             /\ pc[t] \in {"insert_ignored", "insert_run"}
             /\ outcome = "ignored" \/ pc[t] = "insert_run"
             /\ pc'[t] # "insert_run"
             /\ \A s \in Tasks : s # t => pc'[s] = pc[s]
      BY <1>0, <2>4 DEF InsertIgnored, InsertRun, Outcomes, Goto, DispatchTypeOK
    <3>2. ev[t] \in Events
      BY <1>0, <3>1 DEF DispatchTypeOK
    <3>3. /\ Len(rows') = Len(rows) + 1
          /\ \A i \in 1..Len(rows) : rows'[i] = rows[i]
          /\ rows'[Len(rows) + 1].event = ev[t]
          /\ rows'[Len(rows) + 1].outcome = outcome
      BY <1>0, <3>1, <3>2, Inserted
    <3>4. NotFound'
      <4> SUFFICES ASSUME NEW s \in Tasks, pc'[s] = "insert_run",
                          NEW i \in old' + 1 .. Len(rows'), rows'[i].event = ev'[s]
                   PROVE  FALSE
        BY DEF NotFound, RecentRun
      <4>1. s # t /\ pc[s] = "insert_run"
        BY <3>1
      <4>2. ev[s] # ev[t]
        BY <3>1, <4>1 DEF HoldersDiffer, Holding, Active
      <4>3. i \in old + 1 .. Len(rows)
        BY <1>0, <3>1, <3>3, <4>2
      <4>4. i \in 1..Len(rows)
        BY <1>0, <4>3
      <4> QED  BY <3>1, <3>3, <4>1, <4>3, <4>4 DEF NotFound, RecentRun
    <3>5. ProcessedOnce'
      <4> SUFFICES ASSUME NEW i \in 1..Len(rows'), NEW j \in 1..Len(rows'), i < j,
                          rows'[i].event = rows'[j].event,
                          rows'[i].outcome # "ignored", rows'[j].outcome # "ignored"
                   PROVE  i <= old'
        BY DEF ProcessedOnce
      <4>1. i \in 1..Len(rows)
        BY <1>0, <3>3
      <4>2. CASE j \in 1..Len(rows)
        BY <3>1, <3>3, <4>1, <4>2 DEF ProcessedOnce
      <4>3. CASE j = Len(rows) + 1
        <5>1. ~RecentRun(ev[t])
          BY <3>1, <3>3, <4>3 DEF NotFound
        <5>2. rows[i].event = ev[t]
          BY <3>3, <4>1, <4>3
        <5>3. i \notin old + 1 .. Len(rows)
          BY <5>1, <5>2 DEF RecentRun
        <5> QED  BY <1>0, <3>1, <4>1, <5>3
      <4> QED  BY <1>0, <3>3, <4>2, <4>3
    <3> QED  BY <3>4, <3>5
  <2> QED  BY <1>8, <2>1, <2>2, <2>3, <2>4 DEF TaskMoves
<1>9. CASE DayPasses
  BY <1>4, <1>9 DEF DayPasses
<1> QED  BY <1>5, <1>6, <1>7, <1>8, <1>9 DEF DispatchMoves, dispatchVars
=============================================================================
