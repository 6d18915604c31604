------------------------- MODULE RabbitRuntimeProofs -------------------------
(***************************************************************************)
(* Proofs about RabbitRuntime, for any number of messages, tasks and       *)
(* faults: what is acknowledged was taken, and what is not acknowledged is *)
(* explained, with any number of slots; process() is called once in 24     *)
(* hours with one slot (with two it is not: see rabbit_redelivered.cfg).   *)
(***************************************************************************)
EXTENDS RabbitRuntime, EventDispatchProofs, FiniteSetTheorems

\* Every step is one of the dispatch part.
LEMMA StepsDispatch ==
  ASSUME TypeOK, [Next]_vars
  PROVE  DispatchMoves /\ faults' \in Nat
<1>1. faults \in Nat /\ (faults' = faults \/ faults' = faults + 1 => faults' \in Nat)
  BY DEF TypeOK, DispatchTypeOK
<1>2. CASE UNCHANGED dispatchVars /\ (UNCHANGED faults \/ Fault)
  BY <1>1, <1>2 DEF DispatchMoves, Fault
<1>3. ASSUME NEW e \in Events, Deliver(e)
      PROVE  DispatchMoves /\ faults' \in Nat
  <2>1. {e} \in SUBSET Events
    OBVIOUS
  <2> QED  BY <1>1, <1>3, <2>1 DEF Deliver, DispatchMoves
<1>4. ASSUME NEW t \in Tasks, Dispatch(t) \/ WorkFails(t)
      PROVE  DispatchMoves /\ faults' \in Nat
  <2>1. TaskMoves(t) /\ (UNCHANGED faults \/ Fault)
    BY <1>4 DEF Dispatch, AckMessage, Work, WorkFails, TaskStep, TaskMoves, CallFails
  <2> QED  BY <1>1, <2>1 DEF DispatchMoves, Fault
<1>5. CASE Exit
  BY <1>1, <1>5 DEF Exit, Fault, DispatchMoves
<1>6. CASE DayPasses
  BY <1>1, <1>6 DEF DayPasses, DispatchMoves
<1> QED
  BY <1>2, <1>3, <1>4, <1>5, <1>6 DEF Next, vars, Publish, Start, Reject, ConnectionLost

\* Tasks of a channel that is gone are forgotten with it, or when they end.
LEMMA SourceTypes ==
  ASSUME TypeOK, [Next]_vars, DispatchTypeOK'
  PROVE  /\ broker' \in [Events -> MessageState]
         /\ stream' \in {"down", "on", "dead"}
         /\ stale' \subseteq Active'
<1>0. DispatchTypeOK /\ broker \in [Events -> MessageState]
      /\ stream \in {"down", "on", "dead"} /\ stale \subseteq Active
  BY DEF TypeOK
<1>1. broker' \in [Events -> MessageState]
  <2>1. \A t \in Tasks : Ack(t) => ev[t] \in Events
    BY <1>0 DEF Ack, DispatchTypeOK
  <2>2. \A t \in Tasks : AckMessage(t) =>
          broker' = broker \/ broker' = [broker EXCEPT ![ev[t]] = "acked"]
    BY DEF AckMessage
  <2> QED
    BY <1>0, <2>1, <2>2 DEF Next, vars, sourceVars, Publish, Start, Deliver, Reject, Dispatch,
       AckMessage, Work, WorkFails, ConnectionLost, Exit, CloseChannel, MessageState
<1>2. stream' \in {"down", "on", "dead"}
  BY <1>0 DEF Next, vars, sourceVars, Publish, Start, Deliver, Reject, Dispatch, AckMessage,
     Work, WorkFails, ConnectionLost, Exit
<1>3. stale' \subseteq Active'
  <2>1. CASE UNCHANGED <<pc, stale>>
    BY <1>0, <2>1 DEF Active
  <2>2. CASE StillStale
    BY <1>0, <2>2 DEF StillStale, Active
  <2>3. CASE ConnectionLost \/ Exit
    BY <2>3 DEF ConnectionLost, Exit, Active, dispatchVars
  <2>4. CASE \E e \in Events : Deliver(e)
    <3>1. PICK e \in Events : CreateTasks({e}) /\ stale' = stale
      BY <2>4 DEF Deliver
    <3>2. {e} \in SUBSET Events
      OBVIOUS
    <3>3. PICK N \in SUBSET Tasks :
             /\ \A t \in N : pc'[t] = "waiting"
             /\ \A t \in Tasks \ N : pc'[t] = pc[t]
      BY <1>0, <3>1, <3>2, Created
    <3> QED  BY <1>0, <3>1, <3>3 DEF Active
  <2> QED
    BY <2>1, <2>2, <2>3, <2>4 DEF Next, vars, sourceVars, dispatchVars, Publish, Start, Reject,
       Dispatch, AckMessage, Work, WorkFails, DayPasses
<1> QED  BY <1>1, <1>2, <1>3

LEMMA InitTypes == Init => TypeOK /\ RunInv /\ TakenInv
<1> SUFFICES ASSUME Init
             PROVE  TypeOK /\ RunInv /\ TakenInv
  OBVIOUS
<1>1. rows = <<>> /\ rows \in Seq(Row) /\ Len(rows) = 0
  <2>1. rows = <<>>
    BY DEF Init, DispatchInit
  <2> QED  BY <2>1, EmptySeq
<1>2. DispatchTypeOK
  <2>1. old \in 0..Len(rows) /\ run \in [Tasks -> 0..Len(rows)]
    BY <1>1 DEF Init, DispatchInit
  <2> QED  BY <1>1, <2>1 DEF Init, DispatchInit, DispatchTypeOK, TaskPc
<1>3. TypeOK
  BY <1>2 DEF Init, TypeOK, MessageState
<1>4. RunInv /\ TakenInv
  BY <1>1, <1>2 DEF Init, DispatchInit, RunInv, RunsAreOwn, RowsMatch, TakenInv
<1> QED  BY <1>3, <1>4

TypesInv == TypeOK /\ RunInv

LEMMA TypesInvKept ==
  ASSUME TypesInv, [Next]_vars
  PROVE  TypesInv' /\ DispatchMoves /\ RowsStay /\ faults' \in Nat
<1>1. DispatchMoves /\ faults' \in Nat /\ RunInv
  BY StepsDispatch DEF TypesInv
<1>2. RunInv' /\ RowsStay
  BY <1>1, RunInvKept, RowsKept
<1>3. TypeOK'
  BY <1>2, SourceTypes DEF TypesInv, TypeOK, RunInv
<1> QED  BY <1>1, <1>2, <1>3 DEF TypesInv

\* The variables of the runtime and of its source keep their types; a task that
\* is past the insertion of its run refers to a row about its own event.
THEOREM Types == Spec => []TypeOK
<1>1. Init => TypesInv
  BY InitTypes DEF TypesInv
<1>2. TypesInv /\ [Next]_vars => TypesInv'
  BY TypesInvKept
<1>3. TypesInv => TypeOK
  BY DEF TypesInv
<1> QED  BY <1>1, <1>2, <1>3, PTL DEF Spec

------------------------------------------------------------------------------
(* What is acknowledged was taken. *)

TakenOnAck == TypesInv /\ TakenInv /\ AckedWasTaken

LEMMA TakenOnAckKept == TakenOnAck /\ [Next]_vars => TakenOnAck'
<1> SUFFICES ASSUME TakenOnAck, [Next]_vars
             PROVE  TakenOnAck'
  OBVIOUS
<1>1. /\ TypesInv /\ TypesInv' /\ DispatchMoves /\ RowsStay /\ faults' \in Nat
      /\ DispatchTypeOK /\ DispatchTypeOK' /\ Len(rows) \in Nat /\ Len(rows') \in Nat
  <2>1. TypesInv
    BY DEF TakenOnAck
  <2> QED  BY <2>1, TypesInvKept DEF TypesInv, TypeOK, DispatchTypeOK
<1>2. TakenInv'
  BY <1>1, TakenKept DEF TakenOnAck, TypesInv
<1>3. \A e : Taken(e) => TakenIn(rows', e)
  BY <1>1, TakenStays
\* Only the acknowledgement of a message makes it one that was acknowledged.
<1>4. ASSUME NEW e \in Events, broker'[e] = "acked"
      PROVE  broker[e] = "acked" \/ \E t \in Tasks : pc[t] = "ack" /\ ev[t] = e
  <2>1. broker \in [Events -> MessageState]
    BY <1>1 DEF TypesInv, TypeOK
  <2>2. CASE \E t \in Tasks : AckMessage(t)
    <3>1. PICK t \in Tasks : AckMessage(t)
      BY <2>2
    <3> QED  BY <1>4, <2>1, <3>1 DEF AckMessage, Ack
  <2>3. CASE ~\E t \in Tasks : AckMessage(t)
    BY <1>4, <2>1, <2>3 DEF Next, vars, sourceVars, Publish, Start, Deliver, Reject, Dispatch,
       Work, WorkFails, ConnectionLost, Exit, CloseChannel
  <2> QED  BY <2>2, <2>3
<1>5. ASSUME NEW e \in Events, broker'[e] = "acked"
      PROVE  Taken(e)
  <2>1. CASE broker[e] = "acked"
    BY <2>1 DEF TakenOnAck, AckedWasTaken, Taken, TakenIn
  <2>2. CASE \E t \in Tasks : pc[t] = "ack" /\ ev[t] = e
    BY <2>2 DEF TakenOnAck, TakenInv
  <2> QED  BY <1>4, <1>5, <2>1, <2>2
<1>6. AckedWasTaken'
  BY <1>3, <1>5 DEF AckedWasTaken, TakenIn
<1> QED  BY <1>1, <1>2, <1>6 DEF TakenOnAck

\* A message that is acknowledged was given to process(): duplicates included.
THEOREM AcknowledgedIsTaken == Spec => []AckedWasTaken
<1>1. Init => TakenOnAck
  BY InitTypes DEF TakenOnAck, TypesInv, AckedWasTaken, Init
<1>2. TakenOnAck => AckedWasTaken
  BY DEF TakenOnAck
<1> QED  BY <1>1, <1>2, TakenOnAckKept, PTL DEF Spec

------------------------------------------------------------------------------
(* What is not acknowledged is explained. *)

Explained == TypesInv /\ UnackedIsExplained

LEMMA ExplainedKept == Explained /\ [Next]_vars => Explained'
<1> SUFFICES ASSUME Explained, [Next]_vars
             PROVE  Explained'
  OBVIOUS
<1>1. /\ TypesInv /\ TypesInv' /\ DispatchMoves /\ RowsStay /\ faults' \in Nat
      /\ DispatchTypeOK /\ DispatchTypeOK' /\ Len(rows) \in Nat /\ Len(rows') \in Nat
      /\ broker \in [Events -> MessageState] /\ stale \subseteq Active
  <2>1. TypesInv
    BY DEF Explained
  <2> QED  BY <2>1, TypesInvKept DEF TypesInv, TypeOK, DispatchTypeOK
<1> DEFINE HasTask(e) == \E t \in Tasks : pc[t] # "idle" /\ t \notin stale /\ ev[t] = e
           HasError(e) == \E i \in 1..Len(rows) : rows[i].event = e /\ rows[i].outcome = "error"
<1>2. ASSUME NEW e, HasError(e)
      PROVE  HasError(e)'
  <2>1. PICK i \in 1..Len(rows) : rows[i].event = e /\ rows[i].outcome = "error"
    BY <1>2
  <2>2. i \in 1..Len(rows') /\ rows'[i].event = e /\ rows'[i].outcome = "error"
    BY <1>1, <2>1 DEF RowsStay
  <2> QED  BY <2>2
<1>3. abandoned \subseteq abandoned'
  BY <1>1 DEF DispatchMoves, dispatchVars, CreateTasks, TaskMoves, AcquireSemaphore, FindRun,
     InsertIgnored, UpdateIgnored, InsertRun, ProcessEnds, UpdateRun, Ack, CallFails,
     EndAllTasks, DayPasses
<1>4. UnackedIsExplained <=>
        \A e \in Events : broker[e] = "unacked" => HasTask(e) \/ HasError(e) \/ e \in abandoned
  BY DEF UnackedIsExplained, Delivered, Active
<1>5. UnackedIsExplained' <=>
        \A e \in Events : broker'[e] = "unacked" =>
          HasTask(e)' \/ HasError(e)' \/ e \in abandoned'
  BY DEF UnackedIsExplained, Delivered, Active
<1> HIDE DEF HasError
\* Messages that were unacknowledged before, and whose task does not move.
<1>6. ASSUME NEW e \in Events, broker[e] = "unacked",
             stale' \subseteq stale,
             \A t \in Tasks : pc[t] # "idle" /\ ev[t] = e => pc'[t] # "idle" /\ ev'[t] = e
      PROVE  HasTask(e)' \/ HasError(e)' \/ e \in abandoned'
  <2>1. HasTask(e) \/ HasError(e) \/ e \in abandoned
    BY <1>4, <1>6 DEF Explained
  <2> QED  BY <1>2, <1>3, <1>6, <2>1
<1>7. CASE \E e \in Events : Deliver(e)
  <2>1. PICK d \in Events : Deliver(d)
    BY <1>7
  <2>2. {d} \in SUBSET Events /\ CreateTasks({d}) /\ stale' = stale
        /\ broker' = [broker EXCEPT ![d] = "unacked"]
    BY <2>1 DEF Deliver
  <2>3. PICK N \in SUBSET Tasks :
           /\ \A t \in N : pc[t] = "idle" /\ pc'[t] = "waiting" /\ ev'[t] \in {d}
           /\ \A t \in Tasks \ N : pc'[t] = pc[t] /\ ev'[t] = ev[t]
           /\ \A e \in {d} : \E t \in N : ev'[t] = e
    BY <1>1, <2>2, Created
  <2>4. HasTask(d)'
    BY <1>1, <2>2, <2>3 DEF Active
  <2>5. \A e \in Events : broker'[e] = "unacked" /\ e # d => broker[e] = "unacked"
    BY <1>1, <2>2
  <2>6. \A t \in Tasks : pc[t] # "idle" => pc'[t] # "idle" /\ ev'[t] = ev[t]
    BY <2>3
  <2> QED  BY <1>1, <1>5, <1>6, <2>2, <2>4, <2>5, <2>6 DEF Explained
<1>8. CASE ConnectionLost \/ Exit
  BY <1>1, <1>5, <1>8 DEF ConnectionLost, Exit, CloseChannel, Explained
<1>9. ASSUME pc' = pc, ev' = ev, stale' = stale,
             \A e \in Events : broker'[e] = "unacked" => broker[e] = "unacked"
      PROVE  UnackedIsExplained'
  BY <1>1, <1>5, <1>6, <1>9 DEF Explained
<1>10. ASSUME NEW t \in Tasks, AckMessage(t)
       PROVE  UnackedIsExplained'
  <2>1. ev[t] \in Events /\ stale' \subseteq stale
        /\ \A s \in Tasks : s # t => pc'[s] = pc[s] /\ ev'[s] = ev[s]
    BY <1>1, <1>10 DEF AckMessage, Ack, EndTask, Goto, StillStale, DispatchTypeOK
  <2>2. CASE t \in stale
    <3>1. broker' = broker /\ \A e : HasTask(e) => HasTask(e)'
      BY <1>10, <2>1, <2>2 DEF AckMessage
    <3> QED  BY <1>2, <1>3, <1>4, <1>5, <3>1 DEF Explained
  <2>3. CASE t \notin stale
    <3>1. broker' = [broker EXCEPT ![ev[t]] = "acked"]
      BY <1>10, <2>3 DEF AckMessage
    <3>2. \A e \in Events : broker'[e] = "unacked" => e # ev[t] /\ broker[e] = "unacked"
      BY <1>1, <2>1, <3>1
    <3>3. \A e \in Events : e # ev[t] /\ HasTask(e) => HasTask(e)'
      BY <2>1
    <3> QED  BY <1>2, <1>3, <1>4, <1>5, <3>2, <3>3 DEF Explained
  <2> QED  BY <2>2, <2>3
<1>11. ASSUME NEW t \in Tasks, Work(t) \/ WorkFails(t)
       PROVE  UnackedIsExplained'
  <2>1. /\ ev[t] \in Events /\ stale' \subseteq stale /\ broker' = broker
        /\ \A s \in Tasks : s # t => pc'[s] = pc[s] /\ ev'[s] = ev[s]
    BY <1>1, <1>11 DEF Work, WorkFails, TaskStep, AcquireSemaphore, FindRun, InsertIgnored,
       UpdateIgnored, InsertRun, ProcessEnds, UpdateRun, CallFails, EndTask, Goto, StillStale,
       InsertRow, DispatchTypeOK
  <2>2. CASE WorkFails(t)
    <3>1. ev[t] \in abandoned'
      BY <2>2 DEF WorkFails, CallFails
    <3>2. \A e \in Events : e # ev[t] /\ HasTask(e) => HasTask(e)'
      BY <2>1
    <3> QED  BY <1>2, <1>3, <1>4, <1>5, <2>1, <3>1, <3>2 DEF Explained
  <2>3. CASE pc[t] = "update_error" /\ UpdateRun(t)
    <3>1. CompleteRow(t, "error") /\ "error" \in Outcomes
      BY <2>3 DEF UpdateRun, Outcomes
    <3>2. run[t] # 0 /\ rows[run[t]].event = ev[t]
      BY <1>1, <2>3 DEF DispatchTypeOK, TaskPc
    <3>3. run[t] \in 1..Len(rows)
      BY <1>1, <3>2 DEF DispatchTypeOK
    <3>4. run[t] \in 1..Len(rows') /\ rows'[run[t]].event = ev[t]
          /\ rows'[run[t]].outcome = "error"
      BY <1>1, <3>1, <3>2, <3>3, Completed
    <3>a. PICK d \in Events : d = ev[t]
      BY <2>1
    <3>5. HasError(d)'
      BY <3>4, <3>a DEF HasError
    <3>6. \A e \in Events : e # d /\ HasTask(e) => HasTask(e)'
      BY <2>1, <3>a
    <3> QED  BY <1>2, <1>3, <1>4, <1>5, <2>1, <3>5, <3>6 DEF Explained
  <2>4. CASE Work(t) /\ ~(pc[t] = "update_error" /\ UpdateRun(t))
    <3>1. pc'[t] # "idle" /\ ev'[t] = ev[t]
      BY <1>1, <2>4 DEF Work, TaskStep, AcquireSemaphore, FindRun, InsertIgnored, UpdateIgnored,
         InsertRun, ProcessEnds, UpdateRun, Goto, DispatchTypeOK
    <3> QED  BY <1>5, <1>6, <2>1, <3>1
  <2> QED  BY <1>11, <2>2, <2>3, <2>4
<1>12. UnackedIsExplained'
  <2>1. \/ ConnectionLost \/ Exit \/ (\E e \in Events : Deliver(e))
        \/ \E t \in Tasks : AckMessage(t) \/ Work(t) \/ WorkFails(t)
        \/ /\ pc' = pc /\ ev' = ev /\ stale' = stale
           /\ \A e \in Events : broker'[e] = "unacked" => broker[e] = "unacked"
    BY <1>1 DEF Next, vars, sourceVars, dispatchVars, Publish, Start, Reject, Dispatch,
       DayPasses
  <2> QED  BY <1>7, <1>8, <1>9, <1>10, <1>11, <2>1 DEF Explained
<1> QED  BY <1>1, <1>12 DEF Explained

\* The broker is never left waiting for an acknowledgement in silence.
THEOREM WaitingIsExplained == Spec => []UnackedIsExplained
<1>1. Init => Explained
  BY InitTypes DEF Explained, TypesInv, UnackedIsExplained, Init
<1>2. Explained => UnackedIsExplained
  BY DEF Explained
<1> QED  BY <1>1, <1>2, ExplainedKept, PTL DEF Spec

------------------------------------------------------------------------------
(* Once in 24 hours, with one slot. *)

OneHolds == \A s, t \in Holding : s = t

OnceInv == TypesInv /\ OneHolds /\ NotFound /\ ProcessedOnce

LEMMA OneHoldsKept ==
  ASSUME MaxConcurrent = 1, IsFiniteSet(Tasks), TypesInv, OneHolds, [Next]_vars
  PROVE  OneHolds'
<1>1. /\ DispatchTypeOK /\ DispatchMoves
      /\ \A t \in Tasks : pc[t] \in TaskPc
  <2>1. DispatchMoves
    BY TypesInvKept
  <2> QED  BY <2>1 DEF TypesInv, TypeOK, DispatchTypeOK
\* Only async with sem makes a task a holder.
<1>2. ASSUME NEW t \in Tasks, AcquireSemaphore(t)
      PROVE  OneHolds'
  <2>1. IsFiniteSet(Holding) /\ Cardinality(Holding) \in Nat
    <3>1. Holding \subseteq Tasks
      BY DEF Holding, Active
    <3> QED  BY <3>1, FS_Subset, FS_CardinalityType
  <2>2. Cardinality(Holding) = 0
    BY <1>2, <2>1 DEF AcquireSemaphore
  <2>3. Holding = {}
    BY <2>1, <2>2, FS_EmptySet
  <2>4. \A s \in Tasks : s # t => pc'[s] = pc[s]
    BY <1>1, <1>2 DEF AcquireSemaphore, Goto, DispatchTypeOK
  <2> QED  BY <2>3, <2>4 DEF OneHolds, Holding, Active
<1>3. ASSUME \A t \in Tasks : pc'[t] \in {"idle", "waiting"} \/ pc[t] \notin {"idle", "waiting"}
      PROVE  OneHolds'
  BY <1>3 DEF OneHolds, Holding, Active
<1>4. CASE \E batch \in SUBSET Events : CreateTasks(batch)
  <2>1. PICK N \in SUBSET Tasks :
           /\ \A t \in N : pc'[t] = "waiting"
           /\ \A t \in Tasks \ N : pc'[t] = pc[t]
    BY <1>1, <1>4, Created
  <2> QED  BY <1>3, <2>1
<1>5. ASSUME NEW t \in Tasks, TaskMoves(t), ~AcquireSemaphore(t)
      PROVE  OneHolds'
  <2>1. /\ \A s \in Tasks : s # t => pc'[s] = pc[s]
        /\ pc'[t] = "idle" \/ pc[t] \notin {"idle", "waiting"}
    BY <1>1, <1>5 DEF TaskMoves, FindRun, InsertIgnored, UpdateIgnored, InsertRun, ProcessEnds,
       UpdateRun, Ack, CallFails, EndTask, Goto, DispatchTypeOK
  <2> QED  BY <1>3, <2>1
<1>6. CASE UNCHANGED pc \/ EndAllTasks
  BY <1>3, <1>6 DEF EndAllTasks
<1> QED
  BY <1>1, <1>2, <1>4, <1>5, <1>6 DEF DispatchMoves, dispatchVars, DayPasses

\* With one slot and any number of messages, redelivered or not: process() is
\* called once for a message in 24 hours.  A new connection leaves the old tasks
\* running, but they hold the slot until they are through.
THEOREM OneSlotOnce ==
  ASSUME MaxConcurrent = 1, IsFiniteSet(Tasks)
  PROVE  Spec => []ProcessedOnce
<1>1. Init => OnceInv
  BY InitTypes DEF OnceInv, TypesInv, OneHolds, Holding, Active, NotFound, ProcessedOnce,
     Init, DispatchInit
<1>2. OnceInv /\ [Next]_vars => OnceInv'
  <2> SUFFICES ASSUME OnceInv, [Next]_vars
               PROVE  OnceInv'
    OBVIOUS
  <2>1. TypesInv' /\ DispatchMoves /\ faults' \in Nat /\ RunInv
    BY TypesInvKept DEF OnceInv, TypesInv
  <2>2. HoldersDiffer /\ NotFound /\ ProcessedOnce
    BY DEF OnceInv, OneHolds, HoldersDiffer
  <2>3. NotFound' /\ ProcessedOnce'
    BY <2>1, <2>2, OnceKept
  <2>4. OneHolds'
    BY OneHoldsKept DEF OnceInv
  <2> QED  BY <2>1, <2>3, <2>4 DEF OnceInv
<1>3. OnceInv => ProcessedOnce
  BY DEF OnceInv
<1> QED  BY <1>1, <1>2, <1>3, PTL DEF Spec
=============================================================================
