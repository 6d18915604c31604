-------------------------- MODULE OAuthRefreshProofs --------------------------
(***************************************************************************)
(* Proofs about OAuthRefresh, for any number of tasks, threads, tokens and *)
(* faults.  LockInv says who holds the lock of a process and who waits for *)
(* it; single flight and what a sleeping waiter does to its process follow *)
(* from it.  TokenInv says where a refresh token is, in the row, in the    *)
(* hands of a caller or spent; that no token is thrown away follows from   *)
(* both.                                                                   *)
(***************************************************************************)
EXTENDS OAuthRefresh, SequenceTheorems, TLAPS

\* Where a call can be.
CallSteps == {"idle", "fetch", "fetched", "enter", "waiting", "asleep",
          "read", "post", "write", "error", "cache"}

\* A lock: its owner, its waiters, and the loop it is bound to.
Locks == [owner : Callers \cup {"none"}, queue : Seq(Callers),
          bound : Callers \cup {"none", Main}]

\* The types of what the locks are about.
LockTypes == /\ at \in [Callers -> CallSteps]
             /\ lock \in [Processes -> Locks]
             /\ woken \subseteq Callers

\* The owner of a free lock is not a caller.
LEMMA NoneIsNoCaller == "none" \notin Callers
BY RefreshAssumption DEF RefreshAssumption

\* The waiters of a lock belong to its process.
QueuesAreLocal == \A p \in Processes : \A i \in 1..Len(lock[p].queue) :
                    Process(lock[p].queue[i]) = p

\* One caller at a time is between taking and releasing.
OwnersAreBusy == \A c \in Callers : at[c] \in Busy => lock[Process(c)].owner = c

\* A waiter whose future is done is the first one, and the lock is free for it.
FirstIsWoken == \A c \in woken : /\ lock[Process(c)].owner = "none"
                                 /\ lock[Process(c)].queue # <<>>
                                 /\ c = Head(lock[Process(c)].queue)

\* The invariant of the locks.
LockInv == LockTypes /\ QueuesAreLocal /\ OwnersAreBusy /\ FirstIsWoken

------------------------------------------------------------------------------
(* Processes, queues. *)

\* Every caller is in one of the processes.
LEMMA ProcessesOfCallers == \A c \in Callers : Process(c) \in Processes
BY DEF Process, Processes

\* Append keeps the head and adds one place.
LEMMA Appended ==
  ASSUME NEW S, NEW q \in Seq(S), NEW c \in S
  PROVE  /\ Append(q, c) \in Seq(S) /\ Append(q, c) # <<>>
         /\ Len(Append(q, c)) = Len(q) + 1
         /\ \A i \in 1..Len(q) : Append(q, c)[i] = q[i]
         /\ Append(q, c)[Len(q) + 1] = c
         /\ q # <<>> => Head(Append(q, c)) = Head(q)
<1>1. /\ Append(q, c) \in Seq(S) /\ Append(q, c) # <<>>
      /\ Len(Append(q, c)) = Len(q) + 1
      /\ \A i \in 1..Len(q) : Append(q, c)[i] = q[i]
      /\ Append(q, c)[Len(q) + 1] = c
  BY AppendProperties
<1>2. q # <<>> => Head(Append(q, c)) = Head(q)
  <2> SUFFICES ASSUME q # <<>> PROVE Head(Append(q, c)) = Head(q)
    OBVIOUS
  <2>1. 1 \in 1..Len(q)
    OBVIOUS
  <2>2. Head(Append(q, c)) = Append(q, c)[1] /\ Head(q) = q[1]
    BY <1>1
  <2> QED
    BY <1>1, <2>1, <2>2
<1> QED
  BY <1>1, <1>2

\* The tail of a queue has its places but the first.
LEMMA Tailed ==
  ASSUME NEW S, NEW q \in Seq(S), q # <<>>
  PROVE  /\ Tail(q) \in Seq(S)
         /\ Len(Tail(q)) = Len(q) - 1
         /\ \A i \in 1..Len(Tail(q)) : i + 1 \in 1..Len(q) /\ Tail(q)[i] = q[i + 1]
         /\ Tail(q) # <<>> => 1 \in 1..Len(Tail(q)) /\ Head(Tail(q)) = Tail(q)[1]
OBVIOUS

------------------------------------------------------------------------------
(* What the steps do to the lock. *)

\* A step that leaves the locks alone and moves one caller, not into the section.
LEMMA LockStays ==
  ASSUME LockInv, NEW c \in Callers, NEW s \in CallSteps, Goes(c, s),
         s \in Busy => at[c] \in Busy, UNCHANGED <<lock, woken>>
  PROVE  LockInv'
BY DEF LockInv, LockTypes, QueuesAreLocal, OwnersAreBusy, FirstIsWoken, Goes, Busy, CallSteps

\* Queueing leaves the owner and the head of the queue.
LEMMA LockQueued ==
  ASSUME LockInv, NEW c \in Callers, Queue(c), woken' = woken
  PROVE  LockInv'
<1> DEFINE p == Process(c)
<1>p. p \in Processes
  BY ProcessesOfCallers
<1>1. CASE lock[p].bound \in {"none", Loop(c)}
  <2> DEFINE q == lock[p].queue
  <2>0. q \in Seq(Callers) /\ lock[p] \in Locks
    BY <1>p DEF LockInv, LockTypes, Locks
  <2>1. lock' = [lock EXCEPT ![p].bound = Loop(c), ![p].queue = Append(q, c)]
        /\ Goes(c, "waiting")
    BY <1>1 DEF Queue
  <2>2. Append(q, c) \in Seq(Callers) /\ Append(q, c) # <<>>
        /\ Len(Append(q, c)) = Len(q) + 1
        /\ (\A i \in 1..Len(q) : Append(q, c)[i] = q[i])
        /\ Append(q, c)[Len(q) + 1] = c
        /\ (q # <<>> => Head(Append(q, c)) = Head(q))
    BY <2>0, Appended
  <2>3. /\ lock'[p].owner = lock[p].owner /\ lock'[p].queue = Append(q, c)
        /\ lock'[p].bound = Loop(c)
        /\ \A r \in Processes : r # p => lock'[r] = lock[r]
        /\ lock' \in [Processes -> Locks]
    <3>1. Loop(c) \in Callers \cup {"none", Main}
      BY DEF Loop
    <3> QED
      BY <2>0, <2>1, <2>2, <3>1, <1>p DEF LockInv, LockTypes, Locks
  <2>4. at' = [at EXCEPT ![c] = "waiting"]
    BY <2>1 DEF Goes
  <2>5. LockTypes'
    BY <2>3, <2>4 DEF LockInv, LockTypes, CallSteps
  <2>6. QueuesAreLocal'
    <3> SUFFICES ASSUME NEW r \in Processes, NEW i \in 1..Len(lock'[r].queue)
                 PROVE  Process(lock'[r].queue[i]) = r
      BY DEF QueuesAreLocal, Process
    <3>1. CASE r # p
      BY <3>1, <2>3 DEF LockInv, QueuesAreLocal
    <3>2. CASE r = p
      <4>1. Len(q) \in Nat
        BY <2>0
      <4>2. i \in 1..Len(q) \/ i = Len(q) + 1
        BY <3>2, <2>3, <2>2, <4>1
      <4> QED
        BY <4>2, <3>2, <2>3, <2>2, <1>p DEF LockInv, QueuesAreLocal
    <3> QED
      BY <3>1, <3>2
  <2>7. OwnersAreBusy'
    BY <2>3, <2>4, ProcessesOfCallers DEF LockInv, LockTypes, OwnersAreBusy, Busy, Process
  <2>8. FirstIsWoken'
    <3> SUFFICES ASSUME NEW d \in woken
                 PROVE  /\ lock'[Process(d)].owner = "none"
                        /\ lock'[Process(d)].queue # <<>>
                        /\ d = Head(lock'[Process(d)].queue)
      BY DEF FirstIsWoken, Process
    <3>1. d \in Callers /\ Process(d) \in Processes
      BY ProcessesOfCallers DEF LockInv, LockTypes
    <3> QED
      BY <3>1, <2>2, <2>3 DEF LockInv, FirstIsWoken
  <2> QED
    BY <2>5, <2>6, <2>7, <2>8 DEF LockInv
<1>2. CASE lock[p].bound \notin {"none", Loop(c)}
  <2>1. Goes(c, "idle") /\ UNCHANGED <<lock, woken>>
    BY <1>2 DEF Queue
  <2> QED
    BY <2>1, LockStays DEF CallSteps, Busy
<1> QED
  BY <1>1, <1>2

\* Taking a free lock: nobody waits for it, so nobody is woken.
LEMMA LockTaken ==
  ASSUME LockInv, NEW c \in Callers, Free(Process(c)), woken' = woken,
         lock' = [lock EXCEPT ![Process(c)].owner = c], Goes(c, "read")
  PROVE  LockInv'
<1> DEFINE p == Process(c)
<1>0. p \in Processes /\ lock[p] \in Locks /\ c # "none"
  BY NoneIsNoCaller, ProcessesOfCallers DEF LockInv, LockTypes
<1>1. /\ lock'[p].owner = c /\ lock'[p].queue = lock[p].queue
      /\ \A r \in Processes : r # p => lock'[r] = lock[r]
      /\ lock' \in [Processes -> Locks]
  BY <1>0 DEF LockInv, LockTypes, Locks
<1>2. LockTypes'
  BY <1>1 DEF LockInv, LockTypes, Goes, CallSteps
<1>3. QueuesAreLocal'
  <2> SUFFICES ASSUME NEW r \in Processes, NEW i \in 1..Len(lock'[r].queue)
               PROVE  Process(lock'[r].queue[i]) = r
    BY DEF QueuesAreLocal, Process
  <2>1. lock'[r].queue = lock[r].queue
    BY <1>1
  <2> QED
    BY <2>1 DEF LockInv, QueuesAreLocal
<1>4. OwnersAreBusy'
  <2> SUFFICES ASSUME NEW d \in Callers, at'[d] \in Busy
               PROVE  lock'[Process(d)].owner = d
    BY DEF OwnersAreBusy, Process
  <2>1. CASE d = c
    BY <2>1, <1>1
  <2>2. CASE d # c
    <3>1. at[d] \in Busy
      BY <2>2 DEF LockInv, LockTypes, Goes
    <3>2. lock[Process(d)].owner = d /\ d # "none"
      BY NoneIsNoCaller, <3>1 DEF LockInv, OwnersAreBusy
    <3>3. Process(d) # p
      BY <3>2 DEF Free
    <3> QED
      BY <3>2, <3>3, <1>1, ProcessesOfCallers
  <2> QED
    BY <2>1, <2>2
<1>5. FirstIsWoken'
  <2> SUFFICES ASSUME NEW d \in woken
               PROVE  /\ lock'[Process(d)].owner = "none"
                      /\ lock'[Process(d)].queue # <<>>
                      /\ d = Head(lock'[Process(d)].queue)
    BY DEF FirstIsWoken, Process
  <2>1. /\ lock[Process(d)].queue # <<>> /\ lock[Process(d)].owner = "none"
        /\ d = Head(lock[Process(d)].queue) /\ Process(d) \in Processes
    BY ProcessesOfCallers DEF LockInv, LockTypes, FirstIsWoken
  <2>2. Process(d) # p
    BY <2>1 DEF Free
  <2> QED
    BY <1>1, <2>1, <2>2
<1> QED
  BY <1>2, <1>3, <1>4, <1>5 DEF LockInv

\* A caller in the section is the owner, and nobody of its process is woken.
LEMMA Alone ==
  ASSUME LockInv, NEW c \in Callers, at[c] \in Busy
  PROVE  /\ lock[Process(c)].owner = c /\ c # "none"
         /\ \A d \in Callers \ {c} : Process(d) = Process(c) => at[d] \notin Busy
         /\ \A d \in woken : Process(d) # Process(c)
BY NoneIsNoCaller DEF LockInv, LockTypes, OwnersAreBusy, FirstIsWoken

\* The head of a queue is a caller of its process.
LEMMA HeadIsLocal ==
  ASSUME LockInv, NEW p \in Processes, lock[p].queue # <<>>
  PROVE  Head(lock[p].queue) \in Callers /\ Process(Head(lock[p].queue)) = p
<1> DEFINE q == lock[p].queue
<1>1. q \in Seq(Callers)
  BY DEF LockInv, LockTypes, Locks
<1>2. Head(q) \in Callers /\ Head(q) = q[1] /\ 1 \in 1..Len(q)
  BY <1>1
<1> QED
  BY <1>2 DEF LockInv, QueuesAreLocal

\* Leaving the section.
LEMMA LockLeft ==
  ASSUME LockInv, NEW c \in Callers, at[c] \in Busy, Leave(c)
  PROVE  LockInv'
<1> DEFINE p == Process(c)
           q == lock[p].queue
<1>0. p \in Processes /\ lock[p] \in Locks
  BY ProcessesOfCallers DEF LockInv, LockTypes
<1>1. /\ lock' = [lock EXCEPT ![p].owner = "none"]
      /\ woken' = IF q = <<>> THEN woken ELSE woken \cup {Head(q)}
      /\ at' = [at EXCEPT ![c] = "idle"]
  BY DEF Leave, Goes
<1>2. /\ lock'[p].owner = "none" /\ lock'[p].queue = q
      /\ \A r \in Processes : r # p => lock'[r] = lock[r]
      /\ lock' \in [Processes -> Locks]
  BY <1>0, <1>1 DEF LockInv, LockTypes, Locks
<1>3. \A d \in woken' : d \in woken \/ (q # <<>> /\ d = Head(q))
  BY <1>1
<1>4. LockTypes'
  <2>1. woken' \subseteq Callers
    BY <1>0, <1>3, HeadIsLocal DEF LockInv, LockTypes
  <2> QED
    BY <1>1, <1>2, <2>1 DEF LockInv, LockTypes, CallSteps
<1>5. QueuesAreLocal'
  <2> SUFFICES ASSUME NEW r \in Processes, NEW i \in 1..Len(lock'[r].queue)
               PROVE  Process(lock'[r].queue[i]) = r
    BY DEF QueuesAreLocal, Process
  <2>1. lock'[r].queue = lock[r].queue
    BY <1>2
  <2> QED
    BY <2>1 DEF LockInv, QueuesAreLocal
<1>6. OwnersAreBusy'
  <2> SUFFICES ASSUME NEW d \in Callers, at'[d] \in Busy
               PROVE  lock'[Process(d)].owner = d
    BY DEF OwnersAreBusy, Process
  <2>1. d # c /\ at[d] \in Busy
    BY <1>1 DEF LockInv, LockTypes, Busy
  <2>2. Process(d) # p /\ lock[Process(d)].owner = d
    BY <2>1, Alone DEF LockInv, OwnersAreBusy
  <2> QED
    BY <2>2, <1>2, ProcessesOfCallers
<1>7. FirstIsWoken'
  <2> SUFFICES ASSUME NEW d \in woken'
               PROVE  /\ lock'[Process(d)].owner = "none"
                      /\ lock'[Process(d)].queue # <<>>
                      /\ d = Head(lock'[Process(d)].queue)
    BY DEF FirstIsWoken, Process
  <2>1. CASE d \in woken
    <3>1. d \in Callers /\ Process(d) # p
      BY <2>1, Alone DEF LockInv, LockTypes
    <3> QED
      BY <2>1, <3>1, <1>2, ProcessesOfCallers DEF LockInv, FirstIsWoken
  <2>2. CASE q # <<>> /\ d = Head(q)
    <3>1. Process(d) = p
      BY <2>2, <1>0, HeadIsLocal
    <3> QED
      BY <2>2, <3>1, <1>2
  <2> QED
    BY <1>3, <2>1, <2>2
<1> QED
  BY <1>4, <1>5, <1>6, <1>7 DEF LockInv

\* What a woken waiter finds.
LEMMA LockWoken ==
  ASSUME LockInv, NEW c \in Callers, Wake(c)
  PROVE  LockInv'
<1> DEFINE p == Process(c)
           q == lock[p].queue
           rest == Tail(q)
<1>0. p \in Processes /\ lock[p] \in Locks /\ c # "none" /\ q \in Seq(Callers)
  BY NoneIsNoCaller, ProcessesOfCallers DEF LockInv, LockTypes, Locks
<1>1. c \in woken /\ at[c] = "waiting" /\ lock[p].owner = "none" /\ q # <<>> /\ c = Head(q)
  BY DEF Wake, LockInv, FirstIsWoken
<1>2. /\ rest \in Seq(Callers)
      /\ \A i \in 1..Len(rest) : i + 1 \in 1..Len(q) /\ rest[i] = q[i + 1]
      /\ rest # <<>> => 1 \in 1..Len(rest) /\ Head(rest) = rest[1]
  BY <1>0, <1>1, Tailed
<1>3. \A i \in 1..Len(rest) : Process(rest[i]) = p
  BY <1>0, <1>2 DEF LockInv, QueuesAreLocal
<1>4. rest # <<>> => Head(rest) \in Callers /\ Process(Head(rest)) = p
  BY <1>2, <1>3
<1>5. \A d \in woken \ {c} : Process(d) # p
  BY <1>1 DEF LockInv, FirstIsWoken
<1>6. \A d \in Callers : at[d] \in Busy => Process(d) # p
  BY NoneIsNoCaller, <1>1 DEF LockInv, OwnersAreBusy
<1>7. CASE cache[p]
  <2>1. /\ lock' = [lock EXCEPT ![p].queue = rest]
        /\ woken' = (woken \ {c}) \cup (IF rest = <<>> THEN {} ELSE {Head(rest)})
        /\ at' = [at EXCEPT ![c] = "idle"]
    BY <1>7 DEF Wake, Goes
  <2>2. /\ lock'[p].owner = "none" /\ lock'[p].queue = rest
        /\ \A r \in Processes : r # p => lock'[r] = lock[r]
        /\ lock' \in [Processes -> Locks]
    BY <1>0, <1>1, <1>2, <2>1 DEF LockInv, LockTypes, Locks
  <2>3. \A d \in woken' : d \in woken \ {c} \/ (rest # <<>> /\ d = Head(rest))
    BY <2>1
  <2>4. LockTypes'
    <3>1. woken' \subseteq Callers
      BY <2>3, <1>4 DEF LockInv, LockTypes
    <3> QED
      BY <2>1, <2>2, <3>1 DEF LockInv, LockTypes, CallSteps
  <2>5. QueuesAreLocal'
    <3> SUFFICES ASSUME NEW r \in Processes, NEW i \in 1..Len(lock'[r].queue)
                 PROVE  Process(lock'[r].queue[i]) = r
      BY DEF QueuesAreLocal, Process
    <3>1. CASE r = p
      BY <3>1, <2>2, <1>3
    <3>2. CASE r # p
      BY <3>2, <2>2 DEF LockInv, QueuesAreLocal
    <3> QED
      BY <3>1, <3>2
  <2>6. OwnersAreBusy'
    <3> SUFFICES ASSUME NEW d \in Callers, at'[d] \in Busy
                 PROVE  lock'[Process(d)].owner = d
      BY DEF OwnersAreBusy, Process
    <3>1. at[d] \in Busy
      BY <2>1 DEF LockInv, LockTypes, Busy
    <3> QED
      BY <3>1, <1>6, <2>2, ProcessesOfCallers DEF LockInv, OwnersAreBusy
  <2>7. FirstIsWoken'
    <3> SUFFICES ASSUME NEW d \in woken'
                 PROVE  /\ lock'[Process(d)].owner = "none"
                        /\ lock'[Process(d)].queue # <<>>
                        /\ d = Head(lock'[Process(d)].queue)
      BY DEF FirstIsWoken, Process
    <3>1. CASE d \in woken \ {c}
      <4>1. d \in Callers /\ Process(d) # p
        BY <3>1, <1>5 DEF LockInv, LockTypes
      <4> QED
        BY <3>1, <4>1, <2>2, ProcessesOfCallers DEF LockInv, FirstIsWoken
    <3>2. CASE rest # <<>> /\ d = Head(rest)
      BY <3>2, <1>4, <2>2
    <3> QED
      BY <2>3, <3>1, <3>2
  <2> QED
    BY <2>4, <2>5, <2>6, <2>7 DEF LockInv
<1>8. CASE ~cache[p]
  <2>1. /\ lock' = [lock EXCEPT ![p].owner = c, ![p].queue = rest]
        /\ woken' = woken \ {c}
        /\ at' = [at EXCEPT ![c] = "read"]
    BY <1>8 DEF Wake, Goes
  <2>2. /\ lock'[p].owner = c /\ lock'[p].queue = rest
        /\ \A r \in Processes : r # p => lock'[r] = lock[r]
        /\ lock' \in [Processes -> Locks]
    BY <1>0, <1>1, <1>2, <2>1 DEF LockInv, LockTypes, Locks
  <2>4. LockTypes'
    BY <2>1, <2>2 DEF LockInv, LockTypes, CallSteps
  <2>5. QueuesAreLocal'
    <3> SUFFICES ASSUME NEW r \in Processes, NEW i \in 1..Len(lock'[r].queue)
                 PROVE  Process(lock'[r].queue[i]) = r
      BY DEF QueuesAreLocal, Process
    <3>1. CASE r = p
      BY <3>1, <2>2, <1>3
    <3>2. CASE r # p
      BY <3>2, <2>2 DEF LockInv, QueuesAreLocal
    <3> QED
      BY <3>1, <3>2
  <2>6. OwnersAreBusy'
    <3> SUFFICES ASSUME NEW d \in Callers, at'[d] \in Busy
                 PROVE  lock'[Process(d)].owner = d
      BY DEF OwnersAreBusy, Process
    <3>1. CASE d = c
      BY <3>1, <2>2
    <3>2. CASE d # c
      <4>1. at[d] \in Busy
        BY <3>2, <2>1 DEF LockInv, LockTypes
      <4> QED
        BY <4>1, <1>6, <2>2, ProcessesOfCallers DEF LockInv, OwnersAreBusy
    <3> QED
      BY <3>1, <3>2
  <2>7. FirstIsWoken'
    <3> SUFFICES ASSUME NEW d \in woken'
                 PROVE  /\ lock'[Process(d)].owner = "none"
                        /\ lock'[Process(d)].queue # <<>>
                        /\ d = Head(lock'[Process(d)].queue)
      BY DEF FirstIsWoken, Process
    <3>1. d \in woken \ {c} /\ d \in Callers /\ Process(d) # p
      BY <2>1, <1>5 DEF LockInv, LockTypes
    <3> QED
      BY <3>1, <2>2, ProcessesOfCallers DEF LockInv, FirstIsWoken
  <2> QED
    BY <2>4, <2>5, <2>6, <2>7 DEF LockInv
<1> QED
  BY <1>7, <1>8

\* A process that starts again has a fresh lock and idle callers.
LEMMA LockFresh ==
  ASSUME LockInv, NEW p \in Processes, Restart(p)
  PROVE  LockInv'
<1>0. /\ lock' = [lock EXCEPT ![p] = FreshLock]
      /\ woken' = woken \ CallersOf(p)
      /\ at' = [c \in Callers |-> IF Process(c) = p THEN "idle" ELSE at[c]]
  BY DEF Restart
<1>1. FreshLock \in Locks /\ FreshLock.queue = <<>>
  BY DEF FreshLock, Locks
<1>2. /\ lock'[p] = FreshLock /\ \A r \in Processes : r # p => lock'[r] = lock[r]
      /\ lock' \in [Processes -> Locks]
  BY <1>0, <1>1 DEF LockInv, LockTypes
<1>3. LockTypes'
  BY <1>0, <1>2 DEF LockInv, LockTypes, CallSteps
<1>4. QueuesAreLocal'
  <2> SUFFICES ASSUME NEW r \in Processes, NEW i \in 1..Len(lock'[r].queue)
               PROVE  Process(lock'[r].queue[i]) = r
    BY DEF QueuesAreLocal, Process
  <2>1. CASE r = p
    BY <2>1, <1>1, <1>2
  <2>2. CASE r # p
    BY <2>2, <1>2 DEF LockInv, QueuesAreLocal
  <2> QED
    BY <2>1, <2>2
<1>5. OwnersAreBusy'
  <2> SUFFICES ASSUME NEW d \in Callers, at'[d] \in Busy
               PROVE  lock'[Process(d)].owner = d
    BY DEF OwnersAreBusy, Process
  <2>1. Process(d) # p /\ at[d] \in Busy
    BY <1>0 DEF Busy
  <2> QED
    BY <2>1, <1>2, ProcessesOfCallers DEF LockInv, OwnersAreBusy
<1>6. FirstIsWoken'
  <2> SUFFICES ASSUME NEW d \in woken'
               PROVE  /\ lock'[Process(d)].owner = "none"
                      /\ lock'[Process(d)].queue # <<>>
                      /\ d = Head(lock'[Process(d)].queue)
    BY DEF FirstIsWoken, Process
  <2>1. d \in woken /\ d \in Callers /\ Process(d) # p
    BY <1>0 DEF LockInv, LockTypes, CallersOf
  <2> QED
    BY <2>1, <1>2, ProcessesOfCallers DEF LockInv, FirstIsWoken
<1> QED
  BY <1>3, <1>4, <1>5, <1>6 DEF LockInv

------------------------------------------------------------------------------
(* The seven things that a step can be to the locks. *)

\* What a step can do to the locks: nothing ...
Stays == UNCHANGED <<lock, woken, at>>

\* ... let a caller go on without the lock, or with the one it has ...
Moves(c) == /\ at[c] # "asleep" /\ UNCHANGED <<lock, woken>>
            /\ \E s \in CallSteps : Goes(c, s) /\ (s \in Busy => at[c] \in Busy)

\* ... let it wait ...
Queues(c) == at[c] # "asleep" /\ Queue(c) /\ woken' = woken

\* ... let it in ...
Takes(c) == /\ at[c] # "asleep" /\ Free(Process(c)) /\ woken' = woken
            /\ lock' = [lock EXCEPT ![Process(c)].owner = c] /\ Goes(c, "read")

\* ... or out.
Leaves(c) == at[c] \in Busy /\ Leave(c)

\* There is nothing else, but to be woken and to restart.
LEMMA StepsOfLocks ==
  ASSUME [ONext]_ovars
  PROVE  \/ Stays
         \/ \E c \in Callers : Moves(c) \/ Queues(c) \/ Takes(c) \/ Wake(c) \/ Leaves(c)
         \/ \E p \in Processes : Restart(p)
<1>1. CASE UNCHANGED ovars
  BY <1>1 DEF ovars, Stays
<1>2. ASSUME NEW c \in Callers, Call(c) \/ Fetch(c) \/ Fetched(c) \/ Sleep(c) PROVE Moves(c)
  <2>1. at[c] # "asleep" /\ UNCHANGED <<lock, woken>>
    BY <1>2 DEF Call, Fetch, Fetched, Sleep
  <2>2. \E s \in {"idle", "fetch", "fetched", "enter", "asleep"} : Goes(c, s)
    BY <1>2 DEF Call, Fetch, Fetched, Sleep
  <2> QED
    BY <2>1, <2>2 DEF Moves, CallSteps, Busy
<1>3. ASSUME NEW c \in Callers, Enter(c) PROVE Moves(c) \/ Queues(c) \/ Takes(c)
  <2>1. at[c] # "asleep" /\ woken' = woken
    BY <1>3 DEF Enter, AtLock
  <2>2. CASE Free(Process(c)) /\ cache[Process(c)]
    <3>1. CASE Queue(c)
      BY <2>2, <3>1 DEF Queue
    <3>2. CASE Goes(c, "idle") /\ UNCHANGED lock
      BY <2>1, <3>2 DEF Moves, CallSteps, Busy
    <3> QED
      BY <1>3, <2>2, <3>1, <3>2 DEF Enter
  <2>3. CASE Free(Process(c)) /\ ~cache[Process(c)]
    <3>1. lock' = [lock EXCEPT ![Process(c)].owner = c] /\ Goes(c, "read")
      BY <1>3, <2>3 DEF Enter, Queue
    <3> QED
      BY <2>1, <2>3, <3>1 DEF Takes
  <2>4. CASE ~Free(Process(c))
    <3>1. Queue(c)
      BY <1>3, <2>4 DEF Enter
    <3> QED
      BY <2>1, <3>1 DEF Queues
  <2> QED
    BY <2>2, <2>3, <2>4
<1>4. ASSUME NEW c \in Callers, ReadRow(c) PROVE Moves(c) \/ Leaves(c)
  <2>1. CASE cred.refresh = 0
    BY <1>4, <2>1 DEF ReadRow, Leaves, Busy
  <2>2. CASE cred.refresh # 0
    BY <1>4, <2>2 DEF ReadRow, Moves, Busy, CallSteps
  <2> QED
    BY <2>1, <2>2
<1>5. ASSUME NEW c \in Callers, Post(c) PROVE Moves(c)
  <2>1. at[c] = "post" /\ (Goes(c, "write") \/ Goes(c, "error"))
        /\ UNCHANGED <<lock, woken>>
    BY <1>5 DEF Post
  <2> QED
    BY <2>1 DEF Moves, Busy, CallSteps
<1>6. ASSUME NEW c \in Callers, Write(c) PROVE Moves(c) \/ Leaves(c)
  <2>1. CASE cred = NoRow
    BY <1>6, <2>1 DEF Write, Leaves, Busy
  <2>2. CASE cred # NoRow
    BY <1>6, <2>2 DEF Write, Moves, Busy, CallSteps
  <2> QED
    BY <2>1, <2>2
<1>7. ASSUME NEW c \in Callers, SetError(c) \/ SetCache(c) PROVE Leaves(c)
  BY <1>7 DEF SetError, SetCache, Leaves, Busy
<1>8. ASSUME NEW p \in Processes, Invalidate(p) \/ CacheExpires(p) PROVE Stays
  BY <1>8 DEF Invalidate, CacheExpires, Stays
<1>9. ASSUME TokenAges \/ Login \/ Logout PROVE Stays
  BY <1>9 DEF TokenAges, Login, Logout, Stays
<1> QED
  BY <1>1, <1>2, <1>3, <1>4, <1>5, <1>6, <1>7, <1>8, <1>9 DEF ONext

\* At the start the locks are free.
LEMMA InitLockInv == OInit => LockInv
<1> SUFFICES ASSUME OInit PROVE LockInv
  OBVIOUS
<1>1. FreshLock \in Locks /\ FreshLock.queue = <<>>
  BY DEF FreshLock, Locks
<1>2. LockTypes
  BY <1>1 DEF OInit, LockTypes, CallSteps
<1>3. QueuesAreLocal
  BY <1>1 DEF OInit, QueuesAreLocal
<1>4. OwnersAreBusy /\ FirstIsWoken
  BY DEF OInit, OwnersAreBusy, FirstIsWoken, Busy
<1> QED
  BY <1>2, <1>3, <1>4 DEF LockInv

\* Every step keeps their invariant.
LEMMA NextLockInv ==
  ASSUME LockInv, [ONext]_ovars
  PROVE  LockInv'
<1>1. CASE Stays
  BY <1>1 DEF Stays, LockInv, LockTypes, QueuesAreLocal, OwnersAreBusy, FirstIsWoken
<1>2. ASSUME NEW c \in Callers, Moves(c) PROVE LockInv'
  BY <1>2, LockStays DEF Moves
<1>3. ASSUME NEW c \in Callers, Queues(c) PROVE LockInv'
  BY <1>3, LockQueued DEF Queues
<1>4. ASSUME NEW c \in Callers, Takes(c) PROVE LockInv'
  BY <1>4, LockTaken DEF Takes
<1>5. ASSUME NEW c \in Callers, Wake(c) PROVE LockInv'
  BY <1>5, LockWoken
<1>6. ASSUME NEW c \in Callers, Leaves(c) PROVE LockInv'
  BY <1>6, LockLeft DEF Leaves
<1>7. ASSUME NEW p \in Processes, Restart(p) PROVE LockInv'
  BY <1>7, LockFresh
<1> QED
  BY <1>1, <1>2, <1>3, <1>4, <1>5, <1>6, <1>7, StepsOfLocks

\* Single flight: of the callers of one process, one at a time has the lock, for any
\* number of callers and faults (refresh_manager.py _refresh).
THEOREM OneRefreshAtATime == OSpec => []OneFlight
<1>1. OInit => LockInv
  BY InitLockInv
<1>2. LockInv /\ [ONext]_ovars => LockInv'
  BY NextLockInv
<1>3. LockInv => OneFlight
  BY DEF LockInv, OwnersAreBusy, OneFlight
<1> QED
  BY <1>1, <1>2, <1>3, PTL DEF OSpec

\* What a step does in a process whose turn belongs to a sleeping waiter.
LEMMA StuckStays ==
  ASSUME LockInv, [ONext]_ovars, NEW p \in Processes, Stuck(p)
  PROVE  \/ lock[p].owner = "none" /\ lock'[p].owner = "none" /\ Stuck(p)'
         \/ lock'[p] = FreshLock
<1>0. PICK s \in Callers : Process(s) = p /\ at[s] = "asleep" /\ s \in woken
  BY DEF Stuck, CallersOf
<1>1. /\ lock[p].owner = "none" /\ lock[p].queue # <<>> /\ s = Head(lock[p].queue)
      /\ lock[p] \in Locks
  BY <1>0 DEF LockInv, LockTypes, FirstIsWoken
<1>2. ASSUME at'[s] = "asleep", s \in woken' PROVE Stuck(p)'
  BY <1>0, <1>2 DEF Stuck, CallersOf, Process
<1>3. CASE Stays
  BY <1>0, <1>1, <1>2, <1>3 DEF Stays
<1>4. ASSUME NEW c \in Callers, Moves(c) PROVE lock'[p].owner = "none" /\ Stuck(p)'
  <2>1. c # s /\ at'[s] = at[s] /\ UNCHANGED <<lock, woken>>
    BY <1>0, <1>4 DEF Moves, Goes, LockInv, LockTypes
  <2> QED
    BY <2>1, <1>0, <1>1, <1>2
<1>5. ASSUME NEW c \in Callers, Queues(c) PROVE lock'[p].owner = "none" /\ Stuck(p)'
  <2>1. c # s /\ woken' = woken
    BY <1>0, <1>5 DEF Queues
  <2>2. at'[s] = at[s]
    BY <2>1, <1>5 DEF Queues, Queue, Goes, LockInv, LockTypes
  <2>3. lock'[p].owner = lock[p].owner
    <3> DEFINE r == Process(c)
    <3>1. r \in Processes /\ lock[r] \in Locks
      BY ProcessesOfCallers DEF LockInv, LockTypes
    <3>2. \/ UNCHANGED lock
          \/ lock' = [lock EXCEPT ![r].bound = Loop(c), ![r].queue = Append(@, c)]
      BY <1>5 DEF Queues, Queue
    <3> QED
      BY <3>1, <3>2, <1>1 DEF LockInv, LockTypes, Locks
  <2> QED
    BY <2>1, <2>2, <2>3, <1>0, <1>1, <1>2
<1>6. ASSUME NEW c \in Callers, Takes(c) PROVE lock'[p].owner = "none" /\ Stuck(p)'
  <2>1. c # s /\ woken' = woken /\ Process(c) # p
    BY <1>0, <1>1, <1>6 DEF Takes, Free
  <2>2. at'[s] = at[s]
    BY <2>1, <1>6 DEF Takes, Goes, LockInv, LockTypes
  <2>3. lock'[p] = lock[p]
    BY <2>1, <1>6, ProcessesOfCallers DEF Takes, LockInv, LockTypes
  <2> QED
    BY <2>1, <2>2, <2>3, <1>0, <1>1, <1>2
<1>7. ASSUME NEW c \in Callers, Wake(c) PROVE lock'[p].owner = "none" /\ Stuck(p)'
  <2>0. at[c] = "waiting" /\ c \in woken /\ c # s
    BY <1>0, <1>7 DEF Wake
  <2>1. Process(c) # p /\ Process(c) \in Processes
    BY <2>0, <1>1, ProcessesOfCallers DEF LockInv, FirstIsWoken
  <2>2. at'[s] = at[s] /\ s \in woken'
    BY <2>0, <1>0, <1>7 DEF Wake, Goes, LockInv, LockTypes
  <2>3. lock'[p] = lock[p]
    BY <2>1, <1>7 DEF Wake, LockInv, LockTypes
  <2> QED
    BY <2>2, <2>3, <1>0, <1>1, <1>2
<1>8. ASSUME NEW c \in Callers, Leaves(c) PROVE lock'[p].owner = "none" /\ Stuck(p)'
  <2>1. Process(c) # p /\ c # s /\ Process(c) \in Processes
    BY <1>0, <1>1, <1>8, Alone, ProcessesOfCallers DEF Leaves, Busy
  <2>2. at'[s] = at[s] /\ s \in woken'
    BY <2>1, <1>0, <1>8 DEF Leaves, Leave, Goes, LockInv, LockTypes
  <2>3. lock'[p] = lock[p]
    BY <2>1, <1>8 DEF Leaves, Leave, LockInv, LockTypes
  <2> QED
    BY <2>2, <2>3, <1>0, <1>1, <1>2
<1>9. ASSUME NEW r \in Processes, Restart(r)
      PROVE  \/ lock'[p].owner = "none" /\ Stuck(p)'
             \/ lock'[p] = FreshLock
  <2>1. CASE r = p
    BY <2>1, <1>9 DEF Restart, LockInv, LockTypes
  <2>2. CASE r # p
    <3>1. lock'[p] = lock[p] /\ at'[s] = at[s] /\ s \in woken'
      BY <2>2, <1>0, <1>9 DEF Restart, LockInv, LockTypes, CallersOf
    <3> QED
      BY <3>1, <1>0, <1>1, <1>2
  <2> QED
    BY <2>1, <2>2
<1> QED
  BY <1>1, <1>3, <1>4, <1>5, <1>6, <1>7, <1>8, <1>9, StepsOfLocks

\* A process with a thread that sleeps through its turn: nobody takes the lock until
\* the process is restarted.
StuckForGood ==
  [][\A p \in Processes : Stuck(p) =>
       \/ lock[p].owner = "none" /\ lock'[p].owner = "none" /\ Stuck(p)'
       \/ lock'[p] = FreshLock]_ovars

\* A process in which the turn of a sleeping thread has come refreshes no token
\* again until it is restarted, whatever else happens.
THEOREM StuckThreadBlocksItsProcess == OSpec => StuckForGood
<1>1. OInit => LockInv
  BY InitLockInv
<1>2. LockInv /\ [ONext]_ovars => LockInv'
  BY NextLockInv
<1>3. LockInv /\ [ONext]_ovars =>
        [\A p \in Processes : Stuck(p) =>
           \/ lock[p].owner = "none" /\ lock'[p].owner = "none" /\ Stuck(p)'
           \/ lock'[p] = FreshLock]_ovars
  <2> SUFFICES ASSUME LockInv, [ONext]_ovars, NEW p \in Processes, Stuck(p)
               PROVE  \/ lock[p].owner = "none" /\ lock'[p].owner = "none" /\ Stuck(p)'
                      \/ lock'[p] = FreshLock
    OBVIOUS
  <2> QED
    BY StuckStays
<1> QED
  BY <1>1, <1>2, <1>3, PTL DEF OSpec, StuckForGood

------------------------------------------------------------------------------
(* The tokens. *)

\* An access token and a refresh token, without the bound of the model.
Pairs == [access : Nat, refresh : Nat]

\* No token is newer than the last answer, and what is spent is not accepted.
TokenShape ==
  /\ cred \in Pairs /\ row \in [Callers -> Pairs] /\ answer \in [Callers -> Pairs]
  /\ issued \in Nat /\ cred.refresh <= issued
  /\ \A c \in Callers : row[c].refresh <= issued /\ answer[c].refresh <= issued
  /\ \A t \in valid : t \in Nat /\ t <= issued
  /\ \A t \in DOMAIN spent : t \in Nat /\ t <= issued /\ t \notin valid

\* A caller about to store a new refresh token.
Carries(c) == at[c] = "write" /\ answer[c].refresh # 0

\* What it carries works and nobody else knows it, and what it used is spent.
CarriedIsGood ==
  \A c \in Callers : Carries(c) =>
    /\ answer[c].refresh \in valid /\ answer[c].refresh # cred.refresh
    /\ \A d \in Callers : answer[c].refresh # row[d].refresh
    /\ \A d \in Callers \ {c} : Carries(d) => answer[c].refresh # answer[d].refresh
    /\ row[c].refresh \in DOMAIN spent /\ spent[row[c].refresh] = Process(c)

\* RowIsUsable, with a caller that has a new refresh token in hand.
Usable == \/ cred.refresh = 0 \/ cred.refresh \in valid \cup mislaid
          \/ \E c \in Callers : Carries(c) /\ row[c].refresh = cred.refresh

\* A token about to be presented was not spent by the same process.
PostedIsFresh ==
  \A c \in Callers : at[c] = "post" =>
    \/ row[c].refresh \in valid \cup mislaid
    \/ row[c].refresh \in DOMAIN spent /\ spent[row[c].refresh] # Process(c)

\* The invariant of the tokens.
TokenInv == TokenShape /\ CarriedIsGood /\ Usable /\ PostedIsFresh

\* A step that stores, presents and trades in no token: callers may drop what they
\* have, and then it is mislaid if it was carried, or the row is gone.
NothingIsStored ==
  /\ UNCHANGED <<valid, issued, spent>> /\ mislaid \subseteq mislaid'
  /\ row' \in [Callers -> Pairs] /\ answer' \in [Callers -> Pairs]
  /\ cred' = cred \/ cred' = NoRow
  /\ \A d \in Callers :
       /\ at'[d] \in {"post", "write"} =>
            at'[d] = at[d] /\ row'[d] = row[d] /\ answer'[d] = answer[d]
       /\ row'[d].refresh \in {0, row[d].refresh}
       /\ answer'[d].refresh \in {0, answer[d].refresh}
       /\ at[d] = "write" => \/ at'[d] = "write" \/ cred'.refresh = 0
                             \/ row[d].refresh \in mislaid'

\* A step that stores, presents and trades in nothing keeps it.
LEMMA QuietSteps == ASSUME TokenInv, NothingIsStored PROVE TokenInv'
<1>1. TokenShape'
  BY DEF TokenInv, TokenShape, NothingIsStored, NoRow, Pairs
<1>2. \A c \in Callers : Carries(c)' => Carries(c) /\ row'[c] = row[c] /\ answer'[c] = answer[c]
  BY DEF NothingIsStored, Carries
<1>3. CarriedIsGood'
  <2> SUFFICES ASSUME NEW c \in Callers, Carries(c)'
               PROVE  /\ answer'[c].refresh \in valid' /\ answer'[c].refresh # cred'.refresh
                      /\ \A d \in Callers : answer'[c].refresh # row'[d].refresh
                      /\ \A d \in Callers \ {c} : Carries(d)' =>
                           answer'[c].refresh # answer'[d].refresh
                      /\ row'[c].refresh \in DOMAIN spent'
                      /\ spent'[row'[c].refresh] = Process(c)
    BY DEF CarriedIsGood, Process
  <2>1. Carries(c) /\ row'[c] = row[c] /\ answer'[c] = answer[c] /\ answer[c].refresh # 0
    BY <1>2 DEF Carries
  <2> QED
    BY <1>2, <2>1 DEF TokenInv, CarriedIsGood, NothingIsStored, NoRow
<1>4. Usable'
  <2>1. CASE cred'.refresh = 0
    BY <2>1 DEF Usable
  <2>2. CASE cred'.refresh # 0
    <3>1. cred' = cred /\ valid' = valid /\ mislaid \subseteq mislaid'
      BY <2>2 DEF NothingIsStored, NoRow
    <3>2. CASE cred.refresh \in valid \cup mislaid
      BY <3>1, <3>2 DEF Usable
    <3>3. ASSUME NEW c \in Callers, Carries(c), row[c].refresh = cred.refresh
          PROVE  Usable'
      <4>1. at'[c] = "write" \/ row[c].refresh \in mislaid'
        BY <2>2, <3>3 DEF NothingIsStored, Carries
      <4>2. at'[c] = "write" => Carries(c)' /\ row'[c] = row[c]
        BY <3>3 DEF NothingIsStored, Carries
      <4> QED
        BY <4>1, <4>2, <3>1, <3>3 DEF Usable
    <3> QED
      BY <3>1, <3>2, <3>3, <2>2 DEF TokenInv, Usable
  <2> QED
    BY <2>1, <2>2
<1>5. PostedIsFresh'
  <2> SUFFICES ASSUME NEW c \in Callers, at'[c] = "post"
               PROVE  \/ row'[c].refresh \in valid' \cup mislaid'
                      \/ row'[c].refresh \in DOMAIN spent'
                         /\ spent'[row'[c].refresh] # Process(c)
    BY DEF PostedIsFresh, Process
  <2>1. at[c] = "post" /\ row'[c] = row[c] /\ valid' = valid /\ spent' = spent
        /\ mislaid \subseteq mislaid'
    BY DEF NothingIsStored
  <2> QED
    BY <2>1 DEF TokenInv, PostedIsFresh
<1> QED
  BY <1>1, <1>3, <1>4, <1>5 DEF TokenInv

\* Reading the refresh token of the row: whoever spent it is another process, for
\* its caller would be in the section too.
LEMMA ReadKeepsTokens ==
  ASSUME LockInv, TokenInv, NEW c \in Callers, ReadRow(c), cred.refresh # 0
  PROVE  TokenInv'
<1>0. /\ at[c] = "read" /\ row' = [row EXCEPT ![c].refresh = cred.refresh]
      /\ at' = [at EXCEPT ![c] = "post"]
      /\ UNCHANGED <<answer, cred, valid, issued, spent, mislaid>>
  BY DEF ReadRow, Goes
<1>1. /\ row' \in [Callers -> Pairs] /\ row'[c].refresh = cred.refresh
      /\ \A d \in Callers \ {c} : row'[d] = row[d]
  BY <1>0 DEF TokenInv, TokenShape, Pairs
<1>2. /\ at'[c] = "post" /\ \A d \in Callers \ {c} : at'[d] = at[d]
  BY <1>0 DEF LockInv, LockTypes
<1>3. TokenShape'
  BY <1>0, <1>1 DEF TokenInv, TokenShape
<1>4. \A d \in Callers : Carries(d)' <=> Carries(d)
  BY <1>0, <1>2 DEF Carries
<1>5. CarriedIsGood'
  <2> SUFFICES ASSUME NEW d \in Callers, Carries(d)
               PROVE  /\ answer[d].refresh \in valid /\ answer[d].refresh # cred.refresh
                      /\ \A e \in Callers : answer[d].refresh # row'[e].refresh
                      /\ \A e \in Callers \ {d} : Carries(e) =>
                           answer[d].refresh # answer[e].refresh
                      /\ row'[d].refresh \in DOMAIN spent
                      /\ spent[row'[d].refresh] = Process(d)
    BY <1>0, <1>4 DEF CarriedIsGood, Process
  <2>1. d # c
    BY <1>0 DEF Carries
  <2> QED
    BY <2>1, <1>1 DEF TokenInv, CarriedIsGood
<1>6. Usable'
  <2>1. ASSUME NEW d \in Callers, Carries(d), row[d].refresh = cred.refresh PROVE Usable'
    <3>1. d # c /\ Carries(d)' /\ row'[d] = row[d]
      BY <2>1, <1>0, <1>1, <1>4 DEF Carries
    <3> QED
      BY <3>1, <2>1, <1>0 DEF Usable
  <2> QED
    BY <2>1, <1>0 DEF TokenInv, Usable
<1>7. PostedIsFresh'
  <2> SUFFICES ASSUME NEW d \in Callers, at'[d] = "post"
               PROVE  \/ row'[d].refresh \in valid \cup mislaid
                      \/ row'[d].refresh \in DOMAIN spent
                         /\ spent[row'[d].refresh] # Process(d)
    BY <1>0 DEF PostedIsFresh, Process
  <2>1. CASE d # c
    BY <2>1, <1>1, <1>2 DEF TokenInv, PostedIsFresh
  <2>2. CASE d = c
    <3>1. ASSUME NEW e \in Callers, Carries(e), row[e].refresh = cred.refresh
          PROVE  cred.refresh \in DOMAIN spent /\ spent[cred.refresh] # Process(c)
      <4>1. e # c /\ at[e] \in Busy /\ at[c] \in Busy
        BY <3>1, <1>0 DEF Carries, Busy
      <4>2. Process(e) # Process(c)
        BY <4>1, Alone
      <4> QED
        BY <3>1, <4>2 DEF TokenInv, CarriedIsGood
    <3> QED
      BY <2>2, <3>1, <1>1 DEF TokenInv, Usable
  <2> QED
    BY <2>1, <2>2
<1> QED
  BY <1>3, <1>5, <1>6, <1>7 DEF TokenInv

\* A trade: the used token is spent, and the caller carries its successor or the
\* used one is mislaid.
LEMMA TradeKeepsTokens ==
  ASSUME LockInv, TokenInv, NEW c \in Callers, at[c] = "post",
         row[c].refresh \in valid, NEW rotated \in BOOLEAN, Trade(c, rotated),
         \/ Goes(c, "write") /\ mislaid' = mislaid
         \/ Goes(c, "error") /\ mislaid' = mislaid \cup {row[c].refresh},
         UNCHANGED <<cred, row>>
  PROVE  TokenInv'
<1> DEFINE used == row[c].refresh
           next == issued + 1
<1>0. /\ issued \in Nat /\ used <= issued /\ used \in Nat
      /\ cred.refresh <= issued /\ cred.refresh \in Nat
  BY DEF TokenInv, TokenShape, Pairs
<1>1. /\ issued' = next
      /\ answer' \in [Callers -> Pairs]
      /\ answer'[c].refresh = IF rotated THEN next ELSE 0
      /\ \A d \in Callers \ {c} : answer'[d] = answer[d]
  BY <1>0 DEF Trade, TokenInv, TokenShape, Pairs
<1>2. /\ valid' = IF rotated THEN (valid \ {used}) \cup {next} ELSE valid
      /\ spent' = IF rotated THEN [t \in DOMAIN spent \cup {used} |->
                                     IF t = used THEN Process(c) ELSE spent[t]]
                  ELSE spent
  BY DEF Trade
<1>3. /\ at'[c] \in {"write", "error"}
      /\ \A d \in Callers \ {c} : at'[d] = at[d]
      /\ at'[c] = "error" => used \in mislaid'
      /\ mislaid \subseteq mislaid'
  BY DEF Goes, LockInv, LockTypes
<1>4. used \notin DOMAIN spent
  BY DEF TokenInv, TokenShape
<1>5. /\ rotated => used \in DOMAIN spent' /\ spent'[used] = Process(c)
      /\ \A t \in DOMAIN spent : t \in DOMAIN spent' /\ spent'[t] = spent[t]
      /\ \A t \in DOMAIN spent' : t \in DOMAIN spent \/ (rotated /\ t = used)
  BY <1>2, <1>4
<1>6. \A d \in Callers \ {c} : Carries(d)' <=> Carries(d)
  BY <1>1, <1>3 DEF Carries
<1>7. \A d \in Callers : row[d].refresh \in Nat /\ answer[d].refresh \in Nat
                         /\ row[d].refresh < next /\ answer[d].refresh < next
  BY <1>0 DEF TokenInv, TokenShape, Pairs
<1>8. CarriedIsGood'
  <2> SUFFICES ASSUME NEW d \in Callers, Carries(d)'
               PROVE  /\ answer'[d].refresh \in valid' /\ answer'[d].refresh # cred.refresh
                      /\ \A e \in Callers : answer'[d].refresh # row[e].refresh
                      /\ \A e \in Callers \ {d} : Carries(e)' =>
                           answer'[d].refresh # answer'[e].refresh
                      /\ row[d].refresh \in DOMAIN spent'
                      /\ spent'[row[d].refresh] = Process(d)
    BY DEF CarriedIsGood, Process
  <2>1. CASE d = c
    <3>1. rotated /\ answer'[c].refresh = next
      BY <2>1, <1>1 DEF Carries
    <3>2. next \in valid' /\ next # cred.refresh
      BY <3>1, <1>0, <1>2
    <3>3. \A e \in Callers : next # row[e].refresh
      BY <1>0, <1>7
    <3>4. \A e \in Callers \ {c} : next # answer'[e].refresh
      BY <1>0, <1>1, <1>7
    <3> QED
      BY <2>1, <3>1, <3>2, <3>3, <3>4, <1>5
  <2>2. CASE d # c
    <3>1. Carries(d) /\ answer'[d] = answer[d]
      BY <2>2, <1>1, <1>6
    <3>2. /\ answer[d].refresh \in valid /\ answer[d].refresh # cred.refresh
          /\ \A e \in Callers : answer[d].refresh # row[e].refresh
          /\ \A e \in Callers \ {d} : Carries(e) => answer[d].refresh # answer[e].refresh
          /\ row[d].refresh \in DOMAIN spent /\ spent[row[d].refresh] = Process(d)
      BY <3>1 DEF TokenInv, CarriedIsGood
    <3>3. answer[d].refresh \in valid'
      BY <3>2, <1>2
    <3>4. ASSUME NEW e \in Callers \ {d}, Carries(e)'
          PROVE  answer[d].refresh # answer'[e].refresh
      <4>1. CASE e = c
        <5>1. answer'[c].refresh = next
          BY <3>4, <4>1, <1>1 DEF Carries
        <5> QED
          BY <4>1, <5>1, <1>0, <1>7
      <4>2. CASE e # c
        BY <4>2, <3>2, <3>4, <1>1, <1>6
      <4> QED
        BY <4>1, <4>2
    <3> QED
      BY <3>1, <3>2, <3>3, <3>4, <1>5
  <2> QED
    BY <2>1, <2>2
<1>9. Usable'
  <2>1. CASE cred.refresh = used /\ rotated
    <3>1. CASE at'[c] = "write"
      <4>1. Carries(c)'
        BY <2>1, <3>1, <1>0, <1>1 DEF Carries
      <4> QED
        BY <2>1, <4>1 DEF Usable
    <3>2. CASE at'[c] = "error"
      BY <2>1, <3>2, <1>3 DEF Usable
    <3> QED
      BY <3>1, <3>2, <1>3
  <2>2. CASE ~rotated \/ cred.refresh # used
    <3>1. ASSUME NEW d \in Callers, Carries(d), row[d].refresh = cred.refresh PROVE Usable'
      <4>1. d # c
        BY <3>1 DEF Carries
      <4>2. Carries(d)'
        BY <4>1, <3>1, <1>6
      <4> QED
        BY <4>2, <3>1 DEF Usable
    <3>2. cred.refresh \in valid => cred.refresh \in valid'
      BY <2>2, <1>2
    <3> QED
      BY <3>1, <3>2, <1>3 DEF TokenInv, Usable
  <2> QED
    BY <2>1, <2>2
<1>10. PostedIsFresh'
  <2> SUFFICES ASSUME NEW d \in Callers, at'[d] = "post"
               PROVE  \/ row[d].refresh \in valid' \cup mislaid'
                      \/ row[d].refresh \in DOMAIN spent'
                         /\ spent'[row[d].refresh] # Process(d)
    BY DEF PostedIsFresh, Process
  <2>1. d # c /\ at[d] = "post"
    BY <1>3
  <2>2. CASE row[d].refresh = used /\ rotated
    <3>1. Process(d) # Process(c)
      BY <2>1, Alone DEF Busy
    <3> QED
      BY <2>2, <3>1, <1>5
  <2>3. CASE row[d].refresh # used \/ ~rotated
    <3>1. row[d].refresh \in valid => row[d].refresh \in valid'
      BY <2>3, <1>2
    <3> QED
      BY <2>1, <3>1, <1>3, <1>5 DEF TokenInv, PostedIsFresh
  <2> QED
    BY <2>2, <2>3
<1>11. TokenShape'
  <2>1. \A t \in DOMAIN spent' : t \notin valid'
    <3> SUFFICES ASSUME NEW t \in DOMAIN spent', t \in valid' PROVE FALSE
      OBVIOUS
    <3>1. CASE t = next /\ rotated
      BY <3>1, <1>0, <1>5 DEF TokenInv, TokenShape
    <3>2. CASE t # next \/ ~rotated
      BY <3>2, <1>2, <1>5 DEF TokenInv, TokenShape
    <3> QED
      BY <3>1, <3>2
  <2>2. \A t \in valid' \cup DOMAIN spent' : t \in Nat /\ t <= issued'
    BY <1>0, <1>1, <1>2, <1>5 DEF TokenInv, TokenShape
  <2>3. \A d \in Callers : row[d].refresh <= issued' /\ answer'[d].refresh <= issued'
    BY <1>0, <1>1, <1>7
  <2> QED
    BY <2>1, <2>2, <2>3, <1>0, <1>1 DEF TokenInv, TokenShape
<1> QED
  BY <1>8, <1>9, <1>10, <1>11 DEF TokenInv

\* Storing what was carried: the row has the new refresh token, or keeps the one
\* it has, which is then in nobody else's hands for being carried here.
LEMMA WriteKeepsTokens ==
  ASSUME LockInv, TokenInv, NEW c \in Callers, Write(c), cred # NoRow
  PROVE  TokenInv'
<1> DEFINE new == answer[c].refresh
<1>0. /\ at[c] = "write" /\ at' = [at EXCEPT ![c] = "cache"] /\ cred' = Updated(c)
      /\ row' = [row EXCEPT ![c] = NoRow] /\ answer' = [answer EXCEPT ![c] = NoRow]
      /\ UNCHANGED <<valid, issued, spent, mislaid>>
  BY DEF Write, Goes
<1>1. /\ row' \in [Callers -> Pairs] /\ answer' \in [Callers -> Pairs]
      /\ row'[c].refresh = 0 /\ answer'[c].refresh = 0
      /\ \A d \in Callers \ {c} : row'[d] = row[d] /\ answer'[d] = answer[d]
  BY <1>0 DEF TokenInv, TokenShape, Pairs, NoRow
<1>2. /\ at'[c] = "cache" /\ \A d \in Callers \ {c} : at'[d] = at[d]
  BY <1>0 DEF LockInv, LockTypes
<1>3. /\ cred' \in Pairs
      /\ cred'.refresh = IF new # 0 THEN new ELSE cred.refresh
  BY <1>0 DEF Updated, TokenInv, TokenShape, Pairs
<1>4. \A d \in Callers : Carries(d)' => d # c /\ Carries(d)
  BY <1>1, <1>2 DEF Carries
<1>5. \A d \in Callers \ {c} : Carries(d) => Carries(d)'
  BY <1>1, <1>2 DEF Carries
<1>6. TokenShape'
  BY <1>0, <1>1, <1>3 DEF TokenInv, TokenShape
<1>7. CarriedIsGood'
  <2> SUFFICES ASSUME NEW d \in Callers, Carries(d)'
               PROVE  /\ answer'[d].refresh \in valid /\ answer'[d].refresh # cred'.refresh
                      /\ \A e \in Callers : answer'[d].refresh # row'[e].refresh
                      /\ \A e \in Callers \ {d} : Carries(e)' =>
                           answer'[d].refresh # answer'[e].refresh
                      /\ row'[d].refresh \in DOMAIN spent
                      /\ spent[row'[d].refresh] = Process(d)
    BY <1>0 DEF CarriedIsGood, Process
  <2>1. d # c /\ Carries(d) /\ answer'[d] = answer[d] /\ row'[d] = row[d]
    BY <1>1, <1>4
  <2>2. answer[d].refresh # 0
    BY <2>1 DEF Carries
  <2>3. answer[d].refresh # cred'.refresh
    <3>1. CASE new # 0
      <4>1. Carries(c)
        BY <3>1, <1>0 DEF Carries
      <4> QED
        BY <4>1, <3>1, <2>1, <1>3 DEF TokenInv, CarriedIsGood
    <3>2. CASE new = 0
      BY <3>2, <2>1, <1>3 DEF TokenInv, CarriedIsGood
    <3> QED
      BY <3>1, <3>2
  <2>4. \A e \in Callers : answer[d].refresh # row'[e].refresh
    BY <2>1, <2>2, <1>1 DEF TokenInv, CarriedIsGood
  <2>5. \A e \in Callers \ {d} : Carries(e)' => answer[d].refresh # answer'[e].refresh
    BY <2>1, <1>1, <1>4 DEF TokenInv, CarriedIsGood
  <2> QED
    BY <2>1, <2>3, <2>4, <2>5 DEF TokenInv, CarriedIsGood
<1>8. Usable'
  <2>1. CASE new # 0
    <3>1. Carries(c)
      BY <2>1, <1>0 DEF Carries
    <3> QED
      BY <2>1, <3>1, <1>0, <1>3 DEF TokenInv, CarriedIsGood, Usable
  <2>2. CASE new = 0
    <3>1. ASSUME NEW d \in Callers, Carries(d), row[d].refresh = cred.refresh PROVE Usable'
      <4>1. d # c
        BY <2>2, <3>1 DEF Carries
      <4>2. Carries(d)' /\ row'[d] = row[d]
        BY <4>1, <3>1, <1>1, <1>5
      <4> QED
        BY <4>2, <3>1, <2>2, <1>3 DEF Usable
    <3> QED
      BY <3>1, <2>2, <1>0, <1>3 DEF TokenInv, Usable
  <2> QED
    BY <2>1, <2>2
<1>9. PostedIsFresh'
  <2> SUFFICES ASSUME NEW d \in Callers, at'[d] = "post"
               PROVE  \/ row'[d].refresh \in valid \cup mislaid
                      \/ row'[d].refresh \in DOMAIN spent
                         /\ spent[row'[d].refresh] # Process(d)
    BY <1>0 DEF PostedIsFresh, Process
  <2>1. d # c /\ at[d] = "post" /\ row'[d] = row[d]
    BY <1>1, <1>2
  <2> QED
    BY <2>1 DEF TokenInv, PostedIsFresh
<1> QED
  BY <1>6, <1>7, <1>8, <1>9 DEF TokenInv

\* A login: the token in the row is one that nobody has seen.
LEMMA LoginKeepsTokens == ASSUME TokenInv, Login PROVE TokenInv'
<1> DEFINE next == issued + 1
<1>0. /\ issued' = next /\ cred' = [access |-> next, refresh |-> next]
      /\ valid' = valid \cup {next} /\ UNCHANGED <<at, row, answer, spent, mislaid>>
      /\ issued \in Nat
  BY DEF Login, TokenInv, TokenShape
<1>1. /\ cred' \in Pairs /\ cred'.refresh = next
      /\ \A c \in Callers : /\ row[c].refresh \in Nat /\ answer[c].refresh \in Nat
                            /\ row[c].refresh < next /\ answer[c].refresh < next
      /\ \A t \in DOMAIN spent : t # next
  BY <1>0 DEF TokenInv, TokenShape, Pairs
<1>2. TokenShape'
  BY <1>0, <1>1 DEF TokenInv, TokenShape
<1>3. CarriedIsGood'
  <2>1. \A c \in Callers : Carries(c)' <=> Carries(c)
    BY <1>0 DEF Carries
  <2> QED
    BY <2>1, <1>0, <1>1 DEF TokenInv, CarriedIsGood, Process
<1>4. Usable'
  BY <1>0, <1>1 DEF Usable
<1>5. PostedIsFresh'
  BY <1>0 DEF TokenInv, PostedIsFresh, Process
<1> QED
  BY <1>2, <1>3, <1>4, <1>5 DEF TokenInv

\* A caller that goes on, or out, without a token in its hands.
LEMMA QuietCaller ==
  ASSUME LockInv, TokenInv, NEW c \in Callers, NEW s, s \notin {"post", "write"}, Goes(c, s),
         UNCHANGED <<cred, valid, issued, spent, mislaid>>,
         at[c] # "write" \/ cred.refresh = 0,
         \/ row' = row \/ row' = [row EXCEPT ![c] = NoRow]
         \/ row' = [row EXCEPT ![c].access = cred.access],
         answer' = answer \/ answer' = [answer EXCEPT ![c] = NoRow]
  PROVE  NothingIsStored
<1>1. /\ row' \in [Callers -> Pairs] /\ row'[c].refresh \in {0, row[c].refresh}
      /\ \A d \in Callers \ {c} : row'[d] = row[d]
  BY DEF TokenInv, TokenShape, Pairs, NoRow
<1>2. /\ answer' \in [Callers -> Pairs] /\ answer'[c].refresh \in {0, answer[c].refresh}
      /\ \A d \in Callers \ {c} : answer'[d] = answer[d]
  BY DEF TokenInv, TokenShape, Pairs, NoRow
<1>3. at'[c] \notin {"post", "write"} /\ \A d \in Callers \ {c} : at'[d] = at[d]
  BY DEF Goes, LockInv, LockTypes
<1> QED
  BY <1>1, <1>2, <1>3 DEF NothingIsStored

\* A restart: what was carried is mislaid.
LEMMA QuietRestart ==
  ASSUME LockInv, TokenInv, NEW p \in Processes, Restart(p) PROVE NothingIsStored
<1>1. /\ at' = [c \in Callers |-> IF Process(c) = p THEN "idle" ELSE at[c]]
      /\ row' = [c \in Callers |-> IF Process(c) = p THEN NoRow ELSE row[c]]
      /\ answer' = [c \in Callers |-> IF Process(c) = p THEN NoRow ELSE answer[c]]
      /\ mislaid' = mislaid \cup {row[c].refresh : c \in {d \in CallersOf(p) : at[d] = "write"}}
      /\ UNCHANGED <<cred, valid, issued, spent>>
  BY DEF Restart
<1>2. row' \in [Callers -> Pairs] /\ answer' \in [Callers -> Pairs]
  BY <1>1 DEF TokenInv, TokenShape, Pairs, NoRow
<1>3. ASSUME NEW d \in Callers
      PROVE  /\ at'[d] \in {"post", "write"} =>
                  at'[d] = at[d] /\ row'[d] = row[d] /\ answer'[d] = answer[d]
             /\ row'[d].refresh \in {0, row[d].refresh}
             /\ answer'[d].refresh \in {0, answer[d].refresh}
             /\ at[d] = "write" => at'[d] = "write" \/ row[d].refresh \in mislaid'
  BY <1>1 DEF NoRow, CallersOf
<1> QED
  BY <1>1, <1>2, <1>3 DEF NothingIsStored

\* So does every other.
LEMMA NextTokenInv ==
  ASSUME LockInv, TokenInv, [ONext]_ovars
  PROVE  TokenInv'
<1>1. CASE /\ UNCHANGED <<valid, issued, spent, mislaid, at, row, answer>>
           /\ cred' = cred \/ cred' = NoRow
  <2>1. NothingIsStored
    BY <1>1 DEF NothingIsStored, TokenInv, TokenShape
  <2> QED
    BY <2>1, QuietSteps
<1>2. ASSUME NEW c \in Callers, Call(c) \/ Fetch(c) \/ Fetched(c) \/ Sleep(c)
      PROVE  TokenInv'
  <2>1. /\ at[c] # "write" /\ UNCHANGED <<cred, valid, issued, spent, mislaid, answer>>
        /\ \/ row' = row \/ row' = [row EXCEPT ![c] = NoRow]
           \/ row' = [row EXCEPT ![c].access = cred.access]
    BY <1>2 DEF Call, Fetch, Fetched, Sleep
  <2>2. \E s \in {"idle", "fetch", "fetched", "enter", "asleep"} : Goes(c, s)
    BY <1>2 DEF Call, Fetch, Fetched, Sleep
  <2>3. NothingIsStored
    BY <2>1, <2>2, QuietCaller
  <2> QED
    BY <2>3, QuietSteps
<1>3. ASSUME NEW c \in Callers, Enter(c) \/ Wake(c) PROVE TokenInv'
  <2>1. /\ at[c] # "write" /\ UNCHANGED <<cred, valid, issued, spent, mislaid, answer>>
        /\ row' = row \/ row' = [row EXCEPT ![c] = NoRow]
    BY <1>3 DEF Enter, AtLock, Wake
  <2>2. \E s \in {"idle", "read", "waiting"} : Goes(c, s)
    BY <1>3 DEF Enter, Wake, Queue
  <2>3. NothingIsStored
    BY <2>1, <2>2, QuietCaller
  <2> QED
    BY <2>3, QuietSteps
<1>4. ASSUME NEW c \in Callers, ReadRow(c) PROVE TokenInv'
  <2>1. CASE cred.refresh # 0
    BY <1>4, <2>1, ReadKeepsTokens
  <2>2. CASE cred.refresh = 0
    <3>1. /\ Goes(c, "idle") /\ UNCHANGED <<cred, valid, issued, spent, mislaid>>
          /\ row' = [row EXCEPT ![c] = NoRow] /\ answer' = [answer EXCEPT ![c] = NoRow]
      BY <1>4, <2>2 DEF ReadRow, Leave
    <3>2. NothingIsStored
      BY <3>1, <2>2, QuietCaller
    <3> QED
      BY <3>2, QuietSteps
  <2> QED
    BY <2>1, <2>2
<1>5. ASSUME NEW c \in Callers, Post(c) PROVE TokenInv'
  <2>0. at[c] = "post" /\ UNCHANGED <<cred, row>>
    BY <1>5 DEF Post
  <2>1. ASSUME NEW rotated \in BOOLEAN, Trade(c, rotated), ~Refused(c),
               \/ Goes(c, "write") /\ mislaid' = mislaid
               \/ Goes(c, "error") /\ mislaid' = mislaid \cup {row[c].refresh}
        PROVE  TokenInv'
    BY <2>0, <2>1, TradeKeepsTokens DEF Refused
  <2>2. CASE Goes(c, "error") /\ UNCHANGED <<valid, issued, answer, spent, mislaid>>
    <3>1. NothingIsStored
      BY <2>0, <2>2, QuietCaller
    <3> QED
      BY <3>1, QuietSteps
  <2> QED
    BY <1>5, <2>1, <2>2 DEF Post
<1>6. ASSUME NEW c \in Callers, SetError(c) \/ SetCache(c) PROVE TokenInv'
  <2>1. /\ at[c] # "write" /\ Goes(c, "idle")
        /\ UNCHANGED <<cred, valid, issued, spent, mislaid>>
        /\ row' = [row EXCEPT ![c] = NoRow] /\ answer' = [answer EXCEPT ![c] = NoRow]
    BY <1>6 DEF SetError, SetCache, Leave
  <2>2. NothingIsStored
    BY <2>1, QuietCaller
  <2> QED
    BY <2>2, QuietSteps
<1>7. ASSUME NEW c \in Callers, Write(c) PROVE TokenInv'
  <2>1. CASE cred # NoRow
    BY <1>7, <2>1, WriteKeepsTokens
  <2>2. CASE cred = NoRow
    <3>1. /\ cred.refresh = 0 /\ Goes(c, "idle")
          /\ UNCHANGED <<cred, valid, issued, spent, mislaid>>
          /\ row' = [row EXCEPT ![c] = NoRow] /\ answer' = [answer EXCEPT ![c] = NoRow]
      BY <1>7, <2>2 DEF Write, Leave, NoRow
    <3>2. NothingIsStored
      BY <3>1, QuietCaller
    <3> QED
      BY <3>2, QuietSteps
  <2> QED
    BY <2>1, <2>2
<1>8. ASSUME NEW p \in Processes, Invalidate(p) \/ CacheExpires(p) PROVE TokenInv'
  BY <1>1, <1>8 DEF Invalidate, CacheExpires
<1>9. ASSUME NEW p \in Processes, Restart(p) PROVE TokenInv'
  BY <1>9, QuietRestart, QuietSteps
<1>10. CASE TokenAges \/ Logout \/ UNCHANGED ovars
  BY <1>1, <1>10 DEF TokenAges, Logout, ovars
<1>11. CASE Login
  BY <1>11, LoginKeepsTokens
<1> QED
  BY <1>2, <1>3, <1>4, <1>5, <1>6, <1>7, <1>8, <1>9, <1>10, <1>11 DEF ONext

\* At the start there are no tokens.
LEMMA InitTokenInv == OInit => TokenInv
<1> SUFFICES ASSUME OInit PROVE TokenInv
  OBVIOUS
<1>1. TokenShape
  BY DEF OInit, TokenShape, Pairs, NoRow
<1>2. CarriedIsGood /\ PostedIsFresh
  BY DEF OInit, CarriedIsGood, PostedIsFresh, Carries
<1>3. Usable
  BY DEF OInit, Usable, NoRow
<1> QED
  BY <1>1, <1>2, <1>3 DEF TokenInv

\* A token about to be refused was spent elsewhere, or for an answer that got lost.
LEMMA RefusedElsewhere ==
  ASSUME TokenInv, NEW c \in Callers, at[c] = "post", Refused(c)
  PROVE  row[c].refresh \in mislaid \/ spent[row[c].refresh] # Process(c)
BY DEF TokenInv, PostedIsFresh, Refused

\* No process presents a token twice, and the row always has a token that works,
\* or its successor is about to be stored or was lost with an answer.
THEOREM NoTokenIsThrownAway == OSpec => TokensAreKept
<1>1. OInit => LockInv /\ TokenInv
  BY InitLockInv, InitTokenInv
<1>2. LockInv /\ TokenInv /\ [ONext]_ovars => LockInv' /\ TokenInv'
  BY NextLockInv, NextTokenInv
<1>3. TokenInv => RowIsUsable
  BY DEF TokenInv, Usable, RowIsUsable, Carries
<1>4. TokenInv /\ [ONext]_ovars => [RefusedWasElsewhere]_ovars
  BY RefusedElsewhere DEF RefusedWasElsewhere
<1>5. TokenInv' => RowIsUsable'
  BY DEF TokenInv, Usable, RowIsUsable, Carries
<1>6. (LockInv /\ TokenInv) /\ [ONext]_ovars => [RowIsUsable' /\ RefusedWasElsewhere]_ovars
  BY <1>2, <1>4, <1>5
<1> QED
  BY <1>1, <1>2, <1>6, PTL DEF OSpec, TokensAreKept

------------------------------------------------------------------------------
(* The types. *)

\* The owner of a lock is a caller of its process.
OwnersAreLocal == \A p \in Processes : lock[p].owner \in CallersOf(p) \cup {"none"}

\* Whoever takes a lock takes that of his process.
LEMMA OwnersStayLocal ==
  ASSUME LockInv, OwnersAreLocal, [ONext]_ovars
  PROVE  OwnersAreLocal'
<1>0. lock \in [Processes -> Locks] /\ \A c \in Callers : Process(c) \in Processes
  BY ProcessesOfCallers DEF LockInv, LockTypes
<1>l. \A c \in Callers : c \in CallersOf(Process(c))
  BY DEF CallersOf
<1>s. SUFFICES \A p \in Processes : lock'[p].owner \in CallersOf(p) \cup {"none"}
  BY DEF OwnersAreLocal, CallersOf, Process
<1>1. CASE Stays
  BY <1>1 DEF Stays, OwnersAreLocal
<1>2. ASSUME NEW c \in Callers, Moves(c) PROVE UNCHANGED lock
  BY <1>2 DEF Moves
<1>3. ASSUME NEW c \in Callers, Queues(c)
      PROVE  \A p \in Processes : lock'[p].owner = lock[p].owner
  BY <1>0, <1>3 DEF Queues, Queue, Locks
<1>4. ASSUME NEW c \in Callers, Takes(c) \/ Wake(c) \/ Leaves(c)
      PROVE  \A p \in Processes :
               \/ lock'[p].owner \in {lock[p].owner, "none"}
               \/ p = Process(c) /\ lock'[p].owner = c
  <2>1. CASE Takes(c)
    BY <1>0, <2>1 DEF Takes, Locks
  <2>2. CASE Wake(c)
    <3> DEFINE rest == Tail(lock[Process(c)].queue)
    <3>1. \/ lock' = [lock EXCEPT ![Process(c)].queue = rest]
          \/ lock' = [lock EXCEPT ![Process(c)].owner = c, ![Process(c)].queue = rest]
      BY <2>2 DEF Wake
    <3> HIDE DEF rest
    <3>2. Process(c) \in Processes
      BY <1>0
    <3>3. CASE lock' = [lock EXCEPT ![Process(c)].queue = rest]
      BY <1>0, <3>2, <3>3 DEF Locks
    <3>4. CASE lock' = [lock EXCEPT ![Process(c)].owner = c, ![Process(c)].queue = rest]
      BY <1>0, <3>2, <3>4 DEF Locks
    <3> QED
      BY <3>1, <3>3, <3>4
  <2>3. CASE Leaves(c)
    BY <1>0, <2>3 DEF Leaves, Leave, Locks
  <2> QED
    BY <1>4, <2>1, <2>2, <2>3
<1>5. ASSUME NEW q \in Processes, Restart(q)
      PROVE  \A p \in Processes : lock'[p].owner \in {lock[p].owner, "none"}
  BY <1>0, <1>5 DEF Restart, FreshLock
<1> QED
  BY <1>l, <1>1, <1>2, <1>3, <1>4, <1>5, StepsOfLocks DEF OwnersAreLocal

\* What is kept of tokens, and what is on its way.
ValueTypes ==
  /\ cred \in TokenPair /\ row \in [Callers -> TokenPair] /\ answer \in [Callers -> TokenPair]
  /\ valid \subseteq Tokens /\ issued \in Tokens /\ aged \in 0..issued
  /\ cache \in [Processes -> BOOLEAN]
  /\ forced \subseteq Callers /\ note \subseteq Processes
  /\ mislaid \subseteq Tokens /\ faults \in 0..MaxFaults

\* Every step keeps the types.
LEMMA NextValueTypes ==
  ASSUME ValueTypes, [ONext]_ovars
  PROVE  ValueTypes'
<1> USE RefreshAssumption DEF RefreshAssumption
<1>0. /\ cred \in TokenPair /\ row \in [Callers -> TokenPair]
      /\ answer \in [Callers -> TokenPair]
      /\ valid \subseteq Tokens /\ issued \in Tokens /\ aged \in 0..issued
      /\ cache \in [Processes -> BOOLEAN]
      /\ forced \subseteq Callers /\ note \subseteq Processes
      /\ mislaid \subseteq Tokens /\ faults \in 0..MaxFaults
  BY DEF ValueTypes
<1>n. NoRow \in TokenPair
  BY DEF NoRow, TokenPair, Tokens
<1>p. \A c \in Callers : Process(c) \in Processes
  BY ProcessesOfCallers
<1>f. Fault => faults' \in 0..MaxFaults
  BY <1>0 DEF Fault
<1>m. Notified => note' \subseteq Processes
  BY <1>0 DEF Notified, Processes
<1>l. ASSUME NEW c \in Callers, Leave(c)
      PROVE  row' \in [Callers -> TokenPair] /\ answer' \in [Callers -> TokenPair]
  BY <1>0, <1>n, <1>l DEF Leave
<1>1. ASSUME NEW c \in Callers, Call(c) \/ Sleep(c) \/ Wake(c) PROVE ValueTypes'
  BY <1>0, <1>1 DEF Call, Sleep, Wake, ValueTypes, TokenPair
<1>2. ASSUME NEW c \in Callers, Fetch(c) PROVE ValueTypes'
  <2>1. row[c] \in TokenPair /\ row' = [row EXCEPT ![c].access = cred.access]
    BY <1>0, <1>2 DEF Fetch
  <2>2. [row[c] EXCEPT !.access = cred.access] \in TokenPair
    BY <1>0, <2>1 DEF TokenPair
  <2>3. row' \in [Callers -> TokenPair]
    BY <1>0, <2>1, <2>2
  <2> QED
    BY <1>0, <1>2, <2>3 DEF Fetch, ValueTypes, TokenPair
<1>3. ASSUME NEW c \in Callers, Fetched(c) PROVE ValueTypes'
  <2>1. row' \in [Callers -> TokenPair]
    BY <1>0, <1>n, <1>3 DEF Fetched
  <2>2. cache' \in [Processes -> BOOLEAN]
    BY <1>0, <1>p, <1>3 DEF Fetched
  <2> QED
    BY <1>0, <1>3, <2>1, <2>2 DEF Fetched, ValueTypes, TokenPair
<1>4. ASSUME NEW c \in Callers, Enter(c) PROVE ValueTypes'
  <2>1. row' \in [Callers -> TokenPair] /\ forced' \subseteq Callers
    BY <1>0, <1>n, <1>4 DEF Enter
  <2> QED
    BY <1>0, <1>4, <2>1 DEF Enter, ValueTypes, TokenPair
<1>5. ASSUME NEW c \in Callers, ReadRow(c) PROVE ValueTypes'
  <2>1. row' \in [Callers -> TokenPair] /\ answer' \in [Callers -> TokenPair]
    <3>1. CASE cred.refresh = 0
      BY <1>5, <1>l, <3>1 DEF ReadRow
    <3>2. CASE cred.refresh # 0
      <4>1. row' = [row EXCEPT ![c].refresh = cred.refresh] /\ answer' = answer
        BY <1>5, <3>2 DEF ReadRow
      <4>2. row[c] \in TokenPair
        BY <1>0
      <4>3. [row[c] EXCEPT !.refresh = cred.refresh] \in TokenPair
        BY <1>0, <4>2 DEF TokenPair
      <4> QED
        BY <1>0, <4>1, <4>3
    <3> QED
      BY <3>1, <3>2
  <2> QED
    BY <1>0, <1>5, <2>1 DEF ReadRow, ValueTypes, TokenPair
<1>6. ASSUME NEW c \in Callers, Post(c) PROVE ValueTypes'
  <2>t. ASSUME NEW rotated \in BOOLEAN, Trade(c, rotated)
        PROVE  /\ issued' \in Tokens /\ aged \in 0..issued' /\ valid' \subseteq Tokens
               /\ answer' \in [Callers -> TokenPair]
    <3>1. issued' = issued + 1 /\ issued' \in Tokens /\ aged \in 0..issued' /\ 0 \in Tokens
      BY <1>0, <2>t DEF Trade, Tokens
    <3>2. valid' \subseteq Tokens
      BY <1>0, <2>t, <3>1 DEF Trade
    <3> DEFINE new == [access |-> issued + 1, refresh |-> IF rotated THEN issued + 1 ELSE 0]
    <3>3. new \in TokenPair
      BY <3>1 DEF TokenPair
    <3>4. answer' = [answer EXCEPT ![c] = new]
      BY <2>t DEF Trade
    <3> QED
      BY <1>0, <3>1, <3>2, <3>3, <3>4
  <2>1. /\ issued' \in Tokens /\ aged \in 0..issued' /\ valid' \subseteq Tokens
        /\ answer' \in [Callers -> TokenPair]
    <3>1. CASE \E rotated \in BOOLEAN : Trade(c, rotated)
      BY <2>t, <3>1
    <3>2. CASE UNCHANGED <<valid, issued, answer>>
      BY <1>0, <3>2
    <3> QED
      BY <1>6, <3>1, <3>2 DEF Post
  <2>2. mislaid' \subseteq Tokens /\ faults' \in 0..MaxFaults
    <3>1. row[c].refresh \in Tokens
      BY <1>0 DEF TokenPair
    <3> QED
      BY <1>0, <1>6, <1>f, <3>1 DEF Post
  <2>3. UNCHANGED <<cred, aged, cache, forced, row, note>>
    BY <1>6 DEF Post
  <2> QED
    BY <1>0, <2>1, <2>2, <2>3 DEF ValueTypes, TokenPair
<1>7. ASSUME NEW c \in Callers, SetError(c) PROVE ValueTypes'
  <2>1. note' \subseteq Processes
    BY <1>0, <1>7, <1>m DEF SetError
  <2>2. row' \in [Callers -> TokenPair] /\ answer' \in [Callers -> TokenPair]
    BY <1>7, <1>l DEF SetError
  <2> QED
    BY <1>0, <1>7, <2>1, <2>2 DEF SetError, ValueTypes, TokenPair
<1>8. ASSUME NEW c \in Callers, Write(c) PROVE ValueTypes'
  <2>1. CASE cred = NoRow
    <3>1. row' \in [Callers -> TokenPair] /\ answer' \in [Callers -> TokenPair]
      BY <1>8, <1>l, <2>1 DEF Write
    <3> QED
      BY <1>0, <1>8, <2>1, <3>1 DEF Write, ValueTypes, TokenPair
  <2>2. CASE cred # NoRow
    <3>1. row' \in [Callers -> TokenPair] /\ answer' \in [Callers -> TokenPair]
      BY <1>0, <1>n, <1>8, <2>2 DEF Write
    <3>2. answer[c] \in TokenPair
      BY <1>0
    <3>3. cred' \in TokenPair
      BY <1>0, <1>8, <2>2, <3>2 DEF Write, Updated, TokenPair
    <3>4. note' \subseteq Processes
      BY <1>8, <1>m, <2>2 DEF Write
    <3> QED
      BY <1>0, <1>8, <3>1, <3>3, <3>4 DEF Write, ValueTypes, TokenPair
  <2> QED
    BY <2>1, <2>2
<1>9. ASSUME NEW c \in Callers, SetCache(c) PROVE ValueTypes'
  <2>1. cache' \in [Processes -> BOOLEAN]
    BY <1>0, <1>p, <1>9 DEF SetCache
  <2>2. row' \in [Callers -> TokenPair] /\ answer' \in [Callers -> TokenPair]
    BY <1>9, <1>l DEF SetCache
  <2> QED
    BY <1>0, <1>9, <2>1, <2>2 DEF SetCache, ValueTypes, TokenPair
<1>10. ASSUME NEW p \in Processes, Invalidate(p) \/ CacheExpires(p) PROVE ValueTypes'
  <2>1. cache' \in [Processes -> BOOLEAN]
    BY <1>0, <1>10 DEF Invalidate, CacheExpires
  <2>2. note' \subseteq Processes /\ faults' \in 0..MaxFaults
    BY <1>0, <1>f, <1>10 DEF Invalidate, CacheExpires
  <2>3. UNCHANGED <<cred, valid, aged, issued, forced, row, answer, mislaid>>
    BY <1>10 DEF Invalidate, CacheExpires
  <2> QED
    BY <1>0, <2>1, <2>2, <2>3 DEF ValueTypes, TokenPair
<1>11. ASSUME NEW p \in Processes, Restart(p) PROVE ValueTypes'
  <2>1. row' \in [Callers -> TokenPair] /\ answer' \in [Callers -> TokenPair]
    BY <1>0, <1>n, <1>11 DEF Restart
  <2>2. cache' \in [Processes -> BOOLEAN] /\ faults' \in 0..MaxFaults
    BY <1>0, <1>f, <1>11 DEF Restart
  <2>3. \A c \in Callers : row[c].refresh \in Tokens
    BY <1>0 DEF TokenPair
  <2>4. mislaid' \subseteq Tokens
    BY <1>0, <1>11, <2>3 DEF Restart, CallersOf
  <2>5. /\ forced' \subseteq Callers /\ note' \subseteq Processes
        /\ UNCHANGED <<cred, valid, aged, issued>>
    BY <1>0, <1>11 DEF Restart
  <2> QED
    BY <1>0, <2>1, <2>2, <2>4, <2>5 DEF ValueTypes, TokenPair
<1>12. CASE TokenAges
  <2>1. aged' \in 0..issued
    BY <1>0, <1>12 DEF TokenAges, Tokens
  <2> QED
    BY <1>0, <1>12, <2>1 DEF TokenAges, ValueTypes, TokenPair
<1>13. CASE Login
  <2>1. issued' = issued + 1 /\ issued' \in Tokens /\ aged \in 0..issued'
    BY <1>0, <1>13 DEF Login, Tokens
  <2>2. valid' \subseteq Tokens /\ cred' \in TokenPair
    BY <1>0, <1>13, <2>1 DEF Login, TokenPair
  <2>3. note' \subseteq Processes
    BY <1>13, <1>m DEF Login
  <2> QED
    BY <1>0, <1>13, <2>1, <2>2, <2>3 DEF Login, ValueTypes, TokenPair
<1>14. CASE Logout
  <2>1. note' \subseteq Processes /\ faults' \in 0..MaxFaults
    BY <1>14, <1>m, <1>f DEF Logout
  <2> QED
    BY <1>0, <1>n, <1>14, <2>1 DEF Logout, ValueTypes, TokenPair
<1>15. CASE UNCHANGED ovars
  BY <1>0, <1>15 DEF ovars, ValueTypes, TokenPair
<1> QED
  BY <1>1, <1>2, <1>3, <1>4, <1>5, <1>6, <1>7, <1>8, <1>9, <1>10, <1>11, <1>12, <1>13,
     <1>14, <1>15 DEF ONext

\* The row, the caches and the locks of both processes stay within their types.
THEOREM RefreshTypes == OSpec => []OTypeOK
<1>1. OInit => LockInv /\ OwnersAreLocal /\ ValueTypes
  <2> SUFFICES ASSUME OInit PROVE OwnersAreLocal /\ ValueTypes
    BY InitLockInv
  <2>1. OwnersAreLocal
    BY DEF OInit, OwnersAreLocal, FreshLock
  <2>2. NoRow \in TokenPair /\ 0 \in Tokens /\ 0 \in 0..MaxFaults /\ 0 \in 0..0
    BY RefreshAssumption DEF RefreshAssumption, NoRow, TokenPair, Tokens
  <2>3. cache \in [Processes -> BOOLEAN]
    BY DEF OInit
  <2>4. row \in [Callers -> TokenPair] /\ answer \in [Callers -> TokenPair]
    BY <2>2 DEF OInit
  <2> QED
    BY <2>1, <2>2, <2>3, <2>4 DEF OInit, ValueTypes
<1>2. /\ LockInv /\ OwnersAreLocal /\ ValueTypes /\ [ONext]_ovars
      => LockInv' /\ OwnersAreLocal' /\ ValueTypes'
  BY NextLockInv, OwnersStayLocal, NextValueTypes
<1>3. LockInv /\ OwnersAreLocal /\ ValueTypes => OTypeOK
  BY DEF LockInv, LockTypes, OwnersAreLocal, ValueTypes, OTypeOK
<1> QED
  BY <1>1, <1>2, <1>3, PTL DEF OSpec
=============================================================================
