-------------------------- MODULE JmapRuntimeProofs --------------------------
(***************************************************************************)
(* Proofs about JmapRuntime, for any number of mails, tasks, slots, faults *)
(* and PATCH requests: no mail is passed over, and without a PATCH none is *)
(* processed twice in 24 hours.                                            *)
(***************************************************************************)
EXTENDS JmapRuntime, EventDispatchProofs

\* What the source does with the dispatch part.
Idles == UNCHANGED dispatchVars /\ (UNCHANGED faults \/ Fault)

Moves(t) == TaskMoves(t) /\ (UNCHANGED faults \/ Fault) /\ UNCHANGED sourceVars

LEMMA Steps ==
  ASSUME [Next]_vars
  PROVE  \/ Idles /\ UNCHANGED <<poller, since, new_state, batch, saved, page, skipped>>
              /\ patches' = patches
              /\ \/ UNCHANGED <<arrived, destroyed>>
                 \/ Arrive \/ \E m \in Mails : Destroy(m)
         \/ Idles /\ (LoadPage \/ PatchConfig)
         \/ Idles /\ (Start \/ DiscoverSession \/ SeedState \/ PollChanges \/ FetchEmails)
         \/ Idles /\ (Reseed \/ RequestFails)
         \/ HandOut
         \/ Exit
         \/ \E t \in Tasks : Moves(t)
         \/ DayPasses /\ UNCHANGED sourceVars
<1>1. ASSUME NEW t \in Tasks, Dispatch(t) \/ (CallFails(t) /\ UNCHANGED sourceVars)
      PROVE  Moves(t)
  BY <1>1 DEF Dispatch, Moves, TaskStep, TaskMoves, CallFails
<1>2. CASE UNCHANGED vars
  BY <1>2 DEF vars, sourceVars, pollVars, configVars, serverVars, Idles
<1>3. CASE Arrive \/ \E m \in Mails : Destroy(m)
  BY <1>3 DEF Arrive, Destroy, pollVars, configVars, Idles
<1>4. CASE LoadPage \/ PatchConfig
  BY <1>4 DEF LoadPage, PatchConfig, Idles
<1>5. CASE Poll
  BY <1>5 DEF Poll, Start, DiscoverSession, SeedState, PollChanges, FetchEmails, Idles
<1>6. CASE Reseed \/ RequestFails
  BY <1>6 DEF Reseed, RequestFails, Idles
<1> QED  BY <1>1, <1>2, <1>3, <1>4, <1>5, <1>6 DEF Next

\* Every step is one of the dispatch part.
LEMMA StepsDispatch ==
  ASSUME TypeOK, [Next]_vars
  PROVE  DispatchMoves /\ faults' \in Nat
<1>1. faults \in Nat /\ (UNCHANGED faults \/ Fault => faults' \in Nat)
  BY DEF TypeOK, DispatchTypeOK, Fault
<1>2. CASE Idles
  BY <1>1, <1>2 DEF Idles, DispatchMoves
<1>3. CASE HandOut
  <2>1. batch \in SUBSET Events /\ CreateTasks(batch)
    BY <1>3, JmapAssumption DEF HandOut, TypeOK
  <2> QED  BY <1>1, <1>3, <2>1 DEF HandOut, DispatchMoves
<1>4. CASE Exit
  BY <1>1, <1>4 DEF Exit, DispatchMoves
<1>5. ASSUME NEW t \in Tasks, Moves(t)
      PROVE  DispatchMoves /\ faults' \in Nat
  BY <1>1, <1>5 DEF Moves, DispatchMoves
<1>6. CASE DayPasses
  BY <1>1, <1>6 DEF DispatchMoves, DayPasses
<1> QED  BY <1>2, <1>3, <1>4, <1>5, <1>6, Steps

SourceTypeOK ==
  /\ arrived \in Token
  /\ destroyed \subseteq Mails
  /\ saved \in Token \union {None} /\ page \in Token \union {None}
  /\ patches \in Nat
  /\ poller \in PollerPc
  /\ since \in Token /\ new_state \in Token
  /\ batch \subseteq Mails
  /\ skipped \subseteq Mails

LEMMA SourceTypes == TypeOK <=> DispatchTypeOK /\ SourceTypeOK
BY DEF TypeOK, SourceTypeOK

\* A delta ends between the token and what has arrived.
LEMMA DeltaEnds ==
  ASSUME SourceTypeOK
  PROVE  /\ DeltaEnd \in Token
         /\ DeltaEnd <= arrived
         /\ since <= arrived => since <= DeltaEnd
BY JmapAssumption DEF SourceTypeOK, DeltaEnd, Token

LEMMA SourceTypesKept ==
  ASSUME TypeOK, [Next]_vars
  PROVE  SourceTypeOK'
<1>0. SourceTypeOK /\ MaxMails \in Nat
  BY SourceTypes, JmapAssumption
<1>1. CASE Arrive
  BY <1>0, <1>1 DEF Arrive, configVars, pollVars, SourceTypeOK, Token
<1>2. ASSUME NEW m \in Mails, Destroy(m)
      PROVE  SourceTypeOK'
  BY <1>0, <1>2 DEF Destroy, configVars, pollVars, SourceTypeOK, Token
<1>3. CASE LoadPage \/ PatchConfig
  BY <1>0, <1>3 DEF LoadPage, PatchConfig, serverVars, pollVars, SourceTypeOK
<1>4. CASE Start \/ DiscoverSession \/ FetchEmails
  BY <1>0, <1>4 DEF Start, DiscoverSession, FetchEmails, serverVars, configVars, SourceTypeOK,
     PollerPc
<1>5. CASE SeedState
  <2>1. 1..arrived \subseteq Mails
    BY <1>0 DEF SourceTypeOK, Token, Mails
  <2> QED  BY <1>0, <1>5, <2>1 DEF SeedState, serverVars, SourceTypeOK, PollerPc
<1>6. CASE PollChanges
  <2>1. DeltaEnd \in Token /\ since + 1 .. DeltaEnd \subseteq Mails
    BY <1>0, DeltaEnds DEF SourceTypeOK, Token, Mails
  <2> QED  BY <1>0, <1>6, <2>1 DEF PollChanges, serverVars, configVars, SourceTypeOK, PollerPc
<1>7. CASE Reseed
  <2>1. PICK token \in {since, arrived} :
           new_state' = token /\ skipped' = skipped \union since + 1 .. token
    BY <1>7 DEF Reseed
  <2>2. token \in Token /\ since + 1 .. token \subseteq Mails
    BY <1>0, <2>1 DEF SourceTypeOK, Token, Mails
  <2> QED  BY <1>0, <1>7, <2>1, <2>2 DEF Reseed, serverVars, configVars, SourceTypeOK, PollerPc
<1>8. CASE HandOut
  BY <1>0, <1>8 DEF HandOut, serverVars, SourceTypeOK, PollerPc
<1>9. CASE RequestFails \/ Exit
  BY <1>0, <1>9 DEF RequestFails, Exit, ForgetLocals, serverVars, configVars, SourceTypeOK,
     PollerPc, Token
<1>10. CASE UNCHANGED sourceVars
  BY <1>0, <1>10 DEF sourceVars, serverVars, configVars, pollVars, SourceTypeOK
<1>11. ASSUME NEW t \in Tasks, Dispatch(t)
       PROVE  SourceTypeOK'
  BY <1>10, <1>11 DEF Dispatch
<1> QED
  BY <1>1, <1>2, <1>3, <1>4, <1>5, <1>6, <1>7, <1>8, <1>9, <1>10, <1>11 DEF Next, Poll, vars

TypesInv == TypeOK /\ RunInv

LEMMA TypesInvKept ==
  ASSUME TypesInv, [Next]_vars
  PROVE  TypesInv' /\ DispatchMoves /\ faults' \in Nat
<1>1. DispatchMoves /\ faults' \in Nat /\ RunInv
  BY StepsDispatch DEF TypesInv
<1>2. RunInv'
  BY <1>1, RunInvKept
<1>3. SourceTypeOK'
  BY SourceTypesKept DEF TypesInv
<1>4. TypeOK'
  BY <1>2, <1>3 DEF TypeOK, SourceTypeOK, RunInv
<1> QED  BY <1>1, <1>2, <1>4 DEF TypesInv

LEMMA InitTypes == Init => TypesInv
<1> SUFFICES ASSUME Init
             PROVE  TypesInv
  OBVIOUS
<1>1. rows = <<>> /\ rows \in Seq(Row) /\ Len(rows) = 0
  <2>1. rows = <<>>
    BY DEF Init, DispatchInit
  <2> QED  BY <2>1, EmptySeq
<1>2. DispatchTypeOK
  <2>1. old \in 0..Len(rows) /\ run \in [Tasks -> 0..Len(rows)]
    BY <1>1 DEF Init, DispatchInit
  <2> QED  BY <1>1, <2>1 DEF Init, DispatchInit, DispatchTypeOK, TaskPc
<1>3. SourceTypeOK
  BY JmapAssumption DEF Init, SourceTypeOK, Token, PollerPc
<1>4. RunInv
  BY <1>1, <1>2 DEF Init, DispatchInit, RunInv, RunsAreOwn, RowsMatch
<1> QED  BY <1>2, <1>3, <1>4, SourceTypes DEF TypesInv

\* The variables of the runtime, of its source and of the mailbox keep their types.
THEOREM Types == Spec => []TypeOK
<1>1. TypesInv /\ [Next]_vars => TypesInv'
  BY TypesInvKept
<1>2. TypesInv => TypeOK
  BY DEF TypesInv
<1> QED  BY InitTypes, <1>1, <1>2, PTL DEF Spec

------------------------------------------------------------------------------
(* No mail is passed over. *)

\* A mail is accounted for when the runtime knows of it, or nobody asks it to.
Fine(m) == Known(m) \/ m \in skipped \/ m \in destroyed

\* All mails below every token that may be used again are accounted for; between
\* the token a delta was asked for and the one it ends at, they may also be in the
\* batch.
MailInv ==
  /\ saved # None => \A m \in 1..saved : Fine(m)
  /\ page # None => \A m \in 1..page : Fine(m)
  /\ poller \in {"poll", "fetch", "hand_out"} => \A m \in 1..since : Fine(m)
  /\ poller \in {"fetch", "hand_out"} => \A m \in 1..new_state : m \in batch \/ Fine(m)

LEMMA FineStays ==
  ASSUME TypesInv, [Next]_vars, NEW m, Fine(m)
  PROVE  Fine(m)'
<1>1. Known(m) => Known(m)'
  BY TypesInvKept, KnownKept DEF TypesInv
<1>2. skipped \subseteq skipped' /\ destroyed \subseteq destroyed'
  BY DEF Next, vars, sourceVars, serverVars, configVars, pollVars, Arrive, Destroy, LoadPage,
     PatchConfig, Poll, Start, DiscoverSession, SeedState, PollChanges, FetchEmails, HandOut,
     Reseed, RequestFails, Exit, Dispatch
<1> QED  BY <1>1, <1>2 DEF Fine

LEMMA MailInvKept ==
  ASSUME TypesInv, MailInv, [Next]_vars
  PROVE  MailInv'
<1>0. /\ \A m : Fine(m) => Fine(m)'
      /\ SourceTypeOK /\ DispatchTypeOK /\ MaxMails \in Nat /\ None \notin Token
  BY FineStays, SourceTypes, JmapAssumption DEF TypesInv, Token
<1>1. CASE UNCHANGED <<poller, since, new_state, batch, saved, page>>
  BY <1>0, <1>1 DEF MailInv
<1>2. CASE LoadPage \/ PatchConfig
  BY <1>0, <1>2 DEF LoadPage, PatchConfig, pollVars, MailInv
<1>3. CASE Start \/ DiscoverSession
  BY <1>0, <1>3 DEF Start, DiscoverSession, configVars, MailInv
<1>4. CASE SeedState
  <2>1. \A m \in 1..arrived : Fine(m)'
    BY <1>4 DEF SeedState, Fine
  <2>2. saved' = arrived /\ since' = arrived /\ page' = page /\ poller' = "poll"
    BY <1>4 DEF SeedState
  <2> QED  BY <1>0, <2>1, <2>2 DEF MailInv
<1>5. CASE PollChanges
  <2>1. /\ saved' = saved /\ page' = page /\ since' = since /\ new_state' = DeltaEnd
        /\ batch' = (since + 1 .. DeltaEnd) \ destroyed /\ destroyed' = destroyed
        /\ poller = "poll" /\ poller' \in {"fetch", "hand_out"}
    BY <1>5 DEF PollChanges, configVars, serverVars
  <2>2. ASSUME NEW m \in 1..DeltaEnd
        PROVE  m \in batch' \/ Fine(m)'
    <3>1. m \in 1..since \/ m \in since + 1 .. DeltaEnd
      BY <1>0, DeltaEnds DEF SourceTypeOK, Token
    <3>2. m \in destroyed => Fine(m)
      BY DEF Fine
    <3> QED  BY <1>0, <2>1, <3>1, <3>2 DEF MailInv
  <2> QED  BY <1>0, <2>1, <2>2 DEF MailInv
<1>6. CASE Reseed
  <2>1. PICK token \in {since, arrived} :
           new_state' = token /\ skipped' = skipped \union since + 1 .. token
    BY <1>6 DEF Reseed
  <2>2. /\ saved' = saved /\ page' = page /\ since' = since
        /\ poller = "poll" /\ poller' = "hand_out"
    BY <1>6 DEF Reseed, configVars
  <2>3. ASSUME NEW m \in 1..token
        PROVE  Fine(m)'
    <3>1. m \in 1..since \/ m \in since + 1 .. token
      BY <1>0, <2>1 DEF SourceTypeOK, Token
    <3>2. m \in since + 1 .. token => Fine(m)'
      BY <2>1 DEF Fine
    <3> QED  BY <1>0, <2>2, <3>1, <3>2 DEF MailInv
  <2> QED  BY <1>0, <2>1, <2>2, <2>3 DEF MailInv
<1>7. CASE FetchEmails
  <2>1. /\ saved' = saved /\ page' = page /\ since' = since /\ new_state' = new_state
        /\ batch' = batch \ destroyed /\ poller = "fetch" /\ poller' = "hand_out"
    BY <1>7 DEF FetchEmails, configVars
  <2>2. \A m : m \in destroyed => Fine(m)
    BY DEF Fine
  <2> QED  BY <1>0, <2>1, <2>2 DEF MailInv
<1>8. CASE HandOut
  <2>1. /\ poller = "hand_out" /\ page' = page /\ CreateTasks(batch)
        /\ \/ saved' = new_state /\ since' = new_state /\ poller' = "poll"
           \/ saved' = saved /\ since' = since /\ poller' = "dead"
    BY <1>8 DEF HandOut
  <2>2. batch \in SUBSET Events
    BY <1>0, JmapAssumption DEF SourceTypeOK
  <2>3. PICK N \in SUBSET Tasks :
           /\ \A t \in N : pc'[t] = "waiting"
           /\ \A e \in batch : \E t \in N : ev'[t] = e
    BY <1>0, <2>1, <2>2, Created
  <2>4. ASSUME NEW m \in batch
        PROVE  Fine(m)'
    <3>1. PICK t \in N : ev'[t] = m
      BY <2>3
    <3> QED  BY <2>3, <3>1 DEF Fine, Known
  <2>5. \A m \in 1..new_state : Fine(m)'
    BY <1>0, <2>1, <2>4 DEF MailInv
  <2> QED  BY <1>0, <2>1, <2>5 DEF MailInv
<1>9. CASE RequestFails \/ Exit
  BY <1>0, <1>9 DEF RequestFails, Exit, configVars, MailInv
<1>10. CASE (\E t \in Tasks : Moves(t)) \/ (DayPasses /\ UNCHANGED sourceVars)
  BY <1>1, <1>10 DEF Moves, sourceVars, pollVars, configVars
<1> QED  BY <1>1, <1>2, <1>3, <1>4, <1>5, <1>6, <1>7, <1>8, <1>9, <1>10, Steps

\* The persisted token never runs ahead of the mails: not with crashes, failing
\* hand-outs, server errors or tokens put back by a PATCH.
THEOREM NoMailLost == Spec => []NoMailIsPassedOver
<1>1. Init => MailInv
  BY DEF Init, MailInv
<1>2. TypesInv /\ MailInv /\ [Next]_vars => (TypesInv /\ MailInv)'
  BY TypesInvKept, MailInvKept
<1>3. MailInv => NoMailIsPassedOver
  BY DEF MailInv, NoMailIsPassedOver, Fine, Known, Active
<1> QED  BY InitTypes, <1>1, <1>2, <1>3, PTL DEF Spec

------------------------------------------------------------------------------
(* Once in 24 hours. *)

\* Tasks are about different mails, all below the persisted token unless the stream
\* is dead, and a delta only holds mails above it.
Apart ==
  /\ \A s, t \in Tasks : pc[s] # "idle" /\ pc[t] # "idle" /\ ev[s] = ev[t] => s = t
  /\ poller = "down" => \A t \in Tasks : pc[t] = "idle"
  /\ poller # "dead" =>
       \A t \in Tasks : pc[t] # "idle" => saved # None /\ ev[t] <= saved
  /\ saved # None => saved <= arrived
  /\ poller \in {"poll", "fetch", "hand_out"} => saved # None /\ since = saved
  /\ poller \in {"fetch", "hand_out"} =>
       /\ since <= new_state /\ new_state <= arrived
       /\ batch \subseteq since + 1 .. new_state

LEMMA ApartKept ==
  ASSUME TypesInv, Apart, [Next]_vars, patches' = 0
  PROVE  Apart'
<1>0. /\ SourceTypeOK /\ SourceTypeOK' /\ DispatchTypeOK /\ MaxMails \in Nat
      /\ None \notin Token /\ Events = 1..MaxMails
  BY TypesInvKept, SourceTypes, SourceTypesKept, JmapAssumption DEF TypesInv, Token, Mails
<1>1. CASE UNCHANGED <<pc, ev, poller, since, new_state, batch, saved>> /\ arrived' >= arrived
  BY <1>0, <1>1 DEF Apart, SourceTypeOK, Token
<1>2. CASE Arrive
  <2>1. arrived' >= arrived
    BY <1>0, <1>2 DEF Arrive, SourceTypeOK, Token
  <2> QED  BY <1>1, <1>2, <2>1 DEF Arrive, dispatchVars, configVars, pollVars
<1>3. ASSUME NEW m \in Mails, Destroy(m)
      PROVE  Apart'
  BY <1>0, <1>1, <1>3 DEF Destroy, dispatchVars, configVars, pollVars, SourceTypeOK, Token
<1>4. CASE LoadPage
  BY <1>0, <1>1, <1>4 DEF LoadPage, dispatchVars, serverVars, pollVars, SourceTypeOK, Token
<1>5. CASE PatchConfig
  BY <1>0, <1>5 DEF PatchConfig, SourceTypeOK
<1>6. CASE Start \/ DiscoverSession
  BY <1>0, <1>6 DEF Start, DiscoverSession, dispatchVars, configVars, serverVars, Apart
<1>17. CASE SeedState
  <2>1. /\ poller = "seed" /\ poller' = "poll" /\ saved' = arrived /\ since' = arrived
        /\ arrived' = arrived /\ pc' = pc /\ ev' = ev
    BY <1>17 DEF SeedState, dispatchVars, serverVars
  <2>2. CASE saved = None
    <3>1. \A t \in Tasks : pc[t] = "idle"
      BY <2>1, <2>2 DEF Apart
    <3>2. arrived # None /\ arrived <= arrived
      BY <1>0 DEF SourceTypeOK, Token
    <3> QED  BY <2>1, <3>1, <3>2 DEF Apart
  <2>3. CASE saved # None
    <3>1. \A t \in Tasks : pc[t] # "idle" => ev[t] <= saved /\ ev[t] \in Nat
      BY <1>0, <2>1, <2>3 DEF Apart, DispatchTypeOK
    <3>2. saved \in Nat /\ arrived \in Nat /\ saved <= arrived /\ arrived # None
      BY <1>0, <2>3 DEF Apart, SourceTypeOK, Token
    <3>3. \A t \in Tasks : pc[t] # "idle" => ev[t] <= arrived
      BY <3>1, <3>2
    <3> QED  BY <2>1, <3>2, <3>3 DEF Apart
  <2> QED  BY <2>2, <2>3
<1>7. CASE PollChanges
  BY <1>0, <1>7, DeltaEnds DEF PollChanges, dispatchVars, configVars, serverVars,
     Apart, SourceTypeOK, Token
<1>8. CASE Reseed
  BY <1>0, <1>8 DEF Reseed, dispatchVars, configVars, serverVars, Apart, SourceTypeOK, Token
<1>9. CASE FetchEmails
  BY <1>0, <1>9 DEF FetchEmails, dispatchVars, configVars, serverVars, Apart, SourceTypeOK, Token
<1>10. CASE HandOut
  <2>1. /\ poller = "hand_out" /\ CreateTasks(batch) /\ arrived' = arrived /\ batch' = {}
        /\ \/ saved' = new_state /\ since' = new_state /\ poller' = "poll"
           \/ saved' = saved /\ since' = since /\ poller' = "dead"
    BY <1>10 DEF HandOut, serverVars
  <2>2. batch \in SUBSET Events
    BY <1>0, JmapAssumption DEF SourceTypeOK
  <2>3. PICK N \in SUBSET Tasks :
           /\ \A t \in N : pc[t] = "idle" /\ pc'[t] = "waiting" /\ ev'[t] \in batch
           /\ \A t \in Tasks \ N : pc'[t] = pc[t] /\ ev'[t] = ev[t]
           /\ \A s, t \in N : ev'[s] = ev'[t] => s = t
    BY <1>0, <2>1, <2>2, Created
  <2>4. \A t \in Tasks : pc[t] # "idle" => ev[t] \in 1..saved /\ ev[t] \notin batch
    BY <1>0, <2>1 DEF Apart, DispatchTypeOK, SourceTypeOK, Token
  <2>5. \A s, t \in Tasks : pc'[s] # "idle" /\ pc'[t] # "idle" /\ ev'[s] = ev'[t] => s = t
    BY <2>3, <2>4 DEF Apart
  <2>6. \A e \in batch : e <= new_state
    BY <1>0, <2>1 DEF Apart, SourceTypeOK, Token
  <2>7. saved <= new_state /\ saved \in Nat /\ new_state \in Nat /\ new_state <= arrived
    BY <1>0, <2>1 DEF Apart, SourceTypeOK, Token
  <2>8. \A t \in Tasks : pc'[t] # "idle" => ev'[t] <= new_state
    BY <2>3, <2>4, <2>6, <2>7
  <2>9. new_state # None
    BY <1>0 DEF SourceTypeOK
  <2> QED  BY <1>0, <2>1, <2>5, <2>7, <2>8, <2>9 DEF Apart
<1>11. CASE RequestFails
  BY <1>0, <1>11 DEF RequestFails, dispatchVars, configVars, serverVars, Apart
<1>12. CASE Exit
  BY <1>0, <1>12 DEF Exit, EndAllTasks, configVars, serverVars, Apart
<1>13. CASE DayPasses /\ UNCHANGED sourceVars
  BY <1>0, <1>1, <1>13 DEF DayPasses, sourceVars, serverVars, configVars, pollVars,
     SourceTypeOK, Token
<1>14. ASSUME NEW t \in Tasks, Moves(t)
       PROVE  Apart'
  <2>1. \A s \in Tasks : pc'[s] # "idle" => pc[s] # "idle" /\ ev'[s] = ev[s]
    BY <1>0, <1>14 DEF Moves, TaskMoves, AcquireSemaphore, FindRun, InsertIgnored, UpdateIgnored,
       InsertRun, ProcessEnds, UpdateRun, Ack, CallFails, EndTask, Goto, DispatchTypeOK
  <2>2. UNCHANGED <<arrived, poller, since, new_state, batch, saved>>
    BY <1>14 DEF Moves, sourceVars, serverVars, configVars, pollVars
  <2> QED  BY <2>1, <2>2 DEF Apart
<1>15. CASE UNCHANGED vars
  BY <1>0, <1>1, <1>15 DEF vars, dispatchVars, sourceVars, serverVars, configVars, pollVars,
     SourceTypeOK, Token
<1>16. ASSUME NEW t \in Tasks, Dispatch(t) \/ (CallFails(t) /\ UNCHANGED sourceVars)
       PROVE  Moves(t)
  BY <1>16 DEF Dispatch, Moves, TaskStep, TaskMoves, CallFails
<1> QED
  BY <1>2, <1>3, <1>4, <1>5, <1>6, <1>7, <1>8, <1>9, <1>10, <1>11, <1>12, <1>13, <1>14, <1>15,
     <1>16, <1>17 DEF Next, Poll

\* Without a PATCH that puts an old token back, process() is called once for a mail in
\* 24 hours, whatever the number of slots: two tasks are never about the same mail.
THEOREM OnceWithoutPatch == Spec => []AtMostOnce
<1> DEFINE Inv == TypesInv /\ (patches = 0 => Apart /\ NotFound /\ ProcessedOnce)
<1>1. Init => Inv
  <2> SUFFICES ASSUME Init
               PROVE  Inv
    OBVIOUS
  <2>1. TypesInv
    BY InitTypes
  <2>2. Len(rows) = 0
    BY DEF Init, DispatchInit
  <2> QED
    BY <2>1, <2>2 DEF Init, DispatchInit, Apart, NotFound, ProcessedOnce
<1>2. Inv /\ [Next]_vars => Inv'
  <2> SUFFICES ASSUME Inv, [Next]_vars
               PROVE  Inv'
    OBVIOUS
  <2>1. TypesInv' /\ DispatchMoves /\ faults' \in Nat /\ RunInv
    BY TypesInvKept DEF TypesInv
  <2>2. ASSUME patches' = 0
        PROVE  Apart' /\ NotFound' /\ ProcessedOnce'
    <3>1. patches = 0
      BY <2>2, <2>1, SourceTypes DEF TypesInv, SourceTypeOK, Next, vars, sourceVars, serverVars,
         configVars, pollVars, Arrive, Destroy, LoadPage, PatchConfig, Poll, Start,
         DiscoverSession, SeedState, PollChanges, FetchEmails, HandOut, Reseed, RequestFails,
         Exit, Dispatch
    <3>2. Apart /\ NotFound /\ ProcessedOnce
      BY <3>1
    <3>3. HoldersDiffer
      BY <3>2 DEF Apart, HoldersDiffer, Holding, Active
    <3> QED  BY <2>1, <2>2, <3>2, <3>3, ApartKept, OnceKept
  <2> QED  BY <2>1, <2>2
<1>3. Inv => AtMostOnce
  BY DEF AtMostOnce
<1> QED  BY <1>1, <1>2, <1>3, PTL DEF Spec
=============================================================================
