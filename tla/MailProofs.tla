----------------------------- MODULE MailProofs ------------------------------
(***************************************************************************)
(* Proofs about the parts of the mail sentinel, each of which is a machine *)
(* of its own: what it learns from the mailbox, its learned patterns, a    *)
(* run of its graph and the circuit breaker in front of its model.  They   *)
(* hold for any mails, rules, threads, events and bounds.                  *)
(***************************************************************************)
EXTENDS MailLearning, LearnedPatterns, MailPipeline, LlmBreaker, SequenceTheorems,
        FiniteSetTheorems, TLAPS

------------------------------------------------------------------------------
(* What is learned from the mailbox (MailLearning).                           *)
(* The rows of a mail age: what is open may be marked and what is there may   *)
(* be purged, and nothing is opened again.  A mail with a row is in Junk, was *)
(* rescued or got a row elsewhere (RowsExplained), and the observer counts    *)
(* trust only for a mail with a row (CountsARow); a rescued mail is on its    *)
(* way to the observer, and what a tick holds is still in the delta (SeenInv).*)

(* Rows of one mail.                                                          *)

\* From s to t a row that is open may be marked or purged, one that is marked may
\* be purged.
Aged(s, t) ==
  /\ t \in Seq(RowStates) /\ Len(t) = Len(s)
  /\ \A i \in 1..Len(s) : t[i] \in {s[i], "purged"} \/ s[i] = "open"

\* Rows that are left alone age.
LEMMA AgedItself ==
  ASSUME NEW s \in Seq(RowStates)
  PROVE  Aged(s, s)
BY DEF Aged

\* So do rows one of which is marked or purged.
LEMMA AgedByMark ==
  ASSUME NEW s \in Seq(RowStates), NEW i \in DOMAIN s,
         NEW by \in RowStates, Open(s[i]) \/ by = "purged"
  PROVE  Aged(s, [s EXCEPT ![i] = by])
<1>1. /\ [s EXCEPT ![i] = by] \in Seq(RowStates) /\ Len([s EXCEPT ![i] = by]) = Len(s)
      /\ \A j \in 1..Len(s) : [s EXCEPT ![i] = by][j] = IF j = i THEN by ELSE s[j]
  BY ExceptSeq
<1> QED
  BY <1>1 DEF Aged, Open

\* What _maybe_restore_spam_decision does to the rows of a mail.
LEMMA AgedByObserver ==
  ASSUME NEW s \in Seq(RowStates)
  PROVE  LET t == [i \in DOMAIN s |-> IF Open(s[i]) THEN "observer" ELSE s[i]]
         IN  Aged(s, t) /\ \A i \in DOMAIN t : ~Open(t[i])
<1> DEFINE t == [i \in DOMAIN s |-> IF Open(s[i]) THEN "observer" ELSE s[i]]
<1>1. Len(s) \in Nat /\ DOMAIN s = 1..Len(s) /\ \A j \in 1..Len(s) : s[j] \in RowStates
  OBVIOUS
<1>2. \A i \in 1..Len(s) :
        /\ t[i] \in RowStates /\ ~Open(t[i])
        /\ t[i] = s[i] \/ s[i] = "open"
  BY <1>1 DEF RowStates, Open
<1>3. t \in [1..Len(s) -> RowStates] /\ DOMAIN t = 1..Len(s)
  BY <1>1, <1>2
<1> HIDE DEF t
<1>4. t \in Seq(RowStates) /\ Len(t) = Len(s)
  BY <1>1, <1>3
<1> QED
  BY <1>2, <1>3, <1>4 DEF Aged, t

\* A new row comes after the others.
LEMMA AppendedRow ==
  ASSUME NEW s \in Seq(RowStates)
  PROVE  /\ Append(s, "open") \in Seq(RowStates) /\ Len(s) \in Nat
         /\ Len(Append(s, "open")) = Len(s) + 1
         /\ \A i \in 1..Len(s) : Append(s, "open")[i] = s[i]
BY DEF RowStates

\* An open row has been open before.
LEMMA AgedOpens ==
  ASSUME NEW s \in Seq(RowStates), NEW t, Aged(s, t), NEW i \in DOMAIN t, Open(t[i])
  PROVE  i \in DOMAIN s /\ Open(s[i])
BY DEF Aged, Open

------------------------------------------------------------------------------
(* Types.                                                                     *)

\* The observer between two ticks and in one.
TickTyped ==
  /\ tick \in [pc : {"idle", "run", "read", "count", "mark", "log"}, todo : SUBSET Mails,
               mail : Mails \cup {"none"}, seen : SUBSET Boxes, type : Observed \cup {"none"}]
  /\ tick.pc \notin {"idle", "run"} => tick.mail \in Mails
  /\ tick.pc \in {"count", "mark", "log"} => tick.type \in Observed

\* A restore of the API refers to a row that is there.
ApiTyped ==
  \/ api.phase = "none"
  \/ /\ api \in [phase : {"checked", "patched"}, mail : Mails, row : Nat]
     /\ api.row \in DOMAIN rows[api.mail]

\* The types that the steps need.
LTyped ==
  /\ box \in [Mails -> SUBSET Boxes] /\ rows \in [Mails -> Seq(RowStates)]
  /\ filing \in [Mails -> Filings]
  /\ evid \in [Patterns -> Nat] /\ obs \subseteq Mails \X Observed
  /\ TickTyped
  /\ delta \subseteq Mails /\ late \subseteq Mails
  /\ events \in 0..MaxEvents
  /\ ApiTyped

\* What an action does to the rows of the mails: those of one mail have aged, or got
\* one more.
RowsStep ==
  \/ UNCHANGED rows
  \/ \E m \in Mails :
       \/ \E t : Aged(rows[m], t) /\ rows' = [rows EXCEPT ![m] = t]
       \/ rows' = [rows EXCEPT ![m] = Append(@, "open")]

\* Of each mail the rows age, or there is one more.
LEMMA RowsOfEach ==
  ASSUME LTyped, RowsStep
  PROVE  /\ rows' \in [Mails -> Seq(RowStates)]
         /\ \A m \in Mails : Aged(rows[m], rows'[m]) \/ rows'[m] = Append(rows[m], "open")
<1>1. CASE UNCHANGED rows
  BY <1>1, AgedItself DEF LTyped
<1>2. ASSUME NEW m \in Mails, NEW t, Aged(rows[m], t), rows' = [rows EXCEPT ![m] = t]
      PROVE  /\ rows' \in [Mails -> Seq(RowStates)]
             /\ \A n \in Mails : Aged(rows[n], rows'[n])
  BY <1>2, AgedItself DEF LTyped, Aged
<1>3. ASSUME NEW m \in Mails, rows' = [rows EXCEPT ![m] = Append(@, "open")]
      PROVE  /\ rows' \in [Mails -> Seq(RowStates)]
             /\ \A n \in Mails : Aged(rows[n], rows'[n]) \/ rows'[n] = Append(rows[n], "open")
  BY <1>3, AgedItself, AppendedRow DEF LTyped
<1> QED
  BY <1>1, <1>2, <1>3 DEF RowsStep

\* Rows never get fewer.
LEMMA RowsStay ==
  ASSUME LTyped, RowsStep, NEW m \in Mails
  PROVE  DOMAIN rows[m] \subseteq DOMAIN rows'[m]
<1>1. rows[m] \in Seq(RowStates) /\ rows'[m] \in Seq(RowStates)
  BY RowsOfEach DEF LTyped
<1>2. Len(rows[m]) \in Nat /\ Len(rows'[m]) \in Nat /\ Len(rows'[m]) >= Len(rows[m])
  <2>1. CASE Aged(rows[m], rows'[m])
    BY <1>1, <2>1 DEF Aged
  <2>2. CASE rows'[m] = Append(rows[m], "open")
    BY <1>1, <2>2, AppendedRow
  <2> QED
    BY <1>1, <2>1, <2>2, RowsOfEach
<1> QED
  BY <1>1, <1>2

\* The observer marks every open row of a mail.
LEMMA MarkRestoredAges ==
  ASSUME LTyped, MarkRestored
  PROVE  /\ tick.mail \in Mails
         /\ \E t : /\ Aged(rows[tick.mail], t) /\ rows' = [rows EXCEPT ![tick.mail] = t]
                   /\ \A i \in DOMAIN t : ~Open(t[i])
<1> DEFINE s == rows[tick.mail]
           t == [i \in DOMAIN s |-> IF Open(s[i]) THEN "observer" ELSE s[i]]
<1>1. tick.mail \in Mails /\ s \in Seq(RowStates)
  BY DEF LTyped, TickTyped, MarkRestored
<1>2. rows' = [rows EXCEPT ![tick.mail] = t]
  BY DEF MarkRestored, MarkRows
<1>3. Aged(s, t) /\ \A i \in DOMAIN t : ~Open(t[i])
  BY <1>1, AgedByObserver
<1> HIDE DEF t
<1> QED
  BY <1>1, <1>2, <1>3

\* A restore of the API marks one row.
LEMMA ApiMarksAges ==
  ASSUME LTyped, ApiMarks
  PROVE  \/ UNCHANGED rows
         \/ \E m \in Mails : \E t : Aged(rows[m], t) /\ rows' = [rows EXCEPT ![m] = t]
<1> DEFINE m == api.mail  i == api.row  t == [rows[m] EXCEPT ![i] = "owner"]
<1>1. m \in Mails /\ i \in DOMAIN rows[m] /\ rows[m] \in Seq(RowStates)
  BY DEF LTyped, ApiTyped, ApiMarks
<1>2. CASE Open(rows[m][i])
  <2>1. rows' = [rows EXCEPT ![m] = t]
    BY <1>2 DEF ApiMarks, MarkIfOpen
  <2>2. Aged(rows[m], t)
    BY <1>1, <1>2, AgedByMark DEF RowStates
  <2> QED
    BY <1>1, <2>1, <2>2
<1>3. CASE ~Open(rows[m][i])
  BY <1>3 DEF ApiMarks, MarkIfOpen
<1> QED
  BY <1>2, <1>3

\* The housekeeping purges one row.
LEMMA PurgeAges ==
  ASSUME LTyped, NEW m \in Mails, NEW i \in DOMAIN rows[m], Purge(m, i)
  PROVE  \E t : Aged(rows[m], t) /\ rows' = [rows EXCEPT ![m] = t]
<1> DEFINE t == [rows[m] EXCEPT ![i] = "purged"]
<1>1. rows[m] \in Seq(RowStates)
  BY DEF LTyped
<1>2. Aged(rows[m], t)
  BY <1>1, AgedByMark DEF RowStates
<1>3. rows' = [rows EXCEPT ![m] = t]
  BY DEF Purge
<1> QED
  BY <1>2, <1>3

\* No step of anybody does anything else to the rows.
LEMMA NextAges ==
  ASSUME LTyped, [LNext]_lvars
  PROVE  RowsStep
<1>1. ASSUME NEW m \in Mails, MailSteps(m) PROVE RowsStep
  <2>1. CASE InsertRow(m) \/ DryReplay(m)
    BY <2>1 DEF InsertRow, KeepRow, DryReplay, RowsStep
  <2>2. CASE \E i \in DOMAIN rows[m] : Purge(m, i)
    BY <2>2, PurgeAges DEF RowsStep
  <2>3. CASE UNCHANGED rows
    BY <2>3 DEF RowsStep
  <2> QED
    BY <1>1, <2>1, <2>2, <2>3 DEF MailSteps, Files, Arrive, ProcessMail, ReadMailboxes,
       MoveToJunk, MarkNonjunk, FilingFails, Replay, OwnerTouches, OwnerMoves, ReadMail, ApiChecks
<1>2. CASE ApiMarks
  BY <1>2, ApiMarksAges DEF RowsStep
<1>3. CASE MarkRestored
  BY <1>3, MarkRestoredAges DEF RowsStep
<1>4. CASE UNCHANGED rows
  BY <1>4 DEF RowsStep
<1> QED
  BY <1>1, <1>2, <1>3, <1>4 DEF LNext, lvars, Dispatch, Bootstrap, TickBegins, ChooseExtractor,
     RecordEvidence, LogObservation, DispatchRaises, TickEnds, Crash, ApiPatches

\* The steps of the tick keep its type.
LEMMA TickStays ==
  ASSUME LTyped, [LNext]_lvars
  PROVE  TickTyped'
<1>1. CASE UNCHANGED tick
  BY <1>1 DEF LTyped, TickTyped
<1>2. CASE TickBegins
  <2>1. PICK answered \in SUBSET delta :
          tick' = [NoTick EXCEPT !.pc = "run", !.todo = answered]
    BY <1>2 DEF TickBegins
  <2> QED
    BY <2>1 DEF LTyped, TickTyped, NoTick
<1>3. ASSUME NEW m \in Mails, ReadMail(m) PROVE TickTyped'
  BY <1>3 DEF ReadMail, LTyped, TickTyped
<1>4. CASE ChooseExtractor
  <2>1. PICK found \in BOOLEAN :
          LET type == Extractor(tick.seen, found) IN
          IF type = "none" THEN DispatchEnds
          ELSE tick' = [tick EXCEPT !.pc = "count", !.type = type]
    BY <1>4 DEF ChooseExtractor
  <2>2. Extractor(tick.seen, found) \in Observed \cup {"none"}
    BY DEF Extractor, Observed
  <2>3. tick.mail \in Mails
    BY <1>4 DEF ChooseExtractor, LTyped, TickTyped
  <2> QED
    BY <2>1, <2>2, <2>3 DEF DispatchEnds, NoTick, LTyped, TickTyped
<1>5. CASE RecordEvidence
  BY <1>5 DEF RecordEvidence, LTyped, TickTyped
<1>6. CASE MarkRestored
  BY <1>6 DEF MarkRestored, LTyped, TickTyped
<1>7. CASE LogObservation \/ DispatchRaises
  BY <1>7 DEF LogObservation, DispatchRaises, DispatchEnds, NoTick, LTyped, TickTyped
<1>8. CASE TickEnds \/ Crash
  BY <1>8 DEF TickEnds, Crash, NoTick, LTyped, TickTyped
<1> QED
  BY <1>1, <1>2, <1>3, <1>4, <1>5, <1>6, <1>7, <1>8 DEF LNext, lvars, MailSteps, Files, Dispatch,
     Arrive, ProcessMail, ReadMailboxes, MoveToJunk, MarkNonjunk, InsertRow, FilingFails, Replay,
     DryReplay, OwnerTouches, OwnerMoves, ApiChecks, Purge, Bootstrap, ApiPatches, ApiMarks

\* The request keeps referring to a row that is there.
LEMMA ApiStays ==
  ASSUME LTyped, [LNext]_lvars
  PROVE  ApiTyped'
<1>1. RowsStep
  BY NextAges
<1>2. CASE UNCHANGED api
  <2>1. CASE api.phase = "none"
    BY <1>2, <2>1 DEF ApiTyped
  <2>2. CASE api.phase # "none"
    <3>1. api.mail \in Mails /\ api.row \in DOMAIN rows[api.mail]
      BY <2>2 DEF LTyped, ApiTyped
    <3>2. api.row \in DOMAIN rows'[api.mail]
      BY <1>1, <3>1, RowsStay
    <3> QED
      BY <1>2, <2>2, <3>2 DEF LTyped, ApiTyped
  <2> QED
    BY <2>1, <2>2
<1>3. ASSUME NEW m \in Mails, ApiChecks(m) PROVE ApiTyped'
  <2>1. PICK i \in DOMAIN rows[m] : api' = [phase |-> "checked", mail |-> m, row |-> i]
    BY <1>3 DEF ApiChecks
  <2>2. i \in Nat /\ UNCHANGED rows
    BY <1>3 DEF ApiChecks, LTyped
  <2> QED
    BY <2>1, <2>2 DEF ApiTyped
<1>4. CASE ApiPatches
  <2>1. api' = [api EXCEPT !.phase = "patched"] \/ api' = NoRequest
    BY <1>4 DEF ApiPatches
  <2>2. /\ api \in [phase : {"checked", "patched"}, mail : Mails, row : Nat] /\ UNCHANGED rows
        /\ api.row \in DOMAIN rows[api.mail]
    BY <1>4 DEF ApiPatches, LTyped, ApiTyped
  <2> QED
    BY <2>1, <2>2 DEF ApiTyped, NoRequest
<1>5. CASE ApiMarks
  BY <1>5 DEF ApiMarks, ApiTyped, NoRequest
<1> QED
  BY <1>2, <1>3, <1>4, <1>5 DEF LNext, lvars, MailSteps, Files, Dispatch,
     Arrive, ProcessMail, ReadMailboxes, MoveToJunk, MarkNonjunk, InsertRow, FilingFails, Replay,
     DryReplay, OwnerTouches, OwnerMoves, ReadMail, Purge, Bootstrap, TickBegins, ChooseExtractor,
     RecordEvidence, MarkRestored, LogObservation, DispatchRaises, TickEnds, Crash

\* Every step keeps the types.
LEMMA LearningTypesStep ==
  ASSUME LTyped, [LNext]_lvars
  PROVE  LTyped'
<1>1. rows' \in [Mails -> Seq(RowStates)] /\ TickTyped' /\ ApiTyped'
  BY NextAges, RowsOfEach, TickStays, ApiStays
<1>2. ASSUME Event \/ Quiet PROVE events' \in 0..MaxEvents
  BY <1>2, LearningAssumption DEF Event, Quiet, LTyped, LearningAssumption
<1>3. ASSUME NEW m \in Mails, Changed(m) \/ Unchanged
      PROVE  delta' \subseteq Mails /\ late' \subseteq Mails
  BY <1>3 DEF Changed, Unchanged, LTyped
<1>4. ASSUME NEW m \in Mails, NEW at \in {"idle", "spam", "moving", "filed", "newsletter", "kept"},
             Proceed(m, at)
      PROVE  filing' \in [Mails -> Filings]
  BY <1>4 DEF Proceed, LTyped, Filings
<1>5. NotFiling \in Filings
  BY DEF NotFiling, Filings
<1>6. ASSUME NEW m \in Mails, MailSteps(m) PROVE LTyped'
  <2>1. CASE Arrive(m)
    BY <2>1, <1>1, <1>3 DEF Arrive, LTyped, Boxes
  <2>2. CASE ProcessMail(m)
    <3>1. Changed(m) \/ Unchanged
      BY <2>2 DEF ProcessMail
    <3>2. filing' \in [Mails -> Filings]
      BY <2>2, <1>4 DEF ProcessMail, LTyped
    <3> QED
      BY <2>2, <3>1, <3>2, <1>1, <1>3 DEF ProcessMail, LTyped, Boxes
  <2>3. CASE ReadMailboxes(m)
    <3>1. [at |-> "moving", from |-> box[m] \ {"junk", "unread"}] \in Filings
      BY DEF LTyped, Filings, Boxes
    <3> QED
      BY <2>3, <3>1, <1>1, <1>3 DEF ReadMailboxes, LTyped
  <2>4. CASE MoveToJunk(m)
    <3>1. /\ box' \in [Mails -> SUBSET Boxes]
          /\ (Changed(m) \/ Unchanged) /\ (Event \/ Quiet)
      BY <2>4 DEF MoveToJunk, LTyped, Boxes
    <3> QED
      BY <2>4, <3>1, <1>1, <1>2, <1>3, <1>4 DEF MoveToJunk, LTyped
  <2>5. CASE MarkNonjunk(m)
    BY <2>5, <1>1, <1>3, <1>4 DEF MarkNonjunk, LTyped
  <2>6. CASE InsertRow(m)
    BY <2>6, <1>1, <1>3, <1>5 DEF InsertRow, LTyped
  <2>7. CASE FilingFails(m)
    BY <2>7, <1>1, <1>2, <1>3, <1>5 DEF FilingFails, LTyped
  <2>8. CASE Replay(m)
    BY <2>8, <1>1, <1>2, <1>3 DEF Replay, LTyped, Boxes
  <2>9. CASE DryReplay(m)
    BY <2>9, <1>1, <1>2, <1>3 DEF DryReplay, LTyped
  <2>10. CASE OwnerTouches(m)
    BY <2>10, <1>1, <1>2, <1>3 DEF OwnerTouches, LTyped
  <2>11. ASSUME NEW b \in {"inbox", "junk", "custom"}, OwnerMoves(m, b) PROVE LTyped'
    BY <2>11, <1>1, <1>2, <1>3 DEF OwnerMoves, Place, LTyped, Boxes
  <2>12. CASE ReadMail(m)
    BY <2>12, <1>1 DEF ReadMail, LTyped
  <2>13. CASE ApiChecks(m)
    BY <2>13, <1>1 DEF ApiChecks, LTyped
  <2>14. ASSUME NEW i \in DOMAIN rows[m], Purge(m, i) PROVE LTyped'
    BY <2>14, <1>1, <1>2 DEF Purge, LTyped
  <2> QED
    BY <1>6, <2>1, <2>2, <2>3, <2>4, <2>5, <2>6, <2>7, <2>8, <2>9, <2>10, <2>11, <2>12, <2>13,
       <2>14 DEF MailSteps, Files
<1>7. CASE Bootstrap \/ TickBegins \/ TickEnds
  BY <1>7, <1>1 DEF Bootstrap, TickBegins, TickEnds, LTyped
<1>8. CASE ChooseExtractor
  <2>1. Event \/ Quiet
    BY <1>8 DEF ChooseExtractor
  <2> QED
    BY <1>8, <2>1, <1>1, <1>2 DEF ChooseExtractor, LTyped
<1>9. CASE RecordEvidence
  <2>1. PatternOf(tick.type) \in Patterns
    BY <1>9 DEF RecordEvidence, LTyped, TickTyped, PatternOf, Patterns, Observed
  <2> QED
    BY <1>9, <2>1, <1>1 DEF RecordEvidence, LTyped
<1>10. CASE MarkRestored
  BY <1>10, <1>1 DEF MarkRestored, LTyped
<1>11. CASE LogObservation
  BY <1>11, <1>1 DEF LogObservation, LTyped, TickTyped
<1>12. CASE DispatchRaises
  BY <1>12, <1>1, <1>2 DEF DispatchRaises, LTyped
<1>13. CASE Crash
  <2>1. filing' \in [Mails -> Filings]
    BY <1>13, <1>5 DEF Crash, LTyped
  <2> QED
    BY <1>13, <2>1, <1>1, <1>2 DEF Crash, LTyped
<1>14. CASE ApiPatches
  <2>1. api.mail \in Mails
    BY <1>14 DEF ApiPatches, LTyped, ApiTyped
  <2>2. box' \in [Mails -> SUBSET Boxes]
    <3>1. box' = [box EXCEPT ![api.mail] = @ \cup {"inbox"}] \/ UNCHANGED box
      BY <1>14 DEF ApiPatches
    <3> QED
      BY <2>1, <3>1 DEF LTyped, Boxes
  <2>3. delta' \subseteq Mails /\ late' \subseteq Mails
    BY <1>14, <2>1, <1>3 DEF ApiPatches, Unchanged
  <2> QED
    BY <1>14, <2>2, <2>3, <1>1 DEF ApiPatches, LTyped
<1>15. CASE ApiMarks
  BY <1>15, <1>1 DEF ApiMarks, LTyped
<1>16. CASE UNCHANGED lvars
  BY <1>16, <1>1 DEF lvars, LTyped
<1> QED
  BY <1>6, <1>7, <1>8, <1>9, <1>10, <1>11, <1>12, <1>13, <1>14, <1>15, <1>16
     DEF LNext, Dispatch

\* The types are an invariant.
LEMMA LearningTyped == LSpec => []LTyped
<1>1. LInit => LTyped
  <2> SUFFICES ASSUME LInit PROVE LTyped
    OBVIOUS
  <2>1. <<>> \in Seq(RowStates)
    BY EmptySeq
  <2>2. /\ box \in [Mails -> SUBSET Boxes] /\ rows \in [Mails -> Seq(RowStates)]
        /\ filing \in [Mails -> Filings] /\ evid \in [Patterns -> Nat]
    BY <2>1 DEF LInit, NotFiling, Filings
  <2>3. TickTyped /\ ApiTyped
    BY DEF LInit, NoTick, TickTyped, ApiTyped, NoRequest
  <2>4. obs \subseteq Mails \X Observed /\ delta \subseteq Mails /\ late \subseteq Mails
    BY DEF LInit
  <2>5. events \in 0..MaxEvents
    BY LearningAssumption DEF LInit, LearningAssumption
  <2> QED
    BY <2>2, <2>3, <2>4, <2>5 DEF LTyped
<1> QED
  BY <1>1, LearningTypesStep, PTL DEF LSpec

\* The variables of the mailbox, the rows, the filing of mails, the observer and the
\* request keep their types (observer.py, spam_decisions.py).
THEOREM LearningTypes == LSpec => []LTypeOK
<1>1. LTyped => LTypeOK
  <2> SUFFICES ASSUME LTyped PROVE LTypeOK
    OBVIOUS
  <2>1. \A m \in Mails : \A i \in DOMAIN rows[m] : rows[m][i] \in RowStates
    BY DEF LTyped
  <2>2. api.phase \in {"none", "checked", "patched"}
    BY DEF LTyped, ApiTyped
  <2> QED
    BY <2>1, <2>2 DEF LTyped, LTypeOK, TickTyped
<1> QED
  BY <1>1, LearningTyped, PTL

------------------------------------------------------------------------------
(* Rows are marked once.                                                      *)

\* A row that is marked as restored keeps who restored it until it is purged, for
\* any number of mails, rows and events (spam_decisions.py restore,
\* reclassification.py).
THEOREM RowsAreRestoredOnce == LSpec => RestoredOnce
<1>1. LTyped /\ [LNext]_lvars =>
        [\A m \in Mails : \A i \in DOMAIN rows[m] :
           rows[m][i] \in {"observer", "owner"} => rows'[m][i] \in {rows[m][i], "purged"}]_lvars
  <2> SUFFICES ASSUME LTyped, [LNext]_lvars, NEW m \in Mails, NEW i \in DOMAIN rows[m],
                      rows[m][i] \in {"observer", "owner"}
               PROVE  rows'[m][i] \in {rows[m][i], "purged"}
    OBVIOUS
  <2>1. rows[m] \in Seq(RowStates) /\ i \in 1..Len(rows[m])
    BY DEF LTyped
  <2>2. CASE Aged(rows[m], rows'[m])
    BY <2>1, <2>2 DEF Aged
  <2>3. CASE rows'[m] = Append(rows[m], "open")
    BY <2>1, <2>3, AppendedRow
  <2> QED
    BY <2>2, <2>3, NextAges, RowsOfEach
<1> QED
  BY <1>1, LearningTyped, PTL DEF LSpec, RestoredOnce

------------------------------------------------------------------------------
(* Trust is earned.                                                           *)

\* A mail with a row is in Junk, or its owner rescued it, or its row was written
\* while it was somewhere else.
RowsExplained ==
  \A m \in Mails : rows[m] # <<>> => m \in rescued \cup unfiled \/ "junk" \in box[m]

\* What is about to be counted as a rescue is a mail with a row, which the observer
\* did not see in Junk.
CountsARow ==
  tick.pc = "count" /\ tick.type = "unmarked_spam" =>
    rows[tick.mail] # <<>> /\ "junk" \notin tick.seen

\* A mail that has rows keeps them.
LEMMA NeverEmpty ==
  ASSUME LTyped, [LNext]_lvars, NEW m \in Mails, rows[m] # <<>>
  PROVE  rows'[m] # <<>>
<1>1. /\ rows[m] \in Seq(RowStates) /\ rows'[m] \in Seq(RowStates)
      /\ Aged(rows[m], rows'[m]) \/ rows'[m] = Append(rows[m], "open")
  BY NextAges, RowsOfEach DEF LTyped
<1>2. CASE Aged(rows[m], rows'[m])
  BY <1>1, <1>2, EmptySeq DEF Aged
<1>3. CASE rows'[m] = Append(rows[m], "open")
  BY <1>1, <1>3, AppendedRow, EmptySeq
<1> QED
  BY <1>1, <1>2, <1>3

\* Rows that only age do not come into being.
LEMMA AgedEmpty ==
  ASSUME NEW t, Aged(<<>>, t)
  PROVE  t = <<>>
BY EmptySeq DEF Aged

\* Every step keeps the rows explained.
LEMMA RowsExplainedStep ==
  ASSUME LTyped, RowsExplained, [LNext]_lvars
  PROVE  RowsExplained'
<1> SUFFICES ASSUME NEW n \in Mails, rows'[n] # <<>>,
                    n \notin rescued' \cup unfiled'
             PROVE  "junk" \in box'[n]
  BY DEF RowsExplained
<1>1. RowsStep /\ box[n] \subseteq Boxes /\ rows[n] \in Seq(RowStates)
  BY NextAges DEF LTyped
<1>2. ASSUME UNCHANGED <<box, rescued, unfiled>>, Aged(rows[n], rows'[n])
      PROVE  "junk" \in box'[n]
  BY <1>2, AgedEmpty DEF RowsExplained
<1>3. ASSUME UNCHANGED <<rows, rescued, unfiled>>, "junk" \in box[n] => "junk" \in box'[n]
      PROVE  "junk" \in box'[n]
  BY <1>3 DEF RowsExplained
<1>4. ASSUME NEW m \in Mails, MailSteps(m) PROVE "junk" \in box'[n]
  <2>1. CASE Arrive(m)
    BY <2>1, <1>3 DEF Arrive, LTyped
  <2>2. CASE ProcessMail(m)
    BY <2>2, <1>3 DEF ProcessMail, LTyped
  <2>3. CASE ReadMailboxes(m) \/ MarkNonjunk(m) \/ FilingFails(m) \/ OwnerTouches(m)
             \/ ReadMail(m) \/ ApiChecks(m)
    BY <2>3, <1>3 DEF ReadMailboxes, MarkNonjunk, FilingFails, OwnerTouches, ReadMail, ApiChecks
  <2>4. CASE MoveToJunk(m)
    BY <2>4, <1>3 DEF MoveToJunk, LTyped
  <2>5. CASE InsertRow(m)
    BY <2>5 DEF InsertRow, KeepRow, LTyped, RowsExplained
  <2>6. CASE Replay(m)
    BY <2>6, <1>3 DEF Replay, LTyped
  <2>7. CASE DryReplay(m)
    BY <2>7 DEF DryReplay, LTyped, RowsExplained
  <2>8. ASSUME NEW b \in {"inbox", "junk", "custom"}, OwnerMoves(m, b)
        PROVE  "junk" \in box'[n]
    <3>1. CASE n # m
      <4>1. box'[n] = box[n] /\ rows'[n] = rows[n] /\ n \notin rescued \cup unfiled
        BY <2>8, <3>1 DEF OwnerMoves, Place, LTyped
      <4> QED
        BY <4>1 DEF RowsExplained
    <3>2. CASE n = m
      <4>1. "junk" \in box[m]
        BY <2>8, <3>2 DEF OwnerMoves, RowsExplained
      <4>2. b = "junk"
        BY <2>8, <3>2, <4>1 DEF OwnerMoves
      <4> QED
        BY <2>8, <3>2, <4>2 DEF OwnerMoves, Place, LTyped
    <3> QED
      BY <3>1, <3>2
  <2>9. ASSUME NEW i \in DOMAIN rows[m], Purge(m, i) PROVE "junk" \in box'[n]
    <3>1. PICK t : Aged(rows[m], t) /\ rows' = [rows EXCEPT ![m] = t]
      BY <2>9, PurgeAges
    <3>2. Aged(rows[n], rows'[n])
      BY <1>1, <3>1, AgedItself DEF LTyped
    <3> QED
      BY <2>9, <3>2, <1>2 DEF Purge
  <2> QED
    BY <1>4, <2>1, <2>2, <2>3, <2>4, <2>5, <2>6, <2>7, <2>8, <2>9 DEF MailSteps, Files
<1>5. CASE ApiPatches
  <2>1. box' = [box EXCEPT ![api.mail] = @ \cup {"inbox"}] \/ UNCHANGED box
    BY <1>5 DEF ApiPatches
  <2>2. "junk" \in box[n] => "junk" \in box'[n]
    BY <2>1 DEF LTyped
  <2> QED
    BY <1>5, <2>2 DEF ApiPatches, RowsExplained
<1>6. CASE ApiMarks \/ MarkRestored
  <2>1. Aged(rows[n], rows'[n])
    BY <1>6, <1>1, ApiMarksAges, MarkRestoredAges, AgedItself DEF LTyped
  <2> QED
    BY <1>6, <2>1, <1>2 DEF ApiMarks, MarkRestored
<1>7. CASE UNCHANGED <<box, rows, rescued, unfiled>>
  BY <1>7, <1>3
<1> QED
  BY <1>4, <1>5, <1>6, <1>7 DEF LNext, lvars, Dispatch, Bootstrap, TickBegins, ChooseExtractor,
     RecordEvidence, LogObservation, DispatchRaises, TickEnds, Crash

\* Only the choice of the extractor, with an open row, leads to a count of a rescue.
LEMMA CountsARowStep ==
  ASSUME LTyped, CountsARow, [LNext]_lvars
  PROVE  CountsARow'
<1> SUFFICES ASSUME (tick.pc = "count" /\ tick.type = "unmarked_spam")'
             PROVE  rows'[tick'.mail] # <<>> /\ "junk" \notin tick'.seen
  BY DEF CountsARow
<1>1. CASE ChooseExtractor
  <2>1. PICK found \in BOOLEAN :
          /\ found = HasOpenDecision(tick.mail) \/ ~found
          /\ LET type == Extractor(tick.seen, found) IN
             IF type = "none" THEN DispatchEnds
             ELSE tick' = [tick EXCEPT !.pc = "count", !.type = type]
    BY <1>1 DEF ChooseExtractor
  <2>2. Extractor(tick.seen, found) = "unmarked_spam"
        /\ tick'.mail = tick.mail /\ tick'.seen = tick.seen
    BY <2>1 DEF DispatchEnds, NoTick, LTyped, TickTyped
  <2>3. "junk" \notin tick.seen /\ HasOpenDecision(tick.mail)
    BY <2>1, <2>2 DEF Extractor
  <2>4. rows[tick.mail] # <<>>
    BY <2>3 DEF HasOpenDecision
  <2> QED
    BY <1>1, <2>2, <2>3, <2>4 DEF ChooseExtractor
<1>2. CASE UNCHANGED tick
  <2>1. rows[tick.mail] # <<>> /\ "junk" \notin tick.seen /\ tick.mail \in Mails
    BY <1>2 DEF CountsARow, LTyped, TickTyped
  <2> QED
    BY <1>2, <2>1, NeverEmpty
<1>3. CASE TickBegins
  <2>1. PICK answered \in SUBSET delta :
          tick' = [NoTick EXCEPT !.pc = "run", !.todo = answered]
    BY <1>3 DEF TickBegins
  <2> QED
    BY <2>1 DEF NoTick
<1>4. ASSUME NEW m \in Mails, ReadMail(m) PROVE FALSE
  BY <1>4 DEF ReadMail
<1>5. CASE RecordEvidence \/ MarkRestored
  BY <1>5 DEF RecordEvidence, MarkRestored, LTyped, TickTyped
<1>6. CASE LogObservation \/ DispatchRaises \/ TickEnds \/ Crash
  <2>1. DispatchEnds \/ tick' = NoTick
    BY <1>6 DEF LogObservation, DispatchRaises, TickEnds, Crash
  <2>2. CASE tick' = NoTick
    BY <2>2 DEF NoTick
  <2>3. CASE DispatchEnds
    BY <2>3 DEF DispatchEnds, NoTick
  <2> QED
    BY <2>1, <2>2, <2>3
<1> QED
  BY <1>1, <1>2, <1>3, <1>4, <1>5, <1>6 DEF LNext, lvars, MailSteps, Files, Dispatch,
     Arrive, ProcessMail, ReadMailboxes, MoveToJunk, MarkNonjunk, InsertRow, FilingFails, Replay,
     DryReplay, OwnerTouches, OwnerMoves, ApiChecks, Purge, Bootstrap, ApiPatches, ApiMarks

\* Evidence for trust in a sender is counted only for a mail that the owner rescued,
\* with the two exceptions TrustIsEarned names, for any number of mails and events,
\* although the observer reads the mailboxes, queries the rows and counts in steps
\* of their own (observer.py _dispatch, reclassification.py).
THEOREM TrustMustBeEarned == LSpec => TrustIsEarned
<1>1. LInit => RowsExplained /\ CountsARow
  BY DEF LInit, RowsExplained, CountsARow, NoTick
<1>2. LTyped /\ RowsExplained /\ CountsARow /\ [LNext]_lvars =>
        [evid'["trust_sender"] > evid["trust_sender"] =>
           \/ tick.mail \in rescued \cup unfiled
           \/ "junk" \in box[tick.mail] \ tick.seen]_lvars
  <2> SUFFICES ASSUME LTyped, RowsExplained, CountsARow, [LNext]_lvars,
                      evid'["trust_sender"] > evid["trust_sender"]
               PROVE  \/ tick.mail \in rescued \cup unfiled
                      \/ "junk" \in box[tick.mail] \ tick.seen
    OBVIOUS
  <2>1. evid["trust_sender"] \in Nat
    BY DEF LTyped, Patterns
  <2>2. RecordEvidence
    <3>1. evid' # evid
      BY <2>1
    <3> QED
      BY <3>1 DEF LNext, lvars, MailSteps, Files, Dispatch, Arrive, ProcessMail, ReadMailboxes,
         MoveToJunk, MarkNonjunk, InsertRow, FilingFails, Replay, DryReplay, OwnerTouches,
         OwnerMoves, ReadMail, ApiChecks, Purge, Bootstrap, TickBegins, ChooseExtractor,
         MarkRestored, LogObservation, DispatchRaises, TickEnds, Crash, ApiPatches, ApiMarks
  <2>3. tick.pc = "count" /\ tick.mail \in Mails /\ tick.type \in Observed
    BY <2>2 DEF RecordEvidence, LTyped, TickTyped
  <2>4. tick.type = "unmarked_spam"
    <3>1. PatternOf(tick.type) = "trust_sender"
      BY <2>1, <2>2 DEF RecordEvidence, LTyped
    <3> QED
      BY <2>3, <3>1 DEF PatternOf, Observed
  <2> QED
    BY <2>3, <2>4 DEF CountsARow, RowsExplained
<1> QED
  BY <1>1, <1>2, RowsExplainedStep, CountsARowStep, LearningTyped, PTL DEF LSpec, TrustIsEarned

------------------------------------------------------------------------------
(* Rescued mails are seen.                                                    *)

\* A mail that is in the inbox, not in Junk, with an open row.
Restorable(m) == "inbox" \in box[m] /\ "junk" \notin box[m] /\ HasOpenDecision(m)

\* Its owner rescued it, and its rows were written in Junk.
Rescued(m) == m \in rescued \ unfiled

\* It is on its way to the observer or was given up.
Seen(m) == OnItsWay(m) \/ m \in skipped

\* What a tick holds has not left the delta, which a crash falls back to.
HeldInDelta ==
  tick.pc # "idle" =>
    /\ tick.todo \subseteq delta
    /\ tick.pc # "run" => tick.mail \in delta

\* The state of the observer need not be stored yet: what happens before is given up.
SeenInv ==
  /\ \A m \in Mails : Rescued(m) /\ Restorable(m) => Seen(m)
  /\ HeldInDelta

\* A mail that changes is on its way.
LEMMA ChangedIsOnItsWay ==
  ASSUME LTyped, UNCHANGED tick, NEW m \in Mails, Changed(m)
  PROVE  OnItsWay(m)'
BY DEF Changed, OnItsWay, LTyped

\* A step beside the tick leaves the mails on their way.
LEMMA OthersLeaveSeen ==
  ASSUME LTyped, UNCHANGED tick, NEW k \in Mails, Changed(k) \/ Unchanged,
         NEW m \in Mails, Seen(m)
  PROVE  Seen(m)'
<1>1. CASE Changed(k)
  BY <1>1 DEF Changed, Seen, OnItsWay, LTyped
<1>2. CASE Unchanged
  BY <1>2 DEF Unchanged, Seen, OnItsWay
<1> QED
  BY <1>1, <1>2

\* An open row of a mail whose rows age has been open before.
LEMMA AgedDecision ==
  ASSUME LTyped, NEW m \in Mails, Aged(rows[m], rows'[m]), HasOpenDecision(m)'
  PROVE  HasOpenDecision(m)
<1>1. rows[m] \in Seq(RowStates)
  BY DEF LTyped
<1>2. PICK i \in DOMAIN rows'[m] : Open(rows'[m][i])
  BY DEF HasOpenDecision
<1>3. i \in DOMAIN rows[m] /\ Open(rows[m][i])
  BY <1>1, <1>2, AgedOpens
<1> QED
  BY <1>3 DEF HasOpenDecision

\* A mail becomes one that is to be seen only by a change.
LEMMA RescueIsAChange ==
  ASSUME LTyped, NEW k \in Mails, MailSteps(k) \/ (ApiPatches /\ k = api.mail),
         NEW m \in Mails, Rescued(m)', Restorable(m)'
  PROVE  (Rescued(m) /\ Restorable(m)) \/ (m = k /\ Changed(k))
<1>1. rows[m] \in Seq(RowStates) /\ box[m] \subseteq Boxes
  BY DEF LTyped
<1>2. ASSUME UNCHANGED <<box, rescued, unfiled>>, Aged(rows[m], rows'[m])
      PROVE  Rescued(m) /\ Restorable(m)
  BY <1>2, AgedDecision DEF Rescued, Restorable
<1>3. CASE Arrive(k)
  <2>1. m # k
    BY <1>3 DEF Arrive, Restorable, HasOpenDecision
  <2> QED
    BY <1>3, <2>1 DEF Arrive, LTyped, Restorable, Rescued, HasOpenDecision
<1>4. CASE ProcessMail(k) \/ Replay(k)
  BY <1>4 DEF ProcessMail, Replay, LTyped, Restorable, Rescued, HasOpenDecision
<1>5. CASE ReadMailboxes(k) \/ MarkNonjunk(k) \/ FilingFails(k) \/ OwnerTouches(k)
           \/ ReadMail(k) \/ ApiChecks(k)
  BY <1>5 DEF ReadMailboxes, MarkNonjunk, FilingFails, OwnerTouches, ReadMail, ApiChecks,
     Restorable, Rescued, HasOpenDecision
<1>6. CASE MoveToJunk(k)
  BY <1>6 DEF MoveToJunk, LTyped, Restorable, Rescued, HasOpenDecision
<1>7. CASE InsertRow(k)
  <2>1. m # k
    BY <1>7 DEF InsertRow, KeepRow, Restorable, Rescued
  <2> QED
    BY <1>7, <2>1 DEF InsertRow, KeepRow, LTyped, Restorable, Rescued, HasOpenDecision
<1>8. CASE DryReplay(k)
  BY <1>8 DEF DryReplay, LTyped, Restorable, Rescued, HasOpenDecision
<1>9. ASSUME NEW b \in {"inbox", "junk", "custom"}, OwnerMoves(k, b)
      PROVE  (Rescued(m) /\ Restorable(m)) \/ (m = k /\ Changed(k))
  BY <1>9 DEF OwnerMoves, Place, LTyped, Restorable, Rescued, HasOpenDecision
<1>10. ASSUME NEW i \in DOMAIN rows[k], Purge(k, i)
       PROVE  Rescued(m) /\ Restorable(m)
  <2>1. PICK t : Aged(rows[k], t) /\ rows' = [rows EXCEPT ![k] = t]
    BY <1>10, PurgeAges
  <2>2. Aged(rows[m], rows'[m])
    BY <1>1, <2>1, AgedItself DEF LTyped
  <2> QED
    BY <1>10, <2>2, <1>2 DEF Purge
<1>11. CASE ApiPatches /\ k = api.mail
  <2>1. \/ Changed(k) /\ (box' = [box EXCEPT ![k] = @ \cup {"inbox"}] \/ UNCHANGED box)
           /\ rescued' = rescued \cup {k}
        \/ UNCHANGED <<box, rescued>>
    BY <1>11 DEF ApiPatches
  <2> QED
    BY <1>11, <2>1 DEF ApiPatches, LTyped, Restorable, Rescued, HasOpenDecision
<1> QED
  BY <1>3, <1>4, <1>5, <1>6, <1>7, <1>8, <1>9, <1>10, <1>11 DEF MailSteps, Files

\* What the mailbox, the owner, the pipeline and the endpoint do keeps rescued mails
\* on their way, and the delta.
LEMMA OthersKeepSeen ==
  ASSUME LTyped, SeenInv, NEW k \in Mails,
         \/ MailSteps(k) /\ ~ReadMail(k)
         \/ ApiPatches /\ k = api.mail
  PROVE  SeenInv'
<1>1. UNCHANGED tick
  BY DEF MailSteps, Files, Arrive, ProcessMail, ReadMailboxes, MoveToJunk, MarkNonjunk, InsertRow,
     FilingFails, Replay, DryReplay, OwnerTouches, OwnerMoves, ApiChecks, Purge, ApiPatches
<1>2. Changed(k) \/ Unchanged
  BY DEF MailSteps, Files, Arrive, ProcessMail, ReadMailboxes, MoveToJunk, MarkNonjunk, InsertRow,
     FilingFails, Replay, DryReplay, OwnerTouches, OwnerMoves, ApiChecks, Purge, ApiPatches,
     Unchanged
<1>3. HeldInDelta'
  BY <1>1, <1>2 DEF SeenInv, HeldInDelta, Changed, Unchanged
<1>4. ASSUME NEW m \in Mails, Rescued(m)', Restorable(m)' PROVE Seen(m)'
  <2>1. CASE Rescued(m) /\ Restorable(m)
    BY <1>1, <1>2, <2>1, OthersLeaveSeen DEF SeenInv
  <2>2. CASE m = k /\ Changed(k)
    BY <1>1, <2>2, ChangedIsOnItsWay DEF Seen
  <2> QED
    BY <1>4, <2>1, <2>2, RescueIsAChange
<1> QED
  BY <1>3, <1>4 DEF SeenInv

\* What the observer reads and counts of a rescued mail leads to its rows being
\* marked, or it is given up.
LEMMA TickKeepsSeen ==
  ASSUME LTyped, SeenInv,
         \/ \E m \in Mails : ReadMail(m)
         \/ Dispatch \/ Bootstrap \/ TickBegins \/ TickEnds \/ Crash
  PROVE  SeenInv'
<1>0. TickTyped /\ UNCHANGED <<box, rescued, unfiled>>
  BY DEF LTyped, ReadMail, Dispatch, ChooseExtractor, RecordEvidence, MarkRestored,
     LogObservation, DispatchRaises, Bootstrap, TickBegins, TickEnds, Crash
<1>1. ASSUME UNCHANGED rows, \A m \in Mails : Rescued(m) /\ Restorable(m) => Seen(m)',
             HeldInDelta'
      PROVE  SeenInv'
  BY <1>0, <1>1 DEF SeenInv, Rescued, Restorable, HasOpenDecision
<1>2. CASE Bootstrap
  BY <1>1, <1>2 DEF Bootstrap, SeenInv, HeldInDelta, Seen, OnItsWay
<1>3. CASE TickBegins
  <2>1. PICK answered \in SUBSET delta :
          /\ tick' = [NoTick EXCEPT !.pc = "run", !.todo = answered]
          /\ late' = delta \ answered
    BY <1>3 DEF TickBegins
  <2>2. tick'.pc = "run" /\ tick'.todo = answered
    BY <2>1 DEF NoTick
  <2> QED
    BY <1>1, <1>3, <2>1, <2>2 DEF TickBegins, SeenInv, HeldInDelta, Seen, OnItsWay
<1>4. ASSUME NEW k \in Mails, ReadMail(k) PROVE SeenInv'
  <2>1. /\ tick'.pc = "read" /\ tick'.todo = tick.todo \ {k} /\ tick'.mail = k
        /\ tick'.seen = box[k]
    BY <1>4 DEF ReadMail
  <2>2. \A m \in Mails : Rescued(m) /\ Restorable(m) => Seen(m)'
    BY <1>4, <2>1 DEF ReadMail, SeenInv, Seen, OnItsWay, Restorable
  <2>3. HeldInDelta'
    BY <1>4, <2>1 DEF ReadMail, SeenInv, HeldInDelta
  <2> QED
    BY <1>1, <1>4, <2>2, <2>3 DEF ReadMail
<1>5. ASSUME DispatchEnds, tick.pc \notin {"idle", "run"}, UNCHANGED delta
      PROVE  HeldInDelta' /\ tick'.pc = "run" /\ tick'.todo = tick.todo
  BY <1>5 DEF DispatchEnds, NoTick, SeenInv, HeldInDelta
<1>6. CASE ChooseExtractor
  <2>1. PICK found \in BOOLEAN :
          /\ \/ found = HasOpenDecision(tick.mail) /\ UNCHANGED skipped
             \/ ~found /\ skipped' = skipped \cup {tick.mail}
          /\ LET type == Extractor(tick.seen, found) IN
             IF type = "none" THEN DispatchEnds
             ELSE tick' = [tick EXCEPT !.pc = "count", !.type = type]
    BY <1>6 DEF ChooseExtractor
  <2>2. CASE Extractor(tick.seen, found) = "none"
    <3>1. HeldInDelta' /\ tick'.pc = "run" /\ tick'.todo = tick.todo
      BY <1>5, <1>6, <2>1, <2>2 DEF ChooseExtractor
    <3>2. \A m \in Mails : Rescued(m) /\ Restorable(m) => Seen(m)'
      BY <1>6, <2>1, <2>2, <3>1 DEF ChooseExtractor, SeenInv, Seen, OnItsWay, Restorable, Extractor
    <3> QED
      BY <1>1, <1>6, <3>1, <3>2 DEF ChooseExtractor
  <2>3. CASE Extractor(tick.seen, found) # "none"
    <3>1. /\ tick'.pc = "count" /\ tick'.type = Extractor(tick.seen, found)
          /\ tick'.todo = tick.todo /\ tick'.mail = tick.mail
      BY <1>0, <2>1, <2>3 DEF TickTyped
    <3>2. HeldInDelta'
      BY <1>6, <3>1 DEF ChooseExtractor, SeenInv, HeldInDelta
    <3>3. \A m \in Mails : Rescued(m) /\ Restorable(m) => Seen(m)'
      BY <1>6, <2>1, <3>1 DEF ChooseExtractor, SeenInv, Seen, OnItsWay, Restorable, Extractor
    <3> QED
      BY <1>1, <1>6, <3>2, <3>3 DEF ChooseExtractor
  <2> QED
    BY <2>2, <2>3
<1>7. CASE RecordEvidence
  <2>1. /\ tick'.pc = IF tick.type = "unmarked_spam" THEN "mark" ELSE "log"
        /\ tick'.todo = tick.todo /\ tick'.mail = tick.mail /\ tick'.type = tick.type
    BY <1>0, <1>7 DEF RecordEvidence, TickTyped
  <2> QED
    BY <1>1, <1>7, <2>1 DEF RecordEvidence, SeenInv, HeldInDelta, Seen, OnItsWay
<1>8. CASE MarkRestored
  <2>1. /\ tick'.pc = "log" /\ tick'.todo = tick.todo /\ tick'.mail = tick.mail
    BY <1>0, <1>8 DEF MarkRestored, TickTyped
  <2>2. PICK t : /\ Aged(rows[tick.mail], t) /\ rows' = [rows EXCEPT ![tick.mail] = t]
                 /\ \A i \in DOMAIN t : ~Open(t[i])
    BY <1>8, MarkRestoredAges
  <2>3. HeldInDelta'
    BY <1>8, <2>1 DEF MarkRestored, SeenInv, HeldInDelta
  <2>4. ASSUME NEW m \in Mails, Rescued(m)', Restorable(m)' PROVE Seen(m)'
    <3>1. m # tick.mail
      BY <2>2, <2>4 DEF Restorable, HasOpenDecision, LTyped
    <3>2. Rescued(m) /\ Restorable(m)
      BY <1>0, <2>2, <2>4, <3>1 DEF Rescued, Restorable, HasOpenDecision, LTyped
    <3> QED
      BY <1>8, <2>1, <3>1, <3>2 DEF MarkRestored, SeenInv, Seen, OnItsWay
  <2> QED
    BY <2>3, <2>4 DEF SeenInv
<1>9. CASE LogObservation \/ DispatchRaises
  <2>1. HeldInDelta' /\ tick'.pc = "run" /\ tick'.todo = tick.todo
    BY <1>5, <1>9 DEF LogObservation, DispatchRaises
  <2> QED
    BY <1>1, <1>9, <2>1 DEF LogObservation, DispatchRaises, SeenInv, Seen, OnItsWay
<1>10. CASE TickEnds
  BY <1>1, <1>10 DEF TickEnds, NoTick, SeenInv, HeldInDelta, Seen, OnItsWay
<1>11. CASE Crash
  BY <1>1, <1>11 DEF Crash, NoTick, SeenInv, HeldInDelta, Seen, OnItsWay
<1> QED
  BY <1>2, <1>3, <1>4, <1>6, <1>7, <1>8, <1>9, <1>10, <1>11 DEF Dispatch

\* Every step keeps the rescued mails on their way.
LEMMA SeenStep ==
  ASSUME LTyped, SeenInv, [LNext]_lvars
  PROVE  SeenInv'
<1>1. CASE \E m \in Mails : MailSteps(m) /\ ~ReadMail(m)
  BY <1>1, OthersKeepSeen
<1>2. CASE ApiPatches
  <2>1. api.mail \in Mails
    BY <1>2 DEF ApiPatches, LTyped, ApiTyped
  <2> QED
    BY <1>2, <2>1, OthersKeepSeen
<1>3. CASE ApiMarks
  <2>1. ASSUME NEW m \in Mails, Rescued(m)', Restorable(m)' PROVE Rescued(m) /\ Restorable(m)
    <3>1. rows[m] \in Seq(RowStates)
      BY DEF LTyped
    <3>2. Aged(rows[m], rows'[m])
      BY <1>3, <3>1, ApiMarksAges, AgedItself DEF LTyped
    <3> QED
      BY <1>3, <2>1, <3>2, AgedDecision DEF ApiMarks, Rescued, Restorable
  <2> QED
    BY <1>3, <2>1 DEF ApiMarks, SeenInv, HeldInDelta, Seen, OnItsWay
<1>4. CASE UNCHANGED lvars
  BY <1>4 DEF lvars, SeenInv, HeldInDelta, Seen, OnItsWay, Rescued, Restorable, HasOpenDecision
<1> QED
  BY <1>1, <1>2, <1>3, <1>4, TickKeepsSeen DEF LNext

\* A mail its owner rescued is on its way to the observer, with the exceptions
\* RescueIsSeen names, for any number of mails and events, however moves, ticks and
\* crashes interleave (observer.py run_tick).
THEOREM RescuesAreSeen == LSpec => []RescueIsSeen
<1>1. LInit => SeenInv
  BY DEF LInit, SeenInv, HeldInDelta, Rescued, NoTick
<1>2. LTyped /\ SeenInv => RescueIsSeen
  BY DEF RescueIsSeen, SeenInv, Rescued, Restorable, Seen
<1> QED
  BY <1>1, <1>2, SeenStep, LearningTyped, PTL DEF LSpec

------------------------------------------------------------------------------
(* Learned patterns (LearnedPatterns).                                        *)
(* TrustOutranksBlock is not inductive: what record_decision makes of a row   *)
(* depends on how far its confidence can have come, and what a health check   *)
(* has read is written later.  BlockCeiling says how far: block_sender stays  *)
(* at or below the hint it gets, which is no more than an active pattern has. *)

\* What is written back of a decayed confidence is at most seven tenths of the
\* whole.
LEMMA DecayLowers ==
  ASSUME NEW c \in Confidences
  PROVE  /\ DecayedConfidence(c) \in Confidences
         /\ DecayedConfidence(c) <= 70
BY DEF Confidences, DecayedConfidence

\* record_decision on a row: one piece of evidence more, and a confidence that was
\* at or below the hint stays there.
LEMMA BumpedRow ==
  ASSUME NEW p \in Rows, NEW h \in {85, 90, 95}, p.evidence < MaxEvidence
  PROVE  /\ Bumped(p, h) \in Rows
         /\ p.confidence <= h => Bumped(p, h).confidence <= h
<1>1. PICK c \in Confidences : c = p.confidence
  BY DEF Rows
<1> DEFINE smoothed == (7 * c + 3 * h + 5) \div 10
<1>2. /\ smoothed \in Confidences
      /\ c <= h => smoothed <= h
  BY DEF Confidences
<1> HIDE DEF smoothed
<1>3. CASE p.evidence = 0
  <2>1. Bumped(p, h) = [confidence |-> h, evidence |-> 1]
    BY <1>3 DEF Bumped
  <2> QED
    BY <1>3, <2>1, MaxEvidenceAssumption DEF Rows, Confidences
<1>4. CASE p.evidence # 0
  <2>1. Bumped(p, h) = [confidence |-> Larger(c, smoothed),
                        evidence   |-> p.evidence + 1]
    BY <1>1, <1>4 DEF Bumped, smoothed
  <2>2. Larger(c, smoothed) \in {c, smoothed}
    BY DEF Larger
  <2> QED
    BY <1>1, <1>2, <1>4, <2>1, <2>2, MaxEvidenceAssumption DEF Rows, Confidences
<1> QED
  BY <1>3, <1>4

\* The invariant.
BlockCeiling == PTypeOK /\ stored["block_sender"].confidence <= 90

\* At the start there is no row and no check.
LEMMA InitCeiling == PInit => BlockCeiling
BY MaxEvidenceAssumption
DEF PInit, BlockCeiling, PTypeOK, Rows, Confidences, PatternNames, NoPattern, NoCheck

\* Deleting a row.
LEMMA DeletionKeepsCeiling ==
  ASSUME BlockCeiling, NEW n \in PatternNames,
         stored' = [stored EXCEPT ![n] = NoPattern]
  PROVE  stored' \in [PatternNames -> Rows] /\ stored'["block_sender"].confidence <= 90
<1>1. NoPattern \in Rows /\ NoPattern.confidence = 0
  BY MaxEvidenceAssumption DEF NoPattern, Rows, Confidences
<1>2. "block_sender" \in PatternNames
  BY DEF PatternNames
<1> QED
  BY <1>1, <1>2 DEF BlockCeiling, PTypeOK

\* Every step keeps the ceiling.
LEMMA NextCeiling == BlockCeiling /\ [PNext]_pvars => BlockCeiling'
<1> SUFFICES ASSUME BlockCeiling, [PNext]_pvars PROVE BlockCeiling'
  OBVIOUS
<1> DEFINE Checks == [phase : {"idle", "asked", "read"}, name : PatternNames,
                      read : Confidences]
<1>t. stored \in [PatternNames -> Rows] /\ check \in Checks
  BY DEF BlockCeiling, PTypeOK
<1>n. "block_sender" \in PatternNames
  BY DEF PatternNames
<1>i. NoCheck \in Checks
  BY DEF NoCheck, PatternNames, Confidences
<1>1. ASSUME NEW n \in PatternNames, Record(n) PROVE BlockCeiling'
  <2>1. /\ stored[n] \in Rows /\ stored[n].evidence < MaxEvidence
        /\ stored' = [stored EXCEPT ![n] = Bumped(stored[n], Hint(n))]
        /\ UNCHANGED check
    BY <1>1, <1>t DEF Record
  <2>2. Hint(n) \in {85, 90, 95} /\ (n = "block_sender" => Hint(n) = 90)
    BY DEF PatternNames, Hint
  <2>3. /\ Bumped(stored[n], Hint(n)) \in Rows
        /\ stored[n].confidence <= Hint(n) => Bumped(stored[n], Hint(n)).confidence <= Hint(n)
    BY <2>1, <2>2, BumpedRow
  <2>4. /\ stored' \in [PatternNames -> Rows]
        /\ stored'[n] = Bumped(stored[n], Hint(n))
        /\ \A o \in PatternNames \ {n} : stored'[o] = stored[o]
    BY <1>t, <2>1, <2>3
  <2>5. stored'["block_sender"].confidence <= 90
    BY <1>n, <2>2, <2>3, <2>4 DEF BlockCeiling
  <2> QED
    BY <1>t, <2>1, <2>4, <2>5 DEF BlockCeiling, PTypeOK
<1>2. ASSUME NEW n \in PatternNames, Forget(n) PROVE BlockCeiling'
  <2>1. stored' \in [PatternNames -> Rows] /\ stored'["block_sender"].confidence <= 90
    BY <1>2, DeletionKeepsCeiling DEF Forget
  <2> QED
    BY <1>2, <1>t, <2>1 DEF Forget, BlockCeiling, PTypeOK
<1>3. ASSUME NEW n \in PatternNames, Judge(n) PROVE BlockCeiling'
  <2>1. check' \in Checks
    BY <1>3, <1>t DEF Judge
  <2> QED
    BY <1>3, <2>1 DEF Judge, BlockCeiling, PTypeOK
<1>4. CASE Confirm
  BY <1>4, <1>i DEF Confirm, BlockCeiling, PTypeOK
<1>5. CASE ReadToDecay
  <2>1. stored[check.name].confidence \in Confidences
    BY <1>t DEF Rows
  <2>2. check' = NoCheck
        \/ check' = [check EXCEPT !.phase = "read", !.read = stored[check.name].confidence]
    BY <1>5 DEF ReadToDecay
  <2>3. check' \in Checks
    BY <1>t, <1>i, <2>1, <2>2
  <2> QED
    BY <1>5, <2>3 DEF ReadToDecay, BlockCeiling, PTypeOK
<1>6. CASE WriteDecayed
  <2> DEFINE c == DecayedConfidence(check.read)
  <2>1. check' = NoCheck /\ check.name \in PatternNames
    BY <1>6, <1>t DEF WriteDecayed
  <2>2. c \in Confidences /\ c <= 70
    BY <1>t, DecayLowers
  <2>3. stored' \in [PatternNames -> Rows] /\ stored'["block_sender"].confidence <= 90
    <3>1. CASE stored' = [stored EXCEPT ![check.name] = NoPattern]
      BY <2>1, <3>1, DeletionKeepsCeiling
    <3>2. CASE stored' = [stored EXCEPT ![check.name].confidence = c]
      <4> HIDE DEF c
      <4>1. /\ stored' \in [PatternNames -> Rows]
            /\ stored'[check.name].confidence = c
            /\ \A o \in PatternNames \ {check.name} : stored'[o] = stored[o]
        BY <1>t, <2>1, <2>2, <3>2 DEF Rows
      <4>2. c <= 90
        BY <2>2 DEF Confidences
      <4> QED
        BY <1>n, <4>1, <4>2 DEF BlockCeiling
    <3> QED
      BY <1>6, <3>1, <3>2 DEF WriteDecayed
  <2> QED
    BY <1>i, <2>1, <2>3 DEF BlockCeiling, PTypeOK
<1>7. CASE UNCHANGED pvars
  BY <1>7 DEF pvars, BlockCeiling, PTypeOK
<1> QED
  BY <1>1, <1>2, <1>3, <1>4, <1>5, <1>6, <1>7 DEF PNext

\* The ceiling holds in every state.
LEMMA CeilingHolds == PSpec => []BlockCeiling
BY InitCeiling, NextCeiling, PTL DEF PSpec

\* The rows and the health check stay well typed: confidences between 0 and 1,
\* whatever the transactions of the check interleave with.
THEOREM PatternsTypeCorrect == PSpec => []PTypeOK
<1>1. BlockCeiling => PTypeOK
  BY DEF BlockCeiling
<1> QED
  BY <1>1, CeilingHolds, PTL

\* block_sender never prevails over an active trust_sender: learned_patterns.py
\* record_decision and decay_confidence, for any number of decisions, health checks
\* and deletions in any order.
THEOREM TrustPrevails == PSpec => []TrustOutranksBlock
<1>1. BlockCeiling => TrustOutranksBlock
  <2> SUFFICES ASSUME BlockCeiling PROVE TrustOutranksBlock
    OBVIOUS
  <2>1. /\ stored["trust_sender"].confidence \in Confidences
        /\ stored["block_sender"].confidence \in Confidences
    BY DEF BlockCeiling, PTypeOK, Rows, PatternNames
  <2> QED
    BY <2>1 DEF BlockCeiling, TrustOutranksBlock, Active, ActivationThreshold, Confidences
<1> QED
  BY <1>1, CeilingHolds, PTL

------------------------------------------------------------------------------
(* A run of the graph (MailPipeline).                                         *)
(* How far a run is says what it can have done: nothing before the triage     *)
(* but to learn, and after a move to Junk, whose output was not dropped,      *)
(* nothing at all.                                                            *)

\* Everything that a node can do.
Effects == {"learn", "label", "nonjunk", "moved", "$junk", "row", "phishing mission", "touch",
            "draft", "draft mission", "label:X", "block_sender"} \cup RuleActions

\* What is in a sequence, whatever its order.
Items(s) == {s[i] : i \in DOMAIN s}

\* Concatenation unites.
LEMMA ItemsOfConcat ==
  ASSUME NEW S, NEW s \in Seq(S), NEW t \in Seq(S)
  PROVE  s \o t \in Seq(S) /\ Items(s \o t) = Items(s) \cup Items(t)
<1> DEFINE u == s \o t
<1>1. /\ u \in Seq(S) /\ Len(u) = Len(s) + Len(t)
      /\ \A i \in 1..(Len(s) + Len(t)) : u[i] = IF i <= Len(s) THEN s[i] ELSE t[i - Len(s)]
  BY ConcatProperties
<1>2. Len(s) \in Nat /\ Len(t) \in Nat /\ DOMAIN s = 1..Len(s) /\ DOMAIN t = 1..Len(t)
      /\ DOMAIN u = 1..(Len(s) + Len(t))
  BY <1>1
<1> HIDE DEF u
<1>3. ASSUME NEW i \in DOMAIN u PROVE u[i] \in Items(s) \cup Items(t)
  <2>1. CASE i <= Len(s)
    BY <1>1, <1>2, <2>1 DEF Items
  <2>2. CASE ~(i <= Len(s))
    <3>1. i - Len(s) \in DOMAIN t /\ u[i] = t[i - Len(s)]
      BY <1>1, <1>2, <2>2
    <3>2. QED
      BY <3>1 DEF Items
  <2>3. QED
    BY <2>1, <2>2
<1>4. ASSUME NEW i \in DOMAIN s PROVE s[i] \in Items(u)
  <2>1. i \in DOMAIN u /\ u[i] = s[i]
    BY <1>1, <1>2
  <2>2. QED
    BY <2>1 DEF Items
<1>5. ASSUME NEW i \in DOMAIN t PROVE t[i] \in Items(u)
  <2>1. i + Len(s) \in DOMAIN u /\ u[i + Len(s)] = t[i]
    BY <1>1, <1>2
  <2>2. QED
    BY <2>1 DEF Items
<1>6. Items(u) = Items(s) \cup Items(t)
  BY <1>3, <1>4, <1>5 DEF Items
<1>7. QED
  BY <1>1, <1>6 DEF u

\* What a node does before it fails is part of what it does.
LEMMA ItemsOfPrefix ==
  ASSUME NEW S, NEW s \in Seq(S), NEW k \in 0..Len(s)
  PROVE  SubSeq(s, 1, k) \in Seq(S) /\ Items(SubSeq(s, 1, k)) \subseteq Items(s)
<1> DEFINE u == SubSeq(s, 1, k)
<1>1. Len(s) \in Nat /\ k \in Nat /\ DOMAIN s = 1..Len(s)
  OBVIOUS
<1>2. \A i \in 1..k : s[i] \in S
  BY <1>1
<1>3. /\ u \in Seq(S) /\ Len(u) = k
      /\ \A i \in 1..k : u[i] = s[i]
  BY <1>1, <1>2, SubSeqProperties
<1>4. DOMAIN u = 1..k
  BY <1>3
<1> HIDE DEF u
<1>5. Items(u) \subseteq Items(s)
  BY <1>1, <1>3, <1>4 DEF Items
<1>6. QED
  BY <1>3, <1>5 DEF u

\* What a node leaves, whether it returned or its output was dropped.
LEMMA ResilientLeaves ==
  ASSUME done \in Seq(Effects), NEW effects \in Seq(Effects), NEW output,
         Resilient(effects, output)
  PROVE  /\ done' \in Seq(Effects) /\ Items(done) \subseteq Items(done')
         /\ Items(done') \subseteq Items(done) \cup Items(effects)
         /\ \/ /\ Items(done') = Items(done) \cup Items(effects)
               /\ state' = output /\ dropped' = dropped
            \/ /\ state' = state /\ dropped' = dropped \cup {node}
               /\ Cardinality(dropped) < MaxDropped
         /\ UNCHANGED <<mail, keywords, filter, pattern, rules, edits>>
<1>1. UNCHANGED <<mail, keywords, filter, pattern, rules, edits>>
  BY DEF Resilient
<1>2. CASE done' = done \o effects /\ state' = output /\ dropped' = dropped
  <2>1. done' \in Seq(Effects) /\ Items(done') = Items(done) \cup Items(effects)
    BY <1>2, ItemsOfConcat
  <2>2. QED
    BY <1>1, <1>2, <2>1
<1>3. CASE /\ Cardinality(dropped) < MaxDropped
           /\ \E k \in 0..Len(effects) : done' = done \o SubSeq(effects, 1, k)
           /\ dropped' = dropped \cup {node} /\ state' = state
  <2>1. PICK k \in 0..Len(effects) : done' = done \o SubSeq(effects, 1, k)
    BY <1>3
  <2>2. /\ SubSeq(effects, 1, k) \in Seq(Effects)
        /\ Items(SubSeq(effects, 1, k)) \subseteq Items(effects)
    BY ItemsOfPrefix
  <2> DEFINE begun == SubSeq(effects, 1, k)
  <2>3. begun \in Seq(Effects) /\ done' = done \o begun /\ Items(begun) \subseteq Items(effects)
    BY <2>1, <2>2
  <2> HIDE DEF begun
  <2>4. done' \in Seq(Effects) /\ Items(done') = Items(done) \cup Items(begun)
    BY <2>3, ItemsOfConcat
  <2>5. QED
    BY <1>1, <1>3, <2>3, <2>4
<1>4. QED
  BY <1>2, <1>3 DEF Resilient

------------------------------------------------------------------------------
(* The invariant. *)

\* Who chose the rule of a run.
Ways == {"none", "learned_pattern", "static", "ai"}

\* MailAgentState.  The name of a rule may be anything that the model invents.
Agent(s) ==
  s \in [thread : BOOLEAN, by : Ways, rule : {s.rule}, bucket : ModelBuckets \cup {"none"},
         status : {"none", "TO_REPLY", "AWAITING_REPLY", "FYI"},
         actions : Seq(Effects), draft : BOOLEAN]

\* The types that the steps need.
MTyped ==
  /\ mail \in Samples /\ Agent(state) /\ done \in Seq(Effects)
  /\ DOMAIN rules \subseteq DOMAIN StoredRules /\ rules \in [DOMAIN rules -> Rule]
  /\ IsFiniteSet(dropped) /\ Cardinality(dropped) <= MaxDropped
  /\ edits \in Nat /\ edits <= MaxEdits

\* How far the run is says what it can have done.
NothingYet == node \in {"load_thread", "match_rules"} => Items(done) = {} /\ state.by = "none"
\* A run for which a pattern has chosen does not come to the triage, and no other has
\* done more than to learn by then.
OnlyLearned ==
  node \in {"learn_pattern", "spam_triage"} =>
    Items(done) \subseteq {"learn"} /\ state.by # "learned_pattern"

\* A triage that came to its end after the move has written the row and ended the run.
MoveEndsTheRun ==
  ("spam_triage" \notin dropped /\ "moved" \in Items(done)) =>
    /\ node = "end" /\ "row" \in Items(done)
    /\ Items(done) \cap (OfRules \cup {"draft", "touch"}) = {}

\* The invariant.
PipelineInv == MTyped /\ NothingYet /\ OnlyLearned /\ MoveEndsTheRun

------------------------------------------------------------------------------
(* What the nodes do. *)

\* Sequences of up to three effects.
LEMMA ItemsOfShort ==
  /\ <<>> \in Seq(Effects) /\ Items(<<>>) = {}
  /\ \A a \in Effects : <<a>> \in Seq(Effects) /\ Items(<<a>>) = {a}
  /\ \A a, b \in Effects : <<a, b>> \in Seq(Effects) /\ Items(<<a, b>>) = {a, b}
  /\ \A a, b, c \in Effects : <<a, b, c>> \in Seq(Effects) /\ Items(<<a, b, c>>) = {a, b, c}
<1>1. /\ DOMAIN <<>> = {} /\ \A a : DOMAIN <<a>> = {1}
      /\ \A a, b : DOMAIN <<a, b>> = {1, 2}
      /\ \A a, b, c : DOMAIN <<a, b, c>> = {1, 2, 3}
  OBVIOUS
<1>2. QED
  BY <1>1 DEF Items

\* What the triage does before it ends the run, and what it does to a newsletter.
LEMMA TerminatingDoes ==
  ASSUME NEW bucket \in ModelBuckets \ {"pass"}, NEW effects \in Terminating(bucket)
  PROVE  /\ effects \in Seq(Effects)
         /\ Items(effects) \subseteq
              {"label", "nonjunk", "moved", "$junk", "row", "phishing mission"}
         /\ "row" \in Items(effects)
         /\ bucket = "newsletter" => "moved" \notin Items(effects)
<1>1. CASE bucket = "newsletter"
  <2>1. effects = <<"label", "nonjunk", "row">>
    BY <1>1 DEF Terminating
  <2>2. "label" \in Effects /\ "nonjunk" \in Effects /\ "row" \in Effects
    BY DEF Effects
  <2>3. effects \in Seq(Effects) /\ Items(effects) = {"label", "nonjunk", "row"}
    BY <2>1, <2>2, ItemsOfShort
  <2>4. QED
    BY <2>3
<1>2. CASE bucket # "newsletter"
  <2>1. PICK move \in {"moved", "$junk"} :
          effects = <<"label", move, "row">> \o
            (IF bucket = "phishing-alert" THEN <<"phishing mission">> ELSE <<>>)
    BY <1>2 DEF Terminating
  <2> DEFINE first == <<"label", move, "row">>
             rest  == IF bucket = "phishing-alert" THEN <<"phishing mission">> ELSE <<>>
  <2>2. first \in Seq(Effects) /\ Items(first) = {"label", move, "row"}
    BY ItemsOfShort DEF Effects
  <2>3. rest \in Seq(Effects) /\ Items(rest) \subseteq {"phishing mission"}
    BY ItemsOfShort DEF Effects
  <2>4. effects = first \o rest
    BY <2>1
  <2> HIDE DEF first, rest
  <2>5. effects \in Seq(Effects) /\ Items(effects) = Items(first) \cup Items(rest)
    <3>1. first \in Seq(Effects) /\ rest \in Seq(Effects)
      BY <2>2, <2>3
    <3>2. first \o rest \in Seq(Effects) /\ Items(first \o rest) = Items(first) \cup Items(rest)
      BY <3>1, ItemsOfConcat
    <3>3. QED
      BY <2>4, <3>2
  <2>6. QED
    BY <1>2, <2>2, <2>3, <2>5
<1>3. QED
  BY <1>1, <1>2

\* What apply_actions is given is an effect sequence, for a learned pattern one of the
\* synthetic ones.
LEMMA ActionsAreEffects ==
  ASSUME rules \in [DOMAIN rules -> Rule], NEW rule
  PROVE  /\ Synthetic(rule) \in Seq(Effects)
         /\ Items(Synthetic(rule)) \subseteq {"label:X", "block_sender"}
         /\ StoredActions(rule) \in Seq(Effects)
         /\ Items(StoredActions(rule)) \subseteq RuleActions
<1>1. /\ Synthetic(rule) \in Seq(Effects)
      /\ Items(Synthetic(rule)) \subseteq {"label:X", "block_sender"}
  <2>1. Synthetic(rule) \in {<<>>, <<"label:X">>, <<"block_sender">>}
    BY DEF Synthetic
  <2>2. "label:X" \in Effects /\ "block_sender" \in Effects
    BY DEF Effects
  <2>3. /\ <<"label:X">> \in Seq(Effects) /\ Items(<<"label:X">>) = {"label:X"}
        /\ <<"block_sender">> \in Seq(Effects) /\ Items(<<"block_sender">>) = {"block_sender"}
        /\ <<>> \in Seq(Effects) /\ Items(<<>>) = {}
    BY <2>2, ItemsOfShort
  <2>4. QED
    BY <2>1, <2>3
<1>2. StoredActions(rule) \in Seq(RuleActions)
  <2>1. CASE rule \in DOMAIN rules /\ rules[rule].enabled
    <3>1. rules[rule] \in Rule
      BY <2>1
    <3>2. rules[rule].actions \in Seq(RuleActions)
      BY <3>1 DEF Rule
    <3>3. QED
      BY <2>1, <3>2 DEF StoredActions
  <2>2. CASE ~(rule \in DOMAIN rules /\ rules[rule].enabled)
    BY <2>2 DEF StoredActions
  <2>3. QED
    BY <2>1, <2>2
<1>3. StoredActions(rule) \in Seq(Effects)
  <2>1. RuleActions \subseteq Effects
    BY DEF Effects
  <2>2. QED
    BY <1>2, <2>1
<1>4. Items(StoredActions(rule)) \subseteq RuleActions
  BY <1>2 DEF Items
<1>5. QED
  BY <1>1, <1>3, <1>4

\* A node is typed when its output is: the run's other variables stay, and no more
\* nodes are dropped than may be.
LEMMA ResilientTyped ==
  ASSUME MTyped, NEW effects \in Seq(Effects), NEW output, Agent(output),
         Resilient(effects, output)
  PROVE  MTyped'
<1> USE PipelineAssumption DEF PipelineAssumption
<1>1. /\ done' \in Seq(Effects)
      /\ \/ state' = output /\ dropped' = dropped
         \/ /\ state' = state /\ dropped' = dropped \cup {node}
            /\ Cardinality(dropped) < MaxDropped
      /\ UNCHANGED <<mail, keywords, filter, pattern, rules, edits>>
  BY ResilientLeaves DEF MTyped
<1>2. Agent(state')
  BY <1>1 DEF MTyped
<1>3. Agent(state)'
  BY <1>2 DEF Agent
<1>4. IsFiniteSet(dropped') /\ Cardinality(dropped') <= MaxDropped
  <2> DEFINE more == dropped \cup {node}
  <2>1. IsFiniteSet(dropped) /\ Cardinality(dropped) <= MaxDropped
    BY DEF MTyped
  <2>2. Cardinality(dropped) \in Nat
    BY <2>1, FS_CardinalityType
  <2>3. IsFiniteSet(more)
        /\ Cardinality(more) = IF node \in dropped THEN Cardinality(dropped)
                               ELSE Cardinality(dropped) + 1
    BY <2>1, FS_AddElement
  <2>4. dropped' = dropped \/ (dropped' = more /\ Cardinality(dropped) < MaxDropped)
    BY <1>1
  <2> HIDE DEF more
  <2>5. CASE dropped' = dropped
    BY <2>1, <2>5
  <2>6. CASE dropped' = more /\ Cardinality(dropped) < MaxDropped
    <3>1. Cardinality(more) <= MaxDropped
      BY <2>2, <2>3, <2>6
    <3>2. QED
      BY <2>3, <2>6, <3>1
  <2>7. QED
    BY <2>4, <2>5, <2>6
<1>5. QED
  BY <1>1, <1>3, <1>4 DEF MTyped

\* A run starts with nothing done.
LEMMA PipelineInvInit == MInit => PipelineInv
<1> SUFFICES ASSUME MInit PROVE PipelineInv
  OBVIOUS
<1> USE PipelineAssumption DEF PipelineAssumption
<1>1. done = <<>> /\ state = Fresh /\ node = "load_thread" /\ dropped = {}
  BY DEF MInit
<1>2. done \in Seq(Effects) /\ Items(done) = {}
  BY <1>1, ItemsOfShort
<1>3. Agent(state)
  BY <1>1 DEF Agent, Fresh, Ways
<1>4. IsFiniteSet(dropped) /\ Cardinality(dropped) = 0
  BY <1>1, FS_EmptySet
<1>5. MTyped
  BY <1>2, <1>3, <1>4 DEF MInit, MTyped
<1>6. state.by = "none"
  BY <1>1 DEF Fresh
<1>7. QED
  BY <1>1, <1>2, <1>5, <1>6
     DEF PipelineInv, NothingYet, OnlyLearned, MoveEndsTheRun

\* The nodes one by one.
LEMMA LoadKeeps ==
  ASSUME PipelineInv, load_thread
  PROVE  PipelineInv'
<1> DEFINE output == [state EXCEPT !.thread = TRUE]
<1>1. Resilient(<<>>, output) /\ node = "load_thread" /\ node' = "match_rules"
  BY DEF load_thread
<1>2. Agent(output) /\ output.by = state.by
  BY DEF PipelineInv, MTyped, Agent
<1> HIDE DEF output
<1>3. MTyped'
  BY <1>1, <1>2, ResilientTyped, ItemsOfShort DEF PipelineInv
<1>4. Items(done') = {} /\ state'.by = "none"
  BY <1>1, <1>2, ResilientLeaves, ItemsOfShort DEF PipelineInv, MTyped, NothingYet
<1>5. Items(done)' = Items(done')
  BY DEF Items
<1>6. QED
  BY <1>1, <1>3, <1>4, <1>5
     DEF PipelineInv, NothingYet, OnlyLearned, MoveEndsTheRun

\* Rules, patterns or the model choose; only a pattern leads past the triage.
LEMMA MatchKeeps ==
  ASSUME PipelineInv, match_rules
  PROVE  PipelineInv'
<1>1. PICK match \in Matches : Resilient(<<>>, [state EXCEPT !.by = match[1], !.rule = match[2]])
  BY DEF match_rules
<1> DEFINE output == [state EXCEPT !.by = match[1], !.rule = match[2]]
<1>2. node = "match_rules" /\ node' = AfterMatch(state'.by) /\ Resilient(<<>>, output)
  BY <1>1 DEF match_rules
<1>3. match[1] \in Ways
  BY DEF Matches, Ways
<1>4. Agent(output)
  BY <1>3 DEF PipelineInv, MTyped, Agent
<1> HIDE DEF output
<1>5. MTyped'
  BY <1>2, <1>4, ResilientTyped, ItemsOfShort DEF PipelineInv
<1>6. Items(done') = {}
  BY <1>2, ResilientLeaves, ItemsOfShort DEF PipelineInv, MTyped, NothingYet
<1>7. Items(done)' = Items(done')
  BY DEF Items
<1>8. node' \in {"apply_actions", "learn_pattern", "spam_triage"}
      /\ (node' # "apply_actions" => state'.by # "learned_pattern")
  BY <1>2 DEF AfterMatch
<1>9. QED
  BY <1>5, <1>6, <1>7, <1>8
     DEF PipelineInv, NothingYet, OnlyLearned, MoveEndsTheRun

\* A choice of the model may be learned from.
LEMMA LearnKeeps ==
  ASSUME PipelineInv, learn_pattern
  PROVE  PipelineInv'
<1>1. PICK effects \in {<<>>, <<"learn">>} : Resilient(effects, state)
  BY DEF learn_pattern
<1>2. node = "learn_pattern" /\ node' = "spam_triage"
  BY DEF learn_pattern
<1>3. effects \in Seq(Effects) /\ Items(effects) \subseteq {"learn"}
  <2>1. "learn" \in Effects
    BY DEF Effects
  <2>2. <<"learn">> \in Seq(Effects) /\ Items(<<"learn">>) = {"learn"}
    BY <2>1, ItemsOfShort
  <2>3. QED
    BY <1>1, <2>2, ItemsOfShort
<1>4. MTyped'
  BY <1>1, <1>3, ResilientTyped DEF PipelineInv, MTyped
<1>5. Items(done') \subseteq {"learn"} /\ state' = state
  BY <1>1, <1>2, <1>3, ResilientLeaves DEF PipelineInv, MTyped, OnlyLearned
<1>6. Items(done)' = Items(done')
  BY DEF Items
<1>7. state'.by # "learned_pattern"
  BY <1>2, <1>5 DEF PipelineInv, OnlyLearned
<1>8. QED
  BY <1>2, <1>4, <1>5, <1>6, <1>7
     DEF PipelineInv, NothingYet, OnlyLearned, MoveEndsTheRun

\* The triage: with an output, a move means the row and the end of the run.
LEMMA TriageKeeps ==
  ASSUME PipelineInv, spam_triage
  PROVE  PipelineInv'
<1>1. PICK bucket \in TriageBuckets :
        \E effects \in IF bucket = "pass" THEN {<<>>} ELSE Terminating(bucket) :
          Resilient(effects, [state EXCEPT !.bucket = bucket])
  BY DEF spam_triage
<1> DEFINE output == [state EXCEPT !.bucket = bucket]
<1>2. PICK effects \in IF bucket = "pass" THEN {<<>>} ELSE Terminating(bucket) :
        Resilient(effects, output)
  BY <1>1
<1>3. node = "spam_triage" /\ node' = AfterTriage(state'.bucket)
  BY DEF spam_triage
<1>4. bucket \in ModelBuckets
  BY DEF TriageBuckets, Triage, ModelBuckets
<1>5. Agent(output) /\ output.by = state.by /\ output.bucket = bucket
  BY <1>4 DEF PipelineInv, MTyped, Agent
<1>6. /\ effects \in Seq(Effects)
      /\ Items(effects) \subseteq {"label", "nonjunk", "moved", "$junk", "row", "phishing mission"}
      /\ "moved" \in Items(effects) => "row" \in Items(effects) /\ bucket \in JunkBuckets
  <2>1. CASE bucket = "pass"
    BY <1>2, <2>1, ItemsOfShort
  <2>2. CASE bucket # "pass"
    <3>1. bucket \in ModelBuckets \ {"pass"} /\ effects \in Terminating(bucket)
      BY <1>2, <1>4, <2>2
    <3>2. QED
      BY <3>1, TerminatingDoes DEF ModelBuckets, JunkBuckets
  <2>3. QED
    BY <2>1, <2>2
<1> HIDE DEF output
<1>7. MTyped'
  BY <1>2, <1>5, <1>6, ResilientTyped DEF PipelineInv
<1>8. /\ Items(done') \subseteq {"learn", "label", "nonjunk", "moved", "$junk", "row",
                                 "phishing mission"}
      /\ \/ /\ Items(done') = Items(done) \cup Items(effects) /\ state' = output
         \/ state' = state /\ "spam_triage" \in dropped'
  BY <1>2, <1>3, <1>6, ResilientLeaves DEF PipelineInv, MTyped, OnlyLearned
<1>9. Items(done)' = Items(done') /\ "moved" \notin Items(done)
  BY <1>3 DEF Items, PipelineInv, OnlyLearned
<1>10. node' \in {"end", "apply_actions"} /\ state'.by # "learned_pattern"
  BY <1>3, <1>5, <1>8 DEF AfterTriage, PipelineInv, OnlyLearned
<1>11. ("spam_triage" \notin dropped' /\ "moved" \in Items(done')) =>
         node' = "end" /\ "row" \in Items(done')
  BY <1>3, <1>5, <1>6, <1>8, <1>9 DEF AfterTriage
<1>12. Items(done') \cap (OfRules \cup {"draft", "touch"}) = {}
  BY <1>8 DEF OfRules
<1>13. QED
  BY <1>7, <1>9, <1>10, <1>11, <1>12
     DEF PipelineInv, NothingYet, OnlyLearned, MoveEndsTheRun

\* The nodes after the triage move nothing to Junk, so no move came before them that
\* should have ended the run.
LEMMA LaterNodesKeep ==
  ASSUME PipelineInv, NEW effects \in Seq(Effects), NEW output, Agent(output),
         output.by = state.by, "moved" \notin Items(effects),
         Resilient(effects, output), node # "end",
         node' \notin {"load_thread", "match_rules", "learn_pattern", "spam_triage"}
  PROVE  PipelineInv'
<1>1. MTyped'
  BY ResilientTyped DEF PipelineInv
<1>2. /\ Items(done') \subseteq Items(done) \cup Items(effects)
      /\ dropped \subseteq dropped' /\ state'.by = state.by
  BY ResilientLeaves DEF PipelineInv, MTyped
<1>3. Items(done)' = Items(done')
  BY DEF Items
<1>4. MoveEndsTheRun'
  BY <1>2, <1>3 DEF PipelineInv, MoveEndsTheRun
<1>5. QED
  BY <1>1, <1>4 DEF PipelineInv, NothingYet, OnlyLearned

\* The actions of the rule, if it still exists, or the synthetic ones of a pattern.
LEMMA ApplyKeeps ==
  ASSUME PipelineInv, apply_actions
  PROVE  PipelineInv'
<1> DEFINE actions == IF ~state.thread \/ state.rule = "none" THEN <<>>
                      ELSE IF state.by = "learned_pattern" THEN Synthetic(state.rule)
                      ELSE StoredActions(state.rule)
           output == [state EXCEPT !.actions = actions]
<1>1. Resilient(actions, output) /\ node = "apply_actions" /\ node' = "thread_status"
  BY DEF apply_actions
<1>2. actions \in Seq(Effects) /\ "moved" \notin Items(actions)
  <2>1. rules \in [DOMAIN rules -> Rule]
    BY DEF PipelineInv, MTyped
  <2>2. CASE ~state.thread \/ state.rule = "none"
    BY <2>2, ItemsOfShort
  <2>3. CASE ~(~state.thread \/ state.rule = "none") /\ state.by = "learned_pattern"
    <3>1. actions = Synthetic(state.rule)
      BY <2>3
    <3>2. QED
      BY <2>1, <3>1, ActionsAreEffects
  <2>4. CASE ~(~state.thread \/ state.rule = "none") /\ state.by # "learned_pattern"
    <3>1. actions = StoredActions(state.rule)
      BY <2>4
    <3>2. "moved" \notin RuleActions
      BY DEF RuleActions, OfRules
    <3>3. QED
      BY <2>1, <2>4, <3>1, <3>2, ActionsAreEffects
  <2>5. QED
    BY <2>2, <2>3, <2>4
<1> HIDE DEF actions
<1>3. Agent(output) /\ output.by = state.by
  BY <1>2 DEF PipelineInv, MTyped, Agent
<1> HIDE DEF output
<1>4. QED
  BY <1>1, <1>2, <1>3, LaterNodesKeep

\* The status of the thread.
LEMMA StatusKeeps ==
  ASSUME PipelineInv, thread_status
  PROVE  PipelineInv'
<1>1. PICK status \in {"TO_REPLY", "AWAITING_REPLY", "FYI"} :
        Resilient(<<>>, [state EXCEPT !.status = status])
  BY DEF thread_status
<1> DEFINE output == [state EXCEPT !.status = status]
<1>2. Resilient(<<>>, output) /\ node = "thread_status" /\ node' \in {"select_memories", "end"}
  BY <1>1 DEF thread_status, AfterStatus
<1>3. Agent(output) /\ output.by = state.by
  BY DEF PipelineInv, MTyped, Agent
<1> HIDE DEF output
<1>4. QED
  BY <1>2, <1>3, ItemsOfShort, LaterNodesKeep

\* Memories are selected, and touched.
LEMMA SelectKeeps ==
  ASSUME PipelineInv, select_memories
  PROVE  PipelineInv'
<1>1. PICK effects \in {<<>>, <<"touch">>} : Resilient(effects, state)
  BY DEF select_memories
<1>2. effects \in Seq(Effects) /\ Items(effects) \subseteq {"touch"}
  <2>1. "touch" \in Effects
    BY DEF Effects
  <2>2. <<"touch">> \in Seq(Effects) /\ Items(<<"touch">>) = {"touch"}
    BY <2>1, ItemsOfShort
  <2>3. QED
    BY <1>1, <2>2, ItemsOfShort
<1>3. node = "select_memories" /\ node' = "draft_reply"
  BY DEF select_memories
<1>4. QED
  BY <1>1, <1>2, <1>3, LaterNodesKeep DEF PipelineInv, MTyped

\* The draft.
LEMMA DraftKeeps ==
  ASSUME PipelineInv, draft_reply
  PROVE  PipelineInv'
<1>1. PICK effects \in {<<>>, <<"draft", "draft mission">>} :
        Resilient(effects, [state EXCEPT !.draft = TRUE])
  BY DEF draft_reply
<1> DEFINE output == [state EXCEPT !.draft = TRUE]
<1>2. effects \in Seq(Effects) /\ Items(effects) \subseteq {"draft", "draft mission"}
  <2>1. "draft" \in Effects /\ "draft mission" \in Effects
    BY DEF Effects
  <2>2. <<"draft", "draft mission">> \in Seq(Effects) /\ Items(<<"draft", "draft mission">>) = {"draft", "draft mission"}
    BY <2>1, ItemsOfShort
  <2>3. QED
    BY <1>1, <2>2, ItemsOfShort
<1>3. Resilient(effects, output) /\ node = "draft_reply" /\ node' = "end"
  BY <1>1 DEF draft_reply
<1>4. Agent(output) /\ output.by = state.by
  BY DEF PipelineInv, MTyped, Agent
<1> HIDE DEF output
<1>5. QED
  BY <1>2, <1>3, <1>4, LaterNodesKeep

\* The owner changes the rules under the run.
LEMMA EditKeeps ==
  ASSUME PipelineInv, EditRules
  PROVE  PipelineInv'
<1> USE PipelineAssumption DEF PipelineAssumption
<1>1. /\ edits' = edits + 1 /\ edits < MaxEdits
      /\ UNCHANGED <<mail, keywords, filter, pattern, node, state, done, dropped>>
  BY DEF EditRules
<1>2. PICK n \in DOMAIN rules :
        \/ rules' = [rules EXCEPT ![n].enabled = ~@]
        \/ rules' = [o \in DOMAIN rules \ {n} |-> rules[o]]
  BY DEF EditRules
<1>3. rules \in [DOMAIN rules -> Rule] /\ DOMAIN rules \subseteq DOMAIN StoredRules
  BY DEF PipelineInv, MTyped
<1>4. DOMAIN rules' \subseteq DOMAIN StoredRules /\ rules' \in [DOMAIN rules' -> Rule]
  <2>1. CASE rules' = [rules EXCEPT ![n].enabled = ~@]
    <3>1. rules[n] \in Rule
      BY <1>3
    <3>2. [rules[n] EXCEPT !.enabled = ~@] \in Rule
      BY <3>1 DEF Rule
    <3>3. rules' = [rules EXCEPT ![n] = [rules[n] EXCEPT !.enabled = ~@]]
      BY <2>1
    <3>4. QED
      BY <1>3, <3>2, <3>3
  <2>2. CASE rules' = [o \in DOMAIN rules \ {n} |-> rules[o]]
    BY <1>3, <2>2
  <2>3. QED
    BY <1>2, <2>1, <2>2
<1>5. MTyped'
  BY <1>1, <1>4 DEF PipelineInv, MTyped, Agent
<1>6. QED
  BY <1>1, <1>5
     DEF PipelineInv, NothingYet, OnlyLearned, MoveEndsTheRun, Items

\* Every step keeps the invariant.
LEMMA PipelineInvStep == PipelineInv /\ [MNext]_mvars => PipelineInv'
<1> SUFFICES ASSUME PipelineInv, [MNext]_mvars PROVE PipelineInv'
  OBVIOUS
<1>1. CASE UNCHANGED mvars
  <2>1. UNCHANGED <<mail, rules, node, state, done, dropped, edits>>
    BY <1>1 DEF mvars
  <2>2. MTyped'
    BY <2>1 DEF PipelineInv, MTyped, Agent
  <2>3. QED
    BY <2>1, <2>2 DEF PipelineInv, NothingYet, OnlyLearned,
                      MoveEndsTheRun, Items
<1>2. QED
  BY <1>1, LoadKeeps, MatchKeeps, LearnKeeps, TriageKeeps, ApplyKeeps, StatusKeeps, SelectKeeps,
     DraftKeeps, EditKeeps DEF MNext

\* The invariant holds, for any sample of mails, any rules, edits and dropped outputs.
THEOREM PipelineInvariant == MSpec => []PipelineInv
<1>1. QED
  BY PipelineInvInit, PipelineInvStep, PTL DEF MSpec

------------------------------------------------------------------------------

\* MSpec => []MTypeOK: the types of the run, with the bounds on what can go wrong.
THEOREM PipelineTypes == MSpec => []MTypeOK
<1>1. PipelineInv => MTypeOK
  BY PipelineAssumption DEF PipelineInv, MTyped, MTypeOK, Agent, Ways, PipelineAssumption
<1>2. QED
  BY <1>1, PipelineInvariant, PTL

\* MSpec => []JunkIsFinal: for any mails and rules, what the triage moved to Junk has a
\* row to restore it from and nothing else happens to it in the run, unless the triage's
\* own output was dropped (nodes.py _terminate, pipeline.py _route_after_spam_triage_new).
THEOREM JunkStaysFinal == MSpec => []JunkIsFinal
<1>1. PipelineInv => JunkIsFinal
  <2> SUFFICES ASSUME PipelineInv PROVE JunkIsFinal
    OBVIOUS
  <2>1. ASSUME NEW i \in DOMAIN done, NEW j \in DOMAIN done, i < j, done[i] = "moved",
               done[j] \in OfRules \cup {"draft", "touch"}
        PROVE  "spam_triage" \in dropped
    <3>1. done[i] \in Items(done) /\ done[j] \in Items(done)
      BY DEF Items
    <3>2. QED
      BY <2>1, <3>1 DEF PipelineInv, MoveEndsTheRun
  <2>2. MovedHasRow
    BY DEF PipelineInv, MoveEndsTheRun, MovedHasRow, Did, Items
  <2>3. QED
    BY <2>1, <2>2 DEF JunkIsFinal, JunkedIsLeftAlone
<1>2. QED
  BY <1>1, PipelineInvariant, PTL

------------------------------------------------------------------------------
(* The circuit breaker (LlmBreaker).                                          *)
(* Without a race at most one caller is inside, and what it has read is       *)
(* what is there.                                                             *)

USE BreakerAssumption DEF BreakerAssumption
\* How far a call is.
BSteps == {"idle", "calling", "succeeded", "reset", "counted", "stored"}
\* The cool-off window.
Window == {"unset", "running", "over"}

\* What the steps need of the types; the bounds of the counter come from BreakerInv.
BTyped ==
  /\ failures \in Nat /\ window \in Window /\ raced \in BOOLEAN /\ calls \in Nat
  /\ stage \in [ModelThreads -> BSteps] /\ seen \in [ModelThreads -> Nat]

\* Without a race at most one caller is inside, and what it has read is what is
\* there; a window that is set means that the threshold has been reached, and that
\* a failure which is counted under it steps over the threshold.
NobodyElse ==
  /\ \A c, d \in ModelThreads : Inside(c) /\ Inside(d) => c = d
  /\ \A c \in ModelThreads :
       /\ stage[c] = "counted" => seen[c] = failures
       /\ stage[c] = "reset" => failures = 0
       /\ stage[c] = "stored" =>
            IF window = "unset" THEN failures <= Threshold ELSE failures > Threshold
  /\ IF window = "unset"
       THEN failures < Threshold \/ \E c \in ModelThreads : stage[c] = "stored"
       ELSE failures >= Threshold \/ \E c \in ModelThreads : stage[c] = "reset"

\* The invariant.
BreakerInv == BTyped /\ (~raced => NobodyElse)

\* At the start nobody is inside.
LEMMA BreakerInit == BInit => BreakerInv
<1> SUFFICES ASSUME BInit PROVE BreakerInv
  OBVIOUS
<1>1. BTyped
  BY DEF BInit, BTyped, BSteps, Window
<1>2. \A c \in ModelThreads : stage[c] = "idle"
  BY DEF BInit
<1>3. failures < Threshold /\ window = "unset"
  BY DEF BInit
<1>4. NobodyElse
  BY <1>2, <1>3 DEF NobodyElse, Inside
<1>5. QED
  BY <1>1, <1>4 DEF BreakerInv

\* Every step keeps it: a second caller makes a race.
LEMMA BreakerStep == BreakerInv /\ [BNext]_bvars => BreakerInv'
<1> SUFFICES ASSUME BreakerInv, [BNext]_bvars PROVE BreakerInv'
  OBVIOUS
<1> USE DEF BreakerInv, BTyped, BSteps, Window
<1>1. ASSUME NEW c \in ModelThreads, Begin(c) PROVE BreakerInv'
  BY <1>1 DEF Begin, StepsTo, NobodyElse, Inside
<1>2. ASSUME NEW c \in ModelThreads, Succeed(c) PROVE BreakerInv'
  BY <1>2 DEF Succeed, StepsTo, NobodyElse, Inside
<1>3. ASSUME NEW c \in ModelThreads, ResetCounter(c) PROVE BreakerInv'
  BY <1>3 DEF ResetCounter, NobodyElse, Inside
<1>4. ASSUME NEW c \in ModelThreads, ResetWindow(c) PROVE BreakerInv'
  BY <1>4 DEF ResetWindow, StepsTo, NobodyElse, Inside
<1>5. ASSUME NEW c \in ModelThreads, Fail(c) PROVE BreakerInv'
  BY <1>5 DEF Fail, StepsTo, NobodyElse, Inside
<1>6. ASSUME NEW c \in ModelThreads, Count(c) PROVE BreakerInv'
  BY <1>6 DEF Count, StepsTo, NobodyElse, Inside
<1>7. ASSUME NEW c \in ModelThreads, Compare(c) PROVE BreakerInv'
  BY <1>7 DEF Compare, AtThreshold, StepsTo, NobodyElse, Inside
<1>8. CASE CoolOff
  BY <1>8 DEF CoolOff, NobodyElse, Inside
<1>9. CASE UNCHANGED bvars
  BY <1>9 DEF bvars, NobodyElse, Inside
<1>10. QED
  BY <1>1, <1>2, <1>3, <1>4, <1>5, <1>6, <1>7, <1>8, <1>9 DEF BNext

\* So it holds always.
LEMMA BreakerInvariant == BSpec => []BreakerInv
BY BreakerInit, BreakerStep, PTL DEF BSpec

\* A counter at the threshold has opened the breaker, or a caller is about to.
LEMMA OpensByThen == BreakerInv => OpensOrRaced
BY DEF BreakerInv, BTyped, NobodyElse, OpensOrRaced

\* Unless two callers raced, the breaker is open, or is about to be, once its threshold
\* is reached, for any number of threads, calls and any threshold (robustness.py
\* LLMCircuitBreaker).
THEOREM BreakerOpens == BSpec => []OpensOrRaced
BY OpensByThen, BreakerInvariant, PTL

\* The calls that may still be counted as a failure.
Undecided == {c \in ModelThreads : stage[c] \in {"calling", "counted"}}

\* Each of them adds at most one to what it reads, so the counter stays below the
\* number of calls.
CountIsBounded ==
  /\ calls <= MaxCalls
  /\ IsFiniteSet(Undecided)
  /\ failures + Cardinality(Undecided) <= calls
  /\ \A c \in ModelThreads :
       /\ stage[c] = "counted" => seen[c] + Cardinality(Undecided) <= calls
       /\ seen[c] <= MaxCalls

\* A failure uses up the call that it is counted for.
LEMMA CountIsBoundedStep ==
  ASSUME BTyped, CountIsBounded, [BNext]_bvars
  PROVE  CountIsBounded'
<1> DEFINE n == Cardinality(Undecided)
<1>0. n \in Nat /\ IsFiniteSet(Undecided)
  BY FS_CardinalityType DEF CountIsBounded
<1>1. ASSUME NEW c \in ModelThreads, Begin(c) PROVE CountIsBounded'
  <2>1. Undecided' = Undecided \cup {c} /\ c \notin Undecided
    BY <1>1 DEF Begin, StepsTo, Undecided, BTyped
  <2>2. IsFiniteSet(Undecided') /\ Cardinality(Undecided') = n + 1
    BY <2>1, <1>0, FS_AddElement
  <2>3. calls' = calls + 1 /\ calls < MaxCalls /\ UNCHANGED <<failures, seen>>
    BY <1>1 DEF Begin
  <2>4. \A d \in ModelThreads : stage'[d] = "counted" => stage[d] = "counted"
    BY <1>1 DEF Begin, StepsTo, BTyped
  <2> HIDE DEF n
  <2>5. QED
    BY <2>2, <2>3, <2>4, <1>0 DEF CountIsBounded, BTyped, n
<1>2. ASSUME NEW c \in ModelThreads, Succeed(c) \/ Count(c) PROVE CountIsBounded'
  <2>1. Undecided' = Undecided \ {c} /\ c \in Undecided
    BY <1>2 DEF Succeed, Count, StepsTo, Undecided, BTyped
  <2>2. IsFiniteSet(Undecided') /\ Cardinality(Undecided') = n - 1
    BY <2>1, <1>0, FS_RemoveElement
  <2>3. UNCHANGED <<calls, seen>>
        /\ (failures' = failures \/ (stage[c] = "counted" /\ failures' = seen[c] + 1))
    BY <1>2 DEF Succeed, Count
  <2>4. \A d \in ModelThreads : stage'[d] = "counted" => stage[d] = "counted"
    BY <1>2 DEF Succeed, Count, StepsTo, BTyped
  <2> HIDE DEF n
  <2>5. QED
    BY <2>2, <2>3, <2>4, <1>0 DEF CountIsBounded, BTyped, n
<1>3. ASSUME NEW c \in ModelThreads, Fail(c) PROVE CountIsBounded'
  <2>1. Undecided' = Undecided
    BY <1>3 DEF Fail, StepsTo, Undecided, BTyped
  <2>2. UNCHANGED <<calls, failures>> /\ seen' = [seen EXCEPT ![c] = failures]
    BY <1>3 DEF Fail
  <2>3. \A d \in ModelThreads : stage'[d] = "counted" => stage[d] = "counted" \/ d = c
    BY <1>3 DEF Fail, StepsTo, BTyped
  <2> HIDE DEF n
  <2>4. QED
    BY <2>1, <2>2, <2>3, <1>0 DEF CountIsBounded, BTyped, n
<1>4. ASSUME NEW c \in ModelThreads, ResetCounter(c) \/ ResetWindow(c) \/ Compare(c)
      PROVE  CountIsBounded'
  <2>1. Undecided' = Undecided
    BY <1>4 DEF ResetCounter, ResetWindow, Compare, StepsTo, Undecided, BTyped
  <2>2. UNCHANGED <<calls, seen>> /\ failures' \in {0, failures}
    BY <1>4 DEF ResetCounter, ResetWindow, Compare
  <2>3. \A d \in ModelThreads : stage'[d] = "counted" => stage[d] = "counted"
    BY <1>4 DEF ResetCounter, ResetWindow, Compare, StepsTo, BTyped
  <2> HIDE DEF n
  <2>4. QED
    BY <2>1, <2>2, <2>3, <1>0 DEF CountIsBounded, BTyped, n
<1>5. CASE CoolOff \/ UNCHANGED bvars
  <2>1. UNCHANGED <<failures, stage, seen, calls>>
    BY <1>5 DEF CoolOff, bvars
  <2>2. Undecided' = Undecided
    BY <2>1 DEF Undecided
  <2>3. QED
    BY <2>1, <2>2 DEF CountIsBounded
<1>6. QED
  BY <1>1, <1>2, <1>3, <1>4, <1>5 DEF BNext

\* The types, with the bounds of the counter and of what the callers read.
THEOREM BreakerTypes == BSpec => []BTypeOK
<1>1. BInit => CountIsBounded
  <2> SUFFICES ASSUME BInit PROVE CountIsBounded
    OBVIOUS
  <2>1. Undecided = {}
    BY DEF BInit, Undecided
  <2>2. IsFiniteSet(Undecided) /\ Cardinality(Undecided) = 0
    BY <2>1, FS_EmptySet
  <2>3. QED
    BY <2>2 DEF BInit, CountIsBounded
<1>2. BreakerInv /\ CountIsBounded => BTypeOK
  <2> SUFFICES ASSUME BreakerInv, CountIsBounded PROVE BTypeOK
    OBVIOUS
  <2>1. Cardinality(Undecided) \in Nat
    BY FS_CardinalityType DEF CountIsBounded
  <2>2. failures \in 0..MaxCalls /\ calls \in 0..MaxCalls
    BY <2>1 DEF BreakerInv, BTyped, CountIsBounded
  <2>3. seen \in [ModelThreads -> 0..MaxCalls]
    BY DEF BreakerInv, BTyped, CountIsBounded
  <2>4. QED
    BY <2>2, <2>3 DEF BreakerInv, BTyped, BTypeOK, BSteps, Window
<1>3. BreakerInv => BTyped
  BY DEF BreakerInv
<1>4. QED
  BY <1>1, <1>2, <1>3, CountIsBoundedStep, BreakerInvariant, PTL DEF BSpec
=============================================================================
