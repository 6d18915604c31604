---------------------------- MODULE MailLearning ----------------------------
(***************************************************************************)
(* What the mail sentinel learns about one sender from what happens to the *)
(* sender's mails: the pipeline files a mail and keeps a spam_decision row *)
(* of it; the owner moves mails in the mail client; the observer reads the *)
(* changes of the mailbox and counts them as evidence for the patterns     *)
(* trust_sender, block_sender and label:<folder>; the restore endpoint     *)
(* undoes a decision.  The pipeline's threads, the observer, the endpoint, *)
(* the command line and the owner run side by side and share the mail      *)
(* server and the database; a step here is one request to the server or    *)
(* one transaction.                                                        *)
(*                                                                         *)
(* Only the evidence is counted here; confidences are in LearnedPatterns,  *)
(* and what a run does beside filing the mail is in MailPipeline.          *)
(***************************************************************************)
EXTENDS Integers, FiniteSets, Sequences, MailSieve

CONSTANTS Mails,     \* the mails of the sender
          MaxEvents  \* what the owner and the operator do, purges, faults and crashes
ASSUME LearningAssumption == MaxEvents \in Nat

VARIABLES
  box,      \* [Mails -> SUBSET Boxes]: where the mail is; "unread" is a mail
            \* that has arrived and that the pipeline has not seen
  rows,     \* [Mails -> Seq(RowStates)]: its rows in mail_sentinel_spam_decision
  filing,   \* [Mails -> Filings]: how far _terminate is with the mail
  evid,     \* evidence_count of each pattern of the sender
  obs,      \* mail_sentinel_observation: pairs of a mail and a type
  cursor,   \* whether the row "__global__" of mailbox_state is stored
  delta,    \* mails changed since the stored state
  tick,     \* the observer's tick: the mails it has still to dispatch, and the
            \* one it dispatches, with the mailboxes it read and the type it chose
  late,     \* mails changed since that tick asked for the changes
  api,      \* the restore request: its phase, mail and row
  rescued,  \* ghost: mails that the owner took out of Junk or restored
  unfiled,  \* ghost: mails that got a row while they were not in Junk
  skipped,  \* ghost: mails whose last change was given up: its dispatch raised,
            \* or it came before the first tick
  events    \* how many of those there have been

lvars == <<box, rows, filing, evid, obs, cursor, delta, tick, late, api,
           rescued, unfiled, skipped, events>>

Boxes == {"unread", "inbox", "junk", "custom"}
Patterns == {"trust_sender", "block_sender", "label"}
Observed == {"marked_spam", "unmarked_spam", "moved_to_custom"}

\* restored_at and restored_by of a row, or the place of one that was purged.
RowStates == {"open", "observer", "owner", "purged"}

Filings == [at : {"idle", "spam", "moving", "filed", "newsletter", "kept"},
            from : SUBSET {"inbox", "custom"}]
NotFiling == [at |-> "idle", from |-> {}]

NoTick == [pc |-> "idle", todo |-> {}, mail |-> "none", seen |-> {}, type |-> "none"]
NoRequest == [phase |-> "none", mail |-> "none", row |-> 0]

LInit ==
  /\ box = [m \in Mails |-> {}]
  /\ rows = [m \in Mails |-> <<>>] /\ filing = [m \in Mails |-> NotFiling]
  /\ evid = [p \in Patterns |-> 0]
  /\ obs = {} /\ cursor = FALSE /\ delta = {} /\ tick = NoTick /\ late = {}
  /\ api = NoRequest
  /\ rescued = {} /\ unfiled = {} /\ skipped = {} /\ events = 0

Event == events < MaxEvents /\ events' = events + 1
Quiet == UNCHANGED events

\* The server notes that m has changed: the next Email/changes reports it, or
\* the one after the tick that is running.
Changed(m) ==
  /\ delta' = IF tick.pc = "idle" THEN delta \cup {m} ELSE delta
  /\ late'  = IF tick.pc = "idle" THEN late ELSE late \cup {m}
  /\ skipped' = skipped \ {m}
Unchanged == UNCHANGED <<delta, late, skipped>>

------------------------------------------------------------------------------
(* The pipeline, which sees a mail once, on a thread of its own. *)

Arrive(m) ==
  /\ box[m] = {} /\ rows[m] = <<>>
  /\ box' = [box EXCEPT ![m] = {"unread", "inbox"}]
  /\ Changed(m)
  /\ UNCHANGED <<rows, filing, evid, obs, cursor, tick, api, rescued, unfiled, events>>

Proceed(m, at) == filing' = [filing EXCEPT ![m].at = at]

\* match_rules and spam_triage decide.  A mail that passes, or whose sender is
\* trusted or blocked, gets no row; spam and newsletters are labelled first.
ProcessMail(m) ==
  /\ "unread" \in box[m] /\ filing[m].at = "idle"
  /\ box' = [box EXCEPT ![m] = @ \ {"unread"}]
  /\ \/ (Unchanged \/ Changed(m)) /\ UNCHANGED filing
     \/ Changed(m) /\ \E at \in {"spam", "newsletter"} : Proceed(m, at)
  /\ UNCHANGED <<rows, evid, obs, cursor, tick, api, rescued, unfiled, events>>

\* _terminate on spam reads the mailboxes that the mail is to leave.
ReadMailboxes(m) ==
  /\ filing[m].at = "spam"
  /\ filing' = [filing EXCEPT ![m] = [at |-> "moving", from |-> box[m] \ {"junk", "unread"}]]
  /\ Unchanged
  /\ UNCHANGED <<box, rows, evid, obs, cursor, tick, api, rescued, unfiled, events>>

\* One Email/set takes it out of them and into Junk.  When it raises the mail
\* stays where it is, with the keyword $junk; when the server answers that the
\* mail was not updated nobody reads the answer.
MoveToJunk(m) ==
  /\ filing[m].at = "moving"
  /\ Proceed(m, "filed")
  /\ \/ /\ box' = [box EXCEPT ![m] = (@ \ filing[m].from) \cup {"junk"}]
        /\ Changed(m) /\ Quiet
     \/ UNCHANGED box /\ (Changed(m) \/ Unchanged) /\ Event
  /\ UNCHANGED <<rows, evid, obs, cursor, tick, api, rescued, unfiled>>

\* A newsletter gets the keyword nonjunk and stays.
MarkNonjunk(m) ==
  /\ filing[m].at = "newsletter"
  /\ Proceed(m, "kept")
  /\ Changed(m)
  /\ UNCHANGED <<box, rows, evid, obs, cursor, tick, api, rescued, unfiled, events>>

\* spam_decisions.insert, which looks at no mailbox.
KeepRow(m) ==
  /\ rows' = [rows EXCEPT ![m] = Append(@, "open")]
  /\ unfiled' = IF "junk" \in box[m] THEN unfiled ELSE unfiled \cup {m}

InsertRow(m) ==
  /\ filing[m].at \in {"filed", "kept"}
  /\ KeepRow(m)
  /\ filing' = [filing EXCEPT ![m] = NotFiling]
  /\ Unchanged
  /\ UNCHANGED <<box, evid, obs, cursor, tick, api, rescued, events>>

\* A request or the insert fails, or the thread ends with its process: what was
\* done to the mail stays, and no row is written.
FilingFails(m) ==
  /\ filing[m].at # "idle" /\ Event
  /\ filing' = [filing EXCEPT ![m] = NotFiling]
  /\ Unchanged
  /\ UNCHANGED <<box, rows, evid, obs, cursor, tick, api, rescued, unfiled>>

\* "replay" takes mails of the inbox, whether the pipeline has seen them or not.
Replay(m) ==
  /\ "inbox" \in box[m] /\ "unread" \notin box[m]
  /\ Event
  /\ box' = [box EXCEPT ![m] = @ \cup {"unread"}]
  /\ Unchanged
  /\ UNCHANGED <<rows, filing, evid, obs, cursor, tick, api, rescued, unfiled>>

\* "replay --dry-run" writes to no mailbox; its decisions are stored all the same.
DryReplay(m) ==
  /\ "inbox" \in box[m] /\ Event
  /\ rows' = [rows EXCEPT ![m] = Append(@, "open")]
  /\ unfiled' = unfiled \cup {m}
  /\ Unchanged
  /\ UNCHANGED <<box, filing, evid, obs, cursor, tick, api, rescued>>

------------------------------------------------------------------------------
(* The owner, in the mail client. *)

Place(m, b) == box' = [box EXCEPT ![m] = {b} \cup (@ \cap {"unread"})]

OwnerMoves(m, b) ==
  /\ box[m] # {} /\ box[m] \ {"unread"} # {b}
  /\ Event
  /\ Place(m, b)
  /\ rescued' = IF "junk" \in box[m] /\ b # "junk" THEN rescued \cup {m} ELSE rescued
  /\ Changed(m)
  /\ UNCHANGED <<rows, filing, evid, obs, cursor, tick, api, unfiled>>

\* A mail is read, flagged or answered.
OwnerTouches(m) ==
  /\ box[m] # {} /\ Event
  /\ Changed(m)
  /\ UNCHANGED <<box, rows, filing, evid, obs, cursor, tick, api, rescued, unfiled>>

------------------------------------------------------------------------------
(* The observer. *)

\* The first tick only stores the state of the mailbox: what happened before is
\* not looked at.
Bootstrap ==
  /\ ~cursor /\ tick.pc = "idle"
  /\ cursor' = TRUE /\ delta' = {} /\ skipped' = skipped \cup delta
  /\ UNCHANGED <<box, rows, filing, evid, obs, tick, late, api, rescued, unfiled, events>>

\* Email/changes, which answers with at most maxChanges mails of the account and
\* the state that belongs to them: the others come with a later tick.
TickBegins ==
  /\ cursor /\ tick.pc = "idle" /\ delta # {}
  /\ \E answered \in SUBSET delta :
       /\ tick' = [NoTick EXCEPT !.pc = "run", !.todo = answered]
       /\ late' = delta \ answered
  /\ UNCHANGED <<box, rows, filing, evid, obs, cursor, delta, api, rescued, unfiled,
                 skipped, events>>

\* _dispatch, one mail after the other.  It awaits the mail with its mailboxes ...
ReadMail(m) ==
  /\ tick.pc = "run" /\ m \in tick.todo
  /\ tick' = [pc |-> "read", todo |-> tick.todo \ {m}, mail |-> m, seen |-> box[m],
              type |-> "none"]
  /\ UNCHANGED <<box, rows, filing, evid, obs, cursor, delta, late, api, rescued, unfiled,
                 skipped, events>>

Open(row) == row = "open"

\* Mutant: no query; a mail that turns up in the inbox was rescued.
HasOpenDecision_Any(m) == TRUE

\* _has_open_spam_decision: any bucket will do.
HasOpenDecision(m) == \E i \in DOMAIN rows[m] : Open(rows[m][i])

\* The extractor, by the mailboxes that were read and whether a row is open.
Extractor(seen, found) ==
  IF "junk" \in seen THEN "marked_spam"
  ELSE IF "inbox" \in seen /\ found THEN "unmarked_spam"
  ELSE IF "custom" \in seen THEN "moved_to_custom"
  ELSE "none"

DispatchEnds == tick' = [NoTick EXCEPT !.pc = "run", !.todo = tick.todo]

\* ... then it chooses the extractor, and asks for open rows only now.  A query
\* that fails is taken for none.
ChooseExtractor ==
  /\ tick.pc = "read"
  /\ \E found \in BOOLEAN :
       /\ \/ found = HasOpenDecision(tick.mail) /\ Quiet /\ UNCHANGED skipped
          \/ ~found /\ tick.seen \cap {"inbox", "junk"} = {"inbox"} /\ HasOpenDecision(tick.mail)
             /\ Event /\ skipped' = skipped \cup {tick.mail}
       /\ LET type == Extractor(tick.seen, found) IN
          IF type = "none" THEN DispatchEnds
          ELSE tick' = [tick EXCEPT !.pc = "count", !.type = type]
  /\ UNCHANGED <<box, rows, filing, evid, obs, cursor, delta, late, api, rescued, unfiled>>

PatternOf(type) == CASE type = "marked_spam"     -> "block_sender"
                     [] type = "unmarked_spam"   -> "trust_sender"
                     [] type = "moved_to_custom" -> "label"

\* The extractors count the evidence (record_decision) ...
RecordEvidence ==
  /\ tick.pc = "count"
  /\ evid' = [evid EXCEPT ![PatternOf(tick.type)] = @ + 1]
  /\ tick' = [tick EXCEPT !.pc = IF tick.type = "unmarked_spam" THEN "mark" ELSE "log"]
  /\ UNCHANGED <<box, rows, filing, obs, cursor, delta, late, api, rescued, unfiled,
                 skipped, events>>

MarkRows(m, by) ==
  [rows EXCEPT ![m] = [i \in DOMAIN rows[m] |->
     IF Open(rows[m][i]) THEN by ELSE rows[m][i]]]

\* ... mark the rows of the mail that are open now, if any
\* (_maybe_restore_spam_decision) ...
MarkRestored ==
  /\ tick.pc = "mark"
  /\ rows' = MarkRows(tick.mail, "observer")
  /\ tick' = [tick EXCEPT !.pc = "log"]
  /\ UNCHANGED <<box, filing, evid, obs, cursor, delta, late, api, rescued, unfiled,
                 skipped, events>>

\* ... and log the observation, unless it is there (insert_if_new).
LogObservation ==
  /\ tick.pc = "log"
  /\ obs' = obs \cup {<<tick.mail, tick.type>>}
  /\ DispatchEnds
  /\ UNCHANGED <<box, rows, filing, evid, cursor, delta, late, api, rescued, unfiled,
                 skipped, events>>

\* A dispatch raises at any of these points; the tick notes the error and goes on.
DispatchRaises ==
  /\ tick.pc \notin {"idle", "run"} /\ Event
  /\ DispatchEnds
  /\ skipped' = skipped \cup {tick.mail}
  /\ UNCHANGED <<box, rows, filing, evid, obs, cursor, delta, late, api, rescued, unfiled>>

\* Mutant: the state stored is the one at the end of the tick.
TickEnds_AtNow ==
  /\ tick.pc = "run" /\ tick.todo = {}
  /\ tick' = NoTick
  /\ delta' = {} /\ late' = {}
  /\ UNCHANGED <<box, rows, filing, evid, obs, cursor, api, rescued, unfiled, skipped,
                 events>>

\* The state stored after the last dispatch is the one Email/changes answered.
TickEnds ==
  /\ tick.pc = "run" /\ tick.todo = {}
  /\ tick' = NoTick
  /\ delta' = late /\ late' = {}
  /\ UNCHANGED <<box, rows, filing, evid, obs, cursor, api, rescued, unfiled, skipped,
                 events>>

\* The process ends in the middle of a tick: the next one starts from the stored
\* state and dispatches everything again.
Crash ==
  /\ tick.pc # "idle" /\ Event
  /\ tick' = NoTick
  /\ delta' = delta \cup late /\ late' = {}
  /\ \E dead \in SUBSET Mails :
       filing' = [m \in Mails |-> IF m \in dead THEN NotFiling ELSE filing[m]]
  /\ UNCHANGED <<box, rows, evid, obs, cursor, api, rescued, unfiled, skipped>>

------------------------------------------------------------------------------
(* POST /mail-sentinel/spam/{decision_id}/restore. *)

\* Phase 1: the row is there and open.
ApiChecks(m) ==
  /\ api.phase = "none"
  /\ \E i \in DOMAIN rows[m] :
       Open(rows[m][i]) /\ api' = [phase |-> "checked", mail |-> m, row |-> i]
  /\ UNCHANGED <<box, rows, filing, evid, obs, cursor, delta, tick, late, rescued, unfiled,
                 skipped, events>>

\* Phase 2: one Email/set clears the keywords and adds the inbox, when its id
\* could be resolved; the mail is not taken out of Junk.  The request may also
\* fail, which ends it.
ApiPatches ==
  /\ api.phase = "checked"
  /\ \/ /\ \/ box' = [box EXCEPT ![api.mail] = @ \cup {"inbox"}]
           \/ UNCHANGED box
        /\ api' = [api EXCEPT !.phase = "patched"]
        /\ rescued' = rescued \cup {api.mail}
        /\ Changed(api.mail)
     \/ api' = NoRequest /\ UNCHANGED <<box, rescued, delta, late, skipped>>
  /\ UNCHANGED <<rows, filing, evid, obs, cursor, tick, unfiled, events>>

\* Mutant: the UPDATE does not ask for restored_at IS NULL.
MarkIfOpen_Always(m, i) == rows' = [rows EXCEPT ![m][i] = "owner"]

\* Phase 3: UPDATE ... WHERE restored_at IS NULL, or 409.
MarkIfOpen(m, i) ==
  rows' = IF Open(rows[m][i]) THEN [rows EXCEPT ![m][i] = "owner"] ELSE rows

ApiMarks ==
  /\ api.phase = "patched"
  /\ MarkIfOpen(api.mail, api.row)
  /\ api' = NoRequest
  /\ UNCHANGED <<box, filing, evid, obs, cursor, delta, tick, late, rescued, unfiled,
                 skipped, events>>

\* Housekeeping deletes a row that is old enough, open or not; its place in the
\* sequence stays, so that a request under way does not find another one.
Purge(m, i) ==
  /\ rows[m][i] # "purged"
  /\ Event
  /\ rows' = [rows EXCEPT ![m][i] = "purged"]
  /\ UNCHANGED <<box, filing, evid, obs, cursor, delta, tick, late, api, rescued, unfiled,
                 skipped>>

Files(m) == \/ ReadMailboxes(m) \/ MoveToJunk(m) \/ MarkNonjunk(m)
            \/ InsertRow(m) \/ FilingFails(m)

MailSteps(m) ==
  \/ Arrive(m) \/ ProcessMail(m) \/ Files(m) \/ Replay(m) \/ DryReplay(m)
  \/ OwnerTouches(m)
  \/ \E b \in {"inbox", "junk", "custom"} : OwnerMoves(m, b)
  \/ ReadMail(m) \/ ApiChecks(m)
  \/ \E i \in DOMAIN rows[m] : Purge(m, i)

Dispatch == \/ ChooseExtractor \/ RecordEvidence \/ MarkRestored \/ LogObservation
            \/ DispatchRaises

LNext ==
  \/ \E m \in Mails : MailSteps(m)
  \/ Bootstrap \/ TickBegins \/ Dispatch \/ TickEnds \/ Crash
  \/ ApiPatches \/ ApiMarks

LSpec == LInit /\ [][LNext]_lvars

------------------------------------------------------------------------------

\* The types of the variables.
LTypeOK ==
  /\ box \in [Mails -> SUBSET Boxes]
  /\ \A m \in Mails : \A i \in DOMAIN rows[m] : rows[m][i] \in RowStates
  /\ filing \in [Mails -> Filings]
  /\ evid \in [Patterns -> Nat]
  /\ obs \subseteq Mails \X Observed
  /\ delta \subseteq Mails /\ tick.todo \subseteq Mails /\ late \subseteq Mails
  /\ tick.pc \in {"idle", "run", "read", "count", "mark", "log"}
  /\ tick.pc \notin {"idle", "run"} => tick.mail \in Mails /\ tick.seen \subseteq Boxes
  /\ tick.pc \in {"count", "mark", "log"} => tick.type \in Observed
  /\ api.phase \in {"none", "checked", "patched"}
  /\ events \in 0..MaxEvents

\* Evidence for trust_sender, which later lets every mail of the sender past the
\* triage, is counted only for a mail that the owner took out of Junk or restored
\* (observer.py _dispatch, reclassification.py).  The code has two exceptions: a
\* row that was written while its mail was not in Junk, of a newsletter, a dry
\* run, a move that failed or one that was undone before the row was there; and a
\* mail that the pipeline moved to Junk, with a row, between the observer's
\* reading of the mailboxes and its query for open rows.
TrustIsEarned ==
  [][evid'["trust_sender"] > evid["trust_sender"] =>
       \/ tick.mail \in rescued \cup unfiled
       \/ "junk" \in box[tick.mail] \ tick.seen]_lvars

\* A row that is marked as restored keeps who restored it until it is purged,
\* although the observer and the endpoint mark rows without knowing of each
\* other (spam_decisions.py restore, reclassification.py).
RestoredOnce ==
  [][\A m \in Mails : \A i \in DOMAIN rows[m] :
       rows[m][i] \in {"observer", "owner"} => rows'[m][i] \in {rows[m][i], "purged"}]_lvars

\* A mail that is to be dispatched, or is being dispatched as a rescue.
OnItsWay(m) ==
  IF tick.pc = "idle" THEN m \in delta
  ELSE \/ m \in late \cup tick.todo
       \/ /\ m = tick.mail
          /\ \/ tick.pc = "read" /\ "inbox" \in tick.seen /\ "junk" \notin tick.seen
             \/ tick.pc \in {"count", "mark"} /\ tick.type = "unmarked_spam"

\* Once the observer has its first state, a mail that the owner rescued, that is in
\* the inbox and whose row is still open is on its way to be learned from, however
\* ticks, moves and crashes interleave, unless its dispatch raised: the tick then
\* goes past the mail for good (observer.py run_tick); or unless it was rescued
\* before.  Rows written while the mail was not in Junk are left out: nothing
\* changes in the mailbox when they are written, so that a rescue just before is
\* looked at too early.
RescueIsSeen ==
  \A m \in Mails :
    /\ cursor /\ m \in rescued \ unfiled
    /\ "inbox" \in box[m] /\ "junk" \notin box[m] /\ HasOpenDecision(m)
    => OnItsWay(m) \/ m \in skipped

\* Each observation is idempotent: for a mail and a type that are in the log no
\* evidence is counted again, whatever tick is replayed after a crash
\* (observations.py:4-6).
CountedOnce ==
  [][\A p \in Patterns :
       evid'[p] > evid[p] => <<tick.mail, tick.type>> \notin obs]_lvars

=============================================================================
