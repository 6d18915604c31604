---------------------------- MODULE JmapRuntime ----------------------------
(***************************************************************************)
(* A sentinel on a JMAP mailbox: JmapPollingEventSource                    *)
(* (sentinels/sources/jmap_poll.py) asks for the changes since a state     *)
(* token, fetches the new mails, hands them to EventDispatch and persists  *)
(* the new token.                                                          *)
(*                                                                         *)
(* Mails are numbered in the order of their arrival, and a token of the    *)
(* server is the number of mails there were when it was taken.  Every      *)
(* action of the poller ends at an await; what happens between two of them *)
(* cannot be interleaved with the tasks.                                   *)
(***************************************************************************)
EXTENDS EventDispatch

CONSTANTS
  MaxMails,    \* bound on the mails that arrive
  MaxChanges,  \* maxChanges of Email/changes
  MaxPatches   \* bound on PATCH requests from the settings page

Mails == 1 .. MaxMails

ASSUME JmapAssumption ==
  /\ MaxMails \in Nat
  /\ Events = Mails
  /\ None \notin 0 .. MaxMails
  /\ MaxChanges \in Nat \ {0}
  /\ MaxPatches \in Nat

VARIABLES
  arrived,    \* mails the server has received
  destroyed,  \* mails their owner has destroyed
  saved,      \* config_values.jmap_last_state; None when it is missing
  page,       \* the value of it the settings page was loaded with
  patches,    \* PATCH requests so far
  poller,     \* where stream() is; "down" without a process
  since,      \* state, its local variable
  new_state,  \* the token Email/changes returned
  batch,      \* the mails of this delta
  skipped     \* history: mails below a token that was seeded

serverVars == <<arrived, destroyed>>
configVars == <<saved, page, patches>>
pollVars   == <<poller, since, new_state, batch>>
sourceVars == <<serverVars, configVars, pollVars, skipped>>
vars       == <<dispatchVars, faults, sourceVars>>

PollerPc ==
  {"down", "discover", "seed", "poll", "fetch", "hand_out", "dead"}

Token == 0 .. MaxMails

Init ==
  /\ DispatchInit
  /\ arrived   = 0
  /\ destroyed = {}
  /\ saved     = None
  /\ page      = None
  /\ patches   = 0
  /\ poller    = "down"
  /\ since     = 0
  /\ new_state = 0
  /\ batch     = {}
  /\ skipped   = {}

-----------------------------------------------------------------------------
(* The mailbox and the settings page                                       *)

Arrive ==
  /\ arrived < MaxMails
  /\ arrived' = arrived + 1
  /\ UNCHANGED <<dispatchVars, faults, destroyed, configVars, pollVars, skipped>>

Destroy(m) ==
  /\ m \in (1 .. arrived) \ destroyed
  /\ destroyed' = destroyed \union {m}
  /\ UNCHANGED <<dispatchVars, faults, arrived, configVars, pollVars, skipped>>

\* GET /sentinels/{name}, the last one before a PATCH.
LoadPage ==
  /\ patches < MaxPatches
  /\ page = None
  /\ saved # None
  /\ page' = saved
  /\ UNCHANGED <<dispatchVars, faults, serverVars, saved, patches, pollVars,
                 skipped>>

\* PATCH /sentinels/{name} replaces config_values as a whole, by what the page
\* was loaded with or by an object without the token.
PatchConfig ==
  /\ patches < MaxPatches
  /\ patches' = patches + 1
  /\ saved' \in {page, None}
  /\ page' = None
  /\ UNCHANGED <<dispatchVars, faults, serverVars, pollVars, skipped>>

-----------------------------------------------------------------------------
(* stream()                                                                *)

\* The runtime process starts: run() and _run_one.
Start ==
  /\ poller = "down"
  /\ poller' = "discover"
  /\ UNCHANGED <<dispatchVars, faults, serverVars, configVars, since, new_state,
                 batch, skipped>>

\* _discover_session, then _load_state.
DiscoverSession ==
  /\ poller = "discover"
  /\ \/ /\ saved = None
        /\ poller' = "seed"
        /\ UNCHANGED since
     \/ /\ saved # None
        /\ poller' = "poll"
        /\ since' = saved
  /\ UNCHANGED <<dispatchVars, faults, serverVars, configVars, new_state, batch,
                 skipped>>

\* _seed_state and _persist_state: mail that is there already is left alone.
SeedState ==
  /\ poller = "seed"
  /\ saved' = arrived
  /\ since' = arrived
  /\ skipped' = skipped \union 1 .. arrived
  /\ poller' = "poll"
  /\ UNCHANGED <<dispatchVars, faults, serverVars, page, patches, new_state,
                 batch>>

\* Where a delta of at most maxChanges mails ends.
DeltaEnd ==
  IF arrived <= since + MaxChanges THEN arrived ELSE since + MaxChanges

\* Mutant: the token is persisted as soon as it is known.
PollChanges_Persists ==
  /\ poller = "poll"
  /\ new_state' = DeltaEnd
  /\ batch' = (since + 1 .. DeltaEnd) \ destroyed
  /\ poller' = IF batch' = {} THEN "hand_out" ELSE "fetch"
  /\ saved' = DeltaEnd
  /\ UNCHANGED <<dispatchVars, faults, serverVars, page, patches, since,
                 skipped>>

\* _poll_changes: Email/changes.
PollChanges ==
  /\ poller = "poll"
  /\ new_state' = DeltaEnd
  /\ batch' = (since + 1 .. DeltaEnd) \ destroyed
  /\ poller' = IF batch' = {} THEN "hand_out" ELSE "fetch"
  /\ UNCHANGED <<dispatchVars, faults, serverVars, configVars, since, skipped>>

\* The server answers Email/changes with any method error: the poller seeds
\* again, or keeps its token if Email/get has no state either.
Reseed ==
  /\ poller = "poll"
  /\ Fault
  /\ \E token \in {since, arrived} :
       /\ new_state' = token
       /\ skipped' = skipped \union since + 1 .. token
  /\ batch' = {}
  /\ poller' = "hand_out"
  /\ UNCHANGED <<dispatchVars, serverVars, configVars, since>>

\* _fetch_emails leaves out what was destroyed in the meantime.
FetchEmails ==
  /\ poller = "fetch"
  /\ batch' = batch \ destroyed
  /\ poller' = "hand_out"
  /\ UNCHANGED <<dispatchVars, faults, serverVars, configVars, since, new_state,
                 skipped>>

\* A task per mail, and then _persist_state, a blocking call: the tasks start
\* after it.  If it raises, the stream ends and the tasks are there.
HandOut ==
  /\ poller = "hand_out"
  /\ CreateTasks(batch)
  /\ batch' = {}
  /\ \/ /\ saved' = new_state
        /\ since' = new_state
        /\ poller' = "poll"
        /\ UNCHANGED faults
     \/ /\ Fault
        /\ poller' = "dead"
        /\ UNCHANGED <<saved, since>>
  /\ UNCHANGED <<serverVars, page, patches, new_state, skipped>>

ForgetLocals == since' = 0 /\ new_state' = 0 /\ batch' = {}

\* A request is refused twice with 401, and stream() begins anew; or it fails in
\* another way, and _run_one gives the sentinel up.
RequestFails ==
  /\ poller \in {"discover", "seed", "poll", "fetch"}
  /\ Fault
  /\ poller' \in {"discover", "dead"}
  /\ ForgetLocals
  /\ UNCHANGED <<dispatchVars, serverVars, configVars, skipped>>

\* Crash or SIGTERM; a runtime with a dead stream is restarted by its operator.
Exit ==
  /\ poller # "down"
  /\ \/ Fault
     \/ poller = "dead" /\ UNCHANGED faults
  /\ poller' = "down"
  /\ ForgetLocals
  /\ EndAllTasks
  /\ UNCHANGED <<serverVars, configVars, skipped>>

Poll ==
  \/ Start
  \/ DiscoverSession
  \/ SeedState
  \/ PollChanges
  \/ FetchEmails
  \/ HandOut

\* _noop_ack.
Dispatch(t) ==
  /\ \/ TaskStep(t)
     \/ Ack(t) /\ UNCHANGED faults
  /\ UNCHANGED sourceVars

Next ==
  \/ Arrive
  \/ \E m \in Mails : Destroy(m)
  \/ LoadPage
  \/ PatchConfig
  \/ Poll
  \/ Reseed
  \/ RequestFails
  \/ Exit
  \/ \E t \in Tasks : Dispatch(t)
  \/ \E t \in Tasks : CallFails(t) /\ UNCHANGED sourceVars
  \/ DayPasses /\ UNCHANGED sourceVars

Spec == Init /\ [][Next]_vars

(***************************************************************************)
(* The runtime is restarted, the poller goes on, and the calls of a task   *)
(* return: process() has a timeout, asyncio's semaphore is first come,     *)
(* first served.                                                           *)
(***************************************************************************)
FairSpec ==
  /\ Spec
  /\ WF_vars(Poll)
  /\ \A t \in Tasks : WF_vars(Dispatch(t))

-----------------------------------------------------------------------------
(* Properties                                                              *)

TypeOK ==
  /\ DispatchTypeOK
  /\ arrived \in Token
  /\ destroyed \subseteq Mails
  /\ {saved, page} \subseteq Token \union {None}
  /\ patches \in Nat
  /\ poller \in PollerPc
  /\ {since, new_state} \subseteq Token
  /\ batch \subseteq Mails
  /\ skipped \subseteq Mails

\* The persisted token never runs ahead of the mails: every mail below it has a
\* row, or a task that will write one, unless the token was seeded past it, its
\* owner destroyed it, or its task ended with the process or an exception.
NoMailIsPassedOver ==
  saved # None =>
    \A m \in 1 .. saved :
      \/ \E i \in 1 .. Len(rows) : rows[i].event = m
      \/ \E t \in Active : ev[t] = m
      \/ m \in skipped \union destroyed \union abandoned

\* At most once: crashes, failed hand-outs and repeated deltas never have a mail
\* processed again within 24 hours, unless a PATCH put an old token back.
AtMostOnce == patches = 0 => ProcessedOnce

\* Every mail that arrives is dealt with in the end, however many tasks time out
\* or fail before it, unless it was skipped or destroyed, the process or the
\* bookkeeping failed while it was in progress, or the stream ended.
MailSettles ==
  \A m \in Mails :
    (arrived >= m) ~>
      \/ Settled(m)
      \/ m \in skipped \union destroyed \union abandoned
      \/ poller = "dead"

=============================================================================
