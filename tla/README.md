# TLA+ models of Twaky

Twaky is an assistant that works on its owner's mail and calendar. *Sentinels*
watch event sources (a mailbox, a message broker) and react to each event; the
*Atlas* agent plans and runs *missions*, longer conversations of an LLM with
specialist agents, and stops to ask the owner when it has to. This directory
holds TLA+ modules of the parts where several processes meet, TLC
configurations that check them on small instances, and TLAPS proofs of what
must hold on every instance. Source paths are relative to `src/src/twaky/`.

Contents: [1 Components](#1-components) · [2 Plan](#2-plan) ·
[3 Modules and code](#3-modules-and-code) · [4 Runs](#4-runs) ·
[5 Fairness](#5-fairness) · [6 Proofs](#6-proofs) ·
[7 Divergences found](#7-divergences-found) · [8 Not modelled](#8-not-modelled)

## 1 Components

How the processes meet: the API server, the CLI, the sentinel daemon and the
Atlas daemon are separate processes that share PostgreSQL. They talk through
table rows and through `NOTIFY` channels (`mission_declared`,
`mission_resumed`, `mission_changed`, `sentinel_config_changed`,
`oauth_credential_changed` and the ones of agents and
skills), which lose what nobody listens to. Inside a daemon,
asyncio tasks push blocking work into threads that cannot be killed.

| Component | State | Operations | What is hard | What makes it correct |
|---|---|---|---|---|
| **Mission engine and guards** (`missions/engine.py`, `guards.py`, `models.py`, `repository.py`) | one `mission` row each: state, artifacts (a JSON list), plan | declare, park_for_review, commit_plan, request_user_input, resume, finish, cancel; each locks the row, asks the guard table, updates, commits, and then notifies in a transaction of its own | any process calls any operation at any time; a notification may be lost after its commit | rows move along the guard table; terminal states are final; artifacts only grow; a parked mission has a question |
| **Atlas daemon** (`daemon/atlas_daemon.py`, `daemon/notify.py`, `missions/recovery.py`) | task set, semaphore, LISTEN connection, periodic sweep, lists of the recovery | boot recovery, initial sweep, notification handler, periodic sweep, one task and thread per run, drain | three sweeps compete for declared rows; timed-out threads go on; listener and sweep can die unnoticed; crash between any two transactions | claimed once; nobody stranded in planning or running; declared missions are claimed; running ones settle |
| **Atlas conversation** (`agents/atlas/`, `missions/checkpointer.py`) | LangGraph thread: messages and step counter, checkpointed after each node | atlas node, tools node, routes; outcome read off the last six messages | the window forgets; answers are injected again after a restart | no question twice, the newest question is asked, answers reach the graph, the conversation ends |
| **Specialist agents** (`agents/chronos`, `plume`, `iris`, `registry.py`) | none, but for a configuration cache | ReAct tool calls | – | the cache: see the sentinel registry |
| **Sentinel runtime** (`sentinels/runtime.py`, `repository.py`, `sources/rabbitmq.py`) | `sentinel_run` rows, one shared context per sentinel, the semaphore | dispatch: check for an earlier run, insert the row, process in a thread under a timeout, update, acknowledge; housekeeping | check and insert are two transactions; redelivery after a crash; threads outlive timeouts | each event processed at most once, and acknowledged only when it was dealt with |
| **JMAP polling source** (`sentinels/sources/jmap_poll.py`) | the JMAP state token, persisted in `config_values` | seed, poll pages of changes, fetch, hand out, persist; retry once on 401 | the token is persisted after the hand-out, not after the handling; errors end the stream | no mail skipped, none handed out for ever |
| **OAuth refresh manager** (`oauth/`) | cached access token with expiry, credential row with refresh token | get, force_refresh, invalidate, refresh under a lock; a listener invalidates | double check with a warm cache; two processes and a rotating refresh token; one lock for the event loops of several threads | single flight; no refresh token is thrown away; a refused access token is not returned again (it is); no caller blocks the others (one can) |
| **Sentinel, agent and skill registries** (`sentinels/registry.py`, `agents/registry.py`, `skills/registry.py`, their `config_listener.py`) | caches of configuration rows | get, invalidate, listen and reconnect | fetch outside the lock, notifications lost while reconnecting | an entry is stale for one of three reasons only |
| **Event ingest and projector** (`ingest.py`, `projector.py`) | append-only event table, the graph derived from it | consume, deduplicate, insert, acknowledge; fetch a batch, apply Cypher, mark; replay | redelivery, row locks released before the rows are applied, replay in the middle of a batch | the log has each event once; the graph is the fold of the log |
| **Mail sentinel pipeline** (`sentinels/mail/pipeline.py`, `nodes.py`, `robustness.py`) | per-mail state, a circuit breaker shared by all | routed nodes under time budgets; breaker: skip, success, failure | a node's effects outlive its dropped output; the breaker's counter is compared for equality and has no lock | nothing is done with a mail that was judged spam; the breaker opens at its threshold |
| **Mailbox observer and learned patterns** (`sentinels/mail/observer.py`, `extractors/`, `store/`) | mailbox snapshots, observations, patterns with confidence | tick: diff, dispatch to extractors, record evidence, store the snapshot; decay | the pipeline, the owner and the API act between two requests of a dispatch; ticks replayed after a crash, dispatches that raise, read-compute-write in separate transactions, rounding | evidence of trust comes from the owner; each observation counts once (it does not); no rescue is overlooked |
| **Spam decisions and restore** (`store/spam_decisions.py`, `api/routers/mail_sentinel_spam.py`) | decision rows, the mail's mailbox | decide, restore (JMAP first, row second) | a crash or an observer tick between the two | a row is restored once, by the one or the other |
| **Delegation** (`sentinels/delegation.py`, `emitter.py`) | a LISTEN connection per wait | declare, wait for the terminal state, time out | notification before LISTEN, writers that do not notify | the result reported is the mission's |
| **Mission API, CLI; SSE broker** (`api/`, `cli/`) | bounded queue per subscriber | requests to the engine; fan-out of events | queues drop their oldest event, notifications overtake each other | a client learns the final state |
| **Sessions, OAuth flows, skills, agent configuration, frontend** | rows behind CRUD requests | validation and storage | – | – |

PROJECT.json lists all components with their status, and under `hazards`
every place found where an order, a crash, a lost message or a boundary
decides, with the properties about it or the reason why there is none.

## 2 Plan

The mission core comes first: it has the most actors, persistent state, and the
consequences an owner sees. Each later module is written like the core:
parameters as CONSTANTS with named assumptions, one action per operation,
invariants as conjunctions of named parts, no RECURSIVE operators, proofs in a
module of their own.

| Step | Modules | Proofs |
|---|---|---|
| 1 missions | `MissionGuards`, `MissionLifecycle`, `AtlasDaemon`, `AtlasConversation` | `AtlasDaemonProofs`, `AtlasConversationProofs` |
| 2 events | `EventDispatch`, `JmapRuntime`, `RabbitRuntime` | `EventDispatchProofs`, `JmapRuntimeProofs`, `RabbitRuntimeProofs` |
| 3 tokens and configuration | `OAuthRefresh`, `ConfigCache` | `OAuthRefreshProofs`, `TwakyPartsProofs` |
| 4 event log | `EventGraph` | `TwakyPartsProofs` |
| 5 mail pipeline | `MailSieve`, `MailPipeline`, `LlmBreaker` | `MailProofs` |
| 6 learning | `MailLearning`, `LearnedPatterns` | `MailProofs` |
| 7 notices | `MissionNotices` | `TwakyPartsProofs` |

All seven steps are modelled, and all their safety properties proved. `TwakyParts`
puts the modules of the steps 3 to 7, which share no state, side by side for one
run. What could come next: refinements of small abstract specifications by
`MailPipeline` and `ConfigCache`, memories and the style profile of the mail
sentinel, and the executor of skills. Runs keep to a few missions,
runs, events or tokens: the races need two of each and one fault.

## 3 Modules and code

`MissionGuards` is `guards._ALLOWED` and the state sets as data.

`MissionLifecycle` is what the engine promises: a row is created declared or
parked and then moves along the table. It knows no process.

`AtlasDaemon` is the detailed model. A step is one database transaction, or a
stretch of code during which no other process can interleave.

| Variables | Code |
|---|---|
| `state`, `artifacts`, `order` | the mission rows: state, artifacts reduced to their kinds, `declared_at` order |
| `ckpt` | missions with a LangGraph checkpoint |
| `pc`, `mid`, `fresh`, `zombie` | a task of `_bounded_run` with its thread: next call of `_run_mission_sync`, mission, `is_fresh_claim`, and whether `asyncio.wait_for` gave up on it |
| `phase`, `listener`, `sweeper`, `toCheck`, `recovered` | the daemon: position in `_main_loop`, LISTEN connection, periodic sweep task, recovery's lists |
| `unsent`, `lost` | resumes committed whose notification is not out yet; missions whose wake-up nobody received, or whose failure could not be recorded, since the last boot |
| `matched` | the mission `draft_diff` found and has not overwritten yet |

| Actions | Code |
|---|---|
| `Declare`, `park_for_review`, `resume`, `cancel` | the engine operations of requests and sentinels |
| `FindMatchingMission`, `TransitionMissionToDone`, `AbandonMatch` | `extractors/draft_diff.py`, the one writer outside the engine |
| `DeliverResumed`, `DropResumed` | `_notify`, `_listener`, `_schedule_resumed` |
| `Boot`, `RecoverOne`, `EndRecovery`, `ScheduleRecovered`, `EndScheduling`, `EndInitialSweep` | `resume_missions_after_restart`, `_recover_and_schedule`, the beginning of `_main_loop` |
| `ClaimDeclared` | one turn of `_schedule_declared_loop` with `_claim_declared`, for all three of its callers |
| `AcquireSemaphore` … `Return`, `HandleCrash`, `Timeout` | `_bounded_run` and `_run_mission_sync`, one action per call |
| `CallFails` | a database error in one of these calls |
| `StartListening`, `ListenerDies`, `SweepDies`, `Stop`, `Exit` | the lives of the daemon's helpers; SIGTERM; crash and end of drain |

Choices a reader may want to question:

- `resume` is enabled whenever the guard table allows it. The table cannot tell
  it from `commit_plan`, so it also accepts missions in planning (section 7).
- A task that timed out leaves the task set and the semaphore; its thread goes
  on (`zombie`). It can still write rows and checkpoints.
- The initial sweep and the scheduling of recovered missions do not await, so no
  task runs before `_main_loop` reaches its first wait: `phase` goes through
  "recovering", "scheduling" and "sweeping" before runs may acquire the
  semaphore.
- An exception of the database costs one of the `MaxFaults` faults. In a call of a
  run's thread it ends the thread (`CallFails`), and `_bounded_run` then tries to
  fail the mission; in that attempt it leaves the row as it is, in a task nobody
  inspects (third disjunct of `FailMission`). Such a mission joins `lost`: a live
  daemon never touches it again. In recovery and the initial sweep the exception
  ends the process (`Exit`), in the other tasks of the daemon the task
  (`ListenerDies`, `SweepDies`), and in `_notify` only the notification
  (`DropResumed`). What the graph raises needs no fault (`GraphReturns`).
- What the graph answers is free (`GraphReturns`); `AtlasConversation` says which
  answers there are.
- `FindMatchingMission` needs an artifact that names the mail a sent mail
  answers. The artifacts the code writes never do; the LLM chooses the content of
  the one `request_user_input` stores, so only missions the mail sentinel
  delegated to Atlas can match. Hence the three constants `OwnerMissions`,
  `Delegated` and `Parked`.
- `engine.start_planning` is only reached when a test passes a declared mission
  to `_run_mission_sync`; the branch for planning missions that are not fresh
  claims (`atlas_daemon.py:175`) is modelled but TLC shows it to need a resume
  or a recovery that never brings one.

`AtlasConversation` is the thread of one mission. A message is its type and what
the readers look for (`extract_pending_from_output`, `_last_finish_marker`):
a pending question, a finish marker, anything else. LLM and tools choose among
these. The step counter, the six-message window, the answer injected on resume
and what a restart keeps are modelled as they are.

`EventDispatch` is what the sentinel runtime does with an event, whatever its
source: `_dispatch` and `_process_with_bookkeeping`, one action per call. Rows of
`sentinel_run` are a sequence in the order of insertion, `old` says how many of
them are older than the 24 hours the idempotency check looks back. A call that
raises ends the task (`CallFails`); the event is then in the history variable
`abandoned`, as are the events whose task ended with the process. The module
has no Next; two modules compose its actions with those of a source.

| Module | Variables | Code |
|---|---|---|
| `JmapRuntime` | `arrived`, `destroyed` | the mailbox; mails are numbered, a JMAP state is how many there were |
| | `saved`, `page`, `patches` | `config_values.jmap_last_state`, its copy in a settings page, and the PATCH that writes it back or leaves it out |
| | `poller`, `since`, `new_state`, `batch` | `stream()` and its local variables |
| | `skipped` | history: mails a seed or re-seed passed over, as `_poll_changes` documents |
| `RabbitRuntime` | `broker` | where the broker has a message |
| | `stream`, `stale` | `stream()`; tasks whose delivery belongs to a channel that is gone |

An action of the poller ends where the code awaits: the hand-out of a delta and
`_persist_state` are one step, because nothing between them lets a task run. A
mail's task is created when the generator yields it, so `HandOut` creates those
of the whole delta, also when `_persist_state` then raises. A double 401 begins
`stream()` anew with the tasks still there, any other error ends it for good
(`poller = "dead"`) until the runtime is restarted. `Reseed` is the answer to any
method error of Email/changes. A Rabbit message is delivered, worked on and
acknowledged on one channel; when the channel goes, the broker has its
unacknowledged messages again, and acknowledgements of the tasks still at work
raise (`AckMessage`). `get` is basic.get, which the prefetch count does not limit.

`OAuthRefresh` is the row `oauth_credential` and a `RefreshManager` in each of
two processes.

| Variables | Code |
|---|---|
| `cred`, `valid`, `issued`, `aged` | the row; the refresh tokens the authorization server accepts; its answers are numbered, and access tokens expire in that order |
| `cache`, `lock`, `woken` | per process: whether an access token is cached, the `asyncio.Lock` (owner, waiters, the loop it is bound to), waiters whose future is done |
| `at`, `row`, `answer`, `forced` | a call of `get_access_token` or `force_refresh` with its local variables |
| `note` | notifications to the listener |

Callers are tasks of the main loop, pipeline threads (each `sync_` wrapper runs a
loop of its own) and request threads of the API. Between two awaits nothing
interleaves, so taking a free lock and the double check are one step (`Enter`).
A waiter of a foreign loop raises; a waiter whose own loop sleeps is not woken by
`release` (`Sleep`, `Wake`). Logouts, lost answers, lost notifications and
restarts share `MaxFaults`.

`ConfigCache` stands for the three registries, told apart by `kind`: what a
notification drops, whether `list_enabled` exists, and whether the listener
connects again. `reader` holds what was fetched and not yet stored.

`EventGraph` is the way from a published message through `ingest.py` to the
event table (`log`, with the status of each row) and through projectors
(`batch`) to the graph. A kind of event stands for an exchange and a payload about
one entity; its mapper is the record of what it sets (`Sets`), and the name of a
person is in addition set where none is (`Names`). A batch is the set of the
least pending rows (`FirstRows`) and loses its least row with each step of the
projector. The ghost `ideal` is the graph that the owner's messages make when
each is projected once, in the order of publication.

`MailSieve` holds the decisions without effects: heuristics of the triage over
the marks of a mail, rules, routes, and the arithmetic of learned patterns in
hundredths, rounded as the column `NUMERIC(3,2)` rounds. `MailPipeline` is one
run of the graph: `Resilient` is `resilient_node`, which lets a node end with its
effects and its output, or with a part of the effects and no output; `done` is the
list of effects. `LlmBreaker` takes record_success and record_failure apart into
reads and writes, because the breaker is shared by threads and has no lock.

`MailLearning` is the mailbox between the sentinel, the observer, the owner's mail
client and the restore endpoint, for one sender. A step is one request to the mail
server or one transaction, so that each of them can act between two steps of
another.

| Variables | Code |
|---|---|
| `box`, `rows` | where each mail is; its rows of `mail_sentinel_spam_decision` |
| `filing` | how far the pipeline's thread is in `_terminate`, with the mailboxes it read |
| `evid`, `obs` | evidence of the sender's three patterns; the observation log |
| `cursor`, `delta`, `late` | stored JMAP state, and the mails changed since it and since the tick began |
| `tick` | the tick and the dispatch it is in: the mail, the mailboxes it read, the observation it chose |
| `api` | a restore request between its phases |
| `rescued`, `unfiled`, `skipped` | history, for the properties |

| Actions | Code |
|---|---|
| `ProcessMail` | the pipeline up to its decision; with a label when it is spam or a newsletter |
| `ReadMailboxes`, `MoveToJunk`, `MarkNonjunk`, `InsertRow`, `FilingFails` | the rest of `_terminate`: one action per request, and the insert; any of them can fail |
| `Replay`, `DryReplay` | the two ways of `replay` |
| `Bootstrap`, `TickBegins`, `TickEnds`, `Crash` | `run_tick` and the state it stores |
| `ReadMail`, `ChooseExtractor` | `_dispatch`: `await get_email`, and the query for open rows after it |
| `RecordEvidence`, `MarkRestored`, `LogObservation`, `DispatchRaises` | the transactions of the extractors, and an exception at any of these points |
| `ApiChecks`, `ApiPatches`, `ApiMarks` | the phases of the restore endpoint |
| `Arrive`, `OwnerMoves`, `OwnerTouches`, `Purge` | mail server, mail client, housekeeping |

The pipeline runs on threads of its own, so the observer can see a mail halfway
through `_terminate`: labelled and still in the inbox, or in Junk and without a row.
`TrustIsEarned` names what comes of it: a dispatch that read the mailboxes before
the move and asks for open rows after the insert counts trust for a mail that
nobody rescued. What else a run does to a mail (the archive action of a rule, say)
is left to `MailPipeline`. How confidence follows from evidence is the subject of
`LearnedPatterns`, which has the rows of one sender with the weekly health check.

`MissionNotices` has one mission, writers with and without notifications, one
thread in `_await_terminal` and one subscriber of the SSE broker. Changes are
numbered; `unsent` is the gap between the commit and the transaction of the
`NOTIFY`.

`TwakyParts` lets TLC check these eight parts in one run: it extends their
modules, the initial states are those of the parts side by side, each behaviour
moves one of them, so the states are the disjoint sum of those of the parts. It
claims nothing about how they interact; what one part takes from another is free
inside each module. Its properties are those of the modules; `PartsTypeOK` is the
conjunction of their types. `MCSettling` does the same for the parts whose work has
to end and whose instances are small enough to share a run: `AtlasConversation`,
`RabbitRuntime` and an instance of `AtlasDaemon` with two missions.

## 4 Runs

| Run | Instance | Shows |
|---|---|---|
| `daemon_safety` | one owner's mission, one parked by a sentinel, two runs for one slot, one fault | types; nobody stranded in planning (`PlanningIsOwned`) or running (`RunningIsDriven`); zombies are harmless (`ZombieMissionIsOver`); questions and answers in step; refinement of `MissionLifecycle` |
| `daemon_liveness` | a delegated mission, a question while there are fewer than two artifacts, two slots, two faults, fairness | `ClaimedOnce`, questions and answers with two concurrent runs of one mission, artifacts only grow, `RunningSettles` |
| `settling` | three parts in turn, each with the fairness of its module. The conversation: three LLM steps, up to two tool results each, one restart. RabbitMQ: two messages and one that is no JSON, one slot, one fault. The daemon: two declared missions, one slot, one fault, no questions | the window agrees with the history (`AskedIsNewest`, `NoQuestionTwice`), answers reach the graph, the number of questions is bounded, the conversation ends (`ConversationEnds`); `AckedWasTaken`, `UnackedIsExplained`, one slot suffices against duplicates (`ProcessedOnce`), every message comes to an end (`MessageSettles`); the periodic sweep makes up for every lost or early notification (`DeclaredIsClaimed`) |
| `jmap` | two mails for one slot, deltas of one or two, a PATCH, one fault, fairness | the token never runs ahead of the mails (`NoMailIsPassedOver`), a replayed delta has nothing processed twice (`AtMostOnce`), every mail is dealt with (`MailSettles`) |
| `parts` | each of the eight parts of section 3 on its own: one mail of one sender with two events; three callers for a breaker of threshold two; a task, a pipeline thread and an API thread for two tokens and one fault; two names and two readers; three messages, two projectors, one fault; two writers, four changes and a queue of two | what `MailLearning` (`TrustIsEarned`, `RestoredOnce`, `RescueIsSeen`), `LearnedPatterns` (`TrustOutranksBlock`), `MailPipeline` (`JunkIsFinal`), `LlmBreaker` (`OpensOrRaced`), `OAuthRefresh` (`TokensAreKept`, `OneFlight`), `ConfigCache` (`StaleIsExplained`), `EventGraph` (`GraphIsTrue`) and `MissionNotices` (`EndIsHeard`) promise |
| `force_refresh`, `lock_always_safe` | one caller of each kind, one fault | `ForceBypassesCache`, `SyncCallsAreSafe` fail, section 7 |
| `counted_twice` | one mail, one move of the owner, one crash | `CountedOnce` fails, section 7 |
| `rabbit_redelivered` | one message, two slots, one lost connection | `ProcessedOnce` fails, section 7 |
| `guards_bypassed`, `parked_unparked`, `conversation_answered` | the smallest instances that show it | violations of what comments say, section 7 |

Why these bounds are enough: every race of the daemon is between at most two
runs (a claim and a resume, a zombie and a recovery, a recovered run and a
notified one) on one mission, or between two missions and one slot. One fault
strands a mission or leaves a failure unrecorded; `daemon_liveness` has a
second one, which interrupts the recovery from the first. One question per
mission takes it once through every state; that an answered mission asks again,
any number of times, is the subject of `AtlasConversation`. In the conversation
three steps with two results each give threads longer than the six-message
window, so a question can leave it. For a source, two events
compete for one slot and one of them can come twice; the restart of a runtime
whose stream is dead is no fault, so one fault is enough for a delta or a
message to be replayed. `MaxArtifacts`, `MaxFaults`, `MaxBatch`, `MaxCrashes`,
`MaxMails`, `MaxPatches`, `MaxTokens`, `MaxRev`, `MaxDrops`, `MaxEvents`,
`MaxEvidence`, `MaxDropped`, `MaxEdits`, `MaxCalls`, `MaxSent`, `MaxHitches`,
`MaxRevs` and the number of `Tasks` (four: enough for two events
delivered twice) are bounds of the model, `MaxChanges` a small value of
the literal 200; the others are settings of the program.
Runs are interchangeable, so the safety run uses symmetry; the runs with
temporal properties of the fair specification do not. Every cfg switches the
deadlock check off: with all missions over, no faults left and a mailbox that
is quiet, the system may rest.

Each property of a passing run has a mutant, an operator `X_Name` next to the
definition `X` that changes it as a plausible mistake would; PROJECT.json pairs
them.

## 5 Fairness

`FairSpec` assumes of the daemon's environment: a stopped daemon is started
again (the restart policy of the compose file) and its main loop goes on
(`MainLoop`); a living periodic sweep comes round (`ClaimDeclared` while
`sweeper = "on"`); the listener's thread starts or fails; a request that
committed a resume sends its notification or loses it; a run's next call
returns (`RunStep`) - the LLM client has a timeout and the step limit bounds the
number of calls. Nothing is assumed of owners, sentinels, the timeout of a
mission, faults (database errors among them), or of the notification of a
declaration. All conditions are
weak fairness: each of these actions stays enabled until it happens or its
cause has gone.

The sources assume that a stopped runtime is started, that the loop of `stream()`
goes round, and that the next call of a dispatch task returns: `process()` is
bounded by its timeout, and asyncio serves a semaphore in order. Nothing is
assumed of mailbox, publishers, settings page or faults, and nobody is assumed
to restart a runtime whose stream is dead: `MailSettles` and `MessageSettles`
except it. `MessageSettles` also excepts a message whose run was cut short
(`CutShort`): its row was inserted, `process()` was not called or did not come to its
end, and the redelivered message is acknowledged as a duplicate of that row. Such a
message is lost; the property says that no other is.

`MessageSettles` and `DeclaredIsClaimed` have the form `[]<>(all of them are
settled)`, which says at least that every single one is settled after it was
published or declared, in one formula for TLC. In `MCSettling` the fairness of a part holds
of its steps only while the part moves: the conjuncts are those of the module's
`FairSpec`, each with that condition.

`AtlasConversation` additionally assumes that the owner answers, because
`MissionEnds` (in `settling`: `ConversationEnds`) is about a conversation, not about
patience.

## 6 Proofs

`AtlasDaemonProofs` proves, for any sets of missions and runs, any capacity and
any number of faults, from the two assumptions of `AtlasDaemon` only:

| Theorem | Statement |
|---|---|
| `TypeCorrect` | `Spec => []TypeOK` |
| `DaemonImplementsLifecycle` | `Spec => ImplementsLifecycle`, the refinement |
| `OutcomesAreFinal` | on those rows terminal states are final and done comes from running |
| `MissionsAreClaimedOnce` | `Spec => []ClaimedOnce` |
| `ZombiesCannotMoveMissions` | `Spec => []ZombieMissionIsOver` (over, or its failure not recorded) |
| `ArtifactsAreNeverLost` | `Spec => ArtifactsOnlyGrow` |
| `QuestionsAreAnswered` | `Spec => []QuestionIsOutstanding` |
| `PlanningHasAnOwner` | `Spec => []PlanningIsOwned` |
| `RunningHasADriver` | `Spec => []RunningIsDriven` |

The argument. Step lemmas say once, over all actions, what a step can do to one
group of variables (`RowStep`: one row moves, along the table, by creation, or
by the observer; `RunsStep`: every run goes on, ends, or at most one starts;
`ArtifactsStep`: which moves bring which artifact). None of the invariants
above is inductive by itself. The strengthenings, each proved as an invariant:

- `WorkIsClaimed`: runs and recovery only ever hold missions that have left
  "declared". With it, a second claim of a mission with a run is impossible,
  and a live mission handled by a timeout or a crash handler can always be
  failed, because every live state has failed as a successor (`FailingSettles`).
- `NoRunsYet`: a daemon that is down or recovering has no run. `Boot` forgets what
  was `lost`; with this, no zombie's mission is among it.
- `NothingBeforeRunning`: no artifacts before running; so a resume of a planning
  mission leaves its answer as first artifact, for ever.
- `CommitsItsClaim`: a run about to commit its plan finds the mission in
  planning, over, or resumed early. It rests on `ClaimedOnce`, since only its
  own claim's run could have committed the plan before. It is why a question
  is never skipped by a late `commit_plan`, but for the early resume.
- `CheckpointsAreOfRuns`: a planning mission has no checkpoint, so recovery fails
  it instead of resuming a run that could not commit the plan.
- `RunningIsLookedAfter`: `RunningIsDriven` for all phases of the daemon: down, on
  recovery's lists, waiting for its task, driven, notified, or lost.

`PlanningIsOwned`, `RunningIsDriven` and `ZombieMissionIsOver` except the missions
in `lost`, because the code does strand those: there is no sweep for planning or
running missions, only the recovery of the next boot.

`AtlasConversationProofs` proves, for any step budget, any number of tool results
per message and any number of restarts, every invariant of `AtlasConversation`:

- `ConversationTypes`: `Spec => []TypeOK`.
- `AnswersAreNotLost`: `Spec => []AnswersReachTheGraph`.
- `QuestionsAreNew` and `QuestionIsLastWord`: `Spec => []NoQuestionTwice` and
  `Spec => []AskedIsNewest`.
- `FewQuestions`: `Spec => []QuestionsAreBounded`.

`Shape` says that questions and answers alternate in the artifacts and which of
them is last while the mission runs or waits; `Reached`, that every answer but the
last one of a run that has not entered the graph is in the thread, after its
question. A question that is found in the window has no human message after it
(`PendingIsNewest`; the window ends with the thread, so what follows the question
is in the window too), hence it is none that was answered, hence none that was
asked. `Budget` relates the number of questions to the step counter: between two
of them the graph takes a step.

`EventDispatchProofs` holds lemmas only: what a step of a dispatch task does to
rows and tasks, for any number of events, tasks and slots (`DispatchMoves` is any
such step). `RunInvKept` says a run belongs to one task and its row tells where
that task is; `RowsKept`, that rows keep their event and an error stays one;
`TakenKept`, that every duplicate has an original; `KnownKept`, that an event the
runtime knows of is not forgotten; `OnceKept`, that no event is taken twice in 24
hours while two tasks past the semaphore are never about the same event. The two
sources are proved from them:

| Theorem | Statement |
|---|---|
| `RabbitRuntimeProofs`: `Types`, `AcknowledgedIsTaken`, `WaitingIsExplained` | `Spec => []TypeOK`, `[]AckedWasTaken`, `[]UnackedIsExplained`, for any number of slots |
| `RabbitRuntimeProofs`: `OneSlotOnce` | `Spec => []ProcessedOnce` with one slot and finitely many tasks. The default is four slots, and then it fails (section 7) |
| `JmapRuntimeProofs`: `Types`, `NoMailLost` | `Spec => []TypeOK`, `[]NoMailIsPassedOver` |
| `JmapRuntimeProofs`: `OnceWithoutPatch` | `Spec => []AtMostOnce`, for any number of slots |

With one slot, tasks past the semaphore are never about one event because there is
only one of them (`OneHolds`). For the mailbox it holds with any number of slots,
and here the theorem says more than the run, whose instance has one: tasks are
about different mails below the persisted token, and a delta only holds mails
above it (`Apart`), until a PATCH puts an old token back. `MailInv` strengthens
`NoMailIsPassedOver` to every token that may come into use again: the persisted
one, that of the settings page and the poller's.

`OAuthRefreshProofs` proves about any number of tasks, threads, tokens and faults,
from `RefreshAssumption` (the mark of a free lock is no caller):

- `OneRefreshAtATime`: in a process one caller at a time is inside the lock,
  from whatever loop.
- `StuckThreadBlocksItsProcess`: a thread that sleeps through its turn, which the run
  `lock_always_safe` finds, keeps the lock from everybody in its process until the
  process is restarted (`StuckForGood`).
- `NoTokenIsThrownAway`: `Spec => TokensAreKept`.
- `RefreshTypes`: `Spec => []OTypeOK`.

The first two rest on `LockInv`: who is at a step inside the lock owns it, only the
first waiter can have been woken, and only while the lock has no owner. The
lemma `StepsOfLocks` sorts all actions into seven ways to touch the locks, so
that each part of the invariant is proved seven times instead of for every
action. The third adds `TokenInv`: what a caller carries between reading the row
and writing it. A caller who presents a refresh token is the only one of its
process to have read it (single flight), so another process traded it in when it
is refused; and a stored token is spent only by a caller who then holds its
successor, until the write or the fault.

`MailProofs` has the four modules of the mail sentinel; each theorem is for any
values of the module's constants, from its one named assumption.

| Module | Theorems |
|---|---|
| `MailLearning` | `LearningTypes` (`[]LTypeOK`), `RowsAreRestoredOnce` (`RestoredOnce`), `TrustMustBeEarned` (`TrustIsEarned`), `RescuesAreSeen` (`[]RescueIsSeen`) |
| `LearnedPatterns` | `PatternsTypeCorrect` (`[]PTypeOK`), `TrustPrevails` (`[]TrustOutranksBlock`) |
| `MailPipeline` | `PipelineTypes` (`[]MTypeOK`), `JunkStaysFinal` (`[]JunkIsFinal`), `PipelineInvariant` |
| `LlmBreaker` | `BreakerTypes` (`[]BTypeOK`), `BreakerOpens` (`[]OpensOrRaced`) |

- Learning. A row only ages: open, marked, purged, and its mark never changes, by
  whichever of the observer and the API it was set (`RestoredOnce`). A mail with a
  row is in Junk, was rescued, or got its row elsewhere (`RowsExplained`), and the
  observer is about to count trust only for a mail that has a row and that it did not
  see in Junk (`CountsARow`): hence the two exceptions of `TrustIsEarned` and no
  other, although four actors change mailboxes and rows between the reading and the
  counting. `SeenInv` follows a rescued mail through every place it can be
  in: the changes since the stored state, those the tick has yet to look at, the one
  it looks at, those that came too late for it; and what the tick looks at is not
  covered by the stored state yet, so a crash loses nothing.
- Patterns. `BlockCeiling`: the confidence of block_sender stays at or below the hint
  it is smoothed towards, 0.90, and an active trust_sender is not below that; the
  proof computes with the rounding of the column.
- Pipeline. `PipelineInv` says for each node what a run that has got there can have
  done: nothing before the triage but to learn (`OnlyLearned`), and that the move to
  Junk leads to the end (`MoveEndsTheRun`). It holds with dropped outputs, because a
  node without its output leaves the state of the node before it, and with
  rules edited under the run.
- Breaker. The counter is compared for equality with the threshold. While threads
  do not race, nobody else's write comes between a thread's read and its own
  (`NobodyElse`), so a counter that has passed the threshold never meets it again.

`TwakyPartsProofs` has the other parts and their composition:

| Module | Theorems |
|---|---|
| `ConfigCache` | `CacheTypes` (`[]CTypeOK`), `StaleEntriesAreExplained` (`[]StaleIsExplained`) |
| `MissionNotices` | `NoticesTypes` (`[]NTypeOK`), `EndsAreHeard` (`[]EndIsHeard`) |
| `EventGraph` | `GraphTypes` (`[]GTypeOK`), `MappersAreHarmless` (`ReplayIsHarmless`), `GraphInvariant`, `GraphStaysTrue` (`[]GraphIsTrue`) |
| `TwakyParts` | `PartsTypes` (`[]PartsTypeOK`), `PartsKeepTheirPromises` (its other properties) |

- Configuration. The strengthening `ReadersInv` says of every row a reader is about
  to store what `StaleIsExplained` says of those in the cache.
- Notices. `PipeKeepsLast`: once the last change was notified, and unless an earlier
  one overtook it, it is the last one on its way to the broker, or else the last in
  the client's queue, or else what the client was told; a queue that is full
  drops its oldest entry, never that one.
- Event graph. Induction over the log is out of the provers' reach, so the
  invariant speaks of the last writer of each property: `GraphIsLast` and
  `IdealIsLast` say that graph and ideal have the value of the last row, and of
  the last message of the owner, that sets it (`GraphName` and `IdealName`: a
  person's name is that of a contact, or else of an attendee, whatever the order). `NothingIsLost` gives every message of the
  owner a row with its kind, `RowsInOrder` that rows are in the order of their
  messages, `PendingIsTail` that the pending rows are the last ones of the log
  while batches and replays keep out of each other's way; so when all is handled both last writers
  are the same. `ReplayIsHarmless` is checked by no run, it is a fact about the
  operators; it is the claim behind `replay` (`projector.py`) and is proved for all
  kinds of events.
- Composition. `BehaviourOfParts`: seen through its own variables, a behaviour of
  `TwakyParts` is one of each part's specification, so that each theorem of a part
  holds of the composition; the two theorems are the exact list of the run.

With these, every invariant and every action property of a passing run is a
theorem. Only model-checked: the liveness properties (`DeclaredIsClaimed`,
`RunningSettles`, `MissionEnds`, `MailSettles`, `MessageSettles`), which need
fairness and ENABLED. The operators of `MailSieve` are used in the proofs by
their definitions and have no theorem of their own.

## 7 Divergences found

- `guards_bypassed`: `draft_diff.py:94` writes done without the engine;
  `engine.py:4` says nobody must. The refinement therefore holds, and is proved,
  for `Guarded` missions only.
- `parked_unparked`: `recovery.py:51` says only `engine.resume` may move a parked
  mission to running. A resume accepted during planning starts a second run;
  if that one parks the mission, `commit_plan` of the first unparks it, with the
  question unanswered. `QuestionIsOutstanding` excepts exactly these missions
  (`ResumedEarly`).
- `conversation_answered`: a restart between the graph's question and
  `request_user_input` injects the previous answer again; `pending.py:26` takes
  any human message after a question for its answer, and the mission is
  finished without its owner having been asked.

- `rabbit_redelivered`: the design document of the sentinels
  (`docs/superpowers/specs/2026-08-10-sentinels-design.md:405-408`) says the lookup
  of earlier runs tolerates redelivery. Lookup and insert are two transactions
  (`runtime.py:314`, `runtime.py:347`) and there are four slots, so two deliveries
  can both find nothing.

- `force_refresh`: the docstring (`oauth/refresh_manager.py:105`) says the cache is
  bypassed and the token endpoint always called. The double check of `_refresh`
  does not know that it was forced, so while a token is cached (for
  `_CACHE_TTL_S`) that very token comes back, also to the caller who was refused
  with it.

- `lock_always_safe`: the module docstring (`oauth/refresh_manager.py:10-12`) says that
  calling the sync wrappers from within `process()` is always safe. The one lock
  serves the loops of them all, and its release does not wake the loop of another
  thread: a pipeline thread can sleep through its turn, and then nobody in the
  process gets the lock until a restart (`StuckThreadBlocksItsProcess`).

- `counted_twice`: `store/observations.py:4-6` and the design document
  (`docs/superpowers/specs/`, SP5b) say that a tick replayed after a crash counts
  nothing twice, because the log is unique. Evidence is counted before the log is
  written, and nobody looks whether the log had the observation already.

Met while modelling, and asserted by no property, neither as what the code promises
nor as a violation, because another property covers the same lines or nothing is
promised to check:

- `sentinels/sources/jmap_poll.py:109-110` speaks of at-least-once delivery. A run cut
  short between the insert of its row and the end of `process()` is not taken up
  again, because the redelivered event is a duplicate of that row (the exception
  `CutShort` of `MessageSettles`, and the one of `MailSettles`).
- `sentinels/mail/robustness.py:53-59` says that a failed probe opens the breaker
  again. The counter is compared for equality and has passed the threshold by
  then: it never does. `OpensOrRaced` speaks of the first opening only.
- `sentinels/mail/nodes.py:215-216` and `508-510` say that no learned pattern has a
  row in `mail_sentinel_rule`. `learn_pattern` records the names of rules. Such a
  pattern, once active, takes none of the rule's actions and skips the triage
  (`apply_actions` and `Synthetic` in `MailPipeline` do what the code does).
- `sentinels/mail/observer.py:93-97` takes any open row for a spam decision. Rows of
  newsletters and of dry runs are open while their mail is in the inbox
  (one exception of `TrustIsEarned`), and the row of a mail that is moved to Junk
  between the observer's two reads is open as well (the other). The pipeline's own
  move to Junk is in turn observed as `marked_spam` and is evidence for
  `block_sender`.
- A confidence never passes the hint it is smoothed towards: `label:` patterns stay
  at 0.85, below the threshold, although the SP5b design (lines 38-42, 486-489) has
  one activate at 0.95 and SP5c (section 9) labels mails by it; and with two
  decimals a `block_sender` that was decayed once stays at 0.89, whatever is marked
  as spam afterwards (`reclassification.py:4-6`).
- `projector.py:44-49` explains the row locks as exclusive; they are given back
  before the rows are applied (`GraphIsTrue` excepts what runs into each other).
- `daemon/atlas_daemon.py:55` mentions a trigger of the database that does not exist;
  `_claim_declared` writes without notifying (`EndIsHeard`).

## 8 Not modelled

Prompts, texts and formats of agents and pipeline nodes, and the phrases and
regular expressions behind the marks of a mail; third-party protocols (OIDC,
JMAP sessions, LangGraph's own storage beyond "a checkpoint after every node");
in the sentinel runtime messages without an id, the trace list, and what the
thread of a timed-out `process()` goes on doing; memories but for their
selection, proposals of rules and the style profile; the executor of skills;
request handlers that validate and store one row; sessions; the frontend; the
heartbeat file.
