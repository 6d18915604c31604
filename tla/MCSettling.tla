----------------------------- MODULE MCSettling -----------------------------
(***************************************************************************)
(* Three parts of Twaky whose work has to end, for one run of TLC: the     *)
(* thread of one mission (AtlasConversation), a RabbitMQ source            *)
(* (RabbitRuntime), and missions that compete for the slots of the daemon  *)
(* (AtlasDaemon).  As in TwakyParts only the part "part" moves, and the    *)
(* others stay as they started.  The part that moves has the fairness of   *)
(* the FairSpec of its module, conjunct by conjunct.                       *)
(***************************************************************************)
EXTENDS AtlasConversation

CONSTANTS
  Events, Malformed, Tasks,  \* of RabbitRuntime
  OwnerMissions, Runs,           \* of AtlasDaemon
  MaxConcurrent, MaxFaults,  \* of both
  None

VARIABLES
  part,  \* the part that moves
  \* RabbitRuntime
  r_rows, r_old, r_pc, r_ev, r_run, r_abandoned, r_faults,
  r_broker, r_stream, r_stale,
  \* AtlasDaemon
  d_state, d_artifacts, d_order, d_ckpt, d_pc, d_mid, d_fresh, d_zombie,
  d_phase, d_listener, d_sweeper, d_toCheck, d_recovered, d_faults,
  d_unsent, d_lost, d_matched

Rabbit == INSTANCE RabbitRuntime WITH
  rows <- r_rows, old <- r_old, pc <- r_pc, ev <- r_ev, run <- r_run,
  abandoned <- r_abandoned, faults <- r_faults, broker <- r_broker,
  stream <- r_stream, stale <- r_stale

Daemon == INSTANCE AtlasDaemon WITH
  Delegated <- {}, Parked <- {}, MaxArtifacts <- 0,
  state <- d_state, artifacts <- d_artifacts, order <- d_order,
  ckpt <- d_ckpt, pc <- d_pc, mid <- d_mid, fresh <- d_fresh,
  zombie <- d_zombie, phase <- d_phase, listener <- d_listener,
  sweeper <- d_sweeper, toCheck <- d_toCheck, recovered <- d_recovered,
  faults <- d_faults, unsent <- d_unsent, lost <- d_lost, matched <- d_matched

rvars == <<r_rows, r_old, r_pc, r_ev, r_run, r_abandoned, r_faults,
           r_broker, r_stream, r_stale>>
dvars == <<d_state, d_artifacts, d_order, d_ckpt, d_pc, d_mid, d_fresh, d_zombie,
           d_phase, d_listener, d_sweeper, d_toCheck, d_recovered, d_faults,
           d_unsent, d_lost, d_matched>>
svars == <<part, vars, rvars, dvars>>

SInit ==
  /\ part \in {"conversation", "rabbit", "daemon"}
  /\ Init /\ Rabbit!Init /\ Daemon!Init
  /\ part # "conversation" => state = "running"

SNext ==
  \/ part = "conversation" /\ Next /\ UNCHANGED <<part, rvars, dvars>>
  \/ part = "rabbit" /\ Rabbit!Next /\ UNCHANGED <<part, vars, dvars>>
  \/ part = "daemon" /\ Daemon!Next /\ UNCHANGED <<part, vars, rvars>>

ConversationIsFair ==
  /\ WF_vars(part = "conversation" /\ RunStep)
  /\ WF_vars(part = "conversation" /\ Resume)

RabbitIsFair ==
  /\ WF_rvars(part = "rabbit" /\ Rabbit!Start)
  /\ \A e \in Events :
       /\ WF_rvars(part = "rabbit" /\ Rabbit!Deliver(e))
       /\ WF_rvars(part = "rabbit" /\ Rabbit!Reject(e))
  /\ \A t \in Tasks : WF_rvars(part = "rabbit" /\ Rabbit!Dispatch(t))

DaemonIsFair ==
  /\ WF_dvars(part = "daemon" /\ Daemon!MainLoop)
  /\ WF_dvars(/\ part = "daemon" /\ d_sweeper = "on"
              /\ \E m \in OwnerMissions : Daemon!ClaimDeclared(m))
  /\ WF_dvars(part = "daemon" /\ Daemon!StartListening)
  /\ \A m \in OwnerMissions :
       WF_dvars(part = "daemon" /\ (Daemon!DeliverResumed(m) \/ Daemon!DropResumed(m)))
  /\ \A r \in Runs : WF_dvars(part = "daemon" /\ Daemon!RunStep(r))

SSpec ==
  SInit /\ [][SNext]_svars /\ ConversationIsFair /\ RabbitIsFair /\ DaemonIsFair

-----------------------------------------------------------------------------
(* The safety properties of AtlasConversation are checked by their names;   *)
(* these are those of the other parts, and the progress of each.            *)

\* The variables of the conversation and of the RabbitMQ source have their types.
TypesOK == TypeOK /\ Rabbit!TypeOK

\* What is acknowledged was taken: see RabbitRuntime.
AckedWasTaken == Rabbit!AckedWasTaken

\* What is not acknowledged is explained: see RabbitRuntime.
UnackedIsExplained == Rabbit!UnackedIsExplained

\* process() is called once for a message in 24 hours: see EventDispatch.
ProcessedOnce == Rabbit!ProcessedOnce

\* Messages are handled, or their run was cut short: see RabbitRuntime.
MessageSettles == Rabbit!MessageSettles

\* The mission of the conversation ends: see AtlasConversation.
ConversationEnds == part = "conversation" => MissionEnds

\* Declared missions that compete for a slot are claimed: see AtlasDaemon.
DeclaredIsClaimed == Daemon!DeclaredIsClaimed

=============================================================================
