------------------------------ MODULE ConfigCache ------------------------------
(***************************************************************************)
(* The caches of configuration in the sentinel process and in the daemon:  *)
(* the sentinel registry, the agent registry and the skill registry.  A    *)
(* miss is answered from the database without holding the lock and stored  *)
(* afterwards; a listener drops entries when the database notifies of a    *)
(* change.  The three differ in what a notification drops, in whether they *)
(* list, and in what becomes of a listener that loses its connection.      *)
(***************************************************************************)
EXTENDS Integers, FiniteSets

CONSTANTS Configs,      \* of sentinels, of agents, or of agents with skills
          Readers,    \* threads that read the configuration
          MaxRev,     \* changes of one configuration
          MaxDrops    \* lost connections of the listener
ASSUME CacheAssumption == MaxRev \in Nat \ {0} /\ MaxDrops \in Nat

VARIABLES
  kind,    \* "sentinel", "agent" or "skill": which registry it is
  db,      \* [Configs -> [rev, on]]: the stored configuration and its "enabled"
  held,    \* [Configs -> [rev, on]]: the cache; Nothing where it has no entry
  loaded,  \* _enabled_loaded
  reader,  \* [Readers -> what the reader is about to store]
  wire,    \* the names in notifications not yet delivered
  up,      \* whether the listener is connected
  drops,
  missed,  \* ghost: names of notifications that were lost
  outrun   \* ghost: names notified of while a reader was about to store them

cvars == <<kind, db, held, loaded, reader, wire, up, drops, missed, outrun>>

StoredConfig == [rev : 1..MaxRev, on : BOOLEAN]
Nothing == [rev |-> 0, on |-> FALSE]
Idle == [pc |-> "idle", what |-> {}, rows |-> [n \in Configs |-> Nothing]]

CInit ==
  /\ kind \in {"sentinel", "agent", "skill"}
  /\ db = [n \in Configs |-> [rev |-> 1, on |-> TRUE]]
  /\ held = [n \in Configs |-> Nothing] /\ loaded = FALSE
  /\ reader = [r \in Readers |-> Idle]
  /\ wire = {} /\ up = TRUE /\ drops = 0
  /\ missed = {} /\ outrun = {}

\* The owner changes a configuration, or enables or disables it; the trigger
\* notifies the connections that listen.
Change(n) ==
  /\ db[n].rev < MaxRev
  /\ \E on \in BOOLEAN : db' = [db EXCEPT ![n] = [rev |-> @.rev + 1, on |-> on]]
  /\ IF up THEN wire' = wire \cup {n} /\ UNCHANGED missed
     ELSE missed' = missed \cup {n} /\ UNCHANGED wire
  /\ UNCHANGED <<kind, held, loaded, reader, up, drops, outrun>>

------------------------------------------------------------------------------

\* get, load_agent_config, load_skills_for_agent: a miss reads one row.
FetchOne(r, n) ==
  /\ reader[r].pc = "idle" /\ held[n] = Nothing
  /\ reader' = [reader EXCEPT ![r] = [pc |-> "one", what |-> {n}, rows |-> db]]
  /\ UNCHANGED <<kind, db, held, loaded, wire, up, drops, missed, outrun>>

\* list_enabled, only of the sentinels: the enabled rows, unless they are loaded.
FetchEnabled(r) ==
  /\ kind = "sentinel" /\ reader[r].pc = "idle" /\ ~loaded
  /\ reader' = [reader EXCEPT ![r] =
                  [pc |-> "all", what |-> {n \in Configs : db[n].on}, rows |-> db]]
  /\ UNCHANGED <<kind, db, held, loaded, wire, up, drops, missed, outrun>>

\* Under the lock again, whatever has happened in the meantime.
Store(r) ==
  /\ reader[r].pc # "idle"
  /\ held' = [n \in Configs |-> IF n \in reader[r].what THEN reader[r].rows[n] ELSE held[n]]
  /\ loaded' = (loaded \/ reader[r].pc = "all")
  /\ reader' = [reader EXCEPT ![r] = Idle]
  /\ UNCHANGED <<kind, db, wire, up, drops, missed, outrun>>

\* invalidate(name) and invalidate_all(): what a notification for n drops.
Dropped(n) == IF kind = "skill" THEN Configs ELSE {n}

\* Mutant: the set of enabled sentinels is still taken to be loaded.
Invalidated_KeepsFlag(n) ==
  /\ held' = [m \in Configs |-> IF m \in Dropped(n) THEN Nothing ELSE held[m]]
  /\ UNCHANGED loaded

Invalidated(n) ==
  /\ held' = [m \in Configs |-> IF m \in Dropped(n) THEN Nothing ELSE held[m]]
  /\ loaded' = FALSE

\* A reader that fetched before stores what it fetched after this.
Deliver(n) ==
  /\ up /\ n \in wire /\ wire' = wire \ {n}
  /\ Invalidated(n)
  /\ missed' = missed \ Dropped(n)
  /\ outrun' = (outrun \ Dropped(n)) \cup
       {m \in Dropped(n) : \E r \in Readers :
                             reader[r].pc # "idle" /\ reader[r].rows[m] # db[m]}
  /\ UNCHANGED <<kind, db, reader, up, drops>>

\* The connection is lost, and with it what was on its way.  The sentinel listener
\* connects again; listen(), which serves the daemon, goes on waiting for a thread
\* that has ended.  Nothing is invalidated when the connection is back.
Disconnect ==
  /\ up /\ drops < MaxDrops /\ drops' = drops + 1
  /\ up' = FALSE /\ wire' = {} /\ missed' = missed \cup wire
  /\ UNCHANGED <<kind, db, held, loaded, reader, outrun>>

Reconnect ==
  /\ ~up /\ kind = "sentinel" /\ up' = TRUE
  /\ UNCHANGED <<kind, db, held, loaded, reader, wire, drops, missed, outrun>>

CNext ==
  \/ \E n \in Configs : Change(n) \/ Deliver(n)
  \/ \E r \in Readers : Store(r) \/ FetchEnabled(r) \/ \E n \in Configs : FetchOne(r, n)
  \/ Disconnect \/ Reconnect

CSpec == CInit /\ [][CNext]_cvars

------------------------------------------------------------------------------

\* The types of the variables.
CTypeOK ==
  /\ kind \in {"sentinel", "agent", "skill"}
  /\ db \in [Configs -> StoredConfig] /\ held \in [Configs -> StoredConfig \cup {Nothing}]
  /\ reader \in [Readers -> [pc : {"idle", "one", "all"}, what : SUBSET Configs,
                              rows : [Configs -> StoredConfig \cup {Nothing}]]]
  /\ wire \subseteq Configs /\ missed \subseteq Configs /\ outrun \subseteq Configs
  /\ loaded \in BOOLEAN /\ up \in BOOLEAN /\ drops \in 0..MaxDrops

\* A cached configuration that is not the stored one, and an enabled sentinel that
\* is missing from a set taken to be loaded, will be put right by a notification on
\* its way; otherwise that notification was lost with its connection, or it
\* outran a reader, which stored what it had read before.  In those cases the
\* registry answers with the old configuration until the next change (registry.py
\* get, list_enabled; config_listener.py; notify.py listen).
StaleIsExplained ==
  \A n \in Configs :
    \/ n \in wire \cup missed \cup outrun
    \/ /\ held[n] \in {Nothing, db[n]}
       /\ (loaded /\ db[n].on) => held[n] = db[n]
=============================================================================
