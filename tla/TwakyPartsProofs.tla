-------------------------- MODULE TwakyPartsProofs ---------------------------
(***************************************************************************)
(* Proofs about the caches of configuration, the notices of a mission and  *)
(* the graph, and about the parts together: what MailProofs and            *)
(* OAuthRefreshProofs say of the others, and this module of these, holds   *)
(* of every behaviour of TwakyParts.  Nothing bounds the readers, writers, *)
(* messages, changes and faults.                                           *)
(***************************************************************************)
EXTENDS TwakyParts, MailProofs, OAuthRefreshProofs

------------------------------------------------------------------------------
(* The caches of configuration (ConfigCache).                                 *)
(* StaleIsExplained speaks of what is stored in the cache; what a reader      *)
(* holds between its query and its store becomes that later.  ReadersInv      *)
(* says of it what StaleIsExplained says of the cache.                        *)

\* Rows as they are kept and read, without the bounds of the model.
Kept == [rev : Nat, on : BOOLEAN]

\* The shape of the variables, as far as the argument needs it.
CacheShape ==
  /\ db \in [Configs -> Kept] /\ held \in [Configs -> Kept]
  /\ DOMAIN reader = Readers

\* What a name whose cached or held row is old can be blamed on.
Explained == wire \cup missed \cup outrun

\* A reader that is about to store an old row of n is known of; and list_enabled
\* is about to store every sentinel that was enabled.
ReadersInv ==
  \A r \in Readers : reader[r].pc # "idle" =>
    /\ \A n \in Configs : n \in Explained \/ reader[r].rows[n] = db[n]
    /\ reader[r].rows \in [Configs -> Kept]
    /\ reader[r].pc = "all" => reader[r].what = {n \in Configs : reader[r].rows[n].on}

\* The invariant.
CacheInv == CacheShape /\ ReadersInv /\ StaleIsExplained

\* At the start nothing is cached and nobody reads.
LEMMA InitCacheInv == CInit => CacheInv
<1> SUFFICES ASSUME CInit PROVE CacheInv
  OBVIOUS
<1>1. CacheShape
  BY DEF CInit, CacheShape, Kept, Nothing
<1>2. ReadersInv
  BY DEF CInit, ReadersInv, Idle
<1>3. StaleIsExplained
  BY DEF CInit, StaleIsExplained
<1> QED
  BY <1>1, <1>2, <1>3 DEF CacheInv

\* Every step keeps it.
LEMMA NextCacheInv == CacheInv /\ [CNext]_cvars => CacheInv'
<1> SUFFICES ASSUME CacheInv, [CNext]_cvars PROVE CacheInv'
  OBVIOUS
<1>0. CacheShape /\ ReadersInv /\ StaleIsExplained
  BY DEF CacheInv
<1>1. ASSUME NEW n \in Configs, Change(n) PROVE CacheInv'
  <2>1. PICK on \in BOOLEAN : db' = [db EXCEPT ![n] = [rev |-> @.rev + 1, on |-> on]]
    BY <1>1 DEF Change
  <2>2. /\ db' \in [Configs -> Kept]
        /\ \A m \in Configs \ {n} : db'[m] = db[m]
    BY <1>0, <2>1 DEF CacheShape, Kept
  <2>3. UNCHANGED <<held, loaded, reader, outrun>>
    BY <1>1 DEF Change
  <2>4. Explained \subseteq Explained' /\ n \in Explained'
    BY <1>1 DEF Change, Explained
  <2>5. CacheShape'
    BY <1>0, <2>2, <2>3 DEF CacheShape
  <2>6. ReadersInv'
    BY <1>0, <2>2, <2>3, <2>4 DEF ReadersInv
  <2>7. StaleIsExplained'
    BY <1>0, <2>2, <2>3, <2>4 DEF StaleIsExplained, Explained
  <2> QED
    BY <2>5, <2>6, <2>7 DEF CacheInv
<1>2. ASSUME NEW r \in Readers, NEW n \in Configs, FetchOne(r, n) PROVE CacheInv'
  <2>1. /\ reader' = [reader EXCEPT ![r] = [pc |-> "one", what |-> {n}, rows |-> db]]
        /\ UNCHANGED <<db, held, loaded, wire, missed, outrun>>
    BY <1>2 DEF FetchOne
  <2>2. /\ reader'[r] = [pc |-> "one", what |-> {n}, rows |-> db]
        /\ \A q \in Readers \ {r} : reader'[q] = reader[q]
        /\ DOMAIN reader' = Readers
    BY <1>0, <2>1 DEF CacheShape
  <2>3. ReadersInv'
    BY <1>0, <2>1, <2>2 DEF ReadersInv, CacheShape, Explained
  <2> QED
    BY <1>0, <2>1, <2>2, <2>3 DEF CacheInv, CacheShape, StaleIsExplained
<1>3. ASSUME NEW r \in Readers, FetchEnabled(r) PROVE CacheInv'
  <2> DEFINE enabled == {n \in Configs : db[n].on}
  <2>1. /\ reader' = [reader EXCEPT ![r] = [pc |-> "all", what |-> enabled, rows |-> db]]
        /\ UNCHANGED <<db, held, loaded, wire, missed, outrun>>
    BY <1>3 DEF FetchEnabled
  <2>2. /\ reader'[r] = [pc |-> "all", what |-> enabled, rows |-> db]
        /\ \A q \in Readers \ {r} : reader'[q] = reader[q]
        /\ DOMAIN reader' = Readers
    BY <1>0, <2>1 DEF CacheShape
  <2>3. ReadersInv'
    BY <1>0, <2>1, <2>2 DEF ReadersInv, CacheShape, Explained
  <2> QED
    BY <1>0, <2>1, <2>2, <2>3 DEF CacheInv, CacheShape, StaleIsExplained
<1>4. ASSUME NEW r \in Readers, Store(r) PROVE CacheInv'
  <2>1. /\ reader[r].pc # "idle"
        /\ held' = [n \in Configs |-> IF n \in reader[r].what THEN reader[r].rows[n]
                                    ELSE held[n]]
        /\ loaded' = (loaded \/ reader[r].pc = "all")
        /\ reader' = [reader EXCEPT ![r] = Idle]
        /\ UNCHANGED <<db, wire, missed, outrun>>
    BY <1>4 DEF Store
  <2>2. /\ \A n \in Configs : n \in Explained \/ reader[r].rows[n] = db[n]
        /\ reader[r].rows \in [Configs -> Kept]
        /\ reader[r].pc = "all" => reader[r].what = {n \in Configs : reader[r].rows[n].on}
    BY <1>0, <2>1 DEF ReadersInv
  <2>3. /\ reader'[r].pc = "idle"
        /\ \A q \in Readers \ {r} : reader'[q] = reader[q]
        /\ DOMAIN reader' = Readers
    BY <1>0, <2>1 DEF CacheShape, Idle
  <2>4. CacheShape'
    BY <1>0, <2>1, <2>2, <2>3 DEF CacheShape
  <2>5. ReadersInv'
    BY <1>0, <2>1, <2>3 DEF ReadersInv, Explained
  <2>6. StaleIsExplained'
    <3> SUFFICES ASSUME NEW n \in Configs, n \notin Explained
                 PROVE  /\ held'[n] \in {Nothing, db[n]}
                        /\ (loaded' /\ db[n].on) => held'[n] = db[n]
      BY <2>1 DEF StaleIsExplained, Explained
    <3>1. reader[r].rows[n] = db[n]
      BY <2>2
    <3>2. /\ held[n] \in {Nothing, db[n]}
          /\ (loaded /\ db[n].on) => held[n] = db[n]
      BY <1>0 DEF StaleIsExplained, Explained
    <3>3. CASE n \in reader[r].what
      BY <2>1, <3>1, <3>3
    <3>4. CASE n \notin reader[r].what
      <4>1. held'[n] = held[n]
        BY <2>1, <3>4
      <4>2. reader[r].pc = "all" => ~db[n].on
        BY <2>2, <3>1, <3>4
      <4> QED
        BY <2>1, <3>2, <4>1, <4>2
    <3> QED
      BY <3>3, <3>4
  <2> QED
    BY <2>4, <2>5, <2>6 DEF CacheInv
<1>5. ASSUME NEW n \in Configs, Deliver(n) PROVE CacheInv'
  <2> DEFINE gone == Dropped(n)
  <2>1. /\ wire' = wire \ {n} /\ missed' = missed \ gone
        /\ held' = [m \in Configs |-> IF m \in gone THEN Nothing ELSE held[m]]
        /\ loaded' = FALSE
        /\ outrun' = (outrun \ gone) \cup
             {m \in gone : \E r \in Readers :
                             reader[r].pc # "idle" /\ reader[r].rows[m] # db[m]}
        /\ UNCHANGED <<db, reader>>
    BY <1>5 DEF Deliver, Invalidated
  <2>2. n \in gone /\ gone \subseteq Configs
    BY DEF Dropped
  <2> HIDE DEF gone
  <2>3. CacheShape'
    BY <1>0, <2>1 DEF CacheShape, Nothing, Kept
  <2>4. \A m \in Configs \ gone : m \in Explained => m \in Explained'
    BY <2>1, <2>2 DEF Explained
  <2>5. ReadersInv'
    <3> SUFFICES ASSUME NEW r \in Readers, reader[r].pc # "idle", NEW m \in Configs
                 PROVE  m \in Explained' \/ reader[r].rows[m] = db[m]
      BY <1>0, <2>1 DEF ReadersInv
    <3>1. m \in Explained \/ reader[r].rows[m] = db[m]
      BY <1>0 DEF ReadersInv
    <3>2. CASE m \in gone
      BY <2>1, <3>2 DEF Explained
    <3>3. CASE m \notin gone
      BY <2>4, <3>1, <3>3
    <3> QED
      BY <3>2, <3>3
  <2>6. StaleIsExplained'
    <3> SUFFICES ASSUME NEW m \in Configs, m \notin Explained'
                 PROVE  held'[m] \in {Nothing, db[m]}
      BY <2>1 DEF StaleIsExplained, Explained
    <3>1. CASE m \in gone
      BY <2>1, <3>1
    <3>2. CASE m \notin gone
      BY <1>0, <2>1, <2>4, <3>2 DEF StaleIsExplained, Explained
    <3> QED
      BY <3>1, <3>2
  <2> QED
    BY <2>3, <2>5, <2>6 DEF CacheInv
<1>6. CASE Disconnect
  <2>1. /\ UNCHANGED <<db, held, loaded, reader>>
        /\ Explained' = Explained
    BY <1>6 DEF Disconnect, Explained
  <2> QED
    BY <1>0, <2>1 DEF CacheInv, CacheShape, ReadersInv, StaleIsExplained, Explained
<1>7. CASE Reconnect
  <2>1. /\ UNCHANGED <<db, held, loaded, reader>>
        /\ Explained' = Explained
    BY <1>7 DEF Reconnect, Explained
  <2> QED
    BY <1>0, <2>1 DEF CacheInv, CacheShape, ReadersInv, StaleIsExplained, Explained
<1>8. CASE UNCHANGED cvars
  BY <1>0, <1>8 DEF cvars, CacheInv, CacheShape, ReadersInv, StaleIsExplained, Explained
<1> QED
  BY <1>1, <1>2, <1>3, <1>4, <1>5, <1>6, <1>7, <1>8 DEF CNext

\* A cached configuration that differs from the stored one, or an enabled sentinel
\* missing from a set taken to be loaded, is about to be put right, or its
\* notification was lost with a connection, or it outran a reader: registry.py get,
\* list_enabled and invalidate, agents/registry.py, skills/registry.py and their
\* listeners, however many threads read and whatever changes meanwhile.
THEOREM StaleEntriesAreExplained == CSpec => []StaleIsExplained
<1>1. CacheInv => StaleIsExplained
  BY DEF CacheInv
<1> QED
  BY <1>1, InitCacheInv, NextCacheInv, PTL DEF CSpec

\* The types are kept by every step: of a row that was read while it was stored,
\* and of what a reader keeps of it until it stores it.
LEMMA NextCacheTypes == CTypeOK /\ [CNext]_cvars => CTypeOK'
<1> SUFFICES ASSUME CTypeOK, [CNext]_cvars PROVE CTypeOK'
  OBVIOUS
<1> USE CacheAssumption DEF CacheAssumption
<1> DEFINE CacheRow == StoredConfig \cup {Nothing}
           ReaderShape == [pc : {"idle", "one", "all"}, what : SUBSET Configs, rows : [Configs -> CacheRow]]
<1>0. /\ db \in [Configs -> StoredConfig] /\ held \in [Configs -> CacheRow] /\ reader \in [Readers -> ReaderShape]
      /\ wire \subseteq Configs /\ missed \subseteq Configs /\ outrun \subseteq Configs
      /\ kind \in {"sentinel", "agent", "skill"} /\ loaded \in BOOLEAN /\ up \in BOOLEAN
      /\ drops \in 0..MaxDrops
  BY DEF CTypeOK
<1>z. ASSUME db' \in [Configs -> StoredConfig], held' \in [Configs -> CacheRow],
             reader' \in [Readers -> ReaderShape], wire' \subseteq Configs, missed' \subseteq Configs,
             outrun' \subseteq Configs, kind' = kind, loaded' \in BOOLEAN, up' \in BOOLEAN,
             drops' \in 0..MaxDrops
      PROVE  CTypeOK'
  BY <1>0, <1>z DEF CTypeOK, StoredConfig, Nothing
<1>r. db \in [Configs -> CacheRow] /\ Nothing \in CacheRow
  BY <1>0
<1>1. ASSUME NEW n \in Configs, Change(n) PROVE db' \in [Configs -> StoredConfig]
  <2>1. PICK on \in BOOLEAN : db' = [db EXCEPT ![n] = [rev |-> @.rev + 1, on |-> on]]
    BY <1>1 DEF Change
  <2>2. db[n] \in StoredConfig /\ db[n].rev < MaxRev
    BY <1>0, <1>1 DEF Change
  <2>3. [rev |-> db[n].rev + 1, on |-> on] \in StoredConfig
    BY <2>1, <2>2 DEF StoredConfig
  <2> QED
    BY <1>0, <2>1, <2>3
<1>2. ASSUME NEW n \in Configs, Change(n) PROVE UNCHANGED <<held, reader>>
  BY <1>2 DEF Change
<1>3. ASSUME NEW r \in Readers, NEW n \in Configs, FetchOne(r, n)
      PROVE  reader' \in [Readers -> ReaderShape]
  <2>1. [pc |-> "one", what |-> {n}, rows |-> db] \in ReaderShape
    BY <1>r
  <2>2. reader' = [reader EXCEPT ![r] = [pc |-> "one", what |-> {n}, rows |-> db]]
    BY <1>3 DEF FetchOne
  <2> QED
    BY <1>0, <2>1, <2>2
<1>4. ASSUME NEW r \in Readers, FetchEnabled(r) PROVE reader' \in [Readers -> ReaderShape]
  <2> DEFINE fetch == [pc |-> "all", what |-> {n \in Configs : db[n].on}, rows |-> db]
  <2>1. fetch \in ReaderShape
    BY <1>r
  <2>2. reader' = [reader EXCEPT ![r] = fetch]
    BY <1>4 DEF FetchEnabled
  <2> QED
    BY <1>0, <2>1, <2>2
<1>5. ASSUME NEW r \in Readers, Store(r)
      PROVE  reader' \in [Readers -> ReaderShape] /\ held' \in [Configs -> CacheRow]
  <2>1. Idle \in ReaderShape
    BY <1>r DEF Idle
  <2>2. reader' = [reader EXCEPT ![r] = Idle]
    BY <1>5 DEF Store
  <2>3. reader[r].rows \in [Configs -> CacheRow]
    BY <1>0
  <2>4. held' = [n \in Configs |-> IF n \in reader[r].what THEN reader[r].rows[n] ELSE held[n]]
    BY <1>5 DEF Store
  <2> QED
    BY <1>0, <2>1, <2>2, <2>3, <2>4
<1>6. ASSUME NEW n \in Configs, Deliver(n)
      PROVE  /\ held' \in [Configs -> CacheRow] /\ wire' \subseteq Configs
             /\ missed' \subseteq Configs /\ outrun' \subseteq Configs
  BY <1>0, <1>r, <1>6 DEF Deliver, Invalidated, Dropped
<1> HIDE DEF CacheRow, ReaderShape
<1>b. ASSUME NEW n \in Configs, Change(n) PROVE CTypeOK'
  <2>1. /\ db' \in [Configs -> StoredConfig]
        /\ UNCHANGED <<kind, held, loaded, reader, up, drops, outrun>>
    BY <1>b, <1>1 DEF Change
  <2>2. wire' \subseteq Configs /\ missed' \subseteq Configs
    BY <1>0, <1>b DEF Change
  <2> QED
    BY <1>0, <1>z, <2>1, <2>2
<1>c. ASSUME NEW n \in Configs, Deliver(n) PROVE CTypeOK'
  <2>1. loaded' = FALSE /\ UNCHANGED <<kind, db, reader, up, drops>>
    BY <1>c DEF Deliver, Invalidated
  <2>2. loaded' \in BOOLEAN
    BY <2>1
  <2> QED
    BY <1>0, <1>z, <1>c, <1>6, <2>1, <2>2
<1>d. ASSUME NEW r \in Readers, FetchEnabled(r) \/ \E n \in Configs : FetchOne(r, n)
      PROVE  CTypeOK'
  <2>1. UNCHANGED <<kind, db, held, loaded, wire, up, drops, missed, outrun>>
    BY <1>d DEF FetchEnabled, FetchOne
  <2>2. reader' \in [Readers -> ReaderShape]
    BY <1>d, <1>3, <1>4
  <2> QED
    BY <1>0, <1>z, <2>1, <2>2
<1>e. ASSUME NEW r \in Readers, Store(r) PROVE CTypeOK'
  <2>1. UNCHANGED <<kind, db, wire, up, drops, missed, outrun>>
    BY <1>e DEF Store
  <2>2. loaded' \in BOOLEAN
    BY <1>e DEF Store
  <2> QED
    BY <1>0, <1>z, <1>e, <1>5, <2>1, <2>2
<1>f. CASE Disconnect
  <2>1. /\ UNCHANGED <<kind, db, held, loaded, reader, outrun>>
        /\ drops < MaxDrops /\ drops' = drops + 1
        /\ wire' = {} /\ missed' = missed \cup wire /\ up' = FALSE
    BY <1>f DEF Disconnect
  <2>2. up' \in BOOLEAN
    BY <2>1
  <2>3. drops' \in 0..MaxDrops
    BY <1>0, <2>1
  <2> QED
    BY <1>0, <1>z, <2>1, <2>2, <2>3
<1>g. CASE Reconnect
  <2>1. /\ UNCHANGED <<kind, db, held, loaded, reader, wire, drops, missed, outrun>>
        /\ up' = TRUE
    BY <1>g DEF Reconnect
  <2>2. up' \in BOOLEAN
    BY <2>1
  <2> QED
    BY <1>0, <1>z, <2>1, <2>2
<1>h. CASE UNCHANGED cvars
  BY <1>0, <1>z, <1>h DEF cvars
<1> QED
  BY <1>b, <1>c, <1>d, <1>e, <1>f, <1>g, <1>h DEF CNext

\* The caches and what is on its way to them stay within their types.
THEOREM CacheTypes == CSpec => []CTypeOK
<1>1. CInit => CTypeOK
  <2> SUFFICES ASSUME CInit PROVE CTypeOK
    OBVIOUS
  <2> USE CacheAssumption DEF CacheAssumption
  <2>1. [rev |-> 1, on |-> TRUE] \in StoredConfig
    BY DEF StoredConfig
  <2>2. db \in [Configs -> StoredConfig] /\ held \in [Configs -> StoredConfig \cup {Nothing}]
    BY <2>1 DEF CInit
  <2>3. Idle \in [pc : {"idle", "one", "all"}, what : SUBSET Configs,
                  rows : [Configs -> StoredConfig \cup {Nothing}]]
    BY DEF Idle
  <2>4. reader \in [Readers -> [pc : {"idle", "one", "all"}, what : SUBSET Configs,
                                rows : [Configs -> StoredConfig \cup {Nothing}]]]
    BY <2>3 DEF CInit
  <2> HIDE DEF CacheAssumption
  <2>5. drops \in 0..MaxDrops
    BY CacheAssumption DEF CInit, CacheAssumption
  <2>6. /\ kind \in {"sentinel", "agent", "skill"} /\ loaded \in BOOLEAN /\ up \in BOOLEAN
        /\ wire \subseteq Configs /\ missed \subseteq Configs /\ outrun \subseteq Configs
    BY DEF CInit
  <2> QED
    BY <2>2, <2>4, <2>5, <2>6 DEF CTypeOK
<1> QED
  BY <1>1, NextCacheTypes, PTL DEF CSpec

------------------------------------------------------------------------------
(* Who hears of a mission's changes (MissionNotices).                         *)
(* The last change that was notified of is the last in the pipe from the      *)
(* database to the client, whatever the queue has dropped, unless an          *)
(* earlier one overtook it.                                                   *)

\* What came last.
LastOf(s) == s[Len(s)]

\* What is appended is last.
LEMMA AppendLast ==
  ASSUME NEW S, NEW s \in Seq(S), NEW x \in S
  PROVE  /\ Append(s, x) \in Seq(S) /\ Append(s, x) # <<>>
         /\ Len(Append(s, x)) = Len(s) + 1
         /\ LastOf(Append(s, x)) = x
BY DEF LastOf

\* Taking the first leaves the last, unless it was the only one.
LEMMA TailLast ==
  ASSUME NEW S, NEW s \in Seq(S), s # <<>>
  PROVE  /\ Tail(s) \in Seq(S) /\ Head(s) \in S
         /\ Len(Tail(s)) = Len(s) - 1
         /\ Tail(s) # <<>> => LastOf(Tail(s)) = LastOf(s)
         /\ Tail(s) = <<>> => Head(s) = LastOf(s)
<1>1. Len(s) \in Nat \ {0}
  OBVIOUS
<1>2. Tail(s) \in Seq(S) /\ Head(s) \in S /\ Len(Tail(s)) = Len(s) - 1
  BY HeadTailProperties
<1>3. Tail(s) # <<>> => LastOf(Tail(s)) = LastOf(s)
  BY <1>1, <1>2, HeadTailProperties DEF LastOf
<1>4. Tail(s) = <<>> => Head(s) = LastOf(s)
  <2>1. Len(<<>>) = 0 /\ Head(s) = s[1]
    BY EmptySeq
  <2>2. Tail(s) = <<>> => Len(s) = 1
    BY <1>1, <1>2, <2>1
  <2>3. QED
    BY <2>1, <2>2 DEF LastOf
<1>5. QED
  BY <1>2, <1>3, <1>4

\* A full queue drops its oldest: what was put is the last, and the bound is kept.
LEMMA PutLast ==
  ASSUME NEW S, NEW q \in Seq(S), NEW x \in S, Len(q) <= QueueSize
  PROVE  /\ Put(q, x) \in Seq(S) /\ Put(q, x) # <<>>
         /\ Len(Put(q, x)) <= QueueSize
         /\ LastOf(Put(q, x)) = x
<1>1. CASE Len(q) < QueueSize
  BY <1>1, AppendLast, NoticesAssumption DEF Put, NoticesAssumption
<1>2. CASE ~(Len(q) < QueueSize)
  <2>0. Len(q) \in Nat /\ QueueSize \in Nat \ {0} /\ Len(<<>>) = 0
    BY NoticesAssumption, EmptySeq DEF NoticesAssumption
  <2>1. ASSUME q = <<>> PROVE FALSE
    <3>1. Len(q) = 0
      BY <2>0, <2>1
    <3>2. QED
      BY <3>1, <2>0, <1>2
  <2>2. Tail(q) \in Seq(S) /\ Len(Tail(q)) = Len(q) - 1
    BY <2>1, TailLast
  <2>3. Put(q, x) = Append(Tail(q), x)
    BY <1>2 DEF Put
  <2>4. /\ Append(Tail(q), x) \in Seq(S) /\ Append(Tail(q), x) # <<>>
        /\ Len(Append(Tail(q), x)) = Len(Tail(q)) + 1
        /\ LastOf(Append(Tail(q), x)) = x
    BY <2>2, AppendLast
  <2>5. Len(Put(q, x)) <= QueueSize
    <3>1. Len(Put(q, x)) = Len(q) - 1 + 1
      BY <2>2, <2>3, <2>4
    <3> HIDE DEF Put
    <3>2. QED
      BY <2>0, <3>1
  <2>6. QED
    BY <2>3, <2>4, <2>5
<1>3. QED
  BY <1>1, <1>2

------------------------------------------------------------------------------

\* Changes, numbered from one.
Revs == 0..MaxRevs

\* The types that the steps need.
NTyped ==
  /\ mission \in [state : MissionState, rev : 1..MaxRevs]
  /\ unsent \in [Writers -> [state : MissionState \cup {Absent}, rev : Revs]]
  /\ wait \in [at : {"connecting", "listening", "waiting", "over"},
               result : {"none", "timeout"} \cup Terminal]
  /\ toWait \in Seq(Revs) /\ toBroker \in Seq(Revs) /\ queue \in Seq(Revs)
  /\ Len(queue) <= QueueSize
  /\ alive \in BOOLEAN /\ client \in [joined : BOOLEAN, since : Revs, told : Revs]
  /\ silent \in Revs /\ newest \in Revs /\ overtaken \in Revs

\* Nobody knows of a change that the mission has not seen.
NothingAhead ==
  /\ \A w \in Writers : unsent[w].rev <= mission.rev
  /\ silent <= mission.rev /\ newest <= mission.rev

\* The last change has been notified of.
NotifiedOf ==
  /\ mission.rev > 1 /\ silent < mission.rev
  /\ \A w \in Writers : unsent[w].rev # mission.rev

\* It is the last that was put into the pipe from the database to the client.
LastInPipe ==
  IF toBroker # <<>> THEN LastOf(toBroker) = mission.rev
  ELSE IF queue # <<>> THEN LastOf(queue) = mission.rev
  ELSE client.told = mission.rev

\* A client that should know of the last change does, unless an earlier one overtook it.
PipeKeepsLast ==
  (NotifiedOf /\ client.joined /\ client.since < mission.rev /\ alive) =>
    LastInPipe \/ overtaken = mission.rev

\* The invariant.
NoticesInv ==
  /\ NTyped /\ NothingAhead
  /\ NotifiedOf => newest = mission.rev
  /\ client.since > 0 \/ ~client.joined
  /\ PipeKeepsLast
  /\ WaitIsShort

\* At the start there is one change, which everybody who reads the mission sees.
LEMMA NoticesInit == NInit => NoticesInv
<1> SUFFICES ASSUME NInit PROVE NoticesInv
  OBVIOUS
<1>1. NTyped
  BY NoticesAssumption DEF NInit, NTyped, Revs, MissionState, NoChange, Terminal, NoticesAssumption
<1>2. QED
  BY <1>1, NoticesAssumption
     DEF NInit, NoticesInv, NothingAhead, NotifiedOf, PipeKeepsLast, WaitIsShort, NoChange,
         NoticesAssumption

\* The writers.
LEMMA WritersKeep ==
  ASSUME NoticesInv, NEW w \in Writers, Commit(w) \/ Notify(w) \/ NotifyFails(w)
  PROVE  NoticesInv'
<1> USE NoticesAssumption DEF NoticesAssumption
<1>1. CASE Commit(w)
  <2>1. PICK to \in MissionState : mission' = [state |-> to, rev |-> mission.rev + 1]
    BY <1>1 DEF Commit
  <2>2. /\ unsent' = [unsent EXCEPT ![w] = mission'] /\ mission.rev < MaxRevs
        /\ UNCHANGED <<wait, toWait, toBroker, alive, queue, client, silent, newest, overtaken>>
    BY <1>1 DEF Commit
  <2>3. mission' \in [state : MissionState, rev : 1..MaxRevs] /\ mission'.rev = mission.rev + 1
    BY <2>1, <2>2 DEF NoticesInv, NTyped
  <2>4. NTyped' /\ unsent'[w].rev = mission'.rev
    BY <2>2, <2>3 DEF NoticesInv, NTyped, Revs
  <2>5. NothingAhead' /\ ~NotifiedOf'
    BY <2>2, <2>3, <2>4 DEF NoticesInv, NTyped, Revs, NothingAhead, NotifiedOf
  <2>6. WaitIsShort'
    BY <2>4 DEF WaitIsShort
  <2>7. QED
    BY <2>2, <2>4, <2>5, <2>6 DEF NoticesInv, PipeKeepsLast
<1>2. CASE Notify(w)
  <2> DEFINE r == unsent[w].rev
  <2>1. /\ unsent' = [unsent EXCEPT ![w] = NoChange]
        /\ UNCHANGED <<mission, wait, alive, queue, client, silent>>
        /\ toWait' = IF Listens THEN Append(toWait, r) ELSE toWait
        /\ toBroker' = IF alive THEN Append(toBroker, r) ELSE toBroker
        /\ IF r < newest THEN overtaken' = newest /\ newest' = newest
           ELSE newest' = r /\ overtaken' = overtaken
    BY <1>2 DEF Notify
  <2>2. r \in Revs /\ r <= mission.rev
    BY DEF NoticesInv, NTyped, NothingAhead
  <2>3. toWait' \in Seq(Revs) /\ toBroker' \in Seq(Revs)
        /\ (Listens => toWait' # <<>>) /\ (alive => toBroker' # <<>> /\ LastOf(toBroker') = r)
    BY <2>1, <2>2, AppendLast DEF NoticesInv, NTyped
  <2>4. NTyped'
    <3>1. unsent' \in [Writers -> [state : MissionState \cup {Absent}, rev : Revs]]
      BY <2>1 DEF NoticesInv, NTyped, Revs, NoChange
    <3>2. newest' \in Revs /\ overtaken' \in Revs
      BY <2>1, <2>2 DEF NoticesInv, NTyped
    <3>3. QED
      BY <2>1, <2>3, <3>1, <3>2 DEF NoticesInv, NTyped
  <2>5. NothingAhead'
    BY <2>1, <2>2 DEF NoticesInv, NTyped, Revs, NoChange, NothingAhead
  <2>6. \A v \in Writers : unsent'[v].rev = mission.rev <=> (v # w /\ unsent[v].rev = mission.rev)
    BY <2>1 DEF NoticesInv, NTyped, NoChange
  <2>7. (NotifiedOf => newest = mission.rev)'
    BY <2>1, <2>2, <2>6 DEF NoticesInv, NTyped, Revs, NothingAhead, NotifiedOf
  <2>8. PipeKeepsLast'
    <3> SUFFICES ASSUME NotifiedOf', client'.joined, alive' PROVE (LastInPipe \/ overtaken = mission.rev)'
      BY DEF PipeKeepsLast
    <3>1. CASE r = mission.rev
      BY <3>1, <2>1, <2>3 DEF LastInPipe
    <3>2. CASE r # mission.rev
      <4>1. NotifiedOf
        BY <3>2, <2>1, <2>6 DEF NotifiedOf
      <4>2. newest = mission.rev /\ r < newest
        BY <4>1, <3>2, <2>2 DEF NoticesInv, NTyped, Revs
      <4>3. QED
        BY <4>2, <2>1
    <3>3. QED
      BY <3>1, <3>2
  <2>9. WaitIsShort'
    <3>1. CASE Listens
      BY <3>1, <2>3 DEF WaitIsShort
    <3>2. CASE ~Listens
      BY <3>2, <2>1 DEF WaitIsShort, Listens
    <3>3. QED
      BY <3>1, <3>2
  <2>10. QED
    BY <2>1, <2>4, <2>5, <2>7, <2>8, <2>9 DEF NoticesInv
<1>3. CASE NotifyFails(w)
  <2> DEFINE r == unsent[w].rev
  <2>1. /\ unsent' = [unsent EXCEPT ![w] = NoChange]
        /\ UNCHANGED <<mission, wait, toWait, toBroker, alive, queue, client, newest, overtaken>>
        /\ silent' = IF r > silent THEN r ELSE silent
    BY <1>3 DEF NotifyFails
  <2>2. r \in Revs /\ r <= mission.rev
    BY DEF NoticesInv, NTyped, NothingAhead
  <2>3. NTyped'
    BY <2>1, <2>2 DEF NoticesInv, NTyped, Revs, NoChange
  <2>4. NothingAhead'
    BY <2>1, <2>2 DEF NoticesInv, NTyped, Revs, NoChange, NothingAhead
  <2>5. \A v \in Writers : unsent'[v].rev = mission.rev <=> (v # w /\ unsent[v].rev = mission.rev)
    BY <2>1 DEF NoticesInv, NTyped, NoChange
  <2>6. NotifiedOf' => NotifiedOf
    BY <2>1, <2>2, <2>5 DEF NoticesInv, NTyped, Revs, NothingAhead, NotifiedOf
  <2>7. PipeKeepsLast'
    BY <2>1, <2>6 DEF NoticesInv, PipeKeepsLast, LastInPipe
  <2>8. WaitIsShort'
    <3>1. CASE r = mission.rev
      BY <3>1, <2>1, <2>2 DEF NoticesInv, NTyped, Revs, NothingAhead, WaitIsShort
    <3>2. CASE r # mission.rev
      BY <3>2, <2>1, <2>2, <2>5 DEF NoticesInv, NTyped, Revs, NothingAhead, WaitIsShort
    <3>3. QED
      BY <3>1, <3>2
  <2>9. QED
    BY <2>1, <2>3, <2>4, <2>6, <2>7, <2>8 DEF NoticesInv
<1>4. QED
  BY <1>1, <1>2, <1>3

\* Writers that notify nobody.
LEMMA WriteSilentlyKeeps ==
  ASSUME NoticesInv, WriteSilently
  PROVE  NoticesInv'
<1> USE NoticesAssumption DEF NoticesAssumption
<1>1. PICK to \in {"planning", "done"} : mission' = [state |-> to, rev |-> mission.rev + 1]
  BY DEF WriteSilently
<1>2. /\ silent' = mission'.rev /\ mission.rev < MaxRevs
      /\ UNCHANGED <<unsent, wait, toWait, toBroker, alive, queue, client, newest, overtaken>>
  BY DEF WriteSilently
<1>3. mission' \in [state : MissionState, rev : 1..MaxRevs] /\ mission'.rev = mission.rev + 1
  BY <1>1, <1>2 DEF NoticesInv, NTyped, MissionState
<1>4. NTyped' /\ NothingAhead' /\ ~NotifiedOf'
  BY <1>2, <1>3 DEF NoticesInv, NTyped, Revs, NothingAhead, NotifiedOf
<1>5. QED
  BY <1>2, <1>4 DEF NoticesInv, PipeKeepsLast, WaitIsShort

\* The delegating thread.
LEMMA WaitKeeps ==
  ASSUME NoticesInv, Listen \/ FastPath \/ Reread \/ Timeout
  PROVE  NoticesInv'
<1>1. UNCHANGED <<mission, unsent, toBroker, alive, queue, client, silent, newest, overtaken>>
  BY DEF Listen, FastPath, Reread, Timeout
<1>2. /\ wait' \in [at : {"connecting", "listening", "waiting", "over"},
                   result : {"none", "timeout"} \cup Terminal]
      /\ toWait' \in Seq(Revs)
  <2>1. /\ wait \in [at : {"connecting", "listening", "waiting", "over"},
                     result : {"none", "timeout"} \cup Terminal]
        /\ toWait \in Seq(Revs) /\ <<>> \in Seq(Revs)
        /\ toWait # <<>> => Tail(toWait) \in Seq(Revs)
    BY EmptySeq, TailLast DEF NoticesInv, NTyped
  <2>2. /\ wait' = wait
           \/ (\E step \in {"listening", "waiting"} : wait' = [wait EXCEPT !.at = step])
           \/ (\E result \in {"timeout"} \cup Terminal :
                 wait' = [at |-> "over", result |-> result])
        /\ toWait' = <<>> \/ toWait' = toWait \/ (toWait # <<>> /\ toWait' = Tail(toWait))
    BY DEF Listen, FastPath, Reread, Timeout, Finish, Ended
  <2>3. wait' \in [at : {"connecting", "listening", "waiting", "over"},
                   result : {"none", "timeout"} \cup Terminal]
    BY <2>1, <2>2
  <2>4. QED
    BY <2>1, <2>2, <2>3
<1>3. wait'.at = "waiting" /\ Ended(mission.state) => FALSE
  BY DEF Listen, FastPath, Reread, Timeout, Finish, NoticesInv, NTyped
<1>4. NTyped' /\ NothingAhead' /\ WaitIsShort'
  BY <1>1, <1>2, <1>3 DEF NoticesInv, NTyped, NothingAhead, WaitIsShort
<1>5. QED
  BY <1>1, <1>4 DEF NoticesInv, NotifiedOf, PipeKeepsLast, LastInPipe

\* The broker and its subscriber.
LEMMA BrokerKeeps ==
  ASSUME NoticesInv, Subscribe \/ Unsubscribe \/ Broadcast \/ Tell \/ ListenerDies
  PROVE  NoticesInv'
<1> USE NoticesAssumption DEF NoticesAssumption
<1>1. UNCHANGED <<mission, unsent, wait, toWait, silent, newest, overtaken>>
  BY DEF Subscribe, Unsubscribe, Broadcast, Tell, ListenerDies
<1>2. ASSUME NTyped', PipeKeepsLast', (client.since > 0 \/ ~client.joined)' PROVE NoticesInv'
  BY <1>1, <1>2 DEF NoticesInv, NothingAhead, NotifiedOf, WaitIsShort
<1>3. CASE Subscribe
  <2>1. client' = [joined |-> TRUE, since |-> mission.rev, told |-> 0] /\ queue' = <<>>
        /\ UNCHANGED <<toBroker, alive>>
    BY <1>3 DEF Subscribe
  <2>2. NTyped' /\ client'.since > 0 /\ ~(client'.since < mission'.rev)
    BY <2>1, <1>1 DEF NoticesInv, NTyped, Revs
  <2>3. QED
    BY <2>2, <1>2 DEF PipeKeepsLast
<1>4. CASE Unsubscribe
  <2>1. client' = [client EXCEPT !.joined = FALSE] /\ queue' = <<>> /\ UNCHANGED <<toBroker, alive>>
    BY <1>4 DEF Unsubscribe
  <2>2. client' \in [joined : BOOLEAN, since : Revs, told : Revs] /\ ~client'.joined
    BY <2>1 DEF NoticesInv, NTyped
  <2>3. queue' \in Seq(Revs) /\ Len(queue') <= QueueSize
    BY <2>1, EmptySeq
  <2>4. NTyped'
    BY <2>1, <2>2, <2>3, <1>1 DEF NoticesInv, NTyped
  <2>5. QED
    BY <2>2, <2>4, <1>2 DEF PipeKeepsLast
<1>5. CASE Broadcast
  <2>1. /\ toBroker # <<>> /\ toBroker' = Tail(toBroker)
        /\ queue' = IF client.joined THEN Put(queue, Head(toBroker)) ELSE queue
        /\ UNCHANGED <<alive, client>>
    BY <1>5 DEF Broadcast
  <2>2. /\ toBroker' \in Seq(Revs) /\ Head(toBroker) \in Revs
        /\ toBroker' # <<>> => LastOf(toBroker') = LastOf(toBroker)
        /\ toBroker' = <<>> => Head(toBroker) = LastOf(toBroker)
    BY <2>1, TailLast DEF NoticesInv, NTyped
  <2>3. /\ queue' \in Seq(Revs) /\ Len(queue') <= QueueSize
        /\ client.joined => queue' # <<>> /\ LastOf(queue') = Head(toBroker)
    <3>1. /\ Put(queue, Head(toBroker)) \in Seq(Revs)
          /\ Len(Put(queue, Head(toBroker))) <= QueueSize
          /\ Put(queue, Head(toBroker)) # <<>>
          /\ LastOf(Put(queue, Head(toBroker))) = Head(toBroker)
      <4>1. queue \in Seq(Revs) /\ Len(queue) <= QueueSize
        BY DEF NoticesInv, NTyped
      <4>2. Head(toBroker) \in Revs
        BY <2>2
      <4>3. QED
        BY <4>1, <4>2, PutLast, Zenon
    <3>2. CASE client.joined
      BY <3>1, <3>2, <2>1
    <3>3. CASE ~client.joined
      BY <3>3, <2>1 DEF NoticesInv, NTyped
    <3>4. QED
      BY <3>2, <3>3
  <2>4. NTyped'
    <3>1. client \in [joined : BOOLEAN, since : Revs, told : Revs]
      BY DEF NoticesInv, NTyped
    <3>2. QED
      BY <1>1, <2>1, <2>2, <2>3, <3>1 DEF NoticesInv, NTyped
  <2>5. PipeKeepsLast'
    BY <1>1, <2>1, <2>2, <2>3 DEF NoticesInv, PipeKeepsLast, NotifiedOf, LastInPipe
  <2>6. QED
    BY <2>1, <2>4, <2>5, <1>2 DEF NoticesInv
<1>6. CASE Tell
  <2>1. /\ queue # <<>> /\ queue' = Tail(queue)
        /\ client' = [client EXCEPT !.told = Head(queue)] /\ UNCHANGED <<toBroker, alive>>
    BY <1>6 DEF Tell
  <2>2. /\ queue' \in Seq(Revs) /\ Head(queue) \in Revs /\ Len(queue') = Len(queue) - 1
        /\ queue' # <<>> => LastOf(queue') = LastOf(queue)
        /\ queue' = <<>> => Head(queue) = LastOf(queue)
    BY <2>1, TailLast DEF NoticesInv, NTyped
  <2>3. Len(queue) \in Nat
    BY DEF NoticesInv, NTyped
  <2>4. /\ client' \in [joined : BOOLEAN, since : Revs, told : Revs]
        /\ client'.told = Head(queue) /\ client'.joined = client.joined
        /\ client'.since = client.since
    <3>1. client \in [joined : BOOLEAN, since : Revs, told : Revs]
      BY DEF NoticesInv, NTyped
    <3>2. QED
      BY <2>1, <2>2, <3>1
  <2>7. Len(queue') <= QueueSize
    BY <2>2, <2>3, NoticesAssumption DEF NoticesInv, NTyped
  <2>8. NTyped'
    BY <1>1, <2>1, <2>2, <2>4, <2>7 DEF NoticesInv, NTyped
  <2>5. PipeKeepsLast'
    BY <1>1, <2>1, <2>2, <2>4 DEF NoticesInv, PipeKeepsLast, NotifiedOf, LastInPipe
  <2>6. QED
    BY <2>4, <2>5, <2>8, <1>2 DEF NoticesInv
<1>7. CASE ListenerDies
  <2>1. ~alive' /\ toBroker' = <<>> /\ UNCHANGED <<queue, client>>
    BY <1>7 DEF ListenerDies
  <2>2. NTyped'
    BY <1>1, <1>7, EmptySeq DEF ListenerDies, NoticesInv, NTyped
  <2>3. QED
    BY <2>1, <2>2, <1>2 DEF NoticesInv, PipeKeepsLast
<1>8. QED
  BY <1>3, <1>4, <1>5, <1>6, <1>7

\* The invariant holds.
LEMMA NoticesInvariant == NSpec => []NoticesInv
<1>1. NoticesInv /\ [NNext]_nvars => NoticesInv'
  <2> SUFFICES ASSUME NoticesInv, [NNext]_nvars PROVE NoticesInv'
    OBVIOUS
  <2>1. CASE UNCHANGED nvars
    BY <2>1 DEF nvars, NoticesInv, NTyped, NothingAhead, NotifiedOf, PipeKeepsLast, LastInPipe,
                WaitIsShort
  <2>2. QED
    BY <2>1, WritersKeep, WriteSilentlyKeeps, WaitKeeps, BrokerKeeps DEF NNext
<1>2. QED
  BY <1>1, NoticesInit, PTL DEF NSpec

\* The types, with the bound of the subscriber's queue.
THEOREM NoticesTypes == NSpec => []NTypeOK
<1>1. NoticesInv => NTypeOK
  BY DEF NoticesInv, NTyped, NTypeOK, Revs
<1>2. QED
  BY <1>1, NoticesInvariant, PTL

\* Who delegates a mission learns of its end, and who watches it of its last change,
\* for any number of writers, changes and any length of the queue, with the
\* exceptions EndIsHeard names (delegation.py _await_terminal, broker.py).
THEOREM EndsAreHeard == NSpec => []EndIsHeard
<1>1. NoticesInv => LastChangeIsTold
  <2> SUFFICES ASSUME NoticesInv, client.joined, client.since < mission.rev, alive,
                      toBroker = <<>>, silent < mission.rev,
                      \A w \in Writers : unsent[w] = NoChange
               PROVE  Told \/ overtaken = mission.rev
    BY DEF LastChangeIsTold
  <2>1. NotifiedOf
    BY DEF NoticesInv, NTyped, Revs, NoChange, NotifiedOf
  <2>2. queue # <<>> => Len(queue) \in DOMAIN queue
    BY DEF NoticesInv, NTyped
  <2>3. QED
    BY <2>1, <2>2 DEF NoticesInv, PipeKeepsLast, LastInPipe, Told, LastOf
<1>2. NoticesInv => EndIsHeard
  BY <1>1 DEF EndIsHeard, NoticesInv
<1>3. QED
  BY <1>2, NoticesInvariant, PTL

------------------------------------------------------------------------------
(* From the event bus to the graph (EventGraph).                              *)
(* A property of the graph has the value of its last writer, which is         *)
(* followed through the log: a property whose writers are all processed has   *)
(* it, because the pending rows are the last ones of the log and the first    *)
(* of them is projected next.                                                 *)

\* All properties but the name of the person, which has two kinds of writers.
Others == Properties \ {"person_fn"}

------------------------------------------------------------------------------
(* The mappers. *)

\* Each of them is set or left.
LEMMA MapEventOfOthers ==
  ASSUME NEW g, NEW what
  PROVE  /\ DOMAIN MapEvent(g, what) = Properties
         /\ \A p \in Others :
              MapEvent(g, what)[p] = IF p \in DOMAIN Sets(what) THEN Sets(what)[p] ELSE g[p]
BY DEF MapEvent, Others

\* The graph after a mapper is a function on the properties.
LEMMA MapEventIsFunction ==
  ASSUME NEW g, NEW what
  PROVE  MapEvent(g, what) = [p \in Properties |-> MapEvent(g, what)[p]]
BY DEF MapEvent

\* It has values of their kind.
LEMMA MapEventTypes ==
  ASSUME NEW g \in [Properties -> Values], NEW what
  PROVE  MapEvent(g, what) \in [Properties -> Values]
<1>1. \A p \in DOMAIN Sets(what) : Sets(what)[p] \in Values
  <2>1. \/ Sets(what) \in {EventUpserted("one"), EventUpserted("two"), EventDeleted,
                           Replied("accepted"), Replied("declined"), ContactUpserted,
                           ContactDeleted}
        \/ Sets(what) \in {Received, Moved, FlagsUpdated("yes"), FlagsUpdated("no"), Expunged}
        \/ Sets(what) = <<>>
    BY DEF Sets
  <2>2. ASSUME NEW v \in Values
        PROVE  /\ \A p \in DOMAIN EventUpserted(v) : EventUpserted(v)[p] \in Values
               /\ \A p \in DOMAIN Replied(v) : Replied(v)[p] \in Values
               /\ \A p \in DOMAIN FlagsUpdated(v) : FlagsUpdated(v)[p] \in Values
    <3>1. /\ DOMAIN EventUpserted(v) = {"event_deleted", "event_title"}
          /\ EventUpserted(v)["event_deleted"] = "no" /\ EventUpserted(v)["event_title"] = v
          /\ DOMAIN Replied(v) = {"attended_status"} /\ Replied(v)["attended_status"] = v
          /\ DOMAIN FlagsUpdated(v) = {"mail_read"} /\ FlagsUpdated(v)["mail_read"] = v
      BY DEF EventUpserted, Replied, FlagsUpdated
    <3>2. "no" \in Values
      BY DEF Values
    <3>3. QED
      BY <3>1, <3>2
  <2>3. /\ \A p \in DOMAIN EventDeleted : EventDeleted[p] \in Values
        /\ \A p \in DOMAIN ContactUpserted : ContactUpserted[p] \in Values
        /\ \A p \in DOMAIN ContactDeleted : ContactDeleted[p] \in Values
        /\ \A p \in DOMAIN Received : Received[p] \in Values
        /\ \A p \in DOMAIN Moved : Moved[p] \in Values
        /\ \A p \in DOMAIN Expunged : Expunged[p] \in Values
    <3>1. /\ DOMAIN EventDeleted = {"event_deleted"} /\ EventDeleted["event_deleted"] = "yes"
          /\ DOMAIN ContactUpserted = {"person_fn", "person_deleted"}
          /\ ContactUpserted["person_fn"] = "full name" /\ ContactUpserted["person_deleted"] = "no"
          /\ DOMAIN ContactDeleted = {"person_deleted"} /\ ContactDeleted["person_deleted"] = "yes"
          /\ DOMAIN Received = {"mail_path", "mail_deleted"}
          /\ Received["mail_path"] = "inbox" /\ Received["mail_deleted"] = "no"
          /\ DOMAIN Moved = {"mail_path"} /\ Moved["mail_path"] = "archive"
          /\ DOMAIN Expunged = {"mail_deleted"} /\ Expunged["mail_deleted"] = "yes"
      BY DEF EventDeleted, ContactUpserted, ContactDeleted, Received, Moved, Expunged
    <3>2. {"no", "yes", "full name", "inbox", "archive"} \subseteq Values
      BY DEF Values
    <3>3. QED
      BY <3>1, <3>2
  <2>4. DOMAIN <<>> = {}
    OBVIOUS
  <2>5. QED
    BY <2>1, <2>2, <2>3, <2>4 DEF Values
<1>2. "cn" \in Values
  BY DEF Values
<1>3. QED
  BY <1>1, <1>2 DEF MapEvent

\* The name is the contact's, or an attendee's where there is none.
LEMMA MapEventOfName ==
  ASSUME NEW g, NEW what
  PROVE  MapEvent(g, what)["person_fn"] =
           IF what = "contact" THEN "full name"
           ELSE IF Names(what) /\ g["person_fn"] = "unset" THEN "cn" ELSE g["person_fn"]
<1>1. "person_fn" \in DOMAIN Sets(what) <=> what = "contact"
  <2>1. CASE what = "contact"
    BY <2>1 DEF Sets, ContactUpserted
  <2>2. CASE what # "contact"
    <3>1. \/ Sets(what) \in {EventUpserted("one"), EventUpserted("two"), EventDeleted,
                             Replied("accepted"), Replied("declined"), ContactDeleted}
          \/ Sets(what) \in {Received, Moved, FlagsUpdated("yes"), FlagsUpdated("no"), Expunged}
          \/ Sets(what) = <<>>
      BY <2>2 DEF Sets
    <3>2. /\ \A title : "person_fn" \notin DOMAIN EventUpserted(title)
          /\ \A status : "person_fn" \notin DOMAIN Replied(status)
          /\ \A read : "person_fn" \notin DOMAIN FlagsUpdated(read)
          /\ "person_fn" \notin DOMAIN EventDeleted /\ "person_fn" \notin DOMAIN ContactDeleted
          /\ "person_fn" \notin DOMAIN Received /\ "person_fn" \notin DOMAIN Moved
          /\ "person_fn" \notin DOMAIN Expunged
      BY DEF EventUpserted, EventDeleted, Replied, ContactDeleted, Received, Moved, FlagsUpdated,
             Expunged
    <3>3. DOMAIN <<>> = {}
      OBVIOUS
    <3>4. QED
      BY <2>2, <3>1, <3>2, <3>3
  <2>3. QED
    BY <2>1, <2>2
<1>2. Sets("contact")["person_fn"] = "full name"
  BY DEF Sets, ContactUpserted
<1>3. "person_fn" \in Properties
  BY DEF Properties
<1>4. QED
  BY <1>1, <1>2, <1>3 DEF MapEvent

\* The mappers are such that the last rows can be projected once more.
THEOREM MappersAreHarmless == ReplayIsHarmless
<1> SUFFICES ASSUME NEW k1 \in AllKinds, NEW k2 \in AllKinds, NEW k3 \in AllKinds
             PROVE  LET g == MapEvent(MapEvent(MapEvent(EmptyGraph, k1), k2), k3)
                    IN /\ MapEvent(g, k3) = g
                       /\ MapEvent(MapEvent(g, k2), k3) = g
                       /\ MapEvent(MapEvent(MapEvent(g, k1), k2), k3) = g
  BY DEF ReplayIsHarmless
<1> DEFINE g1 == MapEvent(EmptyGraph, k1)
           g2 == MapEvent(g1, k2)
           g  == MapEvent(g2, k3)
           h1 == MapEvent(g, k3)
           h2 == MapEvent(g, k2)
           h3 == MapEvent(h2, k3)
           h4 == MapEvent(g, k1)
           h5 == MapEvent(h4, k2)
           h6 == MapEvent(h5, k3)
<1>1. \A p \in Others : h1[p] = g[p] /\ h3[p] = g[p] /\ h6[p] = g[p]
  <2> SUFFICES ASSUME NEW p \in Others PROVE h1[p] = g[p] /\ h3[p] = g[p] /\ h6[p] = g[p]
    OBVIOUS
  <2>1. /\ g1[p] = IF p \in DOMAIN Sets(k1) THEN Sets(k1)[p] ELSE EmptyGraph[p]
        /\ g2[p] = IF p \in DOMAIN Sets(k2) THEN Sets(k2)[p] ELSE g1[p]
        /\ g[p]  = IF p \in DOMAIN Sets(k3) THEN Sets(k3)[p] ELSE g2[p]
        /\ h1[p] = IF p \in DOMAIN Sets(k3) THEN Sets(k3)[p] ELSE g[p]
        /\ h2[p] = IF p \in DOMAIN Sets(k2) THEN Sets(k2)[p] ELSE g[p]
        /\ h3[p] = IF p \in DOMAIN Sets(k3) THEN Sets(k3)[p] ELSE h2[p]
        /\ h4[p] = IF p \in DOMAIN Sets(k1) THEN Sets(k1)[p] ELSE g[p]
        /\ h5[p] = IF p \in DOMAIN Sets(k2) THEN Sets(k2)[p] ELSE h4[p]
        /\ h6[p] = IF p \in DOMAIN Sets(k3) THEN Sets(k3)[p] ELSE h5[p]
    BY MapEventOfOthers
  <2> HIDE DEF g1, g2, g, h1, h2, h3, h4, h5, h6
  <2>2. QED
    BY <2>1
<1>2. LET p == "person_fn" IN h1[p] = g[p] /\ h3[p] = g[p] /\ h6[p] = g[p]
  <2> DEFINE p == "person_fn"
             F(what, old) == IF what = "contact" THEN "full name"
                             ELSE IF Names(what) /\ old = "unset" THEN "cn" ELSE old
  <2>1. /\ g1[p] = F(k1, EmptyGraph[p]) /\ g2[p] = F(k2, g1[p]) /\ g[p] = F(k3, g2[p])
        /\ h1[p] = F(k3, g[p]) /\ h2[p] = F(k2, g[p]) /\ h3[p] = F(k3, h2[p])
        /\ h4[p] = F(k1, g[p]) /\ h5[p] = F(k2, h4[p]) /\ h6[p] = F(k3, h5[p])
    BY MapEventOfName
  <2>2. EmptyGraph[p] = "unset"
    BY DEF EmptyGraph, Properties
  <2>3. ~Names("contact")
    BY DEF Names
  <2> HIDE DEF g1, g2, g, h1, h2, h3, h4, h5, h6
  <2>4. QED
    BY <2>1, <2>2, <2>3
<1>3. ASSUME NEW f, NEW h, f = [p \in Properties |-> f[p]], h = [p \in Properties |-> h[p]],
             \A p \in Properties : h[p] = f[p]
      PROVE  h = f
  BY <1>3
<1>4. /\ g  = [p \in Properties |-> g[p]]  /\ h1 = [p \in Properties |-> h1[p]]
      /\ h3 = [p \in Properties |-> h3[p]] /\ h6 = [p \in Properties |-> h6[p]]
  BY MapEventIsFunction
<1> HIDE DEF g1, g2, g, h1, h2, h3, h4, h5, h6
<1>5. h1 = g /\ h3 = g /\ h6 = g
  <2>1. \A p \in Properties : h1[p] = g[p] /\ h3[p] = g[p] /\ h6[p] = g[p]
    BY <1>1, <1>2 DEF Others
  <2>2. QED
    BY <1>3, <1>4, <2>1
<1>6. QED
  BY <1>5 DEF g1, g2, g, h1, h2, h3, h4, h5, h6

------------------------------------------------------------------------------
(* The invariant. *)

\* Who writes a property, among the owner's messages and among the rows.
WritersOf(p) == {i \in DOMAIN sent : sent[i].owner /\ p \in DOMAIN Sets(sent[i].kind)}
WriterRows(p) == {r \in DOMAIN log : p \in DOMAIN Sets(KindOf(r))}

\* The ideal graph has the value of the last writer.  The person's name is the
\* contact's, or else an attendee's, whatever the order.
IdealIsLast ==
  \A p \in Others :
    \/ WritersOf(p) = {} /\ ideal[p] = "unset"
    \/ \E i \in WritersOf(p) : (\A j \in WritersOf(p) : j <= i) /\ ideal[p] = Sets(sent[i].kind)[p]
IdealName ==
  ideal["person_fn"] =
    IF \E i \in DOMAIN sent : sent[i].owner /\ sent[i].kind = "contact" THEN "full name"
    ELSE IF \E i \in DOMAIN sent : sent[i].owner /\ Names(sent[i].kind) THEN "cn"
    ELSE "unset"

\* The log has the owner's messages in their order, and all that were handled.
RowsInOrder ==
  \A r \in DOMAIN log :
    /\ log[r].message <= handled + 1 /\ sent[log[r].message].owner
    /\ \A s \in DOMAIN log : r < s => log[r].message < log[s].message
\* Without dead letters and repeated bodies, what is handled, or entered and not yet
\* acked, has its row.
NothingIsLost ==
  /\ entered => handled + 1 \in DOMAIN sent /\ sent[handled + 1].owner
  /\ (dlq = {} /\ ~Repeated) =>
       \A i \in DOMAIN sent :
         (sent[i].owner /\ (i <= handled \/ (entered /\ i = handled + 1))) =>
           \E r \in DOMAIN log : log[r].message = i

\* While projectors and replays keep out of each other's way the pending rows are the
\* last of the log, and the only batch there is has the first of them.
PendingIsTail ==
  ~mixed =>
    /\ \A r \in Pending : \A s \in DOMAIN log : r < s => s \in Pending
    /\ \A p \in Projectors :
         /\ batch[p] \subseteq Pending
         /\ \A r \in batch[p] : \A q \in Pending : q < r => q \in batch[p]
         /\ \A o \in Projectors : (batch[p] # {} /\ batch[o] # {}) => p = o

\* A property whose writers are all processed has the value of the last one.
GraphIsLast ==
  ~mixed =>
    \A p \in Others :
      (\A r \in WriterRows(p) : log[r].status = "processed") =>
        /\ WriterRows(p) = {} => graph[p] = "unset"
        /\ \A r \in WriterRows(p) :
             (\A s \in WriterRows(p) : s <= r) => graph[p] = Sets(KindOf(r))[p]
GraphName ==
  LET name == graph["person_fn"] IN
  /\ name \in {"unset", "cn", "full name"}
  /\ name = "full name" => \E r \in DOMAIN log : KindOf(r) = "contact"
  /\ name = "cn" => \E r \in DOMAIN log : Names(KindOf(r))
  /\ \A r \in DOMAIN log :
       log[r].status = "processed" =>
         /\ KindOf(r) = "contact" => name = "full name"
         /\ Names(KindOf(r)) => name # "unset"

\* The invariant.
GraphInv == /\ GTypeOK /\ IdealIsLast /\ IdealName /\ RowsInOrder /\ NothingIsLost
            /\ PendingIsTail /\ GraphIsLast /\ GraphName

------------------------------------------------------------------------------
(* The steps. *)

\* At the start nothing is sent, and both graphs are empty.
LEMMA GraphInvInit == GInit => GraphInv
<1> SUFFICES ASSUME GInit PROVE GraphInv
  OBVIOUS
<1> USE GraphAssumption DEF GraphAssumption
<1>1. /\ sent = <<>> /\ log = <<>> /\ handled = 0 /\ entered = FALSE /\ dlq = {} /\ hitches = 0
      /\ mixed = FALSE /\ batch = [p \in Projectors |-> {}]
      /\ graph = [p \in Properties |-> "unset"] /\ ideal = [p \in Properties |-> "unset"]
  BY DEF GInit, EmptyGraph
<1>2. DOMAIN sent = {} /\ DOMAIN log = {} /\ Len(sent) = 0
  BY <1>1
<1>3. GTypeOK
  <2>1. sent \in Seq(Messages) /\ log \in Seq(LogRow)
    BY <1>1
  <2>2. batch \in [Projectors -> SUBSET (DOMAIN log)]
    BY <1>1
  <2>3. graph \in [Properties -> Values] /\ ideal \in [Properties -> Values]
    BY <1>1 DEF Values
  <2>4. handled \in 0..Len(sent) /\ dlq \subseteq 1..handled /\ hitches \in 0..MaxHitches
    BY <1>1, <1>2
  <2>5. QED
    BY <1>1, <1>2, <2>1, <2>2, <2>3, <2>4 DEF GTypeOK
<1>4. IdealIsLast /\ IdealName
  BY <1>1, <1>2 DEF IdealIsLast, IdealName, WritersOf, Others, Properties
<1>5. RowsInOrder /\ NothingIsLost
  BY <1>1, <1>2 DEF RowsInOrder, NothingIsLost
<1>6. PendingIsTail
  BY <1>1, <1>2 DEF PendingIsTail, Pending
<1>7. GraphIsLast /\ GraphName
  BY <1>1, <1>2 DEF GraphIsLast, GraphName, WriterRows, Others, Properties
<1>8. QED
  BY <1>3, <1>4, <1>5, <1>6, <1>7 DEF GraphInv

\* A message more: the ideal graph has it, and the rows keep their messages.
LEMMA PublishKeeps ==
  ASSUME GraphInv, Publish
  PROVE  GraphInv'
<1> USE GraphAssumption DEF GraphAssumption
<1>1. PICK message \in Messages :
        /\ sent' = Append(sent, message)
        /\ ideal' = IF message.owner THEN MapEvent(ideal, message.kind) ELSE ideal
  BY DEF Publish
<1>2. UNCHANGED <<handled, entered, dlq, log, batch, graph, mixed, hitches>>
  BY DEF Publish
<1>3. /\ sent \in Seq(Messages) /\ log \in Seq(LogRow) /\ Len(sent) \in Nat
      /\ \A r \in DOMAIN log : log[r].message \in 1..Len(sent)
      /\ handled \in 0..Len(sent) /\ DOMAIN sent = 1..Len(sent)
  BY DEF GraphInv, GTypeOK
<1> DEFINE new == Len(sent) + 1
<1>4. /\ sent' \in Seq(Messages) /\ Len(sent') = new /\ DOMAIN sent' = 1..new
      /\ \A i \in DOMAIN sent : sent'[i] = sent[i]
      /\ sent'[new] = message
  <2>1. /\ Append(sent, message) \in Seq(Messages)
        /\ Len(Append(sent, message)) = Len(sent) + 1
        /\ \A i \in 1..Len(sent) : Append(sent, message)[i] = sent[i]
        /\ Append(sent, message)[Len(sent) + 1] = message
    BY <1>3, AppendProperties
  <2>2. QED
    BY <1>1, <1>3, <2>1
<1>5. GTypeOK'
  <2>1. ideal' \in [Properties -> Values]
    BY <1>1, MapEventTypes DEF GraphInv, GTypeOK
  <2>2. handled' \in 0..Len(sent') /\ \A r \in DOMAIN log' : log'[r].message \in 1..Len(sent')
    BY <1>2, <1>3, <1>4
  <2>3. QED
    BY <1>2, <1>4, <2>1, <2>2 DEF GraphInv, GTypeOK
<1>6. \A r \in DOMAIN log : KindOf(r)' = KindOf(r) /\ sent'[log[r].message] = sent[log[r].message]
  BY <1>2, <1>3, <1>4 DEF KindOf
<1>7. ASSUME NEW p PROVE WriterRows(p)' = WriterRows(p)
  BY <1>2, <1>6 DEF WriterRows
<1>8. IdealIsLast'
  <2> SUFFICES ASSUME NEW p \in Others
               PROVE  \/ WritersOf(p)' = {} /\ ideal'[p] = "unset"
                      \/ \E i \in WritersOf(p)' : (\A j \in WritersOf(p)' : j <= i)
                            /\ ideal'[p] = Sets(sent'[i].kind)[p]
    BY DEF IdealIsLast
  <2>1. \/ WritersOf(p) = {} /\ ideal[p] = "unset"
        \/ \E i \in WritersOf(p) : (\A j \in WritersOf(p) : j <= i)
              /\ ideal[p] = Sets(sent[i].kind)[p]
    BY DEF GraphInv, IdealIsLast
  <2>2. CASE message.owner /\ p \in DOMAIN Sets(message.kind)
    <3>1. new \in WritersOf(p)' /\ \A j \in WritersOf(p)' : j <= new
      BY <1>3, <1>4, <2>2 DEF WritersOf
    <3>2. ideal'[p] = Sets(sent'[new].kind)[p]
      BY <1>1, <1>4, <2>2, MapEventOfOthers
    <3>3. QED
      BY <3>1, <3>2
  <2>3. CASE ~(message.owner /\ p \in DOMAIN Sets(message.kind))
    <3>1. WritersOf(p)' = WritersOf(p)
      BY <1>3, <1>4, <2>3 DEF WritersOf
    <3>2. ideal'[p] = ideal[p]
      BY <1>1, <2>3, MapEventOfOthers
    <3>3. \A i \in WritersOf(p) : sent'[i] = sent[i]
      BY <1>4 DEF WritersOf
    <3>4. QED
      BY <2>1, <3>1, <3>2, <3>3
  <2>4. QED
    BY <2>2, <2>3
<1>9. IdealName'
  <2> DEFINE Has == \E i \in DOMAIN sent : sent[i].owner /\ sent[i].kind = "contact"
             Att == \E i \in DOMAIN sent : sent[i].owner /\ Names(sent[i].kind)
             HasNow == \E i \in DOMAIN sent' : sent'[i].owner /\ sent'[i].kind = "contact"
             AttNow == \E i \in DOMAIN sent' : sent'[i].owner /\ Names(sent'[i].kind)
  <2>1. HasNow <=> Has \/ (message.owner /\ message.kind = "contact")
    BY <1>3, <1>4
  <2>2. AttNow <=> Att \/ (message.owner /\ Names(message.kind))
    BY <1>3, <1>4
  <2>3. ideal["person_fn"] = IF Has THEN "full name" ELSE IF Att THEN "cn" ELSE "unset"
    BY DEF GraphInv, IdealName
  <2>4. ideal'["person_fn"] =
          IF ~message.owner THEN ideal["person_fn"]
          ELSE IF message.kind = "contact" THEN "full name"
          ELSE IF Names(message.kind) /\ ideal["person_fn"] = "unset" THEN "cn"
          ELSE ideal["person_fn"]
    BY <1>1, MapEventOfName
  <2> HIDE DEF Has, Att, HasNow, AttNow
  <2>5. ideal'["person_fn"] = IF HasNow THEN "full name" ELSE IF AttNow THEN "cn" ELSE "unset"
    BY <2>1, <2>2, <2>3, <2>4
  <2>6. QED
    BY <2>5 DEF IdealName, HasNow, AttNow
<1>10. RowsInOrder'
  BY <1>2, <1>6 DEF GraphInv, RowsInOrder
<1>11. NothingIsLost'
  <2>1. Repeated => Repeated'
    BY <1>3, <1>4 DEF Repeated
  <2>2. entered => handled + 1 \in DOMAIN sent' /\ sent'[handled + 1].owner
    BY <1>3, <1>4 DEF GraphInv, NothingIsLost
  <2>3. ASSUME dlq = {}, ~Repeated', NEW i \in DOMAIN sent', sent'[i].owner,
               i <= handled \/ (entered /\ i = handled + 1)
        PROVE  \E r \in DOMAIN log : log[r].message = i
    <3>1. i \in DOMAIN sent
      BY <1>3, <1>4, <2>3 DEF GraphInv, NothingIsLost
    <3>2. sent[i].owner
      BY <1>4, <2>3, <3>1
    <3>3. QED
      BY <2>1, <2>3, <3>1, <3>2 DEF GraphInv, NothingIsLost
  <2>4. QED
    BY <1>2, <2>2, <2>3 DEF NothingIsLost
<1>12. PendingIsTail'
  BY <1>2 DEF GraphInv, PendingIsTail, Pending
<1>13. GraphIsLast'
  <2> SUFFICES ASSUME ~mixed, NEW p \in Others,
                      \A r \in WriterRows(p) : log[r].status = "processed"
               PROVE  /\ WriterRows(p) = {} => graph[p] = "unset"
                      /\ \A r \in WriterRows(p) :
                           (\A s \in WriterRows(p) : s <= r) => graph[p] = Sets(KindOf(r)')[p]
    BY <1>2, <1>7 DEF GraphIsLast
  <2>1. \A r \in WriterRows(p) : KindOf(r)' = KindOf(r)
    BY <1>6 DEF WriterRows
  <2>2. QED
    BY <2>1 DEF GraphInv, GraphIsLast
<1>14. GraphName'
  BY <1>2, <1>6 DEF GraphInv, GraphName
<1>15. QED
  BY <1>5, <1>8, <1>9, <1>10, <1>11, <1>12, <1>13, <1>14 DEF GraphInv

\* The steps that leave the log, the batches and the graph alone: a message is done
\* with, or comes again.
LEMMA HandledKeeps ==
  ASSUME GraphInv, UNCHANGED <<sent, log, batch, graph, ideal, mixed>>, GTypeOK', NothingIsLost',
         handled' >= handled
  PROVE  GraphInv'
<1>1. IdealIsLast' /\ IdealName'
  BY DEF GraphInv, IdealIsLast, IdealName, WritersOf
<1>2. PendingIsTail'
  BY DEF GraphInv, PendingIsTail, Pending
<1>3. GraphIsLast' /\ GraphName'
  BY DEF GraphInv, GraphIsLast, GraphName, WriterRows, KindOf
<1>4. RowsInOrder'
  <2>1. \A r \in DOMAIN log : log[r].message \in Int
    BY DEF GraphInv, GTypeOK
  <2>2. handled \in Int /\ handled' \in Int
    BY DEF GraphInv, GTypeOK
  <2>3. \A r \in DOMAIN log : log[r].message <= handled + 1
    BY DEF GraphInv, RowsInOrder
  <2>4. \A r \in DOMAIN log : log[r].message <= handled' + 1
    BY <2>1, <2>2, <2>3
  <2>5. QED
    BY <2>4 DEF GraphInv, RowsInOrder
<1>5. QED
  BY <1>1, <1>2, <1>3, <1>4 DEF GraphInv

\* The worker is done with a message, or crashes.
LEMMA QuietKeeps ==
  ASSUME GraphInv, DropForeign \/ Ack \/ RejectToDlq \/ IngestCrash
  PROVE  GraphInv'
<1> USE GraphAssumption DEF GraphAssumption
<1>1. UNCHANGED <<sent, log, batch, graph, ideal, mixed>>
  BY DEF DropForeign, Ack, RejectToDlq, IngestCrash
<1>2. /\ sent \in Seq(Messages) /\ log \in Seq(LogRow) /\ Len(sent) \in Nat
      /\ handled \in 0..Len(sent) /\ DOMAIN sent = 1..Len(sent) /\ dlq \subseteq 1..handled
      /\ hitches \in 0..MaxHitches /\ entered \in BOOLEAN
  BY DEF GraphInv, GTypeOK
<1>3. entered => handled + 1 \in DOMAIN sent /\ sent[handled + 1].owner
  BY DEF GraphInv, NothingIsLost
<1>4. Repeated' = Repeated
  BY <1>1 DEF Repeated
<1>5. /\ handled' \in 0..Len(sent) /\ handled' >= handled /\ dlq' \subseteq 1..handled'
      /\ hitches' \in 0..MaxHitches /\ entered' \in BOOLEAN
  <2>1. /\ handled' = handled \/ (handled' = handled + 1 /\ handled + 1 <= Len(sent))
        /\ dlq' \subseteq dlq \cup {handled + 1} /\ (dlq' = dlq \/ handled' = handled + 1)
    <3>1. CASE DropForeign
      BY <3>1 DEF DropForeign, Coming
    <3>2. CASE Ack
      BY <3>2, <1>2, <1>3 DEF Ack, Coming
    <3>3. CASE RejectToDlq
      BY <3>3 DEF RejectToDlq, Coming
    <3>4. CASE IngestCrash
      BY <3>4 DEF IngestCrash
    <3>5. QED
      BY <3>1, <3>2, <3>3, <3>4
  <2>2. handled' \in 0..Len(sent) /\ handled' >= handled /\ handled' \in Nat
    BY <1>2, <2>1
  <2>3. dlq' \subseteq 1..handled'
    <3>1. \A m \in 1..handled : m \in 1..handled'
      BY <1>2, <2>2
    <3>2. handled' = handled + 1 => handled + 1 \in 1..handled'
      BY <1>2, <2>2
    <3>3. QED
      BY <1>2, <2>1, <3>1, <3>2
  <2>4. (hitches' = hitches \/ (hitches < MaxHitches /\ hitches' = hitches + 1))
        /\ entered' \in {entered, FALSE}
    BY DEF DropForeign, Ack, RejectToDlq, IngestCrash, Hitch
  <2>5. hitches' \in 0..MaxHitches
    BY <1>2, <2>4
  <2>6. QED
    BY <1>2, <2>2, <2>3, <2>4, <2>5
<1>6. GTypeOK'
  BY <1>1, <1>5 DEF GraphInv, GTypeOK
<1>7. NothingIsLost'
  <2>1. CASE DropForeign
    <3>1. handled' = handled + 1 /\ ~sent[handled + 1].owner /\ UNCHANGED <<entered, dlq>>
      BY <2>1 DEF DropForeign, Coming
    <3>2. ~entered
      BY <1>3, <3>1
    <3>3. ASSUME NEW i \in DOMAIN sent, sent[i].owner, i <= handled + 1
          PROVE  i <= handled
      BY <1>2, <3>1, <3>3
    <3>4. QED
      BY <1>1, <1>4, <3>1, <3>2, <3>3 DEF GraphInv, NothingIsLost
  <2>2. CASE Ack
    <3>1. handled' = handled + 1 /\ entered /\ ~entered' /\ dlq' = dlq
      BY <2>2 DEF Ack, Coming
    <3>2. ASSUME NEW i \in DOMAIN sent, i <= handled + 1
          PROVE  i <= handled \/ i = handled + 1
      BY <1>2, <3>2
    <3>3. QED
      BY <1>1, <1>4, <3>1, <3>2 DEF GraphInv, NothingIsLost
  <2>3. CASE RejectToDlq
    <3>1. dlq' # {} /\ ~entered'
      BY <2>3 DEF RejectToDlq
    <3>2. QED
      BY <3>1 DEF NothingIsLost
  <2>4. CASE IngestCrash
    <3>1. handled' = handled /\ ~entered' /\ dlq' = dlq
      BY <2>4 DEF IngestCrash
    <3>2. QED
      BY <1>1, <1>4, <3>1 DEF GraphInv, NothingIsLost
  <2>5. QED
    BY <2>1, <2>2, <2>3, <2>4
<1>8. QED
  BY <1>1, <1>5, <1>6, <1>7, HandledKeeps

\* A row more: the last of the log, and pending.
LEMMA InsertKeeps ==
  ASSUME GraphInv, InsertEvent
  PROVE  GraphInv'
<1> USE GraphAssumption DEF GraphAssumption
<1> DEFINE i == handled + 1
<1>1. /\ i <= Len(sent) /\ sent[i].owner /\ ~entered /\ entered' = TRUE
      /\ UNCHANGED <<sent, handled, dlq, batch, graph, ideal, mixed, hitches>>
  BY DEF InsertEvent, Coming
<1>2. /\ sent \in Seq(Messages) /\ log \in Seq(LogRow) /\ Len(sent) \in Nat /\ Len(log) \in Nat
      /\ handled \in Nat /\ DOMAIN sent = 1..Len(sent) /\ DOMAIN log = 1..Len(log)
      /\ i \in DOMAIN sent
      /\ \A r \in DOMAIN log : log[r].message \in 1..Len(sent)
  BY <1>1 DEF GraphInv, GTypeOK
<1>3. Repeated' = Repeated
  BY <1>1 DEF Repeated
<1>4. CASE Logged(MessageKey(i))
  <2>1. log' = log
    BY <1>4 DEF InsertEvent, Coming
  <2>2. GTypeOK'
    BY <1>1, <2>1 DEF GraphInv, GTypeOK
  <2>3. ASSUME ~Repeated PROVE \E r \in DOMAIN log : log[r].message = i
    <3>1. PICK r \in DOMAIN log : MessageKey(log[r].message) = MessageKey(i)
      BY <1>4 DEF Logged
    <3> DEFINE j == log[r].message
    <3>2. j \in DOMAIN sent /\ sent[j].owner
      BY <1>2 DEF GraphInv, RowsInOrder
    <3>3. sent[i] \in Messages /\ sent[j] \in Messages
      BY <1>2, <3>2
    <3>4. CASE sent[i].stamped
      <4>1. MessageKey(i) = [id |-> i, body |-> "any"]
        BY <3>4 DEF MessageKey
      <4>2. i # 0
        BY <1>2
      <4>3. QED
        BY <3>1, <4>1, <4>2 DEF MessageKey
    <3>5. CASE ~sent[i].stamped
      <4>1. MessageKey(i) = [id |-> 0, body |-> sent[i].kind]
        BY <3>5 DEF MessageKey
      <4>2. ~sent[j].stamped /\ sent[j].kind = sent[i].kind
        BY <1>2, <3>1, <3>2, <4>1 DEF MessageKey
      <4>3. sent[i] = sent[j]
        <5>1. /\ sent[i] \in [kind : Kinds, owner : {TRUE}, stamped : BOOLEAN]
              /\ sent[j] \in [kind : Kinds, owner : {TRUE}, stamped : BOOLEAN]
          BY <3>3, <3>5, <4>2 DEF Messages
        <5>2. sent[i].stamped = FALSE /\ sent[j].stamped = FALSE
              /\ sent[i].owner = TRUE /\ sent[j].owner = TRUE
          BY <3>5, <4>2, <5>1
        <5>3. /\ sent[i] = [kind |-> sent[i].kind, owner |-> sent[i].owner,
                            stamped |-> sent[i].stamped]
              /\ sent[j] = [kind |-> sent[j].kind, owner |-> sent[j].owner,
                            stamped |-> sent[j].stamped]
          BY <5>1
        <5>4. QED
          BY <4>2, <5>2, <5>3
      <4>4. i = j
        BY <1>1, <1>2, <2>3, <3>2, <3>5, <4>2, <4>3 DEF Repeated
      <4>5. QED
        BY <4>4
    <3>6. QED
      BY <3>4, <3>5
  <2>4. NothingIsLost'
    BY <1>1, <1>2, <1>3, <2>1, <2>3 DEF GraphInv, NothingIsLost
  <2>5. handled' >= handled
    BY <1>1, <1>2
  <2>6. QED
    BY <1>1, <2>1, <2>2, <2>4, <2>5, HandledKeeps
<1>5. CASE ~Logged(MessageKey(i))
  <2> DEFINE newRow == [message |-> i, status |-> "pending"]
             new == Len(log) + 1
  <2>1. log' = Append(log, newRow)
    BY <1>5 DEF InsertEvent, Coming
  <2>2. newRow \in LogRow
    BY <1>2 DEF LogRow
  <2>3. /\ log' \in Seq(LogRow) /\ DOMAIN log' = 1..new /\ log'[new] = newRow
        /\ \A r \in DOMAIN log : log'[r] = log[r]
    <3>1. /\ Append(log, newRow) \in Seq(LogRow)
          /\ Len(Append(log, newRow)) = Len(log) + 1
          /\ \A r \in 1..Len(log) : Append(log, newRow)[r] = log[r]
          /\ Append(log, newRow)[Len(log) + 1] = newRow
      BY <1>2, <2>2, AppendProperties
    <3>2. QED
      BY <1>2, <2>1, <3>1
  <2>4. DOMAIN log' = DOMAIN log \cup {new} /\ new \notin DOMAIN log
        /\ \A r \in DOMAIN log : r < new /\ ~(new < r)
        /\ ~(new < new)
    BY <1>2, <2>3
  <2>5. log'[new].message = i /\ log'[new].status = "pending"
    BY <2>3
  <2> HIDE DEF newRow, new
  <2>6. GTypeOK'
    <3>1. batch' \in [Projectors -> SUBSET (DOMAIN log')]
      BY <1>1, <2>4 DEF GraphInv, GTypeOK
    <3>2. \A r \in DOMAIN log' : log'[r].message \in 1..Len(sent)
      BY <1>2, <2>3, <2>4, <2>5
    <3>3. QED
      BY <1>1, <2>3, <3>1, <3>2 DEF GraphInv, GTypeOK
  <2>7. \A r \in DOMAIN log : log[r].message < i
    <3>1. \A r \in DOMAIN log : log[r].message # i /\ log[r].message <= i
      BY <1>5 DEF GraphInv, RowsInOrder, Logged
    <3>2. QED
      BY <1>2, <3>1
  <2>8. RowsInOrder'
    <3> SUFFICES ASSUME NEW r \in DOMAIN log'
                 PROVE  /\ log'[r].message <= handled + 1 /\ sent[log'[r].message].owner
                        /\ \A s \in DOMAIN log' : r < s => log'[r].message < log'[s].message
      BY <1>1 DEF RowsInOrder
    <3>1. CASE r = new
      <4>1. log'[r].message = i /\ i <= handled + 1 /\ sent[i].owner
        BY <1>1, <1>2, <2>5, <3>1
      <4>2. \A s \in DOMAIN log' : ~(r < s)
        BY <1>2, <2>4, <3>1 DEF new
      <4>3. QED
        BY <4>1, <4>2
    <3>2. CASE r \in DOMAIN log
      BY <1>2, <2>3, <2>4, <2>5, <2>7, <3>2 DEF GraphInv, RowsInOrder
    <3>3. QED
      BY <2>4, <3>1, <3>2
  <2>9. NothingIsLost'
    <3>1. ASSUME dlq = {}, ~Repeated, NEW m \in DOMAIN sent, sent[m].owner,
                 m <= handled \/ m = handled + 1
          PROVE  \E r \in DOMAIN log' : log'[r].message = m
      <4>1. CASE m = handled + 1
        BY <2>4, <2>5, <4>1
      <4>2. CASE m <= handled
        <5>1. PICK r \in DOMAIN log : log[r].message = m
          BY <3>1, <4>2 DEF GraphInv, NothingIsLost
        <5>2. QED
          BY <2>3, <2>4, <5>1
      <4>3. QED
        BY <3>1, <4>1, <4>2
    <3>2. QED
      BY <1>1, <1>2, <1>3, <3>1 DEF NothingIsLost
  <2>10. Pending' = Pending \cup {new}
    BY <2>3, <2>4, <2>5 DEF Pending
  <2>11. PendingIsTail'
    <3> SUFFICES ASSUME ~mixed
                 PROVE /\ \A r \in Pending' : \A s \in DOMAIN log' : r < s => s \in Pending'
                       /\ \A p \in Projectors :
                            /\ batch[p] \subseteq Pending'
                            /\ \A r \in batch[p] : \A q \in Pending' : q < r => q \in batch[p]
                            /\ \A o \in Projectors : (batch[p] # {} /\ batch[o] # {}) => p = o
      BY <1>1 DEF PendingIsTail
    <3>1. \A r \in Pending : \A s \in DOMAIN log : r < s => s \in Pending
      BY DEF GraphInv, PendingIsTail
    <3>2. \A r \in Pending' : \A s \in DOMAIN log' : r < s => s \in Pending'
      BY <2>4, <2>10, <3>1
    <3>3. \A p \in Projectors : batch[p] \subseteq DOMAIN log
      BY DEF GraphInv, PendingIsTail, Pending
    <3>4. QED
      BY <2>4, <2>10, <3>2, <3>3 DEF GraphInv, PendingIsTail
  <2>12. \A r \in DOMAIN log : KindOf(r)' = KindOf(r)
    BY <1>1, <2>3 DEF KindOf
  <2>13. GraphIsLast'
    <3> SUFFICES ASSUME ~mixed, NEW p \in Others,
                        \A r \in WriterRows(p)' : log'[r].status = "processed"
                 PROVE  /\ WriterRows(p)' = {} => graph[p] = "unset"
                        /\ \A r \in WriterRows(p)' :
                             (\A s \in WriterRows(p)' : s <= r) => graph[p] = Sets(KindOf(r)')[p]
      BY <1>1 DEF GraphIsLast
    <3>1. new \notin WriterRows(p)'
      BY <2>5
    <3>2. WriterRows(p)' = WriterRows(p)
      BY <2>4, <2>12, <3>1 DEF WriterRows
    <3>3. \A r \in WriterRows(p) : log'[r] = log[r] /\ KindOf(r)' = KindOf(r)
      BY <2>3, <2>12 DEF WriterRows
    <3>4. QED
      BY <3>2, <3>3 DEF GraphInv, GraphIsLast
  <2>14. GraphName'
    BY <1>1, <2>3, <2>4, <2>5, <2>12 DEF GraphInv, GraphName
  <2>15. IdealIsLast' /\ IdealName'
    BY <1>1 DEF GraphInv, IdealIsLast, IdealName, WritersOf
  <2>16. QED
    BY <2>6, <2>8, <2>9, <2>11, <2>13, <2>14, <2>15 DEF GraphInv
<1>6. QED
  BY <1>4, <1>5

------------------------------------------------------------------------------
(* The steps of the projectors. *)

\* The steps that leave the messages, the rows and the graph alone.
LEMMA BatchesKeep ==
  ASSUME GraphInv, UNCHANGED <<sent, handled, entered, dlq, log, graph, ideal>>, GTypeOK',
         PendingIsTail', mixed => mixed'
  PROVE  GraphInv'
<1>1. IdealIsLast' /\ IdealName'
  BY DEF GraphInv, IdealIsLast, IdealName, WritersOf
<1>2. GraphIsLast' /\ GraphName'
  BY DEF GraphInv, GraphIsLast, GraphName, WriterRows, KindOf
<1>3. RowsInOrder'
  BY DEF GraphInv, RowsInOrder
<1>4. NothingIsLost'
  BY DEF GraphInv, NothingIsLost, Repeated
<1>5. QED
  BY <1>1, <1>2, <1>3, <1>4 DEF GraphInv

\* A batch has the first of the pending rows.
LEMMA FirstRowsAreFirst ==
  ASSUME NEW ids \in SUBSET Nat, NEW n \in Nat, \A r \in ids : r <= n
  PROVE  /\ FirstRows(ids) \subseteq ids
         /\ \A r \in FirstRows(ids) : \A q \in ids : q < r => q \in FirstRows(ids)
<1>1. FirstRows(ids) \subseteq ids
  BY DEF FirstRows
<1>2. IsFiniteSet(ids)
  <2>1. IsFiniteSet(0..n)
    BY FS_Interval
  <2>2. ids \subseteq 0..n
    OBVIOUS
  <2>3. QED
    BY <2>1, <2>2, FS_Subset
<1>3. ASSUME NEW r \in FirstRows(ids), NEW q \in ids, q < r
      PROVE  q \in FirstRows(ids)
  <2> DEFINE S == {o \in ids : o < r}
             T == {o \in ids : o < q}
  <2>1. r \in ids /\ Cardinality(S) < BatchSize
    BY DEF FirstRows
  <2>2. T \subseteq S
    <3>1. \A o \in ids : o \in Nat
      OBVIOUS
    <3>2. r \in Nat /\ q \in Nat /\ q < r
      BY <1>3, <2>1, <3>1
    <3>3. ASSUME NEW o \in ids, o < q PROVE o < r
      BY <3>1, <3>2, <3>3
    <3>4. QED
      BY <3>3
  <2>3. IsFiniteSet(S)
    BY <1>2, FS_Subset
  <2>4. IsFiniteSet(T) /\ Cardinality(T) <= Cardinality(S) /\ Cardinality(S) \in Nat
        /\ Cardinality(T) \in Nat
    <3> HIDE DEF S, T
    <3>1. IsFiniteSet(T) /\ Cardinality(T) <= Cardinality(S)
      BY <2>2, <2>3, FS_Subset
    <3>2. QED
      BY <2>3, <3>1, FS_CardinalityType
  <2>5. Cardinality(T) < BatchSize
    <3> DEFINE m == Cardinality(T)
               k == Cardinality(S)
    <3>1. m \in Nat /\ k \in Nat /\ m <= k /\ k < BatchSize /\ BatchSize \in Nat
      BY <2>1, <2>4, GraphAssumption DEF GraphAssumption
    <3> HIDE DEF m, k
    <3>2. m < BatchSize
      BY <3>1
    <3>3. QED
      BY <3>2 DEF m
  <2>6. QED
    BY <2>5 DEF FirstRows
<1>4. QED
  BY <1>1, <1>3

\* A batch is fetched.
LEMMA FetchKeeps ==
  ASSUME GraphInv, NEW p \in Projectors, FetchBatch(p)
  PROVE  GraphInv'
<1>1. /\ batch[p] = {} /\ batch' = [batch EXCEPT ![p] = FirstRows(Pending)]
      /\ mixed' = (mixed \/ Held)
      /\ UNCHANGED <<sent, handled, entered, dlq, log, graph, ideal, hitches>>
  BY DEF FetchBatch
<1>2. /\ batch \in [Projectors -> SUBSET (DOMAIN log)] /\ mixed \in BOOLEAN
      /\ log \in Seq(LogRow) /\ DOMAIN log = 1..Len(log) /\ Len(log) \in Nat
  BY DEF GraphInv, GTypeOK
<1>3. Pending \in SUBSET Nat /\ Pending \subseteq DOMAIN log /\ \A r \in Pending : r <= Len(log)
  BY <1>2 DEF Pending
<1>4. /\ FirstRows(Pending) \subseteq Pending
      /\ \A r \in FirstRows(Pending) : \A q \in Pending : q < r => q \in FirstRows(Pending)
  BY <1>2, <1>3, FirstRowsAreFirst
<1>5. GTypeOK'
  <2>1. batch' \in [Projectors -> SUBSET (DOMAIN log)]
    BY <1>1, <1>2, <1>3, <1>4
  <2>2. QED
    BY <1>1, <1>2, <2>1 DEF GraphInv, GTypeOK
<1>6. PendingIsTail'
  <2> SUFFICES ASSUME ~mixed'
               PROVE /\ \A r \in Pending : \A s \in DOMAIN log : r < s => s \in Pending
                     /\ \A o \in Projectors :
                          /\ batch'[o] \subseteq Pending
                          /\ \A r \in batch'[o] : \A q \in Pending : q < r => q \in batch'[o]
                          /\ \A u \in Projectors : (batch'[o] # {} /\ batch'[u] # {}) => o = u
    BY <1>1 DEF PendingIsTail, Pending
  <2>1. ~mixed /\ \A o \in Projectors : batch[o] = {}
    BY <1>1 DEF Held
  <2>2. \A o \in Projectors : batch'[o] = IF o = p THEN FirstRows(Pending) ELSE {}
    BY <1>1, <1>2, <2>1
  <2>3. \A r \in Pending : \A s \in DOMAIN log : r < s => s \in Pending
    BY <2>1 DEF GraphInv, PendingIsTail
  <2>4. QED
    BY <1>4, <2>2, <2>3
<1>7. QED
  BY <1>1, <1>5, <1>6, BatchesKeep

\* A projector forgets its batch.
LEMMA ProjectorCrashKeeps ==
  ASSUME GraphInv, NEW p \in Projectors, ProjectorCrash(p)
  PROVE  GraphInv'
<1> USE GraphAssumption DEF GraphAssumption
<1>1. /\ batch' = [batch EXCEPT ![p] = {}] /\ hitches < MaxHitches /\ hitches' = hitches + 1
      /\ UNCHANGED <<sent, handled, entered, dlq, log, graph, ideal, mixed>>
  BY DEF ProjectorCrash, Hitch
<1>2. batch \in [Projectors -> SUBSET (DOMAIN log)]
  BY DEF GraphInv, GTypeOK
<1>3. \A o \in Projectors : batch'[o] = IF o = p THEN {} ELSE batch[o]
  BY <1>1, <1>2
<1>4. GTypeOK'
  <2>1. batch' \in [Projectors -> SUBSET (DOMAIN log)] /\ hitches' \in 0..MaxHitches
    BY <1>1, <1>2 DEF GraphInv, GTypeOK
  <2>2. QED
    BY <1>1, <2>1 DEF GraphInv, GTypeOK
<1>5. PendingIsTail'
  BY <1>1, <1>3 DEF GraphInv, PendingIsTail, Pending
<1>6. QED
  BY <1>1, <1>4, <1>5, BatchesKeep

\* Rows are pending again from one of them on.
LEMMA ReplayKeeps ==
  ASSUME GraphInv, NEW id \in DOMAIN log, ReplayFrom(id)
  PROVE  GraphInv'
<1> USE GraphAssumption DEF GraphAssumption
<1>1. /\ log' = [r \in DOMAIN log |-> IF r >= id THEN [log[r] EXCEPT !.status = "pending"]
                                      ELSE log[r]]
      /\ mixed' = (mixed \/ Held) /\ hitches < MaxHitches /\ hitches' = hitches + 1
      /\ UNCHANGED <<sent, handled, entered, dlq, batch, graph, ideal>>
  BY DEF ReplayFrom, Hitch
<1>2. /\ log \in Seq(LogRow) /\ DOMAIN log = 1..Len(log) /\ Len(log) \in Nat /\ mixed \in BOOLEAN
      /\ batch \in [Projectors -> SUBSET (DOMAIN log)] /\ hitches \in 0..MaxHitches
  BY DEF GraphInv, GTypeOK
<1>3. /\ DOMAIN log' = DOMAIN log /\ log' \in [1..Len(log) -> LogRow]
      /\ \A r \in DOMAIN log :
           /\ log'[r].message = log[r].message
           /\ log'[r].status = IF r >= id THEN "pending" ELSE log[r].status
  <2>1. \A r \in DOMAIN log : log[r] \in LogRow
    BY <1>2
  <2>2. \A r \in DOMAIN log : log'[r] = IF r >= id THEN [log[r] EXCEPT !.status = "pending"]
                                        ELSE log[r]
    BY <1>1
  <2>3. ASSUME NEW r \in DOMAIN log
        PROVE  /\ log'[r] \in LogRow /\ log'[r].message = log[r].message
               /\ log'[r].status = IF r >= id THEN "pending" ELSE log[r].status
    BY <2>1, <2>2 DEF LogRow
  <2>4. log' = [r \in DOMAIN log |-> log'[r]]
    BY <1>1
  <2>5. QED
    BY <1>1, <1>2, <2>3, <2>4
<1>4. log' \in Seq(LogRow)
  BY <1>2, <1>3, SeqDef
<1>5. \A r \in DOMAIN log : KindOf(r)' = KindOf(r)
  BY <1>1, <1>3 DEF KindOf
<1>6. ASSUME NEW q PROVE WriterRows(q)' = WriterRows(q)
  BY <1>3, <1>5 DEF WriterRows
<1>7. GTypeOK'
  <2>1. \A r \in DOMAIN log' : log'[r].message \in 1..Len(sent)
    BY <1>3 DEF GraphInv, GTypeOK
  <2>2. mixed' \in BOOLEAN /\ hitches' \in 0..MaxHitches
    BY <1>1, <1>2
  <2>3. QED
    BY <1>1, <1>2, <1>3, <1>4, <2>1, <2>2 DEF GraphInv, GTypeOK
<1>8. IdealIsLast' /\ IdealName'
  BY <1>1 DEF GraphInv, IdealIsLast, IdealName, WritersOf
<1>9. RowsInOrder'
  BY <1>1, <1>3 DEF GraphInv, RowsInOrder
<1>10. NothingIsLost'
  <2>1. Repeated' = Repeated
    BY <1>1 DEF Repeated
  <2>2. QED
    BY <1>1, <1>3, <2>1 DEF GraphInv, NothingIsLost
<1>11. PendingIsTail'
  <2> SUFFICES ASSUME ~mixed'
               PROVE /\ \A r \in Pending' : \A s \in DOMAIN log : r < s => s \in Pending'
                     /\ \A o \in Projectors : batch[o] = {}
    BY <1>1, <1>3 DEF PendingIsTail
  <2>1. ~mixed /\ \A o \in Projectors : batch[o] = {}
    BY <1>1 DEF Held
  <2>2. ASSUME NEW r \in Pending', NEW s \in DOMAIN log, r < s
        PROVE  s \in Pending'
    <3>1. r \in DOMAIN log /\ log'[r].status = "pending"
      BY <1>3 DEF Pending
    <3>2. CASE s >= id
      BY <1>3, <3>2 DEF Pending
    <3>3. CASE ~(s >= id)
      <4>1. ~(r >= id)
        BY <1>2, <2>2, <3>1, <3>3
      <4>2. r \in Pending
        BY <1>3, <3>1, <4>1 DEF Pending
      <4>3. s \in Pending
        BY <2>1, <2>2, <4>2 DEF GraphInv, PendingIsTail
      <4>4. QED
        BY <1>3, <3>3, <4>3 DEF Pending
    <3>4. QED
      BY <3>2, <3>3
  <2>3. QED
    BY <2>1, <2>2
<1>12. GraphIsLast'
  <2> SUFFICES ASSUME ~mixed', NEW q \in Others,
                      \A r \in WriterRows(q) : log'[r].status = "processed"
               PROVE  /\ WriterRows(q) = {} => graph[q] = "unset"
                      /\ \A r \in WriterRows(q) :
                           (\A s \in WriterRows(q) : s <= r) => graph[q] = Sets(KindOf(r)')[q]
    BY <1>1, <1>6 DEF GraphIsLast
  <2>1. \A r \in WriterRows(q) : KindOf(r)' = KindOf(r) /\ log[r].status = "processed"
    BY <1>3, <1>5 DEF WriterRows
  <2>2. ~mixed
    BY <1>1, <1>2
  <2>3. QED
    BY <2>1, <2>2 DEF GraphInv, GraphIsLast
<1>13. GraphName'
  <2>1. \A r \in DOMAIN log : log'[r].status = "processed" => log[r].status = "processed"
    BY <1>3
  <2>2. QED
    BY <1>1, <1>3, <1>5, <2>1 DEF GraphInv, GraphName
<1>14. QED
  BY <1>7, <1>8, <1>9, <1>10, <1>11, <1>12, <1>13 DEF GraphInv

\* The first row of a batch is projected, or its mapper fails.
LEMMA ProcessKeeps ==
  ASSUME GraphInv, NEW p \in Projectors, ProcessRow(p)
  PROVE  GraphInv'
<1> USE GraphAssumption DEF GraphAssumption
<1>1. PICK r \in batch[p] :
        /\ \A q \in batch[p] : r <= q
        /\ batch' = [batch EXCEPT ![p] = @ \ {r}]
        /\ \/ graph' = Project(graph, r) /\ Noted(r, "processed") /\ UNCHANGED hitches
           \/ Hitch /\ Noted(r, "error") /\ UNCHANGED graph
  BY DEF ProcessRow
<1>2. UNCHANGED <<sent, handled, entered, dlq, ideal, mixed>>
  BY DEF ProcessRow
<1>3. /\ log \in Seq(LogRow) /\ DOMAIN log = 1..Len(log) /\ Len(log) \in Nat /\ mixed \in BOOLEAN
      /\ batch \in [Projectors -> SUBSET (DOMAIN log)] /\ hitches \in 0..MaxHitches
      /\ r \in DOMAIN log /\ graph \in [Properties -> Values]
  BY DEF GraphInv, GTypeOK
<1>4. PICK status \in {"processed", "error"} :
        /\ Noted(r, status)
        /\ status = "processed" => graph' = MapEvent(graph, KindOf(r))
        /\ status = "error" => graph' = graph
        /\ hitches' \in 0..MaxHitches
  BY <1>1, <1>3 DEF Project, Hitch
<1>5. log' = IF log[r].status = "pending" THEN [log EXCEPT ![r].status = status] ELSE log
  BY <1>4 DEF Noted
<1>6. /\ log' \in Seq(LogRow) /\ DOMAIN log' = DOMAIN log
      /\ \A s \in DOMAIN log :
           /\ log'[s].message = log[s].message
           /\ log'[s].status = IF s = r /\ log[r].status = "pending" THEN status
                               ELSE log[s].status
  <2>1. \A s \in DOMAIN log : log[s] \in LogRow
    BY <1>3
  <2>2. CASE log[r].status = "pending"
    <3> DEFINE newRow == [log[r] EXCEPT !.status = status]
    <3>1. newRow \in LogRow /\ newRow.message = log[r].message /\ newRow.status = status
      BY <1>3, <2>1 DEF LogRow
    <3>2. log' = [log EXCEPT ![r] = newRow]
      BY <1>5, <2>2
    <3> HIDE DEF newRow
    <3>3. log' \in Seq(LogRow)
      BY <1>3, <3>1, <3>2, ExceptSeq
    <3>4. DOMAIN log' = DOMAIN log /\ \A s \in DOMAIN log : log'[s] = IF s = r THEN newRow ELSE log[s]
      BY <1>3, <3>2
    <3>5. QED
      BY <2>2, <3>1, <3>3, <3>4
  <2>3. CASE log[r].status # "pending"
    BY <1>3, <1>5, <2>3
  <2>4. QED
    BY <2>2, <2>3
<1>7. \A s \in DOMAIN log : KindOf(s)' = KindOf(s)
  BY <1>2, <1>6 DEF KindOf
<1>8. ASSUME NEW q PROVE WriterRows(q)' = WriterRows(q)
  BY <1>6, <1>7 DEF WriterRows
<1>9. GTypeOK'
  <2>1. batch' \in [Projectors -> SUBSET (DOMAIN log)]
    BY <1>1, <1>3
  <2>2. graph' \in [Properties -> Values]
    BY <1>3, <1>4, MapEventTypes
  <2>3. \A s \in DOMAIN log' : log'[s].message \in 1..Len(sent)
    BY <1>6 DEF GraphInv, GTypeOK
  <2>4. QED
    BY <1>2, <1>4, <1>6, <2>1, <2>2, <2>3 DEF GraphInv, GTypeOK
<1>10. IdealIsLast' /\ IdealName'
  BY <1>2 DEF GraphInv, IdealIsLast, IdealName, WritersOf
<1>11. RowsInOrder'
  BY <1>2, <1>6 DEF GraphInv, RowsInOrder
<1>12. NothingIsLost'
  <2>1. Repeated' = Repeated
    BY <1>2 DEF Repeated
  <2>2. QED
    BY <1>2, <1>6, <2>1 DEF GraphInv, NothingIsLost
\* Without interference the row is the first of all pending ones.
<1>13. ~mixed => r \in Pending /\ \A q \in Pending : r <= q
  <2> SUFFICES ASSUME ~mixed PROVE r \in Pending /\ \A q \in Pending : r <= q
    OBVIOUS
  <2>1. r \in Pending /\ \A q \in Pending : q < r => q \in batch[p]
    BY <1>1 DEF GraphInv, PendingIsTail
  <2>2. ASSUME NEW q \in Pending PROVE r <= q
    <3>1. q \in Nat /\ r \in Nat
      BY <1>3 DEF Pending
    <3>2. QED
      BY <1>1, <2>1, <3>1
  <2>3. QED
    BY <2>1, <2>2
<1>14. ~mixed => Pending' = Pending \ {r}
  BY <1>6, <1>13 DEF Pending
<1>15. PendingIsTail'
  <2> SUFFICES ASSUME ~mixed
               PROVE /\ \A q \in Pending' : \A s \in DOMAIN log : q < s => s \in Pending'
                     /\ \A o \in Projectors :
                          /\ batch'[o] \subseteq Pending'
                          /\ \A s \in batch'[o] : \A q \in Pending' : q < s => q \in batch'[o]
                          /\ \A u \in Projectors : (batch'[o] # {} /\ batch'[u] # {}) => o = u
    BY <1>2, <1>6 DEF PendingIsTail
  <2>1. \A o \in Projectors : batch'[o] = IF o = p THEN batch[p] \ {r} ELSE {}
    <3>1. \A o \in Projectors : o # p => batch[o] = {}
      BY <1>1 DEF GraphInv, PendingIsTail
    <3>2. QED
      BY <1>1, <1>3, <3>1
  <2>2. ASSUME NEW q \in Pending', NEW s \in DOMAIN log, q < s PROVE s \in Pending'
    <3>1. q \in Pending /\ q # r /\ r <= q
      BY <1>13, <1>14
    <3>2. s \in Pending
      BY <2>2, <3>1 DEF GraphInv, PendingIsTail
    <3>3. q \in Nat /\ s \in Nat /\ r \in Nat
      BY <1>3, <3>1 DEF Pending
    <3>4. s # r
      BY <2>2, <3>1, <3>3
    <3>5. QED
      BY <1>14, <3>2, <3>4
  <2>3. batch[p] \ {r} \subseteq Pending'
    BY <1>14 DEF GraphInv, PendingIsTail
  <2>4. \A s \in batch[p] \ {r} : \A q \in Pending' : q < s => q \in batch[p] \ {r}
    BY <1>14 DEF GraphInv, PendingIsTail
  <2>5. QED
    BY <2>1, <2>2, <2>3, <2>4
<1>16. GraphIsLast'
  <2> SUFFICES ASSUME ~mixed, NEW q \in Others,
                      \A s \in WriterRows(q) : log'[s].status = "processed"
               PROVE  /\ WriterRows(q) = {} => graph'[q] = "unset"
                      /\ \A s \in WriterRows(q) :
                           (\A t \in WriterRows(q) : t <= s) => graph'[q] = Sets(KindOf(s))[q]
    <3>1. ASSUME NEW q PROVE \A s \in WriterRows(q) : KindOf(s)' = KindOf(s)
      BY <1>7 DEF WriterRows
    <3>2. QED
      BY <1>2, <1>8, <3>1 DEF GraphIsLast
  <2>1. log'[r].status = status
    BY <1>6, <1>13 DEF Pending
  <2>2. CASE r \in WriterRows(q)
    <3>1. graph' = MapEvent(graph, KindOf(r))
      BY <1>4, <2>1, <2>2
    <3>2. graph'[q] = Sets(KindOf(r))[q]
      BY <2>2, <3>1, MapEventOfOthers DEF WriterRows
    <3>3. \A s \in WriterRows(q) : s <= r
      <4>1. SUFFICES ASSUME NEW s \in WriterRows(q), ~(s <= r) PROVE FALSE
        OBVIOUS
      <4>2. s \in DOMAIN log /\ r < s /\ s # r
        BY <1>3, <4>1 DEF WriterRows
      <4>3. s \in Pending
        BY <1>13, <4>2 DEF GraphInv, PendingIsTail
      <4>4. log'[s].status = "pending"
        BY <1>6, <4>2, <4>3 DEF Pending
      <4>5. QED
        BY <4>1, <4>4
    <3>4. ASSUME NEW s \in WriterRows(q), \A t \in WriterRows(q) : t <= s PROVE s = r
      <4>1. s \in Nat /\ r \in Nat
        BY <1>3 DEF WriterRows
      <4>2. r <= s /\ s <= r
        BY <2>2, <3>3, <3>4
      <4>3. QED
        BY <4>1, <4>2
    <3>5. QED
      BY <2>2, <3>2, <3>4
  <2>3. CASE r \notin WriterRows(q)
    <3>1. \A s \in WriterRows(q) : log[s].status = "processed"
      <4>1. \A s \in WriterRows(q) : s \in DOMAIN log /\ s # r
        BY <2>3 DEF WriterRows
      <4>2. QED
        BY <1>6, <4>1
    <3>2. graph'[q] = graph[q]
      BY <1>3, <1>4, <2>3, MapEventOfOthers DEF WriterRows
    <3>3. QED
      BY <3>1, <3>2 DEF GraphInv, GraphIsLast
  <2>4. QED
    BY <2>2, <2>3
<1>17. GraphName'
  <2> DEFINE name == graph["person_fn"]
             now  == graph'["person_fn"]
  <2>1. /\ name \in {"unset", "cn", "full name"}
        /\ name = "full name" => \E s \in DOMAIN log : KindOf(s) = "contact"
        /\ name = "cn" => \E s \in DOMAIN log : Names(KindOf(s))
        /\ \A s \in DOMAIN log :
             log[s].status = "processed" =>
               /\ KindOf(s) = "contact" => name = "full name"
               /\ Names(KindOf(s)) => name # "unset"
    BY DEF GraphInv, GraphName
  <2>2. ~Names("contact")
    BY DEF Names
  <2>3. \/ status = "error" /\ now = name
        \/ /\ status = "processed"
           /\ now = IF KindOf(r) = "contact" THEN "full name"
                    ELSE IF Names(KindOf(r)) /\ name = "unset" THEN "cn" ELSE name
    BY <1>4, MapEventOfName
  <2> HIDE DEF name, now
  <2>4. now \in {"unset", "cn", "full name"}
    BY <2>1, <2>3
  <2>5. now = "full name" => \E s \in DOMAIN log : KindOf(s) = "contact"
    BY <1>3, <2>1, <2>3
  <2>6. now = "cn" => \E s \in DOMAIN log : Names(KindOf(s))
    BY <1>3, <2>1, <2>3
  <2>7. ASSUME NEW s \in DOMAIN log, log'[s].status = "processed"
        PROVE  /\ KindOf(s) = "contact" => now = "full name"
               /\ Names(KindOf(s)) => now # "unset"
    <3>1. log[s].status = "processed" \/ (s = r /\ status = "processed")
      BY <1>6, <2>7
    <3>2. CASE s = r /\ status = "processed"
      BY <2>2, <2>3, <3>2
    <3>3. CASE log[s].status = "processed"
      BY <2>1, <2>2, <2>3, <3>3
    <3>4. QED
      BY <3>1, <3>2, <3>3
  <2>8. QED
    BY <1>6, <1>7, <2>4, <2>5, <2>6, <2>7 DEF GraphName, now
<1>18. QED
  BY <1>9, <1>10, <1>11, <1>12, <1>15, <1>16, <1>17 DEF GraphInv

\* Every step keeps the invariant.
LEMMA GraphInvStep == GraphInv /\ [GNext]_gvars => GraphInv'
<1> SUFFICES ASSUME GraphInv, [GNext]_gvars PROVE GraphInv'
  OBVIOUS
<1>1. CASE UNCHANGED gvars
  <2>1. UNCHANGED <<sent, handled, entered, dlq, log, batch, graph, ideal, mixed, hitches>>
    BY <1>1 DEF gvars
  <2>2. GTypeOK' /\ PendingIsTail'
    BY <2>1 DEF GraphInv, GTypeOK, PendingIsTail, Pending
  <2>3. QED
    BY <2>1, <2>2, BatchesKeep
<1>2. QED
  BY <1>1, PublishKeeps, QuietKeeps, InsertKeeps, FetchKeeps, ProcessKeeps, ProjectorCrashKeeps,
     ReplayKeeps DEF GNext

\* The invariant holds, for any kinds of events and any bounds.
THEOREM GraphInvariant == GSpec => []GraphInv
<1>1. QED
  BY GraphInvInit, GraphInvStep, PTL DEF GSpec

------------------------------------------------------------------------------

\* GSpec => []GTypeOK: the types of the log, the batches and the graph.
THEOREM GraphTypes == GSpec => []GTypeOK
<1>1. GraphInv => GTypeOK
  BY DEF GraphInv
<1>2. QED
  BY <1>1, GraphInvariant, PTL

\* Caught up, and with nothing lost, repeated, failed or mixed, the last writer among the
\* rows has the last writer among the messages.
LEMMA LastRowHasLastMessage ==
  ASSUME GraphInv, CaughtUp, dlq = {}, ~Repeated, ~mixed,
         \A r \in DOMAIN log : log[r].status = "processed"
  PROVE  graph = ideal
<1>1. /\ sent \in Seq(Messages) /\ log \in Seq(LogRow) /\ handled = Len(sent) /\ Len(sent) \in Nat
      /\ DOMAIN sent = 1..Len(sent) /\ DOMAIN log = 1..Len(log) /\ Len(log) \in Nat
      /\ \A r \in DOMAIN log : log[r].message \in DOMAIN sent
      /\ graph \in [Properties -> Values] /\ ideal \in [Properties -> Values]
  BY DEF GraphInv, GTypeOK, CaughtUp
<1>2. \A i \in DOMAIN sent : sent[i].owner => \E r \in DOMAIN log : log[r].message = i
  BY <1>1 DEF GraphInv, NothingIsLost
<1>3. \A r \in DOMAIN log : sent[log[r].message].owner
  BY DEF GraphInv, RowsInOrder
<1>4. ASSUME NEW p \in Others PROVE graph[p] = ideal[p]
  <2>1. \A r \in WriterRows(p) : log[r].status = "processed" /\ log[r].message \in WritersOf(p)
    BY <1>1, <1>3 DEF WriterRows, WritersOf, KindOf
  <2>2. /\ WriterRows(p) = {} => graph[p] = "unset"
        /\ \A r \in WriterRows(p) :
             (\A s \in WriterRows(p) : s <= r) => graph[p] = Sets(KindOf(r))[p]
    BY <2>1 DEF GraphInv, GraphIsLast
  <2>3. CASE WritersOf(p) = {} /\ ideal[p] = "unset"
    BY <2>1, <2>2, <2>3
  <2>4. ASSUME NEW i \in WritersOf(p), \A j \in WritersOf(p) : j <= i,
               ideal[p] = Sets(sent[i].kind)[p]
        PROVE  graph[p] = ideal[p]
    <3>1. PICK r \in DOMAIN log : log[r].message = i
      BY <1>2 DEF WritersOf
    <3>2. r \in WriterRows(p) /\ KindOf(r) = sent[i].kind
      BY <3>1 DEF WriterRows, WritersOf, KindOf
    <3>3. ASSUME NEW s \in WriterRows(p) PROVE s <= r
      <4>1. log[s].message <= i
        BY <2>1, <2>4
      <4>2. s \in DOMAIN log /\ (r < s => i < log[s].message)
        BY <3>1 DEF WriterRows, GraphInv, RowsInOrder
      <4>3. s \in Nat /\ r \in Nat /\ i \in Nat /\ log[s].message \in Nat
        BY <1>1, <3>1, <4>2 DEF WritersOf
      <4>4. QED
        BY <4>1, <4>2, <4>3
    <3>4. QED
      BY <2>2, <2>4, <3>2, <3>3
  <2>5. QED
    BY <2>3, <2>4 DEF GraphInv, IdealIsLast
<1>5. graph["person_fn"] = ideal["person_fn"]
  <2> DEFINE name == graph["person_fn"]
             Has == \E r \in DOMAIN log : KindOf(r) = "contact"
             Att == \E r \in DOMAIN log : Names(KindOf(r))
  <2>1. /\ Has <=> \E i \in DOMAIN sent : sent[i].owner /\ sent[i].kind = "contact"
        /\ Att <=> \E i \in DOMAIN sent : sent[i].owner /\ Names(sent[i].kind)
    BY <1>1, <1>2, <1>3 DEF KindOf
  <2>2. ideal["person_fn"] = IF Has THEN "full name" ELSE IF Att THEN "cn" ELSE "unset"
    BY <2>1 DEF GraphInv, IdealName
  <2>3. /\ name \in {"unset", "cn", "full name"}
        /\ name = "full name" => Has
        /\ name = "cn" => Att
        /\ Has => name = "full name"
        /\ Att => name # "unset"
    BY DEF GraphInv, GraphName
  <2> HIDE DEF name, Has, Att
  <2>4. name = IF Has THEN "full name" ELSE IF Att THEN "cn" ELSE "unset"
    BY <2>3
  <2>5. QED
    BY <2>2, <2>4 DEF name
<1>6. QED
  <2>1. \A p \in Properties : graph[p] = ideal[p]
    BY <1>4, <1>5 DEF Others
  <2>2. QED
    BY <1>1, <2>1

\* GSpec => []GraphIsTrue: whatever the kinds of events, the batches and the hitches, the
\* graph of a log that is caught up is what the owner's messages make of it, once each and
\* in their order; and the last rows of any three can be projected again (ingest.py
\* _insert_event, projector.py _fetch_batch, _process_row, replay_from, mappers/*.py).
THEOREM GraphStaysTrue == GSpec => []GraphIsTrue
<1>1. GraphInv => GraphIsTrue
  BY LastRowHasLastMessage DEF GraphIsTrue
<1>2. QED
  BY <1>1, GraphInvariant, PTL

------------------------------------------------------------------------------
(* The parts side by side (TwakyParts).                                       *)
(* What is proved of a part holds of the behaviours that TLC is given, because *)
(* a behaviour of TSpec is one of each part.                                   *)

\* A step of TNext is a step of one part and leaves the variables of the others.
LEMMA StepOfParts ==
  ASSUME [TNext]_tvars
  PROVE  /\ UNCHANGED part
         /\ [LNext]_lvars /\ [PNext]_pvars /\ [MNext]_mvars /\ [BNext]_bvars
         /\ [ONext]_ovars /\ [CNext]_cvars /\ [GNext]_gvars /\ [NNext]_nvars
BY DEF TNext, tvars

\* A behaviour of TSpec is one of every part.
LEMMA BehaviourOfParts ==
  TSpec => LSpec /\ PSpec /\ MSpec /\ BSpec /\ OSpec /\ CSpec /\ GSpec /\ NSpec
<1>1. TInit => /\ LInit /\ PInit /\ MInit /\ BInit /\ OInit /\ CInit /\ GInit /\ NInit
  BY DEF TInit
<1>2. [TNext]_tvars => [LNext]_lvars
  BY StepOfParts
<1>3. [TNext]_tvars => [PNext]_pvars
  BY StepOfParts
<1>4. [TNext]_tvars => [MNext]_mvars
  BY StepOfParts
<1>5. [TNext]_tvars => [BNext]_bvars
  BY StepOfParts
<1>6. [TNext]_tvars => [ONext]_ovars
  BY StepOfParts
<1>7. [TNext]_tvars => [CNext]_cvars
  BY StepOfParts
<1>8. [TNext]_tvars => [GNext]_gvars
  BY StepOfParts
<1>9. [TNext]_tvars => [NNext]_nvars
  BY StepOfParts
<1> QED
  BY <1>1, <1>2, <1>3, <1>4, <1>5, <1>6, <1>7, <1>8, <1>9, PTL
     DEF TSpec, LSpec, PSpec, MSpec, BSpec, OSpec, CSpec, GSpec, NSpec

\* The variables of all parts stay within their types.
THEOREM PartsTypes == TSpec => []PartsTypeOK
<1>1. TInit => part \in Parts
  BY DEF TInit
<1>2. part \in Parts /\ [TNext]_tvars => (part \in Parts)'
  BY StepOfParts DEF Parts
<1>3. TSpec => [](part \in Parts)
  BY <1>1, <1>2, PTL DEF TSpec
<1>4. TSpec => []LTypeOK /\ []PTypeOK /\ []MTypeOK /\ []BTypeOK
  BY BehaviourOfParts, LearningTypes, PatternsTypeCorrect, PipelineTypes, BreakerTypes
<1>5. TSpec => []OTypeOK /\ []CTypeOK /\ []GTypeOK /\ []NTypeOK
  BY BehaviourOfParts, RefreshTypes, CacheTypes, GraphTypes, NoticesTypes
<1>6. /\ part \in Parts
      /\ LTypeOK /\ PTypeOK /\ MTypeOK /\ BTypeOK /\ OTypeOK /\ CTypeOK /\ GTypeOK /\ NTypeOK
      => PartsTypeOK
  BY DEF PartsTypeOK
<1> QED
  BY <1>3, <1>4, <1>5, <1>6, PTL

\* What the run of all parts checks, for every value of the constants: the promises
\* of the mail sentinel, of the token refresh, of the caches, the graph and the
\* notices, each of which the theorem of its part states.
THEOREM PartsKeepTheirPromises ==
  TSpec => /\ TrustIsEarned /\ RestoredOnce /\ []RescueIsSeen /\ []TrustOutranksBlock
           /\ []JunkIsFinal /\ []OpensOrRaced /\ TokensAreKept /\ []OneFlight
           /\ []StaleIsExplained /\ []GraphIsTrue /\ []EndIsHeard
BY BehaviourOfParts, TrustMustBeEarned, RowsAreRestoredOnce, RescuesAreSeen, TrustPrevails,
   JunkStaysFinal, BreakerOpens, NoTokenIsThrownAway, OneRefreshAtATime,
   StaleEntriesAreExplained, GraphStaysTrue, EndsAreHeard
=============================================================================
