----------------------------- MODULE OAuthRefresh -----------------------------
(***************************************************************************)
(* The OAuth tokens of the mail sentinel: one row oauth_credential, shared *)
(* by the sentinel process and the API process, each with a RefreshManager *)
(* that caches the access token and lets one caller at a time refresh it,  *)
(* with an asyncio.Lock.  In the sentinel process the lock is used from    *)
(* several event loops: the main loop (polling, health check) and one loop *)
(* of asyncio.run for every pipeline thread that calls a sync wrapper.     *)
(*                                                                         *)
(* The authorization server (external) answers a refresh token that it     *)
(* accepts with a new access token and, when it rotates, a new refresh     *)
(* token in the place of the one used.  Its answers are numbered, and so   *)
(* are the tokens in them; 0 is none.  Access tokens expire in the order   *)
(* in which they were issued.                                              *)
(***************************************************************************)
EXTENDS Integers, Sequences, FiniteSets

CONSTANTS Tasks,       \* callers in the main loop of the sentinel process
          Threads,     \* its pipeline threads, each with a loop of its own
          ApiThreads,  \* request threads of the API process
          MaxTokens,   \* answers of the server with tokens, in all
          MaxFaults    \* lost answers, lost notifications, logouts and crashes, in all

VARIABLES
  cred,    \* the row oauth_credential; NoRow when there is none
  valid,   \* the refresh tokens that the server accepts
  aged,    \* access tokens up to this one have at most _EXPIRY_SKEW_S left
  issued,  \* the last answer
  cache,   \* [Processes -> BOOLEAN]: whether a token is cached, for _CACHE_TTL_S at most
  lock,    \* [Processes -> asyncio.Lock: owner, queue of waiters, bound loop]
  woken,   \* waiters whose future has its result
  at,      \* [Callers -> where the call is]
  forced,  \* ghost: callers of force_refresh that have not come to the lock yet
  row,     \* [Callers -> what the caller has read of the row and still needs]
  answer,  \* [Callers -> the tokens the server answered with]
  note,    \* processes with a notification oauth_credential_changed to come
  spent,   \* ghost: [refresh token -> the process that traded it in]
  mislaid, \* ghost: refresh tokens traded in for an answer that got lost
  faults

ovars == <<cred, valid, aged, issued, cache, lock, woken, at, forced, row, answer,
           note, spent, mislaid, faults>>

Callers == Tasks \cup Threads \cup ApiThreads
Processes == {"sentinel", "api"}
Process(c) == IF c \in ApiThreads THEN "api" ELSE "sentinel"
CallersOf(p) == {c \in Callers : Process(c) = p}

Tokens == 0..MaxTokens
ASSUME RefreshAssumption ==
  "none" \notin Callers /\ MaxTokens \in Nat /\ MaxFaults \in Nat
NoRow == [access |-> 0, refresh |-> 0]
FreshLock == [owner |-> "none", queue |-> <<>>, bound |-> "none"]
Main == "main"
Loop(c) == IF c \in Tasks THEN Main ELSE c

OInit ==
  /\ cred = NoRow /\ valid = {} /\ aged = 0 /\ issued = 0
  /\ cache = [p \in Processes |-> FALSE]
  /\ lock = [p \in Processes |-> FreshLock] /\ woken = {}
  /\ at = [c \in Callers |-> "idle"] /\ forced = {}
  /\ row = [c \in Callers |-> NoRow] /\ answer = [c \in Callers |-> NoRow]
  /\ note = {} /\ spent = [t \in {} |-> "none"] /\ mislaid = {} /\ faults = 0

Fault == faults < MaxFaults /\ faults' = faults + 1

Goes(c, step) == at' = [at EXCEPT ![c] = step]

\* The trigger oauth_credential_notify.  Only the sentinel process listens.
Notified == note' = note \cup {"sentinel"}

------------------------------------------------------------------------------
(* asyncio.Lock, as used from several loops.                                  *)

\* Mutant: a caller may pass the waiters.
Free_Unqueued(p) == lock[p].owner = "none"

\* acquire without waiting: unlocked, and every waiter cancelled; a waiter whose
\* future is done is not cancelled.
Free(p) == lock[p].owner = "none" /\ lock[p].queue = <<>>

\* A waiter makes its future in the loop the lock is bound to, which is that of
\* its first waiter; in any other loop it raises RuntimeError.
Queue(c) ==
  LET p == Process(c) IN
  /\ ~Free(p)
  /\ IF lock[p].bound \in {"none", Loop(c)}
     THEN /\ lock' = [lock EXCEPT ![p].bound = Loop(c), ![p].queue = Append(@, c)]
          /\ Goes(c, "waiting")
     ELSE Goes(c, "idle") /\ UNCHANGED lock

\* get_access_token comes to the lock when the row is too old to be used.
AtLock(c) == at[c] = "enter" \/ (at[c] = "fetched" /\ row[c].access <= aged)

\* What is awaited before is over, the lock is taken, and without another await
\* comes the double check of _refresh, which does not ask whether the call is
\* forced: with a cached token the lock is released again.
Enter(c) ==
  LET p == Process(c) IN
  /\ AtLock(c) /\ row' = [row EXCEPT ![c] = NoRow] /\ forced' = forced \ {c}
  /\ \/ /\ Free(p) /\ cache[p]
        /\ Goes(c, "idle") /\ UNCHANGED lock
     \/ /\ Free(p) /\ ~cache[p]
        /\ lock' = [lock EXCEPT ![p].owner = c]
        /\ Goes(c, "read")
     \/ Queue(c)
  /\ UNCHANGED <<cred, valid, aged, issued, cache, woken, answer, note, spent, mislaid,
                 faults>>

\* A thread has nothing else to run: its loop sleeps until it is woken through
\* its selector, unless the callback of the future is ready by then.
Sleep(c) ==
  /\ at[c] = "waiting" /\ c \notin Tasks /\ c \notin woken
  /\ Goes(c, "asleep")
  /\ UNCHANGED <<cred, valid, aged, issued, cache, lock, woken, forced, row, answer,
                 note, spent, mislaid, faults>>

\* The callback of the future runs in the loop of the waiter, once that loop
\* runs: the main loop does sooner or later.  The double check follows.  A waiter
\* whose future is done is the first of the queue.
Wake(c) ==
  LET p == Process(c)
      rest == Tail(lock[p].queue)
  IN
  /\ at[c] = "waiting" /\ c \in woken
  /\ IF cache[p]
     THEN /\ lock' = [lock EXCEPT ![p].queue = rest]
          /\ woken' = (woken \ {c}) \cup (IF rest = <<>> THEN {} ELSE {Head(rest)})
          /\ Goes(c, "idle")
     ELSE /\ lock' = [lock EXCEPT ![p].owner = c, ![p].queue = rest]
          /\ woken' = woken \ {c}
          /\ Goes(c, "read")
  /\ UNCHANGED <<cred, valid, aged, issued, cache, forced, row, answer, note, spent,
                 mislaid, faults>>

\* release, when the call ends: the first waiter's future gets its result, which
\* does not wake the loop of another thread.
Leave(c) ==
  LET p == Process(c) IN
  /\ lock' = [lock EXCEPT ![p].owner = "none"]
  /\ woken' = IF lock[p].queue = <<>> THEN woken ELSE woken \cup {Head(lock[p].queue)}
  /\ Goes(c, "idle")
  /\ row' = [row EXCEPT ![c] = NoRow] /\ answer' = [answer EXCEPT ![c] = NoRow]

------------------------------------------------------------------------------
(* RefreshManager. *)

\* get_access_token with a cold cache, or force_refresh.
Call(c) ==
  /\ at[c] = "idle"
  /\ \/ ~cache[Process(c)] /\ Goes(c, "fetch") /\ UNCHANGED forced
     \/ Goes(c, "enter") /\ forced' = forced \cup {c}
  /\ UNCHANGED <<cred, valid, aged, issued, cache, lock, woken, row, answer, note,
                 spent, mislaid, faults>>

\* repository.get in a worker thread ...
Fetch(c) ==
  /\ at[c] = "fetch" /\ Goes(c, "fetched")
  /\ row' = [row EXCEPT ![c].access = cred.access]
  /\ UNCHANGED <<cred, valid, aged, issued, cache, lock, woken, forced, answer, note,
                 spent, mislaid, faults>>

\* ... and the token of the row, when the call resumes and it is not too old.
Fetched(c) ==
  /\ at[c] = "fetched" /\ row[c].access > aged
  /\ cache' = [cache EXCEPT ![Process(c)] = TRUE]
  /\ row' = [row EXCEPT ![c] = NoRow]
  /\ Goes(c, "idle")
  /\ UNCHANGED <<cred, valid, aged, issued, lock, woken, forced, answer, note, spent,
                 mislaid, faults>>

\* repository.get again; without a refresh token there is nothing to do.
ReadRow(c) ==
  /\ at[c] = "read"
  /\ IF cred.refresh = 0 THEN Leave(c)
     ELSE /\ row' = [row EXCEPT ![c].refresh = cred.refresh]
          /\ Goes(c, "post") /\ UNCHANGED <<lock, woken, answer>>
  /\ UNCHANGED <<cred, valid, aged, issued, cache, forced, note, spent, mislaid, faults>>

\* The server trades the refresh token in: a new access token, and a new refresh
\* token or none.
Trade(c, rotated) ==
  LET used == row[c].refresh
      next == issued + 1
  IN /\ issued < MaxTokens /\ issued' = next
     /\ valid' = IF rotated THEN (valid \ {used}) \cup {next} ELSE valid
     /\ spent' = IF rotated THEN [t \in DOMAIN spent \cup {used} |->
                                    IF t = used THEN Process(c) ELSE spent[t]]
                 ELSE spent
     /\ answer' = [answer EXCEPT ![c] = [access |-> next,
                                         refresh |-> IF rotated THEN next ELSE 0]]

\* The POST to the token endpoint: answered, refused, or failed on the way there
\* or on the way back.
Refused(c) == row[c].refresh \notin valid

Post(c) ==
  /\ at[c] = "post"
  /\ \/ /\ ~Refused(c)
        /\ \E rotated \in BOOLEAN : Trade(c, rotated)
        /\ Goes(c, "write") /\ UNCHANGED <<mislaid, faults>>
     \/ /\ ~Refused(c) /\ Fault
        /\ \E rotated \in BOOLEAN : Trade(c, rotated)
        /\ Goes(c, "error") /\ mislaid' = mislaid \cup {row[c].refresh}
     \/ /\ \/ Refused(c) /\ UNCHANGED faults
           \/ Fault
        /\ Goes(c, "error")
        /\ UNCHANGED <<valid, issued, answer, spent, mislaid>>
  /\ UNCHANGED <<cred, aged, cache, lock, woken, forced, row, note>>

\* set_error writes only last_refresh_error, which nothing reads back; the trigger
\* fires all the same.
SetError(c) ==
  /\ at[c] = "error"
  /\ IF cred = NoRow THEN UNCHANGED note ELSE Notified
  /\ Leave(c)
  /\ UNCHANGED <<cred, valid, aged, issued, cache, forced, spent, mislaid, faults>>

\* Mutant: the new refresh token is not stored.
Updated_KeepsRefresh(c) == [access |-> answer[c].access, refresh |-> cred.refresh]

\* update_after_refresh: the refresh token stays when none came back; it raises
\* when the row is gone.
Updated(c) ==
  [access  |-> answer[c].access,
   refresh |-> IF answer[c].refresh # 0 THEN answer[c].refresh ELSE cred.refresh]

Write(c) ==
  /\ at[c] = "write"
  /\ IF cred = NoRow
     THEN Leave(c) /\ UNCHANGED <<cred, note>>
     ELSE /\ cred' = Updated(c) /\ Notified
          /\ Goes(c, "cache") /\ UNCHANGED <<lock, woken>>
          /\ row' = [row EXCEPT ![c] = NoRow] /\ answer' = [answer EXCEPT ![c] = NoRow]
  /\ UNCHANGED <<valid, aged, issued, cache, forced, spent, mislaid, faults>>

SetCache(c) ==
  /\ at[c] = "cache"
  /\ cache' = [cache EXCEPT ![Process(c)] = TRUE]
  /\ Leave(c)
  /\ UNCHANGED <<cred, valid, aged, issued, forced, note, spent, mislaid, faults>>

------------------------------------------------------------------------------
(* Around it. *)

\* run_oauth_config_listener: a notification empties the cache, also one of the
\* process' own; what comes while it reconnects is lost.
Invalidate(p) ==
  /\ p \in note /\ note' = note \ {p}
  /\ \/ cache' = [cache EXCEPT ![p] = FALSE] /\ UNCHANGED faults
     \/ Fault /\ UNCHANGED cache
  /\ UNCHANGED <<cred, valid, aged, issued, lock, woken, at, forced, row, answer, spent,
                 mislaid>>

\* _CACHE_TTL_S passes for a cached token, _EXPIRY_SKEW_S begins for another.
CacheExpires(p) ==
  /\ cache[p] /\ cache' = [cache EXCEPT ![p] = FALSE]
  /\ UNCHANGED <<cred, valid, aged, issued, lock, woken, at, forced, row, answer, note,
                 spent, mislaid, faults>>
TokenAges ==
  /\ aged < issued /\ aged' = aged + 1
  /\ UNCHANGED <<cred, valid, issued, cache, lock, woken, at, forced, row, answer, note,
                 spent, mislaid, faults>>

\* The callback of the login flow stores new tokens; DELETE removes the row.
Login ==
  /\ issued < MaxTokens /\ issued' = issued + 1
  /\ cred' = [access |-> issued + 1, refresh |-> issued + 1]
  /\ valid' = valid \cup {issued + 1}
  /\ Notified
  /\ UNCHANGED <<aged, cache, lock, woken, at, forced, row, answer, spent, mislaid, faults>>

Logout ==
  /\ cred # NoRow /\ cred' = NoRow /\ Notified /\ Fault
  /\ UNCHANGED <<valid, aged, issued, cache, lock, woken, at, forced, row, answer, spent,
                 mislaid>>

\* A process ends and starts again with nothing in memory.
Restart(p) ==
  /\ Fault
  /\ cache' = [cache EXCEPT ![p] = FALSE] /\ lock' = [lock EXCEPT ![p] = FreshLock]
  /\ woken' = woken \ CallersOf(p) /\ forced' = forced \ CallersOf(p)
  /\ at' = [c \in Callers |-> IF Process(c) = p THEN "idle" ELSE at[c]]
  /\ mislaid' = mislaid \cup {row[c].refresh : c \in {d \in CallersOf(p) : at[d] = "write"}}
  /\ row' = [c \in Callers |-> IF Process(c) = p THEN NoRow ELSE row[c]]
  /\ answer' = [c \in Callers |-> IF Process(c) = p THEN NoRow ELSE answer[c]]
  /\ note' = note \ {p}
  /\ UNCHANGED <<cred, valid, aged, issued, spent>>

ONext ==
  \/ \E c \in Callers :
       \/ Call(c) \/ Fetch(c) \/ Fetched(c)
       \/ Enter(c) \/ Sleep(c) \/ Wake(c)
       \/ ReadRow(c) \/ Post(c) \/ SetError(c) \/ Write(c) \/ SetCache(c)
  \/ \E p \in Processes : Invalidate(p) \/ CacheExpires(p) \/ Restart(p)
  \/ TokenAges \/ Login \/ Logout

OSpec == OInit /\ [][ONext]_ovars

------------------------------------------------------------------------------

\* The types of the variables.
TokenPair == [access : Tokens, refresh : Tokens]
OTypeOK ==
  /\ cred \in TokenPair /\ row \in [Callers -> TokenPair] /\ answer \in [Callers -> TokenPair]
  /\ valid \subseteq Tokens /\ issued \in Tokens /\ aged \in 0..issued
  /\ cache \in [Processes -> BOOLEAN]
  /\ \A p \in Processes : lock[p].owner \in CallersOf(p) \cup {"none"}
  /\ woken \subseteq Callers /\ forced \subseteq Callers /\ note \subseteq Processes
  /\ mislaid \subseteq Tokens /\ faults \in 0..MaxFaults

\* One process never presents a refresh token that it has traded in already: its
\* callers, of whatever loop, are let in one after the other, and the new token is
\* in the row before the next one reads it.  A refused token was traded in by the
\* other process, or for an answer that got lost (refresh_manager.py _refresh).
RefusedWasElsewhere ==
  \A c \in Callers : (at[c] = "post" /\ Refused(c) /\ at'[c] = "error") =>
    (row[c].refresh \in mislaid \/ spent[row[c].refresh] # Process(c))

\* The refresh token in the row is one that the server accepts, or the answer with
\* its successor is in the hands of a caller about to write it, or that answer got
\* lost: two processes refreshing at once, or a login during a refresh, do not
\* leave a dead token behind (repository.py update_after_refresh, set_error).
RowIsUsable ==
  \/ cred.refresh = 0 \/ cred.refresh \in valid \cup mislaid
  \/ \E c \in Callers : at[c] = "write" /\ row[c].refresh = cred.refresh

\* Single flight: of the callers of one process, of whatever loop, one at a time
\* is between taking the lock and releasing it, also when its waiters are woken
\* late, raise, or are passed by the double check (refresh_manager.py _refresh,
\* async with self._lock).
Busy == {"read", "post", "write", "error", "cache"}
OneFlight == \A c, d \in Callers : /\ at[c] \in Busy /\ at[d] \in Busy
                                   /\ Process(c) = Process(d)
                                   => c = d

\* What the module docstring says of the sync wrappers, that calling them from
\* within process(), on a pipeline thread, is always safe (refresh_manager.py:10-12):
\* no thread sleeps on when its turn at the lock has come.
Stuck(p) == \E c \in CallersOf(p) : at[c] = "asleep" /\ c \in woken
SyncCallsAreSafe == \A p \in Processes : ~Stuck(p)

\* No refresh token that still works is thrown away: what every step leaves in the
\* row is usable, and no step presents a token that its process has used
\* (refresh_manager.py, repository.py).
TokensAreKept == [][RowIsUsable' /\ RefusedWasElsewhere]_ovars

\* What the docstring of force_refresh says: it bypasses the cache and always
\* calls the token endpoint.
ForceBypassesCache ==
  [][\A c \in forced : LET p == Process(c) IN
       (Enter(c) /\ Free(p)) => lock'[p].owner = c]_ovars
=============================================================================
