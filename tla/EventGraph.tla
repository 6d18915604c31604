------------------------------ MODULE EventGraph ------------------------------
(***************************************************************************)
(* From the event bus to the graph: the ingest worker takes the messages   *)
(* of the calendar, contact and mail exchanges, drops those of others, and *)
(* appends the owner's to event_log, once for each key; the projector      *)
(* takes pending rows in batches and writes each to the graph with the     *)
(* mapper of its exchange; "replay" makes rows pending again.              *)
(*                                                                         *)
(* A kind of event stands for an exchange and a payload.  The graph is the *)
(* properties of one event, one person, one attendance and one mail.       *)
(***************************************************************************)
EXTENDS Integers, Sequences, FiniteSets

CONSTANTS Kinds,       \* the kinds of events published
          Projectors,  \* projector processes
          BatchSize,   \* rows taken at a time
          MaxSent,     \* messages published
          MaxHitches   \* crashes, database errors, failing mappers, replays

VARIABLES
  sent,    \* the messages published on the exchanges, in order
  handled, \* how many of them the worker is done with; the queue is the rest
  entered, \* whether the first of the queue has its row but is not yet acked
  dlq,     \* messages (their places in sent) in the dead letter queue
  log,     \* event_log, by id; a row has the message of some place in sent
  batch,   \* [Projectors -> ids it has fetched and not yet projected]
  graph,   \* the properties in the graph
  ideal,   \* ghost: what the owner's messages make of the graph, each projected once
           \* and in the order of publication
  mixed,   \* ghost: two batches were held at the same time, or rows were marked
           \* for replay while one was held
  hitches

gvars == <<sent, handled, entered, dlq, log, batch, graph, ideal, mixed, hitches>>

------------------------------------------------------------------------------
(* The mappers.                                                               *)

Properties == {"event_deleted", "event_title", "attended_status", "person_fn",
               "person_deleted", "mail_deleted", "mail_read", "mail_path"}
Values == {"unset", "no", "yes", "one", "two", "accepted", "declined", "full name", "cn",
           "inbox", "archive"}
EmptyGraph == [p \in Properties |-> "unset"]

\* What the mappers set, by property.  calendar_event_created serves updates too, and
\* puts a title and takes the mark of deletion back; an attendee who is named in it is
\* a person, an attendance without a status.
EventUpserted(title) == [event_deleted |-> "no", event_title |-> title]
EventDeleted         == [event_deleted |-> "yes"]
Replied(status)      == [attended_status |-> status]
ContactUpserted      == [person_fn |-> "full name", person_deleted |-> "no"]
ContactDeleted       == [person_deleted |-> "yes"]
Received             == [mail_path |-> "inbox", mail_deleted |-> "no"]
Moved                == [mail_path |-> "archive"]
FlagsUpdated(read)   == [mail_read |-> read]
Expunged             == [mail_deleted |-> "yes"]

\* get_mapper on the exchange of a kind, applied to its payload.  A kind that is
\* not listed has no mapper, or no natural key in its payload.
AllKinds == {"event created", "event updated", "event cancelled", "accepted", "declined",
             "contact", "contact deleted", "mail received", "mail moved", "mail read",
             "mail unread", "mail expunged", "unmapped"}
Sets(kind) ==
  CASE kind = "event created"   -> EventUpserted("one")
    [] kind = "event updated"   -> EventUpserted("two")
    [] kind = "event cancelled" -> EventDeleted
    [] kind = "accepted"        -> Replied("accepted")
    [] kind = "declined"        -> Replied("declined")
    [] kind = "contact"         -> ContactUpserted
    [] kind = "contact deleted" -> ContactDeleted
    [] kind = "mail received"   -> Received
    [] kind = "mail moved"      -> Moved
    [] kind = "mail read"       -> FlagsUpdated("yes")
    [] kind = "mail unread"     -> FlagsUpdated("no")
    [] kind = "mail expunged"   -> Expunged
    [] OTHER                    -> <<>>

\* _person's coalesce: an attendee's name is set only where none is.
Names(kind) == kind \in {"event created", "event updated"}

\* Every MERGE of a row, in one transaction.
MapEvent(g, kind) ==
  [p \in Properties |->
     IF p \in DOMAIN Sets(kind) THEN Sets(kind)[p]
     ELSE IF p = "person_fn" /\ Names(kind) /\ g[p] = "unset" THEN "cn"
     ELSE g[p]]

ASSUME GraphAssumption ==
  Kinds \subseteq AllKinds /\ BatchSize \in Nat \ {0} /\ MaxSent \in Nat /\ MaxHitches \in Nat

\* Rows that are projected once more, from any of them on, leave the graph as it
\* was: what "replay" and a batch begun again after a crash rely on.  It is a fact
\* of the mappers and not of the state, for any kinds of events, and is proved
\* (mappers/*.py; _person keeps a name that is there already).
ReplayIsHarmless ==
  \A k1, k2, k3 \in AllKinds :
    LET g == MapEvent(MapEvent(MapEvent(EmptyGraph, k1), k2), k3)
    IN /\ MapEvent(g, k3) = g
       /\ MapEvent(MapEvent(g, k2), k3) = g
       /\ MapEvent(MapEvent(MapEvent(g, k1), k2), k3) = g

------------------------------------------------------------------------------

GInit ==
  /\ sent = <<>> /\ handled = 0 /\ entered = FALSE /\ dlq = {} /\ log = <<>>
  /\ batch = [p \in Projectors |-> {}]
  /\ graph = EmptyGraph /\ ideal = EmptyGraph /\ mixed = FALSE /\ hitches = 0

Hitch == hitches < MaxHitches /\ hitches' = hitches + 1

\* A source publishes a message, with a message id or without one, or one that
\* matches_owner does not take for the owner's.
Messages == [kind : Kinds, owner : {TRUE}, stamped : BOOLEAN]
              \cup [kind : {"foreign"}, owner : {FALSE}, stamped : {TRUE}]

Publish ==
  /\ Len(sent) < MaxSent
  /\ \E message \in Messages :
       /\ sent' = Append(sent, message)
       /\ ideal' = IF message.owner THEN MapEvent(ideal, message.kind) ELSE ideal
  /\ UNCHANGED <<handled, entered, dlq, log, batch, graph, mixed, hitches>>

\* _message_key: the message id, which no two messages share, or a hash of exchange
\* and body.
MessageKey(i) == IF sent[i].stamped THEN [id |-> i, body |-> "any"]
                 ELSE [id |-> 0, body |-> sent[i].kind]

Coming == handled + 1
Logged(key) == \E r \in DOMAIN log : MessageKey(log[r].message) = key

\* What is not the owner's is acked and forgotten.
DropForeign ==
  /\ Coming <= Len(sent) /\ ~sent[Coming].owner
  /\ handled' = Coming
  /\ UNCHANGED <<sent, entered, dlq, log, batch, graph, ideal, mixed, hitches>>

\* _insert_event: ON CONFLICT (message_id) DO NOTHING.
InsertEvent ==
  /\ Coming <= Len(sent) /\ sent[Coming].owner /\ ~entered
  /\ log' = IF Logged(MessageKey(Coming)) THEN log
            ELSE Append(log, [message |-> Coming, status |-> "pending"])
  /\ entered' = TRUE
  /\ UNCHANGED <<sent, handled, dlq, batch, graph, ideal, mixed, hitches>>

Ack ==
  /\ entered /\ entered' = FALSE /\ handled' = Coming
  /\ UNCHANGED <<sent, dlq, log, batch, graph, ideal, mixed, hitches>>

\* A database error, before or after the row is there: reject without requeue.
RejectToDlq ==
  /\ Coming <= Len(sent) /\ sent[Coming].owner
  /\ Hitch
  /\ dlq' = dlq \cup {Coming} /\ handled' = Coming /\ entered' = FALSE
  /\ UNCHANGED <<sent, log, batch, graph, ideal, mixed>>

\* The worker ends before the ack: the message comes again.
IngestCrash ==
  /\ entered /\ Hitch /\ entered' = FALSE
  /\ UNCHANGED <<sent, handled, dlq, log, batch, graph, ideal, mixed>>

------------------------------------------------------------------------------

Pending == {r \in DOMAIN log : log[r].status = "pending"}
Held == \E p \in Projectors : batch[p] # {}

\* Mutant: ORDER BY id DESC LIMIT BatchSize.
FirstRows_Newest(rows) == {r \in rows : Cardinality({q \in rows : q > r}) < BatchSize}

\* ORDER BY id LIMIT BatchSize.
FirstRows(rows) == {r \in rows : Cardinality({q \in rows : q < r}) < BatchSize}

\* _fetch_batch: the locks are given back with the rows.
FetchBatch(p) ==
  /\ batch[p] = {} /\ Pending # {}
  /\ batch' = [batch EXCEPT ![p] = FirstRows(Pending)]
  /\ mixed' = (mixed \/ Held)
  /\ UNCHANGED <<sent, handled, entered, dlq, log, graph, ideal, hitches>>

\* UPDATE ... WHERE status = 'pending'.
Noted(r, status) ==
  log' = IF log[r].status = "pending" THEN [log EXCEPT ![r].status = status] ELSE log

\* _process_row writes to the graph whether the row is still pending or not.
KindOf(r) == sent[log[r].message].kind
Project(g, r) == MapEvent(g, KindOf(r))

\* The rows of a batch are processed in the order of their ids.
ProcessRow(p) ==
  /\ \E r \in batch[p] :
       /\ \A q \in batch[p] : r <= q
       /\ batch' = [batch EXCEPT ![p] = @ \ {r}]
       /\ \/ graph' = Project(graph, r) /\ Noted(r, "processed") /\ UNCHANGED hitches
          \/ Hitch /\ Noted(r, "error") /\ UNCHANGED graph
  /\ UNCHANGED <<sent, handled, entered, dlq, ideal, mixed>>

ProjectorCrash(p) ==
  /\ batch[p] # {} /\ Hitch
  /\ batch' = [batch EXCEPT ![p] = {}]
  /\ UNCHANGED <<sent, handled, entered, dlq, log, graph, ideal, mixed>>

\* replay_from, on the command line.
ReplayFrom(id) ==
  /\ Hitch
  /\ log' = [r \in DOMAIN log |-> IF r >= id THEN [log[r] EXCEPT !.status = "pending"]
                                  ELSE log[r]]
  /\ mixed' = (mixed \/ Held)
  /\ UNCHANGED <<sent, handled, entered, dlq, batch, graph, ideal>>

GNext ==
  \/ Publish \/ DropForeign \/ InsertEvent \/ Ack \/ RejectToDlq \/ IngestCrash
  \/ \E p \in Projectors : FetchBatch(p) \/ ProcessRow(p) \/ ProjectorCrash(p)
  \/ \E id \in DOMAIN log : ReplayFrom(id)

GSpec == GInit /\ [][GNext]_gvars

------------------------------------------------------------------------------

\* The types of the variables.
LogRow == [message : Nat, status : {"pending", "processed", "error"}]
GTypeOK ==
  /\ sent \in Seq(Messages) /\ log \in Seq(LogRow)
  /\ \A r \in DOMAIN log : log[r].message \in 1..Len(sent)
  /\ handled \in 0..Len(sent) /\ entered \in BOOLEAN /\ dlq \subseteq 1..handled
  /\ batch \in [Projectors -> SUBSET (DOMAIN log)]
  /\ graph \in [Properties -> Values] /\ ideal \in [Properties -> Values]
  /\ mixed \in BOOLEAN /\ hitches \in 0..MaxHitches

\* The same event of the owner was published twice without a message id.
Repeated == \E i, j \in DOMAIN sent :
  i < j /\ sent[i] = sent[j] /\ sent[i].owner /\ ~sent[i].stamped

CaughtUp == handled = Len(sent) /\ Pending = {} /\ ~Held

\* When all is handled, the graph is what the events of the owner make of it in
\* the order of their publication, whatever was redelivered, replayed or begun
\* again after a crash.  It is not when a message went to the dead letter queue, a
\* mapper failed, the same body was published twice without a message id (the
\* second is taken for a redelivery), or projectors, or a projector and a replay,
\* ran into each other: a row is then written to the graph after a later one
\* (ingest.py _insert_event, projector.py _process_row, replay_from).
GraphIsTrue ==
  (CaughtUp /\ dlq = {} /\ ~Repeated /\ ~mixed
     /\ \A r \in DOMAIN log : log[r].status = "processed") =>
    graph = ideal
=============================================================================
