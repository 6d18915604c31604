---------------------------- MODULE MailPipeline ----------------------------
(***************************************************************************)
(* One run of the mail sentinel's graph: load_thread, match_rules,         *)
(* learn_pattern, spam_triage, apply_actions, thread_status,               *)
(* select_memories, draft_reply, and what it leaves in the mailbox and in  *)
(* the database.  resilient_node lets no node stop the run: a node that    *)
(* raises has done a part of its effects, a node over its budget has done  *)
(* them all (the executor waits for its thread), and in both cases its     *)
(* output is dropped and the next node starts without it.  The owner edits *)
(* the rules while the run goes on.                                        *)
(*                                                                         *)
(* "mail" is the latest of the thread, on which every node acts; it need   *)
(* not be the mail that the event is about.                                *)
(***************************************************************************)
EXTENDS Sequences, MailSieve

CONSTANTS Samples,      \* the mails: records as MailSieve reads them
          StoredRules,  \* the rules at the start: [names -> rule]
          MaxDropped,   \* nodes whose output is dropped
          MaxEdits      \* what the owner does to the rules

\* What the actions of the owner's rules do, and the one that is only a mark for the
\* router to the draft.
OfRules == {"archive", "mark_read", "label:Y", "notify", "delegate_to_atlas"}
RuleActions == OfRules \cup {"draft_reply"}

\* A row of mail_sentinel_rule, as far as the nodes read it.
Rule == [conditions : SUBSET STRING, combinator : {"AND", "OR"}, enabled : BOOLEAN,
         priority : Int, actions : Seq(RuleActions)]

ASSUME PipelineAssumption ==
  /\ \A m \in Samples :
       m.marks \subseteq Marks /\ m.rspamd \in RspamdActions /\ m.brand \in Brands
  /\ StoredRules \in [DOMAIN StoredRules -> Rule]
  /\ MaxDropped \in Nat /\ MaxEdits \in Nat

VARIABLES
  mail,      \* the latest mail of the thread
  keywords,  \* its keywords when the thread is loaded
  filter,    \* spam_filter_enabled
  pattern,   \* rule_name of the sender's active pattern, "none" without one
  rules,     \* mail_sentinel_rule: [a set of names -> rule]
  node,      \* the next node of the graph, "end" after the last one
  state,     \* MailAgentState, as far as the nodes read it
  done,      \* the effects so far, in order
  dropped,   \* the nodes whose output was dropped
  edits      \* how often the owner has edited the rules

mvars == <<mail, keywords, filter, pattern, rules, node, state, done, dropped, edits>>

Learnable == {"none", "trust_sender", "block_sender", "label:X"} \cup DOMAIN StoredRules
Fresh == [thread |-> FALSE, by |-> "none", rule |-> "none", bucket |-> "none",
          status |-> "none", actions |-> <<>>, draft |-> FALSE]

MInit ==
  /\ mail \in Samples /\ keywords \in {{}, {"$junk"}, {"nonjunk"}}
  /\ filter \in BOOLEAN /\ pattern \in Learnable
  /\ rules = StoredRules
  /\ node = "load_thread" /\ state = Fresh
  /\ done = <<>> /\ dropped = {} /\ edits = 0

\* resilient_node around a node with these effects and this output: it returns,
\* or some of its effects are there and its output is not.  Either way the graph goes
\* on, by the state that results.
Resilient(effects, output) ==
  /\ \/ /\ done' = done \o effects
        /\ state' = output
        /\ UNCHANGED dropped
     \/ /\ Cardinality(dropped) < MaxDropped
        /\ \E k \in 0..Len(effects) : done' = done \o SubSeq(effects, 1, k)
        /\ dropped' = dropped \cup {node}
        /\ UNCHANGED state
  /\ UNCHANGED <<mail, keywords, filter, pattern, rules, edits>>

------------------------------------------------------------------------------

load_thread ==
  /\ node = "load_thread"
  /\ Resilient(<<>>, [state EXCEPT !.thread = TRUE])
  /\ node' = "match_rules"

\* match_rules: the sender's pattern, else the first rule whose conditions hold,
\* else the answer of a model that was shown the rules without conditions and may
\* name none or something else.  Prior mails of the thread never carry a rule.
Matches ==
  IF ~state.thread THEN {<<"none", "none">>}
  ELSE IF pattern # "none" THEN {<<"learned_pattern", pattern>>}
  ELSE LET static == WithVerdict(mail, rules, "match")
           open   == WithVerdict(mail, rules, "defer")
       IN IF static # {} THEN {<<"static", FirstByPriority(rules, static)>>}
          ELSE {<<"none", "none">>} \cup
               IF open = {} THEN {} ELSE {"ai"} \X (open \cup {"invented"})

match_rules ==
  /\ node = "match_rules"
  /\ \E match \in Matches :
       Resilient(<<>>, [state EXCEPT !.by = match[1], !.rule = match[2]])
  /\ node' = AfterMatch(state'.by)

\* learn_pattern: with enough decisions on record and a model that is sure, one
\* record_decision for the rule's name.
learn_pattern ==
  /\ node = "learn_pattern"
  /\ \E effects \in {<<>>} \cup (IF state.thread THEN {<<"learn">>} ELSE {}) :
       Resilient(effects, state)
  /\ node' = "spam_triage"

\* _terminate.  The move is given up for the keyword alone when it raises.
Terminating(bucket) ==
  IF bucket = "newsletter" THEN {<<"label", "nonjunk", "row">>}
  ELSE {<<"label", move, "row">> \o
          (IF bucket = "phishing-alert" THEN <<"phishing mission">> ELSE <<>>) :
          move \in {"moved", "$junk"}}

\* The buckets that spam_triage can come to; "pass" is the spam_bucket None.
TriageBuckets ==
  IF ~filter \/ ~state.thread THEN {"pass"}
  ELSE IF Triage(mail, keywords) = "ask" THEN ModelBuckets
  ELSE {Triage(mail, keywords)}

spam_triage ==
  /\ node = "spam_triage"
  /\ \E bucket \in TriageBuckets :
       \E effects \in IF bucket = "pass" THEN {<<>>} ELSE Terminating(bucket) :
         Resilient(effects, [state EXCEPT !.bucket = bucket])
  /\ node' = AfterTriage(state'.bucket)

\* The synthetic actions of learned patterns: a pattern learned from the model's
\* choice of a rule is none of the three, and nothing is done.
Synthetic(rule) == CASE rule = "label:X"      -> <<"label:X">>
                     [] rule = "block_sender" -> <<"block_sender">>
                     [] OTHER                 -> <<>>

\* The actions of the rule as it is stored by now.
StoredActions(rule) ==
  IF rule \in DOMAIN rules /\ rules[rule].enabled THEN rules[rule].actions ELSE <<>>

\* apply_actions, in which "draft_reply" does nothing.
apply_actions ==
  /\ node = "apply_actions"
  /\ LET actions == IF ~state.thread \/ state.rule = "none" THEN <<>>
                    ELSE IF state.by = "learned_pattern" THEN Synthetic(state.rule)
                    ELSE StoredActions(state.rule)
     IN Resilient(actions, [state EXCEPT !.actions = actions])
  /\ node' = "thread_status"

thread_status ==
  /\ node = "thread_status"
  /\ \E status \in IF state.thread THEN {"TO_REPLY", "AWAITING_REPLY"} ELSE {"FYI"} :
       Resilient(<<>>, [state EXCEPT !.status = status])
  /\ node' = AfterStatus(state'.status, state'.rule, rules)

\* select_memories: the memories that go into the prompt live seven days longer.
select_memories ==
  /\ node = "select_memories"
  /\ Resilient(IF state.thread THEN <<"touch">> ELSE <<>>, state)
  /\ node' = "draft_reply"

\* draft_reply: a reply without a body is neither saved nor reported, and is
\* returned like any other.
draft_reply ==
  /\ node = "draft_reply"
  /\ \E effects \in {<<>>, <<"draft", "draft mission">>} :
       Resilient(effects, [state EXCEPT !.draft = TRUE])
  /\ node' = "end"

------------------------------------------------------------------------------

\* The owner or the command line flips "enabled" of a rule, or deletes a rule.
EditRules ==
  /\ edits < MaxEdits /\ edits' = edits + 1
  /\ \E n \in DOMAIN rules :
       \/ rules' = [rules EXCEPT ![n].enabled = ~@]
       \/ rules' = [o \in DOMAIN rules \ {n} |-> rules[o]]
  /\ UNCHANGED <<mail, keywords, filter, pattern, node, state, done, dropped>>

MNext ==
  \/ load_thread \/ match_rules \/ learn_pattern \/ spam_triage \/ apply_actions
  \/ thread_status \/ select_memories \/ draft_reply
  \/ EditRules

MSpec == MInit /\ [][MNext]_mvars

------------------------------------------------------------------------------

Did(effect) == \E i \in DOMAIN done : done[i] = effect

\* The types of the variables.
MTypeOK ==
  /\ mail \in Samples /\ mail.marks \subseteq Marks /\ mail.rspamd \in RspamdActions
  /\ mail.brand \in Brands
  /\ DOMAIN rules \subseteq DOMAIN StoredRules /\ rules \in [DOMAIN rules -> Rule]
  /\ state.bucket \in ModelBuckets \cup {"none"}
  /\ state.by \in {"none", "learned_pattern", "static", "ai"}
  /\ Cardinality(dropped) <= MaxDropped /\ edits <= MaxEdits

\* A mail that was moved to Junk is left alone for the rest of the run: no action
\* of a rule and no reply.  The exception is a triage that was over its budget or
\* raised after the move: its output is dropped and the run goes on as if the mail
\* had passed (robustness.py resilient_node, pipeline.py routers).
JunkedIsLeftAlone ==
  \A i, j \in DOMAIN done :
    (i < j /\ done[i] = "moved" /\ done[j] \in OfRules \cup {"draft", "touch"}) =>
      "spam_triage" \in dropped

\* A mail is not moved to Junk without a row from which it can be restored, again
\* unless the triage raised between the mail server and the database
\* (nodes.py _terminate).
MovedHasRow == Did("moved") => (Did("row") \/ "spam_triage" \in dropped)

\* The triage's word on junk is the last one of the run.
JunkIsFinal == JunkedIsLeftAlone /\ MovedHasRow
=============================================================================
