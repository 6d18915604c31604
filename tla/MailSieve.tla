------------------------------ MODULE MailSieve ------------------------------
(***************************************************************************)
(* The decisions of the mail sentinel that depend on one mail and on the   *)
(* rows of the database, without any effect: which rule a mail matches     *)
(* (stages 1 to 3 of match_rules), what the spam triage says of it, where  *)
(* the pipeline goes next, and the arithmetic of learned patterns.         *)
(*                                                                         *)
(* A mail is a record of what these functions read of it: "rspamd" is the  *)
(* action of the rspamd status header ("none" when it is absent), "score"  *)
(* its numeric score rounded down, 0 when absent; "brand" says whether a   *)
(* known brand is named and whether the sender's domain is one of its own; *)
(* "hits" is the set of rule conditions that hold of the mail.  Headers,   *)
(* phrases and regular expressions are abstracted to these marks.          *)
(***************************************************************************)
EXTENDS Integers, FiniteSets

\* The marks one mail may carry, each read by one heuristic.
Marks == {"list_unsubscribe", "dkim", "return_path_mismatch", "suspicious_tld",
          "random_local", "urgency", "pitch", "names_owner", "is_reply"}

RspamdActions == {"none", "no action", "add header", "greylist",
                  "rewrite subject", "soft reject", "reject"}

\* What the table of brands says of a mail: it names none, or one whose domains
\* include the sender's, or another one.
Brands == {"none", "own", "foreign"}

\* nodes.py _RSPAMD_SCORE_GREY_MIN, _HEURISTIC_NEWSLETTER_MAX_SCORE,
\* _HEURISTIC_GREY_MIN_SCORE.
ScoreGreyMin == 3
NewsletterMaxScore == 5
HeuristicGreyMin == 4

------------------------------------------------------------------------------
(* Spam triage. *)

Points(mail, mark, n) == IF mark \in mail.marks THEN n ELSE 0

\* _header_heuristic_score.  The two points for an attachment without DKIM are
\* never given: hasAttachment is not among the properties the adapter asks the
\* server for (_EMAIL_PROPERTIES), so the field is always absent.
HeaderScore(mail) ==
  Points(mail, "list_unsubscribe", 2) + (3 - Points(mail, "dkim", 3))
    + Points(mail, "return_path_mismatch", 3) + Points(mail, "suspicious_tld", 2)
    + Points(mail, "random_local", 2)

\* _brand_impersonation_signal: a brand named from a foreign domain, or named
\* together with a phrase of urgency.
BrandImpersonation(mail) ==
  \/ mail.brand = "foreign"
  \/ mail.brand = "own" /\ "urgency" \in mail.marks

\* _cold_outreach_signal: a phrase of the lists, or a subject that starts with
\* the owner's first name and is not a reply.
ColdOutreach(mail) ==
  \/ "pitch" \in mail.marks
  \/ "names_owner" \in mail.marks /\ "is_reply" \notin mail.marks

\* Stages 1 and 2: the mail is spam already for the server or for the owner.
UpstreamSpam(mail, keywords) ==
  \/ "$junk" \in keywords
  \/ mail.rspamd \in {"reject", "soft reject", "rewrite subject"}

\* The signals that take a mail to the model although rspamd trusts it.
Suspect(mail) ==
  mail.score >= ScoreGreyMin \/ BrandImpersonation(mail) \/ ColdOutreach(mail)

\* make_spam_triage up to the model call: the bucket, "ask" for the model, or
\* "pass".  The newsletter test comes before the model is asked.
Triage(mail, keywords) ==
  IF UpstreamSpam(mail, keywords) THEN "spam"
  ELSE IF ~Suspect(mail) /\ "nonjunk" \in keywords THEN "pass"
  ELSE IF /\ "list_unsubscribe" \in mail.marks
          /\ HeaderScore(mail) < NewsletterMaxScore THEN "newsletter"
  ELSE IF \/ mail.rspamd \in {"add header", "greylist"}
          \/ Suspect(mail)
          \/ HeaderScore(mail) >= HeuristicGreyMin THEN "ask"
  ELSE "pass"

\* What the model can make of a mail it was asked about: a bucket it is sure
\* enough of, or nothing.
ModelBuckets == {"spam", "phishing-alert", "newsletter", "pass"}

JunkBuckets == {"spam", "phishing-alert"}

------------------------------------------------------------------------------
(* Rules and learned patterns. *)

\* rule_matches_static: "defer" for a rule without conditions.
StaticVerdict(mail, rule) ==
  IF rule.conditions = {} THEN "defer"
  ELSE IF \/ rule.combinator = "AND" /\ rule.conditions \subseteq mail.hits
          \/ rule.combinator = "OR" /\ rule.conditions \cap mail.hits # {}
       THEN "match" ELSE "skip"

\* The rules of list_all(enabled_only=True) whose verdict on the mail is v.
WithVerdict(mail, rules, v) ==
  {n \in DOMAIN rules : rules[n].enabled /\ StaticVerdict(mail, rules[n]) = v}

\* The first of a set of rules in the order priority, name; the names are
\* taken to be ordered as the priorities are, which are distinct.
FirstByPriority(rules, names) ==
  CHOOSE n \in names : \A o \in names : rules[n].priority <= rules[o].priority

\* _route_after_match_rules.
AfterMatch(by) == IF by = "learned_pattern" THEN "apply_actions"
                  ELSE IF by = "ai" THEN "learn_pattern" ELSE "spam_triage"

\* Mutant: only phishing ends the run.
AfterTriage_PhishingOnly(bucket) ==
  IF bucket = "phishing-alert" THEN "end" ELSE "apply_actions"

\* _route_after_spam_triage_new.
AfterTriage(bucket) == IF bucket \in JunkBuckets THEN "end" ELSE "apply_actions"

\* _route_after_status: a reply is drafted when the thread waits for one and the
\* rule asks for it, or when no rule of that name is stored (any more).
AfterStatus(status, rule, rules) ==
  IF /\ status = "TO_REPLY"
     /\ rule \in DOMAIN rules =>
          \E i \in DOMAIN rules[rule].actions : rules[rule].actions[i] = "draft_reply"
  THEN "select_memories" ELSE "end"

------------------------------------------------------------------------------
(* Learned patterns: confidence in hundredths, as NUMERIC(3,2) keeps it.  A   *)
(* row that is not stored has no evidence.                                    *)

ActivationThreshold == 90
MinEvidence == 3
NoPattern == [confidence |-> 0, evidence |-> 0]

Larger(a, b) == IF a >= b THEN a ELSE b

Active(p) == p.confidence >= ActivationThreshold /\ p.evidence >= MinEvidence

\* record_decision: insert with the hint, or one more piece of evidence and a
\* confidence smoothed towards the hint, rounded half up by the column's type,
\* and never lowered.
Bumped(p, hint) ==
  IF p.evidence = 0 THEN [confidence |-> hint, evidence |-> 1]
  ELSE [confidence |-> Larger(p.confidence, (7 * p.confidence + 3 * hint + 5) \div 10),
        evidence   |-> p.evidence + 1]

\* decay_confidence: the confidence that is written back, or 0 when the row is
\* forgotten because seven tenths of it are below one half.
DecayedConfidence(confidence) ==
  IF 7 * confidence < 500 THEN 0 ELSE (7 * confidence + 5) \div 10

\* Mutant: blocking is as certain as trusting.
Hint_BlockAsTrust(pattern) == IF pattern = "label" THEN 85 ELSE 95

\* The confidences the observer's extractors pass on.
Hint(pattern) == CASE pattern = "trust_sender" -> 95
                   [] pattern = "block_sender" -> 90
                   [] pattern = "label"        -> 85
=============================================================================
