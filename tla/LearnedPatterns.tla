--------------------------- MODULE LearnedPatterns ---------------------------
(***************************************************************************)
(* The rows of mail_sentinel_learned_pattern of one sender: evidence and   *)
(* confidence rise with what the observer sees, and the weekly health      *)
(* check of the sentinel process, which asks a model about the patterns    *)
(* that are active, confirms a row or takes three tenths of its confidence *)
(* away.  The check reads a row in one transaction, waits for the model,   *)
(* reads it again and writes it in a third, while evidence goes on being   *)
(* counted and the owner may forget the row.                               *)
(***************************************************************************)
EXTENDS MailSieve

CONSTANT MaxEvidence  \* bound of evidence_count
ASSUME MaxEvidenceAssumption == MaxEvidence \in Nat /\ MaxEvidence >= MinEvidence

PatternNames == {"trust_sender", "block_sender", "label"}

VARIABLES
  stored,  \* [PatternNames -> pattern]; NoPattern when there is no such row
  check    \* the health check: its phase, the pattern, the confidence it read

pvars == <<stored, check>>

NoCheck == [phase |-> "idle", name |-> "label", read |-> 0]
Confidences == 0..100
Rows == [confidence : Confidences, evidence : 0..MaxEvidence]

PInit ==
  /\ stored = [n \in PatternNames |-> NoPattern]
  /\ check = NoCheck

\* record_decision, one statement; the observer's extractors give the hint.
Record(n) ==
  /\ stored[n].evidence < MaxEvidence
  /\ stored' = [stored EXCEPT ![n] = Bumped(@, Hint(n))]
  /\ UNCHANGED check

\* DELETE /learned-patterns/{sender}/{rule}.
Forget(n) ==
  /\ stored' = [stored EXCEPT ![n] = NoPattern]
  /\ UNCHANGED check

\* run_pattern_health_check takes the next pattern of list_active_stale and asks
\* the model, which answers later.
Judge(n) ==
  /\ check.phase = "idle" /\ Active(stored[n])
  /\ check' = [check EXCEPT !.phase = "asked", !.name = n]
  /\ UNCHANGED stored

\* No recent mail, no answer, or mark_confirmed, which only sets last_confirmed.
Confirm ==
  /\ check.phase = "asked"
  /\ check' = NoCheck
  /\ UNCHANGED stored

\* decay_confidence, first transaction: whatever the row says by now, or no row.
ReadToDecay ==
  /\ check.phase = "asked"
  /\ check' = IF stored[check.name] = NoPattern THEN NoCheck
              ELSE [check EXCEPT !.phase = "read", !.read = stored[check.name].confidence]
  /\ UNCHANGED stored

\* Second transaction: DELETE below one half, else UPDATE with the value computed
\* from the confidence that was read, if the row is still there.
WriteDecayed ==
  /\ check.phase = "read"
  /\ LET n == check.name
         c == DecayedConfidence(check.read)
     IN IF c = 0 \/ stored[n] = NoPattern
        THEN stored' = [stored EXCEPT ![n] = NoPattern]
        ELSE stored' = [stored EXCEPT ![n].confidence = c]
  /\ check' = NoCheck

PNext ==
  \/ \E n \in PatternNames : Record(n) \/ Forget(n) \/ Judge(n)
  \/ Confirm \/ ReadToDecay \/ WriteDecayed

PSpec == PInit /\ [][PNext]_pvars

------------------------------------------------------------------------------

\* The types of the variables.
PTypeOK ==
  /\ stored \in [PatternNames -> Rows]
  /\ check \in [phase : {"idle", "asked", "read"}, name : PatternNames, read : Confidences]

\* When both are active, by_sender answers trust_sender or finds a tie: no amount of
\* marking as spam makes block_sender prevail over a trust that is well established.
TrustOutranksBlock ==
  (Active(stored["trust_sender"]) /\ Active(stored["block_sender"])) =>
    stored["trust_sender"].confidence >= stored["block_sender"].confidence
=============================================================================
