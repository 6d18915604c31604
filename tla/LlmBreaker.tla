----------------------------- MODULE LlmBreaker -----------------------------
(***************************************************************************)
(* The circuit breaker that every model call of the sentinel process goes  *)
(* through: structured_call asks should_skip, tries its models, and tells  *)
(* the breaker of a success or of one failure.  The breaker is shared by   *)
(* the threads of the pipelines and has no lock: a failure is counted by   *)
(* reading and writing the counter, then the counter is read again and     *)
(* compared with the threshold.                                            *)
(***************************************************************************)
EXTENDS Integers, FiniteSets

CONSTANTS ModelThreads,  \* the threads that call models
          Threshold,     \* failure_threshold
          MaxCalls       \* model calls, in all
ASSUME BreakerAssumption == Threshold \in Nat \ {0} /\ MaxCalls \in Nat

VARIABLES
  failures,  \* _consecutive_failures
  window,    \* _opened_at: "unset" (0.0), or a cool-off that is "running" or "over"
  stage,     \* [ModelThreads -> step of the call]
  seen,      \* the counter as each caller has read it
  raced,     \* ghost: whether two callers were inside the breaker at the same
             \* time since it was last reset
  calls      \* model calls so far

bvars == <<failures, window, stage, seen, raced, calls>>

BInit ==
  /\ failures = 0 /\ window = "unset"
  /\ stage = [c \in ModelThreads |-> "idle"] /\ seen = [c \in ModelThreads |-> 0]
  /\ raced = FALSE /\ calls = 0

\* A caller takes its next step; two that are inside record_failure or
\* record_success at once race.
Inside(o) == stage[o] \in {"reset", "counted", "stored"}
StepsTo(c, step) ==
  /\ stage' = [stage EXCEPT ![c] = step]
  /\ raced' = (raced \/ (step = "counted" /\ \E o \in ModelThreads \ {c} : Inside(o)))

\* should_skip: below the threshold, or the cool-off is over or was never set.
Allowed == failures < Threshold \/ window # "running"

\* structured_call begins, or raises LLMCircuitOpen, which changes nothing.
Begin(c) ==
  /\ stage[c] = "idle" /\ calls < MaxCalls /\ Allowed
  /\ calls' = calls + 1
  /\ StepsTo(c, "calling")
  /\ UNCHANGED <<failures, window, seen>>

\* One of the models answers.
Succeed(c) ==
  /\ stage[c] = "calling" /\ StepsTo(c, "succeeded")
  /\ UNCHANGED <<failures, window, seen, calls>>

\* record_success: the counter, then the time.
ResetCounter(c) ==
  /\ stage[c] = "succeeded" /\ stage' = [stage EXCEPT ![c] = "reset"]
  /\ failures' = 0
  /\ raced' = \E o \in ModelThreads \ {c} : Inside(o)
  /\ UNCHANGED <<window, seen, calls>>
ResetWindow(c) ==
  /\ stage[c] = "reset" /\ StepsTo(c, "idle")
  /\ window' = "unset"
  /\ UNCHANGED <<failures, seen, calls>>

\* Every model of the tier has failed; record_failure reads the counter.
Fail(c) ==
  /\ stage[c] = "calling" /\ StepsTo(c, "counted")
  /\ seen' = [seen EXCEPT ![c] = failures]
  /\ UNCHANGED <<failures, window, calls>>

\* It writes the counter ...
Count(c) ==
  /\ stage[c] = "counted" /\ StepsTo(c, "stored")
  /\ failures' = seen[c] + 1
  /\ UNCHANGED <<window, seen, calls>>

\* Mutant: the failure at the threshold itself does not count.
AtThreshold_Above == failures > Threshold

\* ... and opens the breaker if the counter is exactly the threshold.
AtThreshold == failures = Threshold

Compare(c) ==
  /\ stage[c] = "stored" /\ StepsTo(c, "idle")
  /\ window' = IF AtThreshold THEN "running" ELSE window
  /\ UNCHANGED <<failures, seen, calls>>

\* cool_off_s passes.
CoolOff ==
  /\ window = "running" /\ window' = "over"
  /\ UNCHANGED <<failures, stage, seen, raced, calls>>

BNext ==
  \/ \E c \in ModelThreads :
       \/ Begin(c) \/ Succeed(c) \/ ResetCounter(c) \/ ResetWindow(c)
       \/ Fail(c) \/ Count(c) \/ Compare(c)
  \/ CoolOff

BSpec == BInit /\ [][BNext]_bvars

------------------------------------------------------------------------------

\* The types of the variables.
BTypeOK ==
  /\ failures \in 0..MaxCalls /\ window \in {"unset", "running", "over"}
  /\ stage \in [ModelThreads -> {"idle", "calling", "succeeded", "reset", "counted", "stored"}]
  /\ seen \in [ModelThreads -> 0..MaxCalls]
  /\ raced \in BOOLEAN /\ calls \in 0..MaxCalls

\* With the threshold reached, the breaker has been opened, unless the counting is
\* still under way or two threads were in it at once: one of them may then step
\* over the threshold without either seeing it (robustness.py record_failure).
OpensOrRaced ==
  (failures >= Threshold /\ window = "unset") =>
    (raced \/ \E c \in ModelThreads : stage[c] = "stored")
=============================================================================
