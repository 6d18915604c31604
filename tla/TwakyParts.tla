------------------------------ MODULE TwakyParts ------------------------------
(***************************************************************************)
(* The parts of Twaky that are modelled on their own, for one run of TLC:  *)
(* in a behaviour only the part "part" moves and the others stay as they   *)
(* started, so the states are those of the parts one after the other.      *)
(* This is no composition: what the parts take from each other is          *)
(* nondeterminism inside each of them.  The properties are those of the    *)
(* modules.                                                                *)
(***************************************************************************)
EXTENDS MailLearning, LearnedPatterns, MailPipeline, LlmBreaker, OAuthRefresh,
        ConfigCache, EventGraph, MissionNotices

VARIABLE part  \* the part that moves

\* Mails that take every way through the triage: nothing at all, a rule's
\* condition, a newsletter, no DKIM with another return path, spam for the server,
\* a brand with urgency, a pitch, a foreign brand in a reply.
Sample(marks, rspamd, score, brand, hits) ==
  [marks |-> marks, rspamd |-> rspamd, score |-> score, brand |-> brand, hits |-> hits]
Plain == Sample({"dkim"}, "no action", 0, "none", {})
SampleMails ==
  {Plain,
   Sample({"dkim"}, "no action", 0, "none", {"c"}),
   Sample({"dkim", "list_unsubscribe"}, "none", 1, "none", {}),
   Sample({"return_path_mismatch"}, "none", 0, "none", {}),
   Sample({"dkim"}, "reject", 9, "none", {"c"}),
   Sample({"dkim", "urgency"}, "no action", 0, "own", {"c"}),
   Sample({"dkim", "pitch"}, "no action", 0, "none", {}),
   Sample({"dkim", "names_owner", "is_reply"}, "greylist", 4, "foreign", {})}

\* One rule with a condition, one that is for the model to choose.
OwnerRules ==
  [static |-> [conditions |-> {"c"}, combinator |-> "AND", enabled |-> TRUE,
               priority |-> 1, actions |-> <<"archive", "notify">>],
   open   |-> [conditions |-> {}, combinator |-> "OR", enabled |-> TRUE,
               priority |-> 2, actions |-> <<"label:Y", "delegate_to_atlas", "draft_reply">>]]

Parts == {"learning", "patterns", "pipeline", "breaker", "tokens", "config", "graph",
          "notices"}

TInit ==
  /\ part \in Parts
  /\ LInit /\ PInit /\ MInit /\ BInit /\ OInit /\ CInit /\ GInit /\ NInit
  /\ part # "pipeline" => mail = Plain /\ keywords = {} /\ filter /\ pattern = "none"
  /\ part # "config" => kind = "agent"

TNext ==
  \/ /\ part = "learning" /\ LNext
     /\ UNCHANGED <<part, pvars, mvars, bvars, ovars, cvars, gvars, nvars>>
  \/ /\ part = "patterns" /\ PNext
     /\ UNCHANGED <<part, lvars, mvars, bvars, ovars, cvars, gvars, nvars>>
  \/ /\ part = "pipeline" /\ MNext
     /\ UNCHANGED <<part, lvars, pvars, bvars, ovars, cvars, gvars, nvars>>
  \/ /\ part = "breaker" /\ BNext
     /\ UNCHANGED <<part, lvars, pvars, mvars, ovars, cvars, gvars, nvars>>
  \/ /\ part = "tokens" /\ ONext
     /\ UNCHANGED <<part, lvars, pvars, mvars, bvars, cvars, gvars, nvars>>
  \/ /\ part = "config" /\ CNext
     /\ UNCHANGED <<part, lvars, pvars, mvars, bvars, ovars, gvars, nvars>>
  \/ /\ part = "graph" /\ GNext
     /\ UNCHANGED <<part, lvars, pvars, mvars, bvars, ovars, cvars, nvars>>
  \/ /\ part = "notices" /\ NNext
     /\ UNCHANGED <<part, lvars, pvars, mvars, bvars, ovars, cvars, gvars>>

tvars == <<part, lvars, pvars, mvars, bvars, ovars, cvars, gvars, nvars>>

TSpec == TInit /\ [][TNext]_tvars

------------------------------------------------------------------------------

\* The types of the variables of all parts.
PartsTypeOK ==
  /\ part \in Parts
  /\ LTypeOK /\ PTypeOK /\ MTypeOK /\ BTypeOK /\ OTypeOK /\ CTypeOK /\ GTypeOK /\ NTypeOK
=============================================================================
