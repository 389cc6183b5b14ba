--------------------------- MODULE CampaignRules ---------------------------
(***************************************************************************)
(* The pure rules of an outbound campaign: the life cycle table            *)
(* (lib/campaigns/transitions.ts), what an outcome means for the queue     *)
(* (lib/campaigns/retry.ts, outcome-map.ts) and the decision one dialer    *)
(* tick takes for one campaign (lib/campaigns/eligibility.ts).  They have  *)
(* no state, so the dialer, the operator's API and CampaignPlan all use    *)
(* the same text.                                                          *)
(***************************************************************************)
EXTENDS Integers

(* The life cycle of a campaign.                                           *)

CampaignStatus == {"draft", "running", "paused", "finished", "cancelled"}

CampaignAction == {"start", "pause", "cancel", "finish"}

Allowed ==
  [start  |-> [from |-> {"draft", "paused"},            to |-> "running"],
   pause  |-> [from |-> {"running"},                    to |-> "paused"],
   cancel |-> [from |-> {"draft", "running", "paused"}, to |-> "cancelled"],
   finish |-> [from |-> {"running", "paused"},          to |-> "finished"]]

CanTransition(status, action) == status \in Allowed[action].from

\* A finished or a cancelled campaign is history.
IsEditable(status) == status \notin {"finished", "cancelled"}

(* Outcomes.                                                               *)

CampaignOutcome ==
  {"answered", "no_answer", "busy", "invalid_number", "refused", "agreed",
   "callback_requested", "wrong_person", "do_not_call", "failed"}

RetryableOutcomes == {"no_answer", "busy", "failed"}

FinalOutcomes ==
  {"answered", "agreed", "refused", "callback_requested", "wrong_person"}

\* What a call reports, in the words of the telephony layer.
OutboundOutcome ==
  {"agreed", "call_back", "refused", "opt_out", "wrong_person", "answered",
   "voicemail", "no_answer", "busy", "invalid_number", "failed"}

\* Mutant of ToCampaignOutcome: the refusal is missing from OUTCOME_MAP.
OutcomeMapWithoutOptOut(outcome) ==
  CASE outcome = "voicemail" -> "no_answer"
    [] outcome = "call_back" -> "callback_requested"
    [] OTHER                 -> outcome

ToCampaignOutcome(outcome) ==
  CASE outcome = "opt_out"   -> "do_not_call"
    [] outcome = "voicemail" -> "no_answer"
    [] outcome = "call_back" -> "callback_requested"
    [] OTHER                 -> outcome

LeadStatus == {"pending", "calling", "done", "failed", "skipped"}

OpenLeadStatus == {"pending", "calling"}

\* The lead's next status.  attempts includes the attempt that produced outcome.
RetryStatus(outcome, attempts, maxAttempts) ==
  CASE outcome = "do_not_call"    -> "skipped"
    [] outcome = "invalid_number" -> "failed"
    [] outcome \in FinalOutcomes  -> "done"
    [] OTHER -> IF attempts < maxAttempts THEN "pending" ELSE "failed"

(***************************************************************************)
(* One tick of one campaign.  The input is a record of what the dialer     *)
(* counted; the checks are in the order of the code, and the order is part *)
(* of the rule: an unreachable campaign is halted whatever the window, and *)
(* an empty one is never reported as unreachable.                          *)
(***************************************************************************)
Lesser(a, b) == IF a < b THEN a ELSE b

CampaignSlots(in) == in.campaignConcurrency - in.campaignInFlight

\* Mutant of PlatformSlots: the platform's ceiling is compared with this campaign's calls.
SlotsBesideCampaign(in) == in.platformConcurrency - in.campaignInFlight

PlatformSlots(in) == in.platformConcurrency - in.platformInFlight

\* Mutant of Refusals: the halt is looked for before the empty queue.
HaltBeforeEmpty(in) ==
  << [reason |-> "campaign_not_running", holds |-> in.status # "running"],
     [reason |-> "telephony_down",       holds |-> ~in.telephonyRunning],
     [reason |-> "no_reachable_leads",   holds |-> /\ in.pendingReachable = 0
                                                   /\ in.campaignInFlight = 0],
     [reason |-> "queue_empty",          holds |-> in.openLeads = 0],
     [reason |-> "window_closed",        holds |-> ~in.openNow],
     [reason |-> "nothing_due",          holds |-> in.dueReachable = 0],
     [reason |-> "campaign_concurrency", holds |-> CampaignSlots(in) <= 0],
     [reason |-> "platform_concurrency", holds |-> PlatformSlots(in) <= 0] >>

\* Why a tick may place no call, in the order the reasons are looked at.
Refusals(in) ==
  << [reason |-> "campaign_not_running", holds |-> in.status # "running"],
     [reason |-> "telephony_down",       holds |-> ~in.telephonyRunning],
     [reason |-> "queue_empty",          holds |-> in.openLeads = 0],
     [reason |-> "no_reachable_leads",   holds |-> /\ in.pendingReachable = 0
                                                   /\ in.campaignInFlight = 0],
     [reason |-> "window_closed",        holds |-> ~in.openNow],
     [reason |-> "nothing_due",          holds |-> in.dueReachable = 0],
     [reason |-> "campaign_concurrency", holds |-> CampaignSlots(in) <= 0],
     [reason |-> "platform_concurrency", holds |-> PlatformSlots(in) <= 0] >>

PlanCampaignTick(in) ==
  LET refusals == Refusals(in)
      holding  == {i \in 1..8 : refusals[i].holds}
      first    == CHOOSE i \in holding : \A j \in holding : i <= j
  IN IF holding = {}
     THEN [dial    |-> Lesser(in.dueReachable,
                              Lesser(CampaignSlots(in), PlatformSlots(in))),
           blocked |-> "none",
           halt    |-> FALSE]
     ELSE [dial    |-> 0,
           blocked |-> refusals[first].reason,
           halt    |-> refusals[first].reason = "no_reachable_leads"]
=============================================================================
