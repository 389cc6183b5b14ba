--------------------------- MODULE CampaignPlan ---------------------------
(***************************************************************************)
(* The decision of one tick for one campaign: the calling window           *)
(* (lib/campaigns/window.ts) and planCampaignTick                          *)
(* (lib/campaigns/eligibility.ts), against what their comments say they    *)
(* decide.  The code is a list of early returns whose order is part of the *)
(* rule; the properties are statements about the result.  A time of day is *)
(* the number of its minute: HH:MM strings are zero-padded, so they        *)
(* compare as these numbers do.                                            *)
(***************************************************************************)
EXTENDS CampaignRules

CONSTANTS
  Counts,         \* how many leads or calls a count may return
  Limits,         \* the values of the two concurrency settings
  MinutesPerDay,
  Windows         \* the windows a campaign may have

ASSUME CountsAssumption == Counts \subseteq Nat /\ Limits \subseteq Nat \ {0}

\* call_campaigns has a CHECK that a window starts before it ends.
ASSUME WindowAssumption ==
  /\ MinutesPerDay \in Nat \ {0}
  /\ Windows \subseteq {w \in [start : 0..(MinutesPerDay - 1), end : 0..(MinutesPerDay - 1)] :
                          w.start < w.end}

VARIABLES
  in,      \* TickInput but for the window
  window,  \* the campaign's window
  at,      \* the wall clock that the tick read as it started
  plan,    \* TickPlan
  wait     \* minutesUntilOpen

planVars == <<in, window, at, plan, wait>>

TimesOfDay == 0..(MinutesPerDay - 1)

IsWithinWindow(w, t) == w.start <= t /\ t < w.end

\* Mutant of MinutesUntilOpen: the wait ends at midnight.
MinutesUntilMidnight(w, t) ==
  CASE IsWithinWindow(w, t) -> 0
    [] ~IsWithinWindow(w, t) /\ t < w.start -> w.start - t
    [] OTHER -> MinutesPerDay - t

MinutesUntilOpen(w, t) ==
  CASE IsWithinWindow(w, t) -> 0
    [] ~IsWithinWindow(w, t) /\ t < w.start -> w.start - t
    [] OTHER -> (MinutesPerDay - t) + w.start

NoPlan == [dial |-> 0, blocked |-> "undecided", halt |-> FALSE]

\* The counts are of sets that contain one another.
Inputs ==
  {i \in [status : CampaignStatus, telephonyRunning : BOOLEAN, openNow : {FALSE},
          campaignConcurrency : Limits, platformConcurrency : Limits,
          openLeads : Counts, pendingReachable : Counts, dueReachable : Counts,
          campaignInFlight : Counts, platformInFlight : Counts] :
     i.dueReachable <= i.pendingReachable /\ i.pendingReachable <= i.openLeads}

PlanInit ==
  /\ in \in Inputs
  /\ window \in Windows
  /\ at \in TimesOfDay
  /\ plan = NoPlan
  /\ wait = 0

\* tickCampaign up to its plan: describeWindow, then planCampaignTick.
Decide ==
  /\ plan = NoPlan
  /\ plan' = PlanCampaignTick([in EXCEPT !.openNow = IsWithinWindow(window, at)])
  /\ wait' = MinutesUntilOpen(window, at)
  /\ UNCHANGED <<in, window, at>>

PlanSpec == PlanInit /\ [][Decide]_planVars

Decided == plan # NoPlan

\* n calls may be placed now: the campaign runs, somebody can make the calls,
\* the hour is right, that many leads are due, and neither budget is overspent.
MayPlace(n) ==
  /\ n <= in.dueReachable
  /\ n > 0 => /\ in.status = "running" /\ in.telephonyRunning
              /\ IsWithinWindow(window, at)
              /\ n + in.campaignInFlight <= in.campaignConcurrency
              /\ n + in.platformInFlight <= in.platformConcurrency

\* The tick places as many calls as it may, and no more.
PlanIsGreatest == Decided => MayPlace(plan.dial) /\ ~MayPlace(plan.dial + 1)

\* The tick halts a campaign exactly if it runs, the telephony is up, there are
\* leads left, nothing is out and none of them can be rung; an empty queue and
\* a closed window are never taken for that.
HaltIsStuck ==
  Decided => (plan.halt <=> /\ in.status = "running" /\ in.telephonyRunning
                            /\ in.openLeads > 0
                            /\ in.pendingReachable = 0 /\ in.campaignInFlight = 0)

\* The wait the campaign page shows is exact: the window is open that many
\* minutes after the tick's now, across midnight too, and at no minute before.
WaitIsExact ==
  Decided =>
    /\ IsWithinWindow(window, (at + wait) % MinutesPerDay)
    /\ \A m \in 0..(wait - 1) : ~IsWithinWindow(window, (at + m) % MinutesPerDay)
=============================================================================
