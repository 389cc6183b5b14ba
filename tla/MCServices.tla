----------------------------- MODULE MCServices -----------------------------
(***************************************************************************)
(* The small instance of the four components that share no state with one  *)
(* another: the contacts, the settings, the live board, and the plan of a  *)
(* campaign.  A behaviour is of one of them, the focus; the others rest.   *)
(*                                                                         *)
(* The plan is made of counts below, at and above each of the two limits,  *)
(* and with every window within steps 1 to 4 of a day of six.              *)
(***************************************************************************)
EXTENDS ContactMatching, SettingsCache, LiveBoard, CampaignPlan

SmallCounts == 0..3
SmallLimits == 1..2

Earliest == 1
Latest == 4
AllWindows == {w \in [start : Earliest..Latest, end : Earliest..Latest] : w.start < w.end}

VARIABLE focus

vars == <<contactVars, settingsVars, boardVars, planVars, focus>>

ContactsRest ==
  /\ contact = [id \in ContactIds |-> Unused]
  /\ \A c \in Callers : caller[c].number = Canonical
  /\ \A e \in Editors : editor[e].number = Canonical

SettingsRest ==
  /\ stored = [k \in Keys |-> Default]
  /\ \A c \in Clients : client[c].wants = "read" /\ client[c].value = Default

NoInput ==
  [status |-> "draft", telephonyRunning |-> FALSE, openNow |-> FALSE,
   campaignConcurrency |-> 1, platformConcurrency |-> 1,
   openLeads |-> 0, pendingReachable |-> 0, dueReachable |-> 0,
   campaignInFlight |-> 0, platformInFlight |-> 0]

PlanRests ==
  /\ in = NoInput /\ plan = NoPlan
  /\ window = [start |-> Earliest, end |-> Latest] /\ at = 0 /\ wait = 0

\* One initial state of a component is enough at rest.
Init ==
  /\ focus \in {"contacts", "settings", "board", "plan"}
  /\ ContactInit /\ (focus # "contacts" => ContactsRest)
  /\ SettingsInit /\ (focus # "settings" => SettingsRest)
  /\ BoardInit
  /\ IF focus = "plan" THEN PlanInit ELSE PlanRests

Next ==
  \/ /\ focus = "contacts" /\ ContactNext
     /\ UNCHANGED <<settingsVars, boardVars, planVars, focus>>
  \/ /\ focus = "settings" /\ SettingsNext
     /\ UNCHANGED <<contactVars, boardVars, planVars, focus>>
  \/ /\ focus = "board" /\ BoardNext
     /\ UNCHANGED <<contactVars, settingsVars, planVars, focus>>
  \/ /\ focus = "plan" /\ Decide
     /\ UNCHANGED <<contactVars, settingsVars, boardVars, focus>>

Spec == Init /\ [][Next]_vars /\ (focus = "board" => BoardFairness)
=============================================================================
