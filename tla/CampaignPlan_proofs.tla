------------------------ MODULE CampaignPlan_proofs ------------------------
(***************************************************************************)
(* The decision of a tick, for every input: any counts, any limits, any    *)
(* window and any length of the day.                                       *)
(***************************************************************************)
EXTENDS CampaignPlan, TLAPS

(* The first refusal.                                                      *)

InputType ==
  [status : CampaignStatus, telephonyRunning : BOOLEAN, openNow : BOOLEAN,
   campaignConcurrency : Nat \ {0}, platformConcurrency : Nat \ {0},
   openLeads : Nat, pendingReachable : Nat, dueReachable : Nat,
   campaignInFlight : Nat, platformInFlight : Nat]

First(holding) == CHOOSE i \in holding : \A j \in holding : i <= j

LEMMA FirstIsLeast ==
  ASSUME NEW holding \in SUBSET (1..8), NEW k \in holding,
         \A j \in holding : k <= j
  PROVE  First(holding) = k
  <1>1. First(holding) \in holding /\ \A j \in holding : First(holding) <= j
    BY DEF First
  <1>2. First(holding) \in 1..8 /\ k \in 1..8
    BY <1>1
  <1>3. First(holding) <= k /\ k <= First(holding)
    BY <1>1
  <1> QED
    BY <1>2, <1>3

LEMMA FirstExists ==
  ASSUME NEW holding \in SUBSET (1..8), holding # {}
  PROVE  First(holding) \in holding /\ \A j \in holding : First(holding) <= j
  <1>1. \E i \in holding : \A j \in holding : i <= j
    <2>1. CASE 1 \in holding  BY <2>1
    <2>2. CASE 1 \notin holding /\ 2 \in holding  BY <2>2
    <2>3. CASE holding \cap 1..2 = {} /\ 3 \in holding  BY <2>3
    <2>4. CASE holding \cap 1..3 = {} /\ 4 \in holding  BY <2>4
    <2>5. CASE holding \cap 1..4 = {} /\ 5 \in holding  BY <2>5
    <2>6. CASE holding \cap 1..5 = {} /\ 6 \in holding  BY <2>6
    <2>7. CASE holding \cap 1..6 = {} /\ 7 \in holding  BY <2>7
    <2>8. CASE holding \cap 1..7 = {}
      <3>1. \A j \in holding : j = 8
        BY <2>8
      <3>2. 8 \in holding
        BY <3>1
      <3> QED
        BY <3>1, <3>2
    <2> QED
      BY <2>1, <2>2, <2>3, <2>4, <2>5, <2>6, <2>7, <2>8
  <1> QED
    BY <1>1 DEF First

Holding(i) == {k \in 1..8 : Refusals(i)[k].holds}

LEMMA HoldingOf ==
  ASSUME NEW i \in InputType
  PROVE  /\ Holding(i) \in SUBSET (1..8)
         /\ 1 \in Holding(i) <=> i.status # "running"
         /\ 2 \in Holding(i) <=> ~i.telephonyRunning
         /\ 3 \in Holding(i) <=> i.openLeads = 0
         /\ 4 \in Holding(i) <=> i.pendingReachable = 0 /\ i.campaignInFlight = 0
         /\ 5 \in Holding(i) <=> ~i.openNow
         /\ 6 \in Holding(i) <=> i.dueReachable = 0
         /\ 7 \in Holding(i) <=> CampaignSlots(i) <= 0
         /\ 8 \in Holding(i) <=> PlatformSlots(i) <= 0
  <1>1. \A k \in 1..8 : k \in Holding(i) <=> Refusals(i)[k].holds
    BY DEF Holding
  <1>2. /\ Refusals(i)[1].holds <=> i.status # "running"
        /\ Refusals(i)[2].holds <=> ~i.telephonyRunning
        /\ Refusals(i)[3].holds <=> i.openLeads = 0
        /\ Refusals(i)[4].holds <=> i.pendingReachable = 0 /\ i.campaignInFlight = 0
        /\ Refusals(i)[5].holds <=> ~i.openNow
        /\ Refusals(i)[6].holds <=> i.dueReachable = 0
        /\ Refusals(i)[7].holds <=> CampaignSlots(i) <= 0
        /\ Refusals(i)[8].holds <=> PlatformSlots(i) <= 0
    BY DEF Refusals
  <1>3. Holding(i) \in SUBSET (1..8)
    BY DEF Holding
  <1> QED
    BY <1>1, <1>2, <1>3

LEMMA PlanOf ==
  ASSUME NEW i \in InputType
  PROVE  LET p == PlanCampaignTick(i)
         IN /\ Holding(i) = {} =>
                 /\ ~p.halt
                 /\ p.dial = Lesser(i.dueReachable, Lesser(CampaignSlots(i), PlatformSlots(i)))
            /\ Holding(i) # {} =>
                 /\ p.dial = 0
                 /\ p.halt <=> First(Holding(i)) = 4
  <1>1. CASE Holding(i) = {}
    BY <1>1 DEF PlanCampaignTick, Holding
  <1>2. CASE Holding(i) # {}
    <2>1. First(Holding(i)) \in 1..8
      BY <1>2, HoldingOf, FirstExists
    <2>2. Refusals(i)[First(Holding(i))].reason = "no_reachable_leads" <=> First(Holding(i)) = 4
      BY <2>1 DEF Refusals
    <2> QED
      BY <1>2, <2>2 DEF PlanCampaignTick, Holding, First
  <1> QED
    BY <1>1, <1>2

(* What a decided tick has decided.                                        *)

Told == [in EXCEPT !.openNow = IsWithinWindow(window, at)]

Given == in \in Inputs /\ window \in Windows /\ at \in TimesOfDay

PlanInv ==
  /\ Given
  /\ Decided => plan = PlanCampaignTick(Told) /\ wait = MinutesUntilOpen(window, at)

LEMMA PlanInvHolds == PlanSpec => []PlanInv
  <1>1. PlanInit => PlanInv
    BY DEF PlanInit, PlanInv, Given, Decided
  <1>2. PlanInv /\ [Decide]_planVars => PlanInv'
    BY DEF PlanInv, Given, Decided, Told, Decide, planVars
  <1> QED
    BY <1>1, <1>2, PTL DEF PlanSpec

LEMMA ToldType ==
  ASSUME Given
  PROVE  /\ Told \in InputType
         /\ Told.openNow = IsWithinWindow(window, at)
         /\ \A f \in {"status", "telephonyRunning", "campaignConcurrency",
                       "platformConcurrency", "openLeads", "pendingReachable",
                       "dueReachable", "campaignInFlight", "platformInFlight"} :
              Told[f] = in[f]
         /\ in.dueReachable <= in.pendingReachable
         /\ in.pendingReachable <= in.openLeads
  <1>1. /\ in \in [status : CampaignStatus, telephonyRunning : BOOLEAN, openNow : {FALSE},
                   campaignConcurrency : Limits, platformConcurrency : Limits,
                   openLeads : Counts, pendingReachable : Counts, dueReachable : Counts,
                   campaignInFlight : Counts, platformInFlight : Counts]
        /\ in.dueReachable <= in.pendingReachable
        /\ in.pendingReachable <= in.openLeads
    BY DEF Given, Inputs
  <1>2. IsWithinWindow(window, at) \in BOOLEAN
    BY DEF IsWithinWindow
  <1> QED
    BY <1>1, <1>2, CountsAssumption DEF Told, InputType

\* planCampaignTick places as many calls as its comment allows, for every input.
THEOREM DialIsGreatest == PlanSpec => []PlanIsGreatest
  <1>1. ASSUME PlanInv, Decided
        PROVE  MayPlace(plan.dial) /\ ~MayPlace(plan.dial + 1)
    <2> DEFINE i == Told
    <2>1. i \in InputType /\ plan = PlanCampaignTick(i)
      BY <1>1, ToldType DEF PlanInv
    <2>2. /\ i.openNow = IsWithinWindow(window, at)
          /\ i.status = in.status /\ i.telephonyRunning = in.telephonyRunning
          /\ i.campaignConcurrency = in.campaignConcurrency
          /\ i.platformConcurrency = in.platformConcurrency
          /\ i.openLeads = in.openLeads /\ i.pendingReachable = in.pendingReachable
          /\ i.dueReachable = in.dueReachable
          /\ i.campaignInFlight = in.campaignInFlight
          /\ i.platformInFlight = in.platformInFlight
          /\ in.dueReachable <= in.pendingReachable
          /\ in.pendingReachable <= in.openLeads
      BY <1>1, ToldType DEF PlanInv
    <2>3. CASE Holding(i) = {}
      <3>1. plan.dial = Lesser(i.dueReachable, Lesser(CampaignSlots(i), PlatformSlots(i)))
        BY <2>1, <2>3, PlanOf
      <3>2. /\ in.status = "running" /\ in.telephonyRunning /\ IsWithinWindow(window, at)
            /\ in.dueReachable # 0 /\ ~(CampaignSlots(i) <= 0) /\ ~(PlatformSlots(i) <= 0)
        BY <2>1, <2>2, <2>3, HoldingOf
      <3> HIDE DEF i
      <3> QED
        BY <2>1, <2>2, <3>1, <3>2 DEF MayPlace, Lesser, CampaignSlots, PlatformSlots, InputType
    <2>4. CASE Holding(i) # {}
      <3>1. plan.dial = 0
        BY <2>1, <2>4, PlanOf
      <3>2. \/ in.status # "running" \/ ~in.telephonyRunning \/ in.openLeads = 0
            \/ in.pendingReachable = 0 \/ ~IsWithinWindow(window, at) \/ in.dueReachable = 0
            \/ CampaignSlots(i) <= 0 \/ PlatformSlots(i) <= 0
        <4>1. PICK k \in 1..8 : k \in Holding(i)
          BY <2>1, <2>4, HoldingOf
        <4>2. k = 1 \/ k = 2 \/ k = 3 \/ k = 4 \/ k = 5 \/ k = 6 \/ k = 7 \/ k = 8
          BY <4>1
        <4> HIDE DEF i
        <4> QED
          BY <2>1, <2>2, <4>1, <4>2, HoldingOf
      <3> HIDE DEF i
      <3> QED
        BY <2>1, <2>2, <3>1, <3>2 DEF MayPlace, CampaignSlots, PlatformSlots, InputType
    <2> QED
      BY <2>3, <2>4
  <1>2. PlanInv => PlanIsGreatest
    BY <1>1 DEF PlanIsGreatest
  <1> QED
    BY <1>2, PlanInvHolds, PTL

\* A campaign is halted exactly when it is stuck, for every input.
THEOREM HaltsOnlyStuck == PlanSpec => []HaltIsStuck
  <1>1. ASSUME PlanInv, Decided
        PROVE  plan.halt <=> /\ in.status = "running" /\ in.telephonyRunning
                             /\ in.openLeads > 0
                             /\ in.pendingReachable = 0 /\ in.campaignInFlight = 0
    <2> DEFINE i == Told
               H == Holding(i)
    <2>1. i \in InputType /\ plan = PlanCampaignTick(i)
      BY <1>1, ToldType DEF PlanInv
    <2>2. /\ i.status = in.status /\ i.telephonyRunning = in.telephonyRunning
          /\ i.openLeads = in.openLeads /\ i.pendingReachable = in.pendingReachable
          /\ i.campaignInFlight = in.campaignInFlight
      BY <1>1, ToldType DEF PlanInv
    <2>3. /\ H \in SUBSET (1..8)
          /\ 1 \in H <=> in.status # "running"
          /\ 2 \in H <=> ~in.telephonyRunning
          /\ 3 \in H <=> in.openLeads = 0
          /\ 4 \in H <=> in.pendingReachable = 0 /\ in.campaignInFlight = 0
      BY <2>1, <2>2, HoldingOf
    <2>4. plan.halt <=> H # {} /\ First(H) = 4
      BY <2>1, PlanOf
    <2>5. in.openLeads \in Nat
      BY <2>1, <2>2 DEF InputType
    <2> HIDE DEF H
    <2>6. (H # {} /\ First(H) = 4) <=> 4 \in H /\ 1 \notin H /\ 2 \notin H /\ 3 \notin H
      <3>1. ASSUME 4 \in H, 1 \notin H, 2 \notin H, 3 \notin H
            PROVE  First(H) = 4
        <4>1. \A j \in H : 4 <= j
          BY <2>3, <3>1
        <4> QED
          BY <2>3, <3>1, <4>1, FirstIsLeast
      <3>2. ASSUME H # {}, First(H) = 4
            PROVE  4 \in H /\ 1 \notin H /\ 2 \notin H /\ 3 \notin H
        <4>1. First(H) \in H /\ \A j \in H : First(H) <= j
          BY <2>3, <3>2, FirstExists
        <4> QED
          BY <3>2, <4>1
      <3> QED
        BY <3>1, <3>2
    <2> QED
      BY <2>3, <2>4, <2>5, <2>6
  <1>2. PlanInv => HaltIsStuck
    BY <1>1 DEF HaltIsStuck
  <1> QED
    BY <1>2, PlanInvHolds, PTL

(* The wait until the window opens.                                        *)

LEMMA WithinTheDay ==
  ASSUME NEW d \in Nat \ {0}, NEW x \in Int, 0 <= x, x < d
  PROVE  x % d = x /\ (x + d) % d = x
  OBVIOUS

\* The wait is exact, for every window and every time of any day.
THEOREM WaitIsTold == PlanSpec => []WaitIsExact
  <1>1. ASSUME PlanInv, Decided
        PROVE  /\ IsWithinWindow(window, (at + wait) % MinutesPerDay)
               /\ \A m \in 0..(wait - 1) : ~IsWithinWindow(window, (at + m) % MinutesPerDay)
    <2> DEFINE d == MinutesPerDay
               s == window.start
               e == window.end
    <2>1. /\ d \in Nat \ {0} /\ at \in 0..(d - 1)
          /\ s \in 0..(d - 1) /\ e \in 0..(d - 1) /\ s < e
      BY <1>1, WindowAssumption DEF PlanInv, Given, TimesOfDay
    <2>2. wait = MinutesUntilOpen(window, at)
      BY <1>1 DEF PlanInv
    <2>3. \A t : IsWithinWindow(window, t) <=> s <= t /\ t < e
      BY DEF IsWithinWindow
    <2> HIDE DEF d, s, e
    <2>4. CASE s <= at /\ at < e
      <3>1. wait = 0
        BY <2>2, <2>3, <2>4 DEF MinutesUntilOpen
      <3>2. at % d = at
        BY <2>1, WithinTheDay
      <3> QED
        BY <2>1, <2>3, <2>4, <3>1, <3>2 DEF d
    <2>5. CASE at < s
      <3>1. wait = s - at
        BY <2>1, <2>2, <2>3, <2>5 DEF MinutesUntilOpen, s
      <3>2. \A m \in 0..wait : (at + m) % d = at + m
        BY <2>1, <2>5, <3>1, WithinTheDay
      <3> QED
        BY <2>1, <2>3, <2>5, <3>1, <3>2 DEF d
    <2>6. CASE e <= at
      <3>1. wait = (d - at) + s
        BY <2>1, <2>2, <2>3, <2>6 DEF MinutesUntilOpen, s, d
      <3>2. \A m \in 0..wait : (at + m) % d = IF at + m < d THEN at + m ELSE at + m - d
        <4>1. SUFFICES ASSUME NEW m \in 0..wait
                       PROVE  (at + m) % d = IF at + m < d THEN at + m ELSE at + m - d
          OBVIOUS
        <4>2. CASE at + m < d
          BY <2>1, <3>1, <4>2, WithinTheDay
        <4>3. CASE ~(at + m < d)
          <5>1. (at + m - d) \in Int /\ 0 <= at + m - d /\ at + m - d < d
            BY <2>1, <3>1, <4>3
          <5>2. ((at + m - d) + d) % d = at + m - d
            BY <2>1, <5>1, WithinTheDay
          <5> QED
            BY <2>1, <3>1, <4>3, <5>2
        <4> QED
          BY <4>2, <4>3
      <3> QED
        BY <2>1, <2>3, <2>6, <3>1, <3>2 DEF d
    <2> QED
      BY <2>1, <2>4, <2>5, <2>6
  <1>2. PlanInv => WaitIsExact
    BY <1>1 DEF WaitIsExact
  <1> QED
    BY <1>2, PlanInvHolds, PTL
=============================================================================
