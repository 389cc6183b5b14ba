---------------------- MODULE CampaignClaims_proofs ----------------------
(***************************************************************************)
(* The claims of CampaignDialer: who may act upon a lead.  Nothing in the  *)
(* code locks a lead while it is dialled; that one call at a time is made  *)
(* for it, that the call keeps its claim and that its attempts are counted *)
(* rests on an order: a lead that may be claimed has nobody left who works *)
(* on it, and whoever works on it reports before the claim is given back.  *)
(*                                                                         *)
(* The theorems need a calm deployment.  Each of the faults and operations *)
(* that Calm leaves out breaks one of them.                                *)
(***************************************************************************)
EXTENDS CampaignDialer_proofs

Calm ==
  /\ Faults \cap {"lost_response", "outlives_process", "outlives_horizon"} = {}
  /\ Operations \cap {"skip", "requeue", "outcome", "shutdown"} = {}

(***************************************************************************)
(* The invariant is one lead's: its row, its claim, its calls, the runs of *)
(* recordDialOutcome for it, and what the tick is doing with it.           *)
(***************************************************************************)
\* A call somebody still acts for; the line of an ended one is down, and only
\* stop() would look at it again.
Active(k) == call[k].phase \notin {"free", "ended"}

\* A call that still owes the dialer its outcome.
Unreported(k) ==
  call[k].phase \in {"parked", "ringing", "claiming", "talking"} /\ call[k].told = "no"

NobodyOwes(l) == \A k \in Calls : call[k].lead = l => ~Unreported(k)

\* No call works on the lead, and no call's outcome is being recorded for it.
Untouched(l) ==
  /\ \A k \in Calls : call[k].lead = l => ~Active(k)
  /\ \A w \in writing : w.lead = l => w.by = "dialer"

\* Claimed for an attempt that has not been made.
Unspent(l) == lead[l].status = "calling" /\ rings[l] <= lead[l].attempts

OneCallFor(l) ==
  \A j, k \in Calls :
    Active(j) /\ Active(k) /\ call[j].lead = l /\ call[k].lead = l => j = k

OwesAndHolds(l) ==
  ~NobodyOwes(l) => inFlight[l] = "open" /\ lead[l].status = "calling"

\* An outcome is recorded for one call, the lead's only one, which owes nothing
\* unless the refusal it was told is still to be reported.
WritesAreTheirs(l) ==
  \A w \in writing : w.lead = l /\ w.by # "dialer" =>
    \A k \in Calls : call[k].lead = l /\ Active(k) =>
      /\ k = w.by
      /\ call[k].phase \notin {"parked", "ringing", "claiming"}
      /\ w.pc # "asked" => ~Unreported(k)

\* The report of an abandoned dial will free it.
AbandonedIsReported(l) ==
  \A k \in Calls : call[k].lead = l /\ call[k].phase = "abandoned" =>
    /\ \E w \in writing : w.by = k /\ w.lead = l
    /\ \A w \in writing : w.by = k /\ w.lead = l => w.closes /\ w.pc # "asked"

\* What a tick may claim is nobody's, and so is what is not in the list yet.
FreeIsUntouched(l) ==
  /\ lead[l].status = "pending" /\ lead[l].due => Untouched(l)
  /\ lead[l].status = "absent" => Untouched(l) /\ \A w \in writing : w.lead # l

OutlivedIsOver(l) == l \in outlived => NobodyOwes(l)

Counted(l) ==
  /\ rings[l] <= lead[l].attempts + 1 /\ rings[l] <= Budget(l)
  /\ lead[l].status \in {"absent", "pending"} => rings[l] <= lead[l].attempts
  /\ lead[l].status \in {"absent", "pending", "calling"} => lead[l].attempts < Budget(l)

WritesCount(l) == \A w \in writing : w.lead = l /\ w.pc # "asked" => rings[l] <= w.attempts

\* The tick is past its claim; it is at work on one of the leads it claimed.
Dialling == {"dial", "place", "refuse", "undo", "originate", "response", "await", "refused"}
AtLead == Dialling \ {"dial"}

DialerWritesInTurn(l) ==
  \A w \in writing : w.by = "dialer" /\ w.lead = l =>
    /\ w.pc # "asked"
    /\ tick.pc \in {"sweep", "refuse"}
    /\ tick.pc = "refuse" => tick.lead = l
    /\ tick.pc = "sweep" => NobodyOwes(l)

\* What the tick has chosen is its own.
ChosenIsItsOwn(l) ==
  l \in tick.todo =>
    /\ tick.pc = "sweep" => NobodyOwes(l) /\ lead[l].status # "absent"
    /\ tick.pc \in Dialling => Untouched(l) /\ Unspent(l)
    /\ tick.pc \in AtLead => tick.lead # l

AtLeadIsItsOwn(l) ==
  tick.lead = l =>
    /\ tick.pc \in {"place", "refuse", "undo"} => Untouched(l) /\ Unspent(l)
    /\ tick.pc = "place" => inFlight[l] = "open" /\ l \notin outlived
    /\ tick.pc = "originate" =>
         /\ call[tick.call].phase = "parked" /\ call[tick.call].lead = l
         /\ Unspent(l)
         /\ \A w \in writing : w.lead # l
    /\ tick.pc \in {"await", "refused"} => inFlight[l] # "open" /\ NobodyOwes(l)

LeadInv(l) ==
  /\ OneCallFor(l) /\ OwesAndHolds(l) /\ WritesAreTheirs(l) /\ AbandonedIsReported(l)
  /\ FreeIsUntouched(l) /\ OutlivedIsOver(l) /\ Counted(l) /\ WritesCount(l)
  /\ DialerWritesInTurn(l) /\ ChosenIsItsOwn(l) /\ AtLeadIsItsOwn(l)

ImportIsNew == op.act # "none" => op.act = "import" /\ lead[op.lead].status = "absent"

\* Nobody but the dialer and the calls is at work, the dialer on one outcome at a
\* time, and the supervisor imports leads that are not in the list yet.  A call
\* that is over while its outcome is recorded has not been put to another lead.
Steady ==
  /\ mode = "up" /\ stopping = {}
  /\ ImportIsNew
  /\ \A w \in writing : w.by # "operator"
  /\ \A k \in Calls : call[k].phase # "orphan"
  /\ \A k \in Calls : call[k].phase = "free" => call[k].lead = None
  /\ \A k \in Calls : call[k].phase = "ending" => call[k].told # "no"
  /\ \A k \in Calls : call[k].phase \in {"parked", "ringing", "claiming"} => call[k].told = "no"
  /\ \A w \in writing : w.by \in Calls =>
       call[w.by].phase = "free" \/ call[w.by].lead = w.lead
  /\ \A v, w \in writing : v.by = "dialer" /\ w.by = "dialer" => v = w

ClaimInv == Steady /\ \A l \in Leads : LeadInv(l)

LEMMA ImportStays ==
  ASSUME ImportIsNew, Typed, UNCHANGED op,
         \A m \in Leads : lead[m].status = "absent" => lead'[m].status = "absent"
  PROVE  ImportIsNew'
BY DEF ImportIsNew, Typed, References

LEMMA ClaimsStart == ASSUME Calm, Init PROVE ClaimInv
<1> USE DEF Init, Idle
<1>1. /\ \A k \in Calls : call[k].phase = "free"
      /\ writing = {} /\ tick.pc = "idle" /\ tick.todo = {} /\ outlived = {}
  BY DEF FreeCall, IdleTick
<1>2. Steady
  BY <1>1 DEF Steady, ImportIsNew, NoOp, FreeCall
<1> SUFFICES ASSUME NEW l \in Leads PROVE LeadInv(l)
  BY <1>2 DEF ClaimInv
<1>3. /\ OneCallFor(l) /\ OwesAndHolds(l) /\ WritesAreTheirs(l) /\ AbandonedIsReported(l)
      /\ FreeIsUntouched(l) /\ OutlivedIsOver(l) /\ WritesCount(l)
      /\ DialerWritesInTurn(l) /\ ChosenIsItsOwn(l) /\ AtLeadIsItsOwn(l)
  BY <1>1 DEF OneCallFor, OwesAndHolds, WritesAreTheirs, AbandonedIsReported, FreeIsUntouched,
              OutlivedIsOver, WritesCount, DialerWritesInTurn, ChosenIsItsOwn, AtLeadIsItsOwn,
              NobodyOwes, Untouched, Active, Unreported, Dialling, AtLead
<1>4. Counted(l)
  <2>1. lead[l] \in {Row("pending", 0, TRUE), Row("absent", 0, TRUE)}
    OBVIOUS
  <2>2. Budget(l) \in Nat \ {0}
    BY ConstantsAssumption DEF Budget
  <2> QED BY <2>1, <2>2 DEF Counted, Row
<1> QED BY <1>3, <1>4 DEF LeadInv

(***************************************************************************)
(* A step that does not concern a lead.                                    *)
(***************************************************************************)
\* Its row says what it said, or the lead has been skipped in the queue.
RowKept(m) ==
  /\ lead'[m].attempts = lead[m].attempts
  /\ \/ lead'[m].status = lead[m].status /\ lead'[m].due = lead[m].due
     \/ lead[m].status = "pending" /\ lead'[m].status = "skipped"

Apart(m) ==
  /\ RowKept(m) /\ inFlight'[m] = inFlight[m] /\ rings'[m] = rings[m]
  /\ m \in outlived' => m \in outlived
  /\ \A k \in Calls : call[k].lead = m \/ call'[k].lead = m => call'[k] = call[k]
  /\ \A w \in writing : w.lead = m => w \in writing'
  /\ \A w \in writing' : w.lead = m => w \in writing

\* The tick chooses m no more than it did.
TickApart(m) ==
  /\ m \in tick'.todo =>
       /\ tick'.pc \in {"sweep"} \cup Dialling
       /\ m \in tick.todo
       /\ tick'.pc = "sweep" => tick.pc = "sweep"
       /\ tick'.pc \in Dialling => tick.pc \in Dialling
       /\ tick'.pc \in AtLead => tick'.lead # m
  /\ tick'.lead = m => tick'.pc = tick.pc /\ tick'.call = tick.call /\ tick.lead = m
  /\ \A w \in writing : w.by = "dialer" /\ w.lead = m =>
       tick'.pc = tick.pc /\ tick'.lead = tick.lead

LEMMA OthersStay ==
  ASSUME NEW m \in Leads, LeadInv(m), Typed, Apart(m), tick' = tick \/ TickApart(m)
  PROVE  LeadInv(m)'
<1> USE DEF LeadInv
<1>1. \A k \in Calls : call[k].lead = m \/ call'[k].lead = m =>
        /\ call'[k] = call[k]
        /\ Active(k)' <=> Active(k)
        /\ Unreported(k)' <=> Unreported(k)
  BY DEF Apart, Active, Unreported
<1>2. NobodyOwes(m)' <=> NobodyOwes(m)
  BY <1>1 DEF NobodyOwes
<1>3. Untouched(m)' <=> Untouched(m)
  BY <1>1 DEF Untouched, Apart
<1>4. Unspent(m)' <=> Unspent(m)
  BY DEF Unspent, Apart, RowKept
<1>5. OneCallFor(m)'
  BY <1>1 DEF OneCallFor
<1>6. OwesAndHolds(m)'
  BY <1>2 DEF OwesAndHolds, Apart, RowKept
<1>7. WritesAreTheirs(m)'
  BY <1>1 DEF WritesAreTheirs, Apart
<1>8. AbandonedIsReported(m)'
  BY <1>1 DEF AbandonedIsReported, Apart
<1>9. FreeIsUntouched(m)' /\ OutlivedIsOver(m)'
  BY <1>2, <1>3 DEF FreeIsUntouched, OutlivedIsOver, Apart, RowKept
<1>10. Counted(m)' /\ WritesCount(m)'
  BY DEF Counted, WritesCount, Apart, RowKept, Budget
<1>11. DialerWritesInTurn(m)'
  BY <1>2 DEF DialerWritesInTurn, Apart, TickApart
<1>12. ChosenIsItsOwn(m)'
  BY <1>2, <1>3, <1>4 DEF ChosenIsItsOwn, TickApart, Apart, RowKept, Dialling, AtLead
<1>13. AtLeadIsItsOwn(m)'
  <2>1. CASE tick'.lead = m
    <3>1. tick'.pc = tick.pc /\ tick'.call = tick.call /\ tick.lead = m
      BY <2>1 DEF TickApart
    <3>2. tick.pc = "originate" => tick.call \in Calls
      BY DEF Typed, References
    <3> QED BY <1>1, <1>2, <1>3, <1>4, <2>1, <3>1, <3>2 DEF AtLeadIsItsOwn, Apart
  <2> QED BY <2>1 DEF AtLeadIsItsOwn
<1> QED
  BY <1>5, <1>6, <1>7, <1>8, <1>9, <1>10, <1>11, <1>12, <1>13

(***************************************************************************)
(* The tick between two dials.                                             *)
(***************************************************************************)
\* The tick goes where it holds no lead; everything else stays.
LEMMA TickRests ==
  ASSUME ClaimInv, tick.pc \notin {"sweep", "refuse"},
         tick'.pc \notin {"sweep"} \cup Dialling,
         UNCHANGED <<lead, mode, stopping, inFlight, outlived, call, writing, op, rings>>
  PROVE  ClaimInv'
<1>1. Steady'
  BY DEF ClaimInv, Steady, ImportIsNew
<1> SUFFICES ASSUME NEW l \in Leads PROVE LeadInv(l)'
  BY <1>1 DEF ClaimInv
<1>2. LeadInv(l)
  BY DEF ClaimInv
<1>3. /\ NobodyOwes(l)' <=> NobodyOwes(l)
      /\ Untouched(l)' <=> Untouched(l)
      /\ \A k : (Active(k)' <=> Active(k)) /\ (Unreported(k)' <=> Unreported(k))
  BY DEF NobodyOwes, Untouched, Active, Unreported
<1>4. /\ OneCallFor(l)' /\ OwesAndHolds(l)' /\ WritesAreTheirs(l)' /\ AbandonedIsReported(l)'
      /\ FreeIsUntouched(l)' /\ OutlivedIsOver(l)' /\ Counted(l)' /\ WritesCount(l)'
  BY <1>2, <1>3 DEF LeadInv, OneCallFor, OwesAndHolds, WritesAreTheirs, AbandonedIsReported,
     FreeIsUntouched, OutlivedIsOver, Counted, WritesCount, Budget
<1>5. DialerWritesInTurn(l)' /\ ChosenIsItsOwn(l)' /\ AtLeadIsItsOwn(l)'
  BY <1>2 DEF LeadInv, DialerWritesInTurn, ChosenIsItsOwn, AtLeadIsItsOwn, Dialling, AtLead
<1> QED BY <1>4, <1>5 DEF LeadInv

\* What the tick does between two leads, it does to itself.
LEMMA TickMovesOn ==
  ASSUME Typed,
         \/ SelectRunning \/ (\E c \in Campaigns : CountTenantCalling(c)) \/ HaltCampaign
         \/ (\E openNow \in BOOLEAN : PlanCampaign(openNow)) \/ DialsDone \/ TickFails
  PROVE  /\ tick.pc \notin {"sweep", "refuse"}
         /\ tick'.pc \notin {"sweep"} \cup Dialling
         /\ UNCHANGED <<lead, mode, stopping, inFlight, outlived, call, writing, op, rings>>
<1>1. tick \in TickType
  BY DEF Typed, TypeOK
<1>2. CampaignDone(tick).pc \in {"idle", "count"}
  BY <1>1, CampaignDoneTyped
<1>3. IdleTick.pc = "idle"
  BY DEF IdleTick
<1> USE DEF Dialling, db, proc, ghosts
<1>4. CASE SelectRunning
  BY <1>4, <1>1, <1>3 DEF SelectRunning, TickType
<1>5. CASE \E c \in Campaigns : CountTenantCalling(c)
  BY <1>5, <1>1 DEF CountTenantCalling, TickType
<1>6. CASE HaltCampaign
  BY <1>6, <1>2 DEF HaltCampaign
<1>7. CASE \E openNow \in BOOLEAN : PlanCampaign(openNow)
  <2> PICK openNow \in BOOLEAN : PlanCampaign(openNow)
    BY <1>7
  <2> DEFINE plan == PlanCampaignTick(Counts(tick.cur, openNow))
  <2>1. \/ tick' = [tick EXCEPT !.pc = "halt"]
        \/ tick' = [tick EXCEPT !.pc = "claim", !.quota = plan.dial]
        \/ tick' = CampaignDone(tick)
    BY DEF PlanCampaign
  <2> HIDE DEF plan
  <2>2. tick'.pc \in {"halt", "claim", "count", "idle"}
    BY <2>1, <1>1, <1>2 DEF TickType
  <2> QED BY <2>2 DEF PlanCampaign
<1>8. CASE DialsDone
  BY <1>8, <1>2 DEF DialsDone
<1>9. CASE TickFails
  BY <1>9, <1>3 DEF TickFails
<1> QED BY <1>4, <1>5, <1>6, <1>7, <1>8, <1>9

LEMMA TickReads ==
  ASSUME ClaimInv, Typed,
         \/ SelectRunning \/ (\E c \in Campaigns : CountTenantCalling(c)) \/ HaltCampaign
         \/ (\E openNow \in BOOLEAN : PlanCampaign(openNow)) \/ DialsDone \/ TickFails
  PROVE  ClaimInv'
BY TickMovesOn, TickRests

\* The sweep takes claims that the process does not hold, so nobody owes for them.
LEMMA SweepStarts ==
  ASSUME ClaimInv, Typed, StartTick
  PROVE  ClaimInv'
<1> USE DEF StartTick, db, proc, ghosts
<1>1. Steady'
  BY DEF ClaimInv, Steady, ImportIsNew
<1>2. tick' = [IdleTick EXCEPT !.pc = IF AbandonedClaims = {} THEN "select" ELSE "sweep",
                               !.todo = AbandonedClaims]
  OBVIOUS
<1>3. tick'.todo = AbandonedClaims /\ tick'.lead = None /\ tick'.pc \in {"select", "sweep"}
  BY <1>2 DEF IdleTick
<1> SUFFICES ASSUME NEW l \in Leads PROVE LeadInv(l)'
  BY <1>1 DEF ClaimInv
<1>4. LeadInv(l)
  BY DEF ClaimInv
<1>5. /\ NobodyOwes(l)' <=> NobodyOwes(l)
      /\ Untouched(l)' <=> Untouched(l)
      /\ \A k : (Active(k)' <=> Active(k)) /\ (Unreported(k)' <=> Unreported(k))
  BY DEF NobodyOwes, Untouched, Active, Unreported
<1>6. /\ OneCallFor(l)' /\ OwesAndHolds(l)' /\ WritesAreTheirs(l)' /\ AbandonedIsReported(l)'
      /\ FreeIsUntouched(l)' /\ OutlivedIsOver(l)' /\ Counted(l)' /\ WritesCount(l)'
  BY <1>4, <1>5 DEF LeadInv, OneCallFor, OwesAndHolds, WritesAreTheirs, AbandonedIsReported,
     FreeIsUntouched, OutlivedIsOver, Counted, WritesCount, Budget
<1>7. l \in AbandonedClaims => NobodyOwes(l) /\ lead[l].status # "absent"
  BY <1>4 DEF AbandonedClaims, StaleClaims, LeadInv, OwesAndHolds
<1>8. DialerWritesInTurn(l)'
  BY <1>4 DEF LeadInv, DialerWritesInTurn
<1>9. ChosenIsItsOwn(l)' /\ AtLeadIsItsOwn(l)'
  BY <1>3, <1>5, <1>7, ConstantsAssumption DEF ChosenIsItsOwn, AtLeadIsItsOwn, Dialling, AtLead
<1> QED BY <1>6, <1>8, <1>9 DEF LeadInv

\* One of them is recorded.
LEMMA SweepRecords ==
  ASSUME ClaimInv, Typed, NEW l \in Leads, SweepLead(l)
  PROVE  ClaimInv'
<1> USE DEF SweepLead, BeginWrite, db, proc, ghosts
<1> DEFINE v == NewWrite("dialer", l, "failed", TRUE, FALSE)
<1>1. /\ v.by = "dialer" /\ v.lead = l /\ v.attempts = lead[l].attempts + 1 /\ v.pc = "update"
      /\ writing' = writing \cup {v}
  BY DEF NewWrite
<1> HIDE DEF v
<1>2. /\ tick'.pc = "sweep" /\ tick'.todo = tick.todo \ {l}
      /\ tick'.lead = tick.lead /\ tick'.call = tick.call
  BY DEF Typed, TypeOK, TickType
<1>3. "dialer" \notin Calls
  BY ConstantsAssumption
<1>4. Steady'
  BY <1>1, <1>3 DEF ClaimInv, Steady, ImportIsNew, DialerWrites
<1>5. ASSUME NEW m \in Leads, m # l PROVE LeadInv(m)'
  <2>1. Apart(m)
    BY <1>1, <1>5 DEF Apart, RowKept
  <2>2. TickApart(m)
    BY <1>2 DEF TickApart, Dialling, AtLead
  <2> QED BY <2>1, <2>2, OthersStay DEF ClaimInv
<1>6. LeadInv(l)'
  <2>1. LeadInv(l) /\ NobodyOwes(l) /\ lead[l].status # "absent"
    BY DEF ClaimInv, LeadInv, ChosenIsItsOwn
  <2>2. /\ NobodyOwes(l)'
        /\ Untouched(l)' <=> Untouched(l)
        /\ \A k : (Active(k)' <=> Active(k)) /\ (Unreported(k)' <=> Unreported(k))
    BY <1>1, <2>1 DEF NobodyOwes, Untouched, Active, Unreported
  <2>3. /\ OneCallFor(l)' /\ OwesAndHolds(l)' /\ FreeIsUntouched(l)' /\ OutlivedIsOver(l)'
        /\ Counted(l)'
    BY <2>1, <2>2 DEF LeadInv, OneCallFor, OwesAndHolds, FreeIsUntouched, OutlivedIsOver,
       Counted, Budget
  <2>6. WritesAreTheirs(l)' /\ AbandonedIsReported(l)'
    BY <1>1, <1>3, <2>1, <2>2 DEF LeadInv, WritesAreTheirs, AbandonedIsReported
  <2>4. WritesCount(l)'
    BY <1>1, <2>1 DEF LeadInv, Counted, WritesCount
  <2>5. DialerWritesInTurn(l)' /\ ChosenIsItsOwn(l)' /\ AtLeadIsItsOwn(l)'
    BY <1>1, <1>2, <2>1, <2>2
    DEF LeadInv, DialerWritesInTurn, ChosenIsItsOwn, AtLeadIsItsOwn
  <2> QED BY <2>3, <2>4, <2>5, <2>6 DEF LeadInv
<1> QED BY <1>4, <1>5, <1>6 DEF ClaimInv

LEMMA PruneForgets ==
  ASSUME ClaimInv, Typed, PruneInFlight
  PROVE  ClaimInv'
<1> USE DEF PruneInFlight, db, proc, ghosts
<1>1. Steady'
  BY DEF ClaimInv, Steady, ImportIsNew
<1>2. tick'.pc = "select"
  BY DEF Typed, TypeOK, TickType
<1> SUFFICES ASSUME NEW l \in Leads PROVE LeadInv(l)'
  BY <1>1 DEF ClaimInv
<1>3. LeadInv(l)
  BY DEF ClaimInv
<1>4. /\ NobodyOwes(l)' <=> NobodyOwes(l)
      /\ Untouched(l)' <=> Untouched(l)
      /\ \A k : (Active(k)' <=> Active(k)) /\ (Unreported(k)' <=> Unreported(k))
  BY DEF NobodyOwes, Untouched, Active, Unreported
<1>5. /\ OneCallFor(l)' /\ WritesAreTheirs(l)' /\ AbandonedIsReported(l)'
      /\ FreeIsUntouched(l)' /\ OutlivedIsOver(l)' /\ Counted(l)' /\ WritesCount(l)'
  BY <1>3, <1>4 DEF LeadInv, OneCallFor, WritesAreTheirs, AbandonedIsReported,
     FreeIsUntouched, OutlivedIsOver, Counted, WritesCount, Budget
<1>6. OwesAndHolds(l)'
  BY <1>3, <1>4 DEF LeadInv, OwesAndHolds, OutlivedIsOver
<1>7. DialerWritesInTurn(l)' /\ ChosenIsItsOwn(l)' /\ AtLeadIsItsOwn(l)'
  BY <1>2 DEF DialerWrites, DialerWritesInTurn, ChosenIsItsOwn, AtLeadIsItsOwn, Dialling, AtLead
<1> QED BY <1>5, <1>6, <1>7 DEF LeadInv

\* A lead that is due has nobody left who works on it: the tick may have it.
LEMMA ClaimTakes ==
  ASSUME ClaimInv, Typed, ClaimLeads
  PROVE  ClaimInv'
<1> USE DEF proc, ghosts
<1> PICK claimed \in SUBSET Due(tick.cur) :
      /\ lead' = [l \in Leads |-> IF l \in claimed
                                  THEN Row("calling", lead[l].attempts, TRUE) ELSE lead[l]]
      /\ tick' = [tick EXCEPT !.pc = "dial", !.todo = claimed, !.quota = 0]
  BY DEF ClaimLeads
<1>1. tick.pc = "claim" /\ UNCHANGED <<mode, stopping, inFlight, outlived, call, writing, op, rings>>
  BY DEF ClaimLeads
<1>2. tick'.pc = "dial" /\ tick'.todo = claimed
  BY DEF Typed, TypeOK, TickType
<1>3. Steady'
  <2>1. \A m \in Leads : lead[m].status = "absent" => lead'[m].status = "absent"
    BY DEF Due
  <2> QED BY <1>1, <2>1, ImportStays DEF ClaimInv, Steady
<1> SUFFICES ASSUME NEW l \in Leads PROVE LeadInv(l)'
  BY <1>3 DEF ClaimInv
<1>4. LeadInv(l)
  BY DEF ClaimInv
<1>5. /\ NobodyOwes(l)' <=> NobodyOwes(l)
      /\ Untouched(l)' <=> Untouched(l)
      /\ \A k : (Active(k)' <=> Active(k)) /\ (Unreported(k)' <=> Unreported(k))
  BY <1>1 DEF NobodyOwes, Untouched, Active, Unreported
<1>6. /\ OneCallFor(l)' /\ WritesAreTheirs(l)' /\ AbandonedIsReported(l)'
      /\ OutlivedIsOver(l)' /\ WritesCount(l)'
  BY <1>1, <1>4, <1>5 DEF LeadInv, OneCallFor, WritesAreTheirs, AbandonedIsReported,
     OutlivedIsOver, WritesCount
<1>7. DialerWritesInTurn(l)' /\ AtLeadIsItsOwn(l)'
  BY <1>1, <1>2, <1>4 DEF LeadInv, DialerWritesInTurn, AtLeadIsItsOwn
<1>8. CASE l \in claimed
  <2>1. /\ lead[l].status = "pending" /\ Untouched(l)
        /\ lead'[l].status = "calling" /\ lead'[l].attempts = lead[l].attempts
    BY <1>4, <1>8 DEF Due, LeadInv, FreeIsUntouched, Row
  <2>2. Counted(l)' /\ Unspent(l)'
    BY <1>1, <1>4, <2>1 DEF LeadInv, Counted, Unspent, Budget
  <2>3. NobodyOwes(l)
    BY <2>1 DEF Untouched, NobodyOwes, Unreported, Active
  <2> QED
    BY <1>2, <1>5, <1>6, <1>7, <2>1, <2>2, <2>3
    DEF LeadInv, OwesAndHolds, FreeIsUntouched, ChosenIsItsOwn, AtLead, Dialling
<1>9. CASE l \notin claimed
  <2>1. lead'[l] = lead[l]
    BY <1>9
  <2>2. OwesAndHolds(l)' /\ FreeIsUntouched(l)' /\ Counted(l)'
    BY <1>1, <1>4, <1>5, <2>1 DEF LeadInv, OwesAndHolds, FreeIsUntouched, Counted, Budget
  <2> QED
    BY <1>2, <1>6, <1>7, <1>9, <2>2 DEF LeadInv, ChosenIsItsOwn
<1> QED BY <1>8, <1>9

(***************************************************************************)
(* A dial.                                                                 *)
(***************************************************************************)
LEMMA NoDialerWrites ==
  ASSUME ClaimInv, Typed, tick.pc \notin {"sweep", "refuse"}
  PROVE  \A w \in writing : w.by # "dialer"
BY DEF ClaimInv, LeadInv, DialerWritesInTurn, Typed, TypeOK, WriteType

\* dialLead begins with a lead the tick has chosen.
LEMMA DialBegins ==
  ASSUME ClaimInv, Typed, NEW l \in Leads, DialLead(l)
  PROVE  ClaimInv'
<1> USE DEF db, proc, ghosts
<1>1. PICK pc \in {"place", "refuse", "undo"} :
        /\ tick' = [tick EXCEPT !.pc = pc, !.lead = l, !.todo = @ \ {l}]
        /\ \/ pc # "refuse" /\ writing' = writing
           \/ pc = "refuse" /\ BeginWrite("dialer", l, "do_not_call", FALSE, FALSE)
  BY DEF DialLead
<1>2. /\ tick'.pc = pc /\ tick'.lead = l /\ tick'.todo = tick.todo \ {l}
      /\ tick.pc = "dial" /\ l \in tick.todo
  BY <1>1 DEF DialLead, Typed, TypeOK, TickType
<1>3. /\ inFlight'[l] = "open" /\ \A m \in Leads : m # l => inFlight'[m] = inFlight[m]
      /\ outlived' = outlived \ {l}
      /\ UNCHANGED <<lead, mode, stopping, call, op, rings>>
  BY DEF DialLead, Typed, TypeOK
<1>4. /\ \A w \in writing : w \in writing'
      /\ \A w \in writing' : w \notin writing =>
           /\ w.by = "dialer" /\ w.lead = l /\ w.pc = "list" /\ pc = "refuse"
           /\ w.attempts = lead[l].attempts
  BY <1>1 DEF BeginWrite, NewWrite
<1>5. "dialer" \notin Calls /\ None \notin Leads
  BY ConstantsAssumption
<1> HIDE DEF db, proc, ghosts
<1>6. Steady'
  <2>1. \A w \in writing : w.by # "dialer"
    BY <1>2, NoDialerWrites
  <2> QED BY <1>1, <1>3, <1>4, <1>5, <2>1 DEF ClaimInv, Steady, ImportIsNew, BeginWrite, NewWrite
<1>7. ASSUME NEW m \in Leads, m # l PROVE LeadInv(m)'
  <2>1. Apart(m)
    BY <1>3, <1>4, <1>7 DEF Apart, RowKept
  <2>2. TickApart(m)
    BY <1>2, <1>7 DEF TickApart, Dialling, AtLead, ClaimInv, LeadInv, DialerWritesInTurn
  <2> QED BY <2>1, <2>2, OthersStay DEF ClaimInv
<1>8. LeadInv(l)'
  <2>1. LeadInv(l) /\ Untouched(l) /\ Unspent(l)
    BY <1>2 DEF ClaimInv, LeadInv, ChosenIsItsOwn, Dialling
  <2>2. \A w \in writing : w.lead # l
    BY <1>2, <2>1 DEF LeadInv, DialerWritesInTurn, Untouched
  <2>3. Untouched(l)' /\ NobodyOwes(l)' /\ Unspent(l)'
    BY <1>3, <1>4, <2>1 DEF Untouched, NobodyOwes, Unreported, Active, Unspent
  <2>4. OneCallFor(l)' /\ OwesAndHolds(l)' /\ FreeIsUntouched(l)' /\ OutlivedIsOver(l)'
    BY <2>3 DEF OneCallFor, OwesAndHolds, FreeIsUntouched, OutlivedIsOver, Untouched, Unspent
  <2>5. WritesAreTheirs(l)' /\ AbandonedIsReported(l)'
    BY <2>3 DEF WritesAreTheirs, AbandonedIsReported, Untouched, Active
  <2>6. Counted(l)' /\ WritesCount(l)'
    BY <1>3, <1>4, <2>1, <2>2 DEF LeadInv, Counted, WritesCount, Unspent, Budget
  <2>7. DialerWritesInTurn(l)'
    BY <1>2, <1>4, <2>2 DEF DialerWritesInTurn
  <2>8. ChosenIsItsOwn(l)' /\ AtLeadIsItsOwn(l)'
    BY <1>2, <1>3, <2>3 DEF ChosenIsItsOwn, AtLeadIsItsOwn
  <2> QED BY <2>4, <2>5, <2>6, <2>7, <2>8 DEF LeadInv
<1> QED BY <1>6, <1>7, <1>8 DEF ClaimInv

\* placeOutboundCall parks a dial for a lead nobody works on.
LEMMA CallParks ==
  ASSUME ClaimInv, Typed, tick.pc = "place", NEW k \in Calls, call[k].phase = "free",
         \A w \in writing : w.by # k,
         call' = [call EXCEPT ![k] = [lead |-> tick.lead, phase |-> "parked", told |-> "no"]],
         tick' = [tick EXCEPT !.pc = "originate", !.call = k],
         UNCHANGED <<lead, mode, stopping, inFlight, outlived, writing, op, rings>>
  PROVE  ClaimInv'
<1>1. PICK l \in Leads :
        /\ tick.lead = l /\ tick'.lead = l /\ tick'.pc = "originate"
        /\ tick'.call = k /\ tick'.todo = tick.todo
  BY DEF Typed, TypeOK, References, TickType
<1>2. /\ call'[k].lead = l /\ call'[k].phase = "parked" /\ call'[k].told = "no"
      /\ \A j \in Calls : j # k => call'[j] = call[j]
  BY <1>1 DEF Typed, TypeOK
<1>3. LeadInv(l) /\ Untouched(l) /\ Unspent(l) /\ inFlight[l] = "open" /\ l \notin outlived
  BY <1>1 DEF ClaimInv, LeadInv, AtLeadIsItsOwn
<1>4. \A w \in writing : w.lead # l
  BY <1>1, <1>3 DEF LeadInv, DialerWritesInTurn, Untouched
<1>5. Steady'
  BY <1>2 DEF ClaimInv, Steady, ImportIsNew
<1>6. ASSUME NEW m \in Leads, m # l PROVE LeadInv(m)'
  <2>1. \A j \in Calls : j # k => (call[j].lead = m \/ call'[j].lead = m => call'[j] = call[j])
    BY <1>2
  <2>2. ~Active(k) /\ ~Unreported(k)
    BY DEF Active, Unreported
  <2>3. call'[k].lead # m
    BY <1>2, <1>6
  <2>4. LeadInv(m)
    BY DEF ClaimInv
  <2>5. \A j \in Calls : j # k =>
          /\ call'[j] = call[j]
          /\ Active(j)' <=> Active(j)
          /\ Unreported(j)' <=> Unreported(j)
    BY <1>2 DEF Active, Unreported
  <2>6. (NobodyOwes(m)' <=> NobodyOwes(m)) /\ (Untouched(m)' <=> Untouched(m))
    BY <2>2, <2>3, <2>5 DEF NobodyOwes, Untouched
  <2>7. OneCallFor(m)' /\ WritesAreTheirs(m)'
    BY <2>3, <2>4, <2>5 DEF LeadInv, OneCallFor, WritesAreTheirs
  <2>8. AbandonedIsReported(m)'
    BY <2>3, <2>4, <2>5 DEF LeadInv, AbandonedIsReported
  <2>9. OwesAndHolds(m)' /\ FreeIsUntouched(m)' /\ OutlivedIsOver(m)' /\ Counted(m)' /\ WritesCount(m)'
    BY <2>4, <2>6 DEF LeadInv, OwesAndHolds, FreeIsUntouched, OutlivedIsOver, Counted, WritesCount, Budget
  <2>10. DialerWritesInTurn(m)' /\ ChosenIsItsOwn(m)' /\ AtLeadIsItsOwn(m)'
    BY <1>1, <1>6, <2>4, <2>6
    DEF LeadInv, DialerWritesInTurn, ChosenIsItsOwn, AtLeadIsItsOwn, Unspent, Dialling, AtLead
  <2> QED BY <2>7, <2>8, <2>9, <2>10 DEF LeadInv
<1>7. LeadInv(l)'
  <2>1. \A j \in Calls : call'[j].lead = l /\ Active(j)' => j = k
    BY <1>2, <1>3 DEF Untouched, Active
  <2>2. OneCallFor(l)' /\ WritesAreTheirs(l)' /\ AbandonedIsReported(l)'
    BY <1>2, <1>4, <2>1 DEF OneCallFor, WritesAreTheirs, AbandonedIsReported, Active
  <2>3. OwesAndHolds(l)' /\ OutlivedIsOver(l)' /\ FreeIsUntouched(l)' /\ Counted(l)' /\ Unspent(l)'
    BY <1>3 DEF LeadInv, OwesAndHolds, OutlivedIsOver, FreeIsUntouched, Counted, Unspent, Budget
  <2>4. WritesCount(l)' /\ DialerWritesInTurn(l)'
    BY <1>4 DEF WritesCount, DialerWritesInTurn
  <2>5. ChosenIsItsOwn(l)'
    BY <1>1, <1>3 DEF LeadInv, ChosenIsItsOwn, AtLead, Dialling
  <2>6. AtLeadIsItsOwn(l)'
    BY <1>1, <1>2, <1>4, <2>3 DEF AtLeadIsItsOwn
  <2> QED BY <2>2, <2>3, <2>4, <2>5, <2>6 DEF LeadInv
<1> QED BY <1>5, <1>6, <1>7 DEF ClaimInv

\* The tick goes on with its lead, or leaves it: the other leads do not notice.
LEMMA OthersOfDial ==
  ASSUME ClaimInv, Typed, NEW l \in Leads, tick.lead = l, tick.pc \in AtLead,
         tick'.pc \in Dialling, tick'.todo = tick.todo, tick'.lead \in {l, None},
         NEW m \in Leads, m # l, Apart(m)
  PROVE  LeadInv(m)'
<1>1. LeadInv(m)
  BY DEF ClaimInv
<1>2. TickApart(m)
  BY <1>1, ConstantsAssumption
  DEF TickApart, LeadInv, ChosenIsItsOwn, DialerWritesInTurn, Dialling, AtLead
<1> QED BY <1>1, <1>2, OthersStay

\* The dial is given up before a call is made: it is refused by the do-not-call
\* list, or undone.
LEMMA PlaceGivesUp ==
  ASSUME ClaimInv, Typed, tick.pc = "place", NEW pc \in {"undo", "refuse"},
         tick' = [tick EXCEPT !.pc = pc],
         \/ pc = "undo" /\ writing' = writing
         \/ pc = "refuse" /\ BeginWrite("dialer", tick.lead, "do_not_call", TRUE, FALSE),
         UNCHANGED <<lead, mode, stopping, inFlight, outlived, call, op, rings>>
  PROVE  ClaimInv'
<1>1. PICK l \in Leads : /\ tick.lead = l /\ tick'.lead = l /\ tick'.pc = pc
                         /\ tick'.todo = tick.todo
  BY DEF Typed, TypeOK, References, TickType
<1>2. /\ \A w \in writing : w \in writing'
      /\ \A w \in writing' : w \notin writing =>
           /\ w.by = "dialer" /\ w.lead = l /\ w.pc = "list" /\ pc = "refuse"
           /\ w.attempts = lead[l].attempts + 1
  BY <1>1 DEF BeginWrite, NewWrite
<1>3. "dialer" \notin Calls
  BY ConstantsAssumption
<1>4. \A w \in writing : w.by # "dialer"
  BY NoDialerWrites
<1>5. Steady'
  BY <1>2, <1>3, <1>4 DEF ClaimInv, Steady, ImportIsNew, BeginWrite, NewWrite
<1>6. ASSUME NEW m \in Leads, m # l PROVE LeadInv(m)'
  <2>1. Apart(m)
    BY <1>2, <1>6 DEF Apart, RowKept
  <2> QED BY <1>1, <1>6, <2>1, OthersOfDial DEF Dialling, AtLead
<1>7. LeadInv(l)'
  <2>1. LeadInv(l) /\ Untouched(l) /\ Unspent(l) /\ inFlight[l] = "open" /\ l \notin outlived
    BY <1>1 DEF ClaimInv, LeadInv, AtLeadIsItsOwn
  <2>2. \A w \in writing : w.lead # l
    BY <1>4, <2>1 DEF Untouched
  <2>3. Untouched(l)' /\ NobodyOwes(l)' /\ Unspent(l)'
    BY <1>2, <2>1 DEF Untouched, NobodyOwes, Unreported, Active, Unspent
  <2>4. OneCallFor(l)' /\ OwesAndHolds(l)' /\ FreeIsUntouched(l)' /\ OutlivedIsOver(l)'
    BY <2>3 DEF OneCallFor, OwesAndHolds, FreeIsUntouched, OutlivedIsOver, Untouched, Unspent
  <2>5. WritesAreTheirs(l)' /\ AbandonedIsReported(l)'
    BY <2>3 DEF WritesAreTheirs, AbandonedIsReported, Untouched, Active
  <2>6. lead[l].attempts \in Nat /\ rings[l] \in Nat
    BY DEF Typed, TypeOK, RowType
  <2>7. Counted(l)' /\ WritesCount(l)'
    BY <1>2, <2>1, <2>2, <2>6 DEF LeadInv, Counted, WritesCount, Unspent, Budget
  <2>8. DialerWritesInTurn(l)'
    BY <1>1, <1>2, <2>2 DEF DialerWritesInTurn
  <2>9. ChosenIsItsOwn(l)' /\ AtLeadIsItsOwn(l)'
    BY <1>1, <2>1, <2>3 DEF LeadInv, ChosenIsItsOwn, AtLeadIsItsOwn, AtLead, Dialling
  <2> QED BY <2>4, <2>5, <2>7, <2>8, <2>9 DEF LeadInv
<1> QED BY <1>5, <1>6, <1>7 DEF ClaimInv

LEMMA CallIsPlaced ==
  ASSUME ClaimInv, Typed, PlaceCall
  PROVE  ClaimInv'
<1> USE DEF PlaceCall, db, proc, ghosts
<1>1. CASE tick' = [tick EXCEPT !.pc = "undo"] /\ UNCHANGED writing /\ UNCHANGED call
  BY <1>1, PlaceGivesUp
<1>2. CASE /\ tick' = [tick EXCEPT !.pc = "refuse"] /\ UNCHANGED call
           /\ BeginWrite("dialer", tick.lead, "do_not_call", TRUE, FALSE)
  BY <1>2, PlaceGivesUp
<1>3. CASE /\ \E k \in Calls :
                /\ call[k].phase = "free" /\ \A w \in writing : w.by # k
                /\ call' = [call EXCEPT ![k] = [lead |-> tick.lead, phase |-> "parked", told |-> "no"]]
                /\ tick' = [tick EXCEPT !.pc = "originate", !.call = k]
           /\ UNCHANGED writing
  BY <1>3, CallParks
<1> QED BY <1>1, <1>2, <1>3

\* The tick leaves a lead, undialled, rung or refused, for the next one.
LEMMA TickLeaves ==
  ASSUME ClaimInv, Typed, NEW l \in Leads, tick.lead = l,
         tick.pc \in {"undo", "response", "refused"},
         tick'.pc = "dial" /\ tick'.lead = None /\ tick'.todo = tick.todo,
         \A m \in Leads : m # l => lead'[m] = lead[m] /\ inFlight'[m] = inFlight[m],
         lead'[l] = lead[l] \/ (tick.pc = "undo" /\ lead'[l] = Requeued(l)),
         inFlight'[l] = inFlight[l] \/ (inFlight'[l] = "none" /\ tick.pc # "response"),
         \A m \in outlived' : m \in outlived,
         UNCHANGED <<mode, stopping, call, writing, op, rings>>
  PROVE  ClaimInv'
<1>1. None \notin Leads
  BY ConstantsAssumption
<1>2. \A w \in writing : w.by # "dialer"
  BY NoDialerWrites
<1>3. Steady'
  <2>1. \A m \in Leads : lead[m].status = "absent" => lead'[m].status = "absent"
    BY DEF ClaimInv, LeadInv, AtLeadIsItsOwn, Unspent
  <2> QED BY <2>1, ImportStays DEF ClaimInv, Steady
<1>4. ASSUME NEW m \in Leads, m # l PROVE LeadInv(m)'
  <2>1. Apart(m)
    BY <1>4 DEF Apart, RowKept
  <2> QED BY <1>4, <2>1, OthersOfDial DEF Dialling, AtLead
<1>5. LeadInv(l)'
  <2>1. LeadInv(l)
    BY DEF ClaimInv
  <2>2. l \notin tick.todo
    BY <2>1 DEF LeadInv, ChosenIsItsOwn, AtLead, Dialling
  <2>3. /\ NobodyOwes(l)' <=> NobodyOwes(l)
        /\ Untouched(l)' <=> Untouched(l)
        /\ \A k : (Active(k)' <=> Active(k)) /\ (Unreported(k)' <=> Unreported(k))
    BY DEF NobodyOwes, Untouched, Active, Unreported
  <2>4. /\ OneCallFor(l)' /\ WritesAreTheirs(l)' /\ AbandonedIsReported(l)'
        /\ OutlivedIsOver(l)' /\ WritesCount(l)'
    BY <2>1, <2>3 DEF LeadInv, OneCallFor, WritesAreTheirs, AbandonedIsReported, OutlivedIsOver, WritesCount
  <2>5. DialerWritesInTurn(l)' /\ ChosenIsItsOwn(l)' /\ AtLeadIsItsOwn(l)'
    BY <1>1, <1>2, <2>2 DEF DialerWritesInTurn, ChosenIsItsOwn, AtLeadIsItsOwn
  <2>6. CASE tick.pc = "undo"
    <3>1. Untouched(l) /\ Unspent(l)
      BY <2>1, <2>6 DEF LeadInv, AtLeadIsItsOwn
    <3>2. NobodyOwes(l)
      BY <3>1 DEF Untouched, NobodyOwes, Unreported, Active
    <3>3. lead'[l].attempts = lead[l].attempts /\ lead'[l].status \in {"calling", "pending"}
      BY <3>1 DEF Unspent, Requeued, Row
    <3>4. Counted(l)'
      BY <2>1, <3>1, <3>3 DEF LeadInv, Counted, Unspent, Budget
    <3> QED BY <2>1, <2>3, <2>4, <2>5, <3>1, <3>2, <3>3, <3>4 DEF LeadInv, OwesAndHolds, FreeIsUntouched
  <2>7. CASE tick.pc # "undo"
    <3>1. lead'[l] = lead[l]
      BY <2>7
    <3>2. FreeIsUntouched(l)' /\ Counted(l)'
      BY <2>1, <2>3, <3>1 DEF LeadInv, FreeIsUntouched, Counted, Budget
    <3>3. OwesAndHolds(l)'
      BY <2>1, <2>3, <2>7, <3>1 DEF LeadInv, OwesAndHolds, AtLeadIsItsOwn
    <3> QED BY <2>4, <2>5, <3>2, <3>3 DEF LeadInv
  <2> QED BY <2>6, <2>7
<1> QED BY <1>3, <1>4, <1>5 DEF ClaimInv

LEMMA DialEnds ==
  ASSUME ClaimInv, Typed, Calm, UndoClaim \/ OriginateResponse \/ DialRefused
  PROVE  ClaimInv'
<1> USE DEF Release, db, proc, ghosts
<1>1. PICK l \in Leads : tick.lead = l
  BY DEF Typed, References, UndoClaim, OriginateResponse, DialRefused
<1>2. LeadInv(l)
  BY DEF ClaimInv
<1>3. tick \in TickType /\ inFlight \in [Leads -> {"none", "open", "settled"}] /\ lead \in [Leads -> RowType]
  BY DEF Typed, TypeOK
<1>4. CASE UndoClaim
  BY <1>1, <1>3, <1>4, TickLeaves DEF UndoClaim, TickType
<1>5. CASE OriginateResponse
  <2>1. /\ tick' = [tick EXCEPT !.pc = "dial", !.out = @ + 1, !.lead = None, !.call = None]
        /\ UNCHANGED <<inFlight, call, writing>>
    BY <1>5 DEF OriginateResponse, Calm
  <2>2. tick'.pc = "dial" /\ tick'.lead = None /\ tick'.todo = tick.todo
    BY <1>3, <2>1 DEF TickType
  <2> QED BY <1>1, <1>5, <2>1, <2>2, TickLeaves DEF OriginateResponse
<1>6. CASE DialRefused
  <2>1. inFlight[l] # "open"
    BY <1>1, <1>2, <1>6 DEF DialRefused, LeadInv, AtLeadIsItsOwn
  <2> QED BY <1>1, <1>3, <1>6, <2>1, TickLeaves DEF DialRefused, TickType
<1> QED BY <1>4, <1>5, <1>6

LEMMA DialWaits ==
  ASSUME ClaimInv, Typed, AwaitAbandoned
  PROVE  ClaimInv'
<1> USE DEF AwaitAbandoned, db, proc, ghosts
<1>1. PICK l \in Leads : /\ tick.lead = l /\ tick'.lead = l /\ tick'.pc = "refused"
                         /\ tick'.todo = tick.todo /\ tick.pc = "await"
  BY DEF Typed, TypeOK, References, TickType
<1>2. Steady'
  BY DEF ClaimInv, Steady, ImportIsNew
<1>3. ASSUME NEW m \in Leads, m # l PROVE LeadInv(m)'
  <2>1. Apart(m)
    BY <1>3 DEF Apart, RowKept
  <2> QED BY <1>1, <1>3, <2>1, OthersOfDial DEF Dialling, AtLead
<1>4. LeadInv(l)'
  <2>1. LeadInv(l)
    BY DEF ClaimInv
  <2>2. /\ NobodyOwes(l)' <=> NobodyOwes(l)
        /\ Untouched(l)' <=> Untouched(l)
        /\ \A k : (Active(k)' <=> Active(k)) /\ (Unreported(k)' <=> Unreported(k))
    BY DEF NobodyOwes, Untouched, Active, Unreported
  <2>3. /\ OneCallFor(l)' /\ OwesAndHolds(l)' /\ WritesAreTheirs(l)' /\ AbandonedIsReported(l)'
        /\ FreeIsUntouched(l)' /\ OutlivedIsOver(l)' /\ Counted(l)' /\ WritesCount(l)'
    BY <2>1, <2>2 DEF LeadInv, OneCallFor, OwesAndHolds, WritesAreTheirs, AbandonedIsReported,
       FreeIsUntouched, OutlivedIsOver, Counted, WritesCount, Budget
  <2>4. DialerWritesInTurn(l)' /\ ChosenIsItsOwn(l)' /\ AtLeadIsItsOwn(l)'
    BY <1>1, <2>1, <2>2
    DEF LeadInv, DialerWritesInTurn, ChosenIsItsOwn, AtLeadIsItsOwn, AtLead, Dialling
  <2> QED BY <2>3, <2>4 DEF LeadInv
<1> QED BY <1>2, <1>3, <1>4 DEF ClaimInv

(***************************************************************************)
(* The outcome of a call.                                                  *)
(***************************************************************************)
\* Call k for lead l puts its outcome v up for recording and settles its claim.
Reports(k, l, v) ==
  /\ v.by = k /\ v.lead = l /\ v.pc # "asked" /\ v.attempts = lead[l].attempts + 1
  /\ v \in writing'
  /\ \A w \in writing' : w = v \/ w \in writing
  /\ \A w \in writing : w.lead # l => w \in writing'
  /\ \A m \in Leads : RowKept(m)
  /\ inFlight'[l] # "open" /\ \A m \in Leads : m # l => inFlight'[m] = inFlight[m]
  /\ \A j \in Calls : j # k => call'[j] = call[j]
  /\ call'[k].lead = call[k].lead
  /\ \/ call[k].lead = l /\ (Active(k) \/ \E w \in writing : w.by = k /\ w.lead = l)
     \/ call[k].phase = "free" /\ call'[k] = call[k] /\ \E w \in writing : w.by = k /\ w.lead = l
  /\ call'[k].phase = "free" <=> call[k].phase = "free"
  /\ Active(k)' => Active(k)
  /\ call'[k].phase = "abandoned" => call[k].phase \in {"parked", "ringing"} /\ v.closes
  /\ call'[k].phase \in {"talking", "ending"} => call'[k].told # "no"
  /\ call'[k].phase \notin {"parked", "ringing", "claiming", "orphan"}

\* A refused originate is reported by the tick; nobody else moves it.
TickReports(k, l) ==
  \/ tick' = tick /\ call[k].phase # "parked"
  \/ /\ tick.pc = "originate" /\ tick.call = k /\ tick.lead = l
     /\ tick'.pc = "await" /\ tick'.lead = l /\ tick'.todo = tick.todo

LEMMA CallReports ==
  ASSUME ClaimInv, Typed, NEW k \in Calls, NEW l \in Leads, NEW v, Reports(k, l, v),
         TickReports(k, l), UNCHANGED <<mode, stopping, outlived, op, rings>>
  PROVE  ClaimInv'
<1> USE DEF Reports
<1>1. "dialer" \notin Calls /\ "operator" \notin Calls
  BY ConstantsAssumption
<1>2. LeadInv(l)
  BY DEF ClaimInv
<1>3. Steady'
  <2>1. ImportIsNew'
    BY ImportStays DEF ClaimInv, Steady, RowKept
  <2> QED BY <1>1, <2>1 DEF ClaimInv, Steady
<1>4. ASSUME NEW m \in Leads, m # l PROVE LeadInv(m)'
  <2>1. Apart(m)
    BY <1>4, ConstantsAssumption DEF Apart
  <2>2. CASE tick' = tick
    BY <2>1, <2>2, OthersStay DEF ClaimInv
  <2>3. CASE tick' # tick
    BY <1>4, <2>1, <2>3, OthersOfDial DEF TickReports, Dialling, AtLead
  <2> QED BY <2>2, <2>3
<1>5. LeadInv(l)'
  <2>1. \A j \in Calls : call[j].lead = l /\ Active(j) => j = k
    BY <1>1, <1>2 DEF LeadInv, OneCallFor, WritesAreTheirs
  <2>2. \A j \in Calls : call'[j].lead = l /\ Active(j)' => j = k
    BY <2>1 DEF Active
  <2>3. ~Unreported(k)'
    BY DEF Unreported
  <2>4. NobodyOwes(l)'
    BY <2>2, <2>3 DEF NobodyOwes, Unreported, Active
  <2>5. ~Untouched(l)
    BY <1>1 DEF Untouched
  <2>6. OneCallFor(l)' /\ OwesAndHolds(l)' /\ OutlivedIsOver(l)'
    BY <2>2, <2>4 DEF OneCallFor, OwesAndHolds, OutlivedIsOver
  <2>7. WritesAreTheirs(l)'
    BY <1>1, <1>2, <2>1, <2>2, <2>3 DEF LeadInv, WritesAreTheirs
  <2>8. AbandonedIsReported(l)'
    <3>1. SUFFICES ASSUME NEW j \in Calls, call'[j].lead = l, call'[j].phase = "abandoned"
                   PROVE  /\ \E w \in writing' : w.by = j /\ w.lead = l
                          /\ \A w \in writing' : w.by = j /\ w.lead = l => w.closes /\ w.pc # "asked"
      BY DEF AbandonedIsReported
    <3>2. j = k
      BY <2>2, <3>1 DEF Active
    <3>3. \A w \in writing : ~(w.by = k /\ w.lead = l)
      BY <1>1, <1>2, <3>1, <3>2 DEF LeadInv, WritesAreTheirs, Active
    <3> QED BY <3>1, <3>2, <3>3
  <2>9. FreeIsUntouched(l)'
    BY <1>2, <2>5 DEF LeadInv, FreeIsUntouched, RowKept
  <2>10. Counted(l)' /\ WritesCount(l)'
    BY <1>2 DEF LeadInv, Counted, WritesCount, RowKept, Budget
  <2>11. DialerWritesInTurn(l)'
    BY <1>1, <1>2, <2>4 DEF LeadInv, DialerWritesInTurn, TickReports
  <2>12. ChosenIsItsOwn(l)'
    BY <1>2, <2>4, <2>5 DEF LeadInv, ChosenIsItsOwn, TickReports, Dialling, RowKept
  <2>13. AtLeadIsItsOwn(l)'
    <3>1. tick' = tick /\ tick.lead = l => tick.pc \notin {"place", "refuse", "undo", "originate"}
      <4>1. ASSUME tick' = tick, tick.lead = l, tick.pc = "originate" PROVE FALSE
        <5>1. /\ call[tick.call].phase = "parked" /\ call[tick.call].lead = l
              /\ tick.call \in Calls
          BY <1>2, <4>1 DEF LeadInv, AtLeadIsItsOwn, Typed, References
        <5>2. tick.call = k
          BY <2>1, <4>1, <5>1 DEF Active, Typed, References
        <5> QED BY <4>1, <5>1, <5>2 DEF TickReports
      <4> QED BY <1>2, <2>5, <4>1 DEF LeadInv, AtLeadIsItsOwn
    <3> QED BY <2>4, <3>1 DEF AtLeadIsItsOwn, TickReports
  <2> QED BY <2>6, <2>7, <2>8, <2>9, <2>10, <2>11, <2>12, <2>13 DEF LeadInv
<1> QED BY <1>3, <1>4, <1>5 DEF ClaimInv

\* onOutcome, at the end of a dial nobody answered, in a conversation or after it.
LEMMA CallTells ==
  ASSUME ClaimInv, Typed, NEW k \in Calls, NEW l \in Leads, call[k].lead = l,
         NEW o, NEW c, Report(k, o, c),
         \A j \in Calls : j # k => call'[j] = call[j],
         call'[k].lead = l,
         \/ call[k].phase \in {"parked", "ringing"} /\ call'[k].phase = "abandoned" /\ c
         \/ /\ call[k].phase = "talking" /\ call'[k].told # "no"
            /\ call'[k].phase \in {"talking", "ending"},
         TickReports(k, l), UNCHANGED <<lead, mode, stopping, outlived, op, rings>>
  PROVE  ClaimInv'
<1> DEFINE v == NewWrite(k, l, ToCampaignOutcome(o), TRUE, c)
<1>1. /\ v.by = k /\ v.lead = l /\ v.pc # "asked" /\ v.attempts = lead[l].attempts + 1
      /\ v.closes = c
  BY DEF NewWrite
<1>2. writing' = writing \cup {v}
  BY DEF Report, BeginWrite
<1> HIDE DEF v
<1>3. inFlight'[l] # "open" /\ \A m \in Leads : m # l => inFlight'[m] = inFlight[m]
  BY DEF Report, Settle, Typed, TypeOK
<1>4. Reports(k, l, v)
  BY <1>1, <1>2, <1>3 DEF Reports, RowKept, Active
<1> QED BY <1>4, CallReports

\* The tick rings its lead: one ring more, of an attempt not yet spent.
LEMMA PhoneRings ==
  ASSUME ClaimInv, Typed, tick.pc = "originate",
         call' = IF call[tick.call].phase = "parked"
                 THEN [call EXCEPT ![tick.call].phase = "ringing"] ELSE call,
         rings' = [rings EXCEPT ![tick.lead] = Lesser(@, Budget(tick.lead)) + 1],
         tick' = [tick EXCEPT !.pc = "response"],
         UNCHANGED <<lead, mode, stopping, inFlight, outlived, writing, op>>
  PROVE  ClaimInv'
<1>1. PICK l \in Leads : /\ tick.lead = l /\ tick'.lead = l /\ tick'.pc = "response"
                         /\ tick'.todo = tick.todo
  BY DEF Typed, TypeOK, References, TickType
<1>2. PICK k \in Calls : tick.call = k
  BY DEF Typed, References
<1>3. /\ LeadInv(l) /\ Unspent(l) /\ call[k].phase = "parked" /\ call[k].lead = l
      /\ \A w \in writing : w.lead # l
  BY <1>1, <1>2 DEF ClaimInv, LeadInv, AtLeadIsItsOwn
<1>4. /\ call'[k].lead = l /\ call'[k].phase = "ringing" /\ call'[k].told = call[k].told
      /\ \A j \in Calls : j # k => call'[j] = call[j]
  BY <1>2, <1>3 DEF Typed, TypeOK, CallType
<1>5. \A m \in Leads : m # l => rings'[m] = rings[m]
  BY <1>1 DEF Typed, TypeOK
<1>6. rings'[l] = rings[l] + 1 /\ rings[l] <= lead[l].attempts /\ lead[l].attempts < Budget(l)
  <2>1. rings[l] \in Nat /\ lead[l].attempts \in Nat /\ Budget(l) \in Nat
    BY ConstantsAssumption DEF Typed, TypeOK, RowType, Budget
  <2>2. rings[l] <= lead[l].attempts /\ lead[l].attempts < Budget(l)
    BY <1>3 DEF LeadInv, Counted, Unspent
  <2>3. Lesser(rings[l], Budget(l)) = rings[l]
    BY <2>1, <2>2 DEF Lesser
  <2> QED BY <1>1, <2>2, <2>3 DEF Typed, TypeOK
<1>7. Steady'
  BY <1>3, <1>4 DEF ClaimInv, Steady, ImportIsNew
<1>8. ASSUME NEW m \in Leads, m # l PROVE LeadInv(m)'
  <2>1. Apart(m)
    BY <1>3, <1>4, <1>5, <1>8 DEF Apart, RowKept
  <2> QED BY <1>1, <1>8, <2>1, OthersOfDial DEF Dialling, AtLead
<1>9. LeadInv(l)'
  <2>1. /\ \A j \in Calls : (Active(j)' <=> Active(j)) /\ (Unreported(j)' <=> Unreported(j))
        /\ \A j \in Calls : call'[j].lead = call[j].lead
    BY <1>3, <1>4 DEF Active, Unreported
  <2>2. NobodyOwes(l)' <=> NobodyOwes(l)
    BY <2>1 DEF NobodyOwes
  <2>3. OneCallFor(l)' /\ OwesAndHolds(l)' /\ OutlivedIsOver(l)'
    BY <1>3, <2>1, <2>2 DEF LeadInv, OneCallFor, OwesAndHolds, OutlivedIsOver
  <2>4. WritesAreTheirs(l)' /\ WritesCount(l)' /\ DialerWritesInTurn(l)'
    BY <1>3 DEF WritesAreTheirs, WritesCount, DialerWritesInTurn
  <2>5. AbandonedIsReported(l)'
    BY <1>3, <1>4 DEF LeadInv, AbandonedIsReported
  <2>6. FreeIsUntouched(l)'
    BY <1>3 DEF Unspent, FreeIsUntouched
  <2>7. lead[l].attempts \in Nat /\ rings[l] \in Nat /\ Budget(l) \in Nat
    BY ConstantsAssumption DEF Typed, TypeOK, RowType, Budget
  <2>8. Budget(l)' = Budget(l)
    BY DEF Budget
  <2>9. Counted(l)'
    BY <1>3, <1>6, <2>7, <2>8 DEF LeadInv, Counted, Unspent
  <2>10. ChosenIsItsOwn(l)' /\ AtLeadIsItsOwn(l)'
    BY <1>1, <1>3 DEF LeadInv, ChosenIsItsOwn, AtLeadIsItsOwn, Dialling, AtLead
  <2> QED BY <2>3, <2>4, <2>5, <2>6, <2>9, <2>10 DEF LeadInv
<1> QED BY <1>7, <1>8, <1>9 DEF ClaimInv

LEMMA CallOriginates ==
  ASSUME ClaimInv, Typed, Originate
  PROVE  ClaimInv'
<1> USE DEF db, proc, ghosts
<1>1. tick.pc = "originate" /\ UNCHANGED <<lead, mode, stopping, outlived, op>>
  BY DEF Originate
<1>2. PICK l \in Leads, k \in Calls : tick.lead = l /\ tick.call = k
  BY <1>1 DEF Typed, References
<1>3. LeadInv(l) /\ call[k].phase = "parked" /\ call[k].lead = l
  BY <1>1, <1>2 DEF ClaimInv, LeadInv, AtLeadIsItsOwn
<1>4. CASE /\ \E o \in ChannelOutcomes : AbandonDial(k, o)
           /\ tick' = [tick EXCEPT !.pc = "await"] /\ UNCHANGED rings
  <2>1. PICK o \in ChannelOutcomes : AbandonDial(k, o)
    BY <1>4
  <2>2. /\ call'[k].lead = l /\ call'[k].phase = "abandoned"
        /\ \A j \in Calls : j # k => call'[j] = call[j]
    BY <1>2, <1>3, <2>1 DEF AbandonDial, Typed, TypeOK, CallType
  <2>3. TickReports(k, l)
    BY <1>1, <1>2, <1>4 DEF TickReports, Typed, TypeOK, TickType
  <2>4. Report(k, o, TRUE)
    BY <2>1 DEF AbandonDial
  <2> QED BY <1>1, <1>3, <1>4, <2>2, <2>3, <2>4, CallTells
<1>5. CASE /\ call' = IF call[k].phase = "parked"
                      THEN [call EXCEPT ![k].phase = "ringing"] ELSE call
           /\ rings' = [rings EXCEPT ![tick.lead] = Lesser(@, Budget(tick.lead)) + 1]
           /\ tick' = [tick EXCEPT !.pc = "response"]
           /\ UNCHANGED <<inFlight, writing>>
  BY <1>1, <1>2, <1>5, PhoneRings
<1> QED BY <1>2, <1>3, <1>4, <1>5 DEF Originate

LEMMA CallGivesItsOutcome ==
  ASSUME ClaimInv, Typed, NEW k \in Calls,
         \/ Unanswered(k) \/ TellOutcome(k)
         \/ HangUp(k) /\ call[k].told = "no"
         \/ TellOptOut(k) /\ Report(k, "opt_out", FALSE) /\ call' = [call EXCEPT ![k].told = "opt_out"]
  PROVE  ClaimInv'
<1> USE DEF db, proc, ghosts
<1>1. stopping = {}
  BY DEF ClaimInv, Steady
<1>2. call \in [Calls -> CallType] /\ (call[k].phase # "free" => call[k].lead \in Leads)
  BY DEF Typed, TypeOK, References, CallsHaveLeads
<1>3. CASE Unanswered(k)
  <2>1. PICK o \in ChannelOutcomes : AbandonDial(k, o)
    BY <1>3 DEF Unanswered
  <2>2. call[k].phase = "ringing"
    BY <1>1, <1>3 DEF Unanswered
  <2>3. PICK l \in Leads : call[k].lead = l
    BY <1>2, <2>2
  <2>4. /\ call'[k].lead = l /\ call'[k].phase = "abandoned" /\ Report(k, o, TRUE)
        /\ \A j \in Calls : j # k => call'[j] = call[j]
    BY <1>2, <2>1, <2>3 DEF AbandonDial, CallType
  <2>5. TickReports(k, l) /\ UNCHANGED <<lead, mode, stopping, outlived, op, rings>>
    BY <1>3, <2>2 DEF Unanswered, TickReports
  <2> QED BY <2>2, <2>3, <2>4, <2>5, CallTells
<1>4. CASE TellOutcome(k)
  <2>1. PICK o \in {"agreed", "voicemail"} : Report(k, o, FALSE)
    BY <1>4 DEF TellOutcome
  <2>2. PICK l \in Leads : call[k].lead = l
    BY <1>2, <1>4 DEF TellOutcome
  <2>3. /\ call[k].phase = "talking" /\ call' = [call EXCEPT ![k].told = "mild"]
        /\ tick' = tick /\ UNCHANGED <<lead, mode, stopping, outlived, op, rings>>
    BY <1>4 DEF TellOutcome
  <2>4. /\ call'[k].lead = l /\ call'[k].phase = "talking" /\ call'[k].told # "no"
        /\ \A j \in Calls : j # k => call'[j] = call[j]
    BY <1>2, <2>2, <2>3 DEF CallType
  <2> QED BY <2>1, <2>2, <2>3, <2>4, CallTells DEF TickReports
<1>5. CASE HangUp(k) /\ call[k].told = "no"
  <2>1. /\ call[k].phase = "talking" /\ Report(k, "answered", TRUE)
        /\ call' = [call EXCEPT ![k].phase = "ending", ![k].told = "mild"]
        /\ tick' = tick /\ UNCHANGED <<lead, mode, stopping, outlived, op, rings>>
    BY <1>1, <1>5 DEF HangUp
  <2>2. PICK l \in Leads : call[k].lead = l
    BY <1>2, <2>1
  <2>3. /\ call'[k].lead = l /\ call'[k].phase = "ending" /\ call'[k].told # "no"
        /\ \A j \in Calls : j # k => call'[j] = call[j]
    BY <1>2, <2>1, <2>2 DEF CallType
  <2> QED BY <2>1, <2>2, <2>3, CallTells DEF TickReports
<1>6. CASE TellOptOut(k) /\ Report(k, "opt_out", FALSE) /\ call' = [call EXCEPT ![k].told = "opt_out"]
  <2>1. /\ call[k].phase = "talking"
        /\ tick' = tick /\ UNCHANGED <<lead, mode, stopping, outlived, op, rings>>
    BY <1>6 DEF TellOptOut
  <2>2. PICK l \in Leads : call[k].lead = l
    BY <1>2, <2>1
  <2>3. /\ call'[k].lead = l /\ call'[k].phase = "talking" /\ call'[k].told # "no"
        /\ \A j \in Calls : j # k => call'[j] = call[j]
    BY <1>2, <1>6, <2>1, <2>2 DEF CallType
  <2> QED BY <1>6, <2>1, <2>2, <2>3, CallTells DEF TickReports
<1> QED BY <1>3, <1>4, <1>5, <1>6

LEMMA SkipKeepsRows ==
  ASSUME Typed, NEW p, SkipQueued(p) \/ UNCHANGED lead
  PROVE  \A m \in Leads : RowKept(m)
BY DEF SkipQueued, RowKept, Row

\* record_call_outcome(opt_out) has listed the phone and is still to report.
LEMMA CallAsks ==
  ASSUME ClaimInv, Typed, NEW k \in Calls, call[k].phase = "talking",
         writing' = writing \cup {Asked(k)},
         UNCHANGED <<lead, mode, stopping, inFlight, outlived, tick, call, op, rings>>
  PROVE  ClaimInv'
<1>1. PICK l \in Leads : call[k].lead = l
  BY DEF Typed, References, CallsHaveLeads
<1> DEFINE v == Asked(k)
<1>2. v.by = k /\ v.lead = l /\ v.pc = "asked"
  BY <1>1 DEF Asked, NewWrite
<1> HIDE DEF v
<1>3. "dialer" \notin Calls /\ "operator" \notin Calls /\ Active(k)
  BY ConstantsAssumption DEF Active
<1>4. Steady'
  BY <1>1, <1>2, <1>3 DEF ClaimInv, Steady, ImportIsNew, v
<1>5. ASSUME NEW m \in Leads, m # l PROVE LeadInv(m)'
  <2>1. Apart(m)
    BY <1>2, <1>5 DEF Apart, RowKept, v
  <2> QED BY <2>1, OthersStay DEF ClaimInv
<1>6. LeadInv(l)'
  <2>1. LeadInv(l) /\ ~Untouched(l)
    BY <1>1, <1>3 DEF ClaimInv, Untouched
  <2>2. /\ NobodyOwes(l)' <=> NobodyOwes(l)
        /\ \A j : (Active(j)' <=> Active(j)) /\ (Unreported(j)' <=> Unreported(j))
    BY DEF NobodyOwes, Active, Unreported
  <2>3. OneCallFor(l)' /\ OwesAndHolds(l)' /\ FreeIsUntouched(l)' /\ OutlivedIsOver(l)' /\ Counted(l)'
    BY <2>1, <2>2 DEF LeadInv, OneCallFor, OwesAndHolds, FreeIsUntouched, OutlivedIsOver, Counted, Budget
  <2>4. \A j \in Calls : call[j].lead = l /\ Active(j) => j = k
    BY <1>1, <1>3, <2>1 DEF LeadInv, OneCallFor
  <2>5. WritesAreTheirs(l)'
    BY <1>2, <2>1, <2>2, <2>4 DEF LeadInv, WritesAreTheirs, v
  <2>6. AbandonedIsReported(l)'
    BY <2>4 DEF AbandonedIsReported, Active
  <2>7. WritesCount(l)' /\ DialerWritesInTurn(l)'
    BY <1>2, <1>3, <2>1, <2>2 DEF LeadInv, WritesCount, DialerWritesInTurn, v
  <2>8. ChosenIsItsOwn(l)'
    BY <2>1, <2>2 DEF LeadInv, ChosenIsItsOwn
  <2>9. ~(tick.lead = l /\ tick.pc = "originate")
    <3>1. ASSUME tick.lead = l, tick.pc = "originate" PROVE FALSE
      <4>1. call[tick.call].phase = "parked" /\ call[tick.call].lead = l /\ tick.call \in Calls
        BY <2>1, <3>1 DEF LeadInv, AtLeadIsItsOwn, Typed, References
      <4> QED BY <2>4, <4>1 DEF Active
    <3> QED BY <3>1
  <2>10. AtLeadIsItsOwn(l)'
    BY <2>1, <2>2, <2>9 DEF LeadInv, AtLeadIsItsOwn
  <2> QED BY <2>3, <2>5, <2>6, <2>7, <2>8, <2>10 DEF LeadInv
<1> QED BY <1>4, <1>5, <1>6 DEF ClaimInv

LEMMA CallOptsOut ==
  ASSUME ClaimInv, Typed, NEW k \in Calls, TellOptOut(k)
  PROVE  ClaimInv'
<1> USE DEF TellOptOut, db, proc, ghosts
<1>1. CASE writing' = writing \cup {Asked(k)} /\ UNCHANGED <<inFlight, call>>
  BY <1>1, CallAsks
<1>2. CASE call' = [call EXCEPT ![k].told = "opt_out"] /\ Report(k, "opt_out", FALSE)
  BY <1>2, CallGivesItsOutcome
<1> QED BY <1>1, <1>2

\* The refusal is reported, whatever became of the call in the meantime.
LEMMA AskedIsTold ==
  ASSUME ClaimInv, Typed, NEW w \in writing, TellAsked(w)
  PROVE  ClaimInv'
<1> USE DEF TellAsked, db, proc, ghosts
<1>1. PICK l \in Leads : w.lead = l
  BY DEF Typed, TypeOK, WriteType
<1>2. LeadInv(l) /\ Steady
  BY DEF ClaimInv
<1>3. w.by \in Calls /\ w.by # "dialer"
  BY <1>1, <1>2, ConstantsAssumption
  DEF LeadInv, DialerWritesInTurn, Steady, Typed, TypeOK, WriteType
<1>4. PICK k \in Calls : w.by = k
  BY <1>3
<1> DEFINE v == NewWrite(k, l, "do_not_call", TRUE, FALSE)
<1>5. v.by = k /\ v.lead = l /\ v.pc # "asked" /\ v.attempts = lead[l].attempts + 1
  BY DEF NewWrite
<1>6. writing' = (writing \ {w}) \cup {v}
  BY <1>1, <1>4
<1> HIDE DEF v
<1>7. call[k].phase = "free" \/ call[k].lead = l
  BY <1>1, <1>2, <1>4 DEF Steady
<1>8. call[k].phase \notin {"parked", "ringing", "claiming", "abandoned", "orphan"}
  BY <1>1, <1>2, <1>3, <1>4, <1>7
  DEF LeadInv, WritesAreTheirs, AbandonedIsReported, Steady, Active
<1>9. /\ \A j \in Calls : j # k => call'[j] = call[j]
      /\ call'[k].lead = call[k].lead /\ call'[k].phase = call[k].phase
      /\ call[k].lead = l => call'[k].told = "opt_out"
      /\ call[k].lead # l => call'[k] = call[k]
  BY <1>1, <1>4 DEF Typed, TypeOK, CallType
<1>10. inFlight'[l] # "open" /\ \A m \in Leads : m # l => inFlight'[m] = inFlight[m]
  BY <1>1 DEF Settle, Typed, TypeOK
<1>11. \A m \in Leads : RowKept(m)
  BY SkipKeepsRows
<1>12. Reports(k, l, v)
  BY <1>1, <1>4, <1>5, <1>6, <1>7, <1>8, <1>9, <1>10, <1>11 DEF Reports, Active
<1> QED BY <1>8, <1>12, CallReports DEF TickReports

(***************************************************************************)
(* recordDialOutcome.                                                      *)
(***************************************************************************)
\* A run goes on: neither whose it is nor what it will write changes.
LEMMA WriteGoesOn ==
  ASSUME ClaimInv, Typed, NEW w \in writing, NEW v, w.pc # "asked", v.pc # "asked",
         v.by = w.by /\ v.lead = w.lead /\ v.attempts = w.attempts /\ v.closes = w.closes,
         writing' = (writing \ {w}) \cup {v}, \A m \in Leads : RowKept(m),
         UNCHANGED <<mode, stopping, inFlight, outlived, tick, call, op, rings>>
  PROVE  ClaimInv'
<1>1. \A u \in writing' : \E o \in writing :
        /\ u.by = o.by /\ u.lead = o.lead /\ u.attempts = o.attempts /\ u.closes = o.closes
        /\ u.pc = "asked" <=> o.pc = "asked"
        /\ o # w => u = o
  OBVIOUS
<1>2. \A o \in writing : \E u \in writing' : u.by = o.by /\ u.lead = o.lead
  OBVIOUS
<1>3. Steady'
  <2>1. \A a, b \in writing' : a.by = "dialer" /\ b.by = "dialer" => a = b
    BY DEF ClaimInv, Steady
  <2>2. ImportIsNew'
    BY ImportStays DEF ClaimInv, Steady, RowKept
  <2> QED BY <1>1, <2>1, <2>2 DEF ClaimInv, Steady
<1> SUFFICES ASSUME NEW l \in Leads PROVE LeadInv(l)'
  BY <1>3 DEF ClaimInv
<1>4. LeadInv(l)
  BY DEF ClaimInv
<1>5. /\ NobodyOwes(l)' <=> NobodyOwes(l)
      /\ \A k : (Active(k)' <=> Active(k)) /\ (Unreported(k)' <=> Unreported(k))
  BY DEF NobodyOwes, Active, Unreported
<1>6. Untouched(l)' <=> Untouched(l)
  BY <1>1, <1>2, <1>5 DEF Untouched
<1>7. Unspent(l)' <=> Unspent(l)
  BY DEF Unspent, RowKept
<1>8. OneCallFor(l)' /\ OwesAndHolds(l)' /\ FreeIsUntouched(l)' /\ OutlivedIsOver(l)' /\ Counted(l)'
  BY <1>4, <1>5, <1>6
  DEF LeadInv, OneCallFor, OwesAndHolds, FreeIsUntouched, OutlivedIsOver, Counted, RowKept, Budget
<1>9. WritesAreTheirs(l)'
  BY <1>1, <1>4, <1>5 DEF LeadInv, WritesAreTheirs
<1>10. AbandonedIsReported(l)'
  BY <1>1, <1>2, <1>4 DEF LeadInv, AbandonedIsReported
<1>11. WritesCount(l)' /\ DialerWritesInTurn(l)'
  BY <1>1, <1>4, <1>5 DEF LeadInv, WritesCount, DialerWritesInTurn
<1>12. ChosenIsItsOwn(l)'
  BY <1>4, <1>5, <1>6, <1>7 DEF LeadInv, ChosenIsItsOwn, RowKept
<1>13. AtLeadIsItsOwn(l)'
  BY <1>1, <1>4, <1>5, <1>6, <1>7 DEF LeadInv, AtLeadIsItsOwn
<1> QED BY <1>8, <1>9, <1>10, <1>11, <1>12, <1>13 DEF LeadInv

\* What a run may have written when it returns: its row, or nothing if it failed.
Recorded(w) ==
  /\ lead'[w.lead] \in {lead[w.lead], NewRow(w)}
  /\ \A m \in Leads : m # w.lead => lead'[m] = lead[m]

LEMMA RecordedCounts ==
  ASSUME Typed, NEW w \in writing, NEW l \in Leads, w.lead = l, w.pc # "asked",
         LeadInv(l), Recorded(w), UNCHANGED rings
  PROVE  /\ Counted(l)'
         /\ lead'[l].status = "pending" /\ lead'[l].due => lead'[l] = lead[l]
         /\ lead[l].status # "absent" /\ lead'[l].status # "absent"
<1>1. rings[l] <= w.attempts /\ Counted(l) /\ lead[l].status # "absent"
  BY DEF LeadInv, WritesCount, FreeIsUntouched
<1>2. w.attempts \in Nat /\ rings[l] \in Nat /\ Budget(l) \in Nat /\ w.outcome \in CampaignOutcome
  BY ConstantsAssumption DEF Typed, TypeOK, WriteType, Budget
<1>3. CASE lead'[l] = lead[l]
  BY <1>1, <1>3 DEF Counted, Budget
<1>4. CASE lead'[l] = NewRow(w)
  <2>1. /\ lead'[l].attempts = w.attempts /\ lead'[l].status = NewStatus(w)
        /\ lead'[l].due = (NewStatus(w) # "pending")
    BY <1>4 DEF NewRow, Row
  <2>2. NewStatus(w) \in {"done", "failed", "skipped", "pending"}
    BY <1>2 DEF NewStatus, RetryStatus
  <2>3. NewStatus(w) = "pending" => w.attempts < Budget(l)
    BY <1>2 DEF NewStatus, RetryStatus
  <2> HIDE DEF NewStatus
  <2>4. Budget(l)' = Budget(l)
    BY DEF Budget
  <2>5. lead'[l].status = "pending" => ~lead'[l].due
    BY <2>1
  <2>6. lead'[l].attempts = w.attempts /\ lead'[l].status = NewStatus(w)
    BY <2>1
  <2>7. Counted(l)'
    BY <1>1, <1>2, <2>2, <2>3, <2>4, <2>6 DEF Counted
  <2>8. lead'[l].status # "absent"
    BY <2>2, <2>6
  <2> QED BY <1>1, <2>5, <2>7, <2>8
<1> QED BY <1>1, <1>3, <1>4 DEF Recorded

\* onOutcome's finally gives the claim back; whoever held it has reported.
LEMMA CallReturns ==
  ASSUME ClaimInv, Typed, NEW w \in writing, w.by \in Calls, w.pc # "asked",
         writing' = writing \ {w}, Release(w.lead), Recorded(w),
         call' = IF w.closes THEN [call EXCEPT ![w.by] = FreeCall] ELSE call,
         UNCHANGED <<mode, stopping, tick, op, rings>>
  PROVE  ClaimInv'
<1>1. PICK l \in Leads, k \in Calls : w.lead = l /\ w.by = k
  BY DEF Typed, TypeOK, WriteType
<1>2. /\ "dialer" \notin Calls /\ None \notin Leads
  BY ConstantsAssumption
<1>3. LeadInv(l) /\ Steady
  BY DEF ClaimInv
<1>4. /\ \A j \in Calls : j # k => call'[j] = call[j]
      /\ call'[k] = IF w.closes THEN FreeCall ELSE call[k]
  BY <1>1 DEF Typed, TypeOK
<1>5. FreeCall.phase = "free" /\ FreeCall.lead = None
  BY DEF FreeCall
<1>6. inFlight'[l] = "none" /\ l \notin outlived' /\ outlived' \subseteq outlived
      /\ \A m \in Leads : m # l => inFlight'[m] = inFlight[m]
  BY <1>1 DEF Release, Typed, TypeOK
<1>7. Steady'
  <2>1. \A m \in Leads : lead[m].status = "absent" => lead'[m].status = "absent"
    BY <1>1, <1>3, RecordedCounts DEF Recorded
  <2> QED BY <1>3, <1>4, <1>5, <2>1, ImportStays DEF Steady
<1>8. ASSUME NEW m \in Leads, m # l PROVE LeadInv(m)'
  <2>1. call[k].lead # m
    BY <1>1, <1>2, <1>3, <1>8 DEF Steady
  <2>2. Apart(m)
    BY <1>1, <1>2, <1>4, <1>5, <1>6, <1>8, <2>1 DEF Apart, RowKept, Recorded
  <2> QED BY <2>2, OthersStay DEF ClaimInv
<1>9. LeadInv(l)'
  <2>1. \A j \in Calls : call[j].lead = l /\ Active(j) =>
          /\ j = k /\ ~Unreported(j) /\ call[j].phase \notin {"parked", "ringing", "claiming"}
    BY <1>1, <1>2, <1>3 DEF LeadInv, WritesAreTheirs
  <2>2. \A j \in Calls : call'[j].lead = l => call'[j] = call[j]
    BY <1>2, <1>4, <1>5
  <2>3. \A j \in Calls : call'[j].lead = l =>
          (Active(j)' <=> Active(j)) /\ (Unreported(j)' <=> Unreported(j))
    BY <2>2 DEF Active, Unreported
  <2>4. NobodyOwes(l) /\ NobodyOwes(l)' /\ ~Untouched(l)
    BY <1>1, <1>2, <2>1, <2>2, <2>3 DEF NobodyOwes, Untouched, Unreported, Active
  <2>5. OneCallFor(l)' /\ OwesAndHolds(l)' /\ OutlivedIsOver(l)'
    BY <2>1, <2>2, <2>3, <2>4 DEF OneCallFor, OwesAndHolds, OutlivedIsOver
  <2>6. WritesAreTheirs(l)'
    BY <1>3, <2>2, <2>3 DEF LeadInv, WritesAreTheirs
  <2>7. AbandonedIsReported(l)'
    <3>1. \A j \in Calls : call'[j].lead = l => call'[j].phase # "abandoned"
      BY <1>1, <1>3, <1>4, <1>5, <2>1, <2>2 DEF LeadInv, AbandonedIsReported, Active
    <3> QED BY <3>1 DEF AbandonedIsReported
  <2>8. Counted(l)' /\ FreeIsUntouched(l)'
    BY <1>1, <1>3, <2>4, RecordedCounts DEF LeadInv, FreeIsUntouched
  <2>9. WritesCount(l)' /\ DialerWritesInTurn(l)'
    BY <1>3, <2>4 DEF LeadInv, WritesCount, DialerWritesInTurn
  <2>10. ChosenIsItsOwn(l)' /\ AtLeadIsItsOwn(l)'
    BY <1>1, <1>3, <1>6, <2>4, RecordedCounts DEF LeadInv, ChosenIsItsOwn, AtLeadIsItsOwn
  <2> QED BY <2>5, <2>6, <2>7, <2>8, <2>9, <2>10 DEF LeadInv
<1> QED BY <1>7, <1>8, <1>9 DEF ClaimInv

\* The dialer's own outcome, of the claim it sweeps or of the lead it may not call.
LEMMA DialerReturns ==
  ASSUME ClaimInv, Typed, NEW w \in writing, w.by = "dialer",
         writing' = writing \ {w}, Recorded(w),
         \/ tick.pc = "sweep" /\ UNCHANGED <<inFlight, outlived, tick>>
         \/ /\ tick.pc = "refuse" /\ Release(w.lead)
            /\ tick' = [tick EXCEPT !.pc = "dial", !.lead = None, !.call = None]
         \/ /\ tick.pc = "refuse" /\ UNCHANGED <<lead, inFlight, outlived>>
            /\ tick' = [tick EXCEPT !.pc = "undo"],
         UNCHANGED <<mode, stopping, call, op, rings>>
  PROVE  ClaimInv'
<1>1. PICK l \in Leads : w.lead = l
  BY DEF Typed, TypeOK, WriteType
<1>2. "dialer" \notin Calls /\ None \notin Leads
  BY ConstantsAssumption
<1>3. LeadInv(l) /\ Steady
  BY DEF ClaimInv
<1>4. \A u \in writing' : u.by # "dialer"
  BY <1>3 DEF Steady
<1>6. /\ w.pc # "asked"
      /\ tick.pc = "refuse" => tick.lead = l /\ l \notin tick.todo /\ Untouched(l) /\ Unspent(l)
      /\ tick.pc = "sweep" => NobodyOwes(l)
  BY <1>1, <1>3 DEF LeadInv, DialerWritesInTurn, ChosenIsItsOwn, AtLeadIsItsOwn, AtLead, Dialling
<1>5. Steady'
  <2>1. \A m \in Leads : lead[m].status = "absent" => lead'[m].status = "absent"
    BY <1>1, <1>3, <1>6, RecordedCounts DEF Recorded
  <2> QED BY <1>3, <2>1, ImportStays DEF Steady
<1>7. NobodyOwes(l)
  BY <1>6 DEF Untouched, NobodyOwes, Unreported, Active
<1>8. /\ \A m \in Leads : m # l => inFlight'[m] = inFlight[m]
      /\ outlived' \subseteq outlived
  BY <1>1 DEF Release, Typed, TypeOK
<1>9. /\ tick.pc \in {"sweep", "refuse"} /\ tick'.todo = tick.todo
      /\ tick.pc = "sweep" => tick' = tick
      /\ tick.pc = "refuse" => \/ tick'.pc = "dial" /\ tick'.lead = None
                               \/ tick'.pc = "undo" /\ tick'.lead = l /\ lead' = lead
  BY <1>6 DEF Typed, TypeOK, TickType
<1>10. ASSUME NEW m \in Leads, m # l PROVE LeadInv(m)'
  <2>1. Apart(m)
    BY <1>1, <1>8, <1>10 DEF Apart, RowKept, Recorded
  <2>2. CASE tick.pc = "sweep"
    BY <1>9, <2>1, <2>2, OthersStay DEF ClaimInv
  <2>3. CASE tick.pc = "refuse"
    BY <1>6, <1>9, <1>10, <2>1, <2>3, OthersOfDial DEF Dialling, AtLead
  <2> QED BY <1>9, <2>2, <2>3
<1>11. LeadInv(l)'
  <2>1. /\ NobodyOwes(l)'
        /\ Untouched(l) => Untouched(l)'
        /\ \A j : (Active(j)' <=> Active(j)) /\ (Unreported(j)' <=> Unreported(j))
    BY <1>7 DEF NobodyOwes, Untouched, Active, Unreported
  <2>2. OneCallFor(l)' /\ OwesAndHolds(l)' /\ OutlivedIsOver(l)' /\ WritesCount(l)'
    BY <1>3, <2>1 DEF LeadInv, OneCallFor, OwesAndHolds, OutlivedIsOver, WritesCount
  <2>3. WritesAreTheirs(l)'
    BY <1>3, <2>1 DEF LeadInv, WritesAreTheirs
  <2>4. AbandonedIsReported(l)'
    BY <1>2, <1>3 DEF LeadInv, AbandonedIsReported
  <2>5. Counted(l)'
    BY <1>1, <1>3, <1>6, RecordedCounts
  <2>6. FreeIsUntouched(l)'
    BY <1>1, <1>3, <1>6, <2>1, RecordedCounts DEF LeadInv, FreeIsUntouched
  <2>7. DialerWritesInTurn(l)'
    BY <1>4 DEF DialerWritesInTurn
  <2>8. ChosenIsItsOwn(l)'
    BY <1>1, <1>3, <1>6, <1>9, <2>1, RecordedCounts DEF LeadInv, ChosenIsItsOwn, Dialling
  <2>9. AtLeadIsItsOwn(l)'
    BY <1>2, <1>6, <1>9, <2>1 DEF AtLeadIsItsOwn, Unspent
  <2> QED BY <2>2, <2>3, <2>4, <2>5, <2>6, <2>7, <2>8, <2>9 DEF LeadInv
<1> QED BY <1>5, <1>10, <1>11 DEF ClaimInv

LEMMA OutcomeIsRecorded ==
  ASSUME ClaimInv, Typed, NEW w \in writing, WriteStep(w)
  PROVE  ClaimInv'
<1> USE DEF db, proc, ghosts
<1>1. CASE TellAsked(w)
  BY <1>1, AskedIsTold
<1>2. CASE ListOutcome(w) \/ SkipOutcome(w) \/ UpdateLead(w)
  <2>1. PICK v : /\ writing' = (writing \ {w}) \cup {v}
                 /\ w.pc # "asked" /\ v.pc # "asked"
                 /\ v.by = w.by /\ v.lead = w.lead /\ v.attempts = w.attempts /\ v.closes = w.closes
    <3>1. w \in WriteType
      BY DEF Typed, TypeOK
    <3>2. CASE ListOutcome(w)
      <4> DEFINE v == [w EXCEPT !.pc = "skip"]
      <4>1. writing' = (writing \ {w}) \cup {v} /\ w.pc = "list"
        BY <3>2 DEF ListOutcome
      <4>2. /\ v.pc = "skip" /\ v.by = w.by /\ v.lead = w.lead
            /\ v.attempts = w.attempts /\ v.closes = w.closes
        BY <3>1 DEF WriteType
      <4> QED BY <4>1, <4>2
    <3>3. CASE SkipOutcome(w)
      <4> DEFINE v == [w EXCEPT !.pc = "update"]
      <4>1. writing' = (writing \ {w}) \cup {v} /\ w.pc = "skip"
        BY <3>3 DEF SkipOutcome
      <4>2. /\ v.pc = "update" /\ v.by = w.by /\ v.lead = w.lead
            /\ v.attempts = w.attempts /\ v.closes = w.closes
        BY <3>1 DEF WriteType
      <4> QED BY <4>1, <4>2
    <3>4. CASE UpdateLead(w)
      <4> DEFINE v == [w EXCEPT !.pc = "commit", !.last = w.running /\ EmptiesQueue(w)]
      <4>1. writing' = (writing \ {w}) \cup {v} /\ w.pc = "update"
        BY <3>4 DEF UpdateLead
      <4>2. /\ v.pc = "commit" /\ v.by = w.by /\ v.lead = w.lead
            /\ v.attempts = w.attempts /\ v.closes = w.closes
        BY <3>1 DEF WriteType
      <4> QED BY <4>1, <4>2
    <3> QED BY <1>2, <3>2, <3>3, <3>4
  <2>2. \A m \in Leads : RowKept(m)
    BY <1>2, SkipKeepsRows DEF ListOutcome, SkipOutcome, UpdateLead
  <2>3. UNCHANGED <<mode, stopping, inFlight, outlived, tick, call, op, rings>>
    BY <1>2 DEF ListOutcome, SkipOutcome, UpdateLead
  <2> QED BY <2>1, <2>2, <2>3, WriteGoesOn
<1>3. CASE Commit(w) \/ FailWrite(w)
  <2>1. w.pc # "asked" /\ UNCHANGED <<mode, stopping, rings>> /\ w.by # "operator"
    BY <1>3 DEF Commit, FailWrite, ClaimInv, Steady
  <2>2. Recorded(w)
    BY <1>3 DEF Commit, FailWrite, Recorded, Typed, TypeOK, WriteType
  <2>3. CASE Return(w) /\ w.by \in Calls
    <3>1. "dialer" \notin Calls
      BY ConstantsAssumption
    <3>2. /\ writing' = writing \ {w} /\ Release(w.lead) /\ UNCHANGED <<tick, op>>
          /\ call' = IF w.closes THEN [call EXCEPT ![w.by] = FreeCall] ELSE call
      BY <2>1, <2>3, <3>1 DEF Return
    <3> QED BY <2>1, <2>2, <2>3, <3>2, CallReturns
  <2>4. CASE Return(w) /\ w.by = "dialer"
    <3>1. "dialer" \notin Calls
      BY ConstantsAssumption
    <3>2. /\ writing' = writing \ {w} /\ UNCHANGED <<call, op>>
          /\ \/ tick.pc = "sweep" /\ UNCHANGED <<inFlight, outlived, tick>>
             \/ /\ tick.pc = "refuse" /\ Release(w.lead)
                /\ tick' = [tick EXCEPT !.pc = "dial", !.lead = None, !.call = None]
      BY <2>4, <3>1 DEF Return
    <3> QED BY <2>1, <2>2, <2>4, <3>2, DialerReturns
  <2>5. CASE ~Return(w)
    BY <1>3, <2>1, <2>2, <2>5, DialerReturns DEF Commit, FailWrite
  <2>6. w.by \in Calls \cup {"dialer", "operator"}
    BY DEF Typed, TypeOK, WriteType
  <2> QED BY <2>1, <2>3, <2>4, <2>5, <2>6
<1> QED BY <1>1, <1>2, <1>3 DEF WriteStep, RecordDialOutcome

(***************************************************************************)
(* The calls, the supervisor, the process and the clock.                   *)
(***************************************************************************)
\* No lead is concerned.
LEMMA NothingMoves ==
  ASSUME ClaimInv, Typed, \A m \in Leads : RowKept(m),
         UNCHANGED <<mode, stopping, inFlight, outlived, tick, call, writing, op, rings>>
  PROVE  ClaimInv'
<1>1. Steady'
  BY ImportStays DEF ClaimInv, Steady, RowKept
<1>2. ASSUME NEW m \in Leads PROVE LeadInv(m)'
  BY OthersStay DEF Apart, ClaimInv
<1> QED BY <1>1, <1>2 DEF ClaimInv

\* The phone is picked up, and the call registered.
LEMMA CallAdvances ==
  ASSUME ClaimInv, Typed, NEW k \in Calls, Answer(k) \/ Register(k)
  PROVE  ClaimInv'
<1> USE DEF Answer, Register, db, proc, ghosts
<1>1. PICK l \in Leads : call[k].lead = l
  BY DEF Typed, References, CallsHaveLeads
<1>2. /\ call[k].phase \in {"ringing", "claiming"}
      /\ call'[k].lead = l /\ call'[k].phase \in {"claiming", "talking"}
      /\ call'[k].told = call[k].told
      /\ \A j \in Calls : j # k => call'[j] = call[j]
  BY <1>1 DEF Typed, TypeOK, CallType
<1>3. UNCHANGED <<lead, mode, stopping, inFlight, outlived, tick, writing, op, rings>>
  OBVIOUS
<1> HIDE DEF Answer, Register
<1>4. Steady'
  BY <1>1, <1>2, <1>3 DEF ClaimInv, Steady, ImportIsNew
<1>5. ASSUME NEW m \in Leads, m # l PROVE LeadInv(m)'
  <2>1. Apart(m)
    BY <1>1, <1>2, <1>3, <1>5 DEF Apart, RowKept
  <2> QED BY <1>3, <2>1, OthersStay DEF ClaimInv
<1>6. LeadInv(l)'
  <2>1. LeadInv(l)
    BY DEF ClaimInv
  <2>2. /\ \A j \in Calls : (Active(j)' <=> Active(j)) /\ (Unreported(j)' <=> Unreported(j))
        /\ \A j \in Calls : call'[j].lead = call[j].lead
    BY <1>1, <1>2 DEF Active, Unreported
  <2>3. Active(k)
    BY <1>2 DEF Active
  <2>4. \A w \in writing : w.lead = l => w.by = "dialer"
    BY <1>1, <1>2, <2>1, <2>3 DEF LeadInv, WritesAreTheirs
  <2>5. NobodyOwes(l)' <=> NobodyOwes(l)
    BY <2>2 DEF NobodyOwes
  <2>6. Untouched(l)' <=> Untouched(l)
    BY <1>3, <2>2 DEF Untouched
  <2>7. OneCallFor(l)' /\ OwesAndHolds(l)' /\ OutlivedIsOver(l)' /\ FreeIsUntouched(l)'
    BY <1>3, <2>1, <2>2, <2>5, <2>6 DEF LeadInv, OneCallFor, OwesAndHolds, OutlivedIsOver, FreeIsUntouched
  <2>8. WritesAreTheirs(l)'
    BY <1>3, <2>4 DEF WritesAreTheirs
  <2>9. AbandonedIsReported(l)'
    BY <1>2, <1>3, <2>1 DEF LeadInv, AbandonedIsReported
  <2>10. Counted(l)' /\ WritesCount(l)'
    BY <1>3, <2>1 DEF LeadInv, Counted, WritesCount, Budget
  <2>11. DialerWritesInTurn(l)' /\ ChosenIsItsOwn(l)'
    BY <1>3, <2>1, <2>5, <2>6 DEF LeadInv, DialerWritesInTurn, ChosenIsItsOwn, Unspent
  <2>12. AtLeadIsItsOwn(l)'
    <3>1. tick.lead = l /\ tick.pc = "originate" => tick.call \in Calls /\ tick.call # k
      BY <1>2, <2>1 DEF LeadInv, AtLeadIsItsOwn, Typed, References
    <3> QED BY <1>2, <1>3, <2>1, <2>5, <2>6, <3>1 DEF LeadInv, AtLeadIsItsOwn, Unspent
  <2> QED BY <2>7, <2>8, <2>9, <2>10, <2>11, <2>12 DEF LeadInv
<1> QED BY <1>4, <1>5, <1>6 DEF ClaimInv

\* The line of a call goes down, reported or not, and nobody acts for it any more.
LEMMA CallQuits ==
  ASSUME ClaimInv, Typed, NEW k \in Calls, call[k].phase = "talking",
         \A j \in Calls : j # k => call'[j] = call[j],
         \/ call'[k].phase = "ended" /\ call'[k].lead = call[k].lead
         \/ call'[k].phase = "free" /\ call'[k].lead = None,
         UNCHANGED <<lead, mode, stopping, inFlight, outlived, tick, writing, op, rings>>
  PROVE  ClaimInv'
<1>1. PICK l \in Leads : call[k].lead = l
  BY DEF Typed, References, CallsHaveLeads
<1>2. None \notin Leads
  BY ConstantsAssumption
<1>3. Steady'
  BY DEF ClaimInv, Steady, ImportIsNew
<1>4. ASSUME NEW m \in Leads, m # l PROVE LeadInv(m)'
  <2>1. Apart(m)
    BY <1>1, <1>2, <1>4 DEF Apart, RowKept
  <2> QED BY <2>1, OthersStay DEF ClaimInv
<1>5. LeadInv(l)'
  <2>1. LeadInv(l)
    BY DEF ClaimInv
  <2>2. /\ \A j \in Calls : Active(j)' => j # k /\ Active(j)
        /\ \A j \in Calls : Unreported(j)' => j # k /\ Unreported(j)
        /\ \A j \in Calls : j # k => call'[j].lead = call[j].lead
    BY DEF Active, Unreported
  <2>3. NobodyOwes(l) => NobodyOwes(l)'
    BY <2>2 DEF NobodyOwes
  <2>4. Untouched(l) => Untouched(l)'
    BY <2>2 DEF Untouched
  <2>5. OneCallFor(l)' /\ OwesAndHolds(l)' /\ OutlivedIsOver(l)' /\ FreeIsUntouched(l)'
    BY <2>1, <2>2, <2>3, <2>4 DEF LeadInv, OneCallFor, OwesAndHolds, OutlivedIsOver, FreeIsUntouched
  <2>6. WritesAreTheirs(l)' /\ AbandonedIsReported(l)'
    BY <2>1, <2>2 DEF LeadInv, WritesAreTheirs, AbandonedIsReported
  <2>7. Counted(l)' /\ WritesCount(l)'
    BY <2>1 DEF LeadInv, Counted, WritesCount, Budget
  <2>8. DialerWritesInTurn(l)' /\ ChosenIsItsOwn(l)'
    BY <2>1, <2>3, <2>4 DEF LeadInv, DialerWritesInTurn, ChosenIsItsOwn, Unspent
  <2>9. AtLeadIsItsOwn(l)'
    <3>1. tick.lead = l /\ tick.pc = "originate" => tick.call \in Calls /\ tick.call # k
      BY <2>1 DEF LeadInv, AtLeadIsItsOwn, Typed, References
    <3> QED BY <2>1, <2>3, <2>4, <3>1 DEF LeadInv, AtLeadIsItsOwn, Unspent
  <2> QED BY <2>5, <2>6, <2>7, <2>8, <2>9 DEF LeadInv
<1> QED BY <1>3, <1>4, <1>5 DEF ClaimInv

LEMMA CallGoesOn ==
  ASSUME ClaimInv, Typed, NEW k \in Calls, CallStep(k)
  PROVE  ClaimInv'
<1> USE DEF db, proc, ghosts
<1>1. /\ call[k].phase # "orphan" /\ stopping = {}
      /\ call \in [Calls -> CallType]
  BY DEF ClaimInv, Steady, Typed, TypeOK
<1>2. CASE Answer(k) \/ Register(k)
  BY <1>2, CallAdvances
<1>3. CASE TellOptOut(k)
  BY <1>3, CallOptsOut
<1>4. CASE Unanswered(k) \/ TellOutcome(k) \/ (HangUp(k) /\ call[k].told = "no")
  BY <1>4, CallGivesItsOutcome
<1>5. CASE HangUp(k) /\ call[k].told # "no"
  <2>1. call[k].phase = "talking" /\ call' = [call EXCEPT ![k] = FreeCall] /\ UNCHANGED <<inFlight, writing>>
    BY <1>1, <1>5 DEF HangUp
  <2>2. call'[k].phase = "free" /\ call'[k].lead = None /\ \A j \in Calls : j # k => call'[j] = call[j]
    BY <1>1, <2>1 DEF FreeCall
  <2>3. UNCHANGED <<lead, mode, stopping, outlived, tick, op, rings>>
    BY <1>5 DEF HangUp
  <2> QED BY <2>1, <2>2, <2>3, CallQuits
<1>6. CASE LoseHangUp(k)
  <2>1. /\ call[k].phase = "talking" /\ call' = [call EXCEPT ![k].phase = "ended"]
        /\ UNCHANGED <<lead, mode, stopping, inFlight, outlived, tick, writing, op, rings>>
    BY <1>6 DEF LoseHangUp
  <2>2. /\ call'[k].phase = "ended" /\ call'[k].lead = call[k].lead
        /\ \A j \in Calls : j # k => call'[j] = call[j]
    BY <1>1, <2>1 DEF CallType
  <2> QED BY <2>1, <2>2, CallQuits
<1>7. ~OrphanEnds(k)
  BY <1>1 DEF OrphanEnds
<1> QED BY <1>2, <1>3, <1>4, <1>5, <1>6, <1>7 DEF CallStep, CallEnds

\* A lead that is not in the list yet is imported: it is pending, and nobody's.
LEMMA LeadIsImported ==
  ASSUME ClaimInv, Typed, ApplyPatch
  PROVE  ClaimInv'
<1> USE DEF ApplyPatch, db, proc, ghosts
<1>1. PICK l \in Leads : op.lead = l /\ op.act = "import" /\ lead[l].status = "absent"
  BY DEF ClaimInv, Steady, ImportIsNew, Typed, References
<1>2. /\ lead'[l].status = "pending" /\ lead'[l].attempts = lead[l].attempts
      /\ \A m \in Leads : m # l => lead'[m] = lead[m]
  BY <1>1 DEF Row, Typed, TypeOK
<1>3. UNCHANGED <<mode, stopping, inFlight, outlived, tick, call, writing, rings>> /\ op' = NoOp
  OBVIOUS
<1> HIDE DEF ApplyPatch
<1>4. Steady'
  BY <1>3 DEF ClaimInv, Steady, ImportIsNew, NoOp
<1>5. ASSUME NEW m \in Leads, m # l PROVE LeadInv(m)'
  <2>1. Apart(m)
    BY <1>2, <1>3, <1>5 DEF Apart, RowKept
  <2> QED BY <1>3, <2>1, OthersStay DEF ClaimInv
<1>6. LeadInv(l)'
  <2>1. LeadInv(l) /\ Untouched(l) /\ \A w \in writing : w.lead # l
    BY <1>1 DEF ClaimInv, LeadInv, FreeIsUntouched
  <2>2. NobodyOwes(l)
    BY <2>1 DEF Untouched, NobodyOwes, Unreported, Active
  <2>3. /\ NobodyOwes(l)' /\ Untouched(l)'
        /\ \A k : (Active(k)' <=> Active(k)) /\ (Unreported(k)' <=> Unreported(k))
    BY <1>3, <2>1, <2>2 DEF NobodyOwes, Untouched, Active, Unreported
  <2>4. /\ OneCallFor(l)' /\ OwesAndHolds(l)' /\ WritesAreTheirs(l)' /\ AbandonedIsReported(l)'
        /\ OutlivedIsOver(l)' /\ WritesCount(l)' /\ DialerWritesInTurn(l)'
    BY <1>3, <2>1, <2>3 DEF LeadInv, OneCallFor, OwesAndHolds, WritesAreTheirs, AbandonedIsReported,
       OutlivedIsOver, WritesCount, DialerWritesInTurn
  <2>5. FreeIsUntouched(l)' /\ Counted(l)'
    BY <1>1, <1>2, <1>3, <2>1, <2>3 DEF LeadInv, FreeIsUntouched, Counted, Budget
  <2>6. ChosenIsItsOwn(l)' /\ AtLeadIsItsOwn(l)'
    BY <1>1, <1>2, <1>3, <2>1, <2>3 DEF LeadInv, ChosenIsItsOwn, AtLeadIsItsOwn, Unspent
  <2> QED BY <2>4, <2>5, <2>6 DEF LeadInv
<1> QED BY <1>4, <1>5, <1>6 DEF ClaimInv

\* Otherwise the supervisor of a calm deployment starts and stops campaigns and
\* lists phones: no row changes, or one is skipped in the queue.
LEMMA SupervisorIsApart ==
  ASSUME ClaimInv, Typed, Calm, SupervisorStep
  PROVE  ClaimInv'
<1> USE DEF db, proc, ghosts
<1>1. op.act \in {"none", "import"}
  BY DEF ClaimInv, Steady, ImportIsNew
<1>2. CASE \E c \in Campaigns, action \in {"start", "pause", "cancel"} : ApplyTransition(c, action)
  BY <1>2, NothingMoves DEF ApplyTransition, RowKept
<1>3. ASSUME NEW p \in Phones, ListByHand(p) \/ RemoveFromList(p) PROVE ClaimInv'
  BY <1>3, NothingMoves DEF ListByHand, RemoveFromList, RowKept
<1>4. ASSUME NEW p \in Phones, SkipListed(p) PROVE ClaimInv'
  <2>1. \A m \in Leads : RowKept(m)
    BY <1>4, SkipKeepsRows DEF SkipListed
  <2> QED BY <1>4, <2>1, NothingMoves DEF SkipListed
<1>5. ASSUME NEW l \in Leads, NEW act \in {"skip", "requeue", "outcome", "import"}, OpenPatch(l, act)
      PROVE  ClaimInv'
  <2>1. /\ act = "import" /\ lead[l].status = "absent" /\ op' = [act |-> act, lead |-> l]
        /\ UNCHANGED <<lead, mode, stopping, inFlight, outlived, tick, call, writing, rings>>
    BY <1>5 DEF OpenPatch, Calm
  <2>2. Steady'
    BY <2>1 DEF ClaimInv, Steady, ImportIsNew
  <2>3. ASSUME NEW m \in Leads PROVE LeadInv(m)'
    BY <2>1, OthersStay DEF Apart, RowKept, ClaimInv
  <2> QED BY <2>2, <2>3 DEF ClaimInv
<1>6. ~RecordByHand
  BY <1>1 DEF RecordByHand
<1> QED BY <1>2, <1>3, <1>4, <1>5, <1>6, LeadIsImported DEF SupervisorStep

\* A crash takes every call with it: what it leaves is rows.
LEMMA CrashIsClean ==
  ASSUME ClaimInv, Typed, Calm, ProcessStep
  PROVE  ClaimInv'
<1>1. mode = "up"
  BY DEF ClaimInv, Steady
<1>2. Reboot
  BY <1>1 DEF ProcessStep, ReleaseInFlightClaims, StopVoicePlatform, Exit, Crash, Calm
<1>3. /\ \A k \in Calls : call'[k] = FreeCall
      /\ mode' = "up" /\ writing' = {} /\ op' = NoOp /\ stopping' = {} /\ outlived' = {}
      /\ tick' = IdleTick /\ UNCHANGED <<lead, rings>>
  BY <1>2 DEF Reboot, Calm, db, ghosts
<1>4. FreeCall.phase = "free" /\ FreeCall.lead = None /\ None \notin Leads /\ NoOp.act = "none"
  BY ConstantsAssumption DEF FreeCall, NoOp
<1>5. tick'.pc = "idle" /\ tick'.todo = {} /\ tick'.lead = None
  BY <1>3 DEF IdleTick
<1>6. Steady'
  BY <1>3, <1>4 DEF Steady, ImportIsNew
<1> SUFFICES ASSUME NEW l \in Leads PROVE LeadInv(l)'
  BY <1>6 DEF ClaimInv
<1>7. LeadInv(l)
  BY DEF ClaimInv
<1>8. \A k \in Calls : call'[k].lead # l
  BY <1>3, <1>4
<1>9. NobodyOwes(l)' /\ Untouched(l)'
  BY <1>3, <1>8 DEF NobodyOwes, Untouched
<1>10. OneCallFor(l)' /\ OwesAndHolds(l)' /\ FreeIsUntouched(l)' /\ OutlivedIsOver(l)'
  BY <1>3, <1>8, <1>9 DEF OneCallFor, OwesAndHolds, FreeIsUntouched, OutlivedIsOver
<1>11. /\ WritesAreTheirs(l)' /\ AbandonedIsReported(l)' /\ WritesCount(l)' /\ DialerWritesInTurn(l)'
       /\ ChosenIsItsOwn(l)' /\ AtLeadIsItsOwn(l)'
  BY <1>3, <1>4, <1>5, <1>8
  DEF WritesAreTheirs, AbandonedIsReported, WritesCount, DialerWritesInTurn, ChosenIsItsOwn, AtLeadIsItsOwn
<1>12. Counted(l)'
  BY <1>3, <1>7 DEF LeadInv, Counted, Budget
<1> QED BY <1>10, <1>11, <1>12 DEF LeadInv

\* A claim whose calls are over, or reported long ago, is owed nothing.
LEMMA ClaimIsOutlived ==
  ASSUME ClaimInv, Typed, Calm, NEW l \in Leads, ClaimOutlives(l)
  PROVE  ClaimInv'
<1> USE DEF ClaimOutlives, db, proc, ghosts
<1>1. Steady'
  BY DEF ClaimInv, Steady, ImportIsNew
<1>2. /\ outlived' = outlived \cup {l} /\ tick.lead # l
      /\ UNCHANGED <<lead, mode, stopping, inFlight, tick, call, writing, op, rings>>
  BY DEF HeldByTick
<1>3. NobodyOwes(l)
  BY DEF Calm, CallsOf, NobodyOwes, Unreported
<1> HIDE DEF ClaimOutlives
<1>4. ASSUME NEW m \in Leads, m # l PROVE LeadInv(m)'
  <2>1. Apart(m)
    BY <1>2, <1>4 DEF Apart, RowKept
  <2> QED BY <1>2, <2>1, OthersStay DEF ClaimInv
<1>5. LeadInv(l)'
  <2>1. LeadInv(l)
    BY DEF ClaimInv
  <2>2. /\ NobodyOwes(l)'
        /\ Untouched(l)' <=> Untouched(l)
        /\ \A k : (Active(k)' <=> Active(k)) /\ (Unreported(k)' <=> Unreported(k))
    BY <1>2, <1>3 DEF NobodyOwes, Untouched, Active, Unreported
  <2>3. /\ OneCallFor(l)' /\ OwesAndHolds(l)' /\ WritesAreTheirs(l)' /\ AbandonedIsReported(l)'
        /\ FreeIsUntouched(l)' /\ OutlivedIsOver(l)' /\ Counted(l)' /\ WritesCount(l)'
    BY <1>2, <2>1, <2>2 DEF LeadInv, OneCallFor, OwesAndHolds, WritesAreTheirs, AbandonedIsReported,
       FreeIsUntouched, OutlivedIsOver, Counted, WritesCount, Budget
  <2>4. DialerWritesInTurn(l)' /\ ChosenIsItsOwn(l)' /\ AtLeadIsItsOwn(l)'
    BY <1>2, <2>1, <2>2 DEF LeadInv, DialerWritesInTurn, ChosenIsItsOwn, AtLeadIsItsOwn, Unspent
  <2> QED BY <2>3, <2>4 DEF LeadInv
<1> QED BY <1>1, <1>4, <1>5 DEF ClaimInv

\* A retry falls due after the lead's last call: whoever is left of it still owes
\* its outcome, and then the lead is not pending.
LEMMA RetryIsUntouched ==
  ASSUME ClaimInv, Typed, NEW l \in Leads, RetryFallsDue(l)
  PROVE  ClaimInv'
<1> USE DEF RetryFallsDue, db, proc, ghosts
<1>1. Steady'
  BY DEF ClaimInv, Steady, ImportIsNew
<1>2. /\ lead[l].status = "pending" /\ \A w \in writing : w.lead # l
      /\ lead'[l].status = "pending" /\ lead'[l].attempts = lead[l].attempts
      /\ \A m \in Leads : m # l => lead'[m] = lead[m]
      /\ UNCHANGED <<mode, stopping, inFlight, outlived, tick, call, writing, op, rings>>
  BY DEF BeingWritten, Typed, TypeOK, RowType
<1>3. LeadInv(l)
  BY DEF ClaimInv
<1>4. ASSUME NEW m \in Leads, m # l PROVE LeadInv(m)'
  <2>1. Apart(m)
    BY <1>2, <1>4 DEF Apart, RowKept
  <2> QED BY <1>2, <2>1, OthersStay DEF ClaimInv
<1>5. NobodyOwes(l)
  BY <1>2, <1>3 DEF LeadInv, OwesAndHolds
<1>6. Untouched(l)
  <2>1. ASSUME NEW k \in Calls, call[k].lead = l, Active(k) PROVE FALSE
    <3>1. call[k].told = "no"
      BY <2>1 DEF Active, CallsOf, OutlastsRetry
    <3>2. call[k].phase \notin {"parked", "ringing", "claiming", "talking"}
      BY <1>5, <2>1, <3>1 DEF NobodyOwes, Unreported
    <3>3. call[k].phase # "abandoned"
      BY <1>2, <1>3, <2>1 DEF LeadInv, AbandonedIsReported
    <3>4. call[k].phase \notin {"orphan", "ending"}
      BY <3>1 DEF ClaimInv, Steady
    <3> QED BY <2>1, <3>2, <3>3, <3>4 DEF Active, Typed, TypeOK, CallType
  <2> QED BY <1>2, <2>1 DEF Untouched
<1> HIDE DEF RetryFallsDue
<1>7. LeadInv(l)'
  <2>1. /\ NobodyOwes(l)' /\ Untouched(l)'
        /\ \A k : (Active(k)' <=> Active(k)) /\ (Unreported(k)' <=> Unreported(k))
    BY <1>2, <1>5, <1>6 DEF NobodyOwes, Untouched, Active, Unreported
  <2>2. /\ OneCallFor(l)' /\ OwesAndHolds(l)' /\ WritesAreTheirs(l)' /\ AbandonedIsReported(l)'
        /\ FreeIsUntouched(l)' /\ OutlivedIsOver(l)' /\ Counted(l)' /\ WritesCount(l)'
    BY <1>2, <1>3, <2>1 DEF LeadInv, OneCallFor, OwesAndHolds, WritesAreTheirs, AbandonedIsReported,
       FreeIsUntouched, OutlivedIsOver, Counted, WritesCount, Budget
  <2>3. DialerWritesInTurn(l)' /\ ChosenIsItsOwn(l)' /\ AtLeadIsItsOwn(l)'
    BY <1>2, <1>3, <2>1 DEF LeadInv, DialerWritesInTurn, ChosenIsItsOwn, AtLeadIsItsOwn, Unspent
  <2> QED BY <2>2, <2>3 DEF LeadInv
<1> QED BY <1>1, <1>4, <1>7 DEF ClaimInv

LEMMA StepClaims == ASSUME Calm, Typed, ClaimInv, [Next]_vars PROVE ClaimInv'
<1>1. CASE DialerStep
  <2>1. ASSUME NEW l \in Leads, SweepLead(l) PROVE ClaimInv'
    BY <2>1, SweepRecords
  <2>2. ASSUME NEW l \in Leads, DialLead(l) PROVE ClaimInv'
    BY <2>2, DialBegins
  <2> QED
    BY <1>1, <2>1, <2>2, TickReads, SweepStarts, PruneForgets, ClaimTakes, CallIsPlaced,
       DialEnds, CallOriginates, DialWaits
    DEF DialerStep
<1>2. ASSUME NEW l \in Leads, ClaimAges(l) PROVE ClaimInv'
  <2>1. \A m \in Leads : RowKept(m)
    BY <1>2 DEF ClaimAges, RowKept, Typed, TypeOK, RowType
  <2> QED BY <1>2, <2>1, NothingMoves DEF ClaimAges, proc, ghosts
<1>3. CASE UNCHANGED vars
  BY <1>3, NothingMoves DEF vars, RowKept
<1> QED
  BY <1>1, <1>2, <1>3, OutcomeIsRecorded, CallGoesOn, SupervisorIsApart, CrashIsClean,
     ClaimIsOutlived, RetryIsUntouched
  DEF Next

\* The claims of every lead are in order in every state of a calm deployment:
\* each lead has one call at most that acts for it, what owes an outcome holds
\* its claim, and what the tick has chosen is nobody else's.
THEOREM ClaimsHold == Calm => (Spec => []ClaimInv)
<1>1. Calm /\ Init => ClaimInv
  BY ClaimsStart
<1>2. Calm /\ Typed /\ ClaimInv /\ [Next]_vars => ClaimInv'
  BY StepClaims
<1>3. SUFFICES ASSUME Calm PROVE Spec => []ClaimInv
  OBVIOUS
<1> QED BY <1>1, <1>2, <1>3, TypeCorrect, PTL DEF Spec

\* What keeps a conversation from being swept away, redialled or taken from the
\* claims of the process: while a phone rings or is off the hook and its outcome
\* has not been told, the claim is in memory and the row says calling.
THEOREM CallsHoldTheirClaims == Calm => (Spec => []LiveCallHoldsClaim)
<1>1. ClaimInv /\ Typed => LiveCallHoldsClaim
  BY DEF ClaimInv, Steady, LeadInv, OwesAndHolds, NobodyOwes, Unreported, LiveCallHoldsClaim, Live,
         Typed, References, CallsHaveLeads
<1> QED BY <1>1, ClaimsHold, TypeCorrect, PTL

\* A person is on one call at a time, although no lock says so: the claim, the
\* sweep, the reports of the calls and the retry delays keep it between them.
THEOREM OneCallAtATime == Calm => (Spec => []NoDoubleDial)
<1>1. ASSUME ClaimInv, NEW l \in Leads PROVE Cardinality({k \in CallsOf(l) : Live(k)}) <= 1
  <2> DEFINE S == {k \in CallsOf(l) : Live(k)}
  <2>1. \A j, k \in S : j = k
    BY <1>1 DEF ClaimInv, LeadInv, OneCallFor, CallsOf, Live, Active
  <2> HIDE DEF S
  <2>2. Cardinality(S) \in {0, 1}
    <3>1. CASE S = {}
      BY <3>1, FS_EmptySet
    <3>2. ASSUME NEW k \in S PROVE Cardinality(S) = 1
      <4>1. S = {k}
        BY <2>1
      <4>2. Cardinality({k}) = 1
        BY FS_Singleton
      <4> QED BY <4>1, <4>2
    <3> QED BY <3>1, <3>2
  <2>3. Cardinality(S) <= 1
    BY <2>2
  <2> QED BY <2>3 DEF S
<1>2. ClaimInv => NoDoubleDial
  BY <1>1 DEF NoDoubleDial
<1> QED BY <1>2, ClaimsHold, PTL

\* An attempt is rung once and counted before the next: no crash, refused
\* originate or failed statement rings a lead more often than max_attempts.
THEOREM AttemptsAreCounted == Calm => (Spec => []AttemptBudget)
<1>1. ClaimInv => AttemptBudget
  BY DEF ClaimInv, LeadInv, Counted, AttemptBudget
<1> QED BY <1>1, ClaimsHold, PTL

(***************************************************************************)
(* The ceiling of a campaign that dials one lead at a time.  With more     *)
(* lines the budget can be overspent: a told call has left one count, and  *)
(* a call in claimOutboundDial the other.                                  *)
(***************************************************************************)
\* A dial or a call that is, or may come to be, somebody on the phone.
Out(k) == call[k].phase \in {"parked", "ringing", "claiming", "talking"}

OutOf(c) == {k \in Calls : Out(k) /\ CampaignOf[call[k].lead] = c}

OneLine(c) ==
  /\ \A j, k \in OutOf(c) : j = k
  /\ tick.pc = "claim" /\ tick.cur = c => tick.quota <= 1 /\ OutOf(c) = {}
  /\ tick.pc \in Dialling =>
       /\ \A l, m \in tick.todo : CampaignOf[l] = c /\ CampaignOf[m] = c => l = m
       /\ \A l \in tick.todo : CampaignOf[l] = c => OutOf(c) = {}
  /\ tick.pc \in AtLead /\ CampaignOf[tick.lead] = c => \A l \in tick.todo : CampaignOf[l] # c
  /\ tick.pc = "place" /\ CampaignOf[tick.lead] = c => OutOf(c) = {}

\* Either count sees a call that is out: what owes its outcome is claimed, and
\* what does not is registered.
LEMMA OutIsCounted ==
  ASSUME ClaimInv, Typed, NEW c \in Campaigns, OutFor(c) <= 0
  PROVE  OutOf(c) = {}
<1>1. Cardinality(CallingOf(c)) \in Nat /\ Cardinality(InFlightCallsOf(c)) \in Nat
  BY SizesTyped DEF CallingOf, LeadsOf, InFlightCallsOf, InFlightCalls
<1>2. Cardinality(CallingOf(c)) = 0 /\ Cardinality(InFlightCallsOf(c)) = 0
  BY <1>1 DEF OutFor, Greater
<1>3. IsFiniteSet(CallingOf(c)) /\ IsFiniteSet(InFlightCallsOf(c))
  BY ConstantsAssumption, FS_Subset DEF CallingOf, LeadsOf, InFlightCallsOf, InFlightCalls
<1>4. CallingOf(c) = {} /\ InFlightCallsOf(c) = {}
  BY <1>2, <1>3, FS_EmptySet
<1>5. ASSUME NEW k \in Calls, Out(k), CampaignOf[call[k].lead] = c PROVE FALSE
  <2>1. PICK l \in Leads : call[k].lead = l
    BY <1>5 DEF Out, Typed, References, CallsHaveLeads
  <2>2. CASE Unreported(k)
    <3>1. lead[l].status = "calling"
      BY <2>1, <2>2 DEF ClaimInv, LeadInv, OwesAndHolds, NobodyOwes
    <3> QED BY <1>4, <1>5, <2>1, <3>1 DEF CallingOf, LeadsOf
  <2>3. CASE ~Unreported(k)
    <3>1. call[k].told # "no"
      BY <1>5, <2>3 DEF Out, Unreported
    <3>2. call[k].phase = "talking"
      BY <1>5, <3>1 DEF ClaimInv, Steady, Out
    <3> QED BY <1>4, <1>5, <3>2 DEF Out, InFlightCallsOf, InFlightCalls
  <2> QED BY <2>2, <2>3
<1> QED BY <1>5 DEF OutOf

\* A plan places no more calls than the campaign has free lines.
LEMMA PlanFits ==
  ASSUME Typed, NEW c \in Campaigns, NEW openNow \in BOOLEAN,
         PlanCampaignTick(Counts(c, openNow)).dial > 0
  PROVE  /\ PlanCampaignTick(Counts(c, openNow)).dial <= Concurrency[c] - OutFor(c)
         /\ OutFor(c) \in Nat
<1> DEFINE in == Counts(c, openNow)
<1>1. /\ Cardinality({l \in {m \in LeadsOf(c) \cap Reachable : lead[m].status = "pending"} :
                         lead[l].due}) \in Nat
      /\ Cardinality(CallingOf(c)) \in Nat
      /\ Cardinality(InFlightCalls) \in Nat
      /\ Cardinality(InFlightCallsOf(c)) \in Nat
  BY SizesTyped DEF LeadsOf, CallingOf, InFlightCalls, InFlightCallsOf
<1>2. tick.out \in Int /\ Concurrency[c] \in Nat /\ PlatformConcurrency \in Nat
  BY ConstantsAssumption DEF Typed, TypeOK, TickType
<1>3. OutFor(c) \in Nat /\ Greater(tick.out, Cardinality(InFlightCalls)) \in Int
  BY <1>1, <1>2 DEF OutFor, Greater
<1>4. /\ in.dueReachable \in Int /\ CampaignSlots(in) = Concurrency[c] - OutFor(c)
      /\ CampaignSlots(in) \in Int /\ PlatformSlots(in) \in Int
  BY <1>1, <1>2, <1>3 DEF Counts, CampaignSlots, PlatformSlots
<1> HIDE DEF in
<1>5. \/ PlanCampaignTick(in).dial = 0
      \/ PlanCampaignTick(in).dial =
           Lesser(in.dueReachable, Lesser(CampaignSlots(in), PlatformSlots(in)))
  BY DEF PlanCampaignTick
<1>6. PlanCampaignTick(in).dial > 0
  BY DEF in
<1>7. PlanCampaignTick(in).dial <= Concurrency[c] - OutFor(c)
  BY <1>2, <1>3, <1>4, <1>5, <1>6 DEF Lesser
<1> QED BY <1>3, <1>7 DEF in

\* No dial is parked, and the tick is not between its plan and its dials.
LEMMA LinesStay ==
  ASSUME NEW c \in Campaigns, OneLine(c),
         \A k \in Calls : Out(k)' => Out(k) /\ call'[k].lead = call[k].lead,
         \/ tick' = tick
         \/ tick'.pc \notin {"claim"} \cup Dialling
         \/ /\ tick'.pc \in Dialling \ {"place"} /\ tick.pc \in Dialling
            /\ tick'.todo \subseteq tick.todo
            /\ tick'.pc \in AtLead /\ CampaignOf[tick'.lead] = c =>
                 \A l \in tick'.todo : CampaignOf[l] # c
  PROVE  OneLine(c)'
<1>1. OutOf(c)' \subseteq OutOf(c)
  BY DEF OutOf
<1> QED BY <1>1 DEF OneLine, Dialling, AtLead

\* The tick has planned as many dials as there are lines, so at most one.
LEMMA LineIsPlanned ==
  ASSUME Typed, ClaimInv, NEW c \in Campaigns, Concurrency[c] = 1, OneLine(c),
         NEW openNow \in BOOLEAN, PlanCampaign(openNow)
  PROVE  OneLine(c)'
<1> PICK dial : dial = PlanCampaignTick(Counts(tick.cur, openNow)).dial
  OBVIOUS
<1>1. /\ tick \in TickType /\ tick.pc = "plan" /\ tick.cur \in Campaigns /\ call' = call
      /\ \/ tick' = [tick EXCEPT !.pc = "halt"]
         \/ tick' = CampaignDone(tick)
         \/ dial > 0 /\ tick' = [tick EXCEPT !.pc = "claim", !.quota = dial]
  BY DEF PlanCampaign, Typed, TypeOK, References
<1>2. CASE tick'.pc \in {"halt", "idle", "count"}
  BY <1>1, <1>2, LinesStay DEF Out, Dialling
<1>3. CASE dial > 0 /\ tick' = [tick EXCEPT !.pc = "claim", !.quota = dial]
  <2>1. tick'.pc = "claim" /\ tick'.cur = tick.cur /\ tick'.quota = dial
    BY <1>1, <1>3 DEF TickType
  <2>2. dial <= Concurrency[tick.cur] - OutFor(tick.cur) /\ OutFor(tick.cur) \in Nat
    BY <1>1, <1>3, PlanFits
  <2>3. dial \in Int
    BY <1>1, PlanTyped DEF Typed
  <2>4. CASE tick.cur = c
    <3>1. dial <= 1 /\ OutFor(c) <= 0
      BY <1>3, <2>2, <2>3, <2>4
    <3>2. OutOf(c) = {}
      BY <3>1, OutIsCounted
    <3>3. OutOf(c)' = {}
      BY <1>1, <3>2 DEF OutOf, Out
    <3> QED BY <2>1, <2>4, <3>1, <3>3 DEF OneLine, Dialling, AtLead
  <2>5. CASE tick.cur # c
    <3>1. OutOf(c)' = OutOf(c)
      BY <1>1 DEF OutOf, Out
    <3> QED BY <2>1, <2>5, <3>1 DEF OneLine, Dialling, AtLead
  <2> QED BY <2>4, <2>5
<1>4. CampaignDone(tick).pc \in {"idle", "count"}
  BY <1>1, CampaignDoneTyped
<1>5. tick' = [tick EXCEPT !.pc = "halt"] => tick'.pc = "halt"
  BY <1>1 DEF TickType
<1> QED BY <1>1, <1>2, <1>3, <1>4, <1>5

\* It claims no more leads than it has planned.
LEMMA LineIsClaimed ==
  ASSUME Typed, NEW c \in Campaigns, OneLine(c), ClaimLeads
  PROVE  OneLine(c)'
<1> PICK claimed \in SUBSET Due(tick.cur) :
      /\ Cardinality(claimed) = Lesser(tick.quota, Cardinality(Due(tick.cur)))
      /\ tick' = [tick EXCEPT !.pc = "dial", !.todo = claimed, !.quota = 0]
  BY DEF ClaimLeads
<1>1. tick.pc = "claim" /\ tick \in TickType /\ call' = call
  BY DEF ClaimLeads, Typed, TypeOK
<1>2. tick'.pc = "dial" /\ tick'.todo = claimed
  BY <1>1 DEF TickType
<1>3. OutOf(c)' = OutOf(c)
  BY <1>1 DEF OutOf, Out
<1>4. \A l \in claimed : l \in Leads /\ CampaignOf[l] = tick.cur
  BY DEF Due, LeadsOf
<1>5. CASE tick.cur = c
  <2>1. tick.quota <= 1 /\ OutOf(c) = {}
    BY <1>1, <1>5 DEF OneLine
  <2>2. /\ Due(tick.cur) \in SUBSET Leads
        /\ IsFiniteSet(claimed)
    BY <1>4, ConstantsAssumption, FS_Subset DEF Due, LeadsOf
  <2>3. Cardinality(Due(tick.cur)) \in Nat /\ Cardinality(claimed) \in Nat
    BY <1>4, <2>2, SizesTyped
  <2>4. tick.quota \in Nat
    BY <1>1 DEF TickType
  <2>5. Cardinality(claimed) = 0 \/ Cardinality(claimed) = 1
    BY <2>1, <2>3, <2>4 DEF Lesser
  <2>6. claimed = {} \/ \E x : claimed = {x}
    BY <2>2, <2>5, FS_EmptySet, FS_Singleton
  <2>7. \A l, m \in claimed : l = m
    BY <2>6
  <2> QED BY <1>2, <1>3, <2>1, <2>7 DEF OneLine, Dialling, AtLead
<1>6. CASE tick.cur # c
  BY <1>2, <1>3, <1>4, <1>6 DEF OneLine, Dialling, AtLead
<1> QED BY <1>5, <1>6

\* The lead that is dialled next is the only one of its campaign.
LEMMA LineIsTaken ==
  ASSUME Typed, NEW c \in Campaigns, OneLine(c), NEW l \in Leads, DialLead(l)
  PROVE  OneLine(c)'
<1>1. /\ tick.pc = "dial" /\ l \in tick.todo /\ call' = call
      /\ tick'.pc \in {"place", "refuse", "undo"} /\ tick'.lead = l
      /\ tick'.todo = tick.todo \ {l}
  BY DEF DialLead, Typed, TypeOK, TickType
<1>2. OutOf(c)' = OutOf(c)
  BY <1>1 DEF OutOf, Out
<1>3. /\ \A j, m \in tick.todo : CampaignOf[j] = c /\ CampaignOf[m] = c => j = m
      /\ \A m \in tick.todo : CampaignOf[m] = c => OutOf(c) = {}
  BY <1>1 DEF OneLine, Dialling
<1>4. CampaignOf[l] = c => OutOf(c) = {} /\ \A m \in tick'.todo : CampaignOf[m] # c
  BY <1>1, <1>3
<1> QED BY <1>1, <1>2, <1>3, <1>4 DEF OneLine

\* A call that is parked is the only one of its campaign.
LEMMA LineIsUsed ==
  ASSUME Typed, NEW c \in Campaigns, OneLine(c), PlaceCall
  PROVE  OneLine(c)'
<1>1. tick.pc = "place" /\ tick \in TickType /\ call \in [Calls -> CallType] /\ tick.lead \in Leads
  BY DEF PlaceCall, Typed, TypeOK, References
<1>2. CampaignOf[tick.lead] = c => OutOf(c) = {} /\ \A m \in tick.todo : CampaignOf[m] # c
  BY <1>1 DEF OneLine, AtLead, Dialling
<1>3. ASSUME call' = call, tick' = [tick EXCEPT !.pc = "undo"] \/ tick' = [tick EXCEPT !.pc = "refuse"]
      PROVE  OneLine(c)'
  <2>1. tick'.pc \in {"undo", "refuse"} /\ tick'.todo = tick.todo /\ tick'.lead = tick.lead
    BY <1>1, <1>3 DEF TickType
  <2> QED BY <1>1, <1>2, <1>3, <2>1, LinesStay DEF Out, Dialling
<1>4. ASSUME NEW k \in Calls, call[k].phase = "free",
             call' = [call EXCEPT ![k] = [lead |-> tick.lead, phase |-> "parked", told |-> "no"]],
             tick' = [tick EXCEPT !.pc = "originate", !.call = k]
      PROVE  OneLine(c)'
  <2>1. tick'.pc = "originate" /\ tick'.todo = tick.todo /\ tick'.lead = tick.lead
    BY <1>1, <1>4 DEF TickType
  <2>2. /\ call'[k].lead = tick.lead /\ call'[k].phase = "parked"
        /\ \A j \in Calls : j # k => call'[j] = call[j]
    BY <1>1, <1>4
  <2>3. CASE CampaignOf[tick.lead] = c
    <3>1. \A j \in OutOf(c)' : j = k
      BY <1>2, <2>2, <2>3 DEF OutOf, Out
    <3> QED BY <1>2, <2>1, <2>3, <3>1 DEF OneLine
  <2>4. CASE CampaignOf[tick.lead] # c
    <3>1. OutOf(c)' = OutOf(c)
      BY <1>4, <2>2, <2>4 DEF OutOf, Out
    <3> QED BY <1>1, <2>1, <2>4, <3>1 DEF OneLine, Dialling, AtLead
  <2> QED BY <2>3, <2>4
<1> QED BY <1>3, <1>4 DEF PlaceCall

\* The rest of a dial ends it, or lets the parked dial ring.
LEMMA LineIsKept ==
  ASSUME Typed, NEW c \in Campaigns, OneLine(c),
         UndoClaim \/ Originate \/ OriginateResponse \/ AwaitAbandoned \/ DialRefused
  PROVE  OneLine(c)'
<1>1. /\ tick.pc \in AtLead /\ tick \in TickType
      /\ call \in [Calls -> CallType]
      /\ tick.pc \in {"originate", "response"} => tick.call \in Calls
  BY DEF Typed, TypeOK, References, UndoClaim, Originate, OriginateResponse, AwaitAbandoned,
         DialRefused, AtLead, Dialling
<1>2. /\ tick'.pc \in Dialling \ {"place"} /\ tick'.todo = tick.todo
      /\ tick'.pc = "dial" \/ tick'.lead = tick.lead
  <2>1. CASE Originate
    BY <1>1, <2>1 DEF Originate, TickType, Dialling
  <2>2. CASE OriginateResponse
    BY <1>1, <2>2 DEF OriginateResponse, TickType, Dialling
  <2>3. CASE UndoClaim \/ AwaitAbandoned \/ DialRefused
    BY <1>1, <2>3 DEF UndoClaim, AwaitAbandoned, DialRefused, TickType, Dialling
  <2> QED BY <2>1, <2>2, <2>3
<1>3. \A k \in Calls : Out(k)' => Out(k) /\ call'[k].lead = call[k].lead
  <2>1. ASSUME NEW k \in Calls, NEW o, AbandonDial(k, o)
        PROVE  \A j \in Calls : Out(j)' => Out(j) /\ call'[j].lead = call[j].lead
    BY <1>1, <2>1 DEF AbandonDial, CallType, Out
  <2>2. CASE call' = call
    BY <2>2 DEF Out
  <2>3. CASE tick.pc = "originate" /\ call[tick.call].phase = "parked" /\
             call' = [call EXCEPT ![tick.call].phase = "ringing"]
    BY <1>1, <2>3 DEF CallType, Out
  <2> QED BY <1>1, <2>1, <2>2, <2>3
      DEF UndoClaim, Originate, OriginateResponse, AwaitAbandoned, DialRefused
<1>4. CampaignOf[tick.lead] = c => \A l \in tick.todo : CampaignOf[l] # c
  BY <1>1 DEF OneLine
<1> QED BY <1>1, <1>2, <1>3, <1>4, LinesStay DEF AtLead, Dialling

LEMMA TickKeepsLines ==
  ASSUME Typed, ClaimInv, NEW c \in Campaigns, Concurrency[c] = 1, OneLine(c), DialerStep
  PROVE  OneLine(c)'
<1>1. tick \in TickType /\ CampaignDone(tick).pc \in {"idle", "count"} /\ IdleTick.pc = "idle"
  BY CampaignDoneTyped DEF Typed, TypeOK, IdleTick
<1>2. CASE \/ StartTick \/ PruneInFlight \/ SelectRunning \/ HaltCampaign \/ DialsDone \/ TickFails
           \/ \E l \in Leads : SweepLead(l)
           \/ \E d \in Campaigns : CountTenantCalling(d)
  <2>1. call' = call
    BY <1>2 DEF StartTick, PruneInFlight, SelectRunning, HaltCampaign, DialsDone, TickFails,
       SweepLead, CountTenantCalling
  <2>2. tick'.pc \in {"idle", "sweep", "select", "count", "plan"}
    <3>1. CASE StartTick
      <4>1. IdleTick \in TickType
        BY IdleTickTyped
      <4> QED BY <3>1, <4>1 DEF StartTick, TickType
    <3>2. CASE PruneInFlight \/ SelectRunning \/ HaltCampaign \/ DialsDone \/ TickFails
      BY <1>1, <3>2 DEF PruneInFlight, SelectRunning, HaltCampaign, DialsDone, TickFails, TickType
    <3>3. CASE (\E l \in Leads : SweepLead(l)) \/ \E d \in Campaigns : CountTenantCalling(d)
      BY <1>1, <3>3 DEF SweepLead, CountTenantCalling, TickType
    <3> QED BY <1>2, <3>1, <3>2, <3>3
  <2> QED BY <2>1, <2>2, LinesStay DEF Out, Dialling
<1> QED
  BY <1>2, LineIsPlanned, LineIsClaimed, LineIsTaken, LineIsUsed, LineIsKept DEF DialerStep

\* A run of recordDialOutcome takes a call off the line, and ends the dial it was for.
LEMMA WriteKeepsLines ==
  ASSUME Typed, NEW c \in Campaigns, OneLine(c), NEW w \in writing, WriteStep(w)
  PROVE  OneLine(c)'
<1>1. tick \in TickType /\ call \in [Calls -> CallType]
  BY DEF Typed, TypeOK
<1>2. \A k \in Calls : Out(k)' => Out(k) /\ call'[k].lead = call[k].lead
  <2>1. CASE call' = call
    BY <2>1 DEF Out
  <2>2. CASE w.by \in Calls /\ call' = [call EXCEPT ![w.by] = FreeCall]
    BY <1>1, <2>2 DEF Out, FreeCall
  <2>3. CASE call' = [call EXCEPT ![w.by].told = "opt_out"]
    BY <1>1, <2>3 DEF Out, CallType
  <2> QED
    BY <2>1, <2>2, <2>3 DEF WriteStep, RecordDialOutcome, ListOutcome, SkipOutcome, UpdateLead,
       Commit, FailWrite, TellAsked, Return
<1>3. \/ tick' = tick
      \/ /\ tick.pc = "refuse" /\ tick'.pc \in {"dial", "undo"} /\ tick'.todo = tick.todo
         /\ tick'.pc = "undo" => tick'.lead = tick.lead
  BY <1>1 DEF WriteStep, RecordDialOutcome, ListOutcome, SkipOutcome, UpdateLead, Commit,
     FailWrite, TellAsked, Return, TickType
<1>4. tick.pc = "refuse" /\ CampaignOf[tick.lead] = c => \A l \in tick.todo : CampaignOf[l] # c
  BY DEF OneLine, AtLead, Dialling
<1> QED BY <1>2, <1>3, <1>4, LinesStay DEF Dialling, AtLead

LEMMA CallKeepsLines ==
  ASSUME Typed, NEW c \in Campaigns, OneLine(c), NEW k \in Calls, CallStep(k)
  PROVE  OneLine(c)'
<1>1. call \in [Calls -> CallType] /\ tick' = tick
  BY DEF Typed, TypeOK, CallStep, CallEnds, Answer, Register, Unanswered, HangUp, OrphanEnds,
         TellOutcome, TellOptOut, LoseHangUp
<1>2. \A j \in Calls : Out(j)' => Out(j) /\ call'[j].lead = call[j].lead
  <2>1. CASE Answer(k) \/ Register(k)
    BY <1>1, <2>1 DEF Answer, Register, Out, CallType
  <2>2. CASE Unanswered(k) \/ LoseHangUp(k)
    BY <1>1, <2>2 DEF Unanswered, LoseHangUp, AbandonDial, Out, CallType
  <2>3. CASE \/ call' = [call EXCEPT ![k].phase = "ending", ![k].told = "mild"]
             \/ call' = [call EXCEPT ![k] = FreeCall]
    BY <1>1, <2>3 DEF Out, CallType, FreeCall
  <2>4. CASE call' = call \/ \E told : call' = [call EXCEPT ![k].told = told]
    <3>1. CASE call' = call
      BY <3>1 DEF Out
    <3>2. ASSUME NEW told, call' = [call EXCEPT ![k].told = told]
          PROVE  \A j \in Calls : call'[j].phase = call[j].phase /\ call'[j].lead = call[j].lead
      BY <1>1, <3>2 DEF CallType
    <3> QED BY <2>4, <3>1, <3>2 DEF Out
  <2>5. CASE HangUp(k) \/ OrphanEnds(k)
    BY <2>3, <2>5 DEF HangUp, OrphanEnds
  <2>6. CASE TellOutcome(k)
    BY <2>4, <2>6 DEF TellOutcome
  <2>7. CASE TellOptOut(k)
    BY <2>4, <2>7 DEF TellOptOut
  <2> QED BY <2>1, <2>2, <2>5, <2>6, <2>7 DEF CallStep, CallEnds
<1> QED BY <1>1, <1>2, LinesStay

LEMMA StepLines ==
  ASSUME Calm, Typed, ClaimInv, NEW c \in Campaigns, Concurrency[c] = 1, OneLine(c), [Next]_vars
  PROVE  OneLine(c)'
<1>1. CASE UNCHANGED <<call, tick>>
  BY <1>1, LinesStay DEF Out
<1>2. CASE SupervisorStep \/ UNCHANGED vars \/
           \E l \in Leads : ClaimAges(l) \/ ClaimOutlives(l) \/ RetryFallsDue(l)
  BY <1>1, <1>2 DEF SupervisorStep, ApplyTransition, OpenPatch, ApplyPatch, RecordByHand, ListByHand,
     SkipListed, RemoveFromList, ClaimAges, ClaimOutlives, RetryFallsDue, vars
<1>3. CASE ProcessStep
  <2>1. CASE UNCHANGED <<call, tick>>
    BY <1>1, <2>1
  <2>2. CASE Reboot
    <3>1. \A k \in Calls : call'[k].phase = "free"
      BY <2>2 DEF Reboot, Calm, FreeCall
    <3>2. tick'.pc = "idle"
      BY <2>2 DEF Reboot, IdleTick
    <3> QED BY <3>1, <3>2, LinesStay DEF Out, Dialling
  <2> QED BY <1>3, <2>1, <2>2 DEF ProcessStep, ReleaseInFlightClaims, StopVoicePlatform, Exit, Crash
<1> QED BY <1>2, <1>3, TickKeepsLines, WriteKeepsLines, CallKeepsLines DEF Next

\* A campaign that dials one lead at a time has one person on the phone at a
\* time, whatever is recorded, retried, reclaimed or restarted in between.
THEOREM OneLineIsOneCall ==
  Calm /\ (\A c \in Campaigns : Concurrency[c] = 1) => (Spec => []CampaignCeiling)
<1> SUFFICES ASSUME Calm, \A c \in Campaigns : Concurrency[c] = 1
             PROVE  Spec => []CampaignCeiling
  OBVIOUS
<1> DEFINE Lines == \A c \in Campaigns : OneLine(c)
<1>1. Init => Lines
  BY DEF Init, Idle, OneLine, OutOf, Out, FreeCall, IdleTick, Dialling, AtLead
<1>2. Typed /\ ClaimInv /\ Lines /\ [Next]_vars => Lines'
  BY StepLines
<1>3. ASSUME ClaimInv, Lines, NEW c \in Campaigns
      PROVE  Cardinality({k \in Calls : Live(k) /\ CampaignOf[call[k].lead] = c}) <= 1
  <2> PICK S : S = {k \in Calls : Live(k) /\ CampaignOf[call[k].lead] = c}
    OBVIOUS
  <2>1. S \subseteq OutOf(c)
    BY <1>3 DEF ClaimInv, Steady, OutOf, Out, Live
  <2>2. \A j, k \in S : j = k
    BY <1>3, <2>1 DEF OneLine
  <2>3. S = {} \/ \E x : S = {x}
    BY <2>2
  <2>4. Cardinality(S) = 0 \/ Cardinality(S) = 1
    BY <2>3, FS_EmptySet, FS_Singleton
  <2>5. Cardinality(S) <= 1
    BY <2>4
  <2> QED BY <2>5
<1>4. ClaimInv /\ Lines => CampaignCeiling
  BY <1>3 DEF CampaignCeiling
<1> QED BY <1>1, <1>2, <1>4, ClaimsHold, TypeCorrect, PTL DEF Spec

-------------------------------------------------------------------------------
(***************************************************************************)
(* When a campaign is finished.  finishIfQueueEmpty counts the open leads  *)
(* in one statement and finishes the campaign in another, next to runs of  *)
(* recordDialOutcome that have yet to commit and to a dialer that claims   *)
(* leads meanwhile.  That it finishes a drained queue only rests on this:  *)
(* a lead that has closed stays closed, because an outcome that would put  *)
(* it back is recorded while the lead is claimed, and is alone on it.      *)
(***************************************************************************)

\* A calm deployment in which, besides, no statement fails, no tool of a call
\* runs beside another and no lead is added to a campaign that is under way.
\* Each of the three lets a campaign finish with a lead still open.
Orderly ==
  /\ Calm
  /\ Faults \cap {"db", "overlapping_tools"} = {}
  /\ "import" \notin Operations

\* The outcome leaves the lead closed.
Closes(w) == NewStatus(w) \notin OpenLeadStatus

\* An outcome that may put the lead back is recorded while it is claimed, and
\* alone.
WritesClose(l) ==
  /\ lead[l].status # "calling" => \A w \in writing : w.lead = l => Closes(w)
  /\ \A v, w \in writing : v.lead = l /\ w.lead = l /\ v # w => Closes(v)

\* A claim that the process does not hold is nobody's but the sweep's.
UnheldIsUntouched(l) ==
  /\ lead[l].status = "calling" /\ inFlight[l] = "none" => Untouched(l)
  /\ l \in outlived => Untouched(l)

SweepsItsOwn(l) ==
  tick.pc = "sweep" =>
    /\ l \in tick.todo => /\ lead[l].status = "calling" /\ inFlight[l] = "none"
                          /\ \A w \in writing : w.lead # l
    /\ \A w \in writing : w.lead = l /\ w.by = "dialer" =>
         lead[l].status = "calling" /\ inFlight[l] = "none"

\* The refused dial the tick waits for gives the claim back itself.
AwaitedGivesBack(l) ==
  tick.lead = l /\ tick.pc \in {"await", "refused"} =>
    \/ inFlight[l] = "none"
    \/ tick.pc = "await" /\ call[tick.call].phase = "abandoned" /\ call[tick.call].lead = l

DrainInv(l) ==
  /\ WritesClose(l) /\ UnheldIsUntouched(l) /\ SweepsItsOwn(l) /\ AwaitedGivesBack(l)

AskedRefuses == \A w \in writing : w.pc = "asked" => w.outcome = "do_not_call" /\ w.by \in Calls

\* Who counted an empty queue counted right, and it is empty still.
LastIsLast == \A w \in writing : w.pc = "commit" /\ w.last => Closes(w) /\ OthersClosed(w)

Drain ==
  /\ op.act = "none" /\ AskedRefuses /\ LastIsLast
  /\ \A l \in Leads : DrainInv(l)

\* What closes stays closed.
ClosedStay ==
  \A m \in Leads : lead[m].status \notin OpenLeadStatus => lead'[m].status \notin OpenLeadStatus

LEMMA DrainStarts == ASSUME Init PROVE Drain
<1>1. /\ writing = {} /\ outlived = {} /\ op.act = "none" /\ tick.pc = "idle"
      /\ \A k \in Calls : ~Active(k)
  BY DEF Init, Idle, NoOp, IdleTick, FreeCall, Active
<1> QED
  BY <1>1 DEF Drain, AskedRefuses, LastIsLast, DrainInv, WritesClose, UnheldIsUntouched, Untouched,
     SweepsItsOwn, AwaitedGivesBack

(***************************************************************************)
(* Frames                                                                  *)
(***************************************************************************)
\* The step does not concern the lead.
Still(m) ==
  /\ lead'[m].status = "calling" <=> lead[m].status = "calling"
  /\ inFlight'[m] = inFlight[m]
  /\ m \in outlived' => m \in outlived
  /\ \A k \in Calls : call'[k].lead = m /\ Active(k)' => call[k].lead = m /\ Active(k)
  /\ \A w \in writing' : w.lead = m => w \in writing
  /\ tick'.pc = "sweep" => tick.pc = "sweep" /\ (m \in tick'.todo => m \in tick.todo)
  /\ tick'.lead = m /\ tick'.pc \in {"await", "refused"} =>
       /\ tick.lead = m /\ tick'.pc = tick.pc /\ tick'.call = tick.call
       /\ call[tick.call].lead = m => call'[tick.call] = call[tick.call]

LEMMA StillDrains ==
  ASSUME NEW m \in Leads, DrainInv(m), Still(m)
  PROVE  DrainInv(m)'
<1> USE DEF DrainInv, Still
<1>1. Untouched(m) => Untouched(m)'
  BY DEF Untouched
<1>2. WritesClose(m)'
  BY DEF WritesClose, Closes, NewStatus, Budget
<1>3. UnheldIsUntouched(m)'
  BY <1>1 DEF UnheldIsUntouched
<1>4. SweepsItsOwn(m)'
  BY DEF SweepsItsOwn
<1>5. AwaitedGivesBack(m)'
  BY DEF AwaitedGivesBack
<1> QED BY <1>2, <1>3, <1>4, <1>5

LEMMA LastStays ==
  ASSUME ClosedStay, Typed,
         \A w \in writing' : w.pc = "commit" /\ w.last => Closes(w) /\ OthersClosed(w)
  PROVE  LastIsLast'
<1> SUFFICES ASSUME NEW w \in writing', w.pc = "commit", w.last
             PROVE  Closes(w)' /\ OthersClosed(w)'
  BY DEF LastIsLast
<1>1. Closes(w) /\ OthersClosed(w)
  OBVIOUS
<1>2. Closes(w)'
  BY <1>1 DEF Closes, NewStatus, Budget
<1>3. OthersClosed(w)'
  BY <1>1 DEF OthersClosed, ClosedStay, Open, LeadsOf
<1> QED BY <1>2, <1>3

\* What every step but a count, a commit and a refusal has to show.
LEMMA DrainGoesOn ==
  ASSUME Drain, Typed, ClosedStay, op'.act = "none",
         \A w \in writing' : w.pc \in {"asked", "commit"} => w \in writing,
         \A m \in Leads : DrainInv(m)'
  PROVE  Drain'
<1>1. LastIsLast'
  BY LastStays DEF Drain, LastIsLast
<1>2. AskedRefuses'
  BY DEF Drain, AskedRefuses
<1> QED BY <1>1, <1>2 DEF Drain

LEMMA StillGoesOn ==
  ASSUME Drain, Typed, ClosedStay, op'.act = "none",
         \A w \in writing' : w.pc \in {"asked", "commit"} => w \in writing,
         \A m \in Leads : Still(m)
  PROVE  Drain'
<1>1. \A m \in Leads : DrainInv(m)'
  BY StillDrains DEF Drain
<1> QED BY <1>1, DrainGoesOn

\* A lead on which a call is active has no writes of the dialer.
LEMMA CallKeepsDialerAway ==
  ASSUME ClaimInv, Typed, NEW l \in Leads, DrainInv(l), ~Untouched(l)
  PROVE  /\ lead[l].status = "calling" => inFlight[l] # "none"
         /\ l \notin outlived
         /\ ~(tick.pc = "sweep" /\ l \in tick.todo)
         /\ \A w \in writing : w.lead = l => w.by # "dialer"
<1>1. lead[l].status = "calling" => inFlight[l] # "none"
  BY DEF DrainInv, UnheldIsUntouched
<1>2. l \notin outlived
  BY DEF DrainInv, UnheldIsUntouched
<1>3. ~(tick.pc = "sweep" /\ l \in tick.todo)
  BY <1>1 DEF DrainInv, SweepsItsOwn
<1>4. LeadInv(l)
  BY DEF ClaimInv
<1>5. ASSUME NEW w \in writing, w.lead = l, w.by = "dialer" PROVE FALSE
  <2>1. tick.pc \in {"sweep", "refuse"} /\ (tick.pc = "refuse" => tick.lead = l)
    BY <1>4, <1>5 DEF LeadInv, DialerWritesInTurn
  <2>2. tick.pc # "sweep"
    BY <1>1, <1>5 DEF DrainInv, SweepsItsOwn
  <2> QED BY <1>4, <2>1, <2>2 DEF LeadInv, AtLeadIsItsOwn
<1> QED BY <1>1, <1>2, <1>3, <1>5

(***************************************************************************)
(* The tick                                                                *)
(***************************************************************************)
LEMMA ReadsDrain ==
  ASSUME Drain, Typed,
         \/ SelectRunning \/ (\E c \in Campaigns : CountTenantCalling(c)) \/ HaltCampaign
         \/ (\E openNow \in BOOLEAN : PlanCampaign(openNow)) \/ DialsDone \/ TickFails
  PROVE  Drain' /\ ClosedStay
<1>1. /\ tick'.pc \notin {"sweep"} \cup Dialling
      /\ UNCHANGED <<lead, inFlight, outlived, call, writing, op>>
  BY TickMovesOn
<1>2. \A m \in Leads : Still(m)
  BY <1>1 DEF Still, Active, Dialling
<1>3. ClosedStay
  BY <1>1 DEF ClosedStay
<1> QED BY <1>1, <1>2, <1>3, StillGoesOn DEF Drain

LEMMA SweepIsChosen ==
  ASSUME Drain, Typed, ClaimInv, StartTick
  PROVE  Drain' /\ ClosedStay
<1> USE DEF StartTick, db
<1>1. /\ UNCHANGED <<lead, inFlight, outlived, call, writing, op>> /\ tick.pc = "idle"
      /\ tick'.todo = AbandonedClaims /\ tick'.pc \in {"select", "sweep"}
  BY DEF IdleTick
<1>2. ClosedStay
  BY <1>1 DEF ClosedStay
<1>3. ASSUME NEW m \in Leads PROVE DrainInv(m)'
  <2>1. DrainInv(m) /\ LeadInv(m)
    BY DEF Drain, ClaimInv
  <2>2. \A w \in writing : w.by # "dialer"
    BY <1>1, NoDialerWrites
  <2>3. WritesClose(m)'
    BY <1>1, <2>1 DEF DrainInv, WritesClose, Closes, NewStatus, Budget
  <2>4. UnheldIsUntouched(m)'
    BY <1>1, <2>1 DEF DrainInv, UnheldIsUntouched, Untouched, Active
  <2>5. m \in AbandonedClaims =>
          lead[m].status = "calling" /\ inFlight[m] = "none" /\ \A w \in writing : w.lead # m
    BY <2>1, <2>2 DEF AbandonedClaims, StaleClaims, DrainInv, UnheldIsUntouched, Untouched
  <2>6. SweepsItsOwn(m)'
    BY <1>1, <2>2, <2>5 DEF SweepsItsOwn
  <2>7. AwaitedGivesBack(m)'
    BY <1>1 DEF AwaitedGivesBack
  <2> QED BY <2>3, <2>4, <2>6, <2>7 DEF DrainInv
<1> QED BY <1>1, <1>2, <1>3, DrainGoesOn DEF Drain

\* A lead of the sweep is claimed and has no write until this one.
LEMMA SweepDrains ==
  ASSUME Drain, Typed, ClaimInv, NEW l \in Leads, SweepLead(l)
  PROVE  Drain' /\ ClosedStay
<1> USE DEF SweepLead, BeginWrite, db
<1> DEFINE v == NewWrite("dialer", l, "failed", TRUE, FALSE)
<1>1. /\ v.by = "dialer" /\ v.lead = l /\ v.pc = "update"
      /\ writing' = writing \cup {v}
  BY DEF NewWrite
<1> HIDE DEF v
<1>2. /\ tick.pc = "sweep" /\ tick'.pc = "sweep" /\ tick'.todo = tick.todo \ {l} /\ l \in tick.todo
      /\ UNCHANGED <<lead, inFlight, outlived, call, op>>
  BY DEF Typed, TypeOK, TickType
<1>3. ClosedStay
  BY <1>2 DEF ClosedStay
<1>4. ASSUME NEW m \in Leads, m # l PROVE DrainInv(m)'
  <2>1. Still(m)
    BY <1>1, <1>2, <1>4 DEF Still, Active
  <2> QED BY <2>1, StillDrains DEF Drain
<1>5. DrainInv(l)'
  <2>1. /\ lead[l].status = "calling" /\ inFlight[l] = "none"
        /\ \A w \in writing : w.lead # l
        /\ Untouched(l)
    BY <1>2 DEF Drain, DrainInv, SweepsItsOwn, UnheldIsUntouched
  <2>2. Untouched(l)'
    BY <1>1, <1>2, <2>1 DEF Untouched, Active
  <2> QED
    BY <1>1, <1>2, <2>1, <2>2
    DEF DrainInv, WritesClose, UnheldIsUntouched, SweepsItsOwn, AwaitedGivesBack
<1> QED BY <1>1, <1>2, <1>3, <1>4, <1>5, DrainGoesOn DEF Drain

LEMMA PruneDrains ==
  ASSUME Drain, Typed, ClaimInv, PruneInFlight
  PROVE  Drain' /\ ClosedStay
<1> USE DEF PruneInFlight, db
<1>1. /\ tick'.pc = "select" /\ UNCHANGED <<lead, call, writing, op>> /\ outlived' = {}
      /\ \A m \in Leads : inFlight'[m] = inFlight[m] \/ m \in outlived
  BY DEF Typed, TypeOK, TickType
<1>2. ClosedStay
  BY <1>1 DEF ClosedStay
<1>3. ASSUME NEW m \in Leads PROVE DrainInv(m)'
  <2>1. DrainInv(m) /\ (Untouched(m)' <=> Untouched(m))
    BY <1>1 DEF Drain, Untouched, Active
  <2>2. UnheldIsUntouched(m)'
    BY <1>1, <2>1 DEF DrainInv, UnheldIsUntouched
  <2>3. WritesClose(m)'
    BY <1>1, <2>1 DEF DrainInv, WritesClose, Closes, NewStatus, Budget
  <2> QED BY <1>1, <2>2, <2>3 DEF DrainInv, SweepsItsOwn, AwaitedGivesBack
<1> QED BY <1>1, <1>2, <1>3, DrainGoesOn DEF Drain

LEMMA ClaimDrains ==
  ASSUME Drain, Typed, ClaimInv, ClaimLeads
  PROVE  Drain' /\ ClosedStay
<1> PICK claimed \in SUBSET Due(tick.cur) :
      /\ lead' = [l \in Leads |-> IF l \in claimed
                                  THEN Row("calling", lead[l].attempts, TRUE) ELSE lead[l]]
      /\ tick' = [tick EXCEPT !.pc = "dial", !.todo = claimed, !.quota = 0]
  BY DEF ClaimLeads
<1>1. /\ tick'.pc = "dial" /\ UNCHANGED <<inFlight, outlived, call, writing, op>>
  BY DEF ClaimLeads, Typed, TypeOK, TickType
<1>2. \A m \in Leads : \/ lead'[m] = lead[m]
                       \/ /\ lead[m].status = "pending" /\ lead[m].due
                          /\ lead'[m].status = "calling"
  BY DEF Due, Row
<1>3. ClosedStay
  BY <1>2 DEF ClosedStay, OpenLeadStatus
<1>4. ASSUME NEW m \in Leads PROVE DrainInv(m)'
  <2>1. DrainInv(m) /\ (Untouched(m)' <=> Untouched(m))
    BY <1>1 DEF Drain, Untouched, Active
  <2>2. UnheldIsUntouched(m)'
    BY <1>1, <1>2, <2>1 DEF DrainInv, UnheldIsUntouched, ClaimInv, LeadInv, FreeIsUntouched
  <2>3. WritesClose(m)'
    BY <1>1, <1>2, <2>1 DEF DrainInv, WritesClose, Closes, NewStatus, Budget
  <2> QED BY <1>1, <2>2, <2>3 DEF DrainInv, SweepsItsOwn, AwaitedGivesBack
<1> QED BY <1>1, <1>3, <1>4, DrainGoesOn DEF Drain

\* The tick at a lead that is its own: the dial of a listed person is recorded.
LEMMA RefusalIsAlone ==
  ASSUME Drain, Typed, ClaimInv, NEW l \in Leads, Untouched(l), lead[l].status = "calling",
         tick.pc \notin {"sweep", "refuse"},
         NEW v, v.lead = l, v.by = "dialer", v.pc \notin {"asked", "commit"},
         writing' \in {writing, writing \cup {v}},
         tick'.pc \notin {"sweep", "await", "refused"},
         \A m \in Leads : m # l => inFlight'[m] = inFlight[m],
         outlived' \subseteq outlived, UNCHANGED <<lead, call, op>>
  PROVE  Drain' /\ ClosedStay
<1>1. \A w \in writing : w.lead # l /\ w.by # "dialer"
  BY NoDialerWrites DEF Untouched
<1>2. ClosedStay
  BY DEF ClosedStay
<1>3. ASSUME NEW m \in Leads, m # l PROVE DrainInv(m)'
  <2>1. Still(m)
    BY <1>3 DEF Still, Active
  <2> QED BY <2>1, StillDrains DEF Drain
<1>4. DrainInv(l)'
  <2>1. Untouched(l)'
    BY DEF Untouched, Active
  <2> QED BY <1>1, <2>1 DEF DrainInv, WritesClose, UnheldIsUntouched, SweepsItsOwn, AwaitedGivesBack
<1> QED BY <1>2, <1>3, <1>4, DrainGoesOn DEF Drain

LEMMA DialDrains ==
  ASSUME Drain, Typed, ClaimInv, Orderly, NEW l \in Leads, DialLead(l)
  PROVE  Drain' /\ ClosedStay
<1> USE DEF db
<1>1. tick.pc = "dial" /\ l \in tick.todo /\ tick \in TickType
  BY DEF DialLead, Typed, TypeOK
<1>2. Untouched(l) /\ lead[l].status = "calling"
  BY <1>1 DEF ClaimInv, LeadInv, ChosenIsItsOwn, Dialling, Unspent
<1>3. \A m \in Leads : m # l => inFlight'[m] = inFlight[m]
  BY DEF DialLead, Typed, TypeOK
<1>4. tick'.pc \in {"place", "refuse", "undo"}
  BY <1>1 DEF DialLead, TickType
<1> DEFINE v == NewWrite("dialer", l, "do_not_call", FALSE, FALSE)
<1>5. v.lead = l /\ v.by = "dialer" /\ v.pc = "list"
  BY DEF NewWrite
<1>6. writing' \in {writing, writing \cup {v}}
  BY DEF DialLead, BeginWrite
<1>7. UNCHANGED <<lead, call, op>> /\ outlived' \subseteq outlived
  BY DEF DialLead
<1> HIDE DEF v
<1> QED BY <1>1, <1>2, <1>3, <1>4, <1>5, <1>6, <1>7, RefusalIsAlone

LEMMA PlaceDrains ==
  ASSUME Drain, Typed, ClaimInv, Orderly, PlaceCall
  PROVE  Drain' /\ ClosedStay
<1> USE DEF db
<1>1. tick.pc = "place" /\ UNCHANGED <<lead, inFlight, outlived, op>> /\ tick \in TickType
  BY DEF PlaceCall, Typed, TypeOK
<1>2. PICK l \in Leads : tick.lead = l
  BY <1>1 DEF Typed, References
<1>3. Untouched(l) /\ lead[l].status = "calling" /\ inFlight[l] = "open" /\ l \notin outlived
  BY <1>1, <1>2 DEF ClaimInv, LeadInv, AtLeadIsItsOwn, Unspent
<1>4. CASE call' = call
  <2> DEFINE v == NewWrite("dialer", l, "do_not_call", TRUE, FALSE)
  <2>1. v.lead = l /\ v.by = "dialer" /\ v.pc = "list"
    BY DEF NewWrite
  <2>2. writing' \in {writing, writing \cup {v}}
    BY <1>2 DEF PlaceCall, BeginWrite
  <2>3. tick'.pc \in {"undo", "refuse", "originate"}
    BY <1>1 DEF PlaceCall, TickType
  <2> HIDE DEF v
  <2> QED BY <1>1, <1>3, <1>4, <2>1, <2>2, <2>3, RefusalIsAlone
<1>5. CASE call' # call
  <2>1. PICK k \in Calls :
          /\ call[k].phase = "free"
          /\ call' = [call EXCEPT ![k] = [lead |-> l, phase |-> "parked", told |-> "no"]]
          /\ tick'.pc = "originate" /\ writing' = writing
    BY <1>1, <1>2, <1>5 DEF PlaceCall, TickType
  <2>2. /\ \A j \in Calls : j # k => call'[j] = call[j]
        /\ call'[k].lead = l
    BY <2>1 DEF Typed, TypeOK
  <2>3. ClosedStay
    BY <1>1 DEF ClosedStay
  <2>4. ASSUME NEW m \in Leads, m # l PROVE DrainInv(m)'
    <3>1. Still(m)
      BY <1>1, <2>1, <2>2, <2>4 DEF Still, Active
    <3> QED BY <3>1, StillDrains DEF Drain
  <2>5. DrainInv(l)'
    BY <1>1, <1>3, <2>1 DEF Drain, DrainInv, WritesClose, UnheldIsUntouched, SweepsItsOwn,
       AwaitedGivesBack, Closes, NewStatus, Budget
  <2> QED BY <1>1, <2>1, <2>3, <2>4, <2>5, DrainGoesOn DEF Drain
<1> QED BY <1>4, <1>5

LEMMA UndoDrains ==
  ASSUME Drain, Typed, ClaimInv, Orderly, UndoClaim
  PROVE  Drain' /\ ClosedStay
<1> USE DEF db
<1>1. tick.pc = "undo" /\ UNCHANGED <<call, writing, op>> /\ tick'.pc = "dial"
  BY DEF UndoClaim, Typed, TypeOK, TickType
<1>2. PICK l \in Leads : tick.lead = l
  BY <1>1 DEF Typed, References
<1>3. Untouched(l) /\ lead[l].status = "calling"
  BY <1>1, <1>2 DEF ClaimInv, LeadInv, AtLeadIsItsOwn, Unspent
<1>4. \A w \in writing : w.lead # l
  BY <1>1, <1>3, NoDialerWrites DEF Untouched
<1>5. /\ lead'[l].status \in {"calling", "pending"}
      /\ \A m \in Leads : m # l => lead'[m] = lead[m] /\ inFlight'[m] = inFlight[m]
      /\ outlived' \subseteq outlived
  BY <1>2, <1>3 DEF UndoClaim, Release, Requeued, Row, Typed, TypeOK
<1>6. ClosedStay
  BY <1>3, <1>5 DEF ClosedStay, OpenLeadStatus
<1>7. ASSUME NEW m \in Leads, m # l PROVE DrainInv(m)'
  <2>1. Still(m)
    BY <1>1, <1>5, <1>7 DEF Still, Active
  <2> QED BY <2>1, StillDrains DEF Drain
<1>8. DrainInv(l)'
  <2>1. Untouched(l)'
    BY <1>1, <1>3 DEF Untouched, Active
  <2> QED BY <1>1, <1>4, <2>1 DEF DrainInv, WritesClose, UnheldIsUntouched, SweepsItsOwn, AwaitedGivesBack
<1> QED BY <1>1, <1>6, <1>7, <1>8, DrainGoesOn DEF Drain

(***************************************************************************)
(* The outcomes of calls                                                   *)
(***************************************************************************)
\* A call that owes its outcome begins to have it recorded.
LEMMA ReportDrains ==
  ASSUME Drain, Typed, ClaimInv, NEW k \in Calls, NEW l \in Leads, call[k].lead = l, Unreported(k),
         NEW v, v.by = k, v.lead = l, v.pc \notin {"asked", "commit"}, writing' = writing \cup {v},
         \A w \in writing : w.lead = l => Closes(v) /\ w.pc = "asked",
         Settle(l), UNCHANGED <<lead, outlived, op>>,
         call'[k].lead = l, \A j \in Calls : j # k => call'[j] = call[j],
         \/ tick' = tick
         \/ tick'.pc = "await" /\ tick'.lead = l /\ tick'.call = k /\ call'[k].phase = "abandoned"
  PROVE  Drain' /\ ClosedStay
<1>1. /\ inFlight[l] = "open" /\ lead[l].status = "calling" /\ inFlight'[l] = "settled"
      /\ \A m \in Leads : m # l => inFlight'[m] = inFlight[m]
  BY DEF ClaimInv, LeadInv, OwesAndHolds, NobodyOwes, Settle, Typed, TypeOK
<1>2. ClosedStay
  BY DEF ClosedStay
<1>3. Active(k) /\ ~Untouched(l)
  BY DEF Active, Unreported, Untouched
<1>4. ASSUME NEW m \in Leads, m # l PROVE DrainInv(m)'
  <2>1. tick.pc \in {"await", "refused"} => tick.call \in Calls
    BY DEF Typed, References
  <2>2. l # m /\ v.lead # m
    BY <1>4
  <2>3. tick'.lead = m => tick' = tick
    BY <1>4
  <2>4. \A j \in Calls : j # k => call'[j] = call[j]
    OBVIOUS
  <2>5. \A j \in Calls : call'[j].lead = m => call'[j] = call[j]
    BY <2>2, <2>4
  <2>6. \A j \in Calls : call[j].lead = m => call'[j] = call[j]
    BY <2>2, <2>4
  <2>7. tick'.pc = "sweep" => tick' = tick
    OBVIOUS
  <2>8. Still(m)
    BY <1>1, <2>1, <2>2, <2>3, <2>5, <2>6, <2>7 DEF Still, Active
  <2> QED BY <2>8, StillDrains DEF Drain
<1>5. DrainInv(l)'
  <2>1. DrainInv(l)
    BY DEF Drain
  <2>2. WritesClose(l)'
    <3>1. \A w \in writing : w.lead = l => Closes(w)
      BY DEF Drain, AskedRefuses, Closes, NewStatus, RetryStatus, OpenLeadStatus
    <3> QED BY <1>1, <3>1 DEF WritesClose, Closes, NewStatus, Budget
  <2>3. UnheldIsUntouched(l)'
    BY <1>1, <1>3, <2>1 DEF DrainInv, UnheldIsUntouched
  <2>4. SweepsItsOwn(l)'
    <3>1. "dialer" \notin Calls
      BY ConstantsAssumption
    <3> QED BY <1>1, <2>1, <3>1 DEF DrainInv, SweepsItsOwn
  <2>5. AwaitedGivesBack(l)'
    <3>1. CASE tick' = tick
      <4> SUFFICES ASSUME tick.lead = l, tick.pc \in {"await", "refused"} PROVE FALSE
        BY <3>1 DEF AwaitedGivesBack
      <4>1. tick.call \in Calls /\ call[tick.call].phase = "abandoned" /\ call[tick.call].lead = l
        BY <1>1, <2>1 DEF DrainInv, AwaitedGivesBack, Typed, References
      <4>2. tick.call = k
        BY <1>3, <4>1 DEF ClaimInv, LeadInv, OneCallFor, Active
      <4> QED BY <4>1, <4>2 DEF Unreported
    <3> QED BY <3>1 DEF AwaitedGivesBack
  <2> QED BY <2>2, <2>3, <2>4, <2>5 DEF DrainInv
<1> QED BY <1>2, <1>4, <1>5, DrainGoesOn DEF Drain

\* What has been recorded for a lead whose call still owes its outcome is no
\* more than a refusal that is yet to be reported.
LEMMA OnlyAskedBeside ==
  ASSUME Drain, Typed, ClaimInv, NEW k \in Calls, NEW l \in Leads, call[k].lead = l, Unreported(k)
  PROVE  \A w \in writing : w.lead = l =>
           w.by = k /\ w.pc = "asked" /\ call[k].phase = "talking"
<1>1. Active(k) /\ ~Untouched(l)
  BY DEF Active, Unreported, Untouched
<1>2. \A w \in writing : w.lead = l => w.by # "dialer"
  BY <1>1, CallKeepsDialerAway DEF Drain
<1>3. WritesAreTheirs(l)
  BY DEF ClaimInv, LeadInv
<1> QED BY <1>1, <1>2, <1>3 DEF WritesAreTheirs, Unreported

LEMMA AbandonDrains ==
  ASSUME Drain, Typed, ClaimInv, NEW k \in Calls, NEW o, AbandonDial(k, o),
         UNCHANGED <<lead, outlived, op>>,
         \/ tick' = tick
         \/ tick'.pc = "await" /\ tick'.lead = call[k].lead /\ tick'.call = k
  PROVE  Drain' /\ ClosedStay
<1>1. /\ call[k].phase \in {"parked", "ringing"} /\ call[k].told = "no"
      /\ Report(k, o, TRUE)
  BY DEF AbandonDial, ClaimInv, Steady
<1>2. PICK l \in Leads : call[k].lead = l
  BY <1>1 DEF Typed, References, CallsHaveLeads
<1>3. Unreported(k)
  BY <1>1 DEF Unreported
<1> DEFINE v == NewWrite(k, l, ToCampaignOutcome(o), TRUE, TRUE)
<1>4. v.by = k /\ v.lead = l /\ v.pc \notin {"asked", "commit"} /\ writing' = writing \cup {v}
  BY <1>1, <1>2 DEF NewWrite, Report, BeginWrite
<1>5. \A w \in writing : w.lead # l
  BY <1>1, <1>2, <1>3, OnlyAskedBeside
<1>6. /\ call'[k].lead = l /\ call'[k].phase = "abandoned"
      /\ \A j \in Calls : j # k => call'[j] = call[j]
  BY <1>2 DEF AbandonDial, Typed, TypeOK, CallType
<1>7. Settle(l)
  BY <1>1, <1>2 DEF Report
<1> HIDE DEF v
<1> QED BY <1>2, <1>3, <1>4, <1>5, <1>6, <1>7, ReportDrains

LEMMA OriginateDrains ==
  ASSUME Drain, Typed, ClaimInv, Originate
  PROVE  Drain' /\ ClosedStay
<1> USE DEF db
<1>1. tick.pc = "originate" /\ UNCHANGED <<lead, outlived, op>> /\ tick \in TickType
  BY DEF Originate, Typed, TypeOK
<1>2. PICK l \in Leads, k \in Calls : tick.lead = l /\ tick.call = k
  BY <1>1 DEF Typed, References
<1>3. call[k].phase = "parked" /\ call[k].lead = l
  BY <1>1, <1>2 DEF ClaimInv, LeadInv, AtLeadIsItsOwn
<1>4. CASE /\ \E o \in ChannelOutcomes : AbandonDial(k, o)
           /\ tick' = [tick EXCEPT !.pc = "await"]
  <2>1. tick'.pc = "await" /\ tick'.lead = l /\ tick'.call = k
    BY <1>1, <1>2, <1>4 DEF TickType
  <2>2. PICK o \in ChannelOutcomes : AbandonDial(k, o)
    BY <1>4
  <2> QED BY <1>1, <1>3, <2>1, <2>2, AbandonDrains
<1>5. CASE /\ call' = [call EXCEPT ![k].phase = "ringing"]
           /\ tick' = [tick EXCEPT !.pc = "response"]
           /\ UNCHANGED <<inFlight, writing>>
  <2>1. /\ call'[k].lead = l /\ \A j \in Calls : j # k => call'[j] = call[j]
        /\ Active(k) /\ tick'.pc = "response"
    BY <1>1, <1>3, <1>5 DEF Typed, TypeOK, CallType, TickType, Active
  <2>2. \A m \in Leads : Still(m)
    BY <1>1, <1>3, <1>5, <2>1 DEF Still, Active
  <2>3. ClosedStay
    BY <1>1 DEF ClosedStay
  <2> QED BY <1>1, <1>5, <2>2, <2>3, StillGoesOn DEF Drain
<1> QED BY <1>2, <1>3, <1>4, <1>5 DEF Originate

\* The tick lets go of a lead whose claim has been given back.
LEMMA LetGoDrains ==
  ASSUME Drain, Typed, ClaimInv, Orderly, OriginateResponse \/ AwaitAbandoned \/ DialRefused
  PROVE  Drain' /\ ClosedStay
<1> USE DEF db
<1>1. tick \in TickType /\ UNCHANGED <<lead, op>>
  BY DEF OriginateResponse, AwaitAbandoned, DialRefused, Typed, TypeOK
<1>2. ClosedStay
  BY <1>1 DEF ClosedStay
<1>3. CASE OriginateResponse
  <2>1. tick'.pc = "dial" /\ UNCHANGED <<inFlight, outlived, call, writing>>
    BY <1>1, <1>3 DEF OriginateResponse, Orderly, Calm, TickType
  <2>2. \A m \in Leads : Still(m)
    BY <1>1, <2>1 DEF Still, Active
  <2> QED BY <1>1, <1>2, <2>1, <2>2, StillGoesOn DEF Drain
<1>4. CASE AwaitAbandoned
  <2>1. /\ tick.pc = "await" /\ call[tick.call].phase # "abandoned"
        /\ tick'.pc = "refused" /\ tick'.lead = tick.lead
        /\ UNCHANGED <<inFlight, outlived, call, writing>>
    BY <1>1, <1>4 DEF AwaitAbandoned, TickType
  <2>2. ASSUME NEW m \in Leads PROVE DrainInv(m)'
    <3>1. DrainInv(m) /\ (Untouched(m)' <=> Untouched(m))
      BY <2>1 DEF Drain, Untouched, Active
    <3>2. AwaitedGivesBack(m)'
      BY <2>1, <3>1 DEF DrainInv, AwaitedGivesBack
    <3>3. WritesClose(m)' /\ UnheldIsUntouched(m)'
      BY <1>1, <2>1, <3>1 DEF DrainInv, WritesClose, UnheldIsUntouched, Closes, NewStatus, Budget
    <3> QED BY <2>1, <3>2, <3>3 DEF DrainInv, SweepsItsOwn
  <2> QED BY <1>1, <1>2, <2>1, <2>2, DrainGoesOn DEF Drain
<1>5. CASE DialRefused
  <2>1. PICK l \in Leads : tick.lead = l /\ tick.pc = "refused"
    BY <1>5 DEF DialRefused, Typed, References
  <2>2. inFlight[l] = "none"
    BY <2>1 DEF Drain, DrainInv, AwaitedGivesBack
  <2>3. /\ tick'.pc = "dial" /\ UNCHANGED <<call, writing>> /\ outlived' \subseteq outlived
        /\ \A m \in Leads : inFlight'[m] = inFlight[m]
    BY <1>1, <1>5, <2>1, <2>2 DEF DialRefused, Release, TickType, Typed, TypeOK
  <2>4. \A m \in Leads : Still(m)
    BY <1>1, <2>3 DEF Still, Active
  <2> QED BY <1>1, <1>2, <2>3, <2>4, StillGoesOn DEF Drain
<1> QED BY <1>3, <1>4, <1>5

\* Only a pending lead of the phone is skipped.
LEMMA SkipCloses ==
  ASSUME Typed, NEW p, SkipQueued(p) \/ UNCHANGED lead
  PROVE  ClosedStay /\ \A m \in Leads : lead'[m].status = "calling" <=> lead[m].status = "calling"
BY DEF SkipQueued, ClosedStay, OpenLeadStatus, Row

LEMMA AnswerCloses ==
  ASSUME NEW v, v.outcome \in {"answered", "do_not_call"} PROVE Closes(v)
BY DEF Closes, NewStatus, RetryStatus, FinalOutcomes, OpenLeadStatus

\* A conversation: its outcome, its refusal, its end.
LEMMA TalkDrains ==
  ASSUME Drain, Typed, ClaimInv, Orderly, NEW k \in Calls,
         TellOutcome(k) \/ (HangUp(k) /\ call[k].told = "no")
  PROVE  Drain' /\ ClosedStay
<1> USE DEF db
<1>1. /\ call[k].phase = "talking" /\ call[k].told = "no"
      /\ UNCHANGED <<lead, outlived, op, tick>>
  BY DEF TellOutcome, HangUp, ClaimInv, Steady
<1>2. PICK l \in Leads : call[k].lead = l
  BY <1>1 DEF Typed, References, CallsHaveLeads
<1>3. Unreported(k)
  BY <1>1 DEF Unreported
<1>4. PICK o \in {"agreed", "voicemail", "answered"}, c \in BOOLEAN :
        /\ Report(k, o, c)
        /\ o = "answered" \/ \A w \in writing : w.by # k
  BY DEF TellOutcome, HangUp, MayUseTool, Orderly
<1> DEFINE v == NewWrite(k, l, ToCampaignOutcome(o), TRUE, c)
<1>5. /\ v.by = k /\ v.lead = l /\ v.pc \notin {"asked", "commit"} /\ writing' = writing \cup {v}
      /\ o = "answered" => v.outcome = "answered"
  BY <1>2, <1>4 DEF NewWrite, Report, BeginWrite, ToCampaignOutcome
<1> HIDE DEF v
<1>6. \A w \in writing : w.lead = l => Closes(v) /\ w.pc = "asked"
  BY <1>2, <1>3, <1>4, <1>5, OnlyAskedBeside, AnswerCloses
<1>7. call'[k].lead = l /\ \A j \in Calls : j # k => call'[j] = call[j]
  BY <1>2 DEF TellOutcome, HangUp, Typed, TypeOK, CallType
<1>8. Settle(l)
  BY <1>2, <1>4 DEF Report
<1> QED BY <1>1, <1>2, <1>3, <1>5, <1>6, <1>7, <1>8, ReportDrains

LEMMA OptOutDrains ==
  ASSUME Drain, Typed, ClaimInv, Orderly, NEW k \in Calls, TellOptOut(k)
  PROVE  Drain' /\ ClosedStay
<1> USE DEF db
<1> PICK v : v = Asked(k)
  OBVIOUS
<1>1. /\ call[k].phase = "talking" /\ \A w \in writing : w.by # k
      /\ writing' = writing \cup {v}
      /\ UNCHANGED <<lead, inFlight, outlived, op, tick, call>>
  BY DEF TellOptOut, MayUseTool, Orderly
<1>2. PICK l \in Leads : call[k].lead = l
  BY <1>1 DEF Typed, References, CallsHaveLeads
<1>3. v.by = k /\ v.lead = l /\ v.pc = "asked" /\ v.outcome = "do_not_call"
  BY <1>2 DEF Asked, NewWrite
<1>4. Active(k) /\ ~Untouched(l) /\ DrainInv(l) /\ WritesAreTheirs(l)
  BY <1>1, <1>2 DEF Active, Untouched, Drain, ClaimInv, LeadInv
<1>5. \A w \in writing : w.lead # l
  BY <1>1, <1>2, <1>4, CallKeepsDialerAway DEF WritesAreTheirs
<1>6. ClosedStay
  BY <1>1 DEF ClosedStay
<1>7. ASSUME NEW m \in Leads, m # l PROVE DrainInv(m)'
  <2>1. Still(m)
    BY <1>1, <1>3, <1>7 DEF Still, Active
  <2> QED BY <2>1, StillDrains DEF Drain
<1>8. DrainInv(l)'
  <2>1. Closes(v)' /\ \A w \in writing' : w.lead = l => w = v
    BY <1>1, <1>3, <1>5, AnswerCloses DEF Closes, NewStatus, Budget
  <2>2. WritesClose(l)'
    BY <2>1 DEF WritesClose
  <2>3. UnheldIsUntouched(l)'
    BY <1>1, <1>4 DEF DrainInv, UnheldIsUntouched
  <2>4. SweepsItsOwn(l)'
    <3>1. ~(tick.pc = "sweep" /\ l \in tick.todo)
      BY <1>4, CallKeepsDialerAway
    <3>2. "dialer" \notin Calls
      BY ConstantsAssumption
    <3> QED BY <1>1, <1>3, <2>1, <3>1, <3>2 DEF SweepsItsOwn
  <2>5. AwaitedGivesBack(l)'
    BY <1>1, <1>4 DEF DrainInv, AwaitedGivesBack
  <2> QED BY <2>2, <2>3, <2>4, <2>5 DEF DrainInv
<1>9. LastIsLast'
  BY <1>1, <1>3, <1>6, LastStays DEF Drain, LastIsLast
<1>10. AskedRefuses'
  BY <1>1, <1>3 DEF Drain, AskedRefuses
<1> QED BY <1>1, <1>6, <1>7, <1>8, <1>9, <1>10 DEF Drain

\* A call that owes nothing any more, or that goes on owing.
LEMMA CallGoesOnDrains ==
  ASSUME Drain, Typed, ClaimInv, NEW k \in Calls,
         \/ Answer(k) \/ Register(k) \/ LoseHangUp(k) \/ OrphanEnds(k)
         \/ HangUp(k) /\ call[k].told # "no"
  PROVE  Drain' /\ ClosedStay
<1> USE DEF db
<1>1. UNCHANGED <<lead, inFlight, outlived, op, tick, writing>>
  BY DEF Answer, Register, LoseHangUp, OrphanEnds, HangUp
<1>2. /\ call[k].phase # "abandoned"
      /\ \A j \in Calls : j # k => call'[j] = call[j]
      /\ Active(k)' => Active(k) /\ call'[k].lead = call[k].lead
  <2> USE DEF Typed, TypeOK, CallType
  <2>1. CASE Answer(k)
    BY <2>1 DEF Answer, Active
  <2>2. CASE Register(k)
    BY <2>2 DEF Register, Active
  <2>3. CASE LoseHangUp(k)
    BY <2>3 DEF LoseHangUp, Active
  <2>4. CASE OrphanEnds(k)
    BY <2>4 DEF OrphanEnds, Active, FreeCall
  <2>5. CASE HangUp(k) /\ call[k].told # "no"
    <3>1. call[k].phase \in {"talking", "ended"} /\ call' = [call EXCEPT ![k] = FreeCall]
      BY <2>5 DEF HangUp
    <3>2. call'[k] = FreeCall /\ FreeCall.phase = "free"
      BY <3>1 DEF FreeCall
    <3> QED BY <3>1, <3>2 DEF Active
  <2> QED BY <2>1, <2>2, <2>3, <2>4, <2>5
<1>3. ClosedStay
  BY <1>1 DEF ClosedStay
<1>4. ASSUME NEW m \in Leads PROVE DrainInv(m)'
  <2>1. DrainInv(m)
    BY DEF Drain
  <2>2. Untouched(m) => Untouched(m)'
    BY <1>1, <1>2 DEF Untouched, Active
  <2>3. UnheldIsUntouched(m)'
    BY <1>1, <2>1, <2>2 DEF DrainInv, UnheldIsUntouched
  <2>4. WritesClose(m)' /\ SweepsItsOwn(m)'
    BY <1>1, <2>1 DEF DrainInv, WritesClose, SweepsItsOwn, Closes, NewStatus, Budget
  <2>5. AwaitedGivesBack(m)'
    <3>1. tick.pc \in {"await", "refused"} => tick.call \in Calls
      BY DEF Typed, References
    <3>2. tick.pc \in {"await", "refused"} =>
            (call[tick.call].phase = "abandoned" => call'[tick.call] = call[tick.call])
      BY <1>2, <3>1
    <3> QED BY <1>1, <2>1, <3>2 DEF DrainInv, AwaitedGivesBack
  <2> QED BY <2>3, <2>4, <2>5 DEF DrainInv
<1> QED BY <1>1, <1>3, <1>4, DrainGoesOn DEF Drain

LEMMA CallDrains ==
  ASSUME Drain, Typed, ClaimInv, Orderly, NEW k \in Calls, CallStep(k)
  PROVE  Drain' /\ ClosedStay
<1>1. CASE Unanswered(k)
  <2>1. PICK o \in ChannelOutcomes : AbandonDial(k, o)
    BY <1>1 DEF Unanswered
  <2> QED BY <1>1, <2>1, AbandonDrains DEF Unanswered, db
<1> QED
  BY <1>1, TalkDrains, OptOutDrains, CallGoesOnDrains DEF CallStep, CallEnds


(***************************************************************************)
(* recordDialOutcome                                                       *)
(***************************************************************************)
\* On its way to the commit a run keeps what it will write; it counts the queue
\* with the row of every other lead as it is.
LEMMA WriteMovesDrains ==
  ASSUME Drain, Typed, NEW w \in writing, ListOutcome(w) \/ SkipOutcome(w) \/ UpdateLead(w)
  PROVE  Drain' /\ ClosedStay
<1> USE DEF db
<1>1. PICK v :
        /\ writing' = (writing \ {w}) \cup {v}
        /\ w.pc # "asked" /\ v.pc # "asked"
        /\ v.by = w.by /\ v.lead = w.lead /\ v.outcome = w.outcome /\ v.attempts = w.attempts
        /\ v.pc = "commit" /\ v.last => Closes(w) /\ OthersClosed(w)
  <2>1. w \in WriteType
    BY DEF Typed, TypeOK
  <2>2. CASE ListOutcome(w)
    <3>1. PICK v : v = [w EXCEPT !.pc = "skip"]
      OBVIOUS
    <3>2. writing' = (writing \ {w}) \cup {v} /\ w.pc = "list"
      BY <2>2, <3>1 DEF ListOutcome
    <3>3. /\ v.pc = "skip" /\ v.by = w.by /\ v.lead = w.lead
          /\ v.outcome = w.outcome /\ v.attempts = w.attempts
      BY <2>1, <3>1 DEF WriteType
    <3> QED BY <3>2, <3>3
  <2>3. CASE SkipOutcome(w)
    <3>1. PICK v : v = [w EXCEPT !.pc = "update"]
      OBVIOUS
    <3>2. writing' = (writing \ {w}) \cup {v} /\ w.pc = "skip"
      BY <2>3, <3>1 DEF SkipOutcome
    <3>3. /\ v.pc = "update" /\ v.by = w.by /\ v.lead = w.lead
          /\ v.outcome = w.outcome /\ v.attempts = w.attempts
      BY <2>1, <3>1 DEF WriteType
    <3> QED BY <3>2, <3>3
  <2>4. CASE UpdateLead(w)
    <3>1. PICK v : v = [w EXCEPT !.pc = "commit", !.last = w.running /\ EmptiesQueue(w)]
      OBVIOUS
    <3>2. writing' = (writing \ {w}) \cup {v} /\ w.pc = "update"
      BY <2>4, <3>1 DEF UpdateLead
    <3>3. /\ v.pc = "commit" /\ v.by = w.by /\ v.lead = w.lead
          /\ v.outcome = w.outcome /\ v.attempts = w.attempts
      BY <2>1, <3>1 DEF WriteType
    <3>4. v.last => EmptiesQueue(w)
      BY <2>1, <3>1 DEF WriteType
    <3>5. v.last => Closes(w) /\ OthersClosed(w)
      BY <3>4 DEF EmptiesQueue, Closes
    <3> QED BY <3>2, <3>3, <3>5
  <2> QED BY <2>2, <2>3, <2>4
<1>2. UNCHANGED <<inFlight, outlived, tick, call, op>>
  BY DEF ListOutcome, SkipOutcome, UpdateLead
<1>3. ClosedStay /\ \A m \in Leads : lead'[m].status = "calling" <=> lead[m].status = "calling"
  BY SkipCloses DEF ListOutcome, SkipOutcome, UpdateLead
<1>4. /\ Closes(v) <=> Closes(w)
      /\ OthersClosed(v) <=> OthersClosed(w)
      /\ \A u : Closes(u)' <=> Closes(u)
  BY <1>1 DEF Closes, OthersClosed, NewStatus, Budget
<1>5. ASSUME NEW m \in Leads PROVE DrainInv(m)'
  <2>1. DrainInv(m)
    BY DEF Drain
  <2>2. \A u \in writing' : u = v \/ (u \in writing /\ u # w)
    BY <1>1
  <2>3. WritesClose(m)'
    <3>1. ASSUME NEW u \in writing', u.lead = m, lead'[m].status # "calling" PROVE Closes(u)
      BY <1>1, <1>3, <1>4, <2>1, <2>2, <3>1 DEF DrainInv, WritesClose
    <3>2. ASSUME NEW a \in writing', NEW b \in writing', a.lead = m, b.lead = m, a # b
          PROVE  Closes(a)
      BY <1>1, <1>4, <2>1, <2>2, <3>2 DEF DrainInv, WritesClose
    <3> QED BY <1>4, <3>1, <3>2 DEF WritesClose
  <2>4. Untouched(m) => Untouched(m)'
    BY <1>1, <1>2, <2>2 DEF Untouched, Active
  <2>5. UnheldIsUntouched(m)'
    BY <1>2, <1>3, <2>1, <2>4 DEF DrainInv, UnheldIsUntouched
  <2>6. SweepsItsOwn(m)'
    BY <1>1, <1>2, <1>3, <2>1, <2>2 DEF DrainInv, SweepsItsOwn
  <2>7. AwaitedGivesBack(m)'
    BY <1>2, <2>1 DEF DrainInv, AwaitedGivesBack
  <2> QED BY <2>3, <2>5, <2>6, <2>7 DEF DrainInv
<1>6. LastIsLast'
  <2>1. \A u \in writing' : u.pc = "commit" /\ u.last => Closes(u) /\ OthersClosed(u)
    BY <1>1, <1>4 DEF Drain, LastIsLast
  <2> QED BY <1>3, <2>1, LastStays
<1>7. AskedRefuses'
  BY <1>1 DEF Drain, AskedRefuses
<1> QED BY <1>2, <1>3, <1>5, <1>6, <1>7 DEF Drain

\* The row is rewritten.  A lead that was closed stays so, for only a claimed
\* one is put back; and nobody is left who would put it back again.
LEMMA CommitDrains ==
  ASSUME Drain, Typed, ClaimInv, NEW w \in writing, Commit(w)
  PROVE  Drain' /\ ClosedStay
<1> USE DEF db, proc, ghosts
<1>1. PICK l \in Leads : w.lead = l
  BY DEF Typed, TypeOK, WriteType
<1>2. "dialer" \notin Calls /\ None \notin Leads
  BY ConstantsAssumption
<1>3. DrainInv(l) /\ LeadInv(l) /\ Steady
  BY DEF Drain, ClaimInv
<1>4. /\ lead'[l].status = NewStatus(w) /\ \A m \in Leads : m # l => lead'[m] = lead[m]
      /\ writing' = writing \ {w}
  BY <1>1 DEF Commit, Return, NewRow, Row, Typed, TypeOK
<1>5. NewStatus(w) # "calling"
  BY DEF NewStatus, RetryStatus
<1>6. ClosedStay
  <2>1. lead[l].status \notin OpenLeadStatus => Closes(w)
    BY <1>1, <1>3 DEF DrainInv, WritesClose, OpenLeadStatus
  <2> QED BY <1>4, <2>1 DEF ClosedStay, Closes
<1>7. \/ w.by \in Calls /\ Release(l) /\ UNCHANGED <<tick, op>>
         /\ call' = IF w.closes THEN [call EXCEPT ![w.by] = FreeCall] ELSE call
      \/ w.by = "dialer" /\ tick.pc = "refuse" /\ Release(l) /\ UNCHANGED <<call, op>>
         /\ tick' = [tick EXCEPT !.pc = "dial", !.lead = None, !.call = None]
      \/ w.by = "dialer" /\ tick.pc = "sweep" /\ UNCHANGED <<inFlight, outlived, tick, call, op>>
  BY <1>1, <1>2, <1>3 DEF Commit, Return, Steady
<1>8. /\ outlived' \subseteq outlived
      /\ \A m \in Leads : m # l => inFlight'[m] = inFlight[m]
      /\ op' = op /\ (tick' = tick \/ tick'.pc = "dial")
      /\ tick.pc # "sweep" => inFlight'[l] = "none" /\ l \notin outlived'
      /\ w.by # "dialer" => inFlight'[l] = "none" /\ l \notin outlived'
  <2>1. tick \in TickType
    BY DEF Typed, TypeOK
  <2> QED BY <1>7, <2>1, <1>2 DEF Release, Typed, TypeOK, TickType
<1>9. \A k \in Calls :
        \/ call'[k] = call[k]
        \/ ~Active(k)' /\ (call[k].lead = l \/ ~Active(k))
  <2>1. CASE w.by \in Calls
    <3>1. \A k \in Calls : call'[k] = call[k] \/ (call'[k] = FreeCall /\ k = w.by)
      BY <1>2, <1>7, <2>1 DEF Typed, TypeOK
    <3>2. FreeCall.phase = "free"
      BY DEF FreeCall
    <3>3. call[w.by].phase = "free" \/ call[w.by].lead = l
      BY <1>1, <1>3, <2>1 DEF Steady
    <3> QED BY <3>1, <3>2, <3>3 DEF Active
  <2> QED BY <1>7, <2>1
<1>10. ASSUME NEW m \in Leads, m # l PROVE DrainInv(m)'
  <2>1. Still(m)
    <3>1. \A k \in Calls : call'[k].lead = m /\ Active(k)' => call[k].lead = m /\ Active(k)
      BY <1>9 DEF Active
    <3>2. ASSUME tick'.lead = m, tick'.pc \in {"await", "refused"}
          PROVE  /\ tick.lead = m /\ tick'.pc = tick.pc /\ tick'.call = tick.call
                 /\ call[tick.call].lead = m => call'[tick.call] = call[tick.call]
      <4>1. tick' = tick /\ tick.call \in Calls
        BY <1>8, <3>2 DEF Typed, References
      <4>2. CASE call'[tick.call] # call[tick.call]
        <5>1. w.by = tick.call /\ w.by \in Calls
          BY <1>7, <4>1, <4>2 DEF Typed, TypeOK
        <5>2. call[tick.call].phase = "free" \/ call[tick.call].lead = l
          BY <1>1, <1>3, <5>1 DEF Steady
        <5>3. call[tick.call].phase = "free" => call[tick.call].lead = None
          BY <1>3, <4>1 DEF Steady
        <5> QED BY <1>2, <1>10, <3>2, <4>1, <5>2, <5>3
      <4> QED BY <3>2, <4>1, <4>2
    <3> QED BY <1>4, <1>8, <1>10, <3>1, <3>2 DEF Still
  <2> QED BY <2>1, StillDrains DEF Drain
<1>11. DrainInv(l)'
  <2>1. WritesClose(l)'
    <3>1. \A u \in writing' : u.lead = l => Closes(u)
      BY <1>1, <1>3, <1>4 DEF DrainInv, WritesClose
    <3> QED BY <3>1 DEF WritesClose, Closes, NewStatus, Budget
  <2>2. Untouched(l) => Untouched(l)'
    BY <1>4, <1>9 DEF Untouched, Active
  <2>3. UnheldIsUntouched(l)'
    BY <1>3, <1>4, <1>5, <1>8, <2>2 DEF DrainInv, UnheldIsUntouched
  <2>4. SweepsItsOwn(l)'
    <3> SUFFICES ASSUME tick'.pc = "sweep"
                 PROVE  /\ l \notin tick'.todo
                        /\ \A u \in writing' : ~(u.lead = l /\ u.by = "dialer")
      BY DEF SweepsItsOwn
    <3>1. tick' = tick
      BY <1>8
    <3>2. l \notin tick.todo
      BY <1>1, <1>3, <3>1 DEF DrainInv, SweepsItsOwn
    <3>3. ASSUME NEW u \in writing', u.lead = l, u.by = "dialer" PROVE FALSE
      <4>1. lead[l].status = "calling" /\ inFlight[l] = "none" /\ u \in writing /\ u # w
        BY <1>3, <1>4, <3>1, <3>3 DEF DrainInv, SweepsItsOwn
      <4>2. w.by = "dialer"
        BY <1>1, <1>3, <4>1 DEF DrainInv, UnheldIsUntouched, Untouched
      <4> QED BY <1>3, <3>3, <4>1, <4>2 DEF Steady
    <3> QED BY <3>1, <3>2, <3>3
  <2>5. AwaitedGivesBack(l)'
    BY <1>8 DEF AwaitedGivesBack
  <2> QED BY <2>1, <2>3, <2>4, <2>5 DEF DrainInv
<1>12. LastIsLast'
  BY <1>4, <1>6, LastStays DEF Drain, LastIsLast
<1>13. AskedRefuses'
  BY <1>4 DEF Drain, AskedRefuses
<1>14. op'.act = "none"
  BY <1>8 DEF Drain
<1> QED BY <1>6, <1>10, <1>11, <1>12, <1>13, <1>14 DEF Drain

\* A refusal that was listed is reported: it closes the lead, whatever else does.
LEMMA AskedDrains ==
  ASSUME Drain, Typed, ClaimInv, Orderly, NEW w \in writing, TellAsked(w)
  PROVE  Drain' /\ ClosedStay
<1> USE DEF db, proc, ghosts
<1>1. PICK l \in Leads, k \in Calls : w.lead = l /\ w.by = k
  BY DEF TellAsked, Drain, AskedRefuses, Typed, TypeOK, WriteType
<1>2. "dialer" \notin Calls /\ w.outcome = "do_not_call"
  BY ConstantsAssumption DEF TellAsked, Drain, AskedRefuses
<1>3. DrainInv(l)
  BY DEF Drain
<1>4. PICK v : v = NewWrite(k, l, "do_not_call", TRUE, FALSE)
  OBVIOUS
<1>5. v.by = k /\ v.lead = l /\ v.pc = "list" /\ v.outcome = "do_not_call"
  BY <1>4 DEF NewWrite
<1>6. writing' = (writing \ {w}) \cup {v} /\ UNCHANGED <<outlived, tick, op>>
  BY <1>1, <1>4 DEF TellAsked
<1>7. ClosedStay /\ \A m \in Leads : lead'[m].status = "calling" <=> lead[m].status = "calling"
  <2>1. SkipQueued(PhoneOf[w.lead])
    BY DEF TellAsked, Orderly
  <2> QED BY <2>1, SkipCloses
<1>8. /\ inFlight[l] = "none" <=> inFlight'[l] = "none"
      /\ \A m \in Leads : m # l => inFlight'[m] = inFlight[m]
  BY <1>1 DEF TellAsked, Settle, Typed, TypeOK
<1>9. /\ \A j \in Calls : /\ call'[j].lead = call[j].lead /\ call'[j].phase = call[j].phase
                          /\ call[j].lead # l => call'[j] = call[j]
  BY <1>1 DEF TellAsked, Typed, TypeOK, CallType
<1>10. Closes(v) /\ Closes(w) /\ \A u : Closes(u)' <=> Closes(u)
  BY <1>2, <1>5, AnswerCloses DEF Closes, NewStatus, Budget
<1>11. \A u \in writing' : u = v \/ (u \in writing /\ u # w)
  BY <1>6
<1>12. tick.pc \in {"await", "refused"} => tick.call \in Calls
  BY DEF Typed, References
<1>13. ASSUME NEW m \in Leads, m # l PROVE DrainInv(m)'
  <2>1. Still(m)
    BY <1>5, <1>6, <1>7, <1>8, <1>9, <1>11, <1>12, <1>13 DEF Still, Active
  <2> QED BY <2>1, StillDrains DEF Drain
<1>14. DrainInv(l)'
  <2>1. ~Untouched(l)
    BY <1>1, <1>2 DEF Untouched
  <2>2. WritesClose(l)'
    <3>1. ASSUME NEW u \in writing', u.lead = l, lead'[l].status # "calling" PROVE Closes(u)
      BY <1>3, <1>7, <1>10, <1>11, <3>1 DEF DrainInv, WritesClose
    <3>2. ASSUME NEW a \in writing', NEW b \in writing', a.lead = l, b.lead = l, a # b
          PROVE  Closes(a)
      BY <1>1, <1>3, <1>10, <1>11, <3>2 DEF DrainInv, WritesClose
    <3> QED BY <1>10, <3>1, <3>2 DEF WritesClose
  <2>3. UnheldIsUntouched(l)'
    BY <1>3, <1>6, <1>7, <1>8, <2>1 DEF DrainInv, UnheldIsUntouched
  <2>4. SweepsItsOwn(l)'
    BY <1>1, <1>2, <1>3, <1>5, <1>6, <1>7, <1>8, <1>11 DEF DrainInv, SweepsItsOwn
  <2>5. AwaitedGivesBack(l)'
    BY <1>3, <1>6, <1>8, <1>9, <1>12 DEF DrainInv, AwaitedGivesBack
  <2> QED BY <2>2, <2>3, <2>4, <2>5 DEF DrainInv
<1>15. LastIsLast'
  <2>1. \A u \in writing' : u.pc = "commit" /\ u.last => Closes(u) /\ OthersClosed(u)
    BY <1>5, <1>11 DEF Drain, LastIsLast
  <2> QED BY <1>7, <2>1, LastStays
<1>16. AskedRefuses'
  BY <1>5, <1>11 DEF Drain, AskedRefuses
<1>17. op'.act = "none"
  BY <1>6 DEF Drain
<1> QED BY <1>7, <1>13, <1>14, <1>15, <1>16, <1>17 DEF Drain

(***************************************************************************)
(* The supervisor, the process and the clock                               *)
(***************************************************************************)
\* Rows may be skipped in the queue, age or fall due; nothing else moves.
LEMMA RowsRestDrains ==
  ASSUME Drain, Typed, UNCHANGED <<inFlight, outlived, tick, call, writing, op>>, ClosedStay,
         \A m \in Leads : lead'[m].status = "calling" <=> lead[m].status = "calling"
  PROVE  Drain'
<1>1. \A m \in Leads : Still(m)
  BY DEF Still, Active
<1> QED BY <1>1, StillGoesOn DEF Drain

LEMMA SupervisorDrains ==
  ASSUME Drain, Typed, Orderly, SupervisorStep
  PROVE  Drain' /\ ClosedStay
<1> USE DEF db, proc, ghosts
<1>1. op.act = "none"
  BY DEF Drain
<1>2. ~ApplyPatch /\ ~RecordByHand
  BY <1>1 DEF ApplyPatch, RecordByHand
<1>3. \A l \in Leads, act \in {"skip", "requeue", "outcome", "import"} : ~OpenPatch(l, act)
  BY DEF OpenPatch, Orderly, Calm
<1>4. ASSUME NEW c \in Campaigns, NEW action \in {"start", "pause", "cancel"},
             ApplyTransition(c, action)
      PROVE  Drain' /\ ClosedStay
  BY <1>4, RowsRestDrains DEF ApplyTransition, ClosedStay
<1>5. ASSUME NEW p \in Phones, ListByHand(p) \/ SkipListed(p) \/ RemoveFromList(p)
      PROVE  Drain' /\ ClosedStay
  <2>1. SkipQueued(p) \/ UNCHANGED lead
    BY <1>5 DEF ListByHand, SkipListed, RemoveFromList
  <2>2. UNCHANGED <<inFlight, outlived, tick, call, writing, op>>
    BY <1>5 DEF ListByHand, SkipListed, RemoveFromList
  <2> QED BY <2>1, <2>2, SkipCloses, RowsRestDrains
<1> QED BY <1>2, <1>3, <1>4, <1>5 DEF SupervisorStep

LEMMA RebootDrains ==
  ASSUME Drain, ClaimInv, Orderly, ProcessStep
  PROVE  Drain' /\ ClosedStay
<1>1. Reboot
  BY DEF ClaimInv, Steady, ProcessStep, ReleaseInFlightClaims, StopVoicePlatform, Exit, Crash,
         Orderly, Calm
<1>2. /\ \A k \in Calls : call'[k] = FreeCall
      /\ writing' = {} /\ op' = NoOp /\ outlived' = {} /\ tick' = IdleTick /\ UNCHANGED lead
  BY <1>1 DEF Reboot, Orderly, Calm, db
<1>3. /\ \A k \in Calls : ~Active(k)'
      /\ op'.act = "none" /\ tick'.pc = "idle"
  BY <1>2 DEF Active, FreeCall, NoOp, IdleTick
<1> QED
  BY <1>2, <1>3 DEF Drain, AskedRefuses, LastIsLast, DrainInv, WritesClose, UnheldIsUntouched,
     Untouched, SweepsItsOwn, AwaitedGivesBack, ClosedStay

LEMMA ClockDrains ==
  ASSUME Drain, Typed, Orderly, NEW l \in Leads,
         ClaimAges(l) \/ ClaimOutlives(l) \/ RetryFallsDue(l)
  PROVE  Drain' /\ ClosedStay
<1> USE DEF db, proc, ghosts
<1>1. CASE ClaimAges(l) \/ RetryFallsDue(l)
  <2>1. \A m \in Leads : lead'[m].status = lead[m].status
    BY <1>1 DEF ClaimAges, RetryFallsDue, Typed, TypeOK, RowType
  <2>2. UNCHANGED <<inFlight, outlived, tick, call, writing, op>>
    BY <1>1 DEF ClaimAges, RetryFallsDue
  <2> QED BY <2>1, <2>2, RowsRestDrains DEF ClosedStay
<1>2. CASE ClaimOutlives(l)
  <2>1. /\ outlived' = outlived \cup {l}
        /\ UNCHANGED <<lead, inFlight, tick, call, writing, op>>
    BY <1>2 DEF ClaimOutlives
  <2>2. Untouched(l)
    BY <1>2 DEF ClaimOutlives, Orderly, Calm, CallsOf, BeingWritten, Untouched, Active
  <2>3. ClosedStay
    BY <2>1 DEF ClosedStay
  <2>4. ASSUME NEW m \in Leads, m # l PROVE DrainInv(m)'
    <3>1. Still(m)
      BY <2>1, <2>4 DEF Still, Active
    <3> QED BY <3>1, StillDrains DEF Drain
  <2>5. DrainInv(l)'
    <3>1. DrainInv(l) /\ Untouched(l)'
      BY <2>1, <2>2 DEF Drain, Untouched, Active
    <3>2. WritesClose(l)' /\ SweepsItsOwn(l)' /\ AwaitedGivesBack(l)'
      BY <2>1, <3>1 DEF DrainInv, WritesClose, SweepsItsOwn, AwaitedGivesBack,
         Closes, NewStatus, Budget
    <3> QED BY <3>1, <3>2 DEF DrainInv, UnheldIsUntouched
  <2> QED BY <2>1, <2>3, <2>4, <2>5, DrainGoesOn DEF Drain
<1> QED BY <1>1, <1>2

(***************************************************************************)
(* The theorem                                                             *)
(***************************************************************************)
LEMMA StepDrains ==
  ASSUME Orderly, Typed, ClaimInv, Drain, [Next]_vars PROVE Drain' /\ ClosedStay
<1>1. CASE DialerStep
  <2>1. ASSUME NEW l \in Leads, SweepLead(l) PROVE Drain' /\ ClosedStay
    BY <2>1, SweepDrains
  <2>2. ASSUME NEW l \in Leads, DialLead(l) PROVE Drain' /\ ClosedStay
    BY <2>2, DialDrains
  <2> QED
    BY <1>1, <2>1, <2>2, ReadsDrain, SweepIsChosen, PruneDrains, ClaimDrains, PlaceDrains,
       UndoDrains, OriginateDrains, LetGoDrains
    DEF DialerStep
<1>2. ASSUME NEW w \in writing, WriteStep(w) PROVE Drain' /\ ClosedStay
  <2>1. ~FailWrite(w)
    BY DEF FailWrite, Orderly
  <2> QED
    BY <1>2, <2>1, WriteMovesDrains, CommitDrains, AskedDrains DEF WriteStep, RecordDialOutcome
<1>3. ASSUME NEW k \in Calls, CallStep(k) PROVE Drain' /\ ClosedStay
  BY <1>3, CallDrains
<1>4. ASSUME NEW l \in Leads, ClaimAges(l) \/ ClaimOutlives(l) \/ RetryFallsDue(l)
      PROVE  Drain' /\ ClosedStay
  BY <1>4, ClockDrains
<1>5. CASE UNCHANGED vars
  BY <1>5, RowsRestDrains DEF vars, ClosedStay
<1> QED BY <1>1, <1>2, <1>3, <1>4, <1>5, SupervisorDrains, RebootDrains DEF Next

\* The one who finishes a campaign has counted: its own lead closes with this
\* commit, the others were closed and are so still.
LEMMA FinishIsCounted ==
  ASSUME Typed, Drain, ClosedStay, [Next]_vars
  PROVE  \A c \in Campaigns :
           campaign[c] # "finished" /\ campaign'[c] = "finished"
             => \A l \in LeadsOf(c) : lead'[l].status \notin OpenLeadStatus
<1> SUFFICES ASSUME NEW c \in Campaigns, campaign[c] # "finished", campaign'[c] = "finished"
             PROVE  \A l \in LeadsOf(c) : lead'[l].status \notin OpenLeadStatus
  OBVIOUS
<1>1. campaign \in [Campaigns -> CampaignStatus] /\ lead \in [Leads -> RowType]
  BY DEF Typed, TypeOK
<1>2. ~HaltCampaign
  BY <1>1 DEF HaltCampaign
<1>3. \A d \in Campaigns, action \in {"start", "pause", "cancel"} : ~ApplyTransition(d, action)
  BY <1>1 DEF ApplyTransition, Allowed
<1>4. PICK w \in writing : Commit(w)
  BY <1>2, <1>3, StatusIsWrittenBy
<1>5. w.lead \in Leads /\ CampaignOf[w.lead] = c /\ w.last /\ w.pc = "commit"
  BY <1>1, <1>4 DEF Commit, FinishIfEmpty, Typed, TypeOK, WriteType
<1>6. Closes(w) /\ OthersClosed(w)
  BY <1>5 DEF Drain, LastIsLast
<1>7. lead'[w.lead].status = NewStatus(w)
  BY <1>1, <1>4, <1>5 DEF Commit, NewRow, Row
<1> SUFFICES ASSUME NEW l \in LeadsOf(c) PROVE lead'[l].status \notin OpenLeadStatus
  OBVIOUS
<1>8. CASE l = w.lead
  BY <1>6, <1>7, <1>8 DEF Closes
<1>9. CASE l # w.lead
  BY <1>5, <1>6, <1>9 DEF OthersClosed, LeadsOf, Open, ClosedStay
<1> QED BY <1>8, <1>9

\* No campaign is finished under a lead that is still to be called: whatever
\* commits between the count and the update of finishIfQueueEmpty, and whatever
\* the sweep, a crash and the list do meanwhile, the queue is empty then.
THEOREM FinishedIsDrained == Orderly => (Spec => FinishedWhenDrained)
<1>1. Orderly => Calm
  BY DEF Orderly
<1>2. Init => Drain
  BY DrainStarts
<1>3. Orderly /\ Typed /\ ClaimInv /\ Drain /\ [Next]_vars => Drain'
  BY StepDrains
<1>4. Orderly /\ Typed /\ ClaimInv /\ Drain /\ [Next]_vars =>
        [\A c \in Campaigns :
           campaign[c] # "finished" /\ campaign'[c] = "finished"
             => \A l \in LeadsOf(c) : lead'[l].status \notin OpenLeadStatus]_vars
  BY StepDrains, FinishIsCounted
<1>5. SUFFICES ASSUME Orderly PROVE Spec => FinishedWhenDrained
  OBVIOUS
<1>6. Spec => []ClaimInv
  BY <1>1, <1>5, ClaimsHold
<1> QED BY <1>2, <1>3, <1>4, <1>5, <1>6, TypeCorrect, PTL DEF Spec, FinishedWhenDrained
=============================================================================
