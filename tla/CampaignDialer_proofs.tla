---------------------- MODULE CampaignDialer_proofs ----------------------
(***************************************************************************)
(* Theorems about CampaignDialer, for every set of campaigns, leads,       *)
(* phones and calls, every budget and every combination of faults.         *)
(***************************************************************************)
EXTENDS CampaignDialer, FiniteSetTheorems, TLAPS

(***************************************************************************)
(* Types.  TypeOK is not inductive: that the tick, a call or a PATCH has   *)
(* the lead it is working on depends on where it is.                       *)
(***************************************************************************)
CallsHaveLeads == \A k \in Calls : call[k].phase # "free" => call[k].lead \in Leads

References ==
  /\ CallsHaveLeads
  /\ tick.pc \in {"place", "refuse", "undo", "originate", "response", "await", "refused"}
       => tick.lead \in Leads
  /\ tick.pc \in {"originate", "response", "await", "refused"} => tick.call \in Calls
  /\ tick.pc \in {"plan", "halt", "claim"} => tick.cur \in Campaigns
  /\ op.act # "none" => op.lead \in Leads

Typed == TypeOK /\ References

LEMMA IdleTickTyped == IdleTick \in TickType
  <1>1. IdleTick.camps \in SUBSET Campaigns /\ IdleTick.todo \in SUBSET Leads
    BY DEF IdleTick
  <1> QED
    BY <1>1 DEF IdleTick, TickType

\* The tick after a campaign is idle or goes on with the next one.
LEMMA CampaignDoneTyped ==
  ASSUME tick \in TickType
  PROVE  CampaignDone(tick) \in TickType /\ CampaignDone(tick).pc \in {"idle", "count"}
  <1>1. IdleTick.pc = "idle"
    BY DEF IdleTick
  <1> QED
    BY <1>1, IdleTickTyped DEF CampaignDone, TickType

LEMMA InitTyped == Init => Typed
  <1> SUFFICES ASSUME Init PROVE Typed
    OBVIOUS
  <1> USE DEF Init, Idle
  <1>1. campaign \in [Campaigns -> CampaignStatus]
    BY DEF CampaignStatus
  <1>2. lead \in [Leads -> RowType]
    <2>1. Row("pending", 0, TRUE) \in RowType /\ Row("absent", 0, TRUE) \in RowType
      BY DEF Row, RowType, LeadStatus
    <2> QED
      BY <2>1
  <1>3. tick \in TickType
    BY IdleTickTyped
  <1>4. call \in [Calls -> CallType]
    BY DEF FreeCall, CallType
  <1>5. op \in OpType
    BY DEF NoOp, OpType
  <1>6. TypeOK
    BY <1>1, <1>2, <1>3, <1>4, <1>5 DEF TypeOK
  <1>7. References
    BY DEF References, CallsHaveLeads, IdleTick, FreeCall, NoOp
  <1> QED
    BY <1>6, <1>7 DEF Typed

\* An outcome of the telephony layer is always an outcome of a campaign.
LEMMA OutcomesMap ==
  \A o \in OutboundOutcome : ToCampaignOutcome(o) \in CampaignOutcome
  BY DEF OutboundOutcome, ToCampaignOutcome, CampaignOutcome

\* The record of a run of recordDialOutcome has its type.
LEMMA NewWriteTyped ==
  ASSUME TypeOK, NEW by \in Writers, NEW l \in Leads, NEW o \in CampaignOutcome,
         NEW counts \in BOOLEAN, NEW closes \in BOOLEAN
  PROVE  NewWrite(by, l, o, counts, closes) \in WriteType
  BY DEF TypeOK, Writers, NewWrite, WriteType, RowType

\* What retryPlan returns is a status of a lead.
LEMMA RetryStatusTyped ==
  \A o \in CampaignOutcome, a \in Nat, m \in Nat : RetryStatus(o, a, m) \in LeadStatus
  BY DEF RetryStatus, LeadStatus

LEMMA NewRowTyped ==
  ASSUME NEW w \in WriteType
  PROVE  NewRow(w) \in RowType
  <1>1. Budget(w.lead) \in Nat
    BY ConstantsAssumption DEF Budget, WriteType
  <1>2. NewStatus(w) \in LeadStatus
    BY <1>1, RetryStatusTyped DEF NewStatus, WriteType
  <1> QED
    BY <1>2 DEF NewRow, Row, RowType, WriteType

(***************************************************************************)
(* The dialer's steps.                                                     *)
(***************************************************************************)
LEMMA DialerReadsTyped ==
  ASSUME Typed,
         StartTick \/ PruneInFlight \/ SelectRunning \/ HaltCampaign \/ DialsDone \/ TickFails
  PROVE  Typed'
  <1> USE DEF Typed, TypeOK, References, CallsHaveLeads, db, proc, ghosts
  <1>1. CASE StartTick
    <2>1. AbandonedClaims \in SUBSET Leads
      BY DEF AbandonedClaims, StaleClaims
    <2>2. tick' \in TickType /\ tick'.pc \in {"select", "sweep"}
      BY <1>1, <2>1, IdleTickTyped DEF StartTick, TickType
    <2> QED
      BY <1>1, <2>2 DEF StartTick
  <1>2. CASE PruneInFlight
    BY <1>2 DEF PruneInFlight, TickType
  <1>3. CASE SelectRunning
    BY <1>3, IdleTickTyped DEF SelectRunning, IdleTick, TickType
  <1>4. CASE HaltCampaign
    BY <1>4, IdleTickTyped DEF HaltCampaign, CampaignDone, IdleTick, TickType, CampaignStatus
  <1>5. CASE DialsDone
    BY <1>5, IdleTickTyped DEF DialsDone, CampaignDone, IdleTick, TickType
  <1>6. CASE TickFails
    BY <1>6, IdleTickTyped DEF TickFails, IdleTick
  <1> QED
    BY <1>1, <1>2, <1>3, <1>4, <1>5, <1>6

LEMMA CountTyped ==
  ASSUME Typed, NEW c \in Campaigns, CountTenantCalling(c)
  PROVE  Typed'
  <1>1. TenantCalling \in Nat
    <2>1. {l \in Leads : /\ lead[l].status = "calling" /\ ~lead[l].stale
                         /\ campaign[CampaignOf[l]] = "running"} \subseteq Leads
      OBVIOUS
    <2> QED
      BY <2>1, ConstantsAssumption, FS_Subset, FS_CardinalityType DEF TenantCalling
  <1>2. tick' \in TickType /\ tick'.pc = "plan" /\ tick'.cur = c
    <2>1. tick \in TickType
      BY DEF Typed, TypeOK
    <2> DEFINE out == IF tick.out = -1 THEN TenantCalling ELSE tick.out
    <2>2. out \in Int
      BY <1>1, <2>1 DEF TickType
    <2>3. tick' = [tick EXCEPT !.pc = "plan", !.cur = c, !.out = out]
      BY DEF CountTenantCalling
    <2> HIDE DEF out
    <2> QED
      BY <2>1, <2>2, <2>3 DEF TickType
  <1> QED
    BY <1>2 DEF CountTenantCalling, Typed, TypeOK, References, CallsHaveLeads, db, proc, ghosts

\* Sets of leads and of calls are finite, so they can be counted.
LEMMA SizesTyped ==
  /\ \A S \in SUBSET Leads : Cardinality(S) \in Nat
  /\ \A S \in SUBSET Calls : Cardinality(S) \in Nat
  BY ConstantsAssumption, FS_Subset, FS_CardinalityType

\* A positive plan is a number of calls.
LEMMA PlanTyped ==
  ASSUME TypeOK, NEW c \in Campaigns, NEW openNow \in BOOLEAN
  PROVE  PlanCampaignTick(Counts(c, openNow)).dial \in Int
  <1> DEFINE in == Counts(c, openNow)
  <1>1. /\ Cardinality({l \in LeadsOf(c) : Open(l)}) \in Nat
        /\ Cardinality({l \in LeadsOf(c) \cap Reachable : lead[l].status = "pending"}) \in Nat
        /\ Cardinality({l \in {m \in LeadsOf(c) \cap Reachable : lead[m].status = "pending"} :
                         lead[l].due}) \in Nat
        /\ Cardinality(CallingOf(c)) \in Nat
        /\ Cardinality(InFlightCalls) \in Nat
        /\ Cardinality(InFlightCallsOf(c)) \in Nat
    BY SizesTyped DEF LeadsOf, CallingOf, InFlightCalls, InFlightCallsOf
  <1>2. tick.out \in Int /\ Concurrency[c] \in Nat /\ PlatformConcurrency \in Nat
    BY ConstantsAssumption DEF TypeOK, TickType
  <1>3. OutFor(c) \in Int /\ Greater(tick.out, Cardinality(InFlightCalls)) \in Int
    BY <1>1, <1>2 DEF OutFor, Greater
  <1>4. in.dueReachable \in Int /\ CampaignSlots(in) \in Int /\ PlatformSlots(in) \in Int
    BY <1>1, <1>2, <1>3 DEF Counts, CampaignSlots, PlatformSlots
  <1> HIDE DEF in
  <1>5. \/ PlanCampaignTick(in).dial = 0
        \/ PlanCampaignTick(in).dial =
             Lesser(in.dueReachable, Lesser(CampaignSlots(in), PlatformSlots(in)))
    BY DEF PlanCampaignTick
  <1> QED
    BY <1>4, <1>5 DEF Lesser, in

LEMMA PlanStepTyped ==
  ASSUME Typed, NEW openNow \in BOOLEAN, PlanCampaign(openNow)
  PROVE  Typed'
  <1> DEFINE plan == PlanCampaignTick(Counts(tick.cur, openNow))
  <1>1. tick.cur \in Campaigns /\ tick.pc = "plan" /\ tick \in TickType
    BY DEF PlanCampaign, Typed, TypeOK, References, CallsHaveLeads
  <1>2. plan.dial \in Int
    BY <1>1, PlanTyped DEF Typed
  <1>3. \/ tick' = [tick EXCEPT !.pc = "halt"]
        \/ plan.dial > 0 /\ tick' = [tick EXCEPT !.pc = "claim", !.quota = plan.dial]
        \/ tick' = CampaignDone(tick)
    BY DEF PlanCampaign
  <1> HIDE DEF plan
  <1>4. /\ tick' \in TickType
        /\ tick'.pc \in {"halt", "claim", "count", "idle"}
        /\ tick'.pc \in {"halt", "claim"} => tick'.cur \in Campaigns
    <2>1. CASE tick' = [tick EXCEPT !.pc = "halt"]
      BY <1>1, <2>1 DEF TickType
    <2>2. CASE plan.dial > 0 /\ tick' = [tick EXCEPT !.pc = "claim", !.quota = plan.dial]
      <3>1. plan.dial \in Nat
        BY <1>2, <2>2
      <3> QED
        BY <1>1, <2>2, <3>1 DEF TickType
    <2>3. CASE tick' = CampaignDone(tick)
      BY <1>1, <2>3, CampaignDoneTyped
    <2> QED
      BY <1>3, <2>1, <2>2, <2>3
  <1> QED
    BY <1>4 DEF PlanCampaign, Typed, TypeOK, References, CallsHaveLeads, db, proc, ghosts

LEMMA ClaimTyped ==
  ASSUME Typed, ClaimLeads
  PROVE  Typed'
  <1> PICK claimed \in SUBSET Due(tick.cur) :
        /\ lead' = [l \in Leads |-> IF l \in claimed
                                    THEN Row("calling", lead[l].attempts, TRUE) ELSE lead[l]]
        /\ tick' = [tick EXCEPT !.pc = "dial", !.todo = claimed, !.quota = 0]
    BY DEF ClaimLeads
  <1>1. claimed \subseteq Leads
    BY DEF Due, LeadsOf
  <1>2. tick' \in TickType /\ tick'.pc = "dial"
    BY <1>1 DEF Typed, TypeOK, TickType
  <1>3. \A l \in Leads : Row("calling", lead[l].attempts, TRUE) \in RowType
    BY DEF Typed, TypeOK, Row, RowType, LeadStatus
  <1>4. lead' \in [Leads -> RowType]
    BY <1>3 DEF Typed, TypeOK
  <1> QED
    BY <1>2, <1>4 DEF ClaimLeads, Typed, TypeOK, References, CallsHaveLeads, proc, ghosts

LEMMA DialTyped ==
  ASSUME Typed, NEW l \in Leads, DialLead(l)
  PROVE  Typed'
  <1>1. /\ tick' \in TickType /\ tick'.lead = l
        /\ tick'.pc \in {"place", "refuse", "undo"}
    <2>1. PICK pc \in {"place", "refuse", "undo"} :
            tick' = [tick EXCEPT !.pc = pc, !.lead = l, !.todo = @ \ {l}]
      BY DEF DialLead
    <2> QED
      BY <2>1 DEF Typed, TypeOK, TickType
  <1>2. NewWrite("dialer", l, "do_not_call", FALSE, FALSE) \in WriteType
    BY NewWriteTyped DEF Typed, Writers, CampaignOutcome
  <1>3. writing' \subseteq WriteType
    BY <1>2 DEF DialLead, BeginWrite, Typed, TypeOK
  <1>4. inFlight' \in [Leads -> {"none", "open", "settled"}] /\ outlived' \subseteq Leads
    BY DEF DialLead, Typed, TypeOK
  <1> QED
    BY <1>1, <1>3, <1>4 DEF DialLead, Typed, TypeOK, References, CallsHaveLeads, db, proc, ghosts

LEMMA PlaceTyped ==
  ASSUME Typed, PlaceCall
  PROVE  Typed'
  <1>1. tick.lead \in Leads /\ tick \in TickType
    BY DEF PlaceCall, Typed, TypeOK, References, CallsHaveLeads
  <1>2. NewWrite("dialer", tick.lead, "do_not_call", TRUE, FALSE) \in WriteType
    BY <1>1, NewWriteTyped DEF Typed, Writers, CampaignOutcome
  <1>3. writing' \subseteq WriteType
    BY <1>2 DEF PlaceCall, BeginWrite, Typed, TypeOK
  <1>4. CASE tick' = [tick EXCEPT !.pc = "undo"] /\ call' = call
    BY <1>1, <1>3, <1>4 DEF PlaceCall, Typed, TypeOK, References, CallsHaveLeads, db, proc, ghosts, TickType
  <1>5. CASE tick' = [tick EXCEPT !.pc = "refuse"] /\ call' = call
    BY <1>1, <1>3, <1>5 DEF PlaceCall, Typed, TypeOK, References, CallsHaveLeads, db, proc, ghosts, TickType
  <1>6. ASSUME NEW k \in Calls,
               call' = [call EXCEPT ![k] = [lead |-> tick.lead, phase |-> "parked", told |-> "no"]],
               tick' = [tick EXCEPT !.pc = "originate", !.call = k]
        PROVE  Typed'
    <2>1. call' \in [Calls -> CallType]
      BY <1>1, <1>6 DEF Typed, TypeOK, CallType
    <2>2. \A j \in Calls : call'[j].phase # "free" => call'[j].lead \in Leads
      BY <1>1, <1>6 DEF Typed, TypeOK, References, CallsHaveLeads
    <2> QED
      BY <1>1, <1>3, <1>6, <2>1, <2>2
      DEF PlaceCall, Typed, TypeOK, References, CallsHaveLeads, db, proc, ghosts, TickType
  <1> QED
    BY <1>4, <1>5, <1>6 DEF PlaceCall

(***************************************************************************)
(* The pieces that several actions are made of.                            *)
(***************************************************************************)
LEMMA BeginWriteTyped ==
  ASSUME TypeOK, NEW by \in Writers, NEW l \in Leads, NEW o \in CampaignOutcome,
         NEW counts \in BOOLEAN, NEW closes \in BOOLEAN,
         BeginWrite(by, l, o, counts, closes)
  PROVE  writing' \subseteq WriteType
  BY NewWriteTyped DEF BeginWrite, TypeOK

LEMMA SettleTyped ==
  ASSUME TypeOK, NEW l, Settle(l)
  PROVE  inFlight' \in [Leads -> {"none", "open", "settled"}]
  BY DEF Settle, TypeOK

LEMMA ReleaseTyped ==
  ASSUME TypeOK, NEW l, Release(l)
  PROVE  inFlight' \in [Leads -> {"none", "open", "settled"}] /\ outlived' \subseteq Leads
  BY DEF Release, TypeOK

LEMMA ReportTyped ==
  ASSUME Typed, NEW k \in Calls, call[k].phase # "free", NEW o \in OutboundOutcome,
         NEW closes \in BOOLEAN, Report(k, o, closes)
  PROVE  /\ inFlight' \in [Leads -> {"none", "open", "settled"}]
         /\ writing' \subseteq WriteType
  <1>1. call[k].lead \in Leads /\ k \in Writers /\ ToCampaignOutcome(o) \in CampaignOutcome
    BY OutcomesMap DEF Typed, References, CallsHaveLeads, Writers
  <1> QED
    BY <1>1, SettleTyped, BeginWriteTyped DEF Report, Typed

\* A call that changes its phase or what it was told keeps its type and its lead.
LEMMA CallChangeTyped ==
  ASSUME Typed, NEW k, NEW phase \in {"abandoned", "claiming", "talking", "ended", "ending", "ringing"},
         NEW told \in {"no", "mild", "opt_out"},
         \/ call' = [call EXCEPT ![k].phase = phase] /\ (k \in Calls => call[k].phase # "free")
         \/ call' = [call EXCEPT ![k].told = told]
         \/ /\ call' = [call EXCEPT ![k].phase = phase, ![k].told = told]
            /\ k \in Calls => call[k].phase # "free"
         \/ call' = [call EXCEPT ![k] = FreeCall]
         \/ call' = call
  PROVE  call' \in [Calls -> CallType] /\ CallsHaveLeads'
  BY DEF Typed, TypeOK, References, CallsHaveLeads, CallType, FreeCall

LEMMA AbandonTyped ==
  ASSUME Typed, NEW k \in Calls, NEW o \in ChannelOutcomes \cup {"failed"}, AbandonDial(k, o)
  PROVE  /\ inFlight' \in [Leads -> {"none", "open", "settled"}]
         /\ writing' \subseteq WriteType
         /\ call' \in [Calls -> CallType]
         /\ CallsHaveLeads'
  <1>1. o \in OutboundOutcome
    BY DEF ChannelOutcomes, OutboundOutcome
  <1>2. call[k].phase # "free" /\ call' = [call EXCEPT ![k].phase = "abandoned"]
    BY DEF AbandonDial
  <1>3. Report(k, o, TRUE)
    BY DEF AbandonDial
  <1> QED
    BY <1>1, <1>2, <1>3, ReportTyped, CallChangeTyped

(***************************************************************************)
(* The rest of the dialer's steps.                                         *)
(***************************************************************************)
LEMMA SweepTyped ==
  ASSUME Typed, NEW l \in Leads, SweepLead(l)
  PROVE  Typed'
  <1>1. writing' \subseteq WriteType
    BY BeginWriteTyped DEF SweepLead, Typed, Writers, CampaignOutcome
  <1>2. tick' \in TickType /\ tick'.pc = "sweep"
    BY DEF SweepLead, Typed, TypeOK, TickType
  <1> QED
    BY <1>1, <1>2
    DEF SweepLead, Typed, TypeOK, References, CallsHaveLeads, db, proc, ghosts

LEMMA RequeuedTyped ==
  ASSUME TypeOK, NEW l \in Leads
  PROVE  Requeued(l) \in RowType
  BY DEF TypeOK, Requeued, Row, RowType, LeadStatus

LEMMA UndoTyped ==
  ASSUME Typed, UndoClaim
  PROVE  Typed'
  <1>1. inFlight' \in [Leads -> {"none", "open", "settled"}] /\ outlived' \subseteq Leads
    BY ReleaseTyped DEF UndoClaim, Typed
  <1>2. lead' \in [Leads -> RowType]
    BY RequeuedTyped DEF UndoClaim, Typed, TypeOK, References
  <1>3. tick' \in TickType /\ tick'.pc = "dial"
    BY DEF UndoClaim, Typed, TypeOK, TickType
  <1> QED
    BY <1>1, <1>2, <1>3
    DEF UndoClaim, Typed, TypeOK, References, CallsHaveLeads, proc, ghosts

LEMMA OriginateTyped ==
  ASSUME Typed, Originate
  PROVE  Typed'
  <1>1. tick.call \in Calls /\ tick.lead \in Leads /\ tick \in TickType
    BY DEF Originate, Typed, TypeOK, References
  <1>2. late' \in [Phones -> Nat] /\ rings' \in [Leads -> Nat] /\ spoken' \subseteq Phones
    <2>1. \A n \in Nat : Lesser(n, 1) + 1 \in Nat
      BY DEF Lesser
    <2>2. Lesser(rings[tick.lead], Budget(tick.lead)) + 1 \in Nat
      BY <1>1, ConstantsAssumption DEF Lesser, Budget, Typed, TypeOK
    <2> QED
      BY <2>1, <2>2 DEF Originate, ghosts, Typed, TypeOK
  <1>3. tick' \in TickType /\ tick'.lead = tick.lead /\ tick'.call = tick.call
    BY <1>1 DEF Originate, TickType
  <1>4. tick'.pc \in {"response", "await", "refused"}
    BY <1>1 DEF Originate, TickType
  <1>5. /\ inFlight' \in [Leads -> {"none", "open", "settled"}]
        /\ writing' \subseteq WriteType
        /\ call' \in [Calls -> CallType]
        /\ CallsHaveLeads'
    <2>1. CASE \E o \in ChannelOutcomes : AbandonDial(tick.call, o)
      BY <1>1, <2>1, AbandonTyped
    <2>2. CASE /\ UNCHANGED <<inFlight, writing>>
               /\ call' = IF call[tick.call].phase = "parked"
                          THEN [call EXCEPT ![tick.call].phase = "ringing"] ELSE call
      BY <1>1, <2>2, CallChangeTyped DEF Typed, TypeOK
    <2>3. CASE UNCHANGED <<inFlight, call, writing>>
      BY <2>3 DEF Typed, TypeOK, References, CallsHaveLeads
    <2> QED
      BY <2>1, <2>2, <2>3 DEF Originate
  <1> QED
    BY <1>1, <1>2, <1>3, <1>4, <1>5 DEF Originate, Typed, TypeOK, References, db, proc

LEMMA ResponseTyped ==
  ASSUME Typed, OriginateResponse
  PROVE  Typed'
  <1>1. tick.call \in Calls /\ tick.lead \in Leads /\ tick \in TickType
    BY DEF OriginateResponse, Typed, TypeOK, References
  <1>2. CASE /\ tick' = [tick EXCEPT !.pc = "dial", !.out = @ + 1, !.lead = None, !.call = None]
             /\ UNCHANGED <<inFlight, call, writing>>
    <2>1. tick' \in TickType /\ tick'.pc = "dial"
      <3>1. tick.out + 1 \in Int
        BY <1>1 DEF TickType
      <3> QED
        BY <1>1, <1>2, <3>1 DEF TickType
    <2> QED
      BY <1>2, <2>1
      DEF OriginateResponse, Typed, TypeOK, References, CallsHaveLeads, db, proc, ghosts
  <1>3. CASE AbandonDial(tick.call, "failed") /\ tick' = [tick EXCEPT !.pc = "await"]
    <2>1. tick' \in TickType /\ tick'.pc = "await" /\ tick'.lead = tick.lead /\ tick'.call = tick.call
      BY <1>1, <1>3 DEF TickType
    <2> QED
      BY <1>1, <1>3, <2>1, AbandonTyped
      DEF OriginateResponse, Typed, TypeOK, References, db, proc, ghosts
  <1>4. CASE tick' = [tick EXCEPT !.pc = "refused"] /\ UNCHANGED <<inFlight, call, writing>>
    <2>1. tick' \in TickType /\ tick'.pc = "refused" /\ tick'.lead = tick.lead /\ tick'.call = tick.call
      BY <1>1, <1>4 DEF TickType
    <2> QED
      BY <1>1, <1>4, <2>1
      DEF OriginateResponse, Typed, TypeOK, References, CallsHaveLeads, db, proc, ghosts
  <1> QED
    BY <1>2, <1>3, <1>4 DEF OriginateResponse

LEMMA RefusedTyped ==
  ASSUME Typed, AwaitAbandoned \/ DialRefused
  PROVE  Typed'
  <1>1. tick.call \in Calls /\ tick.lead \in Leads /\ tick \in TickType
    BY DEF AwaitAbandoned, DialRefused, Typed, TypeOK, References
  <1>2. CASE AwaitAbandoned
    <2>1. tick' \in TickType /\ tick'.pc = "refused" /\ tick'.lead = tick.lead /\ tick'.call = tick.call
      BY <1>1, <1>2 DEF AwaitAbandoned, TickType
    <2> QED
      BY <1>1, <1>2, <2>1
      DEF AwaitAbandoned, Typed, TypeOK, References, CallsHaveLeads, db, proc, ghosts
  <1>3. CASE DialRefused
    <2>1. /\ tick' \in TickType /\ tick'.pc \in {"refuse", "dial"}
          /\ tick'.pc = "refuse" => tick'.lead = tick.lead
      BY <1>1, <1>3 DEF DialRefused, TickType
    <2>2. writing' \subseteq WriteType
      BY <1>1, <1>3, BeginWriteTyped DEF DialRefused, Typed, TypeOK, Writers, CampaignOutcome
    <2>3. inFlight' \in [Leads -> {"none", "open", "settled"}] /\ outlived' \subseteq Leads
      BY <1>3, ReleaseTyped DEF DialRefused, Typed, TypeOK
    <2> QED
      BY <1>1, <1>3, <2>1, <2>2, <2>3
      DEF DialRefused, Typed, TypeOK, References, CallsHaveLeads, db, proc, ghosts
  <1> QED
    BY <1>2, <1>3

LEMMA DialerTyped ==
  ASSUME Typed, DialerStep
  PROVE  Typed'
  BY DialerReadsTyped, CountTyped, PlanStepTyped, ClaimTyped, DialTyped, PlaceTyped, SweepTyped,
     UndoTyped, OriginateTyped, ResponseTyped, RefusedTyped
  DEF DialerStep

(***************************************************************************)
(* The runs of recordDialOutcome, the calls, the API, the process, time.   *)
(***************************************************************************)
LEMMA SkipTyped ==
  ASSUME TypeOK, NEW p, SkipQueued(p)
  PROVE  lead' \in [Leads -> RowType]
  <1>1. \A l \in Leads : Row("skipped", lead[l].attempts, TRUE) \in RowType
    BY DEF TypeOK, Row, RowType, LeadStatus
  <1> QED
    BY <1>1 DEF SkipQueued, TypeOK

LEMMA ListTyped ==
  ASSUME TypeOK, NEW p, NEW source \in {"manual", "asked_on_call"}, ListPhone(p, source)
  PROVE  dnc' \in [Phones -> {"none", "manual", "asked_on_call"}]
  BY DEF ListPhone, TypeOK

\* A record that goes on to its next statement keeps its type.
LEMMA WriteGoesOnTyped ==
  ASSUME TypeOK, NEW w \in writing, NEW pc \in {"skip", "update", "commit"}, NEW last \in BOOLEAN,
         \/ writing' = (writing \ {w}) \cup {[w EXCEPT !.pc = pc]}
         \/ writing' = (writing \ {w}) \cup {[w EXCEPT !.pc = pc, !.last = last]}
  PROVE  writing' \subseteq WriteType
  <1>1. w \in WriteType
    BY DEF TypeOK
  <1>2. [w EXCEPT !.pc = pc] \in WriteType /\ [w EXCEPT !.pc = pc, !.last = last] \in WriteType
    BY <1>1 DEF WriteType
  <1> QED
    BY <1>2 DEF TypeOK

LEMMA ReturnTyped ==
  ASSUME Typed, NEW w \in writing, Return(w)
  PROVE  /\ inFlight' \in [Leads -> {"none", "open", "settled"}]
         /\ outlived' \subseteq Leads
         /\ tick' \in TickType
         /\ call' \in [Calls -> CallType]
         /\ writing' \subseteq WriteType
         /\ op' \in OpType
         /\ References'
  <1>1. writing' \subseteq WriteType
    BY DEF Return, Typed, TypeOK
  <1>2. CASE /\ Release(w.lead)
             /\ call' = IF w.closes THEN [call EXCEPT ![w.by] = FreeCall] ELSE call
             /\ UNCHANGED <<tick, op>>
    <2>1. call' \in [Calls -> CallType] /\ CallsHaveLeads'
      BY <1>2, CallChangeTyped
    <2> QED
      BY <1>1, <1>2, <2>1, ReleaseTyped DEF Typed, TypeOK, References
  <1>3. CASE /\ Release(w.lead)
             /\ tick' = [tick EXCEPT !.pc = "dial", !.lead = None, !.call = None]
             /\ UNCHANGED <<call, op>>
    <2>1. tick' \in TickType /\ tick'.pc = "dial"
      BY <1>3 DEF Typed, TypeOK, TickType
    <2> QED
      BY <1>1, <1>3, <2>1, ReleaseTyped DEF Typed, TypeOK, References, CallsHaveLeads
  <1>4. CASE UNCHANGED <<inFlight, outlived, tick, call, op>>
    BY <1>1, <1>4 DEF Typed, TypeOK, References, CallsHaveLeads
  <1>5. CASE op' = NoOp /\ UNCHANGED <<inFlight, outlived, tick, call>>
    <2>1. op' \in OpType /\ op'.act = "none"
      BY <1>5 DEF NoOp, OpType
    <2> QED
      BY <1>1, <1>5, <2>1 DEF Typed, TypeOK, References, CallsHaveLeads
  <1> QED
    BY <1>2, <1>3, <1>4, <1>5 DEF Return

LEMMA RecordTyped ==
  ASSUME Typed, NEW w \in writing, RecordDialOutcome(w)
  PROVE  Typed'
  <1>1. CASE ListOutcome(w)
    <2>1. dnc' \in [Phones -> {"none", "manual", "asked_on_call"}]
      BY <1>1, ListTyped DEF ListOutcome, Typed
    <2>2. writing' \subseteq WriteType
      BY <1>1, WriteGoesOnTyped DEF ListOutcome, Typed
    <2> QED
      BY <1>1, <2>1, <2>2
      DEF ListOutcome, Typed, TypeOK, References, CallsHaveLeads, proc, ghosts
  <1>2. CASE SkipOutcome(w)
    <2>1. lead' \in [Leads -> RowType]
      BY <1>2, SkipTyped DEF SkipOutcome, Typed
    <2>2. writing' \subseteq WriteType
      BY <1>2, WriteGoesOnTyped DEF SkipOutcome, Typed
    <2> QED
      BY <1>2, <2>1, <2>2
      DEF SkipOutcome, Typed, TypeOK, References, CallsHaveLeads, proc, ghosts
  <1>3. CASE UpdateLead(w)
    <2>1. (w.running /\ EmptiesQueue(w)) \in BOOLEAN
      BY DEF EmptiesQueue, OthersClosed
    <2>2. writing' \subseteq WriteType
      BY <1>3, <2>1, WriteGoesOnTyped DEF UpdateLead, Typed
    <2> QED
      BY <1>3, <2>2
      DEF UpdateLead, Typed, TypeOK, References, CallsHaveLeads, db, proc, ghosts
  <1>4. CASE Commit(w)
    <2>1. lead' \in [Leads -> RowType]
      BY <1>4, NewRowTyped DEF Commit, Typed, TypeOK
    <2>2. campaign' \in [Campaigns -> CampaignStatus]
      BY <1>4 DEF Commit, FinishIfEmpty, Typed, TypeOK, CampaignStatus
    <2> QED
      BY <1>4, <2>1, <2>2, ReturnTyped DEF Commit, Typed, TypeOK, proc, ghosts
  <1>5. CASE FailWrite(w)
    <2>1. CASE Return(w)
      BY <1>5, <2>1, ReturnTyped DEF FailWrite, Typed, TypeOK, db, proc, ghosts
    <2>2. CASE /\ writing' = writing \ {w}
               /\ tick.pc = "refuse" /\ tick' = [tick EXCEPT !.pc = "undo"]
               /\ UNCHANGED <<inFlight, outlived, call, op>>
      <3>1. tick' \in TickType /\ tick'.pc = "undo" /\ tick'.lead = tick.lead
        BY <2>2 DEF Typed, TypeOK, TickType
      <3> QED
        BY <1>5, <2>2, <3>1
        DEF FailWrite, Typed, TypeOK, References, CallsHaveLeads, db, proc, ghosts
    <2> QED
      BY <1>5, <2>1, <2>2 DEF FailWrite
  <1> QED
    BY <1>1, <1>2, <1>3, <1>4, <1>5 DEF RecordDialOutcome

\* A refusal that is being listed is always told by a call.
LEMMA TellAskedTyped ==
  ASSUME Typed, NEW w \in writing, TellAsked(w)
  PROVE  Typed'
  <1>1. w.by \in Writers /\ w.lead \in Leads
    BY DEF Typed, TypeOK, WriteType, Writers
  <1>2. NewWrite(w.by, w.lead, "do_not_call", TRUE, FALSE) \in WriteType
    BY <1>1, NewWriteTyped DEF Typed, CampaignOutcome
  <1>3. writing' \subseteq WriteType
    BY <1>2 DEF TellAsked, Typed, TypeOK
  <1>4. lead' \in [Leads -> RowType]
    BY SkipTyped DEF TellAsked, Typed, TypeOK
  <1>5. call' \in [Calls -> CallType] /\ CallsHaveLeads'
    BY CallChangeTyped DEF TellAsked
  <1>6. inFlight' \in [Leads -> {"none", "open", "settled"}]
    BY SettleTyped DEF TellAsked, Typed
  <1> QED
    BY <1>3, <1>4, <1>5, <1>6 DEF TellAsked, Typed, TypeOK, References, proc, ghosts

LEMMA CallTyped ==
  ASSUME Typed, NEW k \in Calls, CallStep(k)
  PROVE  Typed'
  <1>1. ASSUME call' \in [Calls -> CallType], CallsHaveLeads',
               inFlight' \in [Leads -> {"none", "open", "settled"}], writing' \subseteq WriteType,
               dnc' \in [Phones -> {"none", "manual", "asked_on_call"}], spoken' \subseteq Phones,
               UNCHANGED <<campaign, lead, proc, outlived, tick, op, late, rings>>
        PROVE  Typed'
    BY <1>1 DEF Typed, TypeOK, References, proc
  <1>2. /\ inFlight \in [Leads -> {"none", "open", "settled"}] /\ writing \subseteq WriteType
        /\ dnc \in [Phones -> {"none", "manual", "asked_on_call"}] /\ spoken \subseteq Phones
    BY DEF Typed, TypeOK
  <1>3. CASE Answer(k) \/ Register(k) \/ LoseHangUp(k) \/ OrphanEnds(k)
    <2>1. call' \in [Calls -> CallType] /\ CallsHaveLeads'
      BY <1>3, CallChangeTyped DEF Answer, Register, LoseHangUp, OrphanEnds
    <2> QED
      BY <1>1, <1>2, <1>3, <2>1
      DEF Answer, Register, LoseHangUp, OrphanEnds, db, proc, ghosts
  <1>4. CASE Unanswered(k)
    <2>1. PICK o \in ChannelOutcomes : AbandonDial(k, o)
      BY <1>4 DEF Unanswered
    <2> QED
      BY <1>1, <1>2, <1>4, <2>1, AbandonTyped DEF Unanswered, db, proc, ghosts
  <1>5. CASE TellOutcome(k)
    <2>1. PICK o \in {"agreed", "voicemail"} : Report(k, o, FALSE)
      BY <1>5 DEF TellOutcome
    <2>2. call[k].phase # "free" /\ o \in OutboundOutcome
      BY <1>5 DEF TellOutcome, OutboundOutcome
    <2>3. call' \in [Calls -> CallType] /\ CallsHaveLeads'
      BY <1>5, CallChangeTyped DEF TellOutcome
    <2> QED
      BY <1>1, <1>2, <1>5, <2>1, <2>2, <2>3, ReportTyped DEF TellOutcome, db, proc, ghosts
  <1>6. CASE TellOptOut(k)
    <2>1. call[k].phase # "free" /\ call[k].lead \in Leads /\ PhoneOf[call[k].lead] \in Phones
      BY <1>6, ConstantsAssumption DEF TellOptOut, Typed, References, CallsHaveLeads
    <2>2. spoken' \subseteq Phones
      BY <1>2, <1>6, <2>1 DEF TellOptOut
    <2>3. CASE ListPhone(PhoneOf[call[k].lead], "asked_on_call")
               /\ writing' = writing \cup {Asked(k)} /\ UNCHANGED <<inFlight, call>>
      <3>1. NewWrite(k, call[k].lead, "do_not_call", TRUE, FALSE) \in WriteType
        BY <2>1, NewWriteTyped DEF Typed, Writers, CampaignOutcome
      <3>2. Asked(k) \in WriteType
        BY <3>1 DEF Asked, WriteType
      <3> QED
        BY <1>1, <1>2, <1>6, <2>2, <2>3, <3>2, ListTyped
        DEF TellOptOut, Typed, TypeOK, References, CallsHaveLeads, proc
    <2>4. CASE /\ call' = [call EXCEPT ![k].told = "opt_out"]
               /\ Report(k, "opt_out", FALSE) /\ UNCHANGED dnc
      <3>1. call' \in [Calls -> CallType] /\ CallsHaveLeads'
        BY <2>4, CallChangeTyped
      <3> QED
        BY <1>1, <1>2, <1>6, <2>1, <2>2, <2>4, <3>1, ReportTyped
        DEF TellOptOut, OutboundOutcome, proc
    <2> QED
      BY <1>6, <2>3, <2>4 DEF TellOptOut
  <1>7. CASE HangUp(k)
    <2>1. call[k].phase # "free"
      BY <1>7 DEF HangUp
    <2>2. call' \in [Calls -> CallType] /\ CallsHaveLeads'
      BY <1>7, <2>1, CallChangeTyped DEF HangUp
    <2>3. inFlight' \in [Leads -> {"none", "open", "settled"}] /\ writing' \subseteq WriteType
      BY <1>2, <1>7, <2>1, ReportTyped DEF HangUp, OutboundOutcome
    <2> QED
      BY <1>1, <1>2, <1>7, <2>2, <2>3 DEF HangUp, db, proc, ghosts
  <1> QED
    BY <1>3, <1>4, <1>5, <1>6, <1>7 DEF CallStep, CallEnds

LEMMA SupervisorTyped ==
  ASSUME Typed, SupervisorStep
  PROVE  Typed'
  <1>1. ASSUME NEW c \in Campaigns, NEW action \in {"start", "pause", "cancel"},
               ApplyTransition(c, action)
        PROVE  Typed'
    <2>1. Allowed[action].to \in CampaignStatus
      BY DEF Allowed, CampaignStatus
    <2> QED
      BY <1>1, <2>1
      DEF ApplyTransition, Typed, TypeOK, References, CallsHaveLeads, proc, ghosts
  <1>2. ASSUME NEW l \in Leads, NEW act \in {"skip", "requeue", "outcome", "import"}, OpenPatch(l, act)
        PROVE  Typed'
    <2>1. op' \in OpType /\ op'.lead = l
      BY <1>2 DEF OpenPatch, OpType
    <2> QED
      BY <1>2, <2>1
      DEF OpenPatch, Typed, TypeOK, References, CallsHaveLeads, db, proc, ghosts
  <1>3. CASE ApplyPatch
    <2>1. op.lead \in Leads
      BY <1>3 DEF ApplyPatch, Typed, References
    <2>2. /\ Row("skipped", lead[op.lead].attempts, TRUE) \in RowType
          /\ Row("pending", lead[op.lead].attempts, TRUE) \in RowType
      BY <2>1 DEF Typed, TypeOK, Row, RowType, LeadStatus
    <2>3. lead' \in [Leads -> RowType]
      BY <1>3, <2>2 DEF ApplyPatch, Typed, TypeOK
    <2>4. op' \in OpType /\ op'.act = "none"
      BY <1>3 DEF ApplyPatch, NoOp, OpType
    <2> QED
      BY <1>3, <2>3, <2>4 DEF ApplyPatch, Typed, TypeOK, References, CallsHaveLeads, proc, ghosts
  <1>4. CASE RecordByHand
    <2>1. op.lead \in Leads /\ op \in OpType
      BY <1>4 DEF RecordByHand, Typed, TypeOK, References
    <2>2. op' \in OpType /\ op'.lead = op.lead
      BY <1>4, <2>1 DEF RecordByHand, OpType
    <2>3. PICK o \in ManualOutcomes : BeginWrite("operator", op.lead, o, FALSE, FALSE)
      BY <1>4 DEF RecordByHand
    <2>4. writing' \subseteq WriteType
      BY <2>1, <2>3, BeginWriteTyped DEF Typed, Writers, ManualOutcomes, CampaignOutcome
    <2> QED
      BY <1>4, <2>1, <2>2, <2>4
      DEF RecordByHand, Typed, TypeOK, References, CallsHaveLeads, db, proc, ghosts
  <1>5. ASSUME NEW p \in Phones, ListByHand(p)
        PROVE  Typed'
    <2>1. dnc' \in [Phones -> {"none", "manual", "asked_on_call"}]
      BY <1>5, ListTyped DEF ListByHand, Typed
    <2> QED
      BY <1>5, <2>1 DEF ListByHand, Typed, TypeOK, References, CallsHaveLeads, ghosts
  <1>6. ASSUME NEW p \in Phones, SkipListed(p)
        PROVE  Typed'
    <2>1. lead' \in [Leads -> RowType]
      BY <1>6, SkipTyped DEF SkipListed, Typed, TypeOK
    <2> QED
      BY <1>6, <2>1 DEF SkipListed, Typed, TypeOK, References, CallsHaveLeads, ghosts
  <1>7. ASSUME NEW p \in Phones, RemoveFromList(p)
        PROVE  Typed'
    BY <1>7 DEF RemoveFromList, Typed, TypeOK, References, CallsHaveLeads, proc
  <1> QED
    BY <1>1, <1>2, <1>3, <1>4, <1>5, <1>6, <1>7 DEF SupervisorStep

LEMMA RebootTyped ==
  ASSUME Typed, Reboot
  PROVE  Typed'
  <1>1. tick' \in TickType /\ tick'.pc = "idle"
    BY IdleTickTyped DEF Reboot, IdleTick
  <1>2. op' \in OpType /\ op'.act = "none"
    BY DEF Reboot, NoOp, OpType
  <1>3. call' \in [Calls -> CallType] /\ CallsHaveLeads'
    <2> PICK bridged \in SUBSET {k \in Calls : call[k].phase \in {"talking", "orphan"}} :
          call' = [k \in Calls |-> IF k \in bridged THEN [call[k] EXCEPT !.phase = "orphan"]
                                                   ELSE FreeCall]
      BY DEF Reboot
    <2> QED
      BY DEF Typed, TypeOK, References, CallsHaveLeads, CallType, FreeCall
  <1> QED
    BY <1>1, <1>2, <1>3 DEF Reboot, Typed, TypeOK, References, db, ghosts

LEMMA ProcessTyped ==
  ASSUME Typed, ProcessStep
  PROVE  Typed'
  <1>1. CASE ReleaseInFlightClaims
    <2>1. lead' \in [Leads -> RowType]
      BY <1>1, RequeuedTyped DEF ReleaseInFlightClaims, Typed, TypeOK
    <2> QED
      BY <1>1, <2>1 DEF ReleaseInFlightClaims, Typed, TypeOK, References, CallsHaveLeads, ghosts
  <1>2. CASE StopVoicePlatform
    BY <1>2 DEF StopVoicePlatform, Typed, TypeOK, References, CallsHaveLeads, db, ghosts
  <1>3. CASE Exit \/ Crash
    BY <1>3, RebootTyped DEF Exit, Crash
  <1> QED
    BY <1>1, <1>2, <1>3 DEF ProcessStep

LEMMA TimeTyped ==
  ASSUME Typed, NEW l \in Leads, ClaimAges(l) \/ ClaimOutlives(l) \/ RetryFallsDue(l)
  PROVE  Typed'
  <1>1. CASE ClaimAges(l)
    <2>1. lead' \in [Leads -> RowType]
      BY <1>1 DEF ClaimAges, Typed, TypeOK, RowType
    <2> QED
      BY <1>1, <2>1 DEF ClaimAges, Typed, TypeOK, References, CallsHaveLeads, proc, ghosts
  <1>2. CASE RetryFallsDue(l)
    <2>1. lead' \in [Leads -> RowType]
      BY <1>2 DEF RetryFallsDue, Typed, TypeOK, RowType
    <2> QED
      BY <1>2, <2>1 DEF RetryFallsDue, Typed, TypeOK, References, CallsHaveLeads, proc, ghosts
  <1>3. CASE ClaimOutlives(l)
    BY <1>3 DEF ClaimOutlives, Typed, TypeOK, References, CallsHaveLeads, db, proc, ghosts
  <1> QED
    BY <1>1, <1>2, <1>3

LEMMA StepTyped == Typed /\ [Next]_vars => Typed'
  <1> SUFFICES ASSUME Typed, [Next]_vars PROVE Typed'
    OBVIOUS
  <1>1. CASE UNCHANGED vars
    BY <1>1 DEF vars, Typed, TypeOK, References, CallsHaveLeads
  <1>2. CASE Next
    BY <1>2, DialerTyped, RecordTyped, TellAskedTyped, CallTyped, SupervisorTyped, ProcessTyped,
       TimeTyped
    DEF Next, WriteStep
  <1> QED
    BY <1>1, <1>2

\* In every state that the program reaches, each variable has its type, and
\* whatever is under way has the lead, the call or the campaign it is about.
THEOREM TypeCorrect == Spec => []Typed
  BY InitTyped, StepTyped, PTL DEF Spec

COROLLARY TypesHold == Spec => []TypeOK
  <1>1. Typed => TypeOK
    BY DEF Typed
  <1> QED
    BY <1>1, TypeCorrect, PTL

(***************************************************************************)
(* A listed phone rings at most once more.  The invariant that carries it: *)
(* the one dial that may be under way passed the second gate when the      *)
(* phone was not listed, so it has not rung since it was.                  *)
(***************************************************************************)
Placing(p) == tick.pc = "originate" /\ PhoneOf[tick.lead] = p

LateRings ==
  \A p \in Phones :
    /\ late[p] <= 1
    /\ Placing(p) => late[p] = 0
    /\ ~IsListed(p) => late[p] = 0

\* No phone rings, none is taken off the list, and no dial passes the gate.
Quiet ==
  /\ late' = late
  /\ \A p \in Phones : dnc[p] # "none" => dnc'[p] # "none"
  /\ tick' = tick \/ tick'.pc # "originate"

LEMMA QuietKeepsLateRings == LateRings /\ Quiet => LateRings'
  BY DEF LateRings, Quiet, Placing, IsListed

LEMMA DialerLateRings ==
  ASSUME Typed, LateRings, DialerStep
  PROVE  LateRings'
  <1>1. tick \in TickType /\ late \in [Phones -> Nat]
    BY DEF Typed, TypeOK
  <1>2. CASE Originate
    <2>1. tick'.pc \in {"response", "await", "refused"}
      BY <1>1, <1>2 DEF Originate, TickType
    <2>2. dnc' = dnc
      BY <1>2 DEF Originate, db
    <2>3. CASE late' = late
      BY <2>1, <2>2, <2>3, QuietKeepsLateRings DEF Quiet
    <2>4. CASE late' = IF IsListed(PhoneOf[tick.lead])
                       THEN [late EXCEPT ![PhoneOf[tick.lead]] = Lesser(@, 1) + 1] ELSE late
      <3>1. PhoneOf[tick.lead] \in Phones => late[PhoneOf[tick.lead]] = 0
        BY <1>2 DEF Originate, LateRings, Placing
      <3>2. Lesser(0, 1) + 1 = 1
        BY DEF Lesser
      <3>3. \A p \in Phones : late'[p] <= 1 /\ (~IsListed(p) => late'[p] = 0)
        BY <1>1, <2>4, <3>1, <3>2 DEF LateRings
      <3> QED
        BY <2>1, <2>2, <3>3 DEF LateRings, Placing, IsListed
    <2> QED
      BY <1>2, <2>3, <2>4 DEF Originate, ghosts
  <1>3. CASE PlaceCall
    <2>1. late' = late /\ dnc' = dnc
      BY <1>3 DEF PlaceCall, db, ghosts
    <2>2. tick'.lead = tick.lead /\ (tick'.pc = "originate" => ~IsDoNotCall(PhoneOf[tick.lead]))
      BY <1>1, <1>3 DEF PlaceCall, TickType
    <2> QED
      BY <2>1, <2>2 DEF LateRings, Placing, IsListed, IsDoNotCall
  <1>4. CASE \E openNow \in BOOLEAN : PlanCampaign(openNow)
    <2>1. late' = late /\ dnc' = dnc
      BY <1>4 DEF PlanCampaign, db, ghosts
    <2>2. tick'.pc # "originate"
      <3>1. \/ tick' = [tick EXCEPT !.pc = "halt"]
            \/ \E n : tick' = [tick EXCEPT !.pc = "claim", !.quota = n]
            \/ tick' = CampaignDone(tick)
        BY <1>4 DEF PlanCampaign
      <3> QED
        BY <1>1, <3>1, CampaignDoneTyped DEF TickType
    <2> QED
      BY <2>1, <2>2, QuietKeepsLateRings DEF Quiet
  <1>5. CASE \/ StartTick \/ (\E l \in Leads : SweepLead(l)) \/ PruneInFlight
             \/ SelectRunning \/ (\E c \in Campaigns : CountTenantCalling(c))
             \/ HaltCampaign \/ ClaimLeads \/ (\E l \in Leads : DialLead(l)) \/ UndoClaim
             \/ OriginateResponse \/ AwaitAbandoned \/ DialRefused \/ DialsDone \/ TickFails
    <2>1. late' = late /\ dnc' = dnc
      BY <1>5 DEF StartTick, SweepLead, PruneInFlight, SelectRunning, CountTenantCalling,
         HaltCampaign, ClaimLeads, DialLead, UndoClaim, OriginateResponse, AwaitAbandoned,
         DialRefused, DialsDone, TickFails, db, ghosts
    <2>2. IdleTick.pc = "idle" /\ IdleTick \in TickType
      BY IdleTickTyped DEF IdleTick
    <2>3. tick'.pc # "originate"
      BY <1>1, <1>5, <2>2, CampaignDoneTyped
      DEF StartTick, SweepLead, PruneInFlight, SelectRunning, CountTenantCalling,
         HaltCampaign, ClaimLeads, DialLead, UndoClaim, OriginateResponse, AwaitAbandoned,
         DialRefused, DialsDone, TickFails, TickType
    <2> QED
      BY <2>1, <2>3, QuietKeepsLateRings DEF Quiet
  <1> QED
    BY <1>2, <1>3, <1>4, <1>5 DEF DialerStep

LEMMA ListQuiet ==
  ASSUME TypeOK, NEW p, NEW source \in {"manual", "asked_on_call"}, ListPhone(p, source)
  PROVE  \A q \in Phones : dnc[q] # "none" => dnc'[q] # "none"
  BY DEF ListPhone, TypeOK

LEMMA OthersLateRings ==
  ASSUME Typed, LateRings,
         \/ \E w \in writing : WriteStep(w)
         \/ \E k \in Calls : CallStep(k)
         \/ SupervisorStep
         \/ ProcessStep
         \/ \E l \in Leads : ClaimAges(l) \/ ClaimOutlives(l) \/ RetryFallsDue(l)
  PROVE  LateRings'
  <1>1. tick \in TickType /\ TypeOK
    BY DEF Typed, TypeOK
  <1>2. ASSUME NEW w \in writing, WriteStep(w)
        PROVE  Quiet
    <2>1. late' = late
      BY <1>2 DEF WriteStep, RecordDialOutcome, ListOutcome, SkipOutcome, UpdateLead, Commit,
         FailWrite, TellAsked, ghosts
    <2>2. \A p \in Phones : dnc[p] # "none" => dnc'[p] # "none"
      BY <1>1, <1>2, ListQuiet DEF WriteStep, RecordDialOutcome, ListOutcome, SkipOutcome, UpdateLead,
         Commit, FailWrite, TellAsked, db
    <2>3. tick' = tick \/ tick'.pc # "originate"
      <3>1. Return(w) => tick' = tick \/ tick'.pc # "originate"
        BY <1>1 DEF Return, TickType
      <3> QED
        BY <1>1, <1>2, <3>1 DEF WriteStep, RecordDialOutcome, ListOutcome, SkipOutcome, UpdateLead,
           Commit, FailWrite, TellAsked, TickType
    <2> QED
      BY <2>1, <2>2, <2>3 DEF Quiet
  <1>3. ASSUME NEW k \in Calls, CallStep(k)
        PROVE  Quiet
    <2>1. late' = late /\ tick' = tick
      BY <1>3 DEF CallStep, CallEnds, Answer, Register, Unanswered, HangUp, OrphanEnds, TellOutcome,
         TellOptOut, LoseHangUp, ghosts
    <2>2. \A p \in Phones : dnc[p] # "none" => dnc'[p] # "none"
      BY <1>1, <1>3, ListQuiet DEF CallStep, CallEnds, Answer, Register, Unanswered, HangUp,
         OrphanEnds, TellOutcome, TellOptOut, LoseHangUp, db
    <2> QED
      BY <2>1, <2>2 DEF Quiet
  <1>4. ASSUME NEW p \in Phones, RemoveFromList(p)
        PROVE  LateRings'
    <2>1. late' = [late EXCEPT ![p] = 0] /\ dnc' = [dnc EXCEPT ![p] = "none"] /\ tick' = tick
      BY <1>4 DEF RemoveFromList
    <2> QED
      BY <1>1, <2>1 DEF LateRings, Placing, IsListed, TypeOK
  <1>5. CASE SupervisorStep /\ ~\E p \in Phones : RemoveFromList(p)
    <2>1. late' = late /\ tick' = tick
      BY <1>5 DEF SupervisorStep, ApplyTransition, OpenPatch, ApplyPatch, RecordByHand, ListByHand,
         SkipListed, ghosts
    <2>2. \A p \in Phones : dnc[p] # "none" => dnc'[p] # "none"
      BY <1>1, <1>5, ListQuiet DEF SupervisorStep, ApplyTransition, OpenPatch, ApplyPatch,
         RecordByHand, ListByHand, SkipListed, db
    <2> QED
      BY <2>1, <2>2, QuietKeepsLateRings DEF Quiet
  <1>6. CASE ProcessStep
    <2>1. IdleTick.pc = "idle"
      BY DEF IdleTick
    <2> QED
      BY <1>6, <2>1, QuietKeepsLateRings
      DEF Quiet, ProcessStep, ReleaseInFlightClaims, StopVoicePlatform, Exit, Crash, Reboot, db, ghosts
  <1>7. ASSUME NEW l \in Leads, ClaimAges(l) \/ ClaimOutlives(l) \/ RetryFallsDue(l)
        PROVE  Quiet
    BY <1>7 DEF ClaimAges, ClaimOutlives, RetryFallsDue, Quiet, db, ghosts
  <1> QED
    BY <1>2, <1>3, <1>4, <1>5, <1>6, <1>7, QuietKeepsLateRings DEF SupervisorStep

LEMMA StepLateRings == Typed /\ LateRings /\ [Next]_vars => LateRings'
  <1>1. ASSUME LateRings, UNCHANGED vars
        PROVE  LateRings'
    BY <1>1 DEF vars, LateRings, Placing, IsListed
  <1> QED
    BY <1>1, DialerLateRings, OthersLateRings DEF Next

\* Whatever the supervisor, the clock, crashes and failing statements do, the
\* phone of a person on the do-not-call list rings at most once more.
THEOREM ListedPhonesStaySilent == Spec => []AtMostOneLateRing
  <1>1. Init => LateRings
    BY DEF Init, Idle, LateRings, Placing, IdleTick
  <1>2. LateRings => AtMostOneLateRing
    BY DEF LateRings, AtMostOneLateRing
  <1> QED
    BY <1>1, <1>2, StepLateRings, TypeCorrect, PTL DEF Spec

(***************************************************************************)
(* The life cycle.                                                         *)
(***************************************************************************)
TerminalKept == \A c \in Campaigns : ~IsEditable(campaign[c]) => campaign'[c] = campaign[c]

\* Who writes the status of a campaign: the halt, an outcome, the supervisor.
LEMMA StatusIsWrittenBy ==
  ASSUME [Next]_vars
  PROVE  \/ campaign' = campaign
         \/ HaltCampaign
         \/ \E w \in writing : Commit(w)
         \/ \E c \in Campaigns, action \in {"start", "pause", "cancel"} : ApplyTransition(c, action)
  <1>1. CASE DialerStep
    BY <1>1 DEF DialerStep, StartTick, SweepLead, PruneInFlight, SelectRunning, CountTenantCalling,
       PlanCampaign, ClaimLeads, DialLead, PlaceCall, UndoClaim, Originate, OriginateResponse,
       AwaitAbandoned, DialRefused, DialsDone, TickFails, db
  <1>2. ASSUME NEW w \in writing, WriteStep(w), ~Commit(w)
        PROVE  campaign' = campaign
    BY <1>2 DEF WriteStep, RecordDialOutcome, ListOutcome, SkipOutcome, UpdateLead, FailWrite,
       TellAsked, db
  <1>3. ASSUME NEW k \in Calls, CallStep(k)
        PROVE  campaign' = campaign
    BY <1>3 DEF CallStep, CallEnds, Answer, Register, Unanswered, HangUp, OrphanEnds, TellOutcome,
       TellOptOut, LoseHangUp, db
  <1>4. CASE SupervisorStep
    BY <1>4 DEF SupervisorStep, OpenPatch, ApplyPatch, RecordByHand, ListByHand, SkipListed,
       RemoveFromList, db
  <1>5. CASE ProcessStep
    BY <1>5 DEF ProcessStep, ReleaseInFlightClaims, StopVoicePlatform, Exit, Crash, Reboot, db
  <1>6. ASSUME NEW l \in Leads, ClaimAges(l) \/ ClaimOutlives(l) \/ RetryFallsDue(l)
        PROVE  campaign' = campaign
    BY <1>6 DEF ClaimAges, ClaimOutlives, RetryFallsDue, db
  <1> QED
    BY <1>1, <1>2, <1>3, <1>4, <1>5, <1>6 DEF Next, vars

LEMMA StepTerminal == Typed /\ [Next]_vars => TerminalKept
  <1> SUFFICES ASSUME Typed, [Next]_vars PROVE TerminalKept
    OBVIOUS
  <1>1. campaign \in [Campaigns -> CampaignStatus]
    BY DEF Typed, TypeOK
  <1>2. CASE campaign' = campaign
    BY <1>2 DEF TerminalKept
  <1>3. CASE HaltCampaign
    BY <1>1, <1>3 DEF HaltCampaign, TerminalKept, IsEditable
  <1>4. ASSUME NEW w \in writing, Commit(w)
        PROVE  TerminalKept
    BY <1>1, <1>4 DEF Commit, FinishIfEmpty, TerminalKept, IsEditable
  <1>5. ASSUME NEW c \in Campaigns, NEW action \in {"start", "pause", "cancel"},
               ApplyTransition(c, action)
        PROVE  TerminalKept
    BY <1>1, <1>5 DEF ApplyTransition, CanTransition, Allowed, TerminalKept, IsEditable
  <1> QED
    BY <1>2, <1>3, <1>4, <1>5, StatusIsWrittenBy

\* No race of the dialer, an outcome and the supervisor brings a finished or
\* cancelled campaign back.
THEOREM HistoryIsFinal == Spec => TerminalIsFinal
  <1>1. Typed /\ [Next]_vars =>
          [\A c \in Campaigns : ~IsEditable(campaign[c]) => campaign'[c] = campaign[c]]_vars
    BY StepTerminal DEF TerminalKept
  <1> QED
    BY <1>1, TypeCorrect, PTL DEF Spec, TerminalIsFinal

=============================================================================
