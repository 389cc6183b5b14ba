-------------------------- MODULE CampaignDialer ---------------------------
(***************************************************************************)
(* The outbound campaign dialer of one tenant: the lead queue, the         *)
(* campaigns and the do-not-call list in Postgres; the dialer loop of      *)
(* lib/campaigns/dialer.ts with its in-memory claims; recordDialOutcome    *)
(* (lib/campaigns/outcome.ts), which several callers run at once; the      *)
(* supervisor's API (routes/campaigns); and the calls themselves, of which *)
(* only what the dialer can see is kept (OutboundCall details them).       *)
(*                                                                         *)
(* A step is what the code does between two awaits: a statement of the     *)
(* database and the synchronous code around it.  Time is abstracted to     *)
(* four facts: a claim is older than STALE_CLAIM_MINUTES (lead.stale), a   *)
(* retry delay has passed (lead.due), an in-memory claim is older than     *)
(* pruneInFlight's horizon (outlived), and the calling window is open      *)
(* (chosen by each plan).                                                  *)
(***************************************************************************)
EXTENDS Integers, FiniteSets, CampaignRules

CONSTANTS
  Campaigns, Leads, Phones,
  Calls,               \* the identities of the calls that may be out at once
  CampaignOf, PhoneOf, \* the campaign and the phone of a lead
  Reachable,           \* the leads this deployment can ring (all, with a trunk)
  MaxAttempts,         \* call_campaigns.max_attempts
  Concurrency,         \* call_campaigns.concurrency
  PlatformConcurrency, \* ai.outbound.maxConcurrentCalls
  Operations,          \* what the supervisor does in this instance
  Faults,              \* what goes wrong in this instance
  RequeueBound,        \* bound: a lead with this many attempts is not requeued by hand
  None                 \* no lead, no campaign, no call

OperationNames ==
  {"start", "pause", "cancel", "skip", "requeue", "outcome", "import",
   "list", "unlist", "shutdown"}

FaultNames ==
  {"crash",             \* the process dies
   "db",                \* a statement fails
   "overlapping_tools", \* the agent calls a tool before the last one has answered
   "lost_hangup",       \* the end of a transferred call is never reported
   "refuse",            \* Asterisk refuses an originate
   "lost_response",     \* the originate's answer does not arrive in time
   "outlives_process",  \* a transferred call goes on without the process
   "outlives_horizon"}  \* a call lasts longer than pruneInFlight's horizon

ASSUME ConstantsAssumption ==
  /\ CampaignOf \in [Leads -> Campaigns]
  /\ PhoneOf \in [Leads -> Phones]
  /\ Reachable \subseteq Leads
  /\ MaxAttempts \in [Campaigns -> Nat \ {0}]
  /\ Concurrency \in [Campaigns -> Nat \ {0}]
  /\ PlatformConcurrency \in Nat \ {0}
  /\ Operations \subseteq OperationNames
  /\ Faults \subseteq FaultNames
  /\ RequeueBound \in Nat
  /\ None \notin Leads \cup Campaigns \cup Calls
  /\ Calls \cap {"dialer", "operator"} = {}
  /\ IsFiniteSet(Leads) /\ IsFiniteSet(Calls)

VARIABLES
  campaign,  \* call_campaigns.status
  lead,      \* the campaign_leads rows
  dnc,       \* do_not_call_list: the source of a listed phone's entry
  mode,      \* the process: up, shutting down (released, stopped)
  inFlight,  \* the dialer's in-memory claims: none, open, settled
  outlived,  \* the claims in inFlight older than the prune horizon
  tick,      \* where runDialerTick is
  call,      \* the outbound calls
  writing,   \* the runs of recordDialOutcome that have not finished
  op,        \* a PATCH of a lead between its read and its write
  spoken,    \* the phones whose owner asked, on a call, not to be called
  stopping,  \* the calls that the orchestrator's stop() is closing
  listing,   \* phones listed by hand whose queued leads are still to be skipped
  late,      \* rings of a phone since it was listed, up to two
  rings      \* rings of a lead, up to one more than its budget

db     == <<campaign, lead, dnc>>
proc   == <<mode, stopping, listing>>
ghosts == <<spoken, late, rings>>
vars   == <<campaign, lead, dnc, mode, inFlight, outlived, tick, call,
            writing, op, stopping, listing, spoken, late, rings>>

(* Rows and records.                                                       *)

Row(status, attempts, due) ==
  [status |-> status, attempts |-> attempts, due |-> due, stale |-> FALSE]

Requeued(l) == Row("pending", lead[l].attempts, TRUE)

LeadsOf(c) == {l \in Leads : CampaignOf[l] = c}

Open(l) == lead[l].status \in OpenLeadStatus

FreeCall == [lead |-> None, phase |-> "free", told |-> "no"]

Budget(l) == MaxAttempts[CampaignOf[l]]

IdleTick ==
  [pc |-> "idle", camps |-> {}, cur |-> None, todo |-> {}, lead |-> None,
   call |-> None, quota |-> 0, out |-> -1, up |-> FALSE]

NoOp == [act |-> "none", lead |-> None]

(* The phone of the call is ringing or off the hook.                       *)
Live(k) == call[k].phase \in {"ringing", "claiming", "talking", "orphan"}

CallsOf(l) == {k \in Calls : call[k].lead = l /\ call[k].phase # "free"}

(***************************************************************************)
(* countOutboundInFlight: the parked dials and the registered calls.  A    *)
(* call being claimed is in neither map: claimOutboundDial takes it out of *)
(* pendingDials, then awaits, then registers it.                           *)
(***************************************************************************)
InFlightCalls ==
  {k \in Calls : call[k].phase \in {"parked", "ringing", "talking", "ended", "ending"}}

InFlightCallsOf(c) ==
  {k \in InFlightCalls : CampaignOf[call[k].lead] = c}

\* A row another transaction has updated and not committed.
Locked(l) == \E w \in writing : w.pc = "commit" /\ w.lead = l

\* Mutants of IsDoNotCall: the gate knows one kind of entry only.
OnManualList(p) == dnc[p] = "manual"
OnSpokenList(p) == dnc[p] = "asked_on_call"

\* isDoNotCall: the membership test behind both gates of a dial.
IsDoNotCall(p) == dnc[p] # "none"

\* What the two gates ask.
IsListed(p) == dnc[p] # "none"

\* isRemovableSource.
IsRemovableSource(source) == source # "asked_on_call"

Greater(a, b) == IF a > b THEN a ELSE b

Idle ==
  /\ campaign = [c \in Campaigns |-> IF "start" \in Operations THEN "draft" ELSE "running"]
  /\ dnc = [p \in Phones |-> "none"]
  /\ mode = "up"
  /\ inFlight = [l \in Leads |-> "none"]
  /\ outlived = {}
  /\ tick = IdleTick
  /\ call = [k \in Calls |-> FreeCall]
  /\ writing = {}
  /\ op = NoOp
  /\ stopping = {}
  /\ listing = {}
  /\ spoken = {}
  /\ late = [p \in Phones |-> 0]
  /\ rings = [l \in Leads |-> 0]

\* A fresh list, some of which may still have to be imported.
Init ==
  /\ Idle
  /\ lead \in [Leads -> {Row("pending", 0, TRUE)} \cup
                 (IF "import" \in Operations THEN {Row("absent", 0, TRUE)} ELSE {})]

(***************************************************************************)
(* recordDialOutcome.  It reads the lead and the campaign, computes the    *)
(* new row from what it read, lists the phone if the outcome is            *)
(* do_not_call, and then, in one transaction, overwrites the row, counts   *)
(* the open leads of the campaign and finishes it when there are none.     *)
(* The row lock is held from the update to the commit, but the count sees  *)
(* only what others have committed (READ COMMITTED).                       *)
(***************************************************************************)
NewWrite(by, l, outcome, counts, closes) ==
  [by       |-> by,
   lead     |-> l,
   outcome  |-> outcome,
   attempts |-> IF counts THEN lead[l].attempts + 1 ELSE lead[l].attempts,
   running  |-> campaign[CampaignOf[l]] = "running",
   last     |-> FALSE,      \* the queue was empty when it counted
   closes   |-> closes,     \* the call is over once this is recorded
   pc       |-> IF outcome = "do_not_call" THEN "list" ELSE "update"]

BeginWrite(by, l, outcome, counts, closes) ==
  writing' = writing \cup {NewWrite(by, l, outcome, counts, closes)}

NewStatus(w) == RetryStatus(w.outcome, w.attempts, Budget(w.lead))

NewRow(w) == Row(NewStatus(w), w.attempts, NewStatus(w) # "pending")

Release(l) == /\ inFlight' = [inFlight EXCEPT ![l] = "none"]
              /\ outlived' = outlived \ {l}

\* The queued leads of a listed phone leave the queue.
SkipQueued(p) ==
  /\ \A l \in Leads : PhoneOf[l] = p /\ lead[l].status = "pending" => ~Locked(l)
  /\ lead' = [l \in Leads |->
                IF PhoneOf[l] = p /\ lead[l].status = "pending"
                THEN Row("skipped", lead[l].attempts, TRUE) ELSE lead[l]]

\* addToDoNotCall is two statements: insert on conflict do nothing, and skip
\* the queued leads of the phone.
ListPhone(p, source) == dnc' = [dnc EXCEPT ![p] = IF @ = "none" THEN source ELSE @]

ListOutcome(w) ==
  /\ w.pc = "list"
  /\ ListPhone(PhoneOf[w.lead], IF w.by = "operator" THEN "manual" ELSE "asked_on_call")
  /\ writing' = (writing \ {w}) \cup {[w EXCEPT !.pc = "skip"]}
  /\ UNCHANGED <<campaign, lead, proc, inFlight, outlived, tick, call, op, ghosts>>

SkipOutcome(w) ==
  /\ w.pc = "skip"
  /\ SkipQueued(PhoneOf[w.lead])
  /\ writing' = (writing \ {w}) \cup {[w EXCEPT !.pc = "update"]}
  /\ UNCHANGED <<campaign, dnc, proc, inFlight, outlived, tick, call, op, ghosts>>

OthersClosed(w) == \A l \in LeadsOf(CampaignOf[w.lead]) \ {w.lead} : ~Open(l)

\* Mutants of EmptiesQueue: the lead itself is not counted, or only a lead
\* that was called with success ends a campaign.
EmptiesQueueOfOthers(w) == OthersClosed(w)
EndsOnSuccess(w) == NewStatus(w) = "done" /\ OthersClosed(w)

\* finishIfQueueEmpty's count, after the row of this lead has been rewritten.
EmptiesQueue(w) == NewStatus(w) \notin OpenLeadStatus /\ OthersClosed(w)

\* The transaction's UPDATE of the lead, and finishIfQueueEmpty's count.
UpdateLead(w) ==
  /\ w.pc = "update"
  /\ ~Locked(w.lead)
  /\ writing' = (writing \ {w}) \cup
                   {[w EXCEPT !.pc = "commit", !.last = w.running /\ EmptiesQueue(w)]}
  /\ UNCHANGED <<db, proc, inFlight, outlived, tick, call, op, ghosts>>

\* What the caller of recordDialOutcome does when it returns.
Return(w) ==
  /\ writing' = writing \ {w}
  /\ \/ /\ w.by \in Calls                   \* onOutcome, in its finally
        /\ Release(w.lead)
        /\ call' = IF w.closes THEN [call EXCEPT ![w.by] = FreeCall] ELSE call
        /\ UNCHANGED <<tick, op>>
     \/ /\ w.by = "dialer" /\ tick.pc = "refuse"
        /\ Release(w.lead)
        /\ tick' = [tick EXCEPT !.pc = "dial", !.lead = None, !.call = None]
        /\ UNCHANGED <<call, op>>
     \/ /\ w.by = "dialer" /\ tick.pc = "sweep"
        /\ UNCHANGED <<inFlight, outlived, tick, call, op>>
     \/ /\ w.by = "operator"
        /\ op' = NoOp
        /\ UNCHANGED <<inFlight, outlived, tick, call>>

\* Mutant of FinishIfEmpty: the update does not ask for a running campaign.
FinishAnyCampaign(w) ==
  campaign' = IF w.last THEN [campaign EXCEPT ![CampaignOf[w.lead]] = "finished"]
              ELSE campaign

FinishIfEmpty(w) ==
  campaign' = IF w.last /\ campaign[CampaignOf[w.lead]] = "running"
              THEN [campaign EXCEPT ![CampaignOf[w.lead]] = "finished"]
              ELSE campaign

Commit(w) ==
  /\ w.pc = "commit"
  /\ lead' = [lead EXCEPT ![w.lead] = NewRow(w)]
  /\ FinishIfEmpty(w)
  /\ Return(w)
  /\ UNCHANGED <<dnc, proc, ghosts>>

\* A statement fails: the transaction rolls back.  onOutcome and the sweep
\* log it; dialLead throws, and its caller puts the lead back.
FailWrite(w) ==
  /\ "db" \in Faults /\ w.pc # "asked"
  /\ \/ /\ ~(w.by = "dialer" /\ tick.pc = "refuse")
        /\ Return(w)
     \/ /\ w.by = "dialer" /\ tick.pc = "refuse"
        /\ writing' = writing \ {w}
        /\ tick' = [tick EXCEPT !.pc = "undo"]
        /\ UNCHANGED <<inFlight, outlived, call, op>>
  /\ UNCHANGED <<db, proc, ghosts>>

RecordDialOutcome(w) ==
  ListOutcome(w) \/ SkipOutcome(w) \/ UpdateLead(w) \/ Commit(w) \/ FailWrite(w)

(***************************************************************************)
(* runDialerTick.  The timer starts it; ticking keeps two from overlapping.*)
(***************************************************************************)
DialerWrites == {w \in writing : w.by = "dialer"}

StaleClaims == {l \in Leads : lead[l].status = "calling" /\ lead[l].stale}

\* Mutants of AbandonedClaims: a claim the process works on is swept too, or it
\* is the only kind that is.
EveryStaleClaim == StaleClaims
OwnStaleClaims == {l \in StaleClaims : inFlight[l] # "none"}

\* The SELECT of reclaimStaleClaims.
AbandonedClaims == {l \in StaleClaims : inFlight[l] = "none"}

StartTick ==
  /\ mode = "up" /\ tick.pc = "idle"
  /\ tick' = [IdleTick EXCEPT !.pc = IF AbandonedClaims = {} THEN "select" ELSE "sweep",
                              !.todo = AbandonedClaims]
  /\ UNCHANGED <<db, proc, inFlight, outlived, call, writing, op, ghosts>>

\* Mutant of SweepLead: the attempt that was lost is not counted.
SweepUncounted(l) ==
  /\ tick.pc = "sweep" /\ l \in tick.todo /\ DialerWrites = {}
  /\ tick' = [tick EXCEPT !.todo = @ \ {l}]
  /\ BeginWrite("dialer", l, "failed", FALSE, FALSE)
  /\ UNCHANGED <<db, proc, inFlight, outlived, call, op, ghosts>>

\* One abandoned claim of the list is recorded as failed, the attempt counted.
SweepLead(l) ==
  /\ tick.pc = "sweep" /\ l \in tick.todo /\ DialerWrites = {}
  /\ tick' = [tick EXCEPT !.todo = @ \ {l}]
  /\ BeginWrite("dialer", l, "failed", TRUE, FALSE)
  /\ UNCHANGED <<db, proc, inFlight, outlived, call, op, ghosts>>

\* pruneInFlight, at the end of a sweep that found something.
PruneInFlight ==
  /\ tick.pc = "sweep" /\ tick.todo = {} /\ DialerWrites = {}
  /\ inFlight' = [l \in Leads |-> IF l \in outlived THEN "none" ELSE inFlight[l]]
  /\ outlived' = {}
  /\ tick' = [tick EXCEPT !.pc = "select"]
  /\ UNCHANGED <<db, proc, call, writing, op, ghosts>>

\* The running campaigns, as rows the tick keeps and does not read again.
SelectRunning ==
  /\ tick.pc = "select"
  /\ LET running == {c \in Campaigns : campaign[c] = "running"}
     IN tick' = IF running = {} THEN IdleTick
                ELSE [tick EXCEPT !.pc = "count", !.camps = running,
                                  !.up = mode # "stopped"]
  /\ UNCHANGED <<db, proc, inFlight, outlived, call, writing, op, ghosts>>

\* countTenantCalling: asked once per tick.
TenantCalling ==
  Cardinality({l \in Leads : /\ lead[l].status = "calling" /\ ~lead[l].stale
                             /\ campaign[CampaignOf[l]] = "running"})

CountTenantCalling(c) ==
  /\ tick.pc = "count" /\ c \in tick.camps
  /\ tick' = [tick EXCEPT !.pc = "plan", !.cur = c,
                          !.out = IF @ = -1 THEN TenantCalling ELSE @]
  /\ UNCHANGED <<db, proc, inFlight, outlived, call, writing, op, ghosts>>

\* The tick after its current campaign.
CampaignDone(t) ==
  IF t.camps = {t.cur} THEN IdleTick
  ELSE [t EXCEPT !.pc = "count", !.camps = @ \ {t.cur}, !.cur = None,
                 !.todo = {}, !.lead = None, !.call = None, !.quota = 0]

CallingOf(c) == {l \in LeadsOf(c) : lead[l].status = "calling"}

\* Mutant of OutFor: a call whose outcome has been told no longer counts.
ClaimedFor(c) == Cardinality(CallingOf(c))

\* A campaign's calls in flight: the claims of the database or the calls of the
\* orchestrator, whichever is more.
OutFor(c) == Greater(Cardinality(CallingOf(c)), Cardinality(InFlightCallsOf(c)))

\* countCampaignLeads and the orchestrator's counts, as planCampaignTick's input.
Counts(c, openNow) ==
  LET pending == {l \in LeadsOf(c) \cap Reachable : lead[l].status = "pending"}
  IN [status              |-> "running",
      telephonyRunning    |-> tick.up,
      openNow             |-> openNow,
      campaignConcurrency |-> Concurrency[c],
      platformConcurrency |-> PlatformConcurrency,
      openLeads           |-> Cardinality({l \in LeadsOf(c) : Open(l)}),
      pendingReachable    |-> Cardinality(pending),
      dueReachable        |-> Cardinality({l \in pending : lead[l].due}),
      campaignInFlight    |-> OutFor(c),
      platformInFlight    |-> Greater(tick.out, Cardinality(InFlightCalls))]

PlanCampaign(openNow) ==
  /\ tick.pc = "plan"
  /\ \E in \in {Counts(tick.cur, openNow)} : \E plan \in {PlanCampaignTick(in)} :
       tick' = IF plan.halt THEN [tick EXCEPT !.pc = "halt"]
               ELSE IF plan.dial > 0 THEN [tick EXCEPT !.pc = "claim", !.quota = plan.dial]
               ELSE CampaignDone(tick)
  /\ UNCHANGED <<db, proc, inFlight, outlived, call, writing, op, ghosts>>

\* Mutant of HaltCampaign: the update does not ask for a running campaign.
HaltAnyCampaign ==
  /\ tick.pc = "halt"
  /\ campaign' = [campaign EXCEPT ![tick.cur] = "paused"]
  /\ tick' = CampaignDone(tick)
  /\ UNCHANGED <<lead, dnc, proc, inFlight, outlived, call, writing, op, ghosts>>

HaltCampaign ==
  /\ tick.pc = "halt"
  /\ campaign' = IF campaign[tick.cur] = "running"
                 THEN [campaign EXCEPT ![tick.cur] = "paused"] ELSE campaign
  /\ tick' = CampaignDone(tick)
  /\ UNCHANGED <<lead, dnc, proc, inFlight, outlived, call, writing, op, ghosts>>

\* What the claim's FOR UPDATE SKIP LOCKED sub-query may return.
Due(c) == {l \in LeadsOf(c) \cap Reachable :
             lead[l].status = "pending" /\ lead[l].due /\ ~Locked(l)}

ClaimLeads ==
  /\ tick.pc = "claim"
  /\ \E claimed \in SUBSET Due(tick.cur) :
       /\ Cardinality(claimed) = Lesser(tick.quota, Cardinality(Due(tick.cur)))
       /\ lead' = [l \in Leads |-> IF l \in claimed
                                   THEN Row("calling", lead[l].attempts, TRUE) ELSE lead[l]]
       /\ tick' = [tick EXCEPT !.pc = "dial", !.todo = claimed, !.quota = 0]
  /\ UNCHANGED <<campaign, dnc, proc, inFlight, outlived, call, writing, op, ghosts>>

\* dialLead takes the claim into memory and passes the do-not-call gate.
DialLead(l) ==
  /\ tick.pc = "dial" /\ l \in tick.todo
  /\ inFlight' = [inFlight EXCEPT ![l] = "open"]
  /\ outlived' = outlived \ {l}
  /\ \/ /\ ~IsDoNotCall(PhoneOf[l])
        /\ tick' = [tick EXCEPT !.pc = "place", !.lead = l, !.todo = @ \ {l}]
        /\ UNCHANGED writing
     \/ /\ IsDoNotCall(PhoneOf[l])
        /\ tick' = [tick EXCEPT !.pc = "refuse", !.lead = l, !.todo = @ \ {l}]
        /\ BeginWrite("dialer", l, "do_not_call", FALSE, FALSE)
     \/ /\ "db" \in Faults
        /\ tick' = [tick EXCEPT !.pc = "undo", !.lead = l, !.todo = @ \ {l}]
        /\ UNCHANGED writing
  /\ UNCHANGED <<db, proc, call, op, ghosts>>

\* placeOutboundCall: the voice layer, the second gate, the call row, the parked dial.
PlaceCall ==
  /\ tick.pc = "place"
  /\ \/ /\ mode = "stopped" \/ "db" \in Faults
        /\ tick' = [tick EXCEPT !.pc = "undo"]
        /\ UNCHANGED <<call, writing>>
     \/ /\ mode # "stopped" /\ IsDoNotCall(PhoneOf[tick.lead])
        /\ tick' = [tick EXCEPT !.pc = "refuse"]
        /\ BeginWrite("dialer", tick.lead, "do_not_call", TRUE, FALSE)
        /\ UNCHANGED call
     \/ /\ mode # "stopped" /\ ~IsDoNotCall(PhoneOf[tick.lead])
        /\ \E k \in Calls :
             /\ call[k].phase = "free" /\ \A w \in writing : w.by # k
             /\ call' = [call EXCEPT ![k] = [lead |-> tick.lead, phase |-> "parked", told |-> "no"]]
             /\ tick' = [tick EXCEPT !.pc = "originate", !.call = k]
        /\ UNCHANGED writing
  /\ UNCHANGED <<db, proc, inFlight, outlived, op, ghosts>>

\* requeue and release: the claim is given back and no attempt is spent.
UndoClaim ==
  /\ tick.pc = "undo" /\ ~Locked(tick.lead)
  /\ \/ lead' = IF lead[tick.lead].status = "calling"
                THEN [lead EXCEPT ![tick.lead] = Requeued(tick.lead)] ELSE lead
     \/ "db" \in Faults /\ lead' = lead
  /\ Release(tick.lead)
  /\ tick' = [tick EXCEPT !.pc = "dial", !.lead = None, !.call = None]
  /\ UNCHANGED <<campaign, dnc, proc, call, writing, op, ghosts>>

Settle(l) == inFlight' = [inFlight EXCEPT ![l] = IF @ = "open" THEN "settled" ELSE @]

\* The hook of an outcome: the claim is marked settled, then recorded.
Report(k, outcome, closes) ==
  /\ Settle(call[k].lead)
  /\ BeginWrite(k, call[k].lead, ToCampaignOutcome(outcome), TRUE, closes)

\* abandonOutboundDial: the dial leaves pendingDials and its verdict is reported.
AbandonDial(k, outcome) ==
  /\ call[k].phase \in {"parked", "ringing"}
  /\ call' = [call EXCEPT ![k].phase = "abandoned"]
  /\ Report(k, outcome, TRUE)

\* busy and failed are retried exactly as no_answer is.
ChannelOutcomes == {"no_answer", "invalid_number"}

\* ari.originate: the phone rings, or Asterisk refuses.
Originate ==
  /\ tick.pc = "originate"
  /\ LET k == tick.call
         p == PhoneOf[tick.lead]
     IN \/ /\ call' = IF call[k].phase = "parked"
                      THEN [call EXCEPT ![k].phase = "ringing"] ELSE call
           /\ rings' = [rings EXCEPT ![tick.lead] = Lesser(@, Budget(tick.lead)) + 1]
           /\ late' = IF IsListed(p)
                      THEN [late EXCEPT ![p] = Lesser(@, 1) + 1] ELSE late
           /\ tick' = [tick EXCEPT !.pc = "response"]
           /\ UNCHANGED <<inFlight, writing, spoken>>
        \/ /\ "refuse" \in Faults
           /\ \/ /\ \E o \in ChannelOutcomes : AbandonDial(k, o)
                 /\ tick' = [tick EXCEPT !.pc = "await"]
              \/ /\ call[k].phase # "parked"
                 /\ tick' = [tick EXCEPT !.pc = "refused"]
                 /\ UNCHANGED <<inFlight, call, writing>>
           /\ UNCHANGED ghosts
  /\ UNCHANGED <<db, proc, outlived, op>>

\* The originate's answer arrives, or its request times out: the channel may
\* be ringing, or answered and already claimed, all the same.
OriginateResponse ==
  /\ tick.pc = "response"
  /\ \/ /\ tick' = [tick EXCEPT !.pc = "dial", !.out = @ + 1, !.lead = None, !.call = None]
        /\ UNCHANGED <<inFlight, call, writing>>
     \/ /\ "lost_response" \in Faults
        /\ \/ /\ AbandonDial(tick.call, "failed")
              /\ tick' = [tick EXCEPT !.pc = "await"]
           \/ /\ call[tick.call].phase # "ringing"
              /\ tick' = [tick EXCEPT !.pc = "refused"]
              /\ UNCHANGED <<inFlight, call, writing>>
  /\ UNCHANGED <<db, proc, outlived, op, ghosts>>

\* placeOutboundCall awaits the hook of the dial it abandoned.
AwaitAbandoned ==
  /\ tick.pc = "await" /\ call[tick.call].phase # "abandoned"
  /\ tick' = [tick EXCEPT !.pc = "refused"]
  /\ UNCHANGED <<db, proc, inFlight, outlived, call, writing, op, ghosts>>

\* dialLead after a refused originate: record it unless the hook already has.
DialRefused ==
  /\ tick.pc = "refused"
  /\ \/ /\ inFlight[tick.lead] = "open"
        /\ tick' = [tick EXCEPT !.pc = "refuse"]
        /\ BeginWrite("dialer", tick.lead, "failed", TRUE, FALSE)
        /\ UNCHANGED <<inFlight, outlived>>
     \/ /\ inFlight[tick.lead] # "open"
        /\ Release(tick.lead)
        /\ tick' = [tick EXCEPT !.pc = "dial", !.lead = None, !.call = None]
        /\ UNCHANGED writing
  /\ UNCHANGED <<db, proc, call, op, ghosts>>

DialsDone ==
  /\ tick.pc = "dial" /\ tick.todo = {}
  /\ tick' = CampaignDone(tick)
  /\ UNCHANGED <<db, proc, inFlight, outlived, call, writing, op, ghosts>>

\* A read of the tick, its claim or its halt fails: the tick is given up.
TickFails ==
  /\ "db" \in Faults /\ tick.pc \in {"select", "count", "plan", "claim", "halt"}
  /\ tick' = IdleTick
  /\ UNCHANGED <<db, proc, inFlight, outlived, call, writing, op, ghosts>>

DialerStep ==
  \/ StartTick \/ (\E l \in Leads : SweepLead(l)) \/ PruneInFlight
  \/ SelectRunning \/ (\E c \in Campaigns : CountTenantCalling(c))
  \/ (\E openNow \in BOOLEAN : PlanCampaign(openNow)) \/ HaltCampaign \/ ClaimLeads
  \/ (\E l \in Leads : DialLead(l)) \/ PlaceCall \/ UndoClaim
  \/ Originate \/ OriginateResponse \/ AwaitAbandoned \/ DialRefused \/ DialsDone
  \/ TickFails

(***************************************************************************)
(* The calls, as far as the dialer sees them.                              *)
(***************************************************************************)

\* StasisStart: the dial leaves pendingDials.
Answer(k) ==
  /\ mode # "stopped" /\ call[k].phase = "ringing"
  /\ call' = [call EXCEPT ![k].phase = "claiming"]
  /\ UNCHANGED <<db, proc, inFlight, outlived, tick, writing, op, ghosts>>

\* The rest of claimOutboundDial: the call is registered.
Register(k) ==
  /\ call[k].phase = "claiming"
  /\ call' = [call EXCEPT ![k].phase = "talking"]
  /\ UNCHANGED <<db, proc, inFlight, outlived, tick, writing, op, ghosts>>

\* Nobody picked up, or stop() gives the parked dials up.
Unanswered(k) ==
  /\ call[k].phase = "ringing" \/ k \in stopping
  /\ \E o \in ChannelOutcomes : AbandonDial(k, o)
  /\ UNCHANGED <<db, proc, outlived, tick, op, ghosts>>

\* A tool handler is not awaited by the provider that dispatches it.
MayUseTool(k) ==
  "overlapping_tools" \in Faults \/ \A w \in writing : w.by # k

\* record_call_outcome: one outcome per call.
TellOutcome(k) ==
  /\ call[k].phase = "talking" /\ call[k].told = "no" /\ MayUseTool(k)
  /\ call' = [call EXCEPT ![k].told = "mild"]
  /\ \E o \in {"agreed", "voicemail"} : Report(k, o, FALSE)
  /\ UNCHANGED <<db, proc, outlived, tick, op, ghosts>>

\* What record_call_outcome(opt_out) still has to report once the phone is listed.
Asked(k) ==
  [NewWrite(k, call[k].lead, "do_not_call", TRUE, FALSE) EXCEPT
     !.attempts = 0, !.running = FALSE, !.pc = "asked"]

\* record_call_outcome(opt_out), which also replaces a milder outcome.  The
\* list comes first; if it cannot be written the outcome is reported anyway.
\* Bound: a person who has been taken off is not taken off again in that call.
TellOptOut(k) ==
  LET p == PhoneOf[call[k].lead]
  IN /\ call[k].phase = "talking" /\ call[k].told # "opt_out" /\ MayUseTool(k)
     /\ spoken' = spoken \cup {p}
     /\ \/ /\ ListPhone(p, "asked_on_call")
           /\ writing' = writing \cup {Asked(k)}
           /\ UNCHANGED <<inFlight, call>>
        \/ /\ "db" \in Faults
           /\ call' = [call EXCEPT ![k].told = "opt_out"]
           /\ Report(k, "opt_out", FALSE)
           /\ UNCHANGED dnc
     /\ UNCHANGED <<campaign, lead, proc, outlived, tick, op, late, rings>>

\* The queue has been updated, or that failed.  The call may have ended in the
\* meantime, and its teardown may have reported it as answered.
TellAsked(w) ==
  /\ w.pc = "asked"
  /\ \/ SkipQueued(PhoneOf[w.lead])
     \/ "db" \in Faults /\ lead' = lead
  /\ call' = IF call[w.by].lead = w.lead THEN [call EXCEPT ![w.by].told = "opt_out"] ELSE call
  /\ Settle(w.lead)
  /\ writing' = (writing \ {w}) \cup {NewWrite(w.by, w.lead, "do_not_call", TRUE, FALSE)}
  /\ UNCHANGED <<campaign, dnc, proc, outlived, tick, op, ghosts>>

WriteStep(w) == RecordDialOutcome(w) \/ TellAsked(w)

\* finalizeCall: a call that reported nothing reports "answered" as it ends,
\* and stays registered until that is recorded.
HangUp(k) ==
  /\ call[k].phase = "talking" \/ (call[k].phase = "ended" /\ k \in stopping)
  /\ \/ /\ call[k].told = "no"
        /\ call' = [call EXCEPT ![k].phase = "ending", ![k].told = "mild"]
        /\ Report(k, "answered", TRUE)
     \/ /\ call[k].told # "no"
        /\ call' = [call EXCEPT ![k] = FreeCall]
        /\ UNCHANGED <<inFlight, writing>>
  /\ UNCHANGED <<db, proc, outlived, tick, op, ghosts>>

\* The line is down and the event that would say so is lost.  The timers of a
\* transferred call are cleared, so only stop() ends it now.
LoseHangUp(k) ==
  /\ "lost_hangup" \in Faults /\ call[k].phase = "talking"
  /\ call' = [call EXCEPT ![k].phase = "ended"]
  /\ UNCHANGED <<db, proc, inFlight, outlived, tick, writing, op, ghosts>>

OrphanEnds(k) ==
  /\ call[k].phase = "orphan"
  /\ call' = [call EXCEPT ![k] = FreeCall]
  /\ UNCHANGED <<db, proc, inFlight, outlived, tick, writing, op, ghosts>>

\* Ringing times out, a registration completes, a conversation ends.
CallEnds(k) == Answer(k) \/ Register(k) \/ Unanswered(k) \/ HangUp(k) \/ OrphanEnds(k)

CallStep(k) == CallEnds(k) \/ TellOutcome(k) \/ TellOptOut(k) \/ LoseHangUp(k)

(***************************************************************************)
(* The supervisor's API.  The transitions and haltCampaign are guarded on  *)
(* the status that was read, so reading and writing are one step.  A PATCH *)
(* of a lead reads the row in one step and writes it blindly in another.   *)
(***************************************************************************)
PendingOf(c) == {l \in LeadsOf(c) : lead[l].status = "pending"}

ApplyTransition(c, action) ==
  /\ action \in Operations
  /\ CanTransition(campaign[c], action)
  /\ action = "start" => PendingOf(c) \cap Reachable # {}
  /\ campaign' = [campaign EXCEPT ![c] = Allowed[action].to]
  /\ UNCHANGED <<lead, dnc, proc, inFlight, outlived, tick, call, writing, op, ghosts>>

\* The checks of updateLeadHandler, and of importLeadsHandler for one row.
OpenPatch(l, act) ==
  /\ op = NoOp /\ act \in Operations
  /\ \/ /\ act \in {"skip", "requeue", "outcome"}
        /\ lead[l].status # "absent"
        /\ lead[l].status = "calling" => lead[l].stale
     \/ /\ act = "import"
        /\ lead[l].status = "absent" /\ IsEditable(campaign[CampaignOf[l]])
  /\ act = "requeue" => lead[l].status # "pending" /\ lead[l].attempts < RequeueBound
  /\ act \in {"requeue", "import"} => ~IsDoNotCall(PhoneOf[l])
  /\ op' = [act |-> act, lead |-> l]
  /\ UNCHANGED <<db, proc, inFlight, outlived, tick, call, writing, ghosts>>

ApplyPatch ==
  /\ op.act \in {"skip", "requeue", "import"} /\ ~Locked(op.lead)
  /\ lead' = [lead EXCEPT ![op.lead] =
                IF op.act = "skip" THEN Row("skipped", @.attempts, TRUE)
                                   ELSE Row("pending", @.attempts, TRUE)]
  /\ op' = NoOp
  /\ UNCHANGED <<campaign, dnc, proc, inFlight, outlived, tick, call, writing, ghosts>>

\* The outcomes enumerated: one that goes by the attempts already spent (it
\* requeues the lead or, like any final answer, closes it), and the refusal.
ManualOutcomes == {"no_answer", "do_not_call"}

\* A hand-recorded outcome goes through recordDialOutcome, and costs no attempt.
RecordByHand ==
  /\ op.act = "outcome"
  /\ op' = [op EXCEPT !.act = "recording"]
  /\ \E o \in ManualOutcomes : BeginWrite("operator", op.lead, o, FALSE, FALSE)
  /\ UNCHANGED <<db, proc, inFlight, outlived, tick, call, ghosts>>

\* createDncHandler, for one phone.
ListByHand(p) ==
  /\ "list" \in Operations /\ dnc[p] = "none" /\ p \notin listing
  /\ ListPhone(p, "manual")
  /\ listing' = listing \cup {p}
  /\ UNCHANGED <<campaign, lead, mode, stopping, inFlight, outlived, tick, call, writing, op, ghosts>>

SkipListed(p) ==
  /\ p \in listing
  /\ SkipQueued(p) \/ ("db" \in Faults /\ lead' = lead)
  /\ listing' = listing \ {p}
  /\ UNCHANGED <<campaign, dnc, mode, stopping, inFlight, outlived, tick, call, writing, op, ghosts>>

RemoveFromList(p) ==
  /\ "unlist" \in Operations /\ dnc[p] # "none" /\ IsRemovableSource(dnc[p])
  /\ dnc' = [dnc EXCEPT ![p] = "none"]
  /\ late' = [late EXCEPT ![p] = 0]
  /\ UNCHANGED <<campaign, lead, proc, inFlight, outlived, tick, call, writing, op, spoken, rings>>

SupervisorStep ==
  \/ \E c \in Campaigns, action \in {"start", "pause", "cancel"} : ApplyTransition(c, action)
  \/ \E l \in Leads, act \in {"skip", "requeue", "outcome", "import"} : OpenPatch(l, act)
  \/ ApplyPatch \/ RecordByHand
  \/ \E p \in Phones : ListByHand(p) \/ SkipListed(p) \/ RemoveFromList(p)

(***************************************************************************)
(* The life of the process.  A planned stop clears the timer, hands the    *)
(* in-memory claims back, stops the voice layer and exits; a tick that is  *)
(* running is not waited for.  Whichever way the process ends, the next    *)
(* one starts with an empty memory, and the calls end with it (their       *)
(* AudioSocket server is gone) but for those Asterisk has already bridged  *)
(* to a human.                                                             *)
(***************************************************************************)
ReleaseInFlightClaims ==
  /\ "shutdown" \in Operations /\ mode = "up"
  /\ \A l \in Leads : inFlight[l] # "none" => ~Locked(l)
  /\ mode' = "released"
  /\ lead' = [l \in Leads |-> IF inFlight[l] # "none" /\ lead[l].status = "calling"
                              THEN Requeued(l) ELSE lead[l]]
  /\ inFlight' = [l \in Leads |-> "none"]
  /\ outlived' = {}
  /\ UNCHANGED <<campaign, dnc, stopping, listing, tick, call, writing, op, ghosts>>

StopVoicePlatform ==
  /\ mode = "released"
  /\ mode' = "stopped"
  /\ stopping' = {k \in Calls : call[k].phase \in {"parked", "ringing", "talking", "ended"}}
  /\ UNCHANGED <<db, listing, inFlight, outlived, tick, call, writing, op, ghosts>>

Reboot ==
  /\ mode' = "up"
  /\ inFlight' = [l \in Leads |-> "none"]
  /\ outlived' = {}
  /\ tick' = IdleTick
  /\ \E bridged \in SUBSET {k \in Calls : /\ call[k].phase \in {"talking", "orphan"}
                                         /\ "outlives_process" \in Faults} :
       call' = [k \in Calls |-> IF k \in bridged THEN [call[k] EXCEPT !.phase = "orphan"]
                                                 ELSE FreeCall]
  /\ writing' = {}
  /\ op' = NoOp
  /\ stopping' = {}
  /\ listing' = {}
  /\ UNCHANGED <<db, ghosts>>

\* stop() has closed the calls it found when it began.
Exit ==
  /\ mode = "stopped"
  /\ \A k \in stopping : call[k].phase = "free"
  /\ Reboot

Crash == "crash" \in Faults /\ Reboot

ProcessStep == ReleaseInFlightClaims \/ StopVoicePlatform \/ Exit \/ Crash

(***************************************************************************)
(* Time.  The delays are minutes (the shortest retry delay is five): they  *)
(* are longer than a ring, than the time a tick takes over the leads it    *)
(* claimed, and than a run of recordDialOutcome.                           *)
(***************************************************************************)
HeldByTick(l) == l = tick.lead \/ (tick.pc # "sweep" /\ l \in tick.todo)

BeingWritten(l) == \E w \in writing : w.lead = l

ClaimAges(l) ==
  /\ lead[l].status = "calling" /\ ~lead[l].stale /\ ~HeldByTick(l) /\ ~BeingWritten(l)
  /\ \A k \in CallsOf(l) : call[k].phase \in {"talking", "ended", "orphan"}
  /\ lead' = [lead EXCEPT ![l].stale = TRUE]
  /\ UNCHANGED <<campaign, dnc, proc, inFlight, outlived, tick, call, writing, op, ghosts>>

\* The claim's entry passes the horizon of pruneInFlight.
ClaimOutlives(l) ==
  /\ inFlight[l] # "none" /\ l \notin outlived /\ ~HeldByTick(l) /\ ~BeingWritten(l)
  /\ lead[l].status = "calling" => lead[l].stale
  /\ "outlives_horizon" \in Faults \/ \A k \in CallsOf(l) : call[k].phase = "ended"
  /\ outlived' = outlived \cup {l}
  /\ UNCHANGED <<db, proc, inFlight, tick, call, writing, op, ghosts>>

\* A call may last longer than the retry delay, but not for that long after
\* its outcome has been told.
OutlastsRetry(k) == call[k].told = "no"

RetryFallsDue(l) ==
  /\ lead[l].status = "pending" /\ ~lead[l].due /\ ~BeingWritten(l)
  /\ \A k \in CallsOf(l) : call[k].phase = "ended" \/ OutlastsRetry(k)
  /\ lead' = [lead EXCEPT ![l].due = TRUE]
  /\ UNCHANGED <<campaign, dnc, proc, inFlight, outlived, tick, call, writing, op, ghosts>>

Next ==
  \/ DialerStep
  \/ \E w \in writing : WriteStep(w)
  \/ \E k \in Calls : CallStep(k)
  \/ SupervisorStep
  \/ ProcessStep
  \/ \E l \in Leads : ClaimAges(l) \/ ClaimOutlives(l) \/ RetryFallsDue(l)

Spec == Init /\ [][Next]_vars

(***************************************************************************)
(* Fairness.  The timer keeps starting ticks and an await returns; a call  *)
(* rings for ringTimeoutSeconds and talks for maxCallSeconds at most; a    *)
(* statement of recordDialOutcome completes; the clock goes on, and the    *)
(* calling window opens every day.                                         *)
(***************************************************************************)
Writers == Calls \cup {"dialer", "operator"}

Fairness ==
  /\ WF_vars(DialerStep)
  /\ SF_vars(PlanCampaign(TRUE))
  /\ \A by \in Writers : WF_vars(\E w \in writing : w.by = by /\ WriteStep(w))
  /\ \A k \in Calls : WF_vars(CallEnds(k))
  /\ \A l \in Leads : /\ WF_vars(ClaimAges(l))
                     /\ WF_vars(ClaimOutlives(l))
                     /\ WF_vars(RetryFallsDue(l))

FairSpec == Spec /\ Fairness

(***************************************************************************)
(* Types.                                                                  *)
(***************************************************************************)
RowType == [status : LeadStatus \cup {"absent"}, attempts : Nat,
            due : BOOLEAN, stale : BOOLEAN]

TickType ==
  [pc    : {"idle", "sweep", "select", "count", "plan", "halt", "claim", "dial", "place",
            "refuse", "undo", "originate", "response", "await", "refused"},
   camps : SUBSET Campaigns,
   cur   : Campaigns \cup {None},
   todo  : SUBSET Leads,
   lead  : Leads \cup {None},
   call  : Calls \cup {None},
   quota : Nat,
   out   : Int,
   up    : BOOLEAN]

CallType ==
  [lead  : Leads \cup {None},
   phase : {"free", "parked", "ringing", "abandoned", "claiming", "talking", "ended", "ending",
            "orphan"},
   told  : {"no", "mild", "opt_out"}]

WriteType ==
  [by       : Calls \cup {"dialer", "operator"},
   lead     : Leads,
   outcome  : CampaignOutcome,
   attempts : Nat,
   running  : BOOLEAN,
   last     : BOOLEAN,
   closes   : BOOLEAN,
   pc       : {"asked", "list", "skip", "update", "commit"}]

OpType ==
  [act  : {"none", "skip", "requeue", "outcome", "recording", "import"},
   lead : Leads \cup {None}]

\* Every variable has its type; the rest of the properties are about what the
\* interleavings of the tick, the calls, the API and the clock may do.
TypeOK ==
  /\ campaign \in [Campaigns -> CampaignStatus]
  /\ lead \in [Leads -> RowType]
  /\ dnc \in [Phones -> {"none", "manual", "asked_on_call"}]
  /\ mode \in {"up", "released", "stopped"}
  /\ inFlight \in [Leads -> {"none", "open", "settled"}]
  /\ outlived \subseteq Leads
  /\ tick \in TickType
  /\ call \in [Calls -> CallType]
  /\ writing \subseteq WriteType
  /\ op \in OpType
  /\ stopping \subseteq Calls
  /\ listing \subseteq Phones
  /\ spoken \subseteq Phones
  /\ late \in [Phones -> Nat]
  /\ rings \in [Leads -> Nat]

(***************************************************************************)
(* Safety.                                                                 *)
(***************************************************************************)

\* Once a phone is on the do-not-call list it rings at most once more while it
\* is listed: the one dial that had passed the second gate.  No other tick,
\* campaign, retry, reclaim, requeue, import or restart can ring it.
AtMostOneLateRing == \A p \in Phones : late[p] <= 1

\* A person is never on two calls of one campaign at once, whatever crashes,
\* failed statements and refused originates do to the claim of the lead.
NoDoubleDial == \A l \in Leads : Cardinality({k \in CallsOf(l) : Live(k)}) <= 1

\* While a phone rings or is off the hook and no outcome has been told, the
\* process holds the claim in memory and the row says calling: what keeps the
\* sweep from taking the lead away from a conversation.
LiveCallHoldsClaim ==
  \A k \in Calls : Live(k) /\ call[k].told = "no" =>
    inFlight[call[k].lead] = "open" /\ lead[call[k].lead].status = "calling"

\* A lead is not rung more often than max_attempts says: an attempt that was
\* lost with a crash is counted by the sweep, and no path counts too few.
AttemptBudget == \A l \in Leads : rings[l] <= Budget(l)

\* No more people are on the phone for a campaign than its concurrency.
CampaignCeiling ==
  \A c \in Campaigns :
    Cardinality({k \in Calls : Live(k) /\ CampaignOf[call[k].lead] = c}) <= Concurrency[c]

\* A finished or cancelled campaign never changes its status again, whoever
\* was about to write it: an outcome, the dialer's halt or the supervisor.
TerminalIsFinal ==
  [][\A c \in Campaigns : ~IsEditable(campaign[c]) => campaign'[c] = campaign[c]]_vars

\* A campaign is finished only with no lead of it left to dial.
FinishedWhenDrained ==
  [][\A c \in Campaigns :
       campaign[c] # "finished" /\ campaign'[c] = "finished"
         => \A l \in LeadsOf(c) : lead'[l].status \notin OpenLeadStatus]_vars

(***************************************************************************)
(* What the comments of the code promise and the code does not keep.       *)
(***************************************************************************)

\* "A person's spoken refusal is not an administrative record somebody may
\* tidy up later" (do-not-call.ts): who asked on a call stays on the list.
RefusalIsKept == \A p \in spoken : IsListed(p)

(***************************************************************************)
(* Liveness, from the moment a process starts on the database that a       *)
(* crashed one has left: leads may be claimed with nobody working on them. *)
(***************************************************************************)
RestartInit ==
  /\ Idle
  /\ \E left \in SUBSET Leads :
       lead = [l \in Leads |-> Row(IF l \in left THEN "calling" ELSE "pending", 0, TRUE)]

RestartSpec == RestartInit /\ [][Next]_vars /\ Fairness

\* A claimed lead does not stay claimed: its call reports, or the sweep
\* finds the claim abandoned.
ClaimsResolve == \A l \in Leads : lead[l].status = "calling" ~> lead[l].status # "calling"

\* A running campaign whose leads can all be rung comes to an end: every
\* lead is called out and the last outcome finishes the campaign.
CampaignsFinish == \A c \in Campaigns : campaign[c] = "running" ~> campaign[c] # "running"
=============================================================================
