------------------------------- MODULE ActiveCall ------------------------------
(***************************************************************************)
(* One telephone call as lib/telephony/call-orchestrator.ts lives it: from *)
(* the dial, or from a caller's arrival, through the start of the voice    *)
(* session, the hand-over to the AudioSocket bridge, the tools, the guard  *)
(* timers and a transfer to an operator (transfer.ts), to the teardown.    *)
(*                                                                         *)
(* Everything the orchestrator does for a call runs in asynchronous        *)
(* functions that interleave at their awaits and never look whether        *)
(* another of them has ended the call in the meantime.  An action is what  *)
(* runs between two awaits.  The two long functions have a position of     *)
(* their own (`setup', `xfer'); the rest of a short one, and a timer, is a *)
(* member of `todo'.                                                       *)
(***************************************************************************)
EXTENDS Naturals, Sequences

CONSTANTS
    Directions,     \* subset of {"inbound", "outbound"}
    Providers,      \* subset of {"voice", "ivr"}: what the factory resolves
    Operations,     \* subset of {"hangup", "transfer"}: the supervisor's
    Weather,        \* the sets of mishaps a run may meet, see Mishap
    MaxTransfers    \* transfers asked for in one call

Mishap == {"early_hangup",    \* a hang-up is handled before the entry in `calls'
           "originate",       \* the originate request fails or times out
           "lost_dial_event", \* an ARI event of a parked dial is lost
           "lost_event",      \* any ARI event is lost
           "start",           \* the voice session cannot be opened
           "voice_drop",      \* the provider closes the session
           "no_operator",     \* chooseTransferTarget finds nobody
           "leg",             \* the redirect, or the operator's leg, is refused
           "poll",            \* listing the channels fails
           "colleague",       \* another operator of the tenant is on the telephone
           "brief_operator",  \* the operator leaves before they are recorded
           "db"}              \* a statement that is not guarded fails

ASSUME ConstantsAssumption ==
    /\ Directions \subseteq {"inbound", "outbound"}
    /\ Providers \subseteq {"voice", "ivr"}
    /\ Operations \subseteq {"hangup", "transfer"}
    /\ Weather \subseteq SUBSET Mishap
    /\ MaxTransfers \in Nat

VARIABLES
    net,      \* the telephone network: the caller's line, the operator's leg,
              \* ARI events on their way, the AudioSocket connection
    dial,     \* PendingOutboundDial, placeOutboundCall and abandonOutboundDial
    call,     \* ActiveCall: what decides the course of the call
    agent,    \* ActiveCall: provider, its session, the guard timers
    setup,    \* position of claimOutboundDial/beginCall and launchProvider
    xfer,     \* position of startTransfer and transferToHuman
    todo,     \* continuations and timers outstanding
    told,     \* history: the outcomes reported to the dialer
    mishaps   \* the mishaps of this behaviour

vars == <<net, dial, call, agent, setup, xfer, todo, told, mishaps>>

Lines == {"none", "ringing", "stasis", "bridge", "transfer", "gone"}
Events == {"start", "stasisEnd", "destroyed", "left"}
Setups == {"idle", "naming", "answering", "resolving", "recording", "starting",
           "degrading", "ivr", "handing", "continuing", "continued", "aborting", "done"}
Transfers == {"idle", "choosing", "bridging", "ringing", "redirecting", "waiting",
              "joined", "completing"}
Todo == {"announce",     \* toolTransferToHuman speaks, then starts the transfer
         "farewell",     \* endForLimit or end_call speaks, then hangs up
         "release",      \* the rest of hangupCall
         "retained",     \* the rest of failTransfer, the caller being ours
         "lost",         \* the same, the caller being gone
         "storing",      \* toolRecordCallOutcome writes the do-not-call list
         "safety",       \* finalizeTimer
         "finalise"}     \* the rest of finalizeCall

NetType == [line : Lines, operator : {"none", "ringing", "up", "talking"},
            events : Seq(Events),
            socket : {"none", "dialling", "open", "ended", "over"}]
DialType == [at : {"idle", "parked", "settled"},
             placing : {"idle", "originating", "done"},
             leaving : {"idle", "writing", "cutting", "done"}, cut : BOOLEAN]
CallType == [outbound : BOOLEAN, known : BOOLEAN, handed : BOOLEAN,
             finalized : BOOLEAN, reported : {"none", "answered", "optOut"},
             phase : {"none", "requested", "connected", "failed"},
             transfers : 0..MaxTransfers]
AgentType == [provider : {"none", "voice", "ivr"},
              session : {"none", "opening", "open", "closed"},
              asks : BOOLEAN, closed : BOOLEAN, timers : SUBSET {"max", "silence"}]

TypeOK ==
    /\ net \in NetType
    /\ dial \in DialType
    /\ call \in CallType
    /\ agent \in AgentType
    /\ setup \in Setups
    /\ xfer \in Transfers
    /\ todo \subseteq Todo
    /\ told \in Seq({"missed", "answered", "optOut"})
    /\ mishaps \in Weather

Init ==
    /\ \E outbound \in {d = "outbound" : d \in Directions} :
         /\ net = [line |-> IF outbound THEN "none" ELSE "stasis", operator |-> "none",
                   events |-> IF outbound THEN <<>> ELSE <<"start">>, socket |-> "none"]
         /\ call = [outbound |-> outbound, known |-> FALSE,
                    handed |-> FALSE, finalized |-> FALSE, reported |-> "none",
                    phase |-> "none", transfers |-> 0]
    /\ dial = [at |-> "idle", placing |-> "idle", leaving |-> "idle", cut |-> FALSE]
    /\ agent = [provider |-> "none", session |-> "none", asks |-> FALSE,
                closed |-> FALSE, timers |-> {}]
    /\ setup = "idle" /\ xfer = "idle" /\ todo = {} /\ told = <<>>
    /\ mishaps \in Weather

--------------------------------------------------------------------------------
(* What the functions below share.                                         *)

Up(n) == n.line \in {"ringing", "stasis", "bridge", "transfer"}

\* The caller's channel is destroyed: Asterisk says so, and the AudioSocket
\* connection, if there is one, ends.  A leg that ARI originated stays.
Cut(n) ==
    IF ~Up(n) THEN n
    ELSE [line |-> "gone",
          operator |-> IF n.line = "transfer" THEN "none" ELSE n.operator,
          events |-> n.events \o (IF n.line = "stasis" THEN <<"stasisEnd">> ELSE <<>>)
                              \o <<"destroyed">>,
          socket |-> CASE n.socket = "open" -> "ended"
                       [] n.socket = "dialling" -> "over"
                       [] OTHER -> n.socket]

\* endAiPath: nothing the second time.
EndAiPath(a) ==
    IF a.closed THEN a
    ELSE [a EXCEPT !.closed = TRUE, !.timers = {}, !.asks = FALSE,
                   !.session = IF a.provider = "none" THEN @ ELSE "closed"]

\* Mutant of Touch: the other guard is armed.
TouchStall(a) == [a EXCEPT !.timers = @ \cup {"stall"}]

\* touchActivity re-arms the silence guard.
Touch(a) ==
    IF a.closed \/ call.phase = "connected" THEN [a EXCEPT !.timers = @ \ {"silence"}]
    ELSE [a EXCEPT !.timers = @ \cup {"silence"}]

\* Mutant of ArmTimers: the limit of the whole call is not renewed.
ArmSilence(a) == Touch(a)

\* armTimers: the limit of the whole call and the silence guard.
ArmTimers(a) == Touch([a EXCEPT !.timers = @ \cup {"max"}])

\* finalizeCall up to its first await, with `pending' outstanding besides.
Finalise(pending) ==
    /\ IF call.finalized
       THEN todo' = pending /\ UNCHANGED <<call, agent>>
       ELSE /\ call' = [call EXCEPT !.finalized = TRUE]
            /\ agent' = EndAiPath(agent)
            /\ todo' = (pending \ {"safety"}) \cup {"finalise"}

\* hangupCall up to its first await: of a call that is not live, nothing.
HangUp(pending) ==
    IF call.known
    THEN agent' = EndAiPath(agent) /\ todo' = pending \cup {"release"}
    ELSE todo' = pending /\ UNCHANGED agent

\* Mutant of Settle: the dial is not taken out of the pending ones.
StayPending(d) == d

\* settleDial: whoever takes the dial out of pendingDials answers for it.
Settle(d) == [d EXCEPT !.at = "settled"]

\* settleDial, then abandonOutboundDial up to its first await.
Abandon(d, cut) ==
    IF d.at = "parked" THEN [Settle(d) EXCEPT !.leaving = "writing", !.cut = cut] ELSE d

\* A transfer is neither under way nor accomplished.
CanTransfer == call.phase \notin {"requested", "connected"}

\* startTransfer up to its first await.
StartTransfer ==
    IF CanTransfer
    THEN /\ call' = [call EXCEPT !.phase = "requested", !.transfers = @ + 1]
         /\ xfer' = "choosing"
    ELSE UNCHANGED <<call, xfer>>

--------------------------------------------------------------------------------
(* The telephone network and the people.                                   *)

PersonAnswers ==
    /\ net.line = "ringing"
    /\ net' = [net EXCEPT !.line = "stasis", !.events = Append(@, "start")]
    /\ UNCHANGED <<dial, call, agent, setup, xfer, todo, told, mishaps>>

\* Busy, refused, or the ring timeout of the originate request.
RingingEnds ==
    /\ net.line = "ringing"
    /\ net' = Cut(net)
    /\ UNCHANGED <<dial, call, agent, setup, xfer, todo, told, mishaps>>

CallerHangsUp ==
    /\ net.line \in {"stasis", "bridge", "transfer"}
    /\ net' = Cut(net)
    /\ UNCHANGED <<dial, call, agent, setup, xfer, todo, told, mishaps>>

OperatorAnswers ==
    /\ net.operator = "ringing"
    /\ net' = [net EXCEPT !.operator = IF net.line = "transfer" THEN "talking" ELSE "up"]
    /\ UNCHANGED <<dial, call, agent, setup, xfer, todo, told, mishaps>>

\* Dial or Queue in the tenant's dialplan gives up, and hangs the caller up.
NobodyAnswers ==
    /\ net.line = "transfer" /\ net.operator = "ringing"
    /\ net' = Cut(net)
    /\ UNCHANGED <<dial, call, agent, setup, xfer, todo, told, mishaps>>

OperatorHangsUp ==
    /\ net.operator = "talking"
    /\ net.line # "transfer" => call.phase = "connected" \/ "brief_operator" \in mishaps
    /\ net' = IF net.line = "transfer" THEN Cut(net)
              ELSE [net EXCEPT !.operator = "none", !.events = Append(@, "left")]
    /\ UNCHANGED <<dial, call, agent, setup, xfer, todo, told, mishaps>>

LoseEvent ==
    /\ net.events # <<>>
    /\ \/ "lost_event" \in mishaps
       \/ "lost_dial_event" \in mishaps /\ dial.at = "parked"
    /\ net' = [net EXCEPT !.events = Tail(@)]
    /\ UNCHANGED <<dial, call, agent, setup, xfer, todo, told, mishaps>>

--------------------------------------------------------------------------------
(* placeOutboundCall and the end of a dial nobody takes.                   *)

\* The refusals before the call row is written are CampaignDialer's.
PlaceOutboundCall ==
    /\ call.outbound /\ dial.at = "idle"
    /\ dial' = [dial EXCEPT !.at = "parked", !.placing = "originating"]
    /\ UNCHANGED <<net, call, agent, setup, xfer, todo, told, mishaps>>

AsteriskRings ==
    /\ dial.placing = "originating" /\ net.line = "none"
    /\ net' = [net EXCEPT !.line = "ringing"]
    /\ UNCHANGED <<dial, call, agent, setup, xfer, todo, told, mishaps>>

OriginateReturns ==
    /\ dial.placing = "originating" /\ net.line # "none"
    /\ dial' = [dial EXCEPT !.placing = "done"]
    /\ UNCHANGED <<net, call, agent, setup, xfer, todo, told, mishaps>>

\* Refused, or timed out whatever Asterisk made of it.
OriginateFails ==
    /\ dial.placing = "originating" /\ "originate" \in mishaps
    /\ dial' = Abandon([dial EXCEPT !.placing = "done"], FALSE)
    /\ UNCHANGED <<net, call, agent, setup, xfer, todo, told, mishaps>>

\* Twenty seconds after the ring timeout: all that was to come has come.
Watchdog ==
    /\ dial.at = "parked" /\ dial.placing = "done"
    /\ net.line # "ringing" /\ net.events = <<>>
    /\ dial' = Abandon(dial, TRUE)
    /\ UNCHANGED <<net, call, agent, setup, xfer, todo, told, mishaps>>

TellMissed ==
    /\ dial.leaving = "writing"
    /\ told' = Append(told, "missed")
    /\ dial' = [dial EXCEPT !.leaving = IF dial.cut THEN "cutting" ELSE "done"]
    /\ UNCHANGED <<net, call, agent, setup, xfer, todo, mishaps>>

CutStaleDial ==
    /\ dial.leaving = "cutting"
    /\ dial' = [dial EXCEPT !.leaving = "done"]
    /\ net' = Cut(net)
    /\ UNCHANGED <<call, agent, setup, xfer, todo, told, mishaps>>

--------------------------------------------------------------------------------
(* ARI events, in the order Asterisk sent them.                            *)

Arrives(event) == net.events # <<>> /\ Head(net.events) = event

\* Mutant of FindByChannel: a transferred call is left to the dialplan.
FindUntransferred == call.known /\ CanTransfer

\* findByChannel: the call this event belongs to.
FindByChannel == call.known

\* Between settleDial and the entry in `calls' no event finds the call.
Registered == setup = "naming" /\ call.outbound => "early_hangup" \in mishaps

Rest == [net EXCEPT !.events = Tail(@)]

\* claimOutboundDial or beginCall starts, up to its first await.  A person who
\* takes a dial that is no longer parked is hung up.
HandleStasisStart ==
    /\ Arrives("start")
    /\ IF call.known \/ (call.outbound /\ dial.at # "parked")
       THEN /\ net' = IF call.known THEN Rest ELSE Cut(Rest)
            /\ UNCHANGED <<dial, setup>>
       ELSE /\ net' = Rest
            /\ setup' = "naming"
            /\ dial' = IF call.outbound THEN Settle(dial) ELSE dial
    /\ UNCHANGED <<call, agent, xfer, todo, told, mishaps>>

HandleStasisEnd ==
    /\ Arrives("stasisEnd") /\ Registered
    /\ net' = Rest
    /\ IF FindByChannel /\ ~call.handed THEN Finalise(todo) ELSE UNCHANGED <<call, agent, todo>>
    /\ UNCHANGED <<dial, setup, xfer, told, mishaps>>

HandleChannelDestroyed ==
    /\ Arrives("destroyed") /\ Registered
    /\ net' = Rest
    /\ IF dial.at = "parked"
       THEN dial' = Abandon(dial, FALSE) /\ UNCHANGED <<call, agent, todo>>
       ELSE /\ UNCHANGED dial
            /\ IF FindByChannel THEN Finalise(todo) ELSE UNCHANGED <<call, agent, todo>>
    /\ UNCHANGED <<setup, xfer, told, mishaps>>

\* toChannelId is known once the phase is connected.
HandleChannelLeftBridge ==
    /\ Arrives("left")
    /\ net' = Rest
    /\ IF call.phase = "connected" THEN HangUp(todo) ELSE UNCHANGED <<agent, todo>>
    /\ UNCHANGED <<dial, call, setup, xfer, told, mishaps>>

--------------------------------------------------------------------------------
(* Setting the call up: claimOutboundDial/beginCall, launchProvider,       *)
(* handToBridge, runFallbackPath.  None of them asks whether the call is   *)
(* still there.                                                            *)

\* resolveTenantSlug, for an inbound caller after the call row.
Register ==
    /\ setup = "naming"
    /\ call' = [call EXCEPT !.known = TRUE]
    /\ setup' = IF call.outbound THEN "resolving" ELSE "answering"
    /\ UNCHANGED <<net, dial, agent, xfer, todo, told, mishaps>>

\* No tenant or no call row: the channel is released.
CannotAttribute ==
    /\ setup = "naming" /\ ~call.outbound /\ "db" \in mishaps
    /\ setup' = "done"
    /\ net' = Cut(net)
    /\ UNCHANGED <<dial, call, agent, xfer, todo, told, mishaps>>

AnswerChannel ==
    /\ setup = "answering"
    /\ setup' = IF Up(net) THEN "resolving" ELSE "aborting"
    /\ UNCHANGED <<net, dial, call, agent, xfer, todo, told, mishaps>>

ResolveProvider ==
    /\ setup = "resolving"
    /\ \E p \in Providers : agent' = [agent EXCEPT !.provider = p]
    /\ setup' = "recording"
    /\ UNCHANGED <<net, dial, call, xfer, todo, told, mishaps>>

\* createAiSession, then provider.start up to its await.
CreateAiSession ==
    /\ setup = "recording"
    /\ \/ /\ "db" \in mishaps /\ setup' = "aborting" /\ UNCHANGED agent
       \/ /\ agent.provider = "ivr" /\ setup' = "ivr" /\ UNCHANGED agent
       \/ /\ agent.provider = "voice" /\ setup' = "starting"
          /\ agent' = [agent EXCEPT !.session = "opening"]
    /\ UNCHANGED <<net, dial, call, xfer, todo, told, mishaps>>

\* A stop while the socket opens makes start() throw.
StartVoice ==
    /\ setup = "starting"
    /\ \/ /\ agent.session = "opening"
          /\ agent' = Touch([agent EXCEPT !.session = "open"])
          /\ setup' = "handing"
       \/ /\ agent.session = "closed" \/ "start" \in mishaps
          /\ agent' = [agent EXCEPT !.session = "closed"]
          /\ setup' = "degrading"
    /\ UNCHANGED <<net, dial, call, xfer, todo, told, mishaps>>

DegradeToFallback ==
    /\ setup = "degrading"
    /\ agent' = [agent EXCEPT !.provider = "ivr", !.session = "none"]
    /\ setup' = "ivr"
    /\ UNCHANGED <<net, dial, call, xfer, todo, told, mishaps>>

\* The scripted provider, unless it was stopped, will ask for an operator.
RunFallbackPath ==
    /\ setup = "ivr"
    /\ agent' = ArmTimers([agent EXCEPT !.asks = agent.session # "closed"])
    /\ setup' = "done"
    /\ UNCHANGED <<net, dial, call, xfer, todo, told, mishaps>>

\* Mutant of FlagHandover: it is not.
ForgetHandover == call

\* The hand-over is flagged before it is asked for.
FlagHandover == [call EXCEPT !.handed = TRUE]

HandToBridge ==
    /\ setup = "handing"
    /\ IF Up(net)
       THEN setup' = "continuing" /\ call' = FlagHandover
       ELSE setup' = "aborting" /\ UNCHANGED call
    /\ UNCHANGED <<net, dial, agent, xfer, todo, told, mishaps>>

ContinueInDialplan ==
    /\ setup = "continuing"
    /\ IF net.line = "stasis"
       THEN /\ net' = [net EXCEPT !.line = "bridge", !.socket = "dialling",
                                  !.events = Append(@, "stasisEnd")]
            /\ setup' = "continued" /\ UNCHANGED call
       ELSE /\ call' = [call EXCEPT !.handed = FALSE]
            /\ setup' = "aborting" /\ UNCHANGED net
    /\ UNCHANGED <<dial, agent, xfer, todo, told, mishaps>>

HandedOver ==
    /\ setup = "continued"
    /\ agent' = ArmTimers(agent)
    /\ setup' = "done"
    /\ UNCHANGED <<net, dial, call, xfer, todo, told, mishaps>>

AbortCall ==
    /\ setup = "aborting"
    /\ net' = Cut(net)
    /\ Finalise(todo)
    /\ setup' = "done"
    /\ UNCHANGED <<dial, xfer, told, mishaps>>

--------------------------------------------------------------------------------
(* The AudioSocket connection.                                             *)

AttachAudioSocket ==
    /\ net.socket = "dialling" /\ net.line = "bridge"
    /\ IF call.known
       THEN net' = [net EXCEPT !.socket = "open"] /\ agent' = Touch(agent)
       ELSE net' = Cut([net EXCEPT !.socket = "over"]) /\ UNCHANGED agent
    /\ UNCHANGED <<dial, call, setup, xfer, todo, told, mishaps>>

HandleAudioSocketEnd ==
    /\ net.socket = "ended"
    /\ net' = [net EXCEPT !.socket = "over"]
    /\ IF CanTransfer
       THEN Finalise(todo)
       ELSE agent' = EndAiPath(agent) /\ UNCHANGED <<call, todo>>
    /\ UNCHANGED <<dial, setup, xfer, told, mishaps>>

--------------------------------------------------------------------------------
(* The agent's session, its tools, the person's keys and the supervisor.   *)

\* The model hears the caller, or has not yet been told that they left.  Bound: a
\* session that outlives its call says nothing more.
Conversing == agent.session = "open" /\ ~agent.closed /\ net.socket \in {"open", "ended"}

HandleProviderClose ==
    /\ Conversing /\ ~call.finalized /\ "voice_drop" \in mishaps
    /\ IF CanTransfer
       THEN HangUp(todo)
       ELSE agent' = EndAiPath(agent) /\ UNCHANGED todo
    /\ UNCHANGED <<net, dial, call, setup, xfer, told, mishaps>>

\* announceBeforeAction: a sentence, and the wait for its end.
ToolTransferToHuman ==
    /\ Conversing /\ call.transfers < MaxTransfers
    /\ agent' = Touch(agent)
    /\ todo' = todo \cup {"announce"}
    /\ UNCHANGED <<net, dial, call, setup, xfer, told, mishaps>>

TransferAnnounced ==
    /\ "announce" \in todo
    /\ todo' = todo \ {"announce"}
    /\ IF call.transfers < MaxTransfers THEN StartTransfer ELSE UNCHANGED <<call, xfer>>
    /\ UNCHANGED <<net, dial, agent, setup, told, mishaps>>

ToolEndCall ==
    /\ Conversing
    /\ agent' = Touch(agent)
    /\ todo' = todo \cup {"farewell"}
    /\ UNCHANGED <<net, dial, call, setup, xfer, told, mishaps>>

Tell(outcome) ==
    /\ call' = [call EXCEPT !.reported = outcome]
    /\ told' = Append(told, outcome)

\* A second outcome is ignored, a refusal of further calls is not.  Once the
\* outcome is noted in the call, only notes are written before it is told.
ToolRecordCallOutcome ==
    /\ Conversing /\ call.outbound
    /\ \/ call.reported = "none" /\ Tell("answered") /\ UNCHANGED todo
       \/ /\ call.reported # "optOut"                  \* bound: one refusal in a call
          /\ todo' = todo \cup {"storing"} /\ UNCHANGED <<call, told>>
    /\ agent' = Touch(agent)
    /\ UNCHANGED <<net, dial, setup, xfer, mishaps>>

OptOutStored ==
    /\ "storing" \in todo
    /\ todo' = todo \ {"storing"}
    /\ Tell("optOut")
    /\ UNCHANGED <<net, dial, agent, setup, xfer, mishaps>>

HandleDtmf ==
    /\ net.socket = "open"
    /\ call.phase = "none" /\ call.transfers < MaxTransfers
    /\ agent' = Touch(agent)
    /\ StartTransfer
    /\ UNCHANGED <<net, dial, setup, todo, told, mishaps>>

\* The scripted provider asks once; it has no AudioSocket to announce on.
IvrRequestsTransfer ==
    /\ agent.asks
    /\ agent' = Touch([agent EXCEPT !.asks = FALSE])
    /\ IF call.transfers < MaxTransfers THEN StartTransfer ELSE UNCHANGED <<call, xfer>>
    /\ UNCHANGED <<net, dial, setup, todo, told, mishaps>>

SupervisorHangsUp ==
    /\ "hangup" \in Operations /\ call.known
    /\ ~call.finalized /\ todo \cap {"release", "safety"} = {}     \* bound: one hang-up
    /\ HangUp(todo)
    /\ UNCHANGED <<net, dial, call, setup, xfer, told, mishaps>>

\* Bound: not while the call is being set up.
SupervisorTransfers ==
    /\ "transfer" \in Operations /\ call.known /\ setup = "done"
    /\ call.transfers < MaxTransfers
    /\ StartTransfer
    /\ UNCHANGED <<net, dial, agent, setup, todo, told, mishaps>>

--------------------------------------------------------------------------------
(* The guard timers, and the ways a call is ended.                         *)

\* endForLimit up to its first await.  A model that has gone deaf ends the call as
\* silence does.
GuardFires(timer) ==
    /\ timer \in agent.timers
    /\ agent' = [agent EXCEPT !.timers = @ \ {timer}]
    /\ todo' = IF agent.closed \/ call.finalized \/ call.phase = "connected"
               THEN todo ELSE todo \cup {"farewell"}
    /\ UNCHANGED <<net, dial, call, setup, xfer, told, mishaps>>

\* endForLimit or end_call, once the words have been spoken.
Farewell ==
    /\ "farewell" \in todo
    /\ HangUp(todo \ {"farewell"})
    /\ UNCHANGED <<net, dial, call, setup, xfer, told, mishaps>>

\* The rest of hangupCall: it reaches the channel wherever that is.
Release ==
    /\ "release" \in todo
    /\ todo' = (todo \ {"release"}) \cup {"safety"}
    /\ net' = Cut(net)
    /\ UNCHANGED <<dial, call, agent, setup, xfer, told, mishaps>>

FinalizeSafety ==
    /\ "safety" \in todo
    /\ IF call.known
       THEN Finalise(todo \ {"safety"})
       ELSE todo' = todo \ {"safety"} /\ UNCHANGED <<call, agent>>
    /\ UNCHANGED <<net, dial, setup, xfer, told, mishaps>>

\* finalizeCall after markCallEnded: reportOutboundTeardown, then `calls'.
FinalizeReports ==
    /\ "finalise" \in todo
    /\ todo' = todo \ {"finalise"}
    /\ IF call.outbound /\ call.reported = "none"
       THEN /\ call' = [call EXCEPT !.reported = "answered", !.known = FALSE]
            /\ told' = Append(told, "answered")
       ELSE call' = [call EXCEPT !.known = FALSE] /\ UNCHANGED told
    /\ UNCHANGED <<net, dial, agent, setup, xfer, mishaps>>

--------------------------------------------------------------------------------
(* A transfer: startTransfer, transferToHuman and its three strategies.    *)

Fail(caller) ==
    /\ call' = [call EXCEPT !.phase = "failed"]
    /\ xfer' = "idle"
    /\ todo' = todo \cup {caller}

\* Where the channel is decides the strategy.
ChooseTarget ==
    /\ xfer = "choosing"
    /\ \/ "no_operator" \in mishaps /\ Fail("retained")
       \/ "db" \in mishaps /\ xfer' = "idle" /\ UNCHANGED <<call, todo>>
       \/ ~Up(net) /\ Fail("lost")
       \/ /\ Up(net)
          /\ xfer' = IF net.line = "stasis" THEN "bridging" ELSE "redirecting"
          /\ UNCHANGED <<call, todo>>
    /\ UNCHANGED <<net, dial, agent, setup, told, mishaps>>

\* transferViaAriBridge: the caller into a bridge, then the operator's leg.
OriginateOperatorLeg ==
    /\ xfer = "bridging"
    /\ \/ /\ net.line = "stasis"
          /\ net' = [net EXCEPT !.operator = "ringing"]
          /\ xfer' = "ringing" /\ UNCHANGED <<call, todo>>
       \/ (net.line # "stasis" \/ "leg" \in mishaps) /\ Fail("retained") /\ UNCHANGED net
    /\ UNCHANGED <<dial, agent, setup, told, mishaps>>

JoinOperator ==
    /\ xfer = "ringing" /\ net.operator = "up"
    /\ net' = [net EXCEPT !.operator = "talking"]
    /\ xfer' = "joined"
    /\ UNCHANGED <<dial, call, agent, setup, todo, told, mishaps>>

OperatorDoesNotAnswer ==
    /\ xfer = "ringing" /\ net.operator = "ringing"
    /\ net' = [net EXCEPT !.operator = "none"]
    /\ Fail("retained")
    /\ UNCHANGED <<dial, agent, setup, told, mishaps>>

\* transferViaAmiRedirect and transferViaQueue: the dialplan takes the caller,
\* and the AudioSocket connection ends.
Redirect ==
    /\ xfer = "redirecting"
    /\ \/ /\ net.line \in {"bridge", "transfer"}
          /\ net' = [net EXCEPT !.line = "transfer", !.operator = "ringing",
                                !.socket = CASE @ = "open" -> "ended"
                                             [] @ = "dialling" -> "over"
                                             [] OTHER -> @]
          /\ xfer' = "waiting" /\ UNCHANGED <<call, todo>>
       \/ (~Up(net) \/ "leg" \in mishaps) /\ Fail("retained") /\ UNCHANGED net
    /\ UNCHANGED <<dial, agent, setup, told, mishaps>>

\* Mutant of OperatorIsUp: a leg that rings counts too.
OperatorIsThere == net.operator # "none"

\* waitForOperatorLegByName, waitForAnyOperatorLeg.  The second takes any leg of
\* the tenant that is up for the one that answered.
OperatorIsUp == net.operator = "talking" \/ "colleague" \in mishaps

WaitForOperator ==
    /\ xfer = "waiting"
    /\ \/ /\ Up(net) /\ OperatorIsUp
          /\ xfer' = "joined" /\ UNCHANGED <<call, todo>>
       \/ (~Up(net) \/ "poll" \in mishaps) /\ Fail("lost")
       \/ net.operator = "ringing" /\ net.socket # "ended" /\ Fail("lost")
    /\ UNCHANGED <<net, dial, agent, setup, told, mishaps>>

\* completeTransfer up to its first await, and from its last.
TransferConnected ==
    /\ xfer = "joined"
    /\ call' = [call EXCEPT !.phase = "connected"]
    /\ agent' = [agent EXCEPT !.timers = {}]
    /\ xfer' = "completing"
    /\ UNCHANGED <<net, dial, setup, todo, told, mishaps>>

TransferCompleted ==
    /\ xfer = "completing"
    /\ agent' = EndAiPath(agent)
    /\ xfer' = "idle"
    /\ UNCHANGED <<net, dial, call, setup, todo, told, mishaps>>

\* failTransfer from its await: no model is left, or the agent goes on.
TransferFailed ==
    /\ \/ /\ "lost" \in todo
          /\ agent' = EndAiPath(agent)
          /\ todo' = todo \ {"lost"}
       \/ /\ "retained" \in todo /\ agent.provider = "ivr"
          /\ HangUp(todo \ {"retained"})
       \/ /\ "retained" \in todo /\ agent.provider # "ivr"
          /\ agent' = ArmTimers(agent)
          /\ todo' = todo \ {"retained"}
    /\ UNCHANGED <<net, dial, call, setup, xfer, told, mishaps>>

--------------------------------------------------------------------------------

\* People, the model, and what befalls the system: none of it need happen.
Environment ==
    \/ PersonAnswers \/ CallerHangsUp \/ OperatorAnswers \/ OperatorHangsUp \/ LoseEvent
    \/ HandleProviderClose \/ ToolTransferToHuman \/ ToolEndCall \/ ToolRecordCallOutcome
    \/ HandleDtmf \/ SupervisorHangsUp \/ SupervisorTransfers
    \/ PlaceOutboundCall \/ GuardFires("silence")

\* What the process, its timers and Asterisk do sooner or later.
Setup ==
    \/ Register \/ CannotAttribute \/ AnswerChannel \/ ResolveProvider \/ CreateAiSession
    \/ StartVoice \/ DegradeToFallback \/ RunFallbackPath \/ HandToBridge
    \/ ContinueInDialplan \/ HandedOver \/ AbortCall

Transfer ==
    \/ ChooseTarget \/ OriginateOperatorLeg \/ JoinOperator
    \/ OperatorDoesNotAnswer \/ Redirect \/ WaitForOperator \/ TransferConnected
    \/ TransferCompleted \/ TransferFailed

System ==
    \/ RingingEnds \/ NobodyAnswers
    \/ AsteriskRings \/ OriginateReturns \/ OriginateFails
    \/ Watchdog \/ TellMissed \/ CutStaleDial
    \/ HandleStasisStart \/ HandleStasisEnd \/ HandleChannelDestroyed
    \/ HandleChannelLeftBridge
    \/ Setup
    \/ AttachAudioSocket \/ HandleAudioSocketEnd
    \/ TransferAnnounced \/ OptOutStored \/ IvrRequestsTransfer
    \/ GuardFires("max")
    \/ Farewell \/ Release \/ FinalizeSafety \/ FinalizeReports
    \/ Transfer

Next == Environment \/ System

Spec == Init /\ [][Next]_vars

\* Nothing the process has begun is abandoned, and no operator talks for ever.
FairSpec == Spec /\ WF_vars(System) /\ WF_vars(OperatorHangsUp)

--------------------------------------------------------------------------------

\* A call is finalised, and its row closed, only when the caller is gone: a
\* hand-over to the bridge or to an operator is never read as the end of the
\* call (handToBridge, handleStasisEnd, handleAudioSocketEnd).
FinalizedMeansOver == call.finalized => net.line = "gone"

\* While the caller is in the transfer dialplan, a transfer that is recorded as
\* connected has an operator who speaks (waitForAnyOperatorLeg, completeTransfer).
ConnectedMeansSpeaking ==
    call.phase = "connected" /\ net.line = "transfer" => net.operator = "talking"

\* Every dial gets its verdict, "missed" excludes every other one, and nothing is
\* told of a dial that was not placed (settleDial, reportOutboundTeardown).
Verdict == INSTANCE DialVerdict WITH placed <- dial.at # "idle", told <- told
VerdictSpec == Verdict!Spec

\* The record of a caller who is gone is finalised and forgotten (hangupCall,
\* armFinalizeSafety, finalizeCall).
CallsAreClosed == (net.line = "gone" /\ call.known) ~> ~call.known

\* Nobody stays for ever with the agent, or with nobody: a guard timer, a
\* transfer or a release ends it (armTimers, endForLimit, failTransfer).
NoEndlessCall ==
    LET Alone == net.line \in {"stasis", "bridge"} /\ net.operator # "talking"
    IN Alone ~> ~Alone

\* Who speaks with an operator is not hung up by what the platform had begun for the
\* agent (completeTransfer; for instances in which the supervisor leaves the call).
HandoverIsKept ==
    [][call.phase = "connected" /\ net.operator = "talking" /\ "release" \notin todo
         => "release" \notin todo']_vars
================================================================================
