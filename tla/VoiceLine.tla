-------------------------------- MODULE VoiceLine ------------------------------
(***************************************************************************)
(* The voice of one call: the Realtime provider (RealtimeProvider), the    *)
(* speech server at the other end of its WebSocket, the queue of audio     *)
(* that plays to the caller (PlayoutQueue), and the part of the call       *)
(* orchestrator that stands between them: it opens the session, passes the *)
(* model's audio on, silences it when the caller interrupts, runs tools,   *)
(* and says goodbye before it hangs up.                                    *)
(*                                                                         *)
(* The provider's handlers run to completion, and what they send and whom  *)
(* they call is settled in the same step (Apply).  The server is external: *)
(* it takes what is sent at once and answers through `inbox', which the    *)
(* provider reads in order and arbitrarily late, so every order in which   *)
(* the provider can see its events is there.                               *)
(***************************************************************************)
EXTENDS RealtimeProvider, PlayoutQueue, FiniteSets

CONSTANTS
    Mishaps,      \* what may go wrong, see Mishap
    MaxLines,     \* lines the platform speaks through the model before its farewell
    MaxNoise,     \* times the caller is heard
    MaxDrops,     \* times a socket is lost
    MaxDeltas,    \* audio events of one response
    MaxInFlight   \* events on their way when the server adds another

Mishap == {"terminal",   \* the account may not use the API
           "complaint",  \* a session field is refused
           "no_echo",    \* session.updated never comes
           "refuse",     \* a response.create fails for a reason of the server's own
           "hang",       \* a handshake outlasts connectTimeoutMs
           "late_grace", \* a grace timer outlives its socket
           "slow",       \* the server is slower than the provider's timers
           "swift",      \* a response is over before its response.created arrives
           "vendor",     \* ElevenLabs is configured: fixed lines come from the cache
           "long_noise", \* the caller is heard for longer than BARGE_IN_RECOVERY_MS
           "long_goodbye", \* the farewell outlasts its budget
           "guard",      \* a guard timer ends the call
           "caller"}     \* the caller hangs up, at any time

EndCall == "end_call"    \* the tool of toolEndCall
Vendor == 0              \* the "response" a fixed line belongs to

ASSUME WaiterAssumption == "farewell" \in Waiters

VARIABLES
    p,      \* the provider
    net,    \* the server's end of the current socket, and events on their way
    line,   \* the AudioSocket session's queue
    call,   \* ActiveCall: what it knows of its voice
    told    \* history: the calls of the handlers the contract is about

vars == <<p, net, line, call, told>>

NewNet(made) == [active |-> 0, made |-> made, wants |-> 0, owes |-> FALSE,
                 collided |-> FALSE, unanswered |-> {}, hearing |-> FALSE, deltas |-> 0,
                 inbox |-> <<>>]

NewCall == [attached |-> FALSE, closing |-> FALSE, farewell |-> "none", over |-> FALSE,
            running |-> {}, asked |-> {}, silenced |-> {}, lines |-> 0, noise |-> 0,
            drops |-> 0]

Init ==
    /\ p = NewProvider
    /\ net = NewNet(0)
    /\ line = NewSession
    /\ call = NewCall
    /\ told = [ready |-> 0, close |-> 0, stray |-> FALSE]

-------------------------------------------------------------------------------
(***************************************************************************)
(* What a step of the provider causes.                                     *)
(***************************************************************************)

Push(n, event) == [n EXCEPT !.inbox = Append(@, event)]

\* A response.create meets a response that is running.
Collide(n) == Push([n EXCEPT !.collided = TRUE], [type |-> "conflict"])

NewResponse(n) ==
    LET r == n.made + 1
        begun == Push([n EXCEPT !.active = r, !.made = r, !.deltas = 0, !.unanswered = {}],
                      [type |-> "response.created", response |-> r])
    IN  IF n.wants > 0 THEN Collide([begun EXCEPT !.wants = 0]) ELSE begun

EndResponse(n) ==
    Push([n EXCEPT !.active = 0], [type |-> "response.done", response |-> n.active])

\* The server takes a message.  A response.cancel that comes too late earns an
\* error the provider ignores (isBenignCancelRace).
NetTakes(n, m) ==
    CASE m.type = "session.update" -> [n EXCEPT !.owes = TRUE]
      [] m.type = "response.create" ->
             IF n.active # 0 THEN Collide(n) ELSE [n EXCEPT !.wants = @ + 1]
      [] m.type = "response.cancel" -> IF n.active = m.response THEN EndResponse(n) ELSE n
      [] m.type = "result" -> [n EXCEPT !.unanswered = @ \cup {m.tool}]

\* buildProviderHandlers: a handler of the call runs.  `current' is the response
\* being spoken when an interruption is reported.
CallTakes(x, c, current) ==
    CASE c.type = "audio" /\ x.call.attached ->
             [x EXCEPT !.line = SendAudio(@, <<c.response>>)]
      [] c.type = "interruption" /\ ~x.call.closing ->
             [line |-> Discard(x.line),
              call |-> [x.call EXCEPT !.silenced =
                  @ \cup (({current} \cup UNION {Range(f) : f \in Range(x.line.frames)})
                          \ {0})]]
      [] c.type = "tool" -> [x EXCEPT !.call.running = @ \cup {c.tool}]
      [] OTHER -> x

CallTakesAll(x, calls, current) ==
    FoldLeft(LAMBDA y, c : CallTakes(y, c, current), x, calls)

Listening(s) == s.promise \in {"awaited", "kept"} /\ ~s.closeEmitted

Count(calls, type) == Cardinality({i \in DOMAIN calls : calls[i].type = type})

\* The provider becomes s, the rest of the world having become n, l and c.
Apply(s, n, l, c) ==
    LET world == CallTakesAll([line |-> l, call |-> c], s.calls, p.active)
    IN  /\ p' = [s EXCEPT !.out = <<>>, !.calls = <<>>]
        /\ net' = IF s.socket # p.socket THEN NewNet(net.made)
                  ELSE FoldLeft(NetTakes, n, s.out)
        /\ line' = world.line
        /\ call' = world.call
        /\ told' = [ready |-> told.ready + Count(s.calls, "ready"),
                    close |-> told.close + Count(s.calls, "close"),
                    stray |-> \/ told.stray
                              \/ s.calls # <<>> /\ (~Listening(p) \/ told.close > 0)
                              \/ \E i, j \in DOMAIN s.calls :
                                     i < j /\ s.calls[i].type = "close"]

Step(s) == Apply(s, net, line, call)

-------------------------------------------------------------------------------
(***************************************************************************)
(* The socket and the server.                                              *)
(***************************************************************************)

ServerOnly(n) == net' = n /\ UNCHANGED <<p, line, call, told>>

Serving ==
    /\ p.wire = "open" /\ Len(net.inbox) < MaxInFlight
    /\ \A i \in DOMAIN net.inbox : net.inbox[i].type # "terminal"

SocketOpens ==
    /\ p.wire = "dialling"
    /\ Apply(SendSessionUpdate([p EXCEPT !.wire = "open"]),
             Push(net, [type |-> "session.created"]), line, call)

\* The peer goes away, or never was there: readyState changes at once, the close
\* event follows what was received before it.
SocketLost(normal) ==
    /\ p.wire \in {"dialling", "open"}
    /\ call.drops < MaxDrops
    /\ p' = [p EXCEPT !.wire = "closing"]
    /\ net' = Push(net, [type |-> "close", normal |-> normal])
    /\ call' = [call EXCEPT !.drops = @ + 1]
    /\ UNCHANGED <<line, told>>

ServerEchoes ==
    /\ Serving /\ net.owes
    /\ \/ ServerOnly(Push([net EXCEPT !.owes = FALSE], [type |-> "session.updated"]))
       \/ /\ "complaint" \in Mishaps
          /\ ServerOnly(Push([net EXCEPT !.owes = FALSE], [type |-> "complaint"]))
       \/ /\ "no_echo" \in Mishaps
          /\ ServerOnly([net EXCEPT !.owes = FALSE])

AccountRefused ==
    /\ "terminal" \in Mishaps
    /\ Serving /\ ~p.terminal
    /\ ServerOnly(Push(net, [type |-> "terminal"]))

\* A response.create is granted, or fails.
ServerAnswers ==
    /\ Serving /\ net.wants > 0
    /\ \/ ServerOnly(NewResponse([net EXCEPT !.wants = @ - 1]))
       \/ /\ "refuse" \in Mishaps
          /\ ServerOnly(Push([net EXCEPT !.wants = @ - 1], [type |-> "error"]))

ServerSpeaks ==
    /\ Serving /\ net.active # 0 /\ net.deltas < MaxDeltas
    /\ ServerOnly(Push([net EXCEPT !.deltas = @ + 1],
                       [type |-> "audio", response |-> net.active]))

ServerCallsTool ==
    /\ Serving /\ net.active # 0
    /\ \E t \in Tools \ call.asked :
          /\ net' = Push(net, [type |-> "tool", tool |-> t])
          /\ call' = [call EXCEPT !.asked = @ \cup {t}]
    /\ UNCHANGED <<p, line, told>>

InFlight(type) == \E i \in DOMAIN net.inbox : net.inbox[i].type = type

\* Without "swift" a response lasts longer than an event travels.
Endable == net.active # 0 /\ ("swift" \in Mishaps \/ ~InFlight("response.created"))

ServerFinishes == Serving /\ Endable /\ ServerOnly(EndResponse(net))

\* The server hears the caller begin; interrupt_response makes it end the response
\* of itself.
CallerHeard ==
    /\ Serving /\ p.ready /\ ~net.hearing /\ call.noise < MaxNoise
    /\ LET heard == Push([net EXCEPT !.hearing = TRUE], [type |-> "speech_started"])
       IN  net' = IF Endable THEN EndResponse(heard) ELSE heard
    /\ call' = [call EXCEPT !.noise = @ + 1]
    /\ UNCHANGED <<p, line, told>>

\* ... and fall silent.  server_vad answers every turn, semantic_vad only those it
\* takes for complete; neither while a response is running.
CallerQuiet ==
    /\ Serving /\ net.hearing
    /\ LET quiet == Push([net EXCEPT !.hearing = FALSE], [type |-> "speech_stopped"])
       IN  \/ net.active = 0 /\ ServerOnly(NewResponse(quiet))
           \/ (net.active # 0 \/ SemanticVad) /\ ServerOnly(quiet)

-------------------------------------------------------------------------------
(***************************************************************************)
(* The provider's event loop.                                              *)
(***************************************************************************)

\* socket.onmessage and socket.onclose
Handle(e) ==
    CASE e.type = "session.created" -> HandleSessionCreated(p)
      [] e.type = "session.updated" -> MarkReady(p, p.socket)
      [] e.type = "speech_started" -> HandleSpeechStarted(p)
      [] e.type = "speech_stopped" -> HandleSpeechStopped(p)
      [] e.type = "response.created" -> HandleResponseCreated(p, e.response)
      [] e.type = "response.done" -> HandleResponseDone(p, e.response)
      [] e.type = "audio" -> HandleAudioDelta(p, e.response)
      [] e.type = "tool" -> HandleFunctionCall(p, e.tool)
      [] e.type = "conflict" -> HandleConflict(p)
      [] e.type = "terminal" -> HandleTerminalError(p)
      [] e.type = "complaint" -> HandleComplaint(p)
      [] e.type = "error" -> HandleOtherError(p)
      [] e.type = "close" -> HandleClose(p, e.normal)

HandleNext ==
    /\ p.socket # 0 /\ net.inbox # <<>>
    /\ Apply(Handle(Head(net.inbox)), [net EXCEPT !.inbox = Tail(@)], line, call)

\* A timer of the provider fires.  Without "slow", the server answers a request
\* within PENDING_RESPONSE_TIMEOUT_MS; without "late_grace", no socket is given up
\* within readyGraceMs of its session.created, or the call is over by then.
AttemptTimesOut ==
    /\ p.pending # 0
    /\ "hang" \in Mishaps \/ p.stopped
    /\ "late_grace" \in Mishaps \/ "ready" \notin p.timers
    /\ Step(AttemptTimeout(p))

GraceFires ==
    /\ "ready" \in p.timers
    /\ "late_grace" \in Mishaps \/ p.readyFor = p.socket
    /\ Step(ReadyGrace(p))

ReconnectFires == "reconnect" \in p.timers /\ Step(ReconnectTimer(p))

ResponseFires ==
    /\ "response" \in p.timers
    /\ "slow" \in Mishaps \/ ~(net.wants > 0 \/ InFlight("response.created"))
    /\ Step(ResponseTimer(p))

FillerFires == "filler" \in p.timers /\ Step(FillerTimer(p))

RecoveryFires ==
    /\ "recovery" \in p.timers
    /\ "long_noise" \in Mishaps \/ ~p.callerSpeaking
    /\ Step(RecoveryTimer(p))

\* playbackHorizonMs passes: the model's audio has played out.
HorizonPasses ==
    /\ p.audible
    /\ \A i \in DOMAIN line.frames : Range(line.frames[i]) = {Vendor}
    /\ Step([p EXCEPT !.audible = FALSE])

-------------------------------------------------------------------------------
(***************************************************************************)
(* The call.                                                               *)
(***************************************************************************)

\* launchProvider
Launch == p.promise = "none" /\ Step(StartSession(p))

\* handleAudioSocketSession: Asterisk has dialled in.
Attach ==
    /\ p.promise = "kept" /\ ~call.attached /\ ~call.over
    /\ call' = [call EXCEPT !.attached = TRUE]
    /\ UNCHANGED <<p, net, line, told>>

Talking == call.attached /\ ~call.over

\* speakFixedLine, when it speaks
FixedLine(l) == FlushTail(SendAudio(l, <<Vendor>>), Vendor)

\* maybeSpeakGreeting and speakStallRecovery: a line of the platform's
SayLine ==
    /\ Talking /\ ~call.closing /\ call.lines < MaxLines
    /\ LET counted == [call EXCEPT !.lines = @ + 1]
       IN  IF "vendor" \in Mishaps
           THEN line' = FixedLine(line) /\ call' = counted /\ UNCHANGED <<p, net, told>>
           ELSE Apply(Say(p), net, line, counted)

\* handleToolCall returns.
ToolReturns ==
    \E t \in call.running \ {EndCall} :
        Apply(SendToolResult(p, t), net, line, [call EXCEPT !.running = @ \ {t}])

Closing(c) == [c EXCEPT !.closing = TRUE, !.running = @ \ {EndCall}, !.farewell = "asked"]

\* toolEndCall and announceBeforeAction, up to the wait: the platform says goodbye
\* when the model has nothing left in the queue.
EndCallTool ==
    /\ EndCall \in call.running
    /\ LET deaf == IF Talking THEN SuppressBargeIn(p) ELSE p
           spoken == Talking /\ line.frames = <<>>
           told_off == IF spoken /\ "vendor" \notin Mishaps THEN Say(deaf) ELSE deaf
       IN  Apply(SendToolResult(told_off, EndCall), net,
                 IF spoken /\ "vendor" \in Mishaps THEN FixedLine(line) ELSE line,
                 Closing(call))

\* endForLimit, up to the wait
GuardGoodbye ==
    /\ "guard" \in Mishaps
    /\ Talking /\ ~call.closing
    /\ Apply(Say(p), net, line, Closing(call))

\* waitForAgentAudioToFinish: audio has AGENT_AUDIO_START_WAIT_MS to show up.
Silent ==
    /\ p.active = 0 /\ net.active = 0 /\ net.wants = 0 /\ net.inbox = <<>>
    /\ ~p.queued

AwaitFarewell ==
    /\ call.farewell = "asked"
    /\ line.frames # <<>> \/ Silent \/ "slow" \in Mishaps
    /\ line' = WaitForDrain(line, "farewell")
    /\ call' = [call EXCEPT !.farewell = "draining"]
    /\ UNCHANGED <<p, net, told>>

\* The budget of the wait (END_CALL_MAX_WAIT_MS)
FarewellTimesOut ==
    /\ "farewell" \in line.waiting
    /\ "long_goodbye" \in Mishaps
    /\ line' = DrainTimeout(line, "farewell")
    /\ UNCHANGED <<p, net, call, told>>

\* The call is over: teardown stops the provider and closes the session.
Over == Apply(StopSession(p), net, MarkClosed(line), [call EXCEPT !.over = TRUE])

HangUp ==
    /\ ~call.over
    /\ \/ call.farewell = "draining" /\ line.answer["farewell"] # "none"
       \/ told.close > 0                            \* handleProviderClose
       \/ p.promise = "broken"                      \* degradeToFallback takes over
    /\ Over

CallerLeaves == "caller" \in Mishaps /\ p.promise # "none" /\ ~call.over /\ Over

\* A slot of the pacer
PlayFrame ==
    /\ line.frames # <<>>
    /\ line' = EmitOneFrame(line)
    /\ UNCHANGED <<p, net, call, told>>

Timer == \/ AttemptTimesOut \/ GraceFires \/ ReconnectFires \/ ResponseFires
         \/ FillerFires \/ RecoveryFires \/ HorizonPasses

Server == \/ ServerEchoes \/ AccountRefused \/ ServerAnswers \/ ServerSpeaks
          \/ ServerCallsTool \/ ServerFinishes \/ CallerHeard \/ CallerQuiet

Orchestrator == \/ Launch \/ Attach \/ SayLine \/ ToolReturns \/ EndCallTool
                \/ GuardGoodbye \/ AwaitFarewell \/ FarewellTimesOut \/ HangUp
                \/ CallerLeaves \/ PlayFrame

Next == \/ SocketOpens
        \/ \E normal \in BOOLEAN : SocketLost(normal)
        \/ Server \/ HandleNext \/ Timer \/ Orchestrator

Spec == Init /\ [][Next]_vars

(***************************************************************************)
(* Fairness.  The event loop runs the handlers whose event has come and    *)
(* the timers that have passed; promises settled are continued; the        *)
(* pacer's slots come round.  The server reads what it is sent, ends what  *)
(* it says and answers a handshake, or the attempt's own timer does; tools *)
(* return (their statements have timeouts of their own); nobody speaks for *)
(* ever.                                                                   *)
(***************************************************************************)
Fairness ==
    /\ WF_vars(HandleNext)
    /\ WF_vars(SocketOpens \/ ServerEchoes \/ ServerAnswers \/ ServerFinishes \/ CallerQuiet)
    /\ WF_vars(AttemptTimesOut \/ GraceFires \/ ReconnectFires \/ ResponseFires
               \/ RecoveryFires)
    /\ WF_vars(Launch \/ ToolReturns \/ EndCallTool \/ AwaitFarewell \/ HangUp \/ PlayFrame)

FairSpec == Spec /\ Fairness

-------------------------------------------------------------------------------
(***************************************************************************)
(* Properties.                                                             *)
(***************************************************************************)

Events == {"session.created", "session.updated", "speech_started", "speech_stopped",
           "response.created", "response.done", "audio", "tool", "conflict", "terminal",
           "complaint", "error", "close"}

\* The objects keep their shape, nothing is left over of a finished step, no event
\* is about a response that was never made, and the queue is never over its limit.
TypeOK ==
    /\ p.promise \in Promises /\ p.wire \in Wires /\ p.timers \subseteq Timers
    /\ p.socket \in {0, p.opened} /\ p.pending \in {0, p.opened}
    /\ p.active \in 0..net.made /\ p.lastAudio \in 0..net.made
    /\ p.cancelled \subseteq 1..net.made /\ p.results \subseteq Tools
    /\ p.tool \in {"none", "running", "acknowledged"}
    /\ p.lines \in 0..MaxPendingSayLines /\ p.attempts \in 0..MaxReconnectAttempts
    /\ p.out = <<>> /\ p.calls = <<>>
    /\ net.active \in {0, net.made}
    /\ \A i \in DOMAIN net.inbox : net.inbox[i].type \in Events
    /\ line \in [frames : Seq([1..FrameUnits -> 0..net.made]), tail : Seq(0..net.made),
                 closed : BOOLEAN, waiting : SUBSET Waiters,
                 answer : [Waiters -> {"none", "drained", "cut"}]]
    /\ Len(line.frames) <= MaxQueuedFrames /\ Len(line.tail) < FrameUnits

\* What the caller has interrupted is never heard again: whatever was playing, or
\* still on its way from the server, when the interruption was acted upon, no frame
\* of it is put into the queue afterwards (onInterruption, abandonCurrentResponse,
\* handleOutputAudioDelta).
SilencedStaysSilent ==
    \A i \in DOMAIN line.frames : Range(line.frames[i]) \cap call.silenced = {}

\* Two response.create events do not cross (requestResponse, flushPendingResponse):
\* the server holds at most one request of ours, as long as none has collided with
\* a response the server began of itself, which handleErrorEvent allows for.
OneRequestAtATime == net.wants <= 1 \/ net.collided

\* A turn that waits for the channel is not forgotten: its timer runs, or the
\* response it waits for is known to be running and its response.done will come.
QueuedTurnHasAKey ==
    p.queued /\ ~p.closeEmitted =>
        \/ "response" \in p.timers
        \/ p.active # 0 /\ (\/ net.active = p.active
                            \/ p.wire = "closing"
                            \/ \E i \in DOMAIN net.inbox :
                                  net.inbox[i] = [type |-> "response.done",
                                                  response |-> p.active])

\* A session that calls itself ready has a socket: lines are not spoken into the
\* void, and the next session.updated finds something to make ready.
ReadyMeansConnected == p.ready => p.socket # 0

\* The provider keeps the contract the orchestrator is written against.
Contract == INSTANCE VoiceProvider WITH
    phase <- IF told.close > 0 THEN "closed"
             ELSE [none |-> "new", awaited |-> "opening", kept |-> "live",
                   broken |-> "failed"][p.promise],
    announced <- told.ready, closings <- told.close, stray <- told.stray
ContractSpec == Contract!Spec

\* When the provider hears the caller, the caller is heard: unless the call is
\* closing, nothing is left in the queue to talk over them (handleSpeechStarted,
\* onInterruption).
BargeInSilencesTheLine ==
    [][HandleNext /\ Head(net.inbox).type = "speech_started" /\ ~call.closing
       => line'.frames = <<>>]_vars

\* "The farewell is not interruptible": while the call is closing, no response is
\* abandoned (onInterruption, announceBeforeAction, suppressBargeIn).
FarewellUninterrupted ==
    [][call.closing /\ ~call'.over => p'.cancelled = p.cancelled]_vars

\* The result of a tool is answered: the model speaks again, or the call is over.
\* It is never left to the caller to break the silence (requestResponse,
\* flushPendingResponse, armBargeInRecovery).
ResultsAreAnswered == (net.unanswered # {}) ~> (net.unanswered = {} \/ call.over)

\* A call does not hang between sessions: a provider whose session is lost, or not
\* yet there, is ready again or has told the call so.
SessionSettles ==
    (p.promise # "none" /\ ~p.ready) ~> (p.ready \/ told.close > 0 \/ p.promise = "broken")

\* A call that is saying goodbye is hung up.
ClosingEnds == call.closing ~> call.over
================================================================================
