---------------------------- MODULE RealtimeProvider ---------------------------
(***************************************************************************)
(* One instance of OpenAIRealtimeProvider (lib/ai/openai-realtime.ts): the *)
(* object a call owns, which keeps a WebSocket session with the speech     *)
(* model alive and decides whose turn it is.                               *)
(*                                                                         *)
(* The object is the record `s' and every method or event handler is an    *)
(* operator from one state of the object to the next; what it sends        *)
(* (`out') and the handlers of the call it invokes (`calls') are collected *)
(* in the order they happen, for the module that composes the provider     *)
(* with the server and with the call.  A promise that settles is continued *)
(* in the same step: microtasks run before any other event.                *)
(*                                                                         *)
(* Timers are the names in `timers'; the attempt timer is armed while      *)
(* `pending' is a socket.  0 is "null" for sockets and responses.          *)
(***************************************************************************)
EXTENDS Naturals, Sequences, SequencesExt

CONSTANTS
    Tools,                 \* tool calls the model may make
    Spoken,                \* of these, the ones with an acknowledgement line
    MaxReconnectAttempts,  \* maxReconnectAttempts
    MaxPendingSayLines,    \* MAX_PENDING_SAY_LINES
    MaxExtras,             \* optional session fields the server may refuse
    SemanticVad            \* turnDetectionMode is "semantic_vad"

ASSUME ProviderAssumption ==
    /\ MaxReconnectAttempts \in Nat /\ MaxPendingSayLines \in Nat /\ MaxExtras \in Nat
    /\ SemanticVad \in BOOLEAN

Timers == {"ready", "reconnect", "response", "filler", "recovery"}
Wires == {"none", "dialling", "open", "closing"}     \* readyState of this.socket
Promises == {"none", "awaited", "kept", "broken"}    \* what start() returned

NewProvider ==
    [promise |-> "none", stopped |-> FALSE, closeEmitted |-> FALSE, terminal |-> FALSE,
     socket |-> 0, wire |-> "none", pending |-> 0, attempts |-> 0, opened |-> 0,
     created |-> FALSE, ready |-> FALSE, hasBeenReady |-> FALSE, extras |-> MaxExtras,
     active |-> 0, awaiting |-> FALSE, queued |-> FALSE, cancelled |-> {},
     lastAudio |-> 0, audible |-> FALSE, callerSpeaking |-> FALSE,
     suppressed |-> FALSE, producedAudio |-> FALSE, tool |-> "none", lines |-> 0,
     results |-> {}, timers |-> {}, readyFor |-> 0, out |-> <<>>, calls |-> <<>>]

Arm(s, timer) == [s EXCEPT !.timers = @ \cup {timer}]
Disarm(s, timers) == [s EXCEPT !.timers = @ \ timers]

\* An invocation of one of the call's handlers.
Tell(s, call) == [s EXCEPT !.calls = Append(@, call)]

\* send: an event for a socket that is not open is dropped.
Send(s, message) == IF s.wire = "open" THEN [s EXCEPT !.out = Append(@, message)] ELSE s

\* Mutant of Finish: the flag is not looked at.
FinishAgain(s) == Tell([s EXCEPT !.closeEmitted = TRUE], [type |-> "close"])

\* finish: onClose is called once.
Finish(s) ==
    IF s.closeEmitted THEN s
    ELSE Tell([s EXCEPT !.closeEmitted = TRUE], [type |-> "close"])

-------------------------------------------------------------------------------
(***************************************************************************)
(* The response gate: one response at a time, one request waiting.         *)
(***************************************************************************)

\* Mutant of Busy: a request on its way does not count.
BusyWhenSpeaking(s) == s.active # 0

Busy(s) == s.active # 0 \/ s.awaiting

Create(s) ==
    Send(Arm([s EXCEPT !.queued = FALSE, !.awaiting = TRUE], "response"),
         [type |-> "response.create"])

\* requestResponse
RequestResponse(s) ==
    IF s.stopped THEN s
    ELSE IF Busy(s) THEN Arm([s EXCEPT !.queued = TRUE], "response")
    ELSE Send(Arm([s EXCEPT !.awaiting = TRUE], "response"), [type |-> "response.create"])

\* flushPendingResponse
FlushPendingResponse(s) == IF ~s.queued \/ s.stopped \/ Busy(s) THEN s ELSE Create(s)

\* say.  The item that carries the line asks nothing of the server; the
\* response.create that follows it does.
Say(s) ==
    IF s.ready THEN RequestResponse(s)
    ELSE IF s.lines < MaxPendingSayLines THEN [s EXCEPT !.lines = @ + 1]
    ELSE s

\* flushPendingSayLines, of a session that is ready.  The first line asks for a
\* response, the second waits for it, and the others wait with the second.
FlushPendingSayLines(s) ==
    LET emptied == [s EXCEPT !.lines = 0]
    IN  IF s.lines = 0 THEN emptied
        ELSE IF s.lines = 1 THEN Say(emptied)
        ELSE Say(Say(emptied))

\* clearPendingTool
ClearPendingTool(s) == Disarm([s EXCEPT !.tool = "none"], {"filler"})

\* sendToolResult
SendToolResult(s, t) ==
    IF t \in s.results THEN s
    ELSE RequestResponse(Send(ClearPendingTool([s EXCEPT !.results = @ \cup {t}]),
                              [type |-> "result", tool |-> t]))

\* maybeSpeakToolAcknowledgement: the delay is over once its timer has fired.
MaybeAcknowledge(s) ==
    IF s.tool # "running" \/ s.stopped \/ ~s.ready \/ "filler" \in s.timers \/ Busy(s) THEN s
    ELSE Say([s EXCEPT !.tool = "acknowledged"])

\* abandonCurrentResponse
AbandonCurrentResponse(s) ==
    LET heard == IF s.active # 0 THEN s.active ELSE s.lastAudio
        quiet == Disarm(ClearPendingTool([s EXCEPT !.audible = FALSE, !.queued = FALSE]),
                        {"response"})
        marked == [quiet EXCEPT !.cancelled = @ \cup ({heard} \ {0}), !.active = 0]
    IN  IF s.active = 0 THEN marked
        ELSE Send(marked, [type |-> "response.cancel", response |-> s.active])

-------------------------------------------------------------------------------
(***************************************************************************)
(* The connection: attempts, the session, loss and reconnection.           *)
(***************************************************************************)

\* openSocket
OpenSocket(s) ==
    [s EXCEPT !.opened = @ + 1, !.socket = s.opened + 1, !.pending = s.opened + 1,
              !.wire = "dialling"]

\* Mutants of ScheduleReconnect: the limit is not looked at, or reaching it is an
\* error like any other.
ReconnectForEver(s) ==
    IF s.stopped \/ "reconnect" \in s.timers THEN s
    ELSE Arm([s EXCEPT !.attempts = @ + 1], "reconnect")
GiveUpSilently(s) ==
    IF s.stopped \/ "reconnect" \in s.timers THEN s
    ELSE IF s.attempts >= MaxReconnectAttempts THEN Tell(s, [type |-> "error"])
    ELSE Arm([s EXCEPT !.attempts = @ + 1], "reconnect")

\* scheduleReconnect
ScheduleReconnect(s) ==
    IF s.stopped \/ "reconnect" \in s.timers THEN s
    ELSE IF s.attempts >= MaxReconnectAttempts THEN Finish(Tell(s, [type |-> "error"]))
    ELSE Arm([s EXCEPT !.attempts = @ + 1], "reconnect")

\* clearTimers: the recovery timer is not among them.
ClearTimers(s) == Disarm(s, {"ready", "reconnect", "response", "filler"})

\* The attempt awaited is rejected: the catch of start(), or of the reconnect timer.
AttemptRejected(s) ==
    LET settled == [s EXCEPT !.pending = 0]
    IN  IF s.promise = "awaited"
        THEN ClearTimers([settled EXCEPT !.stopped = TRUE, !.closeEmitted = TRUE,
                                         !.promise = "broken"])
        ELSE IF s.terminal THEN Finish(Tell(settled, [type |-> "error"]))
        ELSE ScheduleReconnect(settled)

\* settleAttempt(socket, null)
AttemptKept(s, socket) ==
    IF s.pending # socket THEN s
    ELSE [s EXCEPT !.pending = 0, !.promise = IF @ = "awaited" THEN "kept" ELSE @]

\* abandonSocket: detached first, so that it is never heard of again.  The grace
\* timer of the session is left armed.
AbandonSocket(s, socket) ==
    [s EXCEPT !.socket = IF @ = socket THEN 0 ELSE @,
              !.wire = IF s.socket = socket THEN "none" ELSE @,
              !.created = FALSE, !.ready = FALSE]

\* Mutant of HandleClose: the session is still called ready.
CloseKeepingReady(s, normal) ==
    LET lost == ClearPendingTool(Disarm(
                  [s EXCEPT !.socket = 0, !.wire = "none", !.created = FALSE,
                            !.active = 0, !.awaiting = FALSE, !.queued = FALSE,
                            !.audible = FALSE, !.callerSpeaking = FALSE],
                  {"ready", "response"}))
    IN  IF s.pending = s.socket THEN AttemptRejected(lost)
        ELSE IF s.stopped THEN lost
        ELSE IF s.terminal THEN Finish(Tell(lost, [type |-> "error"]))
        ELSE IF normal THEN Finish(lost)
        ELSE ScheduleReconnect(lost)

\* handleClose of the current socket
HandleClose(s, normal) ==
    LET lost == ClearPendingTool(Disarm(
                  [s EXCEPT !.socket = 0, !.wire = "none", !.created = FALSE,
                            !.ready = FALSE, !.active = 0, !.awaiting = FALSE,
                            !.queued = FALSE, !.audible = FALSE, !.callerSpeaking = FALSE],
                  {"ready", "response"}))
    IN  IF s.pending = s.socket THEN AttemptRejected(lost)
        ELSE IF s.stopped THEN lost
        ELSE IF s.terminal THEN Finish(Tell(lost, [type |-> "error"]))
        ELSE IF normal THEN Finish(lost)
        ELSE ScheduleReconnect(lost)

\* markReady.  The microtask that calls onReady is part of it.
MarkReady(s, socket) ==
    LET ready == AttemptKept(
                   Disarm([s EXCEPT !.created = TRUE, !.ready = TRUE, !.attempts = 0,
                                    !.hasBeenReady = TRUE], {"ready"}), socket)
        restored == Tell(ready, [type |-> "restored"])
        announced == Tell(ready, [type |-> "ready"])
    IN  IF s.ready THEN s
        ELSE IF s.hasBeenReady THEN FlushPendingSayLines(restored)
        ELSE IF s.stopped THEN ready
        ELSE FlushPendingSayLines(announced)

\* sendSessionUpdate
SendSessionUpdate(s) == Send(s, [type |-> "session.update"])

\* start
StartSession(s) == OpenSocket([s EXCEPT !.promise = "awaited"])

\* stop
StopSession(s) ==
    LET halted == ClearTimers([s EXCEPT !.stopped = TRUE])
        cancel == IF s.socket # 0 /\ s.active # 0
                  THEN Send(halted, [type |-> "response.cancel", response |-> s.active])
                  ELSE halted
    IN  IF s.stopped THEN s
        ELSE Finish([cancel EXCEPT
               !.socket = 0, !.wire = "none", !.ready = FALSE, !.created = FALSE,
               !.active = 0, !.awaiting = FALSE, !.queued = FALSE, !.lines = 0,
               !.audible = FALSE, !.callerSpeaking = FALSE])

-------------------------------------------------------------------------------
(***************************************************************************)
(* handleMessage: the events of the server, and the timers.                *)
(***************************************************************************)

\* handleSessionCreated
HandleSessionCreated(s) ==
    Arm([s EXCEPT !.created = TRUE, !.readyFor = s.socket], "ready")

\* Mutant of HandleSpeechStarted: audio that is still playing does not count.
YieldWhenActive(s) ==
    LET heard == Tell([s EXCEPT !.callerSpeaking = TRUE], [type |-> "speech"])
        yielded == AbandonCurrentResponse(Tell(heard, [type |-> "interruption"]))
    IN  IF s.active = 0 \/ s.suppressed THEN heard ELSE Arm(yielded, "recovery")

\* handleSpeechStarted
HandleSpeechStarted(s) ==
    LET heard == Tell([s EXCEPT !.callerSpeaking = TRUE], [type |-> "speech"])
        yielded == AbandonCurrentResponse(Tell(heard, [type |-> "interruption"]))
        rearmed == Disarm(yielded, {"recovery"})
    IN  IF (s.active = 0 /\ ~s.audible) \/ s.suppressed THEN heard
        ELSE IF SemanticVad THEN Arm(rearmed, "recovery")
        ELSE rearmed

\* input_audio_buffer.speech_stopped and .committed
HandleSpeechStopped(s) == [s EXCEPT !.callerSpeaking = FALSE]

\* suppressBargeIn
SuppressBargeIn(s) == Disarm([s EXCEPT !.suppressed = TRUE], {"recovery"})

\* handleResponseCreated: the caller is speaking over it already.
HandleResponseCreated(s, r) ==
    LET current == Disarm([s EXCEPT !.active = r, !.awaiting = FALSE,
                                    !.producedAudio = FALSE], {"response"})
    IN  IF s.callerSpeaking THEN AbandonCurrentResponse(current) ELSE current

\* Mutant of HandleAudioDelta: late audio of a cancelled response is played.
DeltaOfAnyResponse(s, r) ==
    Tell([s EXCEPT !.producedAudio = TRUE, !.lastAudio = r, !.audible = TRUE],
         [type |-> "audio", response |-> r])

\* handleOutputAudioDelta and deliverOutboundAudio
HandleAudioDelta(s, r) ==
    IF r \in s.cancelled THEN s
    ELSE Tell([s EXCEPT !.producedAudio = TRUE, !.lastAudio = r, !.audible = TRUE],
              [type |-> "audio", response |-> r])

\* handleFunctionCall and beginToolCall, up to the await of onToolCall
HandleFunctionCall(s, t) ==
    LET called == [type |-> "tool", tool |-> t]
    IN  IF s.producedAudio \/ t \notin Spoken THEN Tell(s, called)
        ELSE Tell(Arm([s EXCEPT !.tool = "running"], "filler"), called)

\* Mutant of HandleResponseDone: it leaves a turn that waits to its timer.
DoneWithoutFlush(s, r) ==
    MaybeAcknowledge([s EXCEPT !.active = IF @ = r THEN 0 ELSE @, !.suppressed = FALSE])

\* handleResponseDone
HandleResponseDone(s, r) ==
    MaybeAcknowledge(FlushPendingResponse(
        [s EXCEPT !.active = IF @ = r THEN 0 ELSE @, !.suppressed = FALSE]))

\* handleErrorEvent: "conversation_already_has_active_response"
HandleConflict(s) == Arm([s EXCEPT !.awaiting = FALSE, !.queued = TRUE], "response")

\* handleErrorEvent: a code of TERMINAL_ERROR_CODES
HandleTerminalError(s) ==
    LET socket == s.socket
        doomed == AbandonSocket([s EXCEPT !.terminal = TRUE], socket)
    IN  IF s.pending = socket THEN AttemptRejected(doomed)
        ELSE Finish(Tell(doomed, [type |-> "error"]))

\* handleErrorEvent and degradeSession: a session field the server does not know
HandleComplaint(s) ==
    IF s.extras > 0 THEN SendSessionUpdate([s EXCEPT !.extras = @ - 1])
    ELSE Tell(s, [type |-> "error"])

\* handleErrorEvent: anything else
HandleOtherError(s) == Tell(s, [type |-> "error"])

\* The timer of an attempt
AttemptTimeout(s) ==
    LET socket == s.pending
    IN  AttemptRejected(AbandonSocket(s, socket))

\* The grace timer of handleSessionCreated
ReadyGrace(s) ==
    LET fired == Disarm(s, {"ready"})
    IN  IF s.ready THEN fired ELSE MarkReady(fired, s.readyFor)

\* The timer of scheduleReconnect
ReconnectTimer(s) ==
    IF s.stopped THEN Disarm(s, {"reconnect"}) ELSE OpenSocket(Disarm(s, {"reconnect"}))

\* The timer of armPendingResponseTimer
ResponseTimer(s) ==
    LET fired == Disarm(s, {"response"})
    IN  IF s.stopped THEN fired ELSE FlushPendingResponse([fired EXCEPT !.awaiting = FALSE])

\* The timer of beginToolCall
FillerTimer(s) == MaybeAcknowledge(Disarm(s, {"filler"}))

\* The timer of armBargeInRecovery
RecoveryTimer(s) ==
    LET fired == Disarm(s, {"recovery"})
    IN  IF s.stopped \/ s.active # 0 \/ s.callerSpeaking THEN fired
        ELSE RequestResponse(fired)
================================================================================
