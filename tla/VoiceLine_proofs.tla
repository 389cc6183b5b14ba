---------------------------- MODULE VoiceLine_proofs ---------------------------
(***************************************************************************)
(* Proofs about VoiceLine.                                                 *)
(***************************************************************************)
EXTENDS VoiceLine, FiniteSetTheorems, TLAPS

-------------------------------------------------------------------------------
(***************************************************************************)
(* Types.                                                                  *)
(***************************************************************************)

Plain(types) == [type : types]
AboutResponse(types) == [type : types, response : Nat \ {0}]
AboutTool == [type : {"tool"}, tool : Tools]

Message == Plain({"session.update", "response.create"})
           \cup AboutResponse({"response.cancel"}) \cup [type : {"result"}, tool : Tools]

Telling == Plain({"ready", "restored", "close", "error", "speech", "interruption"})
           \cup AboutResponse({"audio"}) \cup AboutTool

Event == Plain({"session.created", "session.updated", "speech_started", "speech_stopped",
                "conflict", "terminal", "complaint", "error"})
         \cup AboutResponse({"response.created", "response.done", "audio"})
         \cup AboutTool \cup [type : {"close"}, normal : BOOLEAN]

\* The object.
Provider ==
    [promise : Promises, stopped : BOOLEAN, closeEmitted : BOOLEAN, terminal : BOOLEAN,
     socket : Nat, wire : Wires, pending : Nat, attempts : 0..MaxReconnectAttempts,
     opened : Nat, created : BOOLEAN, ready : BOOLEAN, hasBeenReady : BOOLEAN,
     extras : Nat, active : Nat, awaiting : BOOLEAN, queued : BOOLEAN,
     cancelled : SUBSET Nat, lastAudio : Nat, audible : BOOLEAN,
     callerSpeaking : BOOLEAN, suppressed : BOOLEAN, producedAudio : BOOLEAN,
     tool : {"none", "running", "acknowledged"}, lines : 0..MaxPendingSayLines,
     results : SUBSET Tools, timers : SUBSET Timers, readyFor : Nat,
     out : Seq(Message), calls : Seq(Telling)]

\* What t has kept of s: the connection ...
SameLink(s, t) ==
    /\ t.promise = s.promise /\ t.stopped = s.stopped /\ t.closeEmitted = s.closeEmitted
    /\ t.terminal = s.terminal /\ t.socket = s.socket /\ t.wire = s.wire
    /\ t.pending = s.pending /\ t.opened = s.opened /\ t.created = s.created
    /\ t.ready = s.ready /\ t.hasBeenReady = s.hasBeenReady
    /\ t.readyFor = s.readyFor
    /\ "ready" \in t.timers <=> "ready" \in s.timers
    /\ "reconnect" \in t.timers <=> "reconnect" \in s.timers

\* ... and what is heard.
SameEar(s, t) ==
    /\ t.active = s.active /\ t.lastAudio = s.lastAudio /\ t.cancelled = s.cancelled
    /\ t.audible = s.audible /\ t.callerSpeaking = s.callerSpeaking
    /\ t.suppressed = s.suppressed

Creation == [type |-> "response.create"]

\* The response gate between s and t: what is asked for waits, and one
\* response.create at the most is sent.
Gate(s, t) ==
    /\ s.awaiting => t.awaiting
    /\ t.awaiting /\ ~s.awaiting => s.active = 0
    /\ "response" \in s.timers => "response" \in t.timers
    /\ t.queued => s.queued \/ "response" \in t.timers

Sends(s, t) == \/ t.out = s.out
               \/ /\ t.out = Append(s.out, Creation)
                  /\ t.awaiting /\ ~s.awaiting /\ s.wire = "open"

Talks(s, t) ==
    /\ t \in Provider
    /\ SameLink(s, t) /\ SameEar(s, t) /\ Gate(s, t) /\ Sends(s, t)
    /\ t.calls = s.calls

\* The setters the operators are made of keep the type.
LEMMA Setters ==
    ASSUME NEW s \in Provider
    PROVE  /\ \A timer \in Timers : Arm(s, timer) \in Provider
           /\ \A timers : Disarm(s, timers) \in Provider
           /\ \A c \in Telling : Tell(s, c) \in Provider
           /\ \A m \in Message : Send(s, m) \in Provider
           /\ ClearPendingTool(s) \in Provider
<1>1. ASSUME NEW timer \in Timers PROVE Arm(s, timer) \in Provider
  BY DEF Provider, Arm
<1>2. ASSUME NEW timers PROVE Disarm(s, timers) \in Provider
  BY DEF Provider, Disarm
<1>3. ASSUME NEW c \in Telling PROVE Tell(s, c) \in Provider
  <2>1. Append(s.calls, c) \in Seq(Telling)
    BY <1>3 DEF Provider
  <2> QED BY <2>1 DEF Provider, Tell
<1>4. ASSUME NEW m \in Message PROVE Send(s, m) \in Provider
  <2>1. Append(s.out, m) \in Seq(Message)
    BY <1>4 DEF Provider
  <2>2. [s EXCEPT !.out = Append(@, m)] \in Provider
    BY <2>1 DEF Provider
  <2> QED BY <2>2 DEF Send
<1>5. ClearPendingTool(s) \in Provider
  <2>1. [s EXCEPT !.tool = "none"] \in Provider
    BY DEF Provider
  <2> QED BY <2>1 DEF Provider, ClearPendingTool, Disarm
<1> QED BY <1>1, <1>2, <1>3, <1>4, <1>5

LEMMA Vocabulary ==
    /\ Creation \in Message /\ [type |-> "session.update"] \in Message
    /\ \A r \in Nat \ {0} : [type |-> "response.cancel", response |-> r] \in Message
    /\ \A t \in Tools : [type |-> "result", tool |-> t] \in Message
    /\ \A type \in {"ready", "restored", "close", "error", "speech", "interruption"} :
          [type |-> type] \in Telling
    /\ \A r \in Nat \ {0} : [type |-> "audio", response |-> r] \in Telling
    /\ \A t \in Tools : [type |-> "tool", tool |-> t] \in Telling
BY DEF Creation, Message, Telling, Plain, AboutResponse, AboutTool

LEMMA RequestTalks ==
    ASSUME NEW s \in Provider
    PROVE  Talks(s, RequestResponse(s))
<1>1. RequestResponse(s) \in Provider
  <2>1. /\ [s EXCEPT !.queued = TRUE] \in Provider
        /\ [s EXCEPT !.awaiting = TRUE] \in Provider
    BY DEF Provider
  <2>2. /\ Arm([s EXCEPT !.queued = TRUE], "response") \in Provider
        /\ Arm([s EXCEPT !.awaiting = TRUE], "response") \in Provider
    BY <2>1, Setters DEF Timers
  <2> QED BY <2>2, Setters, Vocabulary DEF RequestResponse, Creation
<1>2. SameLink(s, RequestResponse(s))
  BY DEF Provider, SameLink, RequestResponse, Send, Arm, Busy
<1>3. SameEar(s, RequestResponse(s)) /\ RequestResponse(s).calls = s.calls
  BY DEF Provider, SameEar, RequestResponse, Send, Arm, Busy
<1>4. Gate(s, RequestResponse(s))
  BY DEF Provider, Gate, RequestResponse, Send, Arm, Busy
<1>5. Sends(s, RequestResponse(s))
  BY DEF Provider, Sends, RequestResponse, Send, Arm, Busy, Creation
<1> QED BY <1>1, <1>2, <1>3, <1>4, <1>5 DEF Talks

LEMMA FlushTalks ==
    ASSUME NEW s \in Provider
    PROVE  /\ Talks(s, FlushPendingResponse(s))
           /\ FlushPendingResponse(s).queued => s.stopped \/ Busy(s)
<1> DEFINE t == FlushPendingResponse(s)
<1>1. t \in Provider
  <2>1. [s EXCEPT !.queued = FALSE, !.awaiting = TRUE] \in Provider
    BY DEF Provider
  <2>2. Arm([s EXCEPT !.queued = FALSE, !.awaiting = TRUE], "response") \in Provider
    BY <2>1, Setters DEF Timers
  <2> QED BY <2>2, Setters, Vocabulary DEF FlushPendingResponse, Create, Creation
<1>2. SameLink(s, t)
  BY DEF Provider, SameLink, FlushPendingResponse, Create, Send, Arm, Busy
<1>3. SameEar(s, t) /\ t.calls = s.calls
  BY DEF Provider, SameEar, FlushPendingResponse, Create, Send, Arm, Busy
<1>4. Gate(s, t) /\ (t.queued => s.stopped \/ Busy(s))
  BY DEF Provider, Gate, FlushPendingResponse, Create, Send, Arm, Busy
<1>5. Sends(s, t)
  BY DEF Provider, Sends, FlushPendingResponse, Create, Send, Arm, Busy, Creation
<1> QED BY <1>1, <1>2, <1>3, <1>4, <1>5 DEF Talks

LEMMA SayTalks ==
    ASSUME NEW s \in Provider
    PROVE  Talks(s, Say(s))
<1>1. CASE s.ready
  BY <1>1, RequestTalks DEF Say
<1>2. CASE ~s.ready
  <2>1. ASSUME s.lines < MaxPendingSayLines
        PROVE  [s EXCEPT !.lines = @ + 1] \in Provider
    <3>1. s.lines + 1 \in 0..MaxPendingSayLines
      BY <2>1, ProviderAssumption DEF Provider
    <3> QED BY <3>1 DEF Provider
  <2>2. Say(s) \in Provider
    BY <1>2, <2>1 DEF Say
  <2>3. SameLink(s, Say(s)) /\ Say(s).calls = s.calls
    BY <1>2 DEF Provider, SameLink, Say
  <2>4. SameEar(s, Say(s)) /\ Gate(s, Say(s)) /\ Sends(s, Say(s))
    BY <1>2 DEF Provider, SameEar, Gate, Sends, Say
  <2> QED BY <2>2, <2>3, <2>4 DEF Talks
<1> QED BY <1>1, <1>2

\* Two steps of the gate are one: the second finds the channel taken.
LEMMA TalksTwice ==
    ASSUME NEW s \in Provider, NEW t \in Provider, NEW u \in Provider,
           Talks(s, t), Talks(t, u)
    PROVE  Talks(s, u)
<1>1. SameLink(s, u) /\ u.calls = s.calls
  BY DEF Talks, SameLink
<1>2. SameEar(s, u)
  BY DEF Talks, SameEar
<1>3. Gate(s, u)
  BY DEF Talks, Gate, SameEar
<1>4. Sends(s, u)
  BY DEF Talks, Gate, Sends, SameLink
<1> QED BY <1>1, <1>2, <1>3, <1>4 DEF Talks

LEMMA FlushLinesTalks ==
    ASSUME NEW s \in Provider
    PROVE  Talks(s, FlushPendingSayLines(s))
<1> DEFINE e == [s EXCEPT !.lines = 0]
<1>1. e \in Provider /\ Talks(s, e)
  <2>1. e \in Provider
    <3>1. 0 \in 0..MaxPendingSayLines
      BY ProviderAssumption
    <3> QED BY <3>1 DEF Provider
  <2> QED BY <2>1 DEF Provider, Talks, SameLink, SameEar, Gate, Sends
<1>2. Talks(e, Say(e)) /\ Say(e) \in Provider
  BY <1>1, SayTalks DEF Talks
<1>3. Talks(Say(e), Say(Say(e))) /\ Say(Say(e)) \in Provider
  BY <1>2, SayTalks DEF Talks
<1>4. Talks(s, Say(e))
  BY <1>1, <1>2, TalksTwice
<1>5. Talks(s, Say(Say(e)))
  BY <1>2, <1>3, <1>4, TalksTwice
<1> HIDE DEF e
<1>6. FlushPendingSayLines(s) \in {e, Say(e), Say(Say(e))}
  BY DEF FlushPendingSayLines, e
<1> QED BY <1>1, <1>4, <1>5, <1>6

LEMMA AcknowledgeTalks ==
    ASSUME NEW s \in Provider
    PROVE  Talks(s, MaybeAcknowledge(s))
<1> DEFINE e == [s EXCEPT !.tool = "acknowledged"]
<1>1. e \in Provider /\ Talks(s, e)
  <2>1. e \in Provider
    BY DEF Provider
  <2> QED BY <2>1 DEF Provider, Talks, SameLink, SameEar, Gate, Sends
<1>2. Talks(s, Say(e))
  BY <1>1, SayTalks, TalksTwice DEF Talks
<1>3. Talks(s, s)
  BY DEF Talks, SameLink, SameEar, Gate, Sends
<1> QED BY <1>2, <1>3 DEF MaybeAcknowledge

-------------------------------------------------------------------------------
(***************************************************************************)
(* The handlers that leave the connection alone, each with what it changes *)
(* of what is heard.  Between two steps nothing is left to send or to say. *)
(***************************************************************************)

Idle == {s \in Provider : s.out = <<>> /\ s.calls = <<>>}

\* What sendToolResult adds to what is sent.
SendsResult(s, u, t) ==
    LET m == [type |-> "result", tool |-> t]
    IN  \/ u.out \in {s.out, Append(s.out, m)}
        \/ /\ u.out \in {Append(s.out, Creation), Append(Append(s.out, m), Creation)}
           /\ u.awaiting /\ ~s.awaiting /\ s.wire = "open"

LEMMA ResultTalks ==
    ASSUME NEW s \in Provider, NEW t \in Tools
    PROVE  LET u == SendToolResult(s, t)
           IN  /\ u \in Provider
               /\ SameLink(s, u) /\ SameEar(s, u) /\ Gate(s, u) /\ SendsResult(s, u, t)
               /\ u.calls = s.calls
<1> DEFINE m == [type |-> "result", tool |-> t]
           e == [s EXCEPT !.results = @ \cup {t}]
           c == ClearPendingTool(e)
           r == Send(c, m)
<1>1. e \in Provider
  BY DEF Provider
<1>2. c \in Provider /\ r \in Provider
  BY <1>1, Setters, Vocabulary
<1>3. SameLink(s, r) /\ r.calls = s.calls
  BY DEF Provider, SameLink, Send, ClearPendingTool, Disarm
<1>4. SameEar(s, r) /\ Gate(s, r) /\ r.awaiting = s.awaiting
  BY DEF Provider, SameEar, Gate, Send, ClearPendingTool, Disarm
<1>5. r.out \in {s.out, Append(s.out, m)}
  BY DEF Provider, Send, ClearPendingTool, Disarm
<1> HIDE DEF r
<1> DEFINE u == RequestResponse(r)
<1>6. Talks(r, u)
  BY <1>2, RequestTalks
<1> HIDE DEF u
<1>7. SameLink(s, u) /\ u.calls = s.calls
  BY <1>3, <1>6 DEF Talks, SameLink
<1>8. SameEar(s, u) /\ Gate(s, u)
  BY <1>4, <1>6 DEF Talks, SameEar, Gate
<1>9. SendsResult(s, u, t)
  <2>1. \/ u.out = r.out
        \/ u.out = Append(r.out, Creation) /\ u.awaiting /\ ~s.awaiting /\ s.wire = "open"
    BY <1>3, <1>4, <1>6 DEF Talks, Sends, SameLink
  <2> QED BY <2>1, <1>5 DEF SendsResult
<1>10. CASE t \in s.results
  BY <1>10 DEF SendToolResult, SameLink, SameEar, Gate, SendsResult
<1>11. CASE t \notin s.results
  <2>1. SendToolResult(s, t) = u
    BY <1>11 DEF SendToolResult, u, r
  <2> QED BY <2>1, <1>6, <1>7, <1>8, <1>9 DEF Talks
<1> QED BY <1>10, <1>11

\* abandonCurrentResponse: nothing is spoken, nothing waits.
Abandons(s, u) ==
    LET heard == IF s.active # 0 THEN s.active ELSE s.lastAudio
    IN  /\ u \in Provider /\ SameLink(s, u) /\ u.calls = s.calls
        /\ u.active = 0 /\ u.lastAudio = s.lastAudio /\ ~u.audible
        /\ u.cancelled = s.cancelled \cup ({heard} \ {0})
        /\ u.callerSpeaking = s.callerSpeaking /\ u.suppressed = s.suppressed
        /\ u.awaiting = s.awaiting /\ ~u.queued
        /\ \/ u.out = s.out
           \/ /\ s.active # 0
              /\ u.out = Append(s.out, [type |-> "response.cancel", response |-> s.active])

LEMMA AbandonAbandons ==
    ASSUME NEW s \in Provider
    PROVE  Abandons(s, AbandonCurrentResponse(s))
<1> DEFINE heard == IF s.active # 0 THEN s.active ELSE s.lastAudio
           e == [s EXCEPT !.audible = FALSE, !.queued = FALSE]
           q == Disarm(ClearPendingTool(e), {"response"})
           m == [q EXCEPT !.cancelled = @ \cup ({heard} \ {0}), !.active = 0]
           c == [type |-> "response.cancel", response |-> s.active]
<1>1. e \in Provider
  BY DEF Provider
<1>2. q \in Provider
  BY <1>1, Setters
<1>3. /\ q.active = s.active /\ q.lastAudio = s.lastAudio /\ ~q.audible
      /\ q.cancelled = s.cancelled /\ q.callerSpeaking = s.callerSpeaking
      /\ q.suppressed = s.suppressed /\ q.awaiting = s.awaiting /\ ~q.queued
      /\ q.out = s.out /\ q.calls = s.calls
  BY DEF Provider, Disarm, ClearPendingTool
<1>4. SameLink(s, q)
  BY DEF Provider, Disarm, ClearPendingTool, SameLink
<1> HIDE DEF q, e
<1>5. heard \in Nat /\ q.cancelled \cup ({heard} \ {0}) \in SUBSET Nat
  BY <1>2 DEF Provider
<1> HIDE DEF heard
<1>6. m \in Provider
  BY <1>2, <1>5 DEF Provider
<1>7. /\ m.active = 0 /\ m.lastAudio = s.lastAudio /\ ~m.audible
      /\ m.cancelled = s.cancelled \cup ({heard} \ {0})
      /\ m.callerSpeaking = s.callerSpeaking
      /\ m.suppressed = s.suppressed /\ m.awaiting = s.awaiting /\ ~m.queued
      /\ m.out = s.out /\ m.calls = s.calls
  BY <1>2, <1>3 DEF Provider
<1>8. SameLink(s, m)
  BY <1>2, <1>4 DEF Provider, SameLink
<1>9. AbandonCurrentResponse(s) = IF s.active = 0 THEN m ELSE Send(m, c)
  BY DEF AbandonCurrentResponse, m, q, e, heard
<1> HIDE DEF m
<1>10. CASE s.active = 0
  BY <1>6, <1>7, <1>8, <1>9, <1>10 DEF Abandons, heard
<1>11. CASE s.active # 0
  <2> DEFINE u == Send(m, c)
  <2>1. u \in Provider
    BY <1>6, <1>11, Setters, Vocabulary DEF Provider
  <2>2. SameLink(s, u)
    BY <1>6, <1>8 DEF Provider, SameLink, Send
  <2>3. /\ u.active = 0 /\ u.lastAudio = s.lastAudio /\ ~u.audible
        /\ u.cancelled = s.cancelled \cup ({heard} \ {0})
        /\ u.callerSpeaking = s.callerSpeaking
        /\ u.suppressed = s.suppressed /\ u.awaiting = s.awaiting /\ ~u.queued
        /\ u.calls = s.calls /\ u.out \in {s.out, Append(s.out, c)}
    BY <1>6, <1>7 DEF Provider, Send
  <2> HIDE DEF u
  <2>4. Abandons(s, u)
    BY <1>11, <2>1, <2>2, <2>3 DEF Abandons, heard
  <2> QED BY <1>9, <1>11, <2>4 DEF u
<1> QED BY <1>10, <1>11

\* One or two elements in a row.
LEMMA OneAppended == ASSUME NEW S, NEW c \in S PROVE Append(<<>>, c) = <<c>>
OBVIOUS

LEMMA TwoAppended == ASSUME NEW S, NEW c \in S, NEW d \in S PROVE Append(<<c>>, d) = <<c, d>>
<1>1. /\ Append(<<c>>, d) \in Seq(S) /\ <<c, d>> \in Seq(S)
      /\ Len(Append(<<c>>,d)) = 2 /\ Len(<<c, d>>) = 2
  OBVIOUS
<1>2. /\ Append(<<c>>,d)[1] = c /\ <<c, d>>[1] = c
      /\ Append(<<c>>,d)[2] = d /\ <<c, d>>[2] = d
  OBVIOUS
<1>3. \A i \in 1..2 : Append(<<c>>,d)[i] = <<c, d>>[i]
  BY <1>2
<1> DEFINE q == Append(<<c>>, d)
           r == <<c, d>>
<1>4. /\ q \in Seq(S) /\ r \in Seq(S) /\ Len(q) = Len(r)
      /\ \A i \in 1..Len(q) : q[i] = r[i]
  BY <1>1, <1>3
<1> HIDE DEF q, r
<1>5. q = [i \in 1..Len(q) |-> q[i]] /\ r = [i \in 1..Len(r) |-> r[i]]
  BY <1>4
<1>6. q = r
  BY <1>4, <1>5
<1> QED BY <1>6 DEF q, r

LEMMA ShortSequences ==
    /\ \A c : Append(<<>>, c) = <<c>>
    /\ \A c, d : Append(<<c>>, d) = <<c, d>>
<1>1. ASSUME NEW c PROVE Append(<<>>, c) = <<c>>
  <2> c \in {c}
    OBVIOUS
  <2> QED BY OneAppended
<1>2. ASSUME NEW c, NEW d PROVE Append(<<c>>, d) = <<c, d>>
  <2> c \in {c, d} /\ d \in {c, d}
    OBVIOUS
  <2> QED BY TwoAppended
<1> QED BY <1>1, <1>2

SameGate(s, u) ==
    /\ u.awaiting = s.awaiting /\ u.queued = s.queued
    /\ "response" \in u.timers <=> "response" \in s.timers

\* A handler that leaves both the ear and the gate as they are.
Indifferent(s, u) == u \in Provider /\ SameLink(s, u) /\ SameEar(s, u) /\ SameGate(s, u)

Interruption == <<[type |-> "speech"], [type |-> "interruption"]>>

Cancellation(r) == <<[type |-> "response.cancel", response |-> r]>>

\* The caller is heard: what is spoken yields, unless nothing is, or nothing may.
Yields(s, u) ==
    /\ u \in Provider /\ SameLink(s, u)
    /\ u.callerSpeaking /\ u.awaiting = s.awaiting /\ u.suppressed = s.suppressed
    /\ u.lastAudio = s.lastAudio
    /\ \/ /\ (s.active = 0 /\ ~s.audible) \/ s.suppressed
          /\ u.active = s.active /\ u.cancelled = s.cancelled /\ u.audible = s.audible
          /\ SameGate(s, u)
          /\ u.out = <<>> /\ u.calls = <<[type |-> "speech"]>>
       \/ /\ (s.active # 0 \/ s.audible) /\ ~s.suppressed
          /\ u.active = 0 /\ ~u.queued
          /\ u.cancelled =
                s.cancelled \cup ({IF s.active # 0 THEN s.active ELSE s.lastAudio} \ {0})
          /\ u.calls = Interruption
          /\ u.out = <<>> \/ (s.active # 0 /\ u.out = Cancellation(s.active))

LEMMA SpeechYields ==
    ASSUME NEW s \in Idle
    PROVE  Yields(s, HandleSpeechStarted(s))
<1> DEFINE e == [s EXCEPT !.callerSpeaking = TRUE]
           heard == Tell(e, [type |-> "speech"])
           i == Tell(heard, [type |-> "interruption"])
           y == AbandonCurrentResponse(i)
           d == Disarm(y, {"recovery"})
           a == Arm(d, "recovery")
<1>1. e \in Provider
  BY DEF Provider, Idle
<1>2. heard \in Provider /\ i \in Provider
  BY <1>1, Setters, Vocabulary
<1>3. Abandons(i, y) /\ y \in Provider
  BY <1>2, AbandonAbandons DEF Abandons
<1>4. d \in Provider /\ a \in Provider
  BY <1>3, Setters DEF Timers
<1>5. /\ SameLink(s, heard) /\ SameLink(s, i)
      /\ SameGate(s, heard) /\ heard.out = <<>> /\ heard.calls = <<[type |-> "speech"]>>
  <2>1. SameLink(s, heard) /\ SameLink(s, i)
    BY DEF Provider, Idle, Tell, SameLink
  <2>2. SameGate(s, heard) /\ heard.out = <<>>
    BY DEF Provider, Idle, Tell, SameGate
  <2>3. heard.calls = Append(<<>>, [type |-> "speech"])
    BY DEF Provider, Idle, Tell
  <2> QED BY <2>1, <2>2, <2>3, ShortSequences
<1>6. /\ heard.active = s.active /\ heard.cancelled = s.cancelled
      /\ heard.audible = s.audible /\ heard.lastAudio = s.lastAudio
      /\ heard.callerSpeaking /\ heard.suppressed = s.suppressed
  BY DEF Provider, Idle, Tell
<1>7. /\ i.active = s.active /\ i.cancelled = s.cancelled /\ i.lastAudio = s.lastAudio
      /\ i.callerSpeaking /\ i.suppressed = s.suppressed /\ i.awaiting = s.awaiting
      /\ i.out = <<>>
  BY DEF Provider, Idle, Tell
<1>8. i.calls = Interruption
  <2>1. i.calls = Append(Append(<<>>, [type |-> "speech"]), [type |-> "interruption"])
    BY DEF Provider, Idle, Tell
  <2> QED BY <2>1, ShortSequences DEF Interruption
<1> HIDE DEF heard, i
<1>9. CASE (s.active = 0 /\ ~s.audible) \/ s.suppressed
  <2>1. HandleSpeechStarted(s) = heard
    BY <1>9 DEF HandleSpeechStarted, heard
  <2> QED BY <1>2, <1>5, <1>6, <1>9, <2>1 DEF Yields, SameGate
<1>10. CASE ~((s.active = 0 /\ ~s.audible) \/ s.suppressed)
  <2>1. HandleSpeechStarted(s) \in {a, d}
    BY <1>10 DEF HandleSpeechStarted, heard, i
  <2> HIDE DEF y
  <2>2. ASSUME NEW u \in {a, d} PROVE Yields(s, u)
    <3>1. u \in Provider /\ SameLink(y, u)
      <4>1. SameLink(y, d)
        BY <1>3 DEF SameLink, Provider, Disarm
      <4>2. SameLink(d, a)
        BY <1>4 DEF SameLink, Provider, Arm
      <4> HIDE DEF a, d
      <4>3. SameLink(y, a)
        BY <4>1, <4>2 DEF SameLink
      <4> QED BY <1>4, <4>1, <4>3
    <3>2. /\ u.active = y.active /\ u.cancelled = y.cancelled /\ u.lastAudio = y.lastAudio
          /\ u.callerSpeaking = y.callerSpeaking /\ u.suppressed = y.suppressed
          /\ u.awaiting = y.awaiting /\ u.queued = y.queued
          /\ u.out = y.out /\ u.calls = y.calls
      BY <1>3 DEF Provider, Arm, Disarm
    <3>3. SameLink(s, u)
      BY <1>3, <1>5, <3>1 DEF Abandons, SameLink
    <3>4. /\ u.active = 0 /\ u.lastAudio = s.lastAudio /\ ~u.queued
          /\ u.callerSpeaking /\ u.suppressed = s.suppressed /\ u.awaiting = s.awaiting
          /\ u.calls = Interruption
      BY <1>3, <1>7, <1>8, <3>2 DEF Abandons
    <3>5. u.cancelled =
            s.cancelled \cup ({IF s.active # 0 THEN s.active ELSE s.lastAudio} \ {0})
      BY <1>3, <1>7, <3>2 DEF Abandons
    <3>6. u.out = <<>> \/ (s.active # 0 /\ u.out = Cancellation(s.active))
      BY <1>3, <1>7, <3>2 DEF Abandons, Cancellation
    <3> HIDE DEF a, d
    <3> QED BY <1>10, <3>1, <3>3, <3>4, <3>5, <3>6 DEF Yields
  <2> QED BY <2>1, <2>2
<1> QED BY <1>9, <1>10

\* A response begins, or is cut at once because the caller is speaking.
Begins(s, u, r) ==
    /\ u \in Provider /\ SameLink(s, u) /\ u.calls = <<>>
    /\ ~u.awaiting
    /\ u.lastAudio = s.lastAudio
    /\ u.callerSpeaking = s.callerSpeaking /\ u.suppressed = s.suppressed
    /\ \/ /\ ~s.callerSpeaking
          /\ u.active = r /\ u.cancelled = s.cancelled /\ u.audible = s.audible
          /\ u.queued = s.queued /\ u.out = <<>>
       \/ /\ s.callerSpeaking
          /\ u.active = 0 /\ u.cancelled = s.cancelled \cup {r} /\ ~u.audible
          /\ ~u.queued
          /\ u.out \in {<<>>, Cancellation(r)}

LEMMA CreatedBegins ==
    ASSUME NEW s \in Idle, NEW r \in Nat \ {0}
    PROVE  Begins(s, HandleResponseCreated(s, r), r)
<1> DEFINE e == [s EXCEPT !.active = r, !.awaiting = FALSE, !.producedAudio = FALSE]
           c == Disarm(e, {"response"})
           y == AbandonCurrentResponse(c)
<1>1. e \in Provider
  BY DEF Provider, Idle
<1>2. c \in Provider
  BY <1>1, Setters
<1>3. /\ SameLink(s, c) /\ c.calls = <<>> /\ c.out = <<>> /\ ~c.awaiting
      /\ c.queued = s.queued
  BY DEF Provider, Idle, Disarm, SameLink
<1>4. /\ c.active = r /\ c.cancelled = s.cancelled /\ c.audible = s.audible
      /\ c.lastAudio = s.lastAudio /\ c.callerSpeaking = s.callerSpeaking
      /\ c.suppressed = s.suppressed
  BY DEF Provider, Idle, Disarm
<1>5. Abandons(c, y)
  BY <1>2, AbandonAbandons
<1>6. HandleResponseCreated(s, r) = IF s.callerSpeaking THEN y ELSE c
  BY DEF HandleResponseCreated
<1> HIDE DEF c
<1>7. SameLink(s, y)
  BY <1>3, <1>5 DEF Abandons, SameLink
<1> HIDE DEF y
<1>8. ~s.callerSpeaking => Begins(s, c, r)
  BY <1>2, <1>3, <1>4 DEF Begins
<1>9. y.cancelled = s.cancelled \cup {r} /\ y.out \in {<<>>, Cancellation(r)}
  <2>1. /\ y.cancelled = s.cancelled \cup ({r} \ {0})
        /\ \/ y.out = <<>>
           \/ y.out = Append(<<>>, [type |-> "response.cancel", response |-> r])
    BY <1>3, <1>4, <1>5 DEF Abandons
  <2>2. {r} \ {0} = {r}
    OBVIOUS
  <2> QED BY <2>1, <2>2, ShortSequences DEF Cancellation
<1>10. s.callerSpeaking => Begins(s, y, r)
  BY <1>3, <1>4, <1>5, <1>7, <1>9 DEF Begins, Abandons
<1> QED BY <1>6, <1>8, <1>10

\* A piece of audio is passed on, unless its response has been cancelled.
LEMMA AudioIsPassedOn ==
    ASSUME NEW s \in Idle, NEW r \in Nat \ {0}
    PROVE  LET u == HandleAudioDelta(s, r)
           IN  \/ r \in s.cancelled /\ u = s
               \/ /\ r \notin s.cancelled
                  /\ u \in Provider /\ SameLink(s, u) /\ SameGate(s, u)
                  /\ u.out = <<>> /\ u.calls = <<[type |-> "audio", response |-> r]>>
                  /\ u.active = s.active /\ u.cancelled = s.cancelled
                  /\ u.lastAudio = r /\ u.audible
                  /\ u.callerSpeaking = s.callerSpeaking /\ u.suppressed = s.suppressed
<1> DEFINE e == [s EXCEPT !.producedAudio = TRUE, !.lastAudio = r, !.audible = TRUE]
           u == Tell(e, [type |-> "audio", response |-> r])
<1>1. e \in Provider
  BY DEF Provider, Idle
<1>2. u \in Provider
  BY <1>1, Setters, Vocabulary
<1>3. SameLink(s, u) /\ SameGate(s, u)
  BY DEF Provider, Idle, Tell, SameLink, SameGate
<1>4. /\ u.out = <<>> /\ u.calls = Append(<<>>, [type |-> "audio", response |-> r])
      /\ u.active = s.active /\ u.cancelled = s.cancelled /\ u.lastAudio = r /\ u.audible
      /\ u.callerSpeaking = s.callerSpeaking /\ u.suppressed = s.suppressed
  BY DEF Provider, Idle, Tell
<1>5. HandleAudioDelta(s, r) = IF r \in s.cancelled THEN s ELSE u
  BY DEF HandleAudioDelta
<1> HIDE DEF u
<1> QED BY <1>2, <1>3, <1>4, <1>5, ShortSequences

LEMMA ToolIsPassedOn ==
    ASSUME NEW s \in Idle, NEW t \in Tools
    PROVE  LET u == HandleFunctionCall(s, t)
           IN  Indifferent(s, u) /\ u.out = <<>> /\ u.calls = <<[type |-> "tool", tool |-> t]>>
<1> DEFINE c == [type |-> "tool", tool |-> t]
           e == [s EXCEPT !.tool = "running"]
           a == Arm(e, "filler")
<1>1. e \in Provider /\ s \in Provider
  BY DEF Provider, Idle
<1>2. a \in Provider
  BY <1>1, Setters DEF Timers
<1>3. Tell(s, c) \in Provider /\ Tell(a, c) \in Provider
  BY <1>1, <1>2, Setters, Vocabulary
<1>4. SameLink(s, Tell(s, c)) /\ SameLink(s, Tell(a, c))
  BY DEF Provider, Idle, Tell, Arm, SameLink
<1>5. /\ SameEar(s, Tell(s, c)) /\ SameEar(s, Tell(a, c))
      /\ SameGate(s, Tell(s, c)) /\ SameGate(s, Tell(a, c))
  BY DEF Provider, Idle, Tell, Arm, SameEar, SameGate
<1>6. /\ Tell(s, c).out = <<>> /\ Tell(a, c).out = <<>>
      /\ Tell(s, c).calls = Append(<<>>, c) /\ Tell(a, c).calls = Append(<<>>, c)
  BY DEF Provider, Idle, Tell, Arm
<1>7. HandleFunctionCall(s, t) \in {Tell(s, c), Tell(a, c)}
  BY DEF HandleFunctionCall
<1> HIDE DEF a, c
<1> QED BY <1>3, <1>4, <1>5, <1>6, <1>7, ShortSequences DEF Indifferent, c

\* A response is over: the turn that waits takes the channel.
Ends(s, u, r) ==
    /\ u \in Provider /\ SameLink(s, u) /\ u.calls = <<>>
    /\ u.active = IF s.active = r THEN 0 ELSE s.active
    /\ u.lastAudio = s.lastAudio /\ u.cancelled = s.cancelled /\ u.audible = s.audible
    /\ u.callerSpeaking = s.callerSpeaking /\ ~u.suppressed
    /\ s.awaiting => u.awaiting
    /\ u.awaiting /\ ~s.awaiting => u.active = 0
    /\ u.queued => \/ u.stopped \/ u.active # 0 \/ (s.awaiting /\ s.queued)
                   \/ "response" \in u.timers
    /\ "response" \in s.timers => "response" \in u.timers
    /\ \/ u.out = <<>>
       \/ u.out = <<Creation>> /\ u.awaiting /\ ~s.awaiting /\ s.wire = "open"

LEMMA DoneEnds ==
    ASSUME NEW s \in Idle, NEW r \in Nat
    PROVE  Ends(s, HandleResponseDone(s, r), r)
<1> DEFINE e == [s EXCEPT !.active = IF @ = r THEN 0 ELSE @, !.suppressed = FALSE]
           f == FlushPendingResponse(e)
           u == MaybeAcknowledge(f)
<1>1. e \in Provider
  <2>1. (IF s.active = r THEN 0 ELSE s.active) \in Nat
    BY DEF Provider, Idle
  <2>2. [s EXCEPT !.active = IF @ = r THEN 0 ELSE @] \in Provider
    BY <2>1 DEF Provider, Idle
  <2> QED BY <2>2 DEF Provider
<1>2. /\ SameLink(s, e) /\ SameGate(s, e) /\ e.out = <<>> /\ e.calls = <<>>
  BY DEF Provider, Idle, SameLink, SameGate
<1>3. /\ e.active = (IF s.active = r THEN 0 ELSE s.active)
      /\ e.lastAudio = s.lastAudio /\ e.cancelled = s.cancelled /\ e.audible = s.audible
      /\ e.callerSpeaking = s.callerSpeaking /\ ~e.suppressed
  BY DEF Provider, Idle
<1> HIDE DEF e
<1>4. Talks(e, f) /\ f \in Provider /\ (f.queued => e.stopped \/ Busy(e))
  BY <1>1, FlushTalks DEF Talks
<1>5. Talks(f, u) /\ u \in Provider
  BY <1>4, AcknowledgeTalks DEF Talks
<1>6. Talks(e, u)
  BY <1>1, <1>4, <1>5, TalksTwice
<1> HIDE DEF f
<1>7. SameLink(s, u) /\ u.calls = <<>>
  BY <1>2, <1>6 DEF Talks, SameLink
<1>8. /\ u.active = (IF s.active = r THEN 0 ELSE s.active)
      /\ u.lastAudio = s.lastAudio /\ u.cancelled = s.cancelled /\ u.audible = s.audible
      /\ u.callerSpeaking = s.callerSpeaking /\ ~u.suppressed
  BY <1>3, <1>6 DEF Talks, SameEar
<1>9. /\ s.awaiting => u.awaiting
      /\ u.awaiting /\ ~s.awaiting => u.active = 0
      /\ "response" \in s.timers => "response" \in u.timers
  BY <1>2, <1>3, <1>6, <1>8 DEF Talks, Gate, SameGate
<1>10. u.queued => \/ u.stopped \/ u.active # 0 \/ (s.awaiting /\ s.queued)
                   \/ "response" \in u.timers
  BY <1>2, <1>3, <1>4, <1>5, <1>7, <1>8 DEF Talks, Gate, SameGate, SameLink, Busy
<1>11. \/ u.out = <<>>
       \/ u.out = <<Creation>> /\ u.awaiting /\ ~s.awaiting /\ s.wire = "open"
  BY <1>2, <1>6 DEF Talks, Sends, SameGate, SameLink
<1> HIDE DEF u
<1>12. HandleResponseDone(s, r) = u
  BY DEF HandleResponseDone, u, f, e
<1> QED BY <1>5, <1>7, <1>8, <1>9, <1>10, <1>11, <1>12 DEF Ends

\* A request has collided, or its timer has passed: another may be made.
LEMMA ConflictQueues ==
    ASSUME NEW s \in Idle
    PROVE  LET u == HandleConflict(s)
           IN  /\ u \in Provider /\ SameLink(s, u) /\ SameEar(s, u)
               /\ ~u.awaiting /\ u.queued /\ "response" \in u.timers
               /\ u.out = <<>> /\ u.calls = <<>>
<1> DEFINE e == [s EXCEPT !.awaiting = FALSE, !.queued = TRUE]
           u == Arm(e, "response")
<1>1. e \in Provider
  BY DEF Provider, Idle
<1>2. u \in Provider
  BY <1>1, Setters DEF Timers
<1>3. SameLink(s, u)
  BY DEF Provider, Idle, Arm, SameLink
<1>4. /\ SameEar(s, u) /\ ~u.awaiting /\ u.queued /\ "response" \in u.timers
      /\ u.out = <<>> /\ u.calls = <<>>
  BY DEF Provider, Idle, Arm, SameEar
<1> QED BY <1>2, <1>3, <1>4 DEF HandleConflict

LEMMA ResponseTimerAsks ==
    ASSUME NEW s \in Idle
    PROVE  LET u == ResponseTimer(s)
           IN  /\ u \in Provider /\ SameLink(s, u) /\ SameEar(s, u)
               /\ u.awaiting => s.active = 0 \/ s.awaiting
               /\ u.queued => u.stopped \/ s.active # 0
               /\ u.out = <<>> \/ (u.out = <<Creation>> /\ u.awaiting /\ s.wire = "open")
               /\ u.calls = <<>>
<1> DEFINE f == Disarm(s, {"response"})
           e == [f EXCEPT !.awaiting = FALSE]
           u == FlushPendingResponse(e)
<1>1. s \in Provider
  BY DEF Idle
<1>2. f \in Provider
  BY <1>1, Setters
<1>3. /\ SameLink(s, f) /\ SameEar(s, f) /\ f.awaiting = s.awaiting /\ f.queued = s.queued
      /\ f.out = <<>> /\ f.calls = <<>>
  BY DEF Provider, Idle, Disarm, SameLink, SameEar
<1> HIDE DEF f
<1>4. e \in Provider
  BY <1>2 DEF Provider
<1>5. /\ SameLink(s, e) /\ SameEar(s, e) /\ ~e.awaiting /\ e.queued = s.queued
      /\ e.out = <<>> /\ e.calls = <<>>
  BY <1>2, <1>3 DEF Provider, SameLink, SameEar
<1> HIDE DEF e
<1>6. Talks(e, u) /\ (u.queued => e.stopped \/ Busy(e))
  BY <1>4, FlushTalks
<1> HIDE DEF u
<1>7. CASE s.stopped
  <2>1. ResponseTimer(s) = f
    BY <1>7 DEF ResponseTimer, f
  <2>2. f.stopped /\ f.active = s.active
    BY <1>3, <1>7 DEF SameLink, SameEar
  <2> QED BY <2>1, <2>2, <1>2, <1>3
<1>8. CASE ~s.stopped
  <2>1. ResponseTimer(s) = u
    BY <1>8 DEF ResponseTimer, f, e, u
  <2>2. SameLink(s, u) /\ u.calls = <<>> /\ u \in Provider
    BY <1>5, <1>6 DEF Talks, SameLink
  <2>3. SameEar(s, u)
    BY <1>5, <1>6 DEF Talks, SameEar
  <2>4. (u.awaiting => s.active = 0) /\ (u.queued => s.active # 0)
    BY <1>5, <1>6, <1>8 DEF Talks, SameEar, SameLink, Gate, Busy
  <2>5. u.out = <<>> \/ (u.out = <<Creation>> /\ u.awaiting /\ s.wire = "open")
    BY <1>5, <1>6, ShortSequences DEF Talks, Sends, SameLink
  <2> QED BY <2>1, <2>2, <2>3, <2>4, <2>5
<1> QED BY <1>7, <1>8

LEMMA FillerTalks ==
    ASSUME NEW s \in Provider
    PROVE  Talks(s, FillerTimer(s)) /\ Talks(s, RecoveryTimer(s))
<1> DEFINE f == Disarm(s, {"filler"})
           r == Disarm(s, {"recovery"})
<1>1. f \in Provider /\ r \in Provider
  BY Setters
<1>2. Talks(s, f)
  BY <1>1 DEF Provider, Disarm, Talks, SameLink, SameEar, Gate, Sends
<1>3. Talks(s, r)
  BY <1>1 DEF Provider, Disarm, Talks, SameLink, SameEar, Gate, Sends
<1> HIDE DEF f, r
<1>4. Talks(f, MaybeAcknowledge(f)) /\ MaybeAcknowledge(f) \in Provider
  BY <1>1, AcknowledgeTalks DEF Talks
<1>5. Talks(r, RequestResponse(r)) /\ RequestResponse(r) \in Provider
  BY <1>1, RequestTalks DEF Talks
<1>6. Talks(s, MaybeAcknowledge(f)) /\ Talks(s, RequestResponse(r))
  BY <1>1, <1>2, <1>3, <1>4, <1>5, TalksTwice
<1>7. RecoveryTimer(s) \in {r, RequestResponse(r)}
  BY DEF RecoveryTimer, r
<1> QED BY <1>3, <1>6, <1>7 DEF FillerTimer, f

LEMMA OthersAreIndifferent ==
    ASSUME NEW s \in Idle
    PROVE  /\ LET u == HandleOtherError(s)
              IN  Indifferent(s, u) /\ u.out = <<>> /\ u.calls = <<[type |-> "error"]>>
           /\ LET u == HandleComplaint(s)
              IN  /\ Indifferent(s, u)
                  /\ u.out \in {<<>>, <<[type |-> "session.update"]>>}
                  /\ u.calls \in {<<>>, <<[type |-> "error"]>>}
<1> DEFINE u == Tell(s, [type |-> "error"])
           e == [s EXCEPT !.extras = @ - 1]
           m == [type |-> "session.update"]
           v == Send(e, m)
<1>1. u \in Provider
  BY Setters, Vocabulary DEF Idle
<1>2. SameLink(s, u) /\ SameEar(s, u) /\ SameGate(s, u) /\ u.out = <<>>
  BY DEF Provider, Idle, Tell, SameLink, SameEar, SameGate
<1>3. u.calls = <<[type |-> "error"]>>
  <2>1. u.calls = Append(<<>>, [type |-> "error"])
    BY DEF Provider, Idle, Tell
  <2> QED BY <2>1, ShortSequences
<1>4. ASSUME s.extras > 0 PROVE v \in Provider
  <2>1. s.extras - 1 \in Nat
    BY <1>4 DEF Provider, Idle
  <2>2. e \in Provider
    BY <2>1 DEF Provider, Idle
  <2> QED BY <2>2, Setters, Vocabulary
<1>5. SameLink(s, v) /\ SameEar(s, v) /\ SameGate(s, v) /\ v.calls = <<>>
  BY DEF Provider, Idle, Send, SameLink, SameEar, SameGate
<1>6. v.out \in {<<>>, <<m>>}
  <2>1. v.out \in {<<>>, Append(<<>>, m)}
    BY DEF Provider, Idle, Send
  <2> QED BY <2>1, ShortSequences
<1>7. HandleOtherError(s) = u /\ HandleComplaint(s) = IF s.extras > 0 THEN v ELSE u
  BY DEF HandleOtherError, HandleComplaint, SendSessionUpdate
<1> HIDE DEF u, v
<1> QED BY <1>1, <1>2, <1>3, <1>4, <1>5, <1>6, <1>7 DEF Indifferent

\* Setting a flag that is about the caller, or about what plays.
LEMMA FlagsAlone ==
    ASSUME NEW s \in Idle
    PROVE  /\ LET u == HandleSpeechStopped(s)
              IN  /\ u \in Idle /\ SameLink(s, u) /\ SameGate(s, u)
                  /\ u.active = s.active /\ u.lastAudio = s.lastAudio
                  /\ u.cancelled = s.cancelled /\ u.audible = s.audible
                  /\ ~u.callerSpeaking /\ u.suppressed = s.suppressed
           /\ LET u == SuppressBargeIn(s)
              IN  /\ u \in Idle /\ SameLink(s, u) /\ SameGate(s, u)
                  /\ u.active = s.active /\ u.lastAudio = s.lastAudio
                  /\ u.cancelled = s.cancelled /\ u.audible = s.audible
                  /\ u.callerSpeaking = s.callerSpeaking
           /\ LET u == [s EXCEPT !.audible = FALSE]
              IN  /\ u \in Idle /\ SameLink(s, u) /\ SameGate(s, u)
                  /\ u.active = s.active /\ u.lastAudio = s.lastAudio
                  /\ u.cancelled = s.cancelled /\ ~u.audible
                  /\ u.callerSpeaking = s.callerSpeaking /\ u.suppressed = s.suppressed
<1> DEFINE a == [s EXCEPT !.callerSpeaking = FALSE]
           e == [s EXCEPT !.suppressed = TRUE]
           b == Disarm(e, {"recovery"})
           c == [s EXCEPT !.audible = FALSE]
<1>1. a \in Provider /\ e \in Provider /\ c \in Provider
  BY DEF Provider, Idle
<1>2. b \in Provider
  BY <1>1, Setters
<1>3. a \in Idle /\ b \in Idle /\ c \in Idle
  BY <1>1, <1>2 DEF Idle, Provider, Disarm
<1>4. SameLink(s, a) /\ SameLink(s, b) /\ SameLink(s, c)
  BY DEF Provider, Idle, Disarm, SameLink
<1>5. SameGate(s, a) /\ SameGate(s, b) /\ SameGate(s, c)
  BY DEF Provider, Idle, Disarm, SameGate
<1>6. /\ a.active = s.active /\ a.lastAudio = s.lastAudio
      /\ a.cancelled = s.cancelled /\ a.audible = s.audible
      /\ ~a.callerSpeaking /\ a.suppressed = s.suppressed
  BY DEF Provider, Idle
<1>7. /\ b.active = s.active /\ b.lastAudio = s.lastAudio
      /\ b.cancelled = s.cancelled /\ b.audible = s.audible
      /\ b.callerSpeaking = s.callerSpeaking
  BY DEF Provider, Idle, Disarm
<1>8. /\ c.active = s.active /\ c.lastAudio = s.lastAudio
      /\ c.cancelled = s.cancelled /\ ~c.audible
      /\ c.callerSpeaking = s.callerSpeaking /\ c.suppressed = s.suppressed
  BY DEF Provider, Idle
<1>9. HandleSpeechStopped(s) = a /\ SuppressBargeIn(s) = b
  BY DEF HandleSpeechStopped, SuppressBargeIn
<1> HIDE DEF a, b, c
<1> QED BY <1>3, <1>4, <1>5, <1>6, <1>7, <1>8, <1>9 DEF c

-------------------------------------------------------------------------------
(***************************************************************************)
(* The handlers of the connection.                                         *)
(***************************************************************************)

Failure == <<[type |-> "error"], [type |-> "close"]>>

\* What is left of the connection when an attempt is rejected.
SameSocket(s, u) ==
    /\ u.terminal = s.terminal /\ u.socket = s.socket /\ u.wire = s.wire
    /\ u.opened = s.opened /\ u.created = s.created /\ u.ready = s.ready
    /\ u.hasBeenReady = s.hasBeenReady /\ u.readyFor = s.readyFor

\* scheduleReconnect and the end of a session, of a provider that is not stopped:
\* another attempt, or the end is told.
GoesOn(s, u) ==
    \/ u.closeEmitted = s.closeEmitted /\ u.calls = <<>> /\ "reconnect" \in u.timers
    \/ u.closeEmitted /\ u.calls = Failure /\ "reconnect" \notin u.timers

LEMMA FinishTells ==
    ASSUME NEW s \in Idle, ~s.closeEmitted
    PROVE  LET u == Finish(Tell(s, [type |-> "error"]))
               v == Finish(s)
           IN  /\ u \in Provider /\ SameSocket(s, u) /\ SameEar(s, u) /\ SameGate(s, u)
               /\ u.out = <<>> /\ u.calls = Failure /\ u.closeEmitted
               /\ u.promise = s.promise /\ u.stopped = s.stopped /\ u.pending = s.pending
               /\ u.timers = s.timers
               /\ v \in Provider /\ SameSocket(s, v) /\ SameEar(s, v) /\ SameGate(s, v)
               /\ v.out = <<>> /\ v.calls = <<[type |-> "close"]>> /\ v.closeEmitted
               /\ v.promise = s.promise /\ v.stopped = s.stopped /\ v.pending = s.pending
               /\ v.timers = s.timers
<1> DEFINE t == Tell(s, [type |-> "error"])
           e == [t EXCEPT !.closeEmitted = TRUE]
           u == Tell(e, [type |-> "close"])
           f == [s EXCEPT !.closeEmitted = TRUE]
           v == Tell(f, [type |-> "close"])
<1>1. t \in Provider
  BY Setters, Vocabulary DEF Idle
<1>2. e \in Provider /\ f \in Provider
  BY <1>1 DEF Provider, Idle
<1>3. u \in Provider /\ v \in Provider
  BY <1>2, Setters, Vocabulary
<1>4. SameSocket(s, u) /\ SameSocket(s, v)
  BY DEF Provider, Idle, Tell, SameSocket
<1>5. SameEar(s, u) /\ SameEar(s, v) /\ SameGate(s, u) /\ SameGate(s, v)
  BY DEF Provider, Idle, Tell, SameEar, SameGate
<1>6. /\ u.out = <<>> /\ u.closeEmitted
      /\ u.promise = s.promise /\ u.stopped = s.stopped /\ u.pending = s.pending
      /\ u.timers = s.timers
  BY DEF Provider, Idle, Tell
<1>7. /\ v.out = <<>> /\ v.closeEmitted
      /\ v.promise = s.promise /\ v.stopped = s.stopped /\ v.pending = s.pending
      /\ v.timers = s.timers
  BY DEF Provider, Idle, Tell
<1>8. u.calls = Failure /\ v.calls = <<[type |-> "close"]>>
  <2>1. /\ u.calls = Append(Append(<<>>, [type |-> "error"]), [type |-> "close"])
        /\ v.calls = Append(<<>>, [type |-> "close"])
    BY DEF Provider, Idle, Tell
  <2> QED BY <2>1, ShortSequences DEF Failure
<1>9. ~t.closeEmitted
  BY DEF Provider, Idle, Tell
<1>10. Finish(Tell(s, [type |-> "error"])) = u /\ Finish(s) = v
  BY <1>9 DEF Finish
<1> HIDE DEF u, v
<1> QED BY <1>3, <1>4, <1>5, <1>6, <1>7, <1>8, <1>10

LEMMA ReconnectGoesOn ==
    ASSUME NEW s \in Idle, ~s.stopped, ~s.closeEmitted, "reconnect" \notin s.timers
    PROVE  LET u == ScheduleReconnect(s)
           IN  /\ u \in Provider /\ SameSocket(s, u) /\ SameEar(s, u) /\ SameGate(s, u)
               /\ u.out = <<>> /\ GoesOn(s, u)
               /\ u.promise = s.promise /\ u.stopped = s.stopped /\ u.pending = s.pending
               /\ "ready" \in u.timers <=> "ready" \in s.timers
<1> DEFINE e == [s EXCEPT !.attempts = @ + 1]
           a == Arm(e, "reconnect")
<1>1. CASE s.attempts >= MaxReconnectAttempts
  <2>1. ScheduleReconnect(s) = Finish(Tell(s, [type |-> "error"]))
    BY <1>1 DEF ScheduleReconnect
  <2> QED BY <2>1, FinishTells DEF GoesOn
<1>2. CASE ~(s.attempts >= MaxReconnectAttempts)
  <2>1. e \in Provider
    <3>1. s.attempts + 1 \in 0..MaxReconnectAttempts
      BY <1>2, ProviderAssumption DEF Provider, Idle
    <3> QED BY <3>1 DEF Provider, Idle
  <2>2. a \in Provider
    BY <2>1, Setters DEF Timers
  <2>3. SameSocket(s, a) /\ SameEar(s, a)
    BY DEF Provider, Idle, Arm, SameSocket, SameEar
  <2>4. SameGate(s, a) /\ GoesOn(s, a) /\ a.out = <<>>
    BY DEF Provider, Idle, Arm, SameGate, GoesOn
  <2>5. /\ a.promise = s.promise /\ a.stopped = s.stopped /\ a.pending = s.pending
        /\ "ready" \in a.timers <=> "ready" \in s.timers
    BY DEF Provider, Idle, Arm
  <2>6. ScheduleReconnect(s) = a
    BY <1>2 DEF ScheduleReconnect
  <2> HIDE DEF a
  <2> QED BY <2>2, <2>3, <2>4, <2>5, <2>6
<1> QED BY <1>1, <1>2

\* attemptRejected.  The promise start() gave is broken and nothing is told; later
\* the session goes on, is given up, or was stopped in the meantime.
Rejects(s, u) ==
    /\ u \in Provider /\ SameSocket(s, u) /\ SameEar(s, u)
    /\ u.awaiting = s.awaiting /\ u.queued = s.queued
    /\ u.out = <<>> /\ u.pending = 0
    /\ \/ /\ s.promise = "awaited" /\ u.promise = "broken"
          /\ u.stopped /\ u.closeEmitted /\ u.calls = <<>>
          /\ "ready" \notin u.timers /\ "reconnect" \notin u.timers
       \/ /\ s.promise # "awaited" /\ u.promise = s.promise /\ u.stopped = s.stopped
          /\ SameGate(s, u)
          /\ "ready" \in u.timers <=> "ready" \in s.timers
          /\ \/ /\ s.terminal /\ u.closeEmitted /\ u.calls = Failure
                /\ "reconnect" \in u.timers <=> "reconnect" \in s.timers
             \/ ~s.terminal /\ ~s.stopped /\ GoesOn(s, u)
             \/ /\ ~s.terminal /\ s.stopped /\ u.closeEmitted = s.closeEmitted
                /\ u.calls = <<>>
                /\ "reconnect" \in u.timers <=> "reconnect" \in s.timers

LEMMA RejectionRejects ==
    ASSUME NEW s \in Idle,
           s.terminal => ~s.closeEmitted,
           ~s.stopped => ~s.closeEmitted /\ "reconnect" \notin s.timers
    PROVE  Rejects(s, AttemptRejected(s))
<1> DEFINE e == [s EXCEPT !.pending = 0]
           b == [e EXCEPT !.stopped = TRUE, !.closeEmitted = TRUE, !.promise = "broken"]
           c == ClearTimers(b)
<1>1. e \in Idle /\ b \in Provider
  BY DEF Provider, Idle, Promises
<1>2. c \in Provider
  BY <1>1, Setters DEF ClearTimers
<1>3. /\ SameSocket(s, e) /\ SameEar(s, e) /\ SameGate(s, e)
      /\ e.pending = 0 /\ e.promise = s.promise /\ e.stopped = s.stopped
      /\ e.closeEmitted = s.closeEmitted /\ e.timers = s.timers
      /\ e.out = <<>> /\ e.calls = <<>> /\ e.terminal = s.terminal
  <2>1. SameSocket(s, e) /\ SameEar(s, e) /\ SameGate(s, e)
    BY DEF Provider, Idle, SameSocket, SameEar, SameGate
  <2> QED BY <2>1 DEF Provider, Idle
<1>4. SameSocket(s, c) /\ SameEar(s, c)
  BY DEF Provider, Idle, SameSocket, SameEar, ClearTimers, Disarm
<1>5. /\ c.pending = 0 /\ c.promise = "broken" /\ c.stopped /\ c.closeEmitted
      /\ c.out = <<>> /\ c.calls = <<>> /\ c.awaiting = s.awaiting /\ c.queued = s.queued
      /\ "ready" \notin c.timers /\ "reconnect" \notin c.timers
  BY DEF Provider, Idle, ClearTimers, Disarm
<1>6. CASE s.promise = "awaited"
  <2>1. AttemptRejected(s) = c
    <3>1. AttemptRejected(s) =
            ClearTimers([e EXCEPT !.stopped = TRUE, !.closeEmitted = TRUE,
                                  !.promise = "broken"])
      BY <1>6 DEF AttemptRejected
    <3> QED BY <3>1
  <2> HIDE DEF c
  <2> QED BY <1>2, <1>4, <1>5, <1>6, <2>1 DEF Rejects
<1>7. CASE s.promise # "awaited"
  <2>1. AttemptRejected(s) =
          IF s.terminal THEN Finish(Tell(e, [type |-> "error"])) ELSE ScheduleReconnect(e)
    BY <1>7 DEF AttemptRejected
  <2> HIDE DEF e
  <2>2. CASE s.terminal
    <3> DEFINE u == Finish(Tell(e, [type |-> "error"]))
    <3>1. /\ u \in Provider /\ SameSocket(e, u) /\ SameEar(e, u) /\ SameGate(e, u)
          /\ u.out = <<>> /\ u.calls = Failure /\ u.closeEmitted
          /\ u.promise = e.promise /\ u.stopped = e.stopped /\ u.pending = e.pending
          /\ u.timers = e.timers
      BY <1>1, <1>3, <2>2, FinishTells
    <3> HIDE DEF u
    <3>2. SameSocket(s, u)
      BY <1>3, <3>1 DEF SameSocket
    <3>3. SameEar(s, u) /\ SameGate(s, u)
      BY <1>3, <3>1 DEF SameEar, SameGate
    <3>4. Rejects(s, u)
      BY <1>3, <1>7, <2>2, <3>1, <3>2, <3>3 DEF Rejects, SameGate
    <3> QED BY <2>1, <2>2, <3>4 DEF u
  <2>3. CASE ~s.terminal /\ ~s.stopped
    <3> DEFINE u == ScheduleReconnect(e)
    <3>1. /\ u \in Provider /\ SameSocket(e, u) /\ SameEar(e, u) /\ SameGate(e, u)
          /\ u.out = <<>> /\ GoesOn(e, u)
          /\ u.promise = e.promise /\ u.stopped = e.stopped /\ u.pending = e.pending
          /\ "ready" \in u.timers <=> "ready" \in e.timers
      BY <1>1, <1>3, <2>3, ReconnectGoesOn
    <3> HIDE DEF u
    <3>2. SameSocket(s, u)
      BY <1>3, <3>1 DEF SameSocket
    <3>3. SameEar(s, u) /\ SameGate(s, u) /\ GoesOn(s, u)
      BY <1>3, <3>1 DEF SameEar, SameGate, GoesOn
    <3>4. Rejects(s, u)
      BY <1>3, <1>7, <2>3, <3>1, <3>2, <3>3 DEF Rejects, SameGate
    <3> QED BY <2>1, <2>3, <3>4 DEF u
  <2>4. CASE ~s.terminal /\ s.stopped
    <3>1. AttemptRejected(s) = e
      BY <1>3, <2>1, <2>4 DEF ScheduleReconnect
    <3>2. e \in Provider
      BY <1>1 DEF Idle
    <3> QED BY <1>3, <1>7, <2>4, <3>1, <3>2 DEF Rejects, SameGate
  <2> QED BY <2>2, <2>3, <2>4
<1> QED BY <1>6, <1>7

\* The socket is gone, and with it whatever was heard or asked for.
Lost(s, x) ==
    /\ x \in Idle
    /\ x.socket = 0 /\ x.wire = "none" /\ ~x.ready
    /\ x.promise = s.promise /\ x.stopped = s.stopped /\ x.closeEmitted = s.closeEmitted
    /\ x.terminal = s.terminal /\ x.pending = s.pending /\ x.opened = s.opened
    /\ x.hasBeenReady = s.hasBeenReady /\ x.readyFor = s.readyFor
    /\ x.lastAudio = s.lastAudio /\ x.cancelled = s.cancelled
    /\ x.suppressed = s.suppressed
    /\ x.active = 0 /\ ~x.awaiting /\ ~x.queued /\ ~x.audible /\ ~x.callerSpeaking
    /\ "ready" \notin x.timers
    /\ "reconnect" \in x.timers <=> "reconnect" \in s.timers

\* handleClose of a session that was not stopped.
CloseLeaves(s, u) ==
    /\ u \in Provider /\ u.out = <<>>
    /\ u.socket = 0 /\ u.wire = "none" /\ ~u.ready /\ u.pending = 0
    /\ u.terminal = s.terminal /\ u.opened = s.opened
    /\ u.hasBeenReady = s.hasBeenReady /\ u.readyFor = s.readyFor
    /\ u.lastAudio = s.lastAudio /\ u.cancelled = s.cancelled
    /\ u.suppressed = s.suppressed
    /\ u.active = 0 /\ ~u.awaiting /\ ~u.queued /\ ~u.audible /\ ~u.callerSpeaking
    /\ "ready" \notin u.timers

CloseTells(s, u) ==
    \/ /\ s.promise = "awaited" /\ s.pending = s.socket /\ u.promise = "broken"
       /\ u.stopped /\ u.closeEmitted /\ u.calls = <<>>
       /\ "reconnect" \notin u.timers
    \/ /\ s.promise # "awaited" \/ s.pending # s.socket
       /\ u.promise = s.promise /\ u.stopped = s.stopped
       /\ \/ GoesOn(s, u)
          \/ /\ u.closeEmitted /\ u.calls = <<[type |-> "close"]>>
             /\ "reconnect" \notin u.timers

LEMMA CloseLoses ==
    ASSUME NEW s \in Idle, NEW normal \in BOOLEAN,
           s.pending \in {0, s.socket}, s.socket # 0,
           ~s.stopped, ~s.closeEmitted, ~s.terminal, "reconnect" \notin s.timers
    PROVE  /\ CloseLeaves(s, HandleClose(s, normal))
           /\ CloseTells(s, HandleClose(s, normal))
<1> DEFINE e == [s EXCEPT !.socket = 0, !.wire = "none", !.created = FALSE,
                          !.ready = FALSE, !.active = 0, !.awaiting = FALSE,
                          !.queued = FALSE, !.audible = FALSE, !.callerSpeaking = FALSE]
           d == Disarm(e, {"ready", "response"})
           x == ClearPendingTool(d)
           u == HandleClose(s, normal)
<1>1. x \in Provider
  <2>1. [s EXCEPT !.socket = 0, !.wire = "none", !.created = FALSE] \in Provider
    BY DEF Provider, Idle, Wires
  <2> DEFINE a == [s EXCEPT !.socket = 0, !.wire = "none", !.created = FALSE]
  <2> HIDE DEF a
  <2>a. a \in Provider
    BY <2>1 DEF a
  <2>2. [a EXCEPT !.ready = FALSE, !.active = 0, !.awaiting = FALSE] \in Provider
    BY <2>a DEF Provider
  <2> DEFINE b == [a EXCEPT !.ready = FALSE, !.active = 0, !.awaiting = FALSE]
  <2> HIDE DEF b
  <2>b. b \in Provider
    BY <2>2 DEF b
  <2>3. [b EXCEPT !.queued = FALSE, !.audible = FALSE, !.callerSpeaking = FALSE] \in Provider
    BY <2>b DEF Provider
  <2>4. e \in Provider
    BY <2>3 DEF a, b
  <2> QED BY <2>4, Setters
<1>2. Lost(s, x)
  <2>1. x \in Idle
    BY <1>1 DEF Provider, Idle, ClearPendingTool, Disarm
  <2>2. /\ x.socket = 0 /\ x.wire = "none" /\ ~x.ready
        /\ x.promise = s.promise /\ x.stopped = s.stopped
        /\ x.closeEmitted = s.closeEmitted
        /\ x.terminal = s.terminal /\ x.pending = s.pending /\ x.opened = s.opened
        /\ x.hasBeenReady = s.hasBeenReady /\ x.readyFor = s.readyFor
    BY DEF Provider, Idle, ClearPendingTool, Disarm
  <2>3. /\ x.lastAudio = s.lastAudio /\ x.cancelled = s.cancelled
        /\ x.suppressed = s.suppressed
        /\ x.active = 0 /\ ~x.awaiting /\ ~x.queued /\ ~x.audible /\ ~x.callerSpeaking
        /\ "ready" \notin x.timers
        /\ "reconnect" \in x.timers <=> "reconnect" \in s.timers
    BY DEF Provider, Idle, ClearPendingTool, Disarm
  <2> HIDE DEF x
  <2> QED BY <2>1, <2>2, <2>3 DEF Lost
<1>3. u = IF s.pending = s.socket THEN AttemptRejected(x)
          ELSE IF normal THEN Finish(x)
          ELSE ScheduleReconnect(x)
  BY DEF HandleClose
<1> HIDE DEF x, u
<1>4. CASE s.pending = s.socket
  <2>1. Rejects(x, u)
    BY <1>2, <1>3, <1>4, RejectionRejects DEF Lost
  <2>2. /\ u \in Provider /\ u.out = <<>>
        /\ u.socket = 0 /\ u.wire = "none" /\ ~u.ready /\ u.pending = 0
        /\ u.terminal = s.terminal /\ u.opened = s.opened
        /\ u.hasBeenReady = s.hasBeenReady /\ u.readyFor = s.readyFor
        /\ "ready" \notin u.timers
    BY <1>2, <2>1 DEF Lost, Rejects, SameSocket
  <2>3. /\ u.lastAudio = s.lastAudio /\ u.cancelled = s.cancelled
        /\ u.suppressed = s.suppressed
        /\ u.active = 0 /\ ~u.awaiting /\ ~u.queued /\ ~u.audible /\ ~u.callerSpeaking
    BY <1>2, <2>1 DEF Lost, Rejects, SameEar
  <2>4. \/ /\ s.promise = "awaited" /\ s.pending = s.socket /\ u.promise = "broken"
           /\ u.stopped /\ u.closeEmitted /\ u.calls = <<>>
           /\ "reconnect" \notin u.timers
        \/ /\ s.promise # "awaited"
           /\ u.promise = s.promise /\ u.stopped = s.stopped
           /\ GoesOn(s, u)
    BY <1>2, <1>4, <2>1 DEF Lost, Rejects, GoesOn
  <2>5. CloseLeaves(s, u)
    BY <2>2, <2>3 DEF CloseLeaves
  <2>6. CloseTells(s, u)
    BY <2>4 DEF CloseTells
  <2> QED BY <2>5, <2>6 DEF u
<1>5. CASE s.pending # s.socket /\ normal
  <2>1. /\ u \in Provider /\ SameSocket(x, u) /\ SameEar(x, u) /\ SameGate(x, u)
        /\ u.out = <<>> /\ u.calls = <<[type |-> "close"]>> /\ u.closeEmitted
        /\ u.promise = x.promise /\ u.stopped = x.stopped /\ u.pending = x.pending
        /\ u.timers = x.timers
    BY <1>2, <1>3, <1>5, FinishTells DEF Lost
  <2>2. CloseLeaves(s, u)
    BY <1>2, <1>5, <2>1 DEF Lost, SameSocket, SameEar, SameGate, CloseLeaves
  <2>3. CloseTells(s, u)
    BY <1>2, <1>5, <2>1 DEF Lost, CloseTells
  <2> QED BY <2>2, <2>3 DEF u
<1>6. CASE s.pending # s.socket /\ ~normal
  <2>1. /\ u \in Provider /\ SameSocket(x, u) /\ SameEar(x, u) /\ SameGate(x, u)
        /\ u.out = <<>> /\ GoesOn(x, u)
        /\ u.promise = x.promise /\ u.stopped = x.stopped /\ u.pending = x.pending
        /\ "ready" \in u.timers <=> "ready" \in x.timers
    BY <1>2, <1>3, <1>6, ReconnectGoesOn DEF Lost
  <2>2. GoesOn(s, u)
    BY <1>2, <2>1 DEF Lost, GoesOn
  <2>3. CloseLeaves(s, u)
    BY <1>2, <1>6, <2>1 DEF Lost, SameSocket, SameEar, SameGate, CloseLeaves
  <2>4. CloseTells(s, u)
    BY <1>2, <1>6, <2>1, <2>2 DEF Lost, CloseTells
  <2> QED BY <2>3, <2>4 DEF u
<1> QED BY <1>4, <1>5, <1>6

\* abandonSocket of the current socket
Abandoned(s, x) ==
    /\ x \in Idle
    /\ x.socket = 0 /\ x.wire = "none" /\ ~x.ready
    /\ x.promise = s.promise /\ x.stopped = s.stopped /\ x.closeEmitted = s.closeEmitted
    /\ x.pending = s.pending /\ x.opened = s.opened
    /\ x.hasBeenReady = s.hasBeenReady /\ x.readyFor = s.readyFor
    /\ SameEar(s, x) /\ SameGate(s, x)
    /\ "ready" \in x.timers <=> "ready" \in s.timers
    /\ "reconnect" \in x.timers <=> "reconnect" \in s.timers

\* The timer of an attempt, or a terminal error.
GivesSocketUp(s, u) ==
    /\ u \in Provider /\ u.out = <<>>
    /\ u.socket = 0 /\ u.wire = "none" /\ ~u.ready /\ u.pending = 0
    /\ u.opened = s.opened
    /\ u.hasBeenReady = s.hasBeenReady /\ u.readyFor = s.readyFor
    /\ SameEar(s, u) /\ u.awaiting = s.awaiting /\ u.queued = s.queued

PromiseBreaks(s, u) ==
    /\ s.promise = "awaited" /\ s.pending # 0 /\ u.promise = "broken"
    /\ u.stopped /\ u.closeEmitted /\ u.calls = <<>>
    /\ "reconnect" \notin u.timers /\ "ready" \notin u.timers

PromiseStands(s, u) ==
    /\ s.promise # "awaited" \/ s.pending = 0
    /\ u.promise = s.promise /\ u.stopped = s.stopped
    /\ "ready" \in u.timers <=> "ready" \in s.timers
    /\ SameGate(s, u)

LEMMA TimeoutGivesUp ==
    ASSUME NEW s \in Idle,
           s.pending # 0, ~s.terminal,
           s.socket \in {0, s.pending}, s.socket = 0 <=> s.wire = "none", s.ready => s.socket # 0,
           ~s.stopped => ~s.closeEmitted /\ "reconnect" \notin s.timers
    PROVE  LET u == AttemptTimeout(s)
           IN  /\ GivesSocketUp(s, u) /\ ~u.terminal
               /\ \/ PromiseBreaks(s, u)
                  \/ PromiseStands(s, u) /\ ~s.stopped /\ GoesOn(s, u)
                  \/ /\ PromiseStands(s, u) /\ s.stopped
                     /\ u.closeEmitted = s.closeEmitted /\ u.calls = <<>>
                     /\ "reconnect" \in u.timers <=> "reconnect" \in s.timers
<1> DEFINE x == AbandonSocket(s, s.pending)
           u == AttemptRejected(x)
<1>1. Abandoned(s, x) /\ ~x.terminal
  <2>1. x \in Idle
    BY DEF Provider, Idle, AbandonSocket, Wires
  <2>2. /\ x.socket = 0 /\ x.wire = "none" /\ ~x.ready /\ ~x.terminal
        /\ x.promise = s.promise /\ x.stopped = s.stopped /\ x.closeEmitted = s.closeEmitted
        /\ x.pending = s.pending /\ x.opened = s.opened
        /\ x.hasBeenReady = s.hasBeenReady /\ x.readyFor = s.readyFor
        /\ x.timers = s.timers
    BY DEF Provider, Idle, AbandonSocket
  <2>3. SameEar(s, x) /\ SameGate(s, x)
    BY DEF Provider, Idle, AbandonSocket, SameEar, SameGate
  <2> HIDE DEF x
  <2> QED BY <2>1, <2>2, <2>3 DEF Abandoned
<1> HIDE DEF x
<1>2. Rejects(x, u)
  BY <1>1, RejectionRejects DEF Abandoned
<1> HIDE DEF u
<1>3. /\ u \in Provider /\ u.out = <<>>
      /\ u.socket = 0 /\ u.wire = "none" /\ ~u.ready /\ u.pending = 0
      /\ u.opened = s.opened /\ ~u.terminal
      /\ u.hasBeenReady = s.hasBeenReady /\ u.readyFor = s.readyFor
  BY <1>1, <1>2 DEF Abandoned, Rejects, SameSocket
<1>4. SameEar(s, u) /\ u.awaiting = s.awaiting /\ u.queued = s.queued
  BY <1>1, <1>2 DEF Abandoned, Rejects, SameEar, SameGate
<1>g. GivesSocketUp(s, u)
  BY <1>3, <1>4 DEF GivesSocketUp
<1>7. AttemptTimeout(s) = u
  BY DEF AttemptTimeout, x, u
<1>5. CASE s.promise = "awaited"
  <2>1. PromiseBreaks(s, u)
    BY <1>1, <1>2, <1>5 DEF Abandoned, Rejects, PromiseBreaks
  <2> QED BY <1>3, <1>g, <1>7, <2>1
<1>6. CASE s.promise # "awaited"
  <2>1. GoesOn(x, u) => GoesOn(s, u)
    BY <1>1 DEF Abandoned, GoesOn
  <2>2. SameGate(x, u) => SameGate(s, u)
    BY <1>1 DEF Abandoned, SameGate
  <2>3. PromiseStands(s, u)
    BY <1>1, <1>2, <1>6, <2>2 DEF Abandoned, Rejects, PromiseStands
  <2>4. CASE s.stopped
    <3>1. /\ u.closeEmitted = s.closeEmitted /\ u.calls = <<>>
          /\ "reconnect" \in u.timers <=> "reconnect" \in s.timers
      BY <1>1, <1>2, <1>6, <2>4 DEF Abandoned, Rejects
    <3> QED BY <1>3, <1>g, <1>7, <2>3, <2>4, <3>1
  <2>5. CASE ~s.stopped
    <3>1. GoesOn(s, u)
      BY <1>1, <1>2, <1>6, <2>1, <2>5 DEF Abandoned, Rejects
    <3> QED BY <1>3, <1>g, <1>7, <2>3, <2>5, <3>1
  <2> QED BY <2>4, <2>5
<1> QED BY <1>5, <1>6

LEMMA TerminalGivesUp ==
    ASSUME NEW s \in Idle,
           s.socket # 0, s.pending \in {0, s.socket},
           ~s.stopped, ~s.closeEmitted, "reconnect" \notin s.timers
    PROVE  LET u == HandleTerminalError(s)
           IN  /\ GivesSocketUp(s, u) /\ u.terminal
               /\ \/ PromiseBreaks(s, u)
                  \/ /\ PromiseStands(s, u)
                     /\ u.closeEmitted /\ u.calls = Failure /\ "reconnect" \notin u.timers
<1> DEFINE e == [s EXCEPT !.terminal = TRUE]
           x == AbandonSocket(e, s.socket)
           u == HandleTerminalError(s)
<1>1. Abandoned(s, x) /\ x.terminal
  <2>1. x \in Idle
    BY DEF Provider, Idle, AbandonSocket, Wires
  <2>2. /\ x.socket = 0 /\ x.wire = "none" /\ ~x.ready /\ x.terminal
        /\ x.promise = s.promise /\ x.stopped = s.stopped /\ x.closeEmitted = s.closeEmitted
        /\ x.pending = s.pending /\ x.opened = s.opened
        /\ x.hasBeenReady = s.hasBeenReady /\ x.readyFor = s.readyFor
        /\ x.timers = s.timers
    BY DEF Provider, Idle, AbandonSocket
  <2>3. SameEar(s, x) /\ SameGate(s, x)
    BY DEF Provider, Idle, AbandonSocket, SameEar, SameGate
  <2> HIDE DEF x
  <2> QED BY <2>1, <2>2, <2>3 DEF Abandoned
<1>2. u = IF s.pending = s.socket THEN AttemptRejected(x)
          ELSE Finish(Tell(x, [type |-> "error"]))
  BY DEF HandleTerminalError
<1> HIDE DEF x, u
<1>3. CASE s.pending = s.socket
  <2>1. Rejects(x, u)
    BY <1>1, <1>2, <1>3, RejectionRejects DEF Abandoned
  <2>2. /\ u \in Provider /\ u.out = <<>>
        /\ u.socket = 0 /\ u.wire = "none" /\ ~u.ready /\ u.pending = 0
        /\ u.opened = s.opened /\ u.terminal
        /\ u.hasBeenReady = s.hasBeenReady /\ u.readyFor = s.readyFor
    BY <1>1, <2>1 DEF Abandoned, Rejects, SameSocket
  <2>3. SameEar(s, u) /\ u.awaiting = s.awaiting /\ u.queued = s.queued
    BY <1>1, <2>1 DEF Abandoned, Rejects, SameEar, SameGate
  <2>4. SameGate(x, u) => SameGate(s, u)
    BY <1>1 DEF Abandoned, SameGate
  <2>5. GivesSocketUp(s, u)
    BY <2>2, <2>3 DEF GivesSocketUp
  <2>6. CASE s.promise = "awaited"
    <3>1. PromiseBreaks(s, u)
      BY <1>1, <1>3, <2>1, <2>6 DEF Abandoned, Rejects, PromiseBreaks
    <3> QED BY <2>2, <2>5, <3>1 DEF u
  <2>7. CASE s.promise # "awaited"
    <3>1. PromiseStands(s, u)
      BY <1>1, <2>1, <2>4, <2>7 DEF Abandoned, Rejects, PromiseStands
    <3>2. u.closeEmitted /\ u.calls = Failure /\ "reconnect" \notin u.timers
      BY <1>1, <2>1, <2>7 DEF Abandoned, Rejects
    <3> QED BY <2>2, <2>5, <3>1, <3>2 DEF u
  <2> QED BY <2>6, <2>7
<1>4. CASE s.pending # s.socket
  <2>1. /\ u \in Provider /\ SameSocket(x, u) /\ SameEar(x, u) /\ SameGate(x, u)
        /\ u.out = <<>> /\ u.calls = Failure /\ u.closeEmitted
        /\ u.promise = x.promise /\ u.stopped = x.stopped /\ u.pending = x.pending
        /\ u.timers = x.timers
    BY <1>1, <1>2, <1>4, FinishTells DEF Abandoned
  <2>2. SameEar(s, u) /\ SameGate(s, u)
    BY <1>1, <2>1 DEF Abandoned, SameEar, SameGate
  <2>3. u.terminal
    BY <1>1, <2>1 DEF SameSocket
  <2>4. GivesSocketUp(s, u)
    <3>1. /\ u.socket = 0 /\ u.wire = "none" /\ ~u.ready /\ u.pending = 0
          /\ u.opened = s.opened
          /\ u.hasBeenReady = s.hasBeenReady /\ u.readyFor = s.readyFor
      BY <1>1, <1>4, <2>1 DEF Abandoned, SameSocket
    <3> QED BY <2>1, <2>2, <3>1 DEF GivesSocketUp, SameGate
  <2>5. PromiseStands(s, u)
    BY <1>1, <1>4, <2>1, <2>2 DEF Abandoned, PromiseStands
  <2>6. "reconnect" \notin u.timers
    BY <1>1, <2>1 DEF Abandoned
  <2> QED BY <2>1, <2>3, <2>4, <2>5, <2>6 DEF u
<1> QED BY <1>3, <1>4

\* markReady of the current socket, when it is not ready yet.
ReadyLeaves(s, u) ==
    /\ u \in Provider
    /\ u.stopped = s.stopped /\ u.closeEmitted = s.closeEmitted /\ u.terminal = s.terminal
    /\ u.socket = s.socket /\ u.wire = s.wire /\ u.opened = s.opened
    /\ u.readyFor = s.readyFor /\ u.ready /\ u.hasBeenReady
    /\ "ready" \notin u.timers
    /\ "reconnect" \in u.timers <=> "reconnect" \in s.timers

ReadyTells(s, u) ==
    /\ u.pending = 0
    /\ u.promise = IF s.pending = s.socket /\ s.promise = "awaited" THEN "kept" ELSE s.promise
    /\ u.calls = IF s.hasBeenReady THEN <<[type |-> "restored"]>> ELSE <<[type |-> "ready"]>>

\* ... which speaks the lines that were held.
ReadyAsks(s, u) ==
    /\ SameEar(s, u) /\ Gate(s, u)
    /\ \/ u.out = <<>>
       \/ u.out = <<Creation>> /\ u.awaiting /\ ~s.awaiting /\ s.wire = "open"

LEMMA ReadyMarks ==
    ASSUME NEW s \in Idle, s.pending \in {0, s.socket}, ~s.stopped, ~s.ready
    PROVE  LET u == MarkReady(s, s.socket)
           IN  ReadyLeaves(s, u) /\ ReadyTells(s, u) /\ ReadyAsks(s, u)
<1> DEFINE e == [s EXCEPT !.created = TRUE, !.ready = TRUE, !.attempts = 0,
                          !.hasBeenReady = TRUE]
           d == Disarm(e, {"ready"})
           k == AttemptKept(d, s.socket)
           c == IF s.hasBeenReady THEN [type |-> "restored"] ELSE [type |-> "ready"]
           t == Tell(k, c)
           u == FlushPendingSayLines(t)
<1>1. e \in Provider
  <2>1. 0 \in 0..MaxReconnectAttempts
    BY ProviderAssumption
  <2> QED BY <2>1 DEF Provider, Idle
<1>2. d \in Provider
  BY <1>1, Setters
<1>3. /\ d.stopped = s.stopped /\ d.closeEmitted = s.closeEmitted /\ d.terminal = s.terminal
      /\ d.socket = s.socket /\ d.wire = s.wire /\ d.opened = s.opened
      /\ d.readyFor = s.readyFor /\ d.ready /\ d.hasBeenReady
      /\ "ready" \notin d.timers
      /\ "reconnect" \in d.timers <=> "reconnect" \in s.timers
  BY DEF Provider, Idle, Disarm
<1>4. /\ d.pending = s.pending /\ d.promise = s.promise
      /\ d.out = <<>> /\ d.calls = <<>>
      /\ SameEar(s, d) /\ SameGate(s, d)
  BY DEF Provider, Idle, Disarm, SameEar, SameGate
<1> HIDE DEF d
<1>5. k \in Provider
  <2>1. (IF d.promise = "awaited" THEN "kept" ELSE d.promise) \in Promises
    BY <1>2 DEF Provider, Promises
  <2>2. [d EXCEPT !.pending = 0, !.promise = IF @ = "awaited" THEN "kept" ELSE @]
          \in Provider
    BY <1>2, <2>1 DEF Provider
  <2> QED BY <1>2, <2>2 DEF AttemptKept
<1>6. /\ k.stopped = s.stopped /\ k.closeEmitted = s.closeEmitted /\ k.terminal = s.terminal
      /\ k.socket = s.socket /\ k.wire = s.wire /\ k.opened = s.opened
      /\ k.readyFor = s.readyFor /\ k.ready /\ k.hasBeenReady
      /\ "ready" \notin k.timers
      /\ "reconnect" \in k.timers <=> "reconnect" \in s.timers
  BY <1>2, <1>3 DEF Provider, AttemptKept
<1>7. /\ k.pending = 0
      /\ k.promise = (IF s.pending = s.socket /\ s.promise = "awaited"
                      THEN "kept" ELSE s.promise)
      /\ k.out = <<>> /\ k.calls = <<>>
  BY <1>2, <1>4 DEF Provider, AttemptKept
<1>8. SameEar(s, k) /\ SameGate(s, k)
  BY <1>2, <1>4 DEF Provider, AttemptKept, SameEar, SameGate
<1> HIDE DEF k
<1>9. c \in Telling
  BY Vocabulary
<1>10. t \in Provider
  BY <1>5, <1>9, Setters
<1>11. /\ SameLink(k, t) /\ SameEar(k, t) /\ SameGate(k, t)
       /\ t.out = <<>> /\ t.calls = <<c>>
  <2>1. SameLink(k, t) /\ SameEar(k, t)
    BY <1>5 DEF Provider, Tell, SameLink, SameEar
  <2>2. SameGate(k, t) /\ t.out = <<>> /\ t.calls = Append(<<>>, c)
    BY <1>5, <1>7 DEF Provider, Tell, SameGate
  <2> QED BY <2>1, <2>2, ShortSequences
<1> HIDE DEF t
<1>12. Talks(t, u)
  BY <1>10, FlushLinesTalks
<1> HIDE DEF u
<1>13. ReadyLeaves(s, u)
  BY <1>6, <1>11, <1>12 DEF ReadyLeaves, Talks, SameLink
<1>14. ReadyTells(s, u)
  <2>1. u.calls = <<c>>
    BY <1>11, <1>12 DEF Talks
  <2>2. u.pending = k.pending /\ u.promise = k.promise
    BY <1>11, <1>12 DEF Talks, SameLink
  <2> QED BY <1>7, <2>1, <2>2 DEF ReadyTells
<1>15. ReadyAsks(s, u)
  <2>1. SameEar(s, u)
    BY <1>8, <1>11, <1>12 DEF Talks, SameEar
  <2>2. Gate(s, u)
    BY <1>8, <1>11, <1>12 DEF Talks, Gate, SameGate, SameEar
  <2>3. \/ u.out = <<>>
        \/ u.out = <<Creation>> /\ u.awaiting /\ ~s.awaiting /\ s.wire = "open"
    BY <1>6, <1>8, <1>11, <1>12, ShortSequences DEF Talks, Sends, SameGate, SameLink
  <2> QED BY <2>1, <2>2, <2>3 DEF ReadyAsks
<1>16. MarkReady(s, s.socket) = u
  <2>1. MarkReady(s, s.socket) =
          IF s.hasBeenReady THEN FlushPendingSayLines(Tell(k, [type |-> "restored"]))
          ELSE FlushPendingSayLines(Tell(k, [type |-> "ready"]))
    BY DEF MarkReady, k, d
  <2> QED BY <2>1 DEF u, t
<1> QED BY <1>13, <1>14, <1>15, <1>16

LEMMA GraceMarks ==
    ASSUME NEW s \in Idle, s.pending \in {0, s.socket}, ~s.stopped,
           s.readyFor = s.socket
    PROVE  LET u == ReadyGrace(s)
           IN  \/ /\ ~s.ready
                  /\ ReadyLeaves(s, u) /\ ReadyTells(s, u) /\ ReadyAsks(s, u)
               \/ /\ s.ready /\ u = Disarm(s, {"ready"})
<1> DEFINE f == Disarm(s, {"ready"})
           u == MarkReady(f, f.socket)
<1>1. f \in Idle
  <2>1. f \in Provider
    BY Setters DEF Idle
  <2>2. f.out = <<>> /\ f.calls = <<>>
    BY DEF Idle, Provider, Disarm
  <2> QED BY <2>1, <2>2 DEF Idle
<1>2. /\ f.pending = s.pending /\ f.stopped = s.stopped /\ f.ready = s.ready
      /\ f.socket = s.socket /\ f.promise = s.promise /\ f.hasBeenReady = s.hasBeenReady
      /\ f.closeEmitted = s.closeEmitted /\ f.terminal = s.terminal
      /\ f.wire = s.wire /\ f.opened = s.opened /\ f.readyFor = s.readyFor
      /\ "reconnect" \in f.timers <=> "reconnect" \in s.timers
  BY DEF Idle, Provider, Disarm
<1>3. SameEar(s, f) /\ SameGate(s, f)
  BY DEF Idle, Provider, Disarm, SameEar, SameGate
<1>4. ReadyGrace(s) = IF s.ready THEN f ELSE u
  BY <1>2 DEF ReadyGrace
<1> HIDE DEF f
<1>5. ASSUME ~s.ready
      PROVE  ReadyLeaves(s, u) /\ ReadyTells(s, u) /\ ReadyAsks(s, u)
  <2>1. ReadyLeaves(f, u) /\ ReadyTells(f, u) /\ ReadyAsks(f, u)
    BY <1>1, <1>2, <1>5, ReadyMarks
  <2> HIDE DEF u
  <2>2. ReadyLeaves(s, u)
    BY <1>2, <2>1 DEF ReadyLeaves
  <2>3. ReadyTells(s, u)
    BY <1>2, <2>1 DEF ReadyTells
  <2>4. ReadyAsks(s, u)
    BY <1>2, <1>3, <2>1 DEF ReadyAsks, SameEar, SameGate, Gate
  <2> QED BY <2>2, <2>3, <2>4
<1> HIDE DEF u
<1> QED BY <1>4, <1>5 DEF f

\* stop()
Stops(s, u) ==
    /\ u \in Provider
    /\ u.stopped /\ u.closeEmitted
    /\ u.calls = IF s.closeEmitted THEN <<>> ELSE <<[type |-> "close"]>>
    /\ u.socket = 0 /\ u.wire = "none" /\ ~u.ready
    /\ u.promise = s.promise /\ u.terminal = s.terminal /\ u.pending = s.pending
    /\ u.opened = s.opened /\ u.hasBeenReady = s.hasBeenReady /\ u.readyFor = s.readyFor
    /\ "ready" \notin u.timers /\ "reconnect" \notin u.timers

Falls(s, u) ==
    /\ u.lastAudio = s.lastAudio /\ u.cancelled = s.cancelled
    /\ u.suppressed = s.suppressed
    /\ u.active = 0 /\ ~u.awaiting /\ ~u.queued /\ ~u.audible /\ ~u.callerSpeaking
    /\ s.socket = 0 => u.out = <<>>

LEMMA StopStops ==
    ASSUME NEW s \in Idle, ~s.stopped
    PROVE  Stops(s, StopSession(s)) /\ Falls(s, StopSession(s))
<1> DEFINE e == [s EXCEPT !.stopped = TRUE]
           h == ClearTimers(e)
           m == [type |-> "response.cancel", response |-> s.active]
           c == IF s.socket # 0 /\ s.active # 0 THEN Send(h, m) ELSE h
           x == [c EXCEPT
               !.socket = 0, !.wire = "none", !.ready = FALSE, !.created = FALSE,
               !.active = 0, !.awaiting = FALSE, !.queued = FALSE, !.lines = 0,
               !.audible = FALSE, !.callerSpeaking = FALSE]
           y == [x EXCEPT !.closeEmitted = TRUE]
           t == Tell(y, [type |-> "close"])
<1>1. e \in Provider
  BY DEF Provider, Idle
<1>2. h \in Provider
  BY <1>1, Setters DEF ClearTimers
<1>3. s.active # 0 => m \in Message
  BY Vocabulary DEF Provider, Idle
<1>4. c \in Provider
  BY <1>2, <1>3, Setters
<1>5. /\ c.stopped /\ c.closeEmitted = s.closeEmitted /\ c.calls = <<>>
      /\ c.promise = s.promise /\ c.terminal = s.terminal /\ c.pending = s.pending
      /\ c.opened = s.opened /\ c.hasBeenReady = s.hasBeenReady /\ c.readyFor = s.readyFor
      /\ "ready" \notin c.timers /\ "reconnect" \notin c.timers
  BY DEF Provider, Idle, ClearTimers, Disarm, Send
<1>6. /\ c.lastAudio = s.lastAudio /\ c.cancelled = s.cancelled
      /\ c.suppressed = s.suppressed
      /\ s.socket = 0 => c.out = <<>>
  BY DEF Provider, Idle, ClearTimers, Disarm, Send
<1> HIDE DEF c
<1>7. x \in Provider
  <2> DEFINE a == [c EXCEPT !.socket = 0, !.wire = "none", !.ready = FALSE,
                            !.created = FALSE]
             b == [a EXCEPT !.active = 0, !.awaiting = FALSE, !.queued = FALSE]
  <2>1. a \in Provider
    BY <1>4 DEF Provider, Wires
  <2>2. x = [b EXCEPT !.lines = 0, !.audible = FALSE, !.callerSpeaking = FALSE]
    BY <1>4 DEF Provider
  <2> HIDE DEF a
  <2>3. b \in Provider
    BY <2>1 DEF Provider
  <2> HIDE DEF b
  <2>4. 0 \in 0..MaxPendingSayLines
    BY ProviderAssumption
  <2>5. [b EXCEPT !.lines = 0, !.audible = FALSE, !.callerSpeaking = FALSE] \in Provider
    BY <2>3, <2>4 DEF Provider
  <2> HIDE DEF x
  <2> QED BY <2>2, <2>5
<1>8. /\ x.stopped /\ x.closeEmitted = s.closeEmitted /\ x.calls = <<>>
      /\ x.socket = 0 /\ x.wire = "none" /\ ~x.ready
      /\ x.promise = s.promise /\ x.terminal = s.terminal /\ x.pending = s.pending
      /\ x.opened = s.opened /\ x.hasBeenReady = s.hasBeenReady /\ x.readyFor = s.readyFor
      /\ "ready" \notin x.timers /\ "reconnect" \notin x.timers
  BY <1>4, <1>5 DEF Provider
<1>9. Falls(s, x)
  BY <1>4, <1>6 DEF Provider, Falls
<1>10. StopSession(s) = Finish(x)
  BY DEF StopSession, x, c
<1> HIDE DEF x
<1>11. CASE s.closeEmitted
  <2>1. StopSession(s) = x
    BY <1>8, <1>10, <1>11 DEF Finish
  <2>2. Stops(s, x)
    BY <1>7, <1>8, <1>11 DEF Stops
  <2> QED BY <1>9, <2>1, <2>2
<1>12. CASE ~s.closeEmitted
  <2>1. StopSession(s) = t
    BY <1>8, <1>10, <1>12 DEF Finish
  <2>2. y \in Provider
    BY <1>7 DEF Provider
  <2>3. t \in Provider
    BY <2>2, Setters, Vocabulary
  <2>4. /\ t.stopped /\ t.closeEmitted /\ t.calls = Append(<<>>, [type |-> "close"])
        /\ t.socket = 0 /\ t.wire = "none" /\ ~t.ready
        /\ t.promise = s.promise /\ t.terminal = s.terminal /\ t.pending = s.pending
        /\ t.opened = s.opened /\ t.hasBeenReady = s.hasBeenReady
        /\ t.readyFor = s.readyFor
        /\ "ready" \notin t.timers /\ "reconnect" \notin t.timers
    BY <1>7, <1>8 DEF Provider, Tell
  <2>5. /\ t.lastAudio = x.lastAudio /\ t.cancelled = x.cancelled
        /\ t.suppressed = x.suppressed /\ t.active = x.active
        /\ t.awaiting = x.awaiting /\ t.queued = x.queued /\ t.audible = x.audible
        /\ t.callerSpeaking = x.callerSpeaking /\ t.out = x.out
    BY <1>7 DEF Provider, Tell
  <2> HIDE DEF t
  <2>6. Falls(s, t)
    BY <1>9, <2>5 DEF Falls
  <2>7. Stops(s, t)
    BY <1>12, <2>3, <2>4, ShortSequences DEF Stops
  <2> QED BY <2>1, <2>6, <2>7
<1> QED BY <1>11, <1>12

\* A socket is opened: by start(), or by the timer of scheduleReconnect.
Opens(s, u) ==
    /\ u \in Provider /\ u.out = <<>> /\ u.calls = <<>>
    /\ u.opened = s.opened + 1 /\ u.socket = u.opened /\ u.pending = u.opened
    /\ u.wire = "dialling"
    /\ u.stopped = s.stopped /\ u.closeEmitted = s.closeEmitted /\ u.terminal = s.terminal
    /\ u.ready = s.ready /\ u.hasBeenReady = s.hasBeenReady /\ u.readyFor = s.readyFor
    /\ SameEar(s, u) /\ SameGate(s, u)
    /\ "ready" \in u.timers <=> "ready" \in s.timers
    /\ "reconnect" \notin u.timers

LEMMA OpeningOpens ==
    ASSUME NEW s \in Idle
    PROVE  /\ "reconnect" \notin s.timers =>
                 Opens(s, StartSession(s)) /\ StartSession(s).promise = "awaited"
           /\ ~s.stopped => Opens(s, ReconnectTimer(s)) /\ ReconnectTimer(s).promise = s.promise
<1> DEFINE e == [s EXCEPT !.promise = "awaited"]
           d == Disarm(s, {"reconnect"})
           Opened(x) == [x EXCEPT !.opened = x.opened + 1, !.socket = x.opened + 1,
                                  !.pending = x.opened + 1, !.wire = "dialling"]
<1>1. e \in Idle /\ d \in Idle
  <2>1. e \in Idle
    BY DEF Provider, Idle, Promises
  <2>2. d \in Provider
    BY Setters DEF Idle
  <2>3. d.out = <<>> /\ d.calls = <<>>
    BY DEF Idle, Provider, Disarm
  <2> QED BY <2>1, <2>2, <2>3 DEF Idle
<1>2. ASSUME NEW x \in Idle, "reconnect" \notin x.timers
      PROVE  Opens(x, Opened(x)) /\ Opened(x).promise = x.promise
  <2> DEFINE u == Opened(x)
  <2>1. u \in Provider
    <3>1. x.opened + 1 \in Nat
      BY DEF Provider, Idle
    <3> QED BY <3>1 DEF Provider, Idle, Wires
  <2>2. /\ u.out = <<>> /\ u.calls = <<>>
        /\ u.opened = x.opened + 1 /\ u.socket = u.opened /\ u.pending = u.opened
        /\ u.wire = "dialling"
        /\ u.stopped = x.stopped /\ u.closeEmitted = x.closeEmitted
        /\ u.terminal = x.terminal
        /\ u.ready = x.ready /\ u.hasBeenReady = x.hasBeenReady /\ u.readyFor = x.readyFor
        /\ u.timers = x.timers /\ u.promise = x.promise
    BY DEF Provider, Idle
  <2>3. SameEar(x, u) /\ SameGate(x, u)
    BY DEF Provider, Idle, SameEar, SameGate
  <2> HIDE DEF u
  <2>4. Opens(x, u)
    BY <1>2, <2>1, <2>2, <2>3 DEF Opens
  <2> QED BY <2>2, <2>4 DEF u
<1>3. OpenSocket(e) = Opened(e) /\ OpenSocket(d) = Opened(d)
  BY DEF OpenSocket
<1>4. /\ e.opened = s.opened /\ e.promise = "awaited"
      /\ e.stopped = s.stopped /\ e.closeEmitted = s.closeEmitted /\ e.terminal = s.terminal
      /\ e.ready = s.ready /\ e.hasBeenReady = s.hasBeenReady /\ e.readyFor = s.readyFor
      /\ SameEar(s, e) /\ SameGate(s, e) /\ e.timers = s.timers
  BY DEF Provider, Idle, SameEar, SameGate
<1>5. /\ d.opened = s.opened /\ d.promise = s.promise
      /\ d.stopped = s.stopped /\ d.closeEmitted = s.closeEmitted /\ d.terminal = s.terminal
      /\ d.ready = s.ready /\ d.hasBeenReady = s.hasBeenReady /\ d.readyFor = s.readyFor
      /\ SameEar(s, d) /\ SameGate(s, d) /\ "reconnect" \notin d.timers
      /\ "ready" \in d.timers <=> "ready" \in s.timers
  BY DEF Provider, Idle, SameEar, SameGate, Disarm
<1> HIDE DEF e, d, Opened
<1>6. ASSUME "reconnect" \notin s.timers
      PROVE  Opens(s, OpenSocket(e)) /\ OpenSocket(e).promise = "awaited"
  <2>1. Opens(e, OpenSocket(e)) /\ OpenSocket(e).promise = e.promise
    BY <1>1, <1>2, <1>3, <1>4, <1>6
  <2> DEFINE u == OpenSocket(e)
  <2> HIDE DEF u
  <2>2. Opens(e, u) /\ u.promise = e.promise
    BY <2>1 DEF u
  <2>3. Opens(s, u)
    BY <1>4, <2>2 DEF Opens, SameEar, SameGate
  <2> QED BY <1>4, <2>2, <2>3 DEF u
<1>7. Opens(s, OpenSocket(d)) /\ OpenSocket(d).promise = s.promise
  <2>1. Opens(d, OpenSocket(d)) /\ OpenSocket(d).promise = d.promise
    BY <1>1, <1>2, <1>3, <1>5
  <2> DEFINE u == OpenSocket(d)
  <2> HIDE DEF u
  <2>2. Opens(d, u) /\ u.promise = d.promise
    BY <2>1 DEF u
  <2>3. Opens(s, u)
    BY <1>5, <2>2 DEF Opens, SameEar, SameGate
  <2> QED BY <1>5, <2>2, <2>3 DEF u
<1>8. /\ StartSession(s) = OpenSocket(e)
      /\ ~s.stopped => ReconnectTimer(s) = OpenSocket(d)
  BY DEF StartSession, ReconnectTimer, e, d
<1> QED BY <1>6, <1>7, <1>8

\* The session is there: its configuration is sent, and it has a while to say so.
LEMMA OpenSendsUpdate ==
    ASSUME NEW s \in Idle, s.socket # 0
    PROVE  LET u == SendSessionUpdate([s EXCEPT !.wire = "open"])
           IN  /\ u \in Provider
               /\ SameLink([s EXCEPT !.wire = "open"], u)
               /\ SameEar(s, u) /\ SameGate(s, u)
               /\ u.out = <<[type |-> "session.update"]>> /\ u.calls = <<>>
<1> DEFINE e == [s EXCEPT !.wire = "open"]
           m == [type |-> "session.update"]
           u == Send(e, m)
<1>1. e \in Provider
  BY DEF Provider, Idle, Wires
<1>2. u \in Provider
  BY <1>1, Setters, Vocabulary
<1>3. SameLink(e, u)
  BY DEF Provider, Idle, Send, SameLink
<1>4. SameEar(s, u) /\ SameGate(s, u)
  BY DEF Provider, Idle, Send, SameEar, SameGate
<1>5. u.out = Append(<<>>, m) /\ u.calls = <<>>
  BY DEF Provider, Idle, Send
<1>6. SendSessionUpdate(e) = u
  BY DEF SendSessionUpdate
<1> HIDE DEF e, u
<1> QED BY <1>2, <1>3, <1>4, <1>5, <1>6, ShortSequences DEF e

LEMMA CreatedArms ==
    ASSUME NEW s \in Idle
    PROVE  LET u == HandleSessionCreated(s)
           IN  /\ u \in Idle
               /\ SameEar(s, u) /\ SameGate(s, u)
               /\ u.promise = s.promise /\ u.stopped = s.stopped
               /\ u.closeEmitted = s.closeEmitted /\ u.terminal = s.terminal
               /\ u.socket = s.socket /\ u.wire = s.wire /\ u.pending = s.pending
               /\ u.opened = s.opened /\ u.ready = s.ready
               /\ u.hasBeenReady = s.hasBeenReady
               /\ u.readyFor = s.socket /\ "ready" \in u.timers
               /\ "reconnect" \in u.timers <=> "reconnect" \in s.timers
<1> DEFINE e == [s EXCEPT !.created = TRUE, !.readyFor = s.socket]
           u == Arm(e, "ready")
<1>1. e \in Provider
  BY DEF Provider, Idle
<1>2. u \in Provider
  BY <1>1, Setters DEF Timers
<1>3. /\ u.promise = s.promise /\ u.stopped = s.stopped
      /\ u.closeEmitted = s.closeEmitted /\ u.terminal = s.terminal
      /\ u.socket = s.socket /\ u.wire = s.wire /\ u.pending = s.pending
      /\ u.opened = s.opened /\ u.ready = s.ready
      /\ u.hasBeenReady = s.hasBeenReady
      /\ u.readyFor = s.socket /\ "ready" \in u.timers
      /\ "reconnect" \in u.timers <=> "reconnect" \in s.timers
  BY DEF Provider, Idle, Arm
<1>4. SameEar(s, u) /\ SameGate(s, u) /\ u.out = <<>> /\ u.calls = <<>>
  BY DEF Provider, Idle, Arm, SameEar, SameGate
<1>5. HandleSessionCreated(s) = u
  BY DEF HandleSessionCreated
<1> HIDE DEF u
<1> QED BY <1>2, <1>3, <1>4, <1>5 DEF Idle

-------------------------------------------------------------------------------
(***************************************************************************)
(* What is told, and the connection it is told of.                         *)
(***************************************************************************)

Told == [ready : Nat, close : Nat, stray : BOOLEAN]

\* The history after the provider s has made these calls (Apply).
GoneAstray(t, s, calls) ==
    \/ calls # <<>> /\ (~Listening(s) \/ t.close > 0)
    \/ \E i, j \in DOMAIN calls : i < j /\ calls[i].type = "close"

Heard(t, s, calls) ==
    [ready |-> t.ready + Count(calls, "ready"),
     close |-> t.close + Count(calls, "close"),
     stray |-> t.stray \/ GoneAstray(t, s, calls)]

\* The handlers that are called at any time.
Small == {"restored", "error", "speech", "interruption", "audio", "tool"}

LEMMA Counting ==
    /\ \A type : Count(<<>>, type) = 0
    /\ \A c, type : Count(<<c>>, type) = IF c.type = type THEN 1 ELSE 0
    /\ \A c, d, type : c.type # type =>
          Count(<<c, d>>, type) = IF d.type = type THEN 1 ELSE 0
<1>1. ASSUME NEW type PROVE Count(<<>>, type) = 0
  <2>1. {i \in DOMAIN <<>> : <<>>[i].type = type} = {}
    OBVIOUS
  <2> QED BY <2>1, FS_EmptySet DEF Count
<1>2. ASSUME NEW c, NEW type PROVE Count(<<c>>, type) = IF c.type = type THEN 1 ELSE 0
  <2>1. {i \in DOMAIN <<c>> : <<c>>[i].type = type} = IF c.type = type THEN {1} ELSE {}
    OBVIOUS
  <2> QED BY <2>1, FS_EmptySet, FS_Singleton DEF Count
<1>3. ASSUME NEW c, NEW d, NEW type, c.type # type
      PROVE  Count(<<c, d>>, type) = IF d.type = type THEN 1 ELSE 0
  <2>1. {i \in DOMAIN <<c, d>> : <<c, d>>[i].type = type} =
          IF d.type = type THEN {2} ELSE {}
    BY <1>3
  <2> QED BY <2>1, FS_EmptySet, FS_Singleton DEF Count
<1> QED BY <1>1, <1>2, <1>3

\* A provider that has told nothing of an end.
Open(s, t) == Listening(s) /\ t.close = 0

LEMMA StrayHeard ==
    ASSUME NEW t \in Told, NEW s, NEW calls, ~GoneAstray(t, s, calls)
    PROVE  Heard(t, s, calls).stray = t.stray
<1>1. Heard(t, s, calls).stray = (t.stray \/ GoneAstray(t, s, calls))
  BY DEF Heard
<1>2. t.stray \in BOOLEAN
  BY DEF Told
<1>3. CASE t.stray = TRUE
  BY <1>1, <1>3
<1>4. CASE t.stray = FALSE
  BY <1>1, <1>4
<1> QED BY <1>2, <1>3, <1>4

LEMMA NothingHeard ==
    ASSUME NEW t \in Told, NEW s
    PROVE  Heard(t, s, <<>>) = t
<1> DEFINE h == Heard(t, s, <<>>)
<1>1. h.ready = t.ready /\ h.close = t.close
  BY Counting DEF Heard, Told
<1>2. h.stray = t.stray
  BY StrayHeard DEF GoneAstray
<1>3. h = [ready |-> h.ready, close |-> h.close, stray |-> h.stray]
  BY DEF Heard
<1>4. t = [ready |-> t.ready, close |-> t.close, stray |-> t.stray]
  BY DEF Told
<1> HIDE DEF h
<1>5. h = t
  BY <1>1, <1>2, <1>3, <1>4
<1> QED BY <1>5 DEF h

LEMMA SmallTalkHeard ==
    ASSUME NEW t \in Told, NEW s, Open(s, t)
    PROVE  /\ \A c : c.type \in Small => Heard(t, s, <<c>>) = t
           /\ \A c, d : c.type \in Small /\ d.type \in Small => Heard(t, s, <<c, d>>) = t
<1>1. t = [ready |-> t.ready, close |-> t.close, stray |-> t.stray]
  BY DEF Told
<1>2. ASSUME NEW c, c.type \in Small PROVE Heard(t, s, <<c>>) = t
  <2> DEFINE h == Heard(t, s, <<c>>)
  <2>1. Count(<<c>>, "ready") = 0 /\ Count(<<c>>, "close") = 0
    BY <1>2, Counting DEF Small
  <2>2. h.ready = t.ready /\ h.close = t.close
    BY <2>1 DEF Heard, Told
  <2>3. h.stray = t.stray
    <3>1. ~ \E i, j \in DOMAIN <<c>> : i < j /\ <<c>>[i].type = "close"
      OBVIOUS
    <3> QED BY <3>1, StrayHeard DEF GoneAstray, Told, Open
  <2>4. h = [ready |-> h.ready, close |-> h.close, stray |-> h.stray]
    BY DEF Heard
  <2> HIDE DEF h
  <2>5. h = t
    BY <1>1, <2>2, <2>3, <2>4
  <2> QED BY <2>5 DEF h
<1>3. ASSUME NEW c, NEW d, c.type \in Small, d.type \in Small
      PROVE  Heard(t, s, <<c, d>>) = t
  <2> DEFINE h == Heard(t, s, <<c, d>>)
  <2>1. Count(<<c, d>>, "ready") = 0 /\ Count(<<c, d>>, "close") = 0
    BY <1>3, Counting DEF Small
  <2>2. h.ready = t.ready /\ h.close = t.close
    BY <2>1 DEF Heard, Told
  <2>3. h.stray = t.stray
    <3>1. ~ \E i, j \in DOMAIN <<c, d>> : i < j /\ <<c, d>>[i].type = "close"
      <4>1. DOMAIN <<c, d>> = {1, 2} /\ <<c, d>>[1] = c /\ <<c, d>>[2] = d
        OBVIOUS
      <4> QED BY <1>3, <4>1 DEF Small
    <3> QED BY <3>1, StrayHeard DEF GoneAstray, Told, Open
  <2>4. h = [ready |-> h.ready, close |-> h.close, stray |-> h.stray]
    BY DEF Heard
  <2> HIDE DEF h
  <2>5. h = t
    BY <1>1, <2>2, <2>3, <2>4
  <2> QED BY <2>5 DEF h
<1> QED BY <1>2, <1>3

LEMMA NewsHeard ==
    ASSUME NEW t \in Told, NEW s, Open(s, t)
    PROVE  /\ LET h == Heard(t, s, <<[type |-> "ready"]>>)
              IN  h \in Told /\ h.ready = t.ready + 1 /\ h.close = 0 /\ h.stray = t.stray
           /\ LET h == Heard(t, s, <<[type |-> "close"]>>)
              IN  h \in Told /\ h.ready = t.ready /\ h.close = 1 /\ h.stray = t.stray
           /\ LET h == Heard(t, s, Failure)
              IN  h \in Told /\ h.ready = t.ready /\ h.close = 1 /\ h.stray = t.stray
<1> DEFINE r == <<[type |-> "ready"]>>
           c == <<[type |-> "close"]>>
<1>1. /\ Count(r, "ready") = 1 /\ Count(r, "close") = 0
      /\ Count(c, "ready") = 0 /\ Count(c, "close") = 1
  <2>1. \A x, type : Count(<<x>>, type) = IF x.type = type THEN 1 ELSE 0
    BY Counting
  <2> QED BY <2>1
<1>2. Count(Failure, "ready") = 0 /\ Count(Failure, "close") = 1
  <2>1. \A x, y, type : x.type # type =>
          Count(<<x, y>>, type) = IF y.type = type THEN 1 ELSE 0
    BY Counting
  <2> QED BY <2>1 DEF Failure
<1>3. /\ ~ \E i, j \in DOMAIN r : i < j /\ r[i].type = "close"
      /\ ~ \E i, j \in DOMAIN c : i < j /\ c[i].type = "close"
  OBVIOUS
<1>4. ~ \E i, j \in DOMAIN Failure : i < j /\ Failure[i].type = "close"
  <2>1. DOMAIN Failure = {1, 2} /\ Failure[1].type = "error"
    BY DEF Failure
  <2> QED BY <2>1
<1> HIDE DEF r, c
<1>5. ASSUME NEW calls,
             ~ \E i, j \in DOMAIN calls : i < j /\ calls[i].type = "close",
             Count(calls, "ready") \in Nat, Count(calls, "close") \in Nat
      PROVE  LET h == Heard(t, s, calls)
             IN  /\ h \in Told /\ h.ready = t.ready + Count(calls, "ready")
                 /\ h.close = Count(calls, "close") /\ h.stray = t.stray
  <2> DEFINE h == Heard(t, s, calls)
  <2>0. ~GoneAstray(t, s, calls)
    BY <1>5 DEF GoneAstray, Told, Open
  <2>1. h.stray = t.stray /\ t.stray \in BOOLEAN
    BY <2>0, StrayHeard DEF Told
  <2>2. h.ready = t.ready + Count(calls, "ready") /\ h.close = Count(calls, "close")
    BY <1>5 DEF Heard, Told, Open
  <2>3. h = [ready |-> h.ready, close |-> h.close, stray |-> h.stray]
    BY DEF Heard
  <2> HIDE DEF h
  <2>4. h.ready \in Nat /\ h.close \in Nat
    BY <1>5, <2>2 DEF Told
  <2>5. h \in Told
    BY <2>1, <2>3, <2>4 DEF Told
  <2> QED BY <2>1, <2>2, <2>5 DEF h
<1>6. /\ LET h == Heard(t, s, r)
         IN  h \in Told /\ h.ready = t.ready + 1 /\ h.close = 0 /\ h.stray = t.stray
      /\ LET h == Heard(t, s, c)
         IN  h \in Told /\ h.ready = t.ready /\ h.close = 1 /\ h.stray = t.stray
  <2>1. t.ready + 0 = t.ready
    BY DEF Told
  <2> QED BY <1>1, <1>3, <1>5, <2>1
<1>7. LET h == Heard(t, s, Failure)
      IN  h \in Told /\ h.ready = t.ready /\ h.close = 1 /\ h.stray = t.stray
  <2>1. t.ready + 0 = t.ready
    BY DEF Told
  <2> QED BY <1>2, <1>4, <1>5, <2>1
<1> QED BY <1>6, <1>7 DEF r, c

-------------------------------------------------------------------------------
(***************************************************************************)
(* The invariant of the connection: at most one socket, the current one,   *)
(* belongs to an attempt; a provider that has told its end, or was         *)
(* stopped, has no socket and no timer that would make one; and what was   *)
(* told is what the flags say.                                             *)
(***************************************************************************)

Sockets(s) ==
    /\ s.socket \in {0, s.opened} /\ s.pending \in {0, s.opened}
    /\ s.socket = 0 <=> s.wire = "none"
    /\ s.opened = 0 <=> s.promise = "none"
    /\ s.pending # 0 /\ ~s.stopped => s.pending = s.socket
    /\ s.ready => s.socket # 0
    /\ "ready" \in s.timers => s.readyFor \in 1..s.opened

Endings(s) ==
    /\ s.socket # 0 => ~s.stopped /\ ~s.closeEmitted
    /\ s.stopped => s.closeEmitted /\ "ready" \notin s.timers
    /\ s.closeEmitted => s.pending = 0 \/ s.stopped
    /\ "reconnect" \in s.timers => s.socket = 0 /\ s.pending = 0 /\ ~s.closeEmitted
    /\ s.terminal => s.closeEmitted /\ s.pending = 0

PromiseKept(s) ==
    /\ s.promise = "none" => /\ ~s.closeEmitted /\ ~s.hasBeenReady
                             /\ "ready" \notin s.timers /\ "reconnect" \notin s.timers
    /\ s.promise = "awaited" => ~s.hasBeenReady /\ (s.pending # 0 \/ s.stopped)
    /\ s.promise = "kept" => s.hasBeenReady
    /\ s.promise = "broken" => s.stopped /\ ~s.hasBeenReady

Witnessed(s, t) ==
    /\ t.ready = IF s.hasBeenReady THEN 1 ELSE 0
    /\ t.close \in {0, 1} /\ (t.close = 1 => s.closeEmitted)
    /\ s.closeEmitted /\ t.close = 0 => s.promise = "broken"
    /\ ~t.stray

Linked(s, t) == Sockets(s) /\ Endings(s) /\ PromiseKept(s) /\ Witnessed(s, t)

\* The phase the contract sees.
Phase(s, t) == IF t.close > 0 THEN "closed"
               ELSE [none |-> "new", awaited |-> "opening", kept |-> "live",
                     broken |-> "failed"][s.promise]

\* A step of the contract, or none.
Agrees(s, t, u, v) ==
    /\ v.stray = t.stray
    /\ \/ Phase(u, v) = Phase(s, t) /\ v.ready = t.ready /\ v.close = t.close
       \/ /\ Phase(s, t) = "new" /\ Phase(u, v) = "opening"
          /\ v.ready = t.ready /\ v.close = t.close
       \/ /\ Phase(s, t) = "opening" /\ Phase(u, v) = "live"
          /\ v.ready = 1 /\ v.close = t.close
       \/ /\ Phase(s, t) = "opening" /\ Phase(u, v) = "failed"
          /\ v.ready = t.ready /\ v.close = t.close
       \/ /\ Phase(s, t) \in {"opening", "live"} /\ Phase(u, v) = "closed"
          /\ v.ready = t.ready /\ v.close = 1

\* u is what becomes of s: the invariant goes on, and the contract agrees.
StaysLinked(s, t, u) ==
    LET v == Heard(t, s, u.calls)
    IN  u \in Provider /\ v \in Told /\ Linked(u, v) /\ Agrees(s, t, u, v)

\* A provider with a socket has told nothing of an end.
LEMMA ConnectedIsOpen ==
    ASSUME NEW s \in Provider, NEW t \in Told, Linked(s, t), s.socket # 0
    PROVE  /\ Open(s, t) /\ ~s.stopped /\ ~s.closeEmitted /\ ~s.terminal
           /\ "reconnect" \notin s.timers /\ s.pending \in {0, s.socket}
           /\ s.promise \in {"awaited", "kept"}
<1>1. /\ ~s.stopped /\ ~s.closeEmitted /\ ~s.terminal /\ "reconnect" \notin s.timers
      /\ s.pending \in {0, s.socket} /\ s.opened # 0
  BY DEF Linked, Sockets, Endings, Provider
<1>2. s.promise \in {"awaited", "kept"}
  BY <1>1 DEF Linked, PromiseKept, Sockets, Provider, Promises
<1>3. t.close = 0
  BY <1>1 DEF Linked, Witnessed
<1> QED BY <1>1, <1>2, <1>3 DEF Open, Listening

\* A handler that leaves the connection alone and tells nothing of it.
LEMMA QuietStaysLinked ==
    ASSUME NEW s \in Provider, NEW t \in Told, NEW u \in Provider, Linked(s, t),
           SameLink(s, u), Heard(t, s, u.calls) = t
    PROVE  StaysLinked(s, t, u)
<1>1. Sockets(u) /\ Endings(u)
  BY DEF Linked, Sockets, Endings, SameLink
<1>2. PromiseKept(u) /\ Witnessed(u, t)
  BY DEF Linked, PromiseKept, Witnessed, SameLink
<1>3. Phase(u, t) = Phase(s, t)
  BY DEF Phase, SameLink
<1> QED BY <1>1, <1>2, <1>3 DEF StaysLinked, Linked, Agrees

LEMMA CreatedStaysLinked ==
    ASSUME NEW s \in Idle, NEW t \in Told, Linked(s, t), s.socket # 0
    PROVE  StaysLinked(s, t, HandleSessionCreated(s))
<1> DEFINE u == HandleSessionCreated(s)
<1>1. /\ u \in Idle
      /\ u.promise = s.promise /\ u.stopped = s.stopped
      /\ u.closeEmitted = s.closeEmitted /\ u.terminal = s.terminal
      /\ u.socket = s.socket /\ u.wire = s.wire /\ u.pending = s.pending
      /\ u.opened = s.opened /\ u.ready = s.ready
      /\ u.hasBeenReady = s.hasBeenReady
      /\ u.readyFor = s.socket /\ "ready" \in u.timers
      /\ "reconnect" \in u.timers <=> "reconnect" \in s.timers
  BY CreatedArms
<1> HIDE DEF u
<1>2. /\ ~s.stopped /\ ~s.closeEmitted /\ ~s.terminal
      /\ "reconnect" \notin s.timers /\ s.promise \in {"awaited", "kept"}
  BY ConnectedIsOpen DEF Idle
<1>3. Sockets(u)
  <2>1. u.readyFor \in 1..u.opened
    BY <1>1 DEF Linked, Sockets, Idle, Provider
  <2> QED BY <1>1, <2>1 DEF Linked, Sockets
<1>4. Endings(u)
  BY <1>1, <1>2 DEF Linked, Endings
<1>5. PromiseKept(u) /\ Witnessed(u, t)
  BY <1>1, <1>2 DEF Linked, PromiseKept, Witnessed
<1>6. Heard(t, s, u.calls) = t /\ Phase(u, t) = Phase(s, t) /\ u \in Provider
  BY <1>1, NothingHeard DEF Idle, Phase
<1>7. StaysLinked(s, t, u)
  BY <1>3, <1>4, <1>5, <1>6 DEF StaysLinked, Linked, Agrees
<1> QED BY <1>7 DEF u

\* markReady: the first time it keeps the promise and is announced.
LEMMA ReadyStaysLinked ==
    ASSUME NEW s \in Idle, NEW t \in Told, NEW u, Linked(s, t), s.socket # 0, ~s.ready,
           ReadyLeaves(s, u), ReadyTells(s, u)
    PROVE  StaysLinked(s, t, u)
<1>1. /\ Open(s, t) /\ ~s.stopped /\ ~s.closeEmitted /\ ~s.terminal
      /\ "reconnect" \notin s.timers /\ s.pending \in {0, s.socket}
      /\ s.promise \in {"awaited", "kept"}
  BY ConnectedIsOpen DEF Idle
<1>2. /\ ~u.stopped /\ ~u.closeEmitted /\ ~u.terminal /\ u.hasBeenReady
      /\ u.socket = s.socket /\ u.wire = s.wire /\ u.opened = s.opened /\ u.pending = 0
      /\ "ready" \notin u.timers /\ "reconnect" \notin u.timers
      /\ u \in Provider
  BY <1>1 DEF ReadyLeaves, ReadyTells
<1>3. u.promise = "kept"
  <2>1. CASE s.promise = "kept"
    BY <2>1 DEF ReadyTells
  <2>2. CASE s.promise = "awaited"
    <3>1. s.pending = s.socket
      BY <1>1, <2>2 DEF Linked, PromiseKept
    <3> QED BY <2>2, <3>1 DEF ReadyTells
  <2> QED BY <1>1, <2>1, <2>2
<1>4. s.promise = "awaited" <=> ~s.hasBeenReady
  BY <1>1 DEF Linked, PromiseKept
<1>5. Sockets(u)
  BY <1>2, <1>3 DEF Linked, Sockets, Idle, Provider
<1>6. Endings(u) /\ PromiseKept(u)
  BY <1>2, <1>3 DEF Endings, PromiseKept
<1>7. ASSUME NEW v \in Told, v.ready = 1, v.close = 0, v.stray = t.stray
      PROVE  Witnessed(u, v)
  BY <1>2, <1>7 DEF Linked, Witnessed
<1>8. t.close = 0
  BY <1>1 DEF Open
<1>9. CASE s.hasBeenReady
  <2>1. Heard(t, s, u.calls) = t
    <3>1. [type |-> "restored"].type \in Small
      BY DEF Small
    <3>2. u.calls = <<[type |-> "restored"]>>
      BY <1>9 DEF ReadyTells
    <3> QED BY <1>1, <3>1, <3>2, SmallTalkHeard
  <2>2. t.ready = 1
    BY <1>9 DEF Linked, Witnessed
  <2>3. Phase(u, t) = Phase(s, t)
    BY <1>1, <1>3, <1>4, <1>9 DEF Phase
  <2> QED BY <1>2, <1>5, <1>6, <1>7, <1>8, <2>1, <2>2, <2>3
          DEF StaysLinked, Linked, Agrees
<1>10. CASE ~s.hasBeenReady
  <2> DEFINE v == Heard(t, s, u.calls)
  <2>1. t.ready = 0
    BY <1>10 DEF Linked, Witnessed
  <2>2. v \in Told /\ v.ready = 1 /\ v.close = 0 /\ v.stray = t.stray
    <3>1. u.calls = <<[type |-> "ready"]>>
      BY <1>10 DEF ReadyTells
    <3> QED BY <1>1, <2>1, <3>1, NewsHeard
  <2> HIDE DEF v
  <2>3. Phase(s, t) = "opening" /\ Phase(u, v) = "live"
    BY <1>3, <1>4, <1>8, <1>10, <2>2 DEF Phase
  <2>4. Linked(u, v) /\ Agrees(s, t, u, v)
    BY <1>5, <1>6, <1>7, <1>8, <2>2, <2>3 DEF Linked, Agrees
  <2> QED BY <1>2, <2>2, <2>4 DEF StaysLinked, v
<1> QED BY <1>9, <1>10

\* A provider whose socket is gone.
Dropped(s, u) ==
    /\ u \in Provider
    /\ u.socket = 0 /\ u.wire = "none" /\ ~u.ready /\ u.pending = 0
    /\ u.opened = s.opened /\ u.hasBeenReady = s.hasBeenReady /\ u.readyFor = s.readyFor
    /\ "ready" \in u.timers => "ready" \in s.timers

\* The promise start() gave is broken.  It may have been stopped before.
LEMMA BrokenStaysLinked ==
    ASSUME NEW s \in Provider, NEW t \in Told, NEW u, Linked(s, t), Dropped(s, u),
           s.promise = "awaited", u.promise = "broken", u.stopped, u.closeEmitted,
           u.calls = <<>>, "reconnect" \notin u.timers, "ready" \notin u.timers
    PROVE  StaysLinked(s, t, u)
<1>1. Heard(t, s, u.calls) = t
  BY NothingHeard
<1>2. Sockets(u) /\ Endings(u)
  BY DEF Dropped, Linked, Sockets, Endings
<1>3. PromiseKept(u) /\ Witnessed(u, t)
  BY DEF Dropped, Linked, PromiseKept, Witnessed
<1>4. Phase(u, t) = Phase(s, t) \/ (Phase(s, t) = "opening" /\ Phase(u, t) = "failed")
  BY DEF Phase
<1> QED BY <1>1, <1>2, <1>3, <1>4 DEF Dropped, StaysLinked, Linked, Agrees

\* A session is lost: another attempt is scheduled, or the end is told.
LEMMA LossStaysLinked ==
    ASSUME NEW s \in Provider, NEW t \in Told, NEW u, Linked(s, t), Dropped(s, u),
           s.socket # 0, s.promise # "awaited",
           u.promise = s.promise, u.stopped = s.stopped, u.terminal => u.closeEmitted,
           \/ GoesOn(s, u)
           \/ /\ u.closeEmitted /\ u.calls = <<[type |-> "close"]>>
              /\ "reconnect" \notin u.timers
    PROVE  StaysLinked(s, t, u)
<1>1. /\ Open(s, t) /\ ~s.stopped /\ ~s.closeEmitted /\ s.promise = "kept"
  BY ConnectedIsOpen
<1>2. Sockets(u) /\ PromiseKept(u)
  BY <1>1 DEF Dropped, Linked, Sockets, PromiseKept
<1>3. CASE ~u.closeEmitted
  <2>1. u.calls = <<>> /\ "reconnect" \in u.timers
    BY <1>3 DEF GoesOn
  <2>2. Endings(u)
    BY <1>1, <1>3 DEF Dropped, Endings
  <2>3. Witnessed(u, t)
    BY <1>1, <1>3 DEF Dropped, Linked, Witnessed
  <2>4. Heard(t, s, u.calls) = t /\ Phase(u, t) = Phase(s, t)
    BY <2>1, NothingHeard DEF Phase
  <2> QED BY <1>2, <2>2, <2>3, <2>4 DEF Dropped, StaysLinked, Linked, Agrees
<1>4. CASE u.closeEmitted
  <2>1. /\ u.calls \in {Failure, <<[type |-> "close"]>>}
        /\ "reconnect" \notin u.timers
    BY <1>1, <1>4 DEF GoesOn
  <2> DEFINE v == Heard(t, s, u.calls)
  <2>2. v \in Told /\ v.ready = t.ready /\ v.close = 1 /\ v.stray = t.stray
    <3>1. CASE u.calls = Failure
      BY <1>1, <3>1, NewsHeard
    <3>2. CASE u.calls = <<[type |-> "close"]>>
      BY <1>1, <3>2, NewsHeard
    <3> QED BY <2>1, <3>1, <3>2
  <2> HIDE DEF v
  <2>3. Endings(u)
    BY <1>1, <1>4, <2>1 DEF Dropped, Endings
  <2>4. Witnessed(u, v)
    BY <1>4, <2>2 DEF Dropped, Linked, Witnessed
  <2>5. Phase(s, t) = "live" /\ Phase(u, v) = "closed"
    BY <1>1, <2>2 DEF Phase, Open
  <2>6. Agrees(s, t, u, v)
    BY <2>2, <2>5 DEF Agrees
  <2> QED BY <1>2, <2>2, <2>3, <2>4, <2>6 DEF Dropped, StaysLinked, Linked, v
<1> QED BY <1>3, <1>4

LEMMA CloseStaysLinked ==
    ASSUME NEW s \in Idle, NEW t \in Told, NEW normal \in BOOLEAN, Linked(s, t), s.socket # 0
    PROVE  StaysLinked(s, t, HandleClose(s, normal))
<1> DEFINE u == HandleClose(s, normal)
<1>1. /\ Open(s, t) /\ ~s.stopped /\ ~s.closeEmitted /\ ~s.terminal
      /\ "reconnect" \notin s.timers /\ s.pending \in {0, s.socket}
      /\ s.promise \in {"awaited", "kept"} /\ s \in Provider
  BY ConnectedIsOpen DEF Idle
<1>2. CloseLeaves(s, u) /\ CloseTells(s, u)
  BY <1>1, CloseLoses
<1> HIDE DEF u
<1>3. Dropped(s, u) /\ ~u.terminal /\ "ready" \notin u.timers
  BY <1>1, <1>2 DEF CloseLeaves, Dropped
<1>4. CASE s.promise = "awaited"
  <2>1. s.pending = s.socket
    BY <1>1, <1>4 DEF Linked, PromiseKept
  <2>2. /\ u.promise = "broken" /\ u.stopped /\ u.closeEmitted /\ u.calls = <<>>
        /\ "reconnect" \notin u.timers
    BY <1>2, <1>4, <2>1 DEF CloseTells
  <2> QED BY <1>1, <1>3, <1>4, <2>2, BrokenStaysLinked DEF u
<1>5. CASE s.promise # "awaited"
  <2>1. /\ u.promise = s.promise /\ u.stopped = s.stopped
        /\ \/ GoesOn(s, u)
           \/ /\ u.closeEmitted /\ u.calls = <<[type |-> "close"]>>
              /\ "reconnect" \notin u.timers
    BY <1>2, <1>5 DEF CloseTells
  <2> QED BY <1>1, <1>3, <1>5, <2>1, LossStaysLinked DEF u
<1> QED BY <1>4, <1>5

LEMMA TerminalStaysLinked ==
    ASSUME NEW s \in Idle, NEW t \in Told, Linked(s, t), s.socket # 0
    PROVE  StaysLinked(s, t, HandleTerminalError(s))
<1> DEFINE u == HandleTerminalError(s)
<1>1. /\ Open(s, t) /\ ~s.stopped /\ ~s.closeEmitted /\ ~s.terminal
      /\ "reconnect" \notin s.timers /\ s.pending \in {0, s.socket}
      /\ s.promise \in {"awaited", "kept"} /\ s \in Provider
  BY ConnectedIsOpen DEF Idle
<1>2. /\ GivesSocketUp(s, u)
      /\ \/ PromiseBreaks(s, u)
         \/ /\ PromiseStands(s, u)
            /\ u.closeEmitted /\ u.calls = Failure /\ "reconnect" \notin u.timers
  BY <1>1, TerminalGivesUp
<1> HIDE DEF u
<1>3. CASE PromiseBreaks(s, u)
  <2>1. Dropped(s, u)
    BY <1>2, <1>3 DEF GivesSocketUp, PromiseBreaks, Dropped
  <2> QED BY <1>1, <1>3, <2>1, BrokenStaysLinked DEF PromiseBreaks, u
<1>4. CASE /\ PromiseStands(s, u)
           /\ u.closeEmitted /\ u.calls = Failure /\ "reconnect" \notin u.timers
  <2>1. Dropped(s, u)
    BY <1>2, <1>4 DEF GivesSocketUp, PromiseStands, Dropped
  <2>2. s.promise # "awaited"
    BY <1>1, <1>4 DEF PromiseStands, Linked, PromiseKept
  <2>3. u.promise = s.promise /\ u.stopped = s.stopped /\ GoesOn(s, u)
    BY <1>4 DEF PromiseStands, GoesOn
  <2> QED BY <1>1, <1>4, <2>1, <2>2, <2>3, LossStaysLinked DEF u
<1> QED BY <1>2, <1>3, <1>4

LEMMA TimeoutStaysLinked ==
    ASSUME NEW s \in Idle, NEW t \in Told, Linked(s, t), s.pending # 0
    PROVE  StaysLinked(s, t, AttemptTimeout(s))
<1> DEFINE u == AttemptTimeout(s)
<1>1. s \in Provider /\ ~s.terminal /\ s.socket \in {0, s.pending}
      /\ (s.socket = 0 <=> s.wire = "none") /\ (s.ready => s.socket # 0)
  BY DEF Idle, Linked, Sockets, Endings
<1>2. ~s.stopped => s.socket # 0 /\ ~s.closeEmitted /\ "reconnect" \notin s.timers
  BY DEF Linked, Sockets, Endings
<1>3. /\ GivesSocketUp(s, u) /\ ~u.terminal
      /\ \/ PromiseBreaks(s, u)
         \/ PromiseStands(s, u) /\ ~s.stopped /\ GoesOn(s, u)
         \/ /\ PromiseStands(s, u) /\ s.stopped
            /\ u.closeEmitted = s.closeEmitted /\ u.calls = <<>>
            /\ "reconnect" \in u.timers <=> "reconnect" \in s.timers
  BY <1>1, <1>2, TimeoutGivesUp
<1> HIDE DEF u
<1>4. CASE PromiseBreaks(s, u)
  <2>1. Dropped(s, u)
    BY <1>3, <1>4 DEF GivesSocketUp, PromiseBreaks, Dropped
  <2> QED BY <1>1, <1>4, <2>1, BrokenStaysLinked DEF PromiseBreaks, u
<1>5. ASSUME PromiseStands(s, u) PROVE Dropped(s, u) /\ s.promise # "awaited"
  BY <1>3, <1>5 DEF GivesSocketUp, PromiseStands, Dropped
<1>6. CASE PromiseStands(s, u) /\ ~s.stopped /\ GoesOn(s, u)
  <2>1. u.promise = s.promise /\ u.stopped = s.stopped
    BY <1>6 DEF PromiseStands
  <2> QED BY <1>1, <1>2, <1>3, <1>5, <1>6, <2>1, LossStaysLinked DEF u
<1>7. CASE /\ PromiseStands(s, u) /\ s.stopped
           /\ u.closeEmitted = s.closeEmitted /\ u.calls = <<>>
           /\ "reconnect" \in u.timers <=> "reconnect" \in s.timers
  <2>1. /\ u.promise = s.promise /\ u.stopped /\ u.closeEmitted
        /\ "ready" \notin u.timers /\ "reconnect" \notin u.timers
    BY <1>7 DEF PromiseStands, Linked, Endings
  <2>2. Sockets(u) /\ Endings(u)
    BY <1>5, <1>7, <2>1 DEF Dropped, Linked, Sockets, Endings
  <2>3. PromiseKept(u) /\ Witnessed(u, t)
    BY <1>5, <1>7, <2>1 DEF Dropped, Linked, PromiseKept, Witnessed
  <2>4. Heard(t, s, u.calls) = t /\ Phase(u, t) = Phase(s, t)
    BY <1>7, <2>1, NothingHeard DEF Phase
  <2>5. u \in Provider
    BY <1>5, <1>7 DEF Dropped
  <2>6. StaysLinked(s, t, u)
    BY <2>2, <2>3, <2>4, <2>5 DEF StaysLinked, Linked, Agrees
  <2> QED BY <2>6 DEF u
<1> QED BY <1>3, <1>4, <1>6, <1>7

\* stop(), which ends an attempt as well as a session.
LEMMA StopStaysLinked ==
    ASSUME NEW s \in Idle, NEW t \in Told, Linked(s, t), s.promise # "none"
    PROVE  StaysLinked(s, t, StopSession(s))
<1> DEFINE u == StopSession(s)
<1>1. CASE s.stopped
  <2>1. u = s /\ s \in Provider /\ s.calls = <<>>
    BY <1>1 DEF StopSession, Idle
  <2>2. SameLink(s, s) /\ Heard(t, s, s.calls) = t
    BY <2>1, NothingHeard DEF SameLink
  <2> HIDE DEF u
  <2>3. StaysLinked(s, t, s)
    BY <2>1, <2>2, QuietStaysLinked
  <2> QED BY <2>1, <2>3 DEF u
<1>2. CASE ~s.stopped
  <2>1. Stops(s, u)
    BY <1>2, StopStops
  <2> HIDE DEF u
  <2>2. Sockets(u) /\ Endings(u)
    BY <2>1 DEF Stops, Linked, Sockets, Endings
  <2>3. PromiseKept(u)
    BY <1>2, <2>1 DEF Stops, Linked, PromiseKept
  <2>4. s.promise \in {"awaited", "kept"} /\ u \in Provider /\ u.promise = s.promise
    BY <1>2, <2>1 DEF Stops, Linked, PromiseKept, Idle, Provider, Promises
  <2>5. CASE s.closeEmitted
    <3>1. t.close = 1 /\ Heard(t, s, u.calls) = t
      BY <2>1, <2>4, <2>5, NothingHeard DEF Stops, Linked, Witnessed
    <3>2. Witnessed(u, t) /\ Phase(u, t) = Phase(s, t)
      BY <2>1, <3>1 DEF Stops, Linked, Witnessed, Phase
    <3>3. StaysLinked(s, t, u)
      BY <2>2, <2>3, <2>4, <3>1, <3>2 DEF StaysLinked, Linked, Agrees
    <3> QED BY <3>3 DEF u
  <2>6. CASE ~s.closeEmitted
    <3>1. Open(s, t)
      BY <2>4, <2>6 DEF Open, Listening, Linked, Witnessed
    <3> DEFINE v == Heard(t, s, u.calls)
    <3>2. v \in Told /\ v.ready = t.ready /\ v.close = 1 /\ v.stray = t.stray
      <4>1. u.calls = <<[type |-> "close"]>>
        BY <2>1, <2>6 DEF Stops
      <4> QED BY <3>1, <4>1, NewsHeard
    <3> HIDE DEF v
    <3>3. Witnessed(u, v)
      BY <2>1, <3>2 DEF Stops, Linked, Witnessed
    <3>4. Phase(s, t) \in {"opening", "live"} /\ Phase(u, v) = "closed"
      BY <2>4, <3>1, <3>2 DEF Phase, Open
    <3>5. StaysLinked(s, t, u)
      BY <2>2, <2>3, <2>4, <3>2, <3>3, <3>4 DEF StaysLinked, Linked, Agrees, v
    <3> QED BY <3>5 DEF u
  <2> QED BY <2>5, <2>6
<1> QED BY <1>1, <1>2

\* start(), and the timer of scheduleReconnect.
LEMMA OpeningStaysLinked ==
    ASSUME NEW s \in Idle, NEW t \in Told, Linked(s, t)
    PROVE  /\ s.promise = "none" => StaysLinked(s, t, StartSession(s))
           /\ "reconnect" \in s.timers => StaysLinked(s, t, ReconnectTimer(s))
<1>1. ASSUME NEW u, Opens(s, u), ~s.closeEmitted, s.socket = 0, s.pending = 0,
             \/ s.promise = "none" /\ u.promise = "awaited"
             \/ s.promise # "none" /\ u.promise = s.promise
      PROVE  StaysLinked(s, t, u)
  <2>1. /\ ~s.stopped /\ ~s.terminal /\ ~s.ready /\ t.close = 0
        /\ s.opened \in Nat /\ s.readyFor \in Nat
    BY <1>1 DEF Linked, Sockets, Endings, Witnessed, Idle, Provider
  <2>2. Sockets(u)
    <3>1. u.opened \in Nat /\ u.opened > s.opened /\ u.opened # 0
      BY <1>1, <2>1 DEF Opens
    <3>2. "ready" \in u.timers => u.readyFor \in 1..u.opened
      <4>1. "ready" \in u.timers => u.readyFor \in 1..s.opened
        BY <1>1 DEF Opens, Linked, Sockets
      <4> QED BY <2>1, <3>1, <4>1
    <3> QED BY <1>1, <2>1, <3>1, <3>2 DEF Opens, Sockets
  <2>3. Endings(u)
    BY <1>1, <2>1 DEF Opens, Endings
  <2>4. PromiseKept(u)
    <3>1. u.pending # 0
      BY <1>1, <2>1 DEF Opens
    <3> QED BY <1>1, <2>1, <3>1 DEF Opens, Linked, PromiseKept
  <2>5. Heard(t, s, u.calls) = t /\ u \in Provider
    BY <1>1, NothingHeard DEF Opens
  <2>6. Witnessed(u, t)
    BY <1>1, <2>1 DEF Opens, Linked, Witnessed
  <2>7. Phase(u, t) = Phase(s, t) \/ (Phase(s, t) = "new" /\ Phase(u, t) = "opening")
    BY <1>1, <2>1 DEF Phase
  <2> QED BY <2>2, <2>3, <2>4, <2>5, <2>6, <2>7 DEF StaysLinked, Linked, Agrees
<1>2. ASSUME s.promise = "none" PROVE StaysLinked(s, t, StartSession(s))
  <2>1. /\ ~s.closeEmitted /\ s.socket = 0 /\ s.pending = 0 /\ "reconnect" \notin s.timers
    BY <1>2 DEF Linked, Sockets, PromiseKept
  <2>2. Opens(s, StartSession(s)) /\ StartSession(s).promise = "awaited"
    BY <2>1, OpeningOpens
  <2> QED BY <1>1, <1>2, <2>1, <2>2
<1>3. ASSUME "reconnect" \in s.timers PROVE StaysLinked(s, t, ReconnectTimer(s))
  <2>1. /\ ~s.closeEmitted /\ ~s.stopped /\ s.socket = 0 /\ s.pending = 0
        /\ s.promise # "none"
    BY <1>3 DEF Linked, Endings, PromiseKept
  <2>2. Opens(s, ReconnectTimer(s)) /\ ReconnectTimer(s).promise = s.promise
    BY <2>1, OpeningOpens
  <2> QED BY <1>1, <2>1, <2>2
<1> QED BY <1>2, <1>3

\* The state of the wire, as long as there is one.
LEMMA WireStaysLinked ==
    ASSUME NEW s \in Idle, NEW t \in Told, Linked(s, t), s.socket # 0,
           NEW wire \in Wires \ {"none"}
    PROVE  LET e == [s EXCEPT !.wire = wire]
           IN  /\ e \in Idle /\ Linked(e, t) /\ Phase(e, t) = Phase(s, t)
               /\ Open(e, t)
<1> DEFINE e == [s EXCEPT !.wire = wire]
<1>1. e \in Idle
  BY DEF Idle, Provider
<1>2. /\ e.promise = s.promise /\ e.stopped = s.stopped
      /\ e.closeEmitted = s.closeEmitted /\ e.terminal = s.terminal
      /\ e.socket = s.socket /\ e.wire = wire /\ e.pending = s.pending
      /\ e.opened = s.opened /\ e.ready = s.ready
      /\ e.hasBeenReady = s.hasBeenReady
      /\ e.readyFor = s.readyFor /\ e.timers = s.timers
  BY DEF Idle, Provider
<1> HIDE DEF e
<1>3. Sockets(e) /\ Endings(e)
  BY <1>2 DEF Linked, Sockets, Endings
<1>4. PromiseKept(e) /\ Witnessed(e, t)
  BY <1>2 DEF Linked, PromiseKept, Witnessed
<1>5. Phase(e, t) = Phase(s, t) /\ Open(e, t)
  BY <1>2, ConnectedIsOpen DEF Phase, Open, Listening, Idle
<1> QED BY <1>1, <1>3, <1>4, <1>5 DEF Linked, e

LEMMA OpenedStaysLinked ==
    ASSUME NEW s \in Idle, NEW t \in Told, Linked(s, t), s.socket # 0
    PROVE  StaysLinked(s, t, SendSessionUpdate([s EXCEPT !.wire = "open"]))
<1> DEFINE e == [s EXCEPT !.wire = "open"]
           u == SendSessionUpdate(e)
<1>1. e \in Idle /\ Linked(e, t) /\ Phase(e, t) = Phase(s, t)
  BY WireStaysLinked DEF Wires
<1>2. u \in Provider /\ SameLink(e, u) /\ u.calls = <<>>
  BY OpenSendsUpdate
<1> HIDE DEF e, u
<1>3. Heard(t, e, u.calls) = t /\ Heard(t, s, u.calls) = t
  BY <1>2, NothingHeard
<1>4. StaysLinked(e, t, u)
  BY <1>1, <1>2, <1>3, QuietStaysLinked DEF Idle
<1>5. StaysLinked(s, t, u)
  BY <1>1, <1>3, <1>4 DEF StaysLinked, Agrees
<1> QED BY <1>5 DEF u, e

-------------------------------------------------------------------------------
(***************************************************************************)
(* The queue of audio, of units that are in S.                             *)
(***************************************************************************)

Frames(S) == {f \in Seq([1..FrameUnits -> S]) : Len(f) <= MaxQueuedFrames}
Partial(S) == {t \in Seq(S) : Len(t) < FrameUnits}

Queue(S) ==
    [frames : Frames(S), tail : Partial(S), closed : BOOLEAN,
     waiting : SUBSET Waiters, answer : [Waiters -> {"none", "drained", "cut"}]]

LEMMA Nothing == \A S : <<>> \in Frames(S) /\ <<>> \in Partial(S)
<1> SUFFICES ASSUME NEW S PROVE <<>> \in Frames(S) /\ <<>> \in Partial(S)
  OBVIOUS
<1>1. <<>> \in Seq([1..FrameUnits -> S]) /\ <<>> \in Seq(S) /\ Len(<<>>) = 0
  OBVIOUS
<1> QED BY <1>1, QueueAssumption DEF Frames, Partial

LEMMA Division ==
    ASSUME NEW n \in Nat
    PROVE  /\ n \div FrameUnits \in Nat
           /\ (n \div FrameUnits) * FrameUnits <= n
           /\ n < (n \div FrameUnits) * FrameUnits + FrameUnits
BY QueueAssumption

LEMMA WithinFrames ==
    ASSUME NEW n \in Nat, NEW w \in Nat, w * FrameUnits <= n,
           NEW i \in 1..w, NEW j \in 1..FrameUnits
    PROVE  (i - 1) * FrameUnits + j \in 1..n
<1>1. FrameUnits \in Nat /\ w \in Nat /\ i \in Nat /\ i <= w /\ i - 1 \in Nat
  BY QueueAssumption
<1>2. (i - 1) * FrameUnits \in Nat
  BY <1>1
<1>3. w = (i - 1) + 1 + (w - i) /\ w - i \in Nat
  BY <1>1
<1>4. w * FrameUnits = (i - 1) * FrameUnits + FrameUnits + (w - i) * FrameUnits
  BY <1>1, <1>3
<1>5. (w - i) * FrameUnits \in Nat
  BY <1>1, <1>3
<1> QED BY <1>1, <1>2, <1>4, <1>5

LEMMA Segment ==
    ASSUME NEW S, NEW q \in Seq(S), NEW k \in Nat, k <= Len(q)
    PROVE  SubSeq(q, k + 1, Len(q)) \in Seq(S) /\ Len(SubSeq(q, k + 1, Len(q))) = Len(q) - k
OBVIOUS

\* enqueueFrame: whatever plays was there before, or is fresh.
LEMMA EnqueueKeeps ==
    ASSUME NEW S, NEW q \in Queue(S), NEW fresh \in Seq([1..FrameUnits -> S])
    PROVE  Enqueue(q, fresh) \in Queue(S)
<1> DEFINE all == q.frames \o fresh
           excess == IF Len(all) > MaxQueuedFrames THEN Len(all) - MaxQueuedFrames ELSE 0
<1>1. all \in Seq([1..FrameUnits -> S])
  BY DEF Queue, Frames
<1>2. Len(all) \in Nat
  BY <1>1
<1>3. excess \in Nat /\ excess <= Len(all) /\ Len(all) - excess <= MaxQueuedFrames
  BY <1>2, QueueAssumption
<1> HIDE DEF all, excess
<1>4. SubSeq(all, excess + 1, Len(all)) \in Frames(S)
  BY <1>1, <1>3, Segment DEF Frames
<1>5. Enqueue(q, fresh) = [q EXCEPT !.frames = SubSeq(all, excess + 1, Len(all))]
  BY DEF Enqueue, all, excess
<1> QED BY <1>4, <1>5 DEF Queue

\* send: units are cut into frames, and the rest is kept.
LEMMA SendKeeps ==
    ASSUME NEW S, NEW q \in Queue(S), NEW units \in Seq(S)
    PROVE  SendAudio(q, units) \in Queue(S)
<1> DEFINE source == q.tail \o units
           whole == Len(source) \div FrameUnits
           rest == SubSeq(source, whole * FrameUnits + 1, Len(source))
           Frame(i) == [j \in 1..FrameUnits |-> source[(i - 1) * FrameUnits + j]]
           fresh == [i \in 1..whole |-> Frame(i)]
           t == [q EXCEPT !.tail = rest]
<1>1. source \in Seq(S)
  BY DEF Queue, Partial
<1> HIDE DEF source
<1>2. Len(source) \in Nat
  BY <1>1
<1>3. /\ whole \in Nat /\ whole * FrameUnits <= Len(source) /\ whole * FrameUnits \in Nat
      /\ Len(source) < whole * FrameUnits + FrameUnits
  BY <1>2, Division, QueueAssumption
<1> HIDE DEF whole
<1>4. rest \in Partial(S)
  <2> DEFINE k == whole * FrameUnits
  <2>1. k \in Nat /\ k <= Len(source) /\ Len(source) < k + FrameUnits /\ FrameUnits \in Nat
    BY <1>3, QueueAssumption
  <2> HIDE DEF k
  <2>2. SubSeq(source, k + 1, Len(source)) \in Partial(S)
    BY <1>1, <1>2, <2>1, Segment DEF Partial
  <2> QED BY <2>2 DEF k
<1>5. ASSUME NEW i \in 1..whole PROVE Frame(i) \in [1..FrameUnits -> S]
  <2>1. ASSUME NEW j \in 1..FrameUnits PROVE source[(i - 1) * FrameUnits + j] \in S
    <3>1. (i - 1) * FrameUnits + j \in 1..Len(source)
      BY <1>2, <1>3, WithinFrames
    <3> QED BY <1>1, <3>1
  <2> QED BY <2>1
<1>6. fresh \in Seq([1..FrameUnits -> S])
  <2> HIDE DEF Frame
  <2>1. fresh \in [1..whole -> [1..FrameUnits -> S]]
    BY <1>5
  <2> HIDE DEF fresh
  <2> QED BY <1>3, <2>1
<1> HIDE DEF fresh, rest
<1>7. t \in Queue(S)
  BY <1>4 DEF Queue
<1>8. Enqueue(t, fresh) \in Queue(S)
  BY <1>6, <1>7, EnqueueKeeps
<1>9. SendAudio(q, units) = IF q.closed \/ units = <<>> THEN q ELSE Enqueue(t, fresh)
  BY DEF SendAudio, source, whole, rest, fresh
<1> QED BY <1>8, <1>9

LEMMA QueueKeeps ==
    ASSUME NEW S, NEW q \in Queue(S)
    PROVE  /\ \A silence \in S : FlushTail(q, silence) \in Queue(S)
           /\ \A R : Discard(q) \in Queue(R) /\ MarkClosed(q) \in Queue(R)
           /\ EmitOneFrame(q) \in Queue(S)
           /\ \A w \in Waiters : WaitForDrain(q, w) \in Queue(S)
           /\ \A w \in Waiters : DrainTimeout(q, w) \in Queue(S)
<1>1. ASSUME NEW silence \in S PROVE FlushTail(q, silence) \in Queue(S)
  <2> DEFINE padded == [j \in 1..FrameUnits |->
                           IF j <= Len(q.tail) THEN q.tail[j] ELSE silence]
             t == [q EXCEPT !.tail = <<>>]
  <2>1. padded \in [1..FrameUnits -> S]
    BY DEF Queue, Partial
  <2> HIDE DEF padded
  <2>2. <<padded>> \in Seq([1..FrameUnits -> S])
    BY <2>1
  <2>3. t \in Queue(S)
    BY Nothing DEF Queue
  <2>4. Enqueue(t, <<padded>>) \in Queue(S)
    BY <2>2, <2>3, EnqueueKeeps
  <2>5. FlushTail(q, silence) = IF q.closed \/ q.tail = <<>> THEN q ELSE Enqueue(t, <<padded>>)
    BY DEF FlushTail, padded
  <2> QED BY <2>4, <2>5
<1>2. ASSUME NEW R, NEW r \in Queue(R), NEW verdict \in {"drained", "cut"}
      PROVE  Settle(r, verdict) \in Queue(R)
  BY <1>2 DEF Queue, Settle
<1>3. ASSUME NEW R PROVE Discard(q) \in Queue(R) /\ MarkClosed(q) \in Queue(R)
  <2>1. <<>> \in Frames(R) /\ <<>> \in Partial(R)
    BY Nothing
  <2>2. /\ [q EXCEPT !.frames = <<>>, !.tail = <<>>] \in Queue(R)
        /\ [q EXCEPT !.closed = TRUE, !.frames = <<>>, !.tail = <<>>] \in Queue(R)
    BY <2>1 DEF Queue
  <2> QED BY <1>2, <2>2 DEF Discard, MarkClosed
<1>4. EmitOneFrame(q) \in Queue(S)
  <2> DEFINE shifted == [q EXCEPT !.frames = Tail(@)]
  <2>1. ASSUME q.frames # <<>> PROVE shifted \in Queue(S)
    <3>1. /\ q.frames \in Seq([1..FrameUnits -> S]) /\ Len(q.frames) <= MaxQueuedFrames
          /\ Len(Tail(q.frames)) = Len(q.frames) - 1 /\ Len(q.frames) \in Nat
      BY <2>1 DEF Queue, Frames
    <3>2. Tail(q.frames) \in Frames(S)
      BY <2>1, <3>1, QueueAssumption DEF Frames
    <3> QED BY <3>2 DEF Queue
  <2> HIDE DEF shifted
  <2>2. q.frames # <<>> => Settle(shifted, "drained") \in Queue(S)
    BY <1>2, <2>1
  <2>3. EmitOneFrame(q) = IF q.closed \/ q.frames = <<>> THEN q
                          ELSE IF Len(q.frames) = 1 THEN Settle(shifted, "drained")
                          ELSE shifted
    BY DEF EmitOneFrame, shifted
  <2> QED BY <2>1, <2>2, <2>3
<1>5. ASSUME NEW w \in Waiters
      PROVE  WaitForDrain(q, w) \in Queue(S) /\ DrainTimeout(q, w) \in Queue(S)
  <2>1. /\ [q EXCEPT !.answer[w] = "cut"] \in Queue(S)
        /\ [q EXCEPT !.answer[w] = "drained"] \in Queue(S)
    BY DEF Queue
  <2>2. /\ [q EXCEPT !.waiting = @ \cup {w}, !.answer[w] = "none"] \in Queue(S)
        /\ [q EXCEPT !.waiting = @ \ {w}, !.answer[w] = "cut"] \in Queue(S)
    BY DEF Queue
  <2> QED BY <2>1, <2>2 DEF WaitForDrain, DrainTimeout
<1> QED BY <1>1, <1>3, <1>4, <1>5

LEMMA QueueWidens ==
    ASSUME NEW S, NEW R, S \subseteq R, NEW q \in Queue(S)
    PROVE  q \in Queue(R)
<1>1. q.tail \in Partial(R)
  BY DEF Queue, Partial
<1>2. ASSUME NEW f \in [1..FrameUnits -> S] PROVE f \in [1..FrameUnits -> R]
  OBVIOUS
<1>3. q.frames \in Frames(R)
  <2>1. [1..FrameUnits -> S] \subseteq [1..FrameUnits -> R]
    BY <1>2
  <2>2. q.frames \in Seq([1..FrameUnits -> S]) /\ Len(q.frames) <= MaxQueuedFrames
    BY DEF Queue, Frames
  <2> QED BY <2>1, <2>2 DEF Frames
<1> QED BY <1>1, <1>3 DEF Queue

-------------------------------------------------------------------------------
(***************************************************************************)
(* What is sent and told in a step is short, and the folds of Apply are    *)
(* one or two steps long.                                                  *)
(***************************************************************************)

Brief(q) == \/ q = <<>>
            \/ \E a : q = <<a>>
            \/ \E a, b : q = <<a, b>>

LEMMA ServerTakes ==
    ASSUME NEW n
    PROVE  /\ FoldLeft(NetTakes, n, <<>>) = n
           /\ \A a : FoldLeft(NetTakes, n, <<a>>) = NetTakes(n, a)
           /\ \A a, b : FoldLeft(NetTakes, n, <<a, b>>) = NetTakes(NetTakes(n, a), b)
<1>1. FoldLeft(NetTakes, n, <<>>) = n
  <2> DEFINE Rec(g) == [s \in SUBSET {} |->
                           IF s = {} THEN n ELSE NetTakes(g[s \ {Max(s)}], <<>>[Max(s)])]
             w == [s \in SUBSET {} |-> n]
             h == CHOOSE g : g = Rec(g)
  <2>1. FoldLeft(NetTakes, n, <<>>) = h[{}]
    <3>1. DOMAIN <<>> = {}
      OBVIOUS
    <3> QED BY <3>1, Zenon DEF FoldLeft, MapThenFoldSet
  <2>2. w = Rec(w)
    OBVIOUS
  <2>3. \E g : g = Rec(g)
    BY <2>2
  <2>4. h = Rec(h)
    BY <2>3
  <2> HIDE DEF h
  <2>5. h[{}] = n
    BY <2>4
  <2> QED BY <2>1, <2>5
<1>2. ASSUME NEW a PROVE FoldLeft(NetTakes, n, <<a>>) = NetTakes(n, a)
  <2> DEFINE Rec(g) == [s \in SUBSET {1} |->
                           IF s = {} THEN n ELSE NetTakes(g[s \ {Max(s)}], <<a>>[Max(s)])]
             w == [s \in SUBSET {1} |-> IF s = {} THEN n ELSE NetTakes(n, a)]
             h == CHOOSE g : g = Rec(g)
  <2>1. FoldLeft(NetTakes, n, <<a>>) = h[{1}]
    <3>1. DOMAIN <<a>> = {1}
      OBVIOUS
    <3> QED BY <3>1, Zenon DEF FoldLeft, MapThenFoldSet
  <2>2. {1} \ {1} = {} /\ {1} # {} /\ Max({1}) = 1 /\ <<a>>[1] = a
    BY DEF Max
  <2>3. w = Rec(w)
    <3>1. ASSUME NEW s \in SUBSET {1} PROVE w[s] = Rec(w)[s]
      <4>1. CASE s = {}
        BY <4>1
      <4>2. CASE s = {1}
        <5>1. w[{1}] = NetTakes(n, a) /\ w[{}] = n
          BY <2>2
        <5>2. Rec(w)[{1}] = NetTakes(w[{}], a)
          BY <2>2
        <5> QED BY <4>2, <5>1, <5>2
      <4> QED BY <4>1, <4>2
    <3> QED BY <3>1
  <2>4. \E g : g = Rec(g)
    BY <2>3
  <2>5. h = Rec(h)
    BY <2>4
  <2> HIDE DEF h
  <2>6. h[{}] = n
    BY <2>5
  <2>7. h[{1}] = NetTakes(h[{}], a)
    BY <2>2, <2>5
  <2> QED BY <2>1, <2>6, <2>7
<1>3. ASSUME NEW a, NEW b PROVE FoldLeft(NetTakes, n, <<a, b>>) = NetTakes(NetTakes(n, a), b)
  <2> DEFINE Rec(g) == [s \in SUBSET {1, 2} |->
                           IF s = {} THEN n ELSE NetTakes(g[s \ {Max(s)}], <<a, b>>[Max(s)])]
             w == [s \in SUBSET {1, 2} |->
                      IF s = {} THEN n ELSE IF s = {1} THEN NetTakes(n, a)
                      ELSE IF s = {2} THEN NetTakes(n, b)
                      ELSE NetTakes(NetTakes(n, a), b)]
             h == CHOOSE g : g = Rec(g)
  <2>1. FoldLeft(NetTakes, n, <<a, b>>) = h[{1, 2}]
    <3>1. DOMAIN <<a, b>> = {1, 2}
      OBVIOUS
    <3> QED BY <3>1, Zenon DEF FoldLeft, MapThenFoldSet
  <2>2. /\ {1} \ {1} = {} /\ {2} \ {2} = {} /\ {1, 2} \ {2} = {1}
        /\ {1} # {} /\ {2} # {} /\ {1, 2} # {} /\ {1} # {2} /\ {1, 2} # {1}
        /\ {1, 2} # {2}
    OBVIOUS
  <2>3. /\ Max({1}) = 1 /\ Max({2}) = 2 /\ Max({1, 2}) = 2
        /\ <<a, b>>[1] = a /\ <<a, b>>[2] = b
    BY DEF Max
  <2>4. w = Rec(w)
    <3>1. ASSUME NEW s \in SUBSET {1, 2} PROVE w[s] = Rec(w)[s]
      <4>1. CASE s = {}
        BY <4>1
      <4>2. /\ w[{}] = n /\ w[{1}] = NetTakes(n, a) /\ w[{2}] = NetTakes(n, b)
            /\ w[{1, 2}] = NetTakes(NetTakes(n, a), b)
        BY <2>2
      <4>3. /\ Rec(w)[{1}] = NetTakes(w[{}], a)
            /\ Rec(w)[{2}] = NetTakes(w[{}], b)
            /\ Rec(w)[{1, 2}] = NetTakes(w[{1}], b)
        BY <2>2, <2>3
      <4>4. s = {} \/ s = {1} \/ s = {2} \/ s = {1, 2}
        OBVIOUS
      <4>5. /\ s = {1} => w[s] = Rec(w)[s]
            /\ s = {2} => w[s] = Rec(w)[s]
            /\ s = {1, 2} => w[s] = Rec(w)[s]
        <5> HIDE DEF w, Rec
        <5> QED BY <4>2, <4>3
      <4> HIDE DEF w, Rec
      <4> QED BY <4>1, <4>4, <4>5
    <3> QED BY <3>1
  <2>5. \E g : g = Rec(g)
    BY <2>4
  <2>6. h = Rec(h)
    BY <2>5
  <2> HIDE DEF h
  <2>7. h[{}] = n
    BY <2>6
  <2>8. h[{1}] = NetTakes(h[{}], a)
    BY <2>2, <2>3, <2>6
  <2>9. h[{1, 2}] = NetTakes(h[{1}], b)
    BY <2>2, <2>3, <2>6
  <2> QED BY <2>1, <2>7, <2>8, <2>9
<1> QED BY <1>1, <1>2, <1>3


LEMMA CallHears ==
    ASSUME NEW n, NEW current
    PROVE  /\ CallTakesAll(n, <<>>, current) = n
           /\ \A a : CallTakesAll(n, <<a>>, current) = CallTakes(n, a, current)
           /\ \A a, b : CallTakesAll(n, <<a, b>>, current) =
                           CallTakes(CallTakes(n, a, current), b, current)
<1>1. CallTakesAll(n, <<>>, current) = n
  <2> DEFINE Rec(g) == [s \in SUBSET {} |->
                           IF s = {} THEN n ELSE CallTakes(g[s \ {Max(s)}], <<>>[Max(s)], current)]
             w == [s \in SUBSET {} |-> n]
             h == CHOOSE g : g = Rec(g)
  <2>1. CallTakesAll(n, <<>>, current) = h[{}]
    <3>1. DOMAIN <<>> = {}
      OBVIOUS
    <3> QED BY <3>1, Zenon DEF CallTakesAll, FoldLeft, MapThenFoldSet
  <2>2. w = Rec(w)
    OBVIOUS
  <2>3. \E g : g = Rec(g)
    BY <2>2
  <2>4. h = Rec(h)
    BY <2>3
  <2> HIDE DEF h
  <2>5. h[{}] = n
    BY <2>4
  <2> QED BY <2>1, <2>5
<1>2. ASSUME NEW a
      PROVE  CallTakesAll(n, <<a>>, current) =
                CallTakes(n, a, current)
  <2> DEFINE Rec(g) == [s \in SUBSET {1} |->
                           IF s = {} THEN n ELSE CallTakes(g[s \ {Max(s)}], <<a>>[Max(s)], current)]
             w == [s \in SUBSET {1} |-> IF s = {} THEN n ELSE CallTakes(n, a, current)]
             h == CHOOSE g : g = Rec(g)
  <2>1. CallTakesAll(n, <<a>>, current) = h[{1}]
    <3>1. DOMAIN <<a>> = {1}
      OBVIOUS
    <3> QED BY <3>1, Zenon DEF CallTakesAll, FoldLeft, MapThenFoldSet
  <2>2. {1} \ {1} = {} /\ {1} # {} /\ Max({1}) = 1 /\ <<a>>[1] = a
    BY DEF Max
  <2>3. w = Rec(w)
    <3>1. ASSUME NEW s \in SUBSET {1} PROVE w[s] = Rec(w)[s]
      <4>1. CASE s = {}
        BY <4>1
      <4>2. CASE s = {1}
        <5>1. w[{1}] = CallTakes(n, a, current) /\ w[{}] = n
          BY <2>2
        <5>2. Rec(w)[{1}] = CallTakes(w[{}], a, current)
          BY <2>2
        <5> QED BY <4>2, <5>1, <5>2
      <4> QED BY <4>1, <4>2
    <3> QED BY <3>1
  <2>4. \E g : g = Rec(g)
    BY <2>3
  <2>5. h = Rec(h)
    BY <2>4
  <2> HIDE DEF h
  <2>6. h[{}] = n
    BY <2>5
  <2>7. h[{1}] = CallTakes(h[{}], a, current)
    BY <2>2, <2>5
  <2> QED BY <2>1, <2>6, <2>7
<1>3. ASSUME NEW a, NEW b
      PROVE  CallTakesAll(n, <<a, b>>, current) =
                CallTakes(CallTakes(n, a, current), b, current)
  <2> DEFINE Rec(g) == [s \in SUBSET {1, 2} |->
                           IF s = {} THEN n
                           ELSE CallTakes(g[s \ {Max(s)}], <<a, b>>[Max(s)], current)]
             w == [s \in SUBSET {1, 2} |->
                      IF s = {} THEN n ELSE IF s = {1} THEN CallTakes(n, a, current)
                      ELSE IF s = {2} THEN CallTakes(n, b, current)
                      ELSE CallTakes(CallTakes(n, a, current), b, current)]
             h == CHOOSE g : g = Rec(g)
  <2>1. CallTakesAll(n, <<a, b>>, current) = h[{1, 2}]
    <3>1. DOMAIN <<a, b>> = {1, 2}
      OBVIOUS
    <3> QED BY <3>1, Zenon DEF CallTakesAll, FoldLeft, MapThenFoldSet
  <2>2. /\ {1} \ {1} = {} /\ {2} \ {2} = {} /\ {1, 2} \ {2} = {1}
        /\ {1} # {} /\ {2} # {} /\ {1, 2} # {} /\ {1} # {2} /\ {1, 2} # {1}
        /\ {1, 2} # {2}
    OBVIOUS
  <2>3. /\ Max({1}) = 1 /\ Max({2}) = 2 /\ Max({1, 2}) = 2
        /\ <<a, b>>[1] = a /\ <<a, b>>[2] = b
    BY DEF Max
  <2>4. w = Rec(w)
    <3>1. ASSUME NEW s \in SUBSET {1, 2} PROVE w[s] = Rec(w)[s]
      <4>1. CASE s = {}
        BY <4>1
      <4>2. /\ w[{}] = n /\ w[{1}] = CallTakes(n, a, current) /\ w[{2}] = CallTakes(n, b, current)
            /\ w[{1, 2}] = CallTakes(CallTakes(n, a, current), b, current)
        BY <2>2
      <4>3. /\ Rec(w)[{1}] = CallTakes(w[{}], a, current)
            /\ Rec(w)[{2}] = CallTakes(w[{}], b, current)
            /\ Rec(w)[{1, 2}] = CallTakes(w[{1}], b, current)
        BY <2>2, <2>3
      <4>4. s = {} \/ s = {1} \/ s = {2} \/ s = {1, 2}
        OBVIOUS
      <4>5. /\ s = {1} => w[s] = Rec(w)[s]
            /\ s = {2} => w[s] = Rec(w)[s]
            /\ s = {1, 2} => w[s] = Rec(w)[s]
        <5> HIDE DEF w, Rec
        <5> QED BY <4>2, <4>3
      <4> HIDE DEF w, Rec
      <4> QED BY <4>1, <4>4, <4>5
    <3> QED BY <3>1
  <2>5. \E g : g = Rec(g)
    BY <2>4
  <2>6. h = Rec(h)
    BY <2>5
  <2> HIDE DEF h
  <2>7. h[{}] = n
    BY <2>6
  <2>8. h[{1}] = CallTakes(h[{}], a, current)
    BY <2>2, <2>3, <2>6
  <2>9. h[{1, 2}] = CallTakes(h[{1}], b, current)
    BY <2>2, <2>3, <2>6
  <2> QED BY <2>1, <2>7, <2>8, <2>9
<1> QED BY <1>1, <1>2, <1>3

-------------------------------------------------------------------------------
(***************************************************************************)
(* The server and the call, and what a step of the provider makes of them. *)
(***************************************************************************)

Net == [active : Nat, made : Nat, wants : Nat, owes : BOOLEAN, collided : BOOLEAN,
        unanswered : SUBSET Tools, hearing : BOOLEAN, deltas : Nat, inbox : Seq(Event)]

Call == [attached : BOOLEAN, closing : BOOLEAN, farewell : {"none", "asked", "draining"},
         over : BOOLEAN, running : SUBSET Tools, asked : SUBSET Tools,
         silenced : SUBSET Nat, lines : Nat, noise : Nat, drops : Nat]

World == [line : Queue(Nat), call : Call]

LEMMA BriefElements ==
    ASSUME NEW S, NEW q \in Seq(S), Brief(q)
    PROVE  \/ q = <<>>
           \/ \E a \in S : q = <<a>>
           \/ \E a, b \in S : q = <<a, b>>
<1>0. \A i \in 1..Len(q) : q[i] \in S
  OBVIOUS
<1>1. ASSUME NEW a, q = <<a>> PROVE a \in S
  <2>1. Len(q) = 1 /\ q[1] = a
    BY <1>1
  <2> QED BY <1>0, <2>1
<1>2. ASSUME NEW a, NEW b, q = <<a, b>> PROVE a \in S /\ b \in S
  <2>1. Len(q) = 2 /\ q[1] = a /\ q[2] = b
    BY <1>2
  <2> QED BY <1>0, <2>1
<1> QED BY <1>1, <1>2 DEF Brief

LEMMA PushKeeps ==
    ASSUME NEW n \in Net
    PROVE  /\ \A e \in Event : Push(n, e) \in Net
           /\ n.inbox # <<>> => /\ [n EXCEPT !.inbox = Tail(@)] \in Net
                                /\ Head(n.inbox) \in Event
<1>1. ASSUME NEW e \in Event PROVE Push(n, e) \in Net
  <2>1. Append(n.inbox, e) \in Seq(Event)
    BY DEF Net
  <2> QED BY <2>1 DEF Push, Net
<1>2. ASSUME n.inbox # <<>>
      PROVE  [n EXCEPT !.inbox = Tail(@)] \in Net /\ Head(n.inbox) \in Event
  <2>1. Tail(n.inbox) \in Seq(Event) /\ Head(n.inbox) \in Event
    BY <1>2 DEF Net
  <2> QED BY <2>1 DEF Net
<1> QED BY <1>1, <1>2

LEMMA Occurrences ==
    /\ \A type \in {"session.created", "session.updated", "speech_started",
                    "speech_stopped", "conflict", "terminal", "complaint", "error"} :
          [type |-> type] \in Event
    /\ \A r \in Nat \ {0} : /\ [type |-> "response.created", response |-> r] \in Event
                            /\ [type |-> "response.done", response |-> r] \in Event
                            /\ [type |-> "audio", response |-> r] \in Event
    /\ \A t \in Tools : [type |-> "tool", tool |-> t] \in Event
    /\ \A normal \in BOOLEAN : [type |-> "close", normal |-> normal] \in Event
BY DEF Event, Plain, AboutResponse, AboutTool

LEMMA ServerKeeps ==
    ASSUME NEW n \in Net
    PROVE  /\ NewNet(n.made) \in Net
           /\ Collide(n) \in Net /\ NewResponse(n) \in Net
           /\ n.active # 0 => EndResponse(n) \in Net
           /\ \A m \in Message : NetTakes(n, m) \in Net
<1>1. NewNet(n.made) \in Net
  <2>1. <<>> \in Seq(Event)
    OBVIOUS
  <2> QED BY <2>1 DEF NewNet, Net
<1>2. ASSUME NEW x \in Net PROVE Collide(x) \in Net
  <2>1. [x EXCEPT !.collided = TRUE] \in Net
    BY DEF Net
  <2> QED BY <2>1, PushKeeps, Occurrences DEF Collide
<1>3. NewResponse(n) \in Net
  <2> DEFINE r == n.made + 1
             e == [n EXCEPT !.active = r, !.made = r, !.deltas = 0, !.unanswered = {}]
             begun == Push(e, [type |-> "response.created", response |-> r])
  <2>1. r \in Nat \ {0}
    BY DEF Net
  <2>2. e \in Net
    BY <2>1 DEF Net
  <2>3. begun \in Net
    BY <2>1, <2>2, PushKeeps, Occurrences
  <2> HIDE DEF begun
  <2>4. [begun EXCEPT !.wants = 0] \in Net
    BY <2>3 DEF Net
  <2>5. NewResponse(n) = IF n.wants > 0 THEN Collide([begun EXCEPT !.wants = 0]) ELSE begun
    BY DEF NewResponse, begun
  <2> QED BY <1>2, <2>3, <2>4, <2>5
<1>4. ASSUME n.active # 0 PROVE EndResponse(n) \in Net
  <2>1. [n EXCEPT !.active = 0] \in Net /\ n.active \in Nat \ {0}
    BY <1>4 DEF Net
  <2> QED BY <2>1, PushKeeps, Occurrences DEF EndResponse
<1>5. ASSUME NEW m \in Message PROVE NetTakes(n, m) \in Net
  <2>1. CASE m.type = "session.update"
    BY <2>1 DEF NetTakes, Net
  <2>2. CASE m.type = "response.create"
    <3>1. [n EXCEPT !.wants = @ + 1] \in Net
      BY DEF Net
    <3>2. NetTakes(n, m) = IF n.active # 0 THEN Collide(n) ELSE [n EXCEPT !.wants = @ + 1]
      BY <2>2 DEF NetTakes
    <3> QED BY <1>2, <3>1, <3>2
  <2>3. CASE m.type = "response.cancel"
    <3>1. m.response \in Nat \ {0}
      BY <2>3 DEF Message, Plain, AboutResponse
    <3>2. NetTakes(n, m) = IF n.active = m.response THEN EndResponse(n) ELSE n
      BY <2>3 DEF NetTakes
    <3> QED BY <1>4, <3>1, <3>2
  <2>4. CASE m.type = "result"
    <3>1. m.tool \in Tools
      BY <2>4 DEF Message, Plain, AboutResponse
    <3>2. NetTakes(n, m) = [n EXCEPT !.unanswered = @ \cup {m.tool}]
      BY <2>4 DEF NetTakes
    <3> QED BY <3>1, <3>2 DEF Net
  <2>5. m.type \in {"session.update", "response.create", "response.cancel", "result"}
    BY DEF Message, Plain, AboutResponse
  <2> QED BY <2>1, <2>2, <2>3, <2>4, <2>5
<1> QED BY <1>1, <1>2, <1>3, <1>4, <1>5

LEMMA ServerTakesBrief ==
    ASSUME NEW n \in Net, NEW out \in Seq(Message), Brief(out)
    PROVE  FoldLeft(NetTakes, n, out) \in Net
<1>1. ASSUME NEW x \in Net, NEW m \in Message PROVE NetTakes(x, m) \in Net
  BY ServerKeeps
<1>2. \/ out = <<>>
      \/ \E a \in Message : out = <<a>>
      \/ \E a, b \in Message : out = <<a, b>>
  BY BriefElements
<1>3. CASE out = <<>>
  BY <1>3, ServerTakes
<1>4. ASSUME NEW a \in Message, out = <<a>> PROVE FoldLeft(NetTakes, n, out) \in Net
  <2>1. FoldLeft(NetTakes, n, out) = NetTakes(n, a)
    BY <1>4, ServerTakes
  <2> QED BY <1>1, <2>1
<1>5. ASSUME NEW a \in Message, NEW b \in Message, out = <<a, b>>
      PROVE  FoldLeft(NetTakes, n, out) \in Net
  <2>1. FoldLeft(NetTakes, n, <<a, b>>) = NetTakes(NetTakes(n, a), b)
    <3>1. \A x, y : FoldLeft(NetTakes, n, <<x, y>>) = NetTakes(NetTakes(n, x), y)
      BY ServerTakes
    <3> QED BY <3>1
  <2> QED BY <1>1, <1>5, <2>1
<1> QED BY <1>2, <1>3, <1>4, <1>5

\* What a handler of the call leaves alone.
SameCall(c, d) ==
    /\ d.attached = c.attached /\ d.closing = c.closing /\ d.farewell = c.farewell
    /\ d.over = c.over /\ d.asked = c.asked /\ d.lines = c.lines
    /\ d.noise = c.noise /\ d.drops = c.drops

\* What is playing.
Playing(q) == UNION {Range(f) : f \in Range(q.frames)}

LEMMA PlayingIsQueued ==
    ASSUME NEW S, NEW q \in Queue(S)
    PROVE  Playing(q) \subseteq S
<1>1. ASSUME NEW i \in DOMAIN q.frames PROVE q.frames[i] \in [1..FrameUnits -> S]
  BY DEF Queue, Frames
<1>2. ASSUME NEW f \in [1..FrameUnits -> S] PROVE Range(f) \subseteq S
  BY DEF Range
<1> QED BY <1>1, <1>2 DEF Playing, Range

LEMMA CallKeeps ==
    ASSUME NEW x \in World, NEW c \in Telling, NEW current \in Nat
    PROVE  LET y == CallTakes(x, c, current)
           IN  /\ y \in World /\ SameCall(x.call, y.call)
               /\ x.call.running \subseteq y.call.running
               /\ c.type # "tool" => y.call.running = x.call.running
<1> DEFINE y == CallTakes(x, c, current)
<1>0. x.line \in Queue(Nat) /\ x.call \in Call
  BY DEF World
<1>1. CASE c.type = "audio" /\ x.call.attached
  <2>1. c.response \in Nat
    BY <1>1 DEF Telling, Plain, AboutResponse, AboutTool
  <2>2. <<c.response>> \in Seq(Nat)
    BY <2>1
  <2>3. SendAudio(x.line, <<c.response>>) \in Queue(Nat)
    BY <1>0, <2>2, SendKeeps
  <2>4. y = [x EXCEPT !.line = SendAudio(@, <<c.response>>)]
    BY <1>1 DEF CallTakes
  <2>5. y \in World /\ y.call = x.call
    BY <2>3, <2>4 DEF World
  <2> QED BY <2>5 DEF SameCall
<1>2. CASE c.type = "interruption" /\ ~x.call.closing
  <2> DEFINE off == ({current} \cup Playing(x.line)) \ {0}
             d == [x.call EXCEPT !.silenced = @ \cup off]
  <2>1. off \subseteq Nat
    BY <1>0, PlayingIsQueued
  <2>2. y = [line |-> Discard(x.line), call |-> d]
    BY <1>2 DEF CallTakes, Playing
  <2> HIDE DEF off
  <2>3. d \in Call /\ SameCall(x.call, d) /\ d.running = x.call.running
    BY <1>0, <2>1 DEF Call, SameCall
  <2>4. Discard(x.line) \in Queue(Nat)
    BY <1>0, QueueKeeps
  <2> HIDE DEF d
  <2>5. y \in World /\ y.call = d
    BY <2>2, <2>3, <2>4 DEF World
  <2> QED BY <1>2, <2>3, <2>5
<1>3. CASE c.type = "tool"
  <2> DEFINE d == [x.call EXCEPT !.running = @ \cup {c.tool}]
  <2>1. c.tool \in Tools
    BY <1>3 DEF Telling, Plain, AboutResponse, AboutTool
  <2>2. d \in Call /\ SameCall(x.call, d) /\ d.running = x.call.running \cup {c.tool}
    BY <1>0, <2>1 DEF Call, SameCall
  <2>3. y = [x EXCEPT !.call = d]
    BY <1>3 DEF CallTakes, World
  <2> HIDE DEF d
  <2>4. y \in World /\ y.call = d
    BY <2>2, <2>3 DEF World
  <2> QED BY <1>3, <2>2, <2>4
<1>4. CASE /\ ~(c.type = "audio" /\ x.call.attached)
           /\ ~(c.type = "interruption" /\ ~x.call.closing)
           /\ c.type # "tool"
  <2>1. y = x
    BY <1>4 DEF CallTakes
  <2> QED BY <2>1 DEF SameCall
<1> QED BY <1>1, <1>2, <1>3, <1>4

LEMMA CallHearsBrief ==
    ASSUME NEW x \in World, NEW current \in Nat, NEW calls \in Seq(Telling), Brief(calls)
    PROVE  LET y == CallTakesAll(x, calls, current)
           IN  y \in World /\ SameCall(x.call, y.call) /\ (calls = <<>> => y = x)
<1> DEFINE y == CallTakesAll(x, calls, current)
<1>1. ASSUME NEW w \in World, NEW c \in Telling
      PROVE  CallTakes(w, c, current) \in World /\ SameCall(w.call, CallTakes(w, c, current).call)
  BY CallKeeps
<1>2. \/ calls = <<>>
      \/ \E a \in Telling : calls = <<a>>
      \/ \E a, b \in Telling : calls = <<a, b>>
  BY BriefElements
<1>3. CASE calls = <<>>
  <2>1. y = x
    BY <1>3, CallHears
  <2> QED BY <2>1 DEF SameCall
<1>4. ASSUME NEW a \in Telling, calls = <<a>>
      PROVE  y \in World /\ SameCall(x.call, y.call) /\ calls # <<>>
  <2>1. y = CallTakes(x, a, current)
    BY <1>4, CallHears
  <2> HIDE DEF y
  <2> QED BY <1>1, <1>4, <2>1
<1>5. ASSUME NEW a \in Telling, NEW b \in Telling, calls = <<a, b>>
      PROVE  y \in World /\ SameCall(x.call, y.call) /\ calls # <<>>
  <2> DEFINE z == CallTakes(x, a, current)
  <2>1. y = CallTakes(z, b, current)
    <3>1. \A d, e : CallTakesAll(x, <<d, e>>, current) =
                       CallTakes(CallTakes(x, d, current), e, current)
      BY CallHears
    <3> QED BY <1>5, <3>1
  <2> HIDE DEF y
  <2>2. z \in World /\ SameCall(x.call, z.call)
    BY <1>1
  <2> HIDE DEF z
  <2>3. y \in World /\ SameCall(z.call, y.call)
    BY <1>1, <2>1, <2>2
  <2> QED BY <1>5, <2>2, <2>3 DEF SameCall
<1> QED BY <1>2, <1>3, <1>4, <1>5

-------------------------------------------------------------------------------
(***************************************************************************)
(* Every handler settles: the connection stays linked, and what is sent    *)
(* and told is brief.                                                      *)
(***************************************************************************)

Settles(s, t, u) ==
    StaysLinked(s, t, u) /\ Brief(u.calls) /\ (u.socket = s.socket => Brief(u.out))

Chat(q) == \/ \E c : c.type \in Small /\ q = <<c>>
           \/ \E c, d : c.type \in Small /\ d.type \in Small /\ q = <<c, d>>

LEMMA BriefOnes ==
    /\ Brief(<<>>) /\ (\A a : Brief(<<a>>)) /\ (\A a, b : Brief(<<a, b>>))
    /\ \A a : Brief(Append(<<>>, a))
    /\ \A a, b : Brief(Append(Append(<<>>, a), b))
    /\ Brief(Failure) /\ Brief(Interruption) /\ (\A r : Brief(Cancellation(r)))
<1>1. Brief(<<>>) /\ (\A a : Brief(<<a>>)) /\ (\A a, b : Brief(<<a, b>>))
  BY DEF Brief
<1>2. (\A a : Append(<<>>, a) = <<a>>) /\ (\A a, b : Append(Append(<<>>, a), b) = <<a, b>>)
  BY ShortSequences
<1> QED BY <1>1, <1>2 DEF Failure, Interruption, Cancellation

LEMMA QuietSettles ==
    ASSUME NEW s \in Provider, NEW t \in Told, NEW u \in Provider, Linked(s, t),
           SameLink(s, u), Brief(u.out), u.calls = <<>> \/ (Open(s, t) /\ Chat(u.calls))
    PROVE  Settles(s, t, u)
<1>1. Heard(t, s, u.calls) = t /\ Brief(u.calls)
  <2>1. CASE u.calls = <<>>
    BY <2>1, NothingHeard DEF Brief
  <2>2. CASE Open(s, t) /\ Chat(u.calls)
    <3>1. /\ \A c : c.type \in Small => Heard(t, s, <<c>>) = t
          /\ \A c, d : c.type \in Small /\ d.type \in Small => Heard(t, s, <<c, d>>) = t
      BY <2>2, SmallTalkHeard
    <3> QED BY <2>2, <3>1 DEF Chat, Brief
  <2> QED BY <2>1, <2>2
<1> QED BY <1>1, QuietStaysLinked DEF Settles

LEMMA TalkSettles ==
    ASSUME NEW s \in Idle, NEW t \in Told, NEW u, Linked(s, t), Talks(s, u)
    PROVE  Settles(s, t, u)
<1>1. u \in Provider /\ SameLink(s, u) /\ u.calls = <<>> /\ Brief(u.out) /\ s \in Provider
  BY BriefOnes DEF Talks, Sends, Idle
<1> QED BY <1>1, QuietSettles

LEMMA ResultSettles ==
    ASSUME NEW s \in Provider, NEW t \in Told, NEW tool \in Tools, Linked(s, t), s.calls = <<>>,
           s.out = <<>> \/ (s.out = <<Creation>> /\ s.awaiting)
    PROVE  Settles(s, t, SendToolResult(s, tool))
<1> DEFINE u == SendToolResult(s, tool)
           m == [type |-> "result", tool |-> tool]
<1>1. u \in Provider /\ SameLink(s, u) /\ SendsResult(s, u, tool) /\ u.calls = <<>>
  BY ResultTalks
<1> HIDE DEF u
<1>2. \/ u.out \in {s.out, Append(s.out, m)}
      \/ /\ u.out \in {Append(s.out, Creation), Append(Append(s.out, m), Creation)}
         /\ ~s.awaiting
  BY <1>1 DEF SendsResult
<1>3. Brief(u.out)
  <2>1. CASE s.out = <<>>
    BY <1>2, <2>1, BriefOnes
  <2>2. CASE s.out = <<Creation>> /\ s.awaiting
    BY <1>2, <2>2, BriefOnes, ShortSequences
  <2> QED BY <2>1, <2>2
<1>4. Settles(s, t, u)
  BY <1>1, <1>3, QuietSettles
<1> QED BY <1>4 DEF u

LEMMA SomeChat ==
    /\ Chat(<<[type |-> "error"]>>) /\ Chat(<<[type |-> "speech"]>>) /\ Chat(Interruption)
    /\ \A r : Chat(<<[type |-> "audio", response |-> r]>>)
    /\ \A t : Chat(<<[type |-> "tool", tool |-> t]>>)
<1>1. \A c, d : c.type \in Small /\ d.type \in Small => Chat(<<c>>) /\ Chat(<<c, d>>)
  BY DEF Chat
<1>2. /\ [type |-> "error"].type \in Small /\ [type |-> "speech"].type \in Small
      /\ [type |-> "interruption"].type \in Small
      /\ \A r : [type |-> "audio", response |-> r].type \in Small
      /\ \A t : [type |-> "tool", tool |-> t].type \in Small
  BY DEF Small
<1> QED BY <1>1, <1>2 DEF Interruption

\* The timers and the calls that leave the connection alone.
LEMMA TimersSettle ==
    ASSUME NEW s \in Idle, NEW t \in Told, Linked(s, t)
    PROVE  /\ Settles(s, t, ResponseTimer(s))
           /\ Settles(s, t, FillerTimer(s)) /\ Settles(s, t, RecoveryTimer(s))
           /\ Settles(s, t, [s EXCEPT !.audible = FALSE])
           /\ Settles(s, t, Say(s))
<1>1. s \in Provider
  BY DEF Idle
<1>2. Settles(s, t, ResponseTimer(s))
  <2> DEFINE u == ResponseTimer(s)
  <2>1. u \in Provider /\ SameLink(s, u) /\ u.calls = <<>> /\ (u.out = <<>> \/ u.out = <<Creation>>)
    BY ResponseTimerAsks
  <2> HIDE DEF u
  <2>2. Settles(s, t, u)
    BY <1>1, <2>1, BriefOnes, QuietSettles
  <2> QED BY <2>2 DEF u
<1>3. Settles(s, t, FillerTimer(s)) /\ Settles(s, t, RecoveryTimer(s)) /\ Settles(s, t, Say(s))
  BY <1>1, FillerTalks, SayTalks, TalkSettles
<1>4. Settles(s, t, [s EXCEPT !.audible = FALSE])
  <2> DEFINE u == [s EXCEPT !.audible = FALSE]
  <2>1. u \in Idle /\ SameLink(s, u)
    BY FlagsAlone
  <2> HIDE DEF u
  <2>2. u \in Provider /\ u.calls = <<>> /\ u.out = <<>>
    BY <2>1 DEF Idle
  <2>3. Settles(s, t, u)
    BY <1>1, <2>1, <2>2, BriefOnes, QuietSettles
  <2> QED BY <2>3 DEF u
<1> QED BY <1>2, <1>3, <1>4

\* The events of a session that are not about the connection.
LEMMA SpeechSettles ==
    ASSUME NEW s \in Idle, NEW t \in Told, Linked(s, t), s.socket # 0
    PROVE  /\ Settles(s, t, HandleSpeechStarted(s))
           /\ Settles(s, t, HandleSpeechStopped(s))
           /\ \A r \in Nat \ {0} : /\ Settles(s, t, HandleResponseCreated(s, r))
                                   /\ Settles(s, t, HandleResponseDone(s, r))
                                   /\ Settles(s, t, HandleAudioDelta(s, r))
           /\ \A tool \in Tools : Settles(s, t, HandleFunctionCall(s, tool))
           /\ Settles(s, t, HandleConflict(s)) /\ Settles(s, t, HandleComplaint(s))
           /\ Settles(s, t, HandleOtherError(s))
<1>1. s \in Provider /\ s.calls = <<>> /\ s.out = <<>> /\ Open(s, t)
  BY ConnectedIsOpen DEF Idle
<1>2. ASSUME NEW u \in Provider, SameLink(s, u), Brief(u.out),
             u.calls = <<>> \/ Chat(u.calls)
      PROVE  Settles(s, t, u)
  BY <1>1, <1>2, QuietSettles
<1>3. Settles(s, t, HandleSpeechStarted(s))
  <2> DEFINE u == HandleSpeechStarted(s)
  <2>1. Yields(s, u)
    BY SpeechYields
  <2> HIDE DEF u
  <2>2. u \in Provider /\ SameLink(s, u) /\ Brief(u.out) /\ Chat(u.calls)
    BY <2>1, BriefOnes, SomeChat DEF Yields
  <2> QED BY <1>2, <2>2 DEF u
<1>4. Settles(s, t, HandleSpeechStopped(s))
  <2> DEFINE u == HandleSpeechStopped(s)
  <2>1. u \in Idle /\ SameLink(s, u)
    BY FlagsAlone
  <2> HIDE DEF u
  <2>2. u \in Provider /\ Brief(u.out) /\ u.calls = <<>>
    BY <2>1, BriefOnes DEF Idle
  <2> QED BY <1>2, <2>1, <2>2 DEF u
<1>5. ASSUME NEW r \in Nat \ {0} PROVE Settles(s, t, HandleResponseCreated(s, r))
  <2> DEFINE u == HandleResponseCreated(s, r)
  <2>1. Begins(s, u, r)
    BY CreatedBegins
  <2> HIDE DEF u
  <2>2. u \in Provider /\ SameLink(s, u) /\ Brief(u.out) /\ u.calls = <<>>
    BY <2>1, BriefOnes DEF Begins
  <2> QED BY <1>2, <2>2 DEF u
<1>6. ASSUME NEW r \in Nat \ {0} PROVE Settles(s, t, HandleResponseDone(s, r))
  <2> DEFINE u == HandleResponseDone(s, r)
  <2>1. Ends(s, u, r)
    BY DoneEnds
  <2> HIDE DEF u
  <2>2. u \in Provider /\ SameLink(s, u) /\ Brief(u.out) /\ u.calls = <<>>
    BY <2>1, BriefOnes DEF Ends
  <2> QED BY <1>2, <2>2 DEF u
<1>7. ASSUME NEW r \in Nat \ {0} PROVE Settles(s, t, HandleAudioDelta(s, r))
  <2> DEFINE u == HandleAudioDelta(s, r)
  <2>1. \/ u = s
        \/ /\ u \in Provider /\ SameLink(s, u)
           /\ u.out = <<>> /\ u.calls = <<[type |-> "audio", response |-> r]>>
    BY AudioIsPassedOn
  <2> HIDE DEF u
  <2>2. u \in Provider /\ SameLink(s, u) /\ Brief(u.out) /\ (u.calls = <<>> \/ Chat(u.calls))
    BY <1>1, <2>1, BriefOnes, SomeChat DEF SameLink
  <2> QED BY <1>2, <2>2 DEF u
<1>8. ASSUME NEW tool \in Tools PROVE Settles(s, t, HandleFunctionCall(s, tool))
  <2> DEFINE u == HandleFunctionCall(s, tool)
  <2>1. Indifferent(s, u) /\ u.out = <<>> /\ u.calls = <<[type |-> "tool", tool |-> tool]>>
    BY ToolIsPassedOn
  <2> HIDE DEF u
  <2>2. u \in Provider /\ SameLink(s, u) /\ Brief(u.out) /\ Chat(u.calls)
    BY <2>1, BriefOnes, SomeChat DEF Indifferent
  <2> QED BY <1>2, <2>2 DEF u
<1>9. Settles(s, t, HandleConflict(s))
  <2> DEFINE u == HandleConflict(s)
  <2>1. u \in Provider /\ SameLink(s, u) /\ u.out = <<>> /\ u.calls = <<>>
    BY ConflictQueues
  <2> HIDE DEF u
  <2> QED BY <1>2, <2>1, BriefOnes DEF u
<1>10. Settles(s, t, HandleComplaint(s))
  <2> DEFINE u == HandleComplaint(s)
  <2>1. /\ Indifferent(s, u)
        /\ u.out \in {<<>>, <<[type |-> "session.update"]>>}
        /\ u.calls \in {<<>>, <<[type |-> "error"]>>}
    BY OthersAreIndifferent
  <2> HIDE DEF u
  <2>2. u \in Provider /\ SameLink(s, u) /\ Brief(u.out) /\ (u.calls = <<>> \/ Chat(u.calls))
    BY <2>1, BriefOnes, SomeChat DEF Indifferent
  <2> QED BY <1>2, <2>2 DEF u
<1>11. Settles(s, t, HandleOtherError(s))
  <2> DEFINE u == HandleOtherError(s)
  <2>1. Indifferent(s, u) /\ u.out = <<>> /\ u.calls = <<[type |-> "error"]>>
    BY OthersAreIndifferent
  <2> HIDE DEF u
  <2>2. u \in Provider /\ SameLink(s, u) /\ Brief(u.out) /\ Chat(u.calls)
    BY <2>1, BriefOnes, SomeChat DEF Indifferent
  <2> QED BY <1>2, <2>2 DEF u
<1> QED BY <1>3, <1>4, <1>5, <1>6, <1>7, <1>8, <1>9, <1>10, <1>11

\* toolEndCall: the farewell, if the platform says it, goes before the result.
LEMMA FarewellSettles ==
    ASSUME NEW s \in Idle, NEW t \in Told, Linked(s, t), EndCall \in Tools,
           NEW deaf \in {s, SuppressBargeIn(s)}, NEW told_off \in {deaf, Say(deaf)}
    PROVE  Settles(s, t, SendToolResult(told_off, EndCall))
<1>1. deaf \in Idle /\ SameLink(s, deaf) /\ s \in Provider
  <2>1. SuppressBargeIn(s) \in Idle /\ SameLink(s, SuppressBargeIn(s))
    BY FlagsAlone
  <2>2. SameLink(s, s) /\ s \in Provider
    BY DEF SameLink, Idle
  <2>3. CASE deaf = s
    BY <2>2, <2>3
  <2>4. CASE deaf = SuppressBargeIn(s)
    BY <2>1, <2>2, <2>4
  <2> QED BY <2>3, <2>4
<1>2. Talks(deaf, told_off)
  BY <1>1, SayTalks DEF Talks, SameLink, SameEar, Gate, Sends, Idle
<1>3. /\ told_off \in Provider /\ SameLink(s, told_off) /\ told_off.calls = <<>>
      /\ told_off.out = <<>> \/ (told_off.out = <<Creation>> /\ told_off.awaiting)
  BY <1>1, <1>2, ShortSequences DEF Talks, SameLink, Sends, Idle
<1>4. Linked(told_off, t)
  <2>1. Heard(t, s, told_off.calls) = t
    BY <1>3, NothingHeard
  <2>2. StaysLinked(s, t, told_off)
    BY <1>1, <1>3, <2>1, QuietStaysLinked
  <2> QED BY <2>1, <2>2 DEF StaysLinked
<1> DEFINE u == SendToolResult(told_off, EndCall)
<1>5. Settles(told_off, t, u)
  BY <1>3, <1>4, ResultSettles
<1>6. u \in Provider /\ SameLink(told_off, u) /\ u.calls = <<>>
  BY <1>3, ResultTalks
<1> HIDE DEF u
<1>7. SameLink(s, u) /\ Brief(u.out)
  BY <1>3, <1>5, <1>6 DEF SameLink, Settles
<1>8. Settles(s, t, u)
  BY <1>1, <1>6, <1>7, QuietSettles
<1> QED BY <1>8 DEF u

\* The events and timers of the connection.
LEMMA ConnectionSettles ==
    ASSUME NEW s \in Idle, NEW t \in Told, Linked(s, t)
    PROVE  /\ s.socket # 0 =>
                 /\ Settles(s, t, HandleSessionCreated(s))
                 /\ Settles(s, t, MarkReady(s, s.socket))
                 /\ Settles(s, t, HandleTerminalError(s))
                 /\ \A normal \in BOOLEAN : Settles(s, t, HandleClose(s, normal))
                 /\ Settles(s, t, SendSessionUpdate([s EXCEPT !.wire = "open"]))
           /\ s.pending # 0 => Settles(s, t, AttemptTimeout(s))
           /\ "ready" \in s.timers /\ s.readyFor = s.socket => Settles(s, t, ReadyGrace(s))
           /\ "reconnect" \in s.timers => Settles(s, t, ReconnectTimer(s))
           /\ s.promise = "none" => Settles(s, t, StartSession(s))
           /\ s.promise # "none" => Settles(s, t, StopSession(s))
<1>1. s \in Provider /\ s.out = <<>> /\ s.calls = <<>> /\ Brief(<<>>)
  BY BriefOnes DEF Idle
<1>2. Settles(s, t, s)
  BY <1>1, QuietSettles DEF SameLink
<1>3. ASSUME s.socket # 0 PROVE Settles(s, t, HandleSessionCreated(s))
  <2> DEFINE u == HandleSessionCreated(s)
  <2>1. StaysLinked(s, t, u)
    BY <1>3, CreatedStaysLinked
  <2>2. u \in Idle
    BY CreatedArms
  <2> HIDE DEF u
  <2>3. Settles(s, t, u)
    BY <1>1, <2>1, <2>2 DEF Settles, Idle
  <2> QED BY <2>3 DEF u
<1>4. ASSUME NEW u, s.socket # 0, ~s.ready,
             ReadyLeaves(s, u), ReadyTells(s, u), ReadyAsks(s, u)
      PROVE  Settles(s, t, u)
  <2>1. StaysLinked(s, t, u)
    BY <1>4, ReadyStaysLinked
  <2>2. Brief(u.calls) /\ Brief(u.out)
    BY <1>4, BriefOnes DEF ReadyTells, ReadyAsks
  <2> QED BY <2>1, <2>2 DEF Settles
<1>5. ASSUME s.socket # 0 PROVE Settles(s, t, MarkReady(s, s.socket))
  <2>1. CASE s.ready
    <3>1. MarkReady(s, s.socket) = s
      BY <2>1 DEF MarkReady
    <3> QED BY <1>2, <3>1
  <2>2. CASE ~s.ready
    <3> DEFINE u == MarkReady(s, s.socket)
    <3>1. ~s.stopped /\ s.pending \in {0, s.socket}
      BY <1>1, <1>5, ConnectedIsOpen
    <3>2. ReadyLeaves(s, u) /\ ReadyTells(s, u) /\ ReadyAsks(s, u)
      BY <2>2, <3>1, ReadyMarks
    <3> HIDE DEF u
    <3>3. Settles(s, t, u)
      BY <1>4, <1>5, <2>2, <3>2
    <3> QED BY <3>3 DEF u
  <2> QED BY <2>1, <2>2
<1>6. ASSUME s.socket # 0 PROVE Settles(s, t, HandleTerminalError(s))
  <2> DEFINE u == HandleTerminalError(s)
  <2>1. StaysLinked(s, t, u)
    BY <1>6, TerminalStaysLinked
  <2>2. ~s.stopped /\ ~s.closeEmitted /\ "reconnect" \notin s.timers /\ s.pending \in {0, s.socket}
    BY <1>1, <1>6, ConnectedIsOpen
  <2>3. u.out = <<>> /\ u.calls \in {<<>>, Failure}
    BY <1>6, <2>2, TerminalGivesUp DEF GivesSocketUp, PromiseBreaks
  <2> HIDE DEF u
  <2>4. Settles(s, t, u)
    BY <2>1, <2>3, BriefOnes DEF Settles
  <2> QED BY <2>4 DEF u
<1>7. ASSUME s.socket # 0, NEW normal \in BOOLEAN PROVE Settles(s, t, HandleClose(s, normal))
  <2> DEFINE u == HandleClose(s, normal)
  <2>1. StaysLinked(s, t, u)
    BY <1>7, CloseStaysLinked
  <2>2. /\ ~s.stopped /\ ~s.closeEmitted /\ ~s.terminal /\ "reconnect" \notin s.timers
        /\ s.pending \in {0, s.socket}
    BY <1>1, <1>7, ConnectedIsOpen
  <2>3. CloseLeaves(s, u) /\ CloseTells(s, u)
    BY <1>7, <2>2, CloseLoses
  <2> HIDE DEF u
  <2>4. u.out = <<>> /\ u.calls \in {<<>>, Failure, <<[type |-> "close"]>>}
    BY <2>3 DEF CloseLeaves, CloseTells, GoesOn
  <2>5. Settles(s, t, u)
    BY <2>1, <2>4, BriefOnes DEF Settles
  <2> QED BY <2>5 DEF u
<1>8. ASSUME s.socket # 0
      PROVE  Settles(s, t, SendSessionUpdate([s EXCEPT !.wire = "open"]))
  <2> DEFINE u == SendSessionUpdate([s EXCEPT !.wire = "open"])
  <2>1. StaysLinked(s, t, u)
    BY <1>8, OpenedStaysLinked
  <2>2. u.out = <<[type |-> "session.update"]>> /\ u.calls = <<>>
    BY <1>8, OpenSendsUpdate
  <2> HIDE DEF u
  <2>3. Settles(s, t, u)
    BY <2>1, <2>2, BriefOnes DEF Settles
  <2> QED BY <2>3 DEF u
<1>9. ASSUME s.pending # 0 PROVE Settles(s, t, AttemptTimeout(s))
  <2> DEFINE u == AttemptTimeout(s)
  <2>1. StaysLinked(s, t, u)
    BY <1>9, TimeoutStaysLinked
  <2>2. /\ ~s.terminal /\ s.socket \in {0, s.pending}
        /\ (s.socket = 0 <=> s.wire = "none") /\ (s.ready => s.socket # 0)
        /\ ~s.stopped => ~s.closeEmitted /\ "reconnect" \notin s.timers
    BY <1>9 DEF Linked, Sockets, Endings
  <2>3. u.out = <<>> /\ u.calls \in {<<>>, Failure}
    BY <1>9, <2>2, TimeoutGivesUp DEF GivesSocketUp, PromiseBreaks, GoesOn
  <2> HIDE DEF u
  <2>4. Settles(s, t, u)
    BY <2>1, <2>3, BriefOnes DEF Settles
  <2> QED BY <2>4 DEF u
<1>10. ASSUME "ready" \in s.timers, s.readyFor = s.socket PROVE Settles(s, t, ReadyGrace(s))
  <2> DEFINE u == ReadyGrace(s)
  <2>1. s.socket # 0 /\ s.opened \in Nat
    BY <1>1, <1>10 DEF Linked, Sockets, Provider
  <2>2. ~s.stopped /\ s.pending \in {0, s.socket}
    BY <1>1, <2>1, ConnectedIsOpen
  <2>3. \/ /\ ~s.ready
           /\ ReadyLeaves(s, u) /\ ReadyTells(s, u) /\ ReadyAsks(s, u)
        \/ s.ready /\ u = Disarm(s, {"ready"})
    BY <1>10, <2>2, GraceMarks
  <2> HIDE DEF u
  <2>4. CASE u = Disarm(s, {"ready"})
    <3>1. u \in Provider
      BY <1>1, <2>4, Setters
    <3>2. /\ u.promise = s.promise /\ u.stopped = s.stopped
          /\ u.closeEmitted = s.closeEmitted /\ u.terminal = s.terminal
          /\ u.socket = s.socket /\ u.wire = s.wire
          /\ u.pending = s.pending /\ u.opened = s.opened
          /\ u.ready = s.ready /\ u.hasBeenReady = s.hasBeenReady
          /\ u.readyFor = s.readyFor /\ "ready" \notin u.timers
          /\ "reconnect" \in u.timers <=> "reconnect" \in s.timers
          /\ u.out = <<>> /\ u.calls = <<>>
      BY <1>1, <2>4 DEF Provider, Disarm
    <3>3. Sockets(u) /\ Endings(u)
      BY <3>2 DEF Linked, Sockets, Endings
    <3>4. PromiseKept(u) /\ Witnessed(u, t)
      BY <3>2 DEF Linked, PromiseKept, Witnessed
    <3>5. Heard(t, s, u.calls) = t /\ Phase(u, t) = Phase(s, t)
      BY <3>2, NothingHeard DEF Phase
    <3>6. StaysLinked(s, t, u)
      BY <3>1, <3>3, <3>4, <3>5 DEF StaysLinked, Linked, Agrees
    <3> QED BY <1>1, <3>2, <3>6 DEF Settles, u
  <2>5. CASE ~s.ready /\ ReadyLeaves(s, u) /\ ReadyTells(s, u) /\ ReadyAsks(s, u)
    BY <1>4, <2>1, <2>5 DEF u
  <2> QED BY <2>3, <2>4, <2>5
<1>11. ASSUME NEW u, StaysLinked(s, t, u), Opens(s, u) PROVE Settles(s, t, u)
  BY <1>1, <1>11 DEF Settles, Opens
<1>12. ASSUME "reconnect" \in s.timers PROVE Settles(s, t, ReconnectTimer(s))
  <2>1. ~s.stopped
    BY <1>12 DEF Linked, Endings
  <2> QED BY <1>11, <1>12, <2>1, OpeningOpens, OpeningStaysLinked
<1>13. ASSUME s.promise = "none" PROVE Settles(s, t, StartSession(s))
  <2>1. "reconnect" \notin s.timers
    BY <1>13 DEF Linked, PromiseKept
  <2> QED BY <1>11, <1>13, <2>1, OpeningOpens, OpeningStaysLinked
<1>14. ASSUME s.promise # "none" PROVE Settles(s, t, StopSession(s))
  <2> DEFINE u == StopSession(s)
  <2>1. StaysLinked(s, t, u)
    BY <1>14, StopStaysLinked
  <2>2. CASE s.stopped
    <3>1. u = s
      BY <2>2 DEF StopSession
    <3> QED BY <1>2, <3>1
  <2>3. CASE ~s.stopped
    <3>1. Stops(s, u) /\ Falls(s, u)
      BY <2>3, StopStops
    <3> HIDE DEF u
    <3>2. Brief(u.calls) /\ (u.socket = s.socket => Brief(u.out))
      BY <1>1, <3>1, BriefOnes DEF Stops, Falls
    <3> QED BY <2>1, <3>2 DEF Settles, u
  <2> QED BY <2>2, <2>3
<1> QED BY <1>3, <1>5, <1>6, <1>7, <1>8, <1>9, <1>10, <1>12, <1>13, <1>14

-------------------------------------------------------------------------------
(***************************************************************************)
(* The connection, in the whole system.  Without "late_grace", the grace   *)
(* timer that fires is the one of the current socket.                      *)
(***************************************************************************)

Attuned == p \in Idle /\ net \in Net /\ line \in Queue(Nat) /\ call \in Call /\ told \in Told

\* A call without a session does nothing with its voice.
Unlaunched(s, c) == s.promise = "none" => ~c.attached /\ c.farewell = "none" /\ c.running = {}

LinkInv == Attuned /\ Linked(p, told) /\ Unlaunched(p, call)

\* A provider that has not been started tells nothing.
LEMMA NewIsQuiet ==
    ASSUME NEW s \in Provider, NEW t \in Told, NEW u, Linked(s, t), StaysLinked(s, t, u),
           u.promise = "none"
    PROVE  s.promise = "none" /\ u.calls = <<>>
<1> DEFINE v == Heard(t, s, u.calls)
<1>1. v \in Told /\ Linked(u, v) /\ Agrees(s, t, u, v)
  BY DEF StaysLinked
<1>2. v.stray = (t.stray \/ GoneAstray(t, s, u.calls))
  BY DEF Heard
<1> HIDE DEF v
<1>3. v.close = 0 /\ ~v.stray
  BY <1>1 DEF Linked, Witnessed, PromiseKept
<1>4. Phase(u, v) = "new"
  BY <1>3 DEF Phase
<1>5. Phase(s, t) = "new"
  BY <1>1, <1>4 DEF Agrees
<1>6. s.promise = "none"
  BY <1>5 DEF Phase, Provider, Promises
<1>7. ~Listening(s)
  BY <1>6 DEF Listening
<1>8. ~GoneAstray(t, s, u.calls)
  BY <1>2, <1>3
<1>9. u.calls = <<>>
  BY <1>7, <1>8 DEF GoneAstray
<1> QED BY <1>6, <1>9

\* The step of Apply, for any handler of the provider that stays linked.
LEMMA ApplyKeeps ==
    ASSUME LinkInv, NEW u, NEW n \in Net, NEW l \in Queue(Nat), NEW c \in Call,
           Settles(p, told, u), Unlaunched(p, c), Apply(u, n, l, c)
    PROVE  LinkInv' /\ Agrees(p, told, p', told')
<1> DEFINE v == Heard(told, p, u.calls)
           x == [line |-> l, call |-> c]
           w == CallTakesAll(x, u.calls, p.active)
<1>1. /\ p \in Idle /\ p \in Provider /\ told \in Told /\ Linked(p, told)
      /\ p.active \in Nat /\ net \in Net
  BY DEF LinkInv, Attuned, Idle, Provider
<1>2. /\ u \in Provider /\ v \in Told /\ Linked(u, v) /\ Agrees(p, told, u, v)
      /\ Brief(u.calls) /\ (u.socket = p.socket => Brief(u.out))
      /\ u.calls \in Seq(Telling) /\ u.out \in Seq(Message)
  BY DEF Settles, StaysLinked, Provider
<1>3. /\ p' = [u EXCEPT !.out = <<>>, !.calls = <<>>]
      /\ net' = IF u.socket # p.socket THEN NewNet(net.made) ELSE FoldLeft(NetTakes, n, u.out)
      /\ line' = w.line /\ call' = w.call
  BY DEF Apply
<1>4. told' = v
  <2>1. (~Listening(p) \/ told.close > 0) = ~(Listening(p) /\ told.close = 0)
    BY <1>1 DEF Told
  <2> QED BY DEF Apply, Heard, GoneAstray
<1>5. x \in World
  BY DEF World
<1>6. w \in World /\ SameCall(c, w.call) /\ (u.calls = <<>> => w = x)
  <2>1. x.call = c
    OBVIOUS
  <2> HIDE DEF x
  <2> QED BY <1>1, <1>2, <1>5, <2>1, CallHearsBrief
<1> HIDE DEF v, w
<1>7. line' \in Queue(Nat) /\ call' \in Call
  BY <1>3, <1>6 DEF World
<1>8. net' \in Net
  BY <1>1, <1>2, <1>3, ServerKeeps, ServerTakesBrief
<1>9. p' \in Idle /\ SameLink(u, p') /\ p'.calls = <<>> /\ p' \in Provider
  <2>1. <<>> \in Seq(Message) /\ <<>> \in Seq(Telling)
    OBVIOUS
  <2>2. [u EXCEPT !.out = <<>>, !.calls = <<>>] \in Provider
    BY <1>2, <2>1 DEF Provider
  <2>3. p'.out = <<>> /\ p'.calls = <<>> /\ SameLink(u, p')
    BY <1>2, <1>3 DEF Provider, SameLink
  <2> QED BY <1>3, <2>2, <2>3 DEF Idle
<1>10. Linked(p', v)
  <2>1. Heard(v, u, p'.calls) = v
    BY <1>2, <1>9, NothingHeard
  <2>2. StaysLinked(u, v, p')
    BY <1>2, <1>9, <2>1, QuietStaysLinked
  <2> QED BY <2>1, <2>2 DEF StaysLinked
<1>11. Agrees(p, told, p', v)
  <2>1. Phase(p', v) = Phase(u, v)
    BY <1>9 DEF Phase, SameLink
  <2> QED BY <1>2, <2>1 DEF Agrees
<1>12. Unlaunched(p', call')
  <2>1. ASSUME p'.promise = "none"
        PROVE  ~call'.attached /\ call'.farewell = "none" /\ call'.running = {}
    <3>1. u.promise = "none"
      BY <1>9, <2>1 DEF SameLink
    <3>2. p.promise = "none" /\ u.calls = <<>>
      BY <1>1, <3>1, NewIsQuiet DEF Settles
    <3>3. call' = c
      BY <1>3, <1>6, <3>2
    <3> QED BY <3>2, <3>3 DEF Unlaunched
  <2> QED BY <2>1 DEF Unlaunched
<1>13. LinkInv'
  BY <1>4, <1>7, <1>8, <1>9, <1>10, <1>12, <1>2 DEF LinkInv, Attuned
<1> QED BY <1>4, <1>11, <1>13

\* ... and of a step that leaves the provider alone.
LEMMA AsideKeeps ==
    ASSUME LinkInv, UNCHANGED <<p, told>>, net' \in Net, line' \in Queue(Nat), call' \in Call,
           Unlaunched(p, call')
    PROVE  LinkInv' /\ Agrees(p, told, p', told')
<1>1. LinkInv'
  BY DEF LinkInv, Attuned
<1>2. Agrees(p, told, p', told')
  BY DEF Agrees
<1> QED BY <1>1, <1>2

-------------------------------------------------------------------------------
(***************************************************************************)
(* Action by action.                                                       *)
(***************************************************************************)

LinkKept == LinkInv' /\ Agrees(p, told, p', told')

LEMMA SocketStepKeeps ==
    ASSUME LinkInv, SocketOpens \/ \E normal \in BOOLEAN : SocketLost(normal)
    PROVE  LinkKept
<1>1. /\ p \in Idle /\ p \in Provider /\ told \in Told /\ Linked(p, told)
      /\ net \in Net /\ line \in Queue(Nat) /\ call \in Call /\ Unlaunched(p, call)
  BY DEF LinkInv, Attuned, Idle
<1>2. CASE SocketOpens
  <2> DEFINE u == SendSessionUpdate([p EXCEPT !.wire = "open"])
             n == Push(net, [type |-> "session.created"])
  <2>1. p.socket # 0
    BY <1>1, <1>2 DEF SocketOpens, Linked, Sockets
  <2>2. Settles(p, told, u)
    BY <1>1, <2>1, ConnectionSettles
  <2>3. n \in Net
    BY <1>1, PushKeeps, Occurrences
  <2>4. Apply(u, n, line, call)
    BY <1>2 DEF SocketOpens
  <2> HIDE DEF u, n
  <2> QED BY <1>1, <2>2, <2>3, <2>4, ApplyKeeps DEF LinkKept
<1>3. ASSUME NEW normal \in BOOLEAN, SocketLost(normal) PROVE LinkKept
  <2>1. p.socket # 0 /\ "closing" \in Wires \ {"none"}
    BY <1>1, <1>3 DEF SocketLost, Linked, Sockets, Wires
  <2>2. p' = [p EXCEPT !.wire = "closing"]
    BY <1>3 DEF SocketLost
  <2>3. p' \in Idle /\ Linked(p', told) /\ Phase(p', told) = Phase(p, told)
    BY <1>1, <2>1, <2>2, WireStaysLinked
  <2>4. net' \in Net
    <3>1. [type |-> "close", normal |-> normal] \in Event
      BY Occurrences
    <3>2. Push(net, [type |-> "close", normal |-> normal]) \in Net
      BY <1>1, <3>1, PushKeeps
    <3> QED BY <1>3, <3>2 DEF SocketLost
  <2>5. call' = [call EXCEPT !.drops = @ + 1] /\ line' = line /\ told' = told
    BY <1>3 DEF SocketLost
  <2>6. call' \in Call /\ SameCall([call EXCEPT !.drops = call'.drops], call')
        /\ call'.attached = call.attached /\ call'.farewell = call.farewell
        /\ call'.running = call.running
    BY <1>1, <2>5 DEF Call, SameCall
  <2>7. Unlaunched(p', call')
    BY <1>1, <2>2, <2>6 DEF Unlaunched, Provider
  <2>8. LinkInv'
    BY <1>1, <2>3, <2>4, <2>5, <2>6, <2>7 DEF LinkInv, Attuned
  <2>9. Agrees(p, told, p', told')
    BY <2>3, <2>5 DEF Agrees
  <2> QED BY <2>8, <2>9 DEF LinkKept
<1> QED BY <1>2, <1>3

LEMMA ServerOnlyKeeps ==
    ASSUME LinkInv, NEW n \in Net, ServerOnly(n)
    PROVE  LinkKept
<1>1. UNCHANGED <<p, told>> /\ net' \in Net /\ line' \in Queue(Nat) /\ call' = call
  BY DEF ServerOnly, LinkInv, Attuned
<1>2. call' \in Call /\ Unlaunched(p, call')
  BY <1>1 DEF LinkInv, Attuned
<1> QED BY <1>1, <1>2, AsideKeeps DEF LinkKept

LEMMA ServerStepKeeps ==
    ASSUME LinkInv, Server
    PROVE  LinkKept
<1>1. net \in Net /\ call \in Call /\ line \in Queue(Nat) /\ Unlaunched(p, call)
  BY DEF LinkInv, Attuned
<1>2. /\ \A n \in Net, e \in Event : Push(n, e) \in Net
      /\ \A n \in Net : NewResponse(n) \in Net
      /\ \A n \in Net : n.active # 0 => EndResponse(n) \in Net
  BY PushKeeps, ServerKeeps
<1>3. /\ [type |-> "session.updated"] \in Event /\ [type |-> "complaint"] \in Event
      /\ [type |-> "terminal"] \in Event /\ [type |-> "error"] \in Event
      /\ [type |-> "speech_started"] \in Event /\ [type |-> "speech_stopped"] \in Event
  BY Occurrences
<1>4. CASE ServerEchoes
  <2>1. [net EXCEPT !.owes = FALSE] \in Net
    BY <1>1 DEF Net
  <2> QED BY <1>2, <1>3, <1>4, <2>1, ServerOnlyKeeps DEF ServerEchoes
<1>5. CASE AccountRefused
  BY <1>1, <1>2, <1>3, <1>5, ServerOnlyKeeps DEF AccountRefused
<1>6. CASE ServerAnswers
  <2>1. [net EXCEPT !.wants = @ - 1] \in Net
    <3>1. net.wants - 1 \in Nat
      BY <1>1, <1>6 DEF ServerAnswers, Net
    <3> QED BY <1>1, <3>1 DEF Net
  <2> QED BY <1>2, <1>3, <1>6, <2>1, ServerOnlyKeeps DEF ServerAnswers
<1>7. CASE ServerSpeaks
  <2>1. [net EXCEPT !.deltas = @ + 1] \in Net /\ net.active \in Nat \ {0}
    BY <1>1, <1>7 DEF ServerSpeaks, Net
  <2>2. [type |-> "audio", response |-> net.active] \in Event
    BY <2>1, Occurrences
  <2> QED BY <1>2, <1>7, <2>1, <2>2, ServerOnlyKeeps DEF ServerSpeaks
<1>8. CASE ServerCallsTool
  <2>1. PICK t \in Tools :
             /\ net' = Push(net, [type |-> "tool", tool |-> t])
             /\ call' = [call EXCEPT !.asked = @ \cup {t}]
    BY <1>8 DEF ServerCallsTool
  <2>2. net' \in Net
    <3>1. [type |-> "tool", tool |-> t] \in Event
      BY Occurrences
    <3> QED BY <1>1, <1>2, <2>1, <3>1
  <2>3. call' \in Call /\ call'.attached = call.attached /\ call'.farewell = call.farewell
        /\ call'.running = call.running
    BY <1>1, <2>1 DEF Call
  <2>4. UNCHANGED <<p, told>> /\ line' \in Queue(Nat)
    BY <1>1, <1>8 DEF ServerCallsTool
  <2>5. Unlaunched(p, call')
    BY <1>1, <2>3 DEF Unlaunched
  <2> QED BY <2>2, <2>3, <2>4, <2>5, AsideKeeps DEF LinkKept
<1>9. CASE ServerFinishes
  BY <1>1, <1>2, <1>9, ServerOnlyKeeps DEF ServerFinishes, Endable
<1>10. CASE CallerHeard
  <2> DEFINE h == Push([net EXCEPT !.hearing = TRUE], [type |-> "speech_started"])
  <2>1. [net EXCEPT !.hearing = TRUE] \in Net
    BY <1>1 DEF Net
  <2>2. h \in Net /\ h.active = net.active
    BY <1>1, <1>2, <1>3, <2>1 DEF Push, Net
  <2>3. net' = IF Endable THEN EndResponse(h) ELSE h
    BY <1>10 DEF CallerHeard
  <2> HIDE DEF h
  <2>4. net' \in Net
    BY <1>2, <2>2, <2>3 DEF Endable
  <2>5. call' = [call EXCEPT !.noise = @ + 1] /\ UNCHANGED <<p, line, told>>
    BY <1>10 DEF CallerHeard
  <2>6. call' \in Call /\ call'.attached = call.attached /\ call'.farewell = call.farewell
        /\ call'.running = call.running
    BY <1>1, <2>5 DEF Call
  <2>7. Unlaunched(p, call') /\ line' \in Queue(Nat)
    BY <1>1, <2>5, <2>6 DEF Unlaunched
  <2> QED BY <2>4, <2>5, <2>6, <2>7, AsideKeeps DEF LinkKept
<1>11. CASE CallerQuiet
  <2> DEFINE q == Push([net EXCEPT !.hearing = FALSE], [type |-> "speech_stopped"])
  <2>1. [net EXCEPT !.hearing = FALSE] \in Net
    BY <1>1 DEF Net
  <2>2. q \in Net
    BY <1>2, <1>3, <2>1
  <2>3. ServerOnly(NewResponse(q)) \/ ServerOnly(q)
    BY <1>11 DEF CallerQuiet
  <2> HIDE DEF q
  <2> QED BY <1>2, <2>2, <2>3, ServerOnlyKeeps
<1> QED BY <1>4, <1>5, <1>6, <1>7, <1>8, <1>9, <1>10, <1>11 DEF Server

LEMMA HandleStepKeeps ==
    ASSUME LinkInv, HandleNext
    PROVE  LinkKept
<1> DEFINE e == Head(net.inbox)
           u == Handle(e)
           n == [net EXCEPT !.inbox = Tail(@)]
<1>1. /\ p \in Idle /\ told \in Told /\ Linked(p, told) /\ net \in Net
      /\ line \in Queue(Nat) /\ call \in Call /\ Unlaunched(p, call)
  BY DEF LinkInv, Attuned
<1>2. p.socket # 0 /\ net.inbox # <<>> /\ Apply(u, n, line, call)
  BY DEF HandleNext
<1>3. n \in Net /\ e \in Event
  BY <1>1, <1>2, PushKeeps
<1> HIDE DEF e, n
<1>4. \/ e.type \in {"session.created", "session.updated", "speech_started",
                     "speech_stopped", "conflict", "terminal", "complaint", "error"}
      \/ /\ e.type \in {"response.created", "response.done", "audio"}
         /\ e.response \in Nat \ {0}
      \/ e.type = "tool" /\ e.tool \in Tools
      \/ e.type = "close" /\ e.normal \in BOOLEAN
  BY <1>3 DEF Event, Plain, AboutResponse, AboutTool
<1>5. Settles(p, told, u)
  <2>1. CASE e.type \in {"session.created", "session.updated", "terminal"}
    BY <1>1, <1>2, <2>1, ConnectionSettles DEF Handle
  <2>2. CASE e.type \in {"speech_started", "speech_stopped", "conflict", "complaint", "error"}
    BY <1>1, <1>2, <2>2, SpeechSettles DEF Handle
  <2>3. CASE e.type \in {"response.created", "response.done", "audio"}
             /\ e.response \in Nat \ {0}
    BY <1>1, <1>2, <2>3, SpeechSettles DEF Handle
  <2>4. CASE e.type = "tool" /\ e.tool \in Tools
    BY <1>1, <1>2, <2>4, SpeechSettles DEF Handle
  <2>5. CASE e.type = "close" /\ e.normal \in BOOLEAN
    BY <1>1, <1>2, <2>5, ConnectionSettles DEF Handle
  <2> QED BY <1>4, <2>1, <2>2, <2>3, <2>4, <2>5
<1> HIDE DEF u
<1> QED BY <1>1, <1>2, <1>3, <1>5, ApplyKeeps DEF LinkKept

LEMMA StepKeeps ==
    ASSUME LinkInv, NEW u, Settles(p, told, u), Step(u)
    PROVE  LinkKept
<1>1. net \in Net /\ line \in Queue(Nat) /\ call \in Call /\ Unlaunched(p, call)
  BY DEF LinkInv, Attuned
<1>2. Apply(u, net, line, call)
  BY DEF Step
<1> QED BY <1>1, <1>2, ApplyKeeps DEF LinkKept

LEMMA TimerStepKeeps ==
    ASSUME LinkInv, "late_grace" \notin Mishaps, Timer
    PROVE  LinkKept
<1>1. p \in Idle /\ told \in Told /\ Linked(p, told)
  BY DEF LinkInv, Attuned
<1>2. CASE AttemptTimesOut
  BY <1>1, <1>2, ConnectionSettles, StepKeeps DEF AttemptTimesOut
<1>3. CASE GraceFires
  BY <1>1, <1>3, ConnectionSettles, StepKeeps DEF GraceFires
<1>4. CASE ReconnectFires
  BY <1>1, <1>4, ConnectionSettles, StepKeeps DEF ReconnectFires
<1>5. CASE ResponseFires
  BY <1>1, <1>5, TimersSettle, StepKeeps DEF ResponseFires
<1>6. CASE FillerFires
  BY <1>1, <1>6, TimersSettle, StepKeeps DEF FillerFires
<1>7. CASE RecoveryFires
  BY <1>1, <1>7, TimersSettle, StepKeeps DEF RecoveryFires
<1>8. CASE HorizonPasses
  BY <1>1, <1>8, TimersSettle, StepKeeps DEF HorizonPasses
<1> QED BY <1>2, <1>3, <1>4, <1>5, <1>6, <1>7, <1>8 DEF Timer

\* speakFixedLine puts what it plays into the queue.
LEMMA FixedLineKeeps ==
    ASSUME NEW q \in Queue(Nat)
    PROVE  FixedLine(q) \in Queue(Nat)
<1>1. Vendor \in Nat
  BY DEF Vendor
<1>2. <<Vendor>> \in Seq(Nat)
  BY <1>1
<1>3. SendAudio(q, <<Vendor>>) \in Queue(Nat)
  BY <1>2, SendKeeps
<1> QED BY <1>1, <1>3, QueueKeeps DEF FixedLine

LEMMA ClosingKeeps ==
    ASSUME NEW c \in Call
    PROVE  /\ Closing(c) \in Call /\ Closing(c).attached = c.attached
           /\ Closing(c).farewell = "asked"
BY DEF Closing, Call

LEMMA SpokenStepKeeps ==
    ASSUME LinkInv, Launch \/ SayLine \/ ToolReturns \/ EndCallTool \/ GuardGoodbye
    PROVE  LinkKept
<1>1. /\ p \in Idle /\ told \in Told /\ Linked(p, told) /\ net \in Net
      /\ line \in Queue(Nat) /\ call \in Call /\ Unlaunched(p, call)
  BY DEF LinkInv, Attuned
<1>2. CASE Launch
  BY <1>1, <1>2, ConnectionSettles, StepKeeps DEF Launch
<1>3. CASE SayLine
  <2> DEFINE counted == [call EXCEPT !.lines = @ + 1]
  <2>1. counted \in Call /\ call.attached
    BY <1>1, <1>3 DEF SayLine, Talking, Call
  <2>2. counted.attached = call.attached
    BY <1>1 DEF Call
  <2>3. Unlaunched(p, counted)
    BY <1>1, <2>1 DEF Unlaunched
  <2>4. \/ line' = FixedLine(line) /\ call' = counted /\ UNCHANGED <<p, net, told>>
        \/ Apply(Say(p), net, line, counted)
    BY <1>3 DEF SayLine
  <2> HIDE DEF counted
  <2>5. CASE line' = FixedLine(line) /\ call' = counted /\ UNCHANGED <<p, net, told>>
    BY <1>1, <2>1, <2>3, <2>5, FixedLineKeeps, AsideKeeps DEF LinkKept
  <2>6. CASE Apply(Say(p), net, line, counted)
    BY <1>1, <2>1, <2>3, <2>6, TimersSettle, ApplyKeeps DEF LinkKept
  <2> QED BY <2>4, <2>5, <2>6
<1>4. CASE ToolReturns
  <2>1. PICK t \in call.running \ {EndCall} :
             Apply(SendToolResult(p, t), net, line, [call EXCEPT !.running = @ \ {t}])
    BY <1>4 DEF ToolReturns
  <2> DEFINE c == [call EXCEPT !.running = @ \ {t}]
  <2>2. t \in Tools /\ c \in Call
    BY <1>1 DEF Call
  <2>3. Unlaunched(p, c)
    BY <1>1, <2>1 DEF Unlaunched
  <2>4. Settles(p, told, SendToolResult(p, t))
    BY <1>1, <2>2, ResultSettles DEF Idle
  <2> HIDE DEF c
  <2>5. Apply(SendToolResult(p, t), net, line, c)
    BY <2>1 DEF c
  <2> QED BY <1>1, <2>2, <2>3, <2>4, <2>5, ApplyKeeps DEF LinkKept
<1>5. CASE EndCallTool
  <2> DEFINE deaf == IF Talking THEN SuppressBargeIn(p) ELSE p
             spoken == Talking /\ line.frames = <<>>
             told_off == IF spoken /\ "vendor" \notin Mishaps THEN Say(deaf) ELSE deaf
             l == IF spoken /\ "vendor" \in Mishaps THEN FixedLine(line) ELSE line
             u == SendToolResult(told_off, EndCall)
  <2>1. EndCall \in Tools /\ EndCall \in call.running
    BY <1>1, <1>5 DEF EndCallTool, Call
  <2>2. deaf \in {p, SuppressBargeIn(p)}
    OBVIOUS
  <2>3. told_off \in {deaf, Say(deaf)}
    OBVIOUS
  <2>4. l \in Queue(Nat)
    BY <1>1, FixedLineKeeps
  <2>5. Apply(u, net, l, Closing(call))
    BY <1>5 DEF EndCallTool
  <2> HIDE DEF deaf, told_off, l
  <2>6. Settles(p, told, u)
    BY <1>1, <2>1, <2>2, <2>3, FarewellSettles
  <2> HIDE DEF u
  <2>7. Closing(call) \in Call /\ Unlaunched(p, Closing(call))
    BY <1>1, <2>1, ClosingKeeps DEF Unlaunched
  <2> QED BY <1>1, <2>4, <2>5, <2>6, <2>7, ApplyKeeps DEF LinkKept
<1>6. CASE GuardGoodbye
  <2>1. call.attached /\ Apply(Say(p), net, line, Closing(call))
    BY <1>6 DEF GuardGoodbye, Talking
  <2>2. Closing(call) \in Call /\ Unlaunched(p, Closing(call))
    BY <1>1, <2>1, ClosingKeeps DEF Unlaunched
  <2>3. Settles(p, told, Say(p))
    BY <1>1, TimersSettle
  <2> QED BY <1>1, <2>1, <2>2, <2>3, ApplyKeeps DEF LinkKept
<1> QED BY <1>2, <1>3, <1>4, <1>5, <1>6

LEMMA OverKeeps ==
    ASSUME LinkInv, p.promise # "none", Over
    PROVE  LinkKept
<1>1. /\ p \in Idle /\ told \in Told /\ Linked(p, told) /\ net \in Net
      /\ line \in Queue(Nat) /\ call \in Call
  BY DEF LinkInv, Attuned
<1> DEFINE c == [call EXCEPT !.over = TRUE]
<1>2. c \in Call /\ Unlaunched(p, c)
  BY <1>1 DEF Call, Unlaunched
<1>3. MarkClosed(line) \in Queue(Nat)
  BY <1>1, QueueKeeps
<1>4. Settles(p, told, StopSession(p))
  BY <1>1, ConnectionSettles
<1>5. Apply(StopSession(p), net, MarkClosed(line), c)
  BY DEF Over
<1> HIDE DEF c
<1> QED BY <1>1, <1>2, <1>3, <1>4, <1>5, ApplyKeeps DEF LinkKept

LEMMA QuietStepKeeps ==
    ASSUME LinkInv,
           Attach \/ AwaitFarewell \/ FarewellTimesOut \/ HangUp \/ CallerLeaves \/ PlayFrame
    PROVE  LinkKept
<1>1. /\ p \in Provider /\ Linked(p, told) /\ net \in Net
      /\ line \in Queue(Nat) /\ call \in Call /\ Unlaunched(p, call)
  BY DEF LinkInv, Attuned, Idle
<1>2. CASE Attach
  <2>1. p.promise = "kept" /\ call' = [call EXCEPT !.attached = TRUE]
        /\ UNCHANGED <<p, net, line, told>>
    BY <1>2 DEF Attach
  <2>2. call' \in Call /\ Unlaunched(p, call')
    BY <1>1, <2>1 DEF Call, Unlaunched
  <2> QED BY <1>1, <2>1, <2>2, AsideKeeps DEF LinkKept
<1>3. CASE AwaitFarewell
  <2>1. /\ call.farewell = "asked" /\ line' = WaitForDrain(line, "farewell")
        /\ call' = [call EXCEPT !.farewell = "draining"] /\ UNCHANGED <<p, net, told>>
    BY <1>3 DEF AwaitFarewell
  <2>2. line' \in Queue(Nat)
    BY <1>1, <2>1, WaiterAssumption, QueueKeeps
  <2>3. call' \in Call /\ Unlaunched(p, call')
    BY <1>1, <2>1 DEF Call, Unlaunched
  <2> QED BY <1>1, <2>1, <2>2, <2>3, AsideKeeps DEF LinkKept
<1>4. CASE FarewellTimesOut
  <2>1. line' = DrainTimeout(line, "farewell") /\ UNCHANGED <<p, net, call, told>>
    BY <1>4 DEF FarewellTimesOut
  <2>2. line' \in Queue(Nat)
    BY <1>1, <2>1, WaiterAssumption, QueueKeeps
  <2> QED BY <1>1, <2>1, <2>2, AsideKeeps DEF LinkKept
<1>5. CASE HangUp
  <2>1. call.farewell = "draining" \/ told.close > 0 \/ p.promise = "broken"
    BY <1>5 DEF HangUp
  <2>2. p.promise # "none"
    BY <1>1, <2>1 DEF Unlaunched, Linked, PromiseKept, Witnessed
  <2> QED BY <1>5, <2>2, OverKeeps DEF HangUp
<1>6. CASE CallerLeaves
  BY <1>6, OverKeeps DEF CallerLeaves
<1>7. CASE PlayFrame
  <2>1. line' = EmitOneFrame(line) /\ UNCHANGED <<p, net, call, told>>
    BY <1>7 DEF PlayFrame
  <2>2. line' \in Queue(Nat)
    BY <1>1, <2>1, QueueKeeps
  <2> QED BY <1>1, <2>1, <2>2, AsideKeeps DEF LinkKept
<1> QED BY <1>2, <1>3, <1>4, <1>5, <1>6, <1>7

-------------------------------------------------------------------------------
(***************************************************************************)
(* Theorems.                                                               *)
(***************************************************************************)

\* The calls in which no grace timer outlives its socket (see GraceFires).
Punctual == "late_grace" \notin Mishaps

LEMMA LinkInit == Init => LinkInv
<1> SUFFICES ASSUME Init PROVE LinkInv
  OBVIOUS
<1>1. p \in Idle
  <2>1. <<>> \in Seq(Message) /\ <<>> \in Seq(Telling)
    OBVIOUS
  <2>2. MaxExtras \in Nat /\ 0 \in 0..MaxReconnectAttempts /\ 0 \in 0..MaxPendingSayLines
    BY ProviderAssumption
  <2> QED BY <2>1, <2>2 DEF Init, Idle, Provider, NewProvider, Promises, Wires
<1>2. net \in Net
  <2>1. <<>> \in Seq(Event)
    OBVIOUS
  <2> QED BY <2>1 DEF Init, NewNet, Net
<1>3. line \in Queue(Nat)
  <2>1. <<>> \in Frames(Nat) /\ <<>> \in Partial(Nat)
    BY Nothing
  <2> QED BY <2>1 DEF Init, NewSession, Queue
<1>4. call \in Call /\ told \in Told /\ Unlaunched(p, call)
  BY DEF Init, NewCall, Call, Told, Unlaunched
<1>5. Linked(p, told)
  <2>1. Sockets(p) /\ Endings(p)
    BY DEF Init, NewProvider, Sockets, Endings
  <2>2. PromiseKept(p) /\ Witnessed(p, told)
    BY DEF Init, NewProvider, PromiseKept, Witnessed
  <2> QED BY <2>1, <2>2 DEF Linked
<1> QED BY <1>1, <1>2, <1>3, <1>4, <1>5 DEF LinkInv, Attuned

LEMMA LinkStep ==
    ASSUME Punctual, LinkInv, [Next]_vars
    PROVE  LinkKept
<1>1. CASE SocketOpens \/ \E normal \in BOOLEAN : SocketLost(normal)
  BY <1>1, SocketStepKeeps
<1>2. CASE Server
  BY <1>2, ServerStepKeeps
<1>3. CASE HandleNext
  BY <1>3, HandleStepKeeps
<1>4. CASE Timer
  BY <1>4, TimerStepKeeps DEF Punctual
<1>5. CASE Orchestrator
  BY <1>5, SpokenStepKeeps, QuietStepKeeps DEF Orchestrator
<1>6. CASE UNCHANGED vars
  <2>1. UNCHANGED <<p, told, net, line, call>>
    BY <1>6 DEF vars
  <2>2. net' \in Net /\ line' \in Queue(Nat) /\ call' \in Call /\ Unlaunched(p, call')
    BY <2>1 DEF LinkInv, Attuned
  <2> QED BY <2>1, <2>2, AsideKeeps DEF LinkKept
<1> QED BY <1>1, <1>2, <1>3, <1>4, <1>5, <1>6 DEF Next

\* The connection's invariant: what the provider's flags, timers and promise say of
\* its socket, and what the call has been told of it, in every reachable state
\* (openSocket, abandonSocket, handleClose, markReady, stop).
THEOREM ConnectionInvariant == Punctual => (Spec => []LinkInv)
<1> SUFFICES ASSUME Punctual PROVE Spec => []LinkInv
  OBVIOUS
<1>1. Init => LinkInv
  BY LinkInit
<1>2. LinkInv /\ [Next]_vars => LinkInv'
  BY LinkStep DEF LinkKept
<1> QED BY <1>1, <1>2, PTL DEF Spec

\* A session that calls itself ready has a socket: whatever is lost, refused, given
\* up or closed, and in whatever order the server's events and the provider's timers
\* come, no line is spoken into the void (handleClose, abandonSocket, stop).
THEOREM ReadyIsConnected == Punctual => (Spec => []ReadyMeansConnected)
<1> SUFFICES ASSUME Punctual PROVE Spec => []ReadyMeansConnected
  OBVIOUS
<1>1. LinkInv => ReadyMeansConnected
  BY DEF LinkInv, Linked, Sockets, ReadyMeansConnected
<1> QED BY <1>1, ConnectionInvariant, PTL

LEMMA ContractStep ==
    ASSUME LinkInv, LinkInv', Agrees(p, told, p', told')
    PROVE  [Contract!Next]_(Contract!cvars)
<1> DEFINE P(s, t) == IF t.close > 0 THEN "closed"
                      ELSE [none |-> "new", awaited |-> "opening", kept |-> "live",
                            broken |-> "failed"][s.promise]
<1>1. P(p, told) = Phase(p, told) /\ P(p', told') = Phase(p', told')
  BY DEF Phase
<1>2. told.stray = FALSE /\ told'.stray = FALSE
  BY DEF LinkInv, Attuned, Linked, Witnessed, Told
<1> HIDE DEF P
<1>3. CASE Phase(p', told') = Phase(p, told)
           /\ told'.ready = told.ready /\ told'.close = told.close
  <2>1. UNCHANGED Contract!cvars
    BY <1>1, <1>2, <1>3 DEF Contract!cvars, P
  <2> QED BY <2>1
<1>4. CASE /\ Phase(p, told) = "new" /\ Phase(p', told') = "opening"
           /\ told'.ready = told.ready /\ told'.close = told.close
  <2>1. Contract!Start
    BY <1>1, <1>2, <1>4 DEF Contract!Start, P
  <2> QED BY <2>1 DEF Contract!Next
<1>5. CASE /\ Phase(p, told) = "opening" /\ Phase(p', told') = "live"
           /\ told'.ready = 1 /\ told'.close = told.close
  <2>1. Contract!Open
    BY <1>1, <1>2, <1>5 DEF Contract!Open, P
  <2> QED BY <2>1 DEF Contract!Next
<1>6. CASE /\ Phase(p, told) = "opening" /\ Phase(p', told') = "failed"
           /\ told'.ready = told.ready /\ told'.close = told.close
  <2>1. Contract!Fail
    BY <1>1, <1>2, <1>6 DEF Contract!Fail, P
  <2> QED BY <2>1 DEF Contract!Next
<1>7. CASE /\ Phase(p, told) \in {"opening", "live"} /\ Phase(p', told') = "closed"
           /\ told'.ready = told.ready /\ told'.close = 1
  <2>1. Contract!Close
    BY <1>1, <1>2, <1>7 DEF Contract!Close, P
  <2> QED BY <2>1 DEF Contract!Next
<1> QED BY <1>3, <1>4, <1>5, <1>6, <1>7 DEF Agrees

\* The provider implements the contract the orchestrator is written against: start()
\* settles once, a start that fails is told by its rejection alone, onReady comes
\* once, onClose at most once, and after it no handler of the call runs again.
THEOREM ContractIsKept == Punctual => (Spec => ContractSpec)
<1> SUFFICES ASSUME Punctual PROVE Spec => ContractSpec
  OBVIOUS
<1>1. Init => Contract!Init
  BY DEF Init, NewProvider, Contract!Init
<1>2. LinkInv /\ LinkInv' /\ [Next]_vars => [Contract!Next]_(Contract!cvars)
  BY LinkStep, ContractStep DEF LinkKept
<1> QED BY <1>1, <1>2, ConnectionInvariant, PTL DEF Spec, ContractSpec, Contract!Spec

-------------------------------------------------------------------------------
(***************************************************************************)
(* Who speaks: what the provider knows of the server's responses, with     *)
(* events on their way.                                                    *)
(***************************************************************************)

Numbered(e) == e.type \in {"response.created", "response.done", "audio"}

Begun(r) == [type |-> "response.created", response |-> r]
Piece(r) == [type |-> "audio", response |-> r]

\* d is on its way before e.
Follows(d, e) ==
    Numbered(d) /\ Numbered(e) =>
        /\ d.response <= e.response
        /\ d.type = "response.done" \/ e.type = "response.created" => d.response < e.response

\* The server's responses follow one another.
InTurn(n) ==
    /\ n.active \in {0, n.made}
    /\ \A i \in DOMAIN n.inbox : Numbered(n.inbox[i]) => n.inbox[i].response \in 1..n.made
    /\ \A i, j \in DOMAIN n.inbox : i < j => Follows(n.inbox[i], n.inbox[j])
    /\ \A i \in DOMAIN n.inbox :
           n.inbox[i].type = "response.done" => n.inbox[i].response # n.active

\* When what is before place i is read, the provider will have heard that r began.
Known(s, q, i, r) == \/ r = s.active \/ r \in s.cancelled
                     \/ \E j \in DOMAIN q : j < i /\ q[j] = Begun(r)

\* What has been heard is not after what has been said.
Bounded(s, made) ==
    /\ s.active \in 0..made /\ s.lastAudio \in 0..made /\ s.cancelled \subseteq 1..made
    /\ s.active # 0 => s.lastAudio <= s.active

\* The event e is not behind the provider.
IsAhead(s, e) ==
    Numbered(e) => /\ s.active <= e.response /\ s.lastAudio <= e.response
                   /\ e.type = "response.created" =>
                          s.active < e.response /\ s.lastAudio < e.response

Heeded(s, n) ==
    /\ Bounded(s, n.made)
    /\ \A i \in DOMAIN n.inbox : IsAhead(s, n.inbox[i])
    /\ \A i \in DOMAIN n.inbox :
           n.inbox[i].type = "audio" => Known(s, n.inbox, i, n.inbox[i].response)
    /\ n.active # 0 => Known(s, n.inbox, Len(n.inbox) + 1, n.active)
    /\ s.socket = 0 => n.active = 0 /\ n.inbox = <<>>

\* A response in k is cancelled, or has nothing more to say.
Hushed(s, n, k) ==
    \A r \in k : /\ r \in 1..n.made
                 /\ \/ r \in s.cancelled
                    \/ r # n.active /\ \A i \in DOMAIN n.inbox : n.inbox[i] # Piece(r)

InOrder(s, n, k) == InTurn(n) /\ Heeded(s, n) /\ Hushed(s, n, k)

LEMMA Appended ==
    ASSUME NEW S, NEW q \in Seq(S), NEW e \in S
    PROVE  /\ \A i \in DOMAIN q : i \in DOMAIN Append(q, e) /\ Append(q, e)[i] = q[i]
           /\ \A i \in DOMAIN Append(q, e) : i \in DOMAIN q \/ (i = Len(q) + 1)
           /\ Append(q, e)[Len(q) + 1] = e /\ Len(Append(q, e)) = Len(q) + 1
           /\ \A i \in DOMAIN q : i \in Nat /\ i < Len(q) + 1
           /\ \A i \in DOMAIN q : q[i] \in S
           /\ Len(q) \in Nat
OBVIOUS

LEMMA Rest ==
    ASSUME NEW S, NEW q \in Seq(S), q # <<>>
    PROVE  /\ \A i \in DOMAIN Tail(q) : i + 1 \in DOMAIN q /\ Tail(q)[i] = q[i + 1]
           /\ \A i \in DOMAIN q : i # 1 => i - 1 \in DOMAIN Tail(q)
           /\ \A i \in DOMAIN Tail(q) : i \in Nat /\ 1 < i + 1
           /\ 1 \in DOMAIN q /\ q[1] = Head(q)
           /\ Len(Tail(q)) + 1 = Len(q) /\ Len(q) \in Nat
           /\ \A i \in DOMAIN q : i \in Nat
OBVIOUS

\* Another word from the server that is of no response, or of the one that runs.
LEMMA PlainInOrder ==
    ASSUME NEW s \in Provider, NEW n \in Net, NEW k, InOrder(s, n, k), s.socket # 0,
           NEW m \in Net, m.active = n.active, m.made = n.made,
           NEW e \in Event, ~Numbered(e), m.inbox = Append(n.inbox, e)
    PROVE  InOrder(s, m, k)
<1>0. n.inbox \in Seq(Event)
  BY DEF Net
<1>1. /\ \A i \in DOMAIN n.inbox : i \in DOMAIN m.inbox /\ m.inbox[i] = n.inbox[i]
      /\ \A i \in DOMAIN m.inbox : i \in DOMAIN n.inbox \/ (i = Len(n.inbox) + 1 /\ m.inbox[i] = e)
      /\ Len(m.inbox) = Len(n.inbox) + 1 /\ Len(n.inbox) \in Nat
      /\ \A i \in DOMAIN n.inbox : i \in Nat /\ i < Len(n.inbox) + 1
  BY <1>0, Appended
<1>2. InTurn(m)
  BY <1>1 DEF InOrder, InTurn, Numbered, Follows
<1>3. Heeded(s, m)
  <2>1. Bounded(s, m.made) /\ (\A i \in DOMAIN m.inbox : IsAhead(s, m.inbox[i]))
    BY <1>1 DEF InOrder, Heeded, IsAhead
  <2>2. ASSUME NEW i \in DOMAIN m.inbox, m.inbox[i].type = "audio"
        PROVE  Known(s, m.inbox, i, m.inbox[i].response)
    BY <1>1, <2>2 DEF InOrder, Heeded, Known, Numbered
  <2>3. ASSUME m.active # 0 PROVE Known(s, m.inbox, Len(m.inbox) + 1, m.active)
    BY <1>1, <2>3 DEF InOrder, Heeded, Known
  <2> QED BY <2>1, <2>2, <2>3 DEF Heeded
<1>4. Hushed(s, m, k)
  BY <1>1 DEF InOrder, Hushed, Piece, Numbered
<1> QED BY <1>2, <1>3, <1>4 DEF InOrder

LEMMA BegunInOrder ==
    ASSUME NEW s \in Provider, NEW n \in Net, NEW k, InOrder(s, n, k), s.socket # 0,
           NEW m \in Net, m.active = n.made + 1, m.made = n.made + 1,
           m.inbox = Append(n.inbox, Begun(n.made + 1))
    PROVE  InOrder(s, m, k)
<1> DEFINE r == n.made + 1
           e == Begun(r)
<1>0. /\ n.inbox \in Seq(Event) /\ r \in Nat /\ n.made \in Nat /\ n.active \in Nat
      /\ n.made < r /\ r # 0
  BY DEF Net
<1>1. e \in Event
  BY <1>0, Occurrences DEF Begun
<1>2. e.type = "response.created" /\ e.response = r /\ Numbered(e)
  BY DEF Begun, Numbered
<1> HIDE DEF e, r
<1>3. /\ \A i \in DOMAIN n.inbox : i \in DOMAIN m.inbox /\ m.inbox[i] = n.inbox[i]
      /\ \A i \in DOMAIN m.inbox : i \in DOMAIN n.inbox \/ (i = Len(n.inbox) + 1 /\ m.inbox[i] = e)
      /\ Len(m.inbox) = Len(n.inbox) + 1 /\ Len(n.inbox) \in Nat
      /\ \A i \in DOMAIN n.inbox : i \in Nat /\ i < Len(n.inbox) + 1
      /\ Len(n.inbox) + 1 \in DOMAIN m.inbox /\ m.inbox[Len(n.inbox) + 1] = e
  BY <1>0, <1>1, Appended DEF e, r
<1>4. m.active = r /\ m.made = r
  BY DEF r
<1>5. InTurn(m)
  <2>1. \A i \in DOMAIN m.inbox : Numbered(m.inbox[i]) => m.inbox[i].response \in 1..r
    BY <1>0, <1>2, <1>3 DEF InOrder, InTurn
  <2>2. ASSUME NEW i \in DOMAIN m.inbox, NEW j \in DOMAIN m.inbox, i < j
        PROVE  Follows(m.inbox[i], m.inbox[j])
    <3>1. i \in DOMAIN n.inbox
      BY <1>3, <2>2
    <3>2. CASE j \in DOMAIN n.inbox
      BY <1>3, <2>2, <3>1, <3>2 DEF InOrder, InTurn
    <3>3. CASE m.inbox[j] = e
      <4>1. Numbered(n.inbox[i]) => n.inbox[i].response \in 1..n.made
        BY <3>1 DEF InOrder, InTurn
      <4>2. Follows(n.inbox[i], e)
        BY <1>0, <1>2, <4>1 DEF Follows
      <4> QED BY <1>3, <3>1, <3>3, <4>2
    <3> QED BY <1>3, <3>2, <3>3
  <2>3. \A i \in DOMAIN m.inbox : m.inbox[i].type = "response.done" => m.inbox[i].response # r
    BY <1>0, <1>2, <1>3 DEF InOrder, InTurn, Numbered
  <2> QED BY <1>4, <2>1, <2>2, <2>3 DEF InTurn
<1>6. Heeded(s, m)
  <2>1. Bounded(s, r)
    BY <1>0 DEF InOrder, Heeded, Bounded
  <2>2. \A i \in DOMAIN m.inbox : IsAhead(s, m.inbox[i])
    <3>1. IsAhead(s, e)
      BY <1>0, <1>2 DEF InOrder, Heeded, Bounded, IsAhead
    <3> QED BY <1>3, <3>1 DEF InOrder, Heeded
  <2>3. ASSUME NEW i \in DOMAIN m.inbox, m.inbox[i].type = "audio"
        PROVE  Known(s, m.inbox, i, m.inbox[i].response)
    BY <1>2, <1>3, <2>3 DEF InOrder, Heeded, Known
  <2>4. Known(s, m.inbox, Len(m.inbox) + 1, r)
    BY <1>3 DEF Known, e
  <2> QED BY <1>4, <2>1, <2>2, <2>3, <2>4 DEF Heeded
<1>7. Hushed(s, m, k)
  <2>1. ASSUME NEW x \in k
        PROVE  /\ x \in 1..r
               /\ \/ x \in s.cancelled
                  \/ x # r /\ \A i \in DOMAIN m.inbox : m.inbox[i] # Piece(x)
    <3>1. Piece(x) # e
      BY <1>2 DEF Piece
    <3>2. x \in 1..n.made
      BY DEF InOrder, Hushed
    <3> QED BY <1>0, <1>3, <3>1, <3>2 DEF InOrder, Hushed
  <2> QED BY <1>4, <2>1 DEF Hushed
<1> QED BY <1>5, <1>6, <1>7 DEF InOrder

LEMMA DoneInOrder ==
    ASSUME NEW s \in Provider, NEW n \in Net, NEW k, InOrder(s, n, k), s.socket # 0,
           n.active # 0
    PROVE  InOrder(s, EndResponse(n), k)
<1> DEFINE r == n.active
           e == [type |-> "response.done", response |-> r]
           m == EndResponse(n)
<1>0. n.inbox \in Seq(Event) /\ r \in Nat \ {0} /\ r = n.made
  BY DEF Net, InOrder, InTurn
<1>1. e \in Event
  BY <1>0, Occurrences
<1>2. e.type = "response.done" /\ e.response = r /\ Numbered(e) /\ e.type # "audio"
  BY DEF Numbered
<1> HIDE DEF e
<1>3. m.inbox = Append(n.inbox, e) /\ m.active = 0 /\ m.made = n.made
  BY DEF EndResponse, Push, Net, e
<1> HIDE DEF r, m
<1>4. /\ \A i \in DOMAIN n.inbox : i \in DOMAIN m.inbox /\ m.inbox[i] = n.inbox[i]
      /\ \A i \in DOMAIN m.inbox : i \in DOMAIN n.inbox \/ (i = Len(n.inbox) + 1 /\ m.inbox[i] = e)
      /\ Len(m.inbox) = Len(n.inbox) + 1 /\ Len(n.inbox) \in Nat
      /\ \A i \in DOMAIN n.inbox : i \in Nat /\ i < Len(n.inbox) + 1
      /\ \A i \in DOMAIN n.inbox : n.inbox[i] \in Event
  BY <1>0, <1>1, <1>3, Appended
<1>5. ASSUME NEW i \in DOMAIN n.inbox, Numbered(n.inbox[i])
      PROVE  /\ n.inbox[i].response \in 1..n.made
             /\ n.inbox[i].type = "response.done" => n.inbox[i].response < r
  BY <1>0, <1>5 DEF InOrder, InTurn, r
<1>6. InTurn(m)
  <2>1. \A i \in DOMAIN m.inbox : Numbered(m.inbox[i]) => m.inbox[i].response \in 1..n.made
    BY <1>0, <1>2, <1>4, <1>5
  <2>2. ASSUME NEW i \in DOMAIN m.inbox, NEW j \in DOMAIN m.inbox, i < j
        PROVE  Follows(m.inbox[i], m.inbox[j])
    <3>1. i \in DOMAIN n.inbox
      BY <1>4, <2>2
    <3>2. CASE j \in DOMAIN n.inbox
      BY <1>4, <2>2, <3>1, <3>2 DEF InOrder, InTurn
    <3>3. CASE m.inbox[j] = e
      <4>1. Follows(n.inbox[i], e)
        BY <1>0, <1>2, <1>5, <3>1 DEF Follows
      <4> QED BY <1>4, <3>1, <3>3, <4>1
    <3> QED BY <1>4, <3>2, <3>3
  <2>3. \A i \in DOMAIN m.inbox : m.inbox[i].type = "response.done" => m.inbox[i].response # 0
    BY <1>0, <1>2, <2>1 DEF Numbered
  <2> QED BY <1>3, <2>1, <2>2, <2>3 DEF InTurn
<1>7. Heeded(s, m)
  <2>1. Bounded(s, n.made)
    BY DEF InOrder, Heeded
  <2>2. \A i \in DOMAIN m.inbox : IsAhead(s, m.inbox[i])
    <3>1. IsAhead(s, e)
      BY <1>0, <1>2, <2>1 DEF Bounded, IsAhead
    <3> QED BY <1>4, <3>1 DEF InOrder, Heeded
  <2>3. ASSUME NEW i \in DOMAIN m.inbox, m.inbox[i].type = "audio"
        PROVE  Known(s, m.inbox, i, m.inbox[i].response)
    BY <1>2, <1>4, <2>3 DEF InOrder, Heeded, Known
  <2> QED BY <1>3, <2>1, <2>2, <2>3 DEF Heeded
<1>8. Hushed(s, m, k)
  <2>1. ASSUME NEW x \in k
        PROVE  /\ x \in 1..n.made
               /\ \/ x \in s.cancelled
                  \/ x # 0 /\ \A i \in DOMAIN m.inbox : m.inbox[i] # Piece(x)
    <3>1. Piece(x) # e
      BY <1>2 DEF Piece
    <3>2. x \in 1..n.made
      BY DEF InOrder, Hushed
    <3> QED BY <1>0, <1>4, <3>1, <3>2 DEF InOrder, Hushed
  <2> QED BY <1>3, <2>1 DEF Hushed
<1> QED BY <1>6, <1>7, <1>8 DEF InOrder, m

LEMMA SpokenInOrder ==
    ASSUME NEW s \in Provider, NEW n \in Net, NEW k, InOrder(s, n, k), s.socket # 0,
           n.active # 0,
           NEW m \in Net, m.active = n.active, m.made = n.made,
           m.inbox = Append(n.inbox, Piece(n.active))
    PROVE  InOrder(s, m, k)
<1> DEFINE r == n.active
           e == Piece(r)
<1>0. n.inbox \in Seq(Event) /\ r \in Nat \ {0} /\ r = n.made
  BY DEF Net, InOrder, InTurn
<1>1. e \in Event
  BY <1>0, Occurrences DEF Piece
<1>2. e.type = "audio" /\ e.response = r /\ Numbered(e)
  BY DEF Numbered, Piece
<1> HIDE DEF e
<1>3. m.inbox = Append(n.inbox, e) /\ m.active = r /\ m.made = n.made
  BY DEF e
<1> HIDE DEF r
<1>4. /\ \A i \in DOMAIN n.inbox : i \in DOMAIN m.inbox /\ m.inbox[i] = n.inbox[i]
      /\ \A i \in DOMAIN m.inbox : i \in DOMAIN n.inbox \/ (i = Len(n.inbox) + 1 /\ m.inbox[i] = e)
      /\ Len(m.inbox) = Len(n.inbox) + 1 /\ Len(n.inbox) \in Nat
      /\ \A i \in DOMAIN n.inbox : i \in Nat /\ i < Len(n.inbox) + 1
      /\ \A i \in DOMAIN n.inbox : n.inbox[i] \in Event
  BY <1>0, <1>1, <1>3, Appended
<1>5. ASSUME NEW i \in DOMAIN n.inbox, Numbered(n.inbox[i])
      PROVE  /\ n.inbox[i].response \in 1..n.made
             /\ n.inbox[i].type = "response.done" => n.inbox[i].response < r
  BY <1>0, <1>5 DEF InOrder, InTurn, r
<1>6. InTurn(m)
  <2>1. \A i \in DOMAIN m.inbox : Numbered(m.inbox[i]) => m.inbox[i].response \in 1..n.made
    BY <1>0, <1>2, <1>4, <1>5
  <2>2. ASSUME NEW i \in DOMAIN m.inbox, NEW j \in DOMAIN m.inbox, i < j
        PROVE  Follows(m.inbox[i], m.inbox[j])
    <3>1. i \in DOMAIN n.inbox
      BY <1>4, <2>2
    <3>2. CASE j \in DOMAIN n.inbox
      BY <1>4, <2>2, <3>1, <3>2 DEF InOrder, InTurn
    <3>3. CASE m.inbox[j] = e
      <4>1. Follows(n.inbox[i], e)
        BY <1>0, <1>2, <1>5, <3>1 DEF Follows
      <4> QED BY <1>4, <3>1, <3>3, <4>1
    <3> QED BY <1>4, <3>2, <3>3
  <2>3. \A i \in DOMAIN m.inbox : m.inbox[i].type = "response.done" => m.inbox[i].response # r
    BY <1>2, <1>4, <1>5 DEF Numbered, InOrder, InTurn, r
  <2> QED BY <1>0, <1>3, <2>1, <2>2, <2>3 DEF InTurn
<1>7. Heeded(s, m)
  <2>1. Bounded(s, n.made)
    BY DEF InOrder, Heeded
  <2>2. \A i \in DOMAIN m.inbox : IsAhead(s, m.inbox[i])
    <3>1. IsAhead(s, e)
      BY <1>0, <1>2, <2>1 DEF Bounded, IsAhead
    <3> QED BY <1>4, <3>1 DEF InOrder, Heeded
  <2>3. Known(s, n.inbox, Len(n.inbox) + 1, r)
    BY <1>0 DEF InOrder, Heeded, r
  <2>4. ASSUME NEW i \in DOMAIN m.inbox, m.inbox[i].type = "audio"
        PROVE  Known(s, m.inbox, i, m.inbox[i].response)
    <3>1. CASE i \in DOMAIN n.inbox
      BY <1>4, <2>4, <3>1 DEF InOrder, Heeded, Known
    <3>2. CASE i = Len(n.inbox) + 1 /\ m.inbox[i] = e
      BY <1>2, <1>4, <2>3, <3>2 DEF Known
    <3> QED BY <1>4, <3>1, <3>2
  <2>5. Known(s, m.inbox, Len(m.inbox) + 1, r)
    BY <1>4, <2>3 DEF Known
  <2> QED BY <1>3, <2>1, <2>2, <2>4, <2>5 DEF Heeded
<1>8. Hushed(s, m, k)
  <2>1. ASSUME NEW x \in k
        PROVE  /\ x \in 1..n.made
               /\ \/ x \in s.cancelled
                  \/ x # r /\ \A i \in DOMAIN m.inbox : m.inbox[i] # Piece(x)
    <3>1. x # r => Piece(x) # e
      BY <1>2 DEF Piece
    <3> QED BY <1>4, <3>1 DEF InOrder, Hushed, r
  <2> QED BY <1>3, <2>1 DEF Hushed
<1> QED BY <1>6, <1>7, <1>8 DEF InOrder

\* The fields that say nothing of who speaks.
LEMMA SameInOrder ==
    ASSUME NEW s, NEW n, NEW k, InOrder(s, n, k),
           NEW m, m.active = n.active, m.made = n.made, m.inbox = n.inbox
    PROVE  InOrder(s, m, k)
BY DEF InOrder, InTurn, Heeded, Hushed

\* A response the server begins, with or without a request that meets it.
LEMMA NewInOrder ==
    ASSUME NEW s \in Provider, NEW n \in Net, NEW k, InOrder(s, n, k), s.socket # 0
    PROVE  InOrder(s, NewResponse(n), k)
<1> DEFINE r == n.made + 1
           e == [n EXCEPT !.active = r, !.made = r, !.deltas = 0, !.unanswered = {}]
           begun == Push(e, [type |-> "response.created", response |-> r])
           b == [begun EXCEPT !.wants = 0]
           c == [b EXCEPT !.collided = TRUE]
<1>1. r \in Nat \ {0}
  BY DEF Net
<1>2. e \in Net /\ e.active = r /\ e.made = r /\ e.inbox = n.inbox
  BY <1>1 DEF Net
<1> HIDE DEF e
<1>3. begun \in Net
  BY <1>1, <1>2, PushKeeps, Occurrences
<1>4. begun.active = r /\ begun.made = r /\ begun.inbox = Append(n.inbox, Begun(r))
  BY <1>2 DEF Push, Begun, Net
<1>5. NewResponse(n) = IF n.wants > 0 THEN Collide(b) ELSE begun
  BY DEF NewResponse, e
<1> HIDE DEF begun
<1>6. InOrder(s, begun, k)
  BY <1>3, <1>4, BegunInOrder
<1>7. b \in Net /\ b.active = begun.active /\ b.made = begun.made /\ b.inbox = begun.inbox
  BY <1>3 DEF Net
<1> HIDE DEF b
<1>8. c \in Net /\ c.active = b.active /\ c.made = b.made /\ c.inbox = b.inbox
  BY <1>7 DEF Net
<1>9. Collide(b) = Push(c, [type |-> "conflict"])
  BY DEF Collide
<1> HIDE DEF c
<1>10. InOrder(s, Collide(b), k)
  <2> DEFINE f == [type |-> "conflict"]
  <2>1. f \in Event /\ ~Numbered(f)
    BY Occurrences DEF Numbered
  <2> HIDE DEF f
  <2>2. Push(c, f) \in Net
    BY <1>8, <2>1, PushKeeps
  <2>3. /\ Push(c, f).active = begun.active /\ Push(c, f).made = begun.made
        /\ Push(c, f).inbox = Append(begun.inbox, f)
    BY <1>7, <1>8 DEF Push, Net
  <2>4. InOrder(s, Push(c, f), k)
    BY <1>3, <1>6, <2>1, <2>2, <2>3, PlainInOrder
  <2> QED BY <1>9, <2>4 DEF f
<1> QED BY <1>5, <1>6, <1>10

\* An event of no response, whatever else changes with it.
LEMMA PushInOrder ==
    ASSUME NEW s \in Provider, NEW n \in Net, NEW k, InOrder(s, n, k), s.socket # 0,
           NEW m \in Net, m.active = n.active, m.made = n.made, m.inbox = n.inbox,
           NEW e \in Event, ~Numbered(e)
    PROVE  InOrder(s, Push(m, e), k)
<1>1. Push(m, e) \in Net
  BY PushKeeps
<1>2. /\ Push(m, e).active = n.active /\ Push(m, e).made = n.made
      /\ Push(m, e).inbox = Append(n.inbox, e)
  BY DEF Push, Net
<1> QED BY <1>1, <1>2, PlainInOrder

\* A message of the provider.
LEMMA TakenInOrder ==
    ASSUME NEW s \in Provider, NEW n \in Net, NEW k, InOrder(s, n, k), NEW m \in Message
    PROVE  InOrder(s, NetTakes(n, m), k)
<1>1. m.type \in {"session.update", "response.create", "response.cancel", "result"}
  BY DEF Message, Plain, AboutResponse
<1>2. s.socket = 0 => n.active = 0
  BY DEF InOrder, Heeded
<1>3. CASE m.type = "session.update"
  <2>1. NetTakes(n, m) = [n EXCEPT !.owes = TRUE]
    BY <1>3 DEF NetTakes
  <2> QED BY <2>1, SameInOrder DEF Net
<1>4. CASE m.type = "response.create"
  <2>1. NetTakes(n, m) = IF n.active # 0 THEN Collide(n) ELSE [n EXCEPT !.wants = @ + 1]
    BY <1>4 DEF NetTakes
  <2>2. CASE n.active # 0
    <3> DEFINE c == [n EXCEPT !.collided = TRUE]
    <3>1. c \in Net /\ c.active = n.active /\ c.made = n.made /\ c.inbox = n.inbox
      BY DEF Net
    <3>2. Collide(n) = Push(c, [type |-> "conflict"])
      BY DEF Collide
    <3> HIDE DEF c
    <3>3. [type |-> "conflict"] \in Event /\ ~Numbered([type |-> "conflict"])
      BY Occurrences DEF Numbered
    <3>4. InOrder(s, Push(c, [type |-> "conflict"]), k)
      BY <1>2, <2>2, <3>1, <3>3, PushInOrder
    <3> QED BY <2>1, <2>2, <3>2, <3>4
  <2>3. CASE n.active = 0
    <3>1. NetTakes(n, m) = [n EXCEPT !.wants = @ + 1]
      BY <2>1, <2>3
    <3> QED BY <3>1, SameInOrder DEF Net
  <2> QED BY <2>2, <2>3
<1>5. CASE m.type = "response.cancel"
  <2>1. m.response \in Nat \ {0}
    BY <1>5 DEF Message, Plain, AboutResponse
  <2>2. NetTakes(n, m) = IF n.active = m.response THEN EndResponse(n) ELSE n
    BY <1>5 DEF NetTakes
  <2> QED BY <1>2, <2>1, <2>2, DoneInOrder
<1>6. CASE m.type = "result"
  <2>1. NetTakes(n, m) = [n EXCEPT !.unanswered = @ \cup {m.tool}]
    BY <1>6 DEF NetTakes
  <2> QED BY <2>1, SameInOrder DEF Net
<1> QED BY <1>1, <1>3, <1>4, <1>5, <1>6

LEMMA AllTakenInOrder ==
    ASSUME NEW s \in Provider, NEW n \in Net, NEW k, InOrder(s, n, k),
           NEW out \in Seq(Message), Brief(out)
    PROVE  InOrder(s, FoldLeft(NetTakes, n, out), k)
<1>1. ASSUME NEW x \in Net, NEW m \in Message, InOrder(s, x, k)
      PROVE  NetTakes(x, m) \in Net /\ InOrder(s, NetTakes(x, m), k)
  BY <1>1, ServerKeeps, TakenInOrder
<1>2. \/ out = <<>>
      \/ \E a \in Message : out = <<a>>
      \/ \E a, b \in Message : out = <<a, b>>
  BY BriefElements
<1>3. CASE out = <<>>
  BY <1>3, ServerTakes
<1>4. ASSUME NEW a \in Message, out = <<a>> PROVE InOrder(s, FoldLeft(NetTakes, n, out), k)
  <2>1. FoldLeft(NetTakes, n, out) = NetTakes(n, a)
    BY <1>4, ServerTakes
  <2> QED BY <1>1, <2>1
<1>5. ASSUME NEW a \in Message, NEW b \in Message, out = <<a, b>>
      PROVE  InOrder(s, FoldLeft(NetTakes, n, out), k)
  <2>1. FoldLeft(NetTakes, n, <<a, b>>) = NetTakes(NetTakes(n, a), b)
    <3>1. \A x, y : FoldLeft(NetTakes, n, <<x, y>>) = NetTakes(NetTakes(n, x), y)
      BY ServerTakes
    <3> QED BY <3>1
  <2> QED BY <1>1, <1>5, <2>1
<1> QED BY <1>2, <1>3, <1>4, <1>5

\* A new socket has nothing on its way.
LEMMA NewNetInOrder ==
    ASSUME NEW s \in Provider, NEW made \in Nat, Bounded(s, made), NEW k \in SUBSET (1..made)
    PROVE  InOrder(s, NewNet(made), k)
<1> DEFINE m == NewNet(made)
<1>1. m.active = 0 /\ m.made = made /\ m.inbox = <<>> /\ DOMAIN m.inbox = {}
  BY DEF NewNet
<1> HIDE DEF m
<1>2. InTurn(m)
  BY <1>1 DEF InTurn
<1>3. Heeded(s, m)
  BY <1>1 DEF Heeded
<1>4. Hushed(s, m, k)
  BY <1>1 DEF Hushed
<1> QED BY <1>2, <1>3, <1>4 DEF InOrder, m

\* An event is read, of which the provider makes nothing.
LEMMA PassedInOrder ==
    ASSUME NEW s \in Provider, NEW n \in Net, NEW k, InOrder(s, n, k), n.inbox # <<>>,
           Head(n.inbox).type # "response.created"
    PROVE  InOrder(s, [n EXCEPT !.inbox = Tail(@)], k)
<1> DEFINE m == [n EXCEPT !.inbox = Tail(@)]
<1>0. n.inbox \in Seq(Event)
  BY DEF Net
<1>1. m.active = n.active /\ m.made = n.made /\ m.inbox = Tail(n.inbox)
  BY DEF Net
<1> HIDE DEF m
<1>2. /\ \A i \in DOMAIN m.inbox : i + 1 \in DOMAIN n.inbox /\ m.inbox[i] = n.inbox[i + 1]
      /\ \A i \in DOMAIN n.inbox : i # 1 => i - 1 \in DOMAIN m.inbox
      /\ \A i \in DOMAIN m.inbox : i \in Nat /\ 1 < i + 1
      /\ 1 \in DOMAIN n.inbox /\ n.inbox[1] = Head(n.inbox)
      /\ Len(m.inbox) + 1 = Len(n.inbox) /\ Len(n.inbox) \in Nat /\ Len(m.inbox) \in Nat
      /\ \A i \in DOMAIN n.inbox : i \in Nat
  BY <1>0, <1>1, Rest
<1>3. InTurn(m)
  <2>1. ASSUME NEW i \in DOMAIN m.inbox, NEW j \in DOMAIN m.inbox, i < j
        PROVE  Follows(m.inbox[i], m.inbox[j])
    <3>1. i + 1 \in DOMAIN n.inbox /\ j + 1 \in DOMAIN n.inbox /\ i + 1 < j + 1
      BY <1>2, <2>1
    <3>2. Follows(n.inbox[i + 1], n.inbox[j + 1])
      BY <3>1 DEF InOrder, InTurn
    <3> QED BY <1>2, <3>2
  <2> QED BY <1>1, <1>2, <2>1 DEF InOrder, InTurn
<1>4. ASSUME NEW i \in Nat, NEW r, Known(s, n.inbox, i + 1, r)
      PROVE  Known(s, m.inbox, i, r)
  <2>1. ASSUME NEW j \in DOMAIN n.inbox, j < i + 1, n.inbox[j] = Begun(r)
        PROVE  \E h \in DOMAIN m.inbox : h < i /\ m.inbox[h] = Begun(r)
    <3>1. j # 1
      BY <1>2, <2>1 DEF Begun
    <3>2. j - 1 \in DOMAIN m.inbox /\ j - 1 < i /\ (j - 1) + 1 = j
      BY <1>2, <2>1, <3>1
    <3>3. m.inbox[j - 1] = Begun(r)
      BY <1>2, <2>1, <3>2
    <3> QED BY <3>2, <3>3
  <2> QED BY <1>4, <2>1 DEF Known
<1>5. Heeded(s, m)
  <2>1. Bounded(s, m.made) /\ (\A i \in DOMAIN m.inbox : IsAhead(s, m.inbox[i]))
    BY <1>1, <1>2 DEF InOrder, Heeded
  <2>2. ASSUME NEW i \in DOMAIN m.inbox, m.inbox[i].type = "audio"
        PROVE  Known(s, m.inbox, i, m.inbox[i].response)
    <3>1. Known(s, n.inbox, i + 1, n.inbox[i + 1].response)
      BY <1>2, <2>2 DEF InOrder, Heeded
    <3> QED BY <1>2, <1>4, <3>1
  <2>3. ASSUME m.active # 0 PROVE Known(s, m.inbox, Len(m.inbox) + 1, m.active)
    <3>1. Known(s, n.inbox, Len(n.inbox) + 1, n.active)
      BY <1>1, <2>3 DEF InOrder, Heeded
    <3>2. Len(m.inbox) + 1 \in Nat /\ Len(n.inbox) + 1 = (Len(m.inbox) + 1) + 1
      BY <1>2
    <3> QED BY <1>1, <1>4, <3>1, <3>2
  <2>4. s.socket # 0
    BY <1>2 DEF InOrder, Heeded
  <2> QED BY <2>1, <2>2, <2>3, <2>4 DEF Heeded
<1>6. Hushed(s, m, k)
  BY <1>1, <1>2 DEF InOrder, Hushed
<1> QED BY <1>3, <1>5, <1>6 DEF InOrder, m

\* What is left of the events when the first is read.
LEMMA RestIsInTurn ==
    ASSUME NEW n \in Net, n.inbox # <<>>, InTurn(n)
    PROVE  LET m == [n EXCEPT !.inbox = Tail(@)]
               e == Head(n.inbox)
           IN  /\ InTurn(m) /\ m.active = n.active /\ m.made = n.made
               /\ \A i \in DOMAIN m.inbox : /\ i + 1 \in DOMAIN n.inbox
                                            /\ m.inbox[i] = n.inbox[i + 1]
                                            /\ Follows(e, m.inbox[i])
               /\ \A i \in DOMAIN n.inbox : i = 1 \/ i - 1 \in DOMAIN m.inbox
               /\ 1 \in DOMAIN n.inbox /\ n.inbox[1] = e
               /\ Numbered(e) => e.response \in 1..n.made
               /\ e.type = "response.done" => e.response # n.active
               /\ Len(m.inbox) + 1 = Len(n.inbox) /\ Len(m.inbox) \in Nat
               /\ \A i \in DOMAIN n.inbox : i \in Nat
               /\ \A i \in DOMAIN m.inbox : i \in Nat
<1> DEFINE m == [n EXCEPT !.inbox = Tail(@)]
           e == Head(n.inbox)
<1>0. n.inbox \in Seq(Event)
  BY DEF Net
<1>1. m.active = n.active /\ m.made = n.made /\ m.inbox = Tail(n.inbox)
  BY DEF Net
<1> HIDE DEF m
<1>2. /\ \A i \in DOMAIN m.inbox : i + 1 \in DOMAIN n.inbox /\ m.inbox[i] = n.inbox[i + 1]
      /\ \A i \in DOMAIN n.inbox : i = 1 \/ i - 1 \in DOMAIN m.inbox
      /\ \A i \in DOMAIN m.inbox : i \in Nat /\ 1 < i + 1
      /\ 1 \in DOMAIN n.inbox /\ n.inbox[1] = e
      /\ Len(m.inbox) + 1 = Len(n.inbox) /\ Len(n.inbox) \in Nat /\ Len(m.inbox) \in Nat
      /\ \A i \in DOMAIN n.inbox : i \in Nat
  BY <1>0, <1>1, Rest
<1> HIDE DEF e
<1>3. ASSUME NEW i \in DOMAIN m.inbox PROVE Follows(e, m.inbox[i])
  BY <1>2 DEF InTurn
<1>4. InTurn(m)
  <2>1. ASSUME NEW i \in DOMAIN m.inbox, NEW j \in DOMAIN m.inbox, i < j
        PROVE  Follows(m.inbox[i], m.inbox[j])
    <3>1. i + 1 \in DOMAIN n.inbox /\ j + 1 \in DOMAIN n.inbox /\ i + 1 < j + 1
      BY <1>2, <2>1
    <3>2. Follows(n.inbox[i + 1], n.inbox[j + 1])
      BY <3>1 DEF InTurn
    <3> QED BY <1>2, <3>2
  <2> QED BY <1>1, <1>2, <2>1 DEF InTurn
<1>5. /\ Numbered(e) => e.response \in 1..n.made
      /\ e.type = "response.done" => e.response # n.active
  BY <1>2 DEF InTurn
<1> QED BY <1>1, <1>2, <1>3, <1>4, <1>5 DEF m, e

\* response.created
LEMMA BeginningInOrder ==
    ASSUME NEW s \in Provider, NEW n \in Net, NEW k, InOrder(s, n, k), n.inbox # <<>>,
           NEW r \in Nat \ {0}, Head(n.inbox) = Begun(r),
           NEW u \in Provider, u.socket = s.socket, u.lastAudio = s.lastAudio,
           \/ u.active = r /\ u.cancelled = s.cancelled
           \/ u.active = 0 /\ u.cancelled = s.cancelled \cup {r}
    PROVE  InOrder(u, [n EXCEPT !.inbox = Tail(@)], k)
<1> DEFINE m == [n EXCEPT !.inbox = Tail(@)]
           e == Head(n.inbox)
<1>1. /\ InTurn(m) /\ m.active = n.active /\ m.made = n.made
      /\ \A i \in DOMAIN m.inbox : /\ i + 1 \in DOMAIN n.inbox
                                   /\ m.inbox[i] = n.inbox[i + 1]
                                   /\ Follows(e, m.inbox[i])
      /\ \A i \in DOMAIN n.inbox : i = 1 \/ i - 1 \in DOMAIN m.inbox
      /\ 1 \in DOMAIN n.inbox /\ n.inbox[1] = e
      /\ Numbered(e) => e.response \in 1..n.made
      /\ Len(m.inbox) + 1 = Len(n.inbox) /\ Len(m.inbox) \in Nat
      /\ \A i \in DOMAIN n.inbox : i \in Nat
      /\ \A i \in DOMAIN m.inbox : i \in Nat
  BY RestIsInTurn DEF InOrder
<1> HIDE DEF m
<1>2. /\ e = Begun(r) /\ e.type = "response.created" /\ e.response = r /\ Numbered(e)
      /\ r \in 1..n.made /\ n.made \in Nat
  BY <1>1 DEF Begun, Numbered, Net
<1> HIDE DEF e
<1>3. /\ s.active \in Nat /\ s.lastAudio \in Nat /\ s.active < r /\ s.lastAudio < r
      /\ Bounded(s, n.made)
  BY <1>1, <1>2 DEF InOrder, Heeded, IsAhead, Provider
<1>4. Bounded(u, n.made)
  BY <1>2, <1>3 DEF Bounded
<1>5. ASSUME NEW i \in DOMAIN m.inbox PROVE IsAhead(u, m.inbox[i])
  <2>1. Follows(e, m.inbox[i]) /\ IsAhead(s, m.inbox[i])
    BY <1>1 DEF InOrder, Heeded
  <2>2. ASSUME Numbered(m.inbox[i])
        PROVE  /\ m.inbox[i].response \in Nat /\ r <= m.inbox[i].response
               /\ m.inbox[i].type = "response.created" => r < m.inbox[i].response
    BY <1>1, <1>2, <2>1, <2>2 DEF Follows, InTurn, Numbered
  <2> QED BY <1>2, <1>3, <2>1, <2>2 DEF IsAhead
<1>6. ASSUME NEW i \in Nat, NEW x, Known(s, n.inbox, i + 1, x),
             x = s.active => x = r \/ x \in s.cancelled
      PROVE  Known(u, m.inbox, i, x)
  <2>1. CASE x = r \/ x \in s.cancelled
    BY <2>1 DEF Known
  <2>2. ASSUME NEW j \in DOMAIN n.inbox, j < i + 1, n.inbox[j] = Begun(x), x # r
        PROVE  \E h \in DOMAIN m.inbox : h < i /\ m.inbox[h] = Begun(x)
    <3>1. j # 1
      BY <1>1, <1>2, <2>2 DEF Begun
    <3>2. j \in Nat /\ j - 1 \in DOMAIN m.inbox
      BY <1>1, <3>1
    <3>3. j - 1 < i /\ (j - 1) + 1 = j
      BY <2>2, <3>2
    <3>4. m.inbox[j - 1] = n.inbox[j]
      BY <1>1, <3>2, <3>3
    <3> QED BY <2>2, <3>2, <3>3, <3>4
  <2> QED BY <1>6, <2>1, <2>2 DEF Known
<1>7. Heeded(u, m)
  <2>1. ASSUME NEW i \in DOMAIN m.inbox, m.inbox[i].type = "audio"
        PROVE  Known(u, m.inbox, i, m.inbox[i].response)
    <3>1. Known(s, n.inbox, i + 1, n.inbox[i + 1].response)
      BY <1>1, <2>1 DEF InOrder, Heeded
    <3>2. m.inbox[i].response \in Nat /\ r <= m.inbox[i].response
      BY <1>1, <1>2, <2>1 DEF Follows, InTurn, Numbered
    <3>3. m.inbox[i].response # s.active
      BY <1>2, <1>3, <3>2
    <3> QED BY <1>1, <1>6, <3>1, <3>3
  <2>2. ASSUME m.active # 0 PROVE Known(u, m.inbox, Len(m.inbox) + 1, m.active)
    <3>1. Known(s, n.inbox, Len(n.inbox) + 1, n.active)
      BY <1>1, <2>2 DEF InOrder, Heeded
    <3>2. Len(m.inbox) + 1 \in Nat /\ Len(n.inbox) + 1 = (Len(m.inbox) + 1) + 1
      BY <1>1
    <3>3. m.active = n.made
      BY <1>1, <2>2 DEF InTurn
    <3>4. m.active # s.active
      BY <1>2, <1>3, <3>3
    <3> QED BY <1>1, <1>6, <3>1, <3>2, <3>4
  <2>3. u.socket # 0
    BY <1>1 DEF InOrder, Heeded
  <2> QED BY <1>1, <1>4, <1>5, <2>1, <2>2, <2>3 DEF Heeded
<1>8. Hushed(u, m, k)
  BY <1>1 DEF InOrder, Hushed
<1> QED BY <1>1, <1>7, <1>8 DEF InOrder, m

\* response.done
LEMMA EndingInOrder ==
    ASSUME NEW s \in Provider, NEW n \in Net, NEW k, InOrder(s, n, k), n.inbox # <<>>,
           Head(n.inbox).type = "response.done",
           NEW u \in Provider, u.socket = s.socket, u.lastAudio = s.lastAudio,
           u.cancelled = s.cancelled,
           u.active = IF s.active = Head(n.inbox).response THEN 0 ELSE s.active
    PROVE  InOrder(u, [n EXCEPT !.inbox = Tail(@)], k)
<1> DEFINE m == [n EXCEPT !.inbox = Tail(@)]
           e == Head(n.inbox)
           r == e.response
<1>1. InOrder(s, m, k)
  BY PassedInOrder
<1>2. /\ InTurn(m) /\ m.active = n.active /\ m.made = n.made
      /\ \A i \in DOMAIN m.inbox : Follows(e, m.inbox[i])
      /\ Numbered(e) => e.response \in 1..n.made
      /\ e.type = "response.done" => e.response # n.active
  BY RestIsInTurn DEF InOrder
<1> HIDE DEF m
<1>3. e.type = "response.done" /\ Numbered(e) /\ r \in Nat /\ r # 0 /\ r # m.active
  BY <1>2 DEF Numbered
<1> HIDE DEF e
<1>4. u.active = IF s.active = r THEN 0 ELSE s.active
  BY DEF e
<1>5. Bounded(u, m.made) /\ (\A i \in DOMAIN m.inbox : IsAhead(u, m.inbox[i]))
  <2>1. Bounded(u, m.made) /\ s.active \in Nat
    <3>1. Bounded(s, m.made) /\ s.active \in Nat /\ m.made \in Nat
      BY <1>1, <1>2 DEF InOrder, Heeded, Provider, Net
    <3> QED BY <1>4, <3>1 DEF Bounded
  <2>2. ASSUME NEW i \in DOMAIN m.inbox, Numbered(m.inbox[i])
        PROVE  /\ m.inbox[i].response \in Nat \ {0} /\ s.active <= m.inbox[i].response
               /\ s.lastAudio <= m.inbox[i].response
               /\ m.inbox[i].type = "response.created" =>
                     s.active < m.inbox[i].response /\ s.lastAudio < m.inbox[i].response
    BY <1>1, <2>2 DEF InOrder, InTurn, Heeded, IsAhead
  <2>3. ASSUME NEW i \in DOMAIN m.inbox PROVE IsAhead(u, m.inbox[i])
    BY <1>4, <2>1, <2>2 DEF IsAhead
  <2> QED BY <2>1, <2>3
<1>6. ASSUME NEW i, NEW x, x # r, Known(s, m.inbox, i, x) PROVE Known(u, m.inbox, i, x)
  BY <1>4, <1>6 DEF Known
<1>7. Heeded(u, m)
  <2>1. ASSUME NEW i \in DOMAIN m.inbox, m.inbox[i].type = "audio"
        PROVE  Known(u, m.inbox, i, m.inbox[i].response)
    <3>1. Known(s, m.inbox, i, m.inbox[i].response)
      BY <1>1, <2>1 DEF InOrder, Heeded
    <3>2. m.inbox[i].response \in Nat /\ r < m.inbox[i].response
      BY <1>2, <1>3, <2>1 DEF Follows, InTurn, Numbered
    <3>3. m.inbox[i].response # r
      BY <1>3, <3>2
    <3> QED BY <1>6, <3>1, <3>3
  <2>2. ASSUME m.active # 0 PROVE Known(u, m.inbox, Len(m.inbox) + 1, m.active)
    BY <1>1, <1>3, <1>6, <2>2 DEF InOrder, Heeded
  <2>3. u.socket = 0 => m.active = 0 /\ m.inbox = <<>>
    BY <1>1 DEF InOrder, Heeded
  <2> QED BY <1>5, <2>1, <2>2, <2>3 DEF Heeded
<1>8. Hushed(u, m, k)
  BY <1>1 DEF InOrder, Hushed
<1> QED BY <1>2, <1>7, <1>8 DEF InOrder, m

\* Audio that is passed on
LEMMA PieceInOrder ==
    ASSUME NEW s \in Provider, NEW n \in Net, NEW k, InOrder(s, n, k), n.inbox # <<>>,
           NEW r \in Nat \ {0}, Head(n.inbox) = Piece(r), r \notin s.cancelled,
           NEW u \in Provider, u.socket = s.socket, u.lastAudio = r,
           u.cancelled = s.cancelled, u.active = s.active
    PROVE  /\ InOrder(u, [n EXCEPT !.inbox = Tail(@)], k)
           /\ s.lastAudio <= r /\ r \notin k
<1> DEFINE m == [n EXCEPT !.inbox = Tail(@)]
           e == Head(n.inbox)
<1>0. e = Piece(r) /\ e.type = "audio" /\ e.response = r /\ Numbered(e)
  BY DEF Piece, Numbered
<1>1. InOrder(s, m, k)
  BY <1>0, PassedInOrder
<1>2. /\ InTurn(m) /\ m.made = n.made
      /\ \A i \in DOMAIN m.inbox : Follows(e, m.inbox[i])
      /\ 1 \in DOMAIN n.inbox /\ n.inbox[1] = e
      /\ Numbered(e) => e.response \in 1..n.made
      /\ \A i \in DOMAIN n.inbox : i \in Nat
  BY RestIsInTurn DEF InOrder
<1> HIDE DEF m, e
<1>3. s.active = r
  <2>1. Known(s, n.inbox, 1, r)
    BY <1>0, <1>2 DEF InOrder, Heeded
  <2>2. ~\E j \in DOMAIN n.inbox : j < 1 /\ n.inbox[j] = Begun(r)
    <3>1. ASSUME NEW j \in DOMAIN n.inbox, j < 1 PROVE FALSE
      <4>1. j \in 1..Len(n.inbox)
        BY DEF Net
      <4> QED BY <3>1, <4>1
    <3> QED BY <3>1
  <2> QED BY <2>1, <2>2 DEF Known
<1>4. s.lastAudio <= r /\ r \in 1..n.made
  BY <1>0, <1>2, <1>3 DEF InOrder, Heeded, Bounded
<1>5. r \notin k
  BY <1>0, <1>2 DEF InOrder, Hushed
<1>6. Bounded(u, m.made)
  BY <1>2, <1>3, <1>4, <1>1 DEF InOrder, Heeded, Bounded
<1>7. ASSUME NEW i \in DOMAIN m.inbox PROVE IsAhead(u, m.inbox[i])
  BY <1>0, <1>1, <1>2 DEF InOrder, Heeded, IsAhead, Follows
<1>8. Heeded(u, m)
  <2>1. ASSUME NEW i, NEW x, Known(s, m.inbox, i, x) PROVE Known(u, m.inbox, i, x)
    BY <2>1 DEF Known
  <2> QED BY <1>1, <1>6, <1>7, <2>1 DEF InOrder, Heeded
<1>9. Hushed(u, m, k)
  BY <1>1 DEF InOrder, Hushed
<1> QED BY <1>2, <1>4, <1>5, <1>8, <1>9 DEF InOrder, m

\* abandonCurrentResponse, for what was speaking and what was playing
LEMMA AbandonedInOrder ==
    ASSUME NEW s \in Provider, NEW n \in Net, NEW k, InOrder(s, n, k),
           NEW u \in Provider, u.socket = s.socket, u.lastAudio = s.lastAudio, u.active = 0,
           u.cancelled = s.cancelled \cup ({IF s.active # 0 THEN s.active ELSE s.lastAudio} \ {0}),
           NEW played \in SUBSET (0..s.lastAudio)
    PROVE  InOrder(u, n, k \cup (({s.active} \cup played) \ {0}))
<1> DEFINE x == IF s.active # 0 THEN s.active ELSE s.lastAudio
<1>1. /\ Bounded(s, n.made) /\ n.made \in Nat /\ s.active \in Nat /\ s.lastAudio \in Nat
      /\ InTurn(n) /\ Heeded(s, n)
  BY DEF InOrder, Heeded, Provider, Net
<1>2. x \in 0..n.made /\ s.active <= x /\ s.lastAudio <= x
  BY <1>1 DEF Bounded
<1>3. x # 0 => x \in u.cancelled
  OBVIOUS
<1>4. s.active # 0 => x = s.active
  OBVIOUS
<1>5. u.cancelled = s.cancelled \cup ({x} \ {0})
  OBVIOUS
<1>6. ASSUME NEW i \in DOMAIN n.inbox, Numbered(n.inbox[i])
      PROVE  n.inbox[i].response \in 1..n.made /\ x <= n.inbox[i].response
  <2>1. n.inbox[i].response \in 1..n.made /\ IsAhead(s, n.inbox[i])
    BY <1>1, <1>6 DEF InTurn, Heeded
  <2> QED BY <1>1, <1>6, <2>1 DEF IsAhead
<1> HIDE DEF x
<1>7. Heeded(u, n)
  <2>1. Bounded(u, n.made)
    BY <1>1, <1>2, <1>5 DEF Bounded
  <2>2. ASSUME NEW i \in DOMAIN n.inbox PROVE IsAhead(u, n.inbox[i])
    BY <1>1, <1>6 DEF Heeded, IsAhead
  <2>3. ASSUME NEW i, NEW y \in Nat \ {0}, Known(s, n.inbox, i, y) PROVE Known(u, n.inbox, i, y)
    BY <1>3, <1>4, <1>5, <2>3 DEF Known
  <2>4. ASSUME NEW i \in DOMAIN n.inbox, n.inbox[i].type = "audio"
        PROVE  Known(u, n.inbox, i, n.inbox[i].response)
    <3>1. n.inbox[i].response \in Nat \ {0}
      BY <1>6, <2>4 DEF Numbered
    <3> QED BY <1>1, <2>3, <2>4, <3>1 DEF Heeded
  <2>5. n.active # 0 => Known(u, n.inbox, Len(n.inbox) + 1, n.active)
    BY <1>1, <2>3 DEF Heeded, Net
  <2> QED BY <1>1, <2>1, <2>2, <2>4, <2>5 DEF Heeded
<1>8. ASSUME NEW r \in ({s.active} \cup played) \ {0}
      PROVE  /\ r \in 1..n.made
             /\ \/ r \in u.cancelled
                \/ r # n.active /\ \A i \in DOMAIN n.inbox : n.inbox[i] # Piece(r)
  <2>1. r \in Nat /\ r # 0 /\ r <= x
    <3>1. r = s.active \/ r \in 0..s.lastAudio
      OBVIOUS
    <3>2. r # 0 /\ x \in Nat
      BY <1>1, <1>2
    <3> QED BY <1>1, <1>2, <3>1, <3>2
  <2>2. r \in 1..n.made
    BY <1>1, <1>2, <2>1
  <2>3. CASE r = x
    BY <1>3, <2>1, <2>2, <2>3
  <2>4. CASE r # x
    <3>1. r < x
      BY <1>1, <1>2, <2>1, <2>4
    <3>2. r # n.active
      BY <1>1, <1>2, <2>1, <3>1 DEF InTurn
    <3>3. ASSUME NEW i \in DOMAIN n.inbox, n.inbox[i] = Piece(r) PROVE FALSE
      <4>1. Numbered(n.inbox[i]) /\ n.inbox[i].response = r
        BY <3>3 DEF Numbered, Piece
      <4> QED BY <1>2, <1>6, <2>1, <3>1, <4>1
    <3> QED BY <2>2, <3>2, <3>3
  <2> QED BY <2>3, <2>4
<1>9. Hushed(u, n, k \cup (({s.active} \cup played) \ {0}))
  <2>1. ASSUME NEW r \in k
        PROVE  /\ r \in 1..n.made
               /\ \/ r \in u.cancelled
                  \/ r # n.active /\ \A i \in DOMAIN n.inbox : n.inbox[i] # Piece(r)
    BY DEF InOrder, Hushed
  <2> QED BY <1>8, <2>1 DEF Hushed
<1> QED BY <1>1, <1>7, <1>9 DEF InOrder

-------------------------------------------------------------------------------
(***************************************************************************)
(* What is silenced stays silent.                                          *)
(***************************************************************************)

StaysSilent == /\ InOrder(p, net, call.silenced)
               /\ line \in Queue((0..p.lastAudio) \ call.silenced)

\* Calls that neither play nor silence anything.
Unvoiced(q) ==
    LET Other(c) == c.type \notin {"audio", "interruption"}
    IN  \/ q = <<>>
        \/ \E c : Other(c) /\ q = <<c>>
        \/ \E c, d : Other(c) /\ Other(d) /\ q = <<c, d>>

\* A handler after which the same is heard, unless there is nobody left to hear.
Mild(s, u) ==
    /\ u.lastAudio = s.lastAudio /\ u.cancelled = s.cancelled
    /\ u.active = s.active \/ (u.active = 0 /\ u.socket = 0)
    /\ Unvoiced(u.calls)

LEMMA SameEarInOrder ==
    ASSUME NEW s, NEW n, NEW k, InOrder(s, n, k),
           NEW u, u.active = s.active, u.lastAudio = s.lastAudio, u.cancelled = s.cancelled,
           u.socket = s.socket
    PROVE  InOrder(u, n, k)
BY DEF InOrder, Heeded, Hushed, Bounded, IsAhead, Known

LEMMA UnvoicedIsUnheard ==
    ASSUME NEW x \in World, NEW current \in Nat, NEW calls \in Seq(Telling), Unvoiced(calls)
    PROVE  LET y == CallTakesAll(x, calls, current)
           IN  y.line = x.line /\ y.call.silenced = x.call.silenced
<1>1. ASSUME NEW w \in World, NEW c \in Telling, c.type \notin {"audio", "interruption"}
      PROVE  /\ CallTakes(w, c, current).line = w.line
             /\ CallTakes(w, c, current).call.silenced = w.call.silenced
             /\ CallTakes(w, c, current) \in World
  <2>1. CallTakes(w, c, current) =
            IF c.type = "tool" THEN [w EXCEPT !.call.running = @ \cup {c.tool}] ELSE w
    BY <1>1 DEF CallTakes
  <2> QED BY <2>1, CallKeeps DEF World, Call
<1>2. CASE calls = <<>>
  BY <1>2, CallHears
<1>3. ASSUME NEW c, c.type \notin {"audio", "interruption"}, calls = <<c>>
      PROVE  LET y == CallTakesAll(x, calls, current)
             IN  y.line = x.line /\ y.call.silenced = x.call.silenced
  <2>1. Len(calls) = 1 /\ calls[1] = c
    BY <1>3
  <2>2. c \in Telling
    BY <2>1
  <2>3. CallTakesAll(x, <<c>>, current) = CallTakes(x, c, current)
    BY CallHears
  <2> QED BY <1>1, <1>3, <2>2, <2>3
<1>4. ASSUME NEW c, NEW d, c.type \notin {"audio", "interruption"},
             d.type \notin {"audio", "interruption"}, calls = <<c, d>>
      PROVE  LET y == CallTakesAll(x, calls, current)
             IN  y.line = x.line /\ y.call.silenced = x.call.silenced
  <2>1. Len(calls) = 2 /\ calls[1] = c /\ calls[2] = d
    BY <1>4
  <2>2. c \in Telling /\ d \in Telling
    <3>1. Brief(calls) /\ calls # <<>> /\ \A a : calls # <<a>>
      <4>1. ASSUME NEW a PROVE Len(<<a>>) = 1
        OBVIOUS
      <4> QED BY <1>4, <2>1, <4>1 DEF Brief
    <3>2. \E a, b \in Telling : calls = <<a, b>>
      BY <3>1, BriefElements
    <3> QED BY <2>1, <3>2
  <2>3. CallTakesAll(x, <<c, d>>, current) = CallTakes(CallTakes(x, c, current), d, current)
    <3>1. \A a, b : CallTakesAll(x, <<a, b>>, current) =
                       CallTakes(CallTakes(x, a, current), b, current)
      BY CallHears
    <3> QED BY <3>1
  <2> DEFINE z == CallTakes(x, c, current)
  <2>4. z \in World /\ z.line = x.line /\ z.call.silenced = x.call.silenced
    BY <1>1, <1>4, <2>2
  <2> HIDE DEF z
  <2>5. /\ CallTakes(z, d, current).line = z.line
        /\ CallTakes(z, d, current).call.silenced = z.call.silenced
    BY <1>1, <1>4, <2>2, <2>4
  <2> QED BY <1>4, <2>3, <2>4, <2>5 DEF z
<1> QED BY <1>2, <1>3, <1>4 DEF Unvoiced

\* The step of Apply, given what the handlers of the call have made of the queue.
LEMMA ApplyInOrder ==
    ASSUME LinkInv, NEW u, NEW n \in Net, NEW l, NEW c, Settles(p, told, u), Apply(u, n, l, c),
           NEW w, w = CallTakesAll([line |-> l, call |-> c], u.calls, p.active),
           Bounded(u, net.made), w.call.silenced \subseteq 1..net.made,
           u.socket = p.socket => InOrder(u, n, w.call.silenced),
           w.line \in Queue((0..u.lastAudio) \ w.call.silenced)
    PROVE  StaysSilent'
<1>1. /\ u \in Provider /\ u.out \in Seq(Message) /\ (u.socket = p.socket => Brief(u.out))
      /\ net \in Net /\ net.made \in Nat
  BY DEF Settles, StaysLinked, Provider, LinkInv, Attuned, Net
<1>2. /\ p' = [u EXCEPT !.out = <<>>, !.calls = <<>>]
      /\ net' = IF u.socket # p.socket THEN NewNet(net.made) ELSE FoldLeft(NetTakes, n, u.out)
      /\ line' = w.line /\ call' = w.call
  BY DEF Apply
<1>3. InOrder(u, net', w.call.silenced)
  <2>1. CASE u.socket = p.socket
    BY <1>1, <1>2, <2>1, AllTakenInOrder
  <2>2. CASE u.socket # p.socket
    BY <1>1, <1>2, <2>2, NewNetInOrder
  <2> QED BY <2>1, <2>2
<1>4. /\ p'.active = u.active /\ p'.lastAudio = u.lastAudio /\ p'.cancelled = u.cancelled
      /\ p'.socket = u.socket
  BY <1>1, <1>2 DEF Provider
<1>5. InOrder(p', net', call'.silenced)
  BY <1>2, <1>3, <1>4, SameEarInOrder
<1>6. line' \in Queue((0..p'.lastAudio) \ call'.silenced)
  BY <1>2, <1>4
<1> QED BY <1>5, <1>6 DEF StaysSilent

LEMMA MildInOrder ==
    ASSUME LinkInv, StaysSilent, NEW u, Settles(p, told, u), Mild(p, u),
           NEW n \in Net, n.made = net.made, InOrder(p, n, call.silenced),
           NEW l \in Queue((0..p.lastAudio) \ call.silenced),
           NEW c \in Call, c.silenced = call.silenced, Apply(u, n, l, c)
    PROVE  StaysSilent'
<1> DEFINE x == [line |-> l, call |-> c]
           w == CallTakesAll(x, u.calls, p.active)
           k == call.silenced
<1>1. /\ p \in Provider /\ p.active \in Nat /\ p.lastAudio \in Nat /\ net.made \in Nat
      /\ u \in Provider /\ u.calls \in Seq(Telling)
  BY DEF Settles, StaysLinked, Provider, LinkInv, Attuned, Net, Idle
<1>2. x \in World
  <2>1. (0..p.lastAudio) \ call.silenced \subseteq Nat
    OBVIOUS
  <2>2. l \in Queue(Nat)
    BY <2>1, QueueWidens
  <2> QED BY <2>2 DEF World
<1>3. w.line = l /\ w.call.silenced = k
  <2>1. x.line = l /\ x.call = c
    OBVIOUS
  <2> HIDE DEF x
  <2> QED BY <1>1, <1>2, <2>1, UnvoicedIsUnheard DEF Mild
<1>4. Bounded(p, net.made) /\ k \subseteq 1..net.made
  BY DEF InOrder, Heeded, Hushed
<1>5. Bounded(u, net.made)
  BY <1>1, <1>4 DEF Bounded, Mild
<1>6. ASSUME u.socket = p.socket PROVE InOrder(u, n, k)
  <2>1. CASE u.active = p.active
    BY <1>6, <2>1, SameEarInOrder DEF Mild
  <2>2. CASE u.active = 0 /\ u.socket = 0
    <3>1. n.active = 0 /\ n.inbox = <<>> /\ DOMAIN n.inbox = {}
      BY <1>6, <2>2 DEF InOrder, Heeded
    <3>2. InTurn(n) /\ Heeded(u, n)
      BY <1>5, <3>1 DEF InOrder, Heeded
    <3>3. Hushed(u, n, k)
      BY DEF InOrder, Hushed, Mild
    <3> QED BY <3>2, <3>3 DEF InOrder
  <2> QED BY <2>1, <2>2 DEF Mild
<1> HIDE DEF w, x, k
<1>7. w = CallTakesAll([line |-> l, call |-> c], u.calls, p.active)
  BY DEF w, x
<1>8. w.line \in Queue((0..u.lastAudio) \ w.call.silenced)
  BY <1>3 DEF Mild, k
<1> QED BY <1>3, <1>4, <1>5, <1>6, <1>7, <1>8, ApplyInOrder DEF k

\* ... and a step that leaves the provider alone.
LEMMA AsideInOrder ==
    ASSUME StaysSilent, UNCHANGED p, call'.silenced = call.silenced,
           InOrder(p, net', call.silenced),
           line' \in Queue((0..p.lastAudio) \ call.silenced)
    PROVE  StaysSilent'
BY DEF StaysSilent

\* The handlers that are mild.
LEMMA UnvoicedOnes ==
    /\ Unvoiced(<<>>) /\ Unvoiced(Failure) /\ Unvoiced(<<[type |-> "close"]>>)
    /\ Unvoiced(<<[type |-> "error"]>>) /\ Unvoiced(<<[type |-> "ready"]>>)
    /\ Unvoiced(<<[type |-> "restored"]>>)
    /\ \A t : Unvoiced(<<[type |-> "tool", tool |-> t]>>)
<1>1. \A c : c.type \notin {"audio", "interruption"} => Unvoiced(<<c>>)
  BY DEF Unvoiced
<1>2. Unvoiced(Failure)
  <2> DEFINE c == [type |-> "error"]
             d == [type |-> "close"]
  <2>1. c.type \notin {"audio", "interruption"} /\ d.type \notin {"audio", "interruption"}
    OBVIOUS
  <2>2. Failure = <<c, d>>
    BY DEF Failure
  <2> HIDE DEF c, d
  <2> QED BY <2>1, <2>2 DEF Unvoiced
<1> QED BY <1>1, <1>2 DEF Unvoiced

LEMMA TalkIsMild ==
    ASSUME NEW s, NEW u, SameEar(s, u), Unvoiced(u.calls)
    PROVE  Mild(s, u)
BY DEF SameEar, Mild

LEMMA TimersAreMild ==
    ASSUME NEW s \in Idle
    PROVE  /\ Mild(s, ResponseTimer(s))
           /\ Mild(s, FillerTimer(s)) /\ Mild(s, RecoveryTimer(s))
           /\ Mild(s, [s EXCEPT !.audible = FALSE])
           /\ Mild(s, Say(s))
           /\ \A t \in Tools : Mild(s, SendToolResult(s, t))
<1>1. s \in Provider /\ s.calls = <<>>
  BY DEF Idle
<1>2. Mild(s, ResponseTimer(s))
  BY ResponseTimerAsks, UnvoicedOnes, TalkIsMild
<1>3. ASSUME NEW u, Talks(s, u) PROVE Mild(s, u)
  BY <1>1, <1>3, UnvoicedOnes, TalkIsMild DEF Talks
<1>4. Mild(s, FillerTimer(s)) /\ Mild(s, RecoveryTimer(s))
  BY <1>1, <1>3, FillerTalks
<1>5. Mild(s, Say(s))
  BY <1>1, <1>3, SayTalks
<1>6. Mild(s, [s EXCEPT !.audible = FALSE])
  <2> DEFINE u == [s EXCEPT !.audible = FALSE]
  <2>1. u \in Idle /\ u.active = s.active /\ u.lastAudio = s.lastAudio
        /\ u.cancelled = s.cancelled
    BY FlagsAlone
  <2> HIDE DEF u
  <2>2. Mild(s, u)
    BY <2>1, UnvoicedOnes DEF Mild, Idle
  <2> QED BY <2>2 DEF u
<1>7. ASSUME NEW t \in Tools PROVE Mild(s, SendToolResult(s, t))
  <2>1. SameEar(s, SendToolResult(s, t)) /\ SendToolResult(s, t).calls = <<>>
    BY <1>1, <1>7, ResultTalks
  <2> QED BY <2>1, UnvoicedOnes, TalkIsMild
<1> QED BY <1>2, <1>4, <1>5, <1>6, <1>7

LEMMA ConnectionIsMild ==
    ASSUME NEW s \in Idle, NEW t \in Told, Linked(s, t)
    PROVE  /\ s.socket # 0 =>
                 /\ Mild(s, HandleSessionCreated(s))
                 /\ Mild(s, MarkReady(s, s.socket))
                 /\ Mild(s, HandleTerminalError(s))
                 /\ \A normal \in BOOLEAN : Mild(s, HandleClose(s, normal))
                 /\ Mild(s, SendSessionUpdate([s EXCEPT !.wire = "open"]))
           /\ s.pending # 0 => Mild(s, AttemptTimeout(s))
           /\ "ready" \in s.timers /\ s.readyFor = s.socket => Mild(s, ReadyGrace(s))
           /\ "reconnect" \in s.timers => Mild(s, ReconnectTimer(s))
           /\ s.promise = "none" => Mild(s, StartSession(s))
           /\ Mild(s, StopSession(s))
<1>1. s \in Provider /\ s.out = <<>> /\ s.calls = <<>>
  BY DEF Idle
<1>2. Mild(s, s)
  BY <1>1, UnvoicedOnes DEF Mild
<1>3. ASSUME s.socket # 0 PROVE Mild(s, HandleSessionCreated(s))
  <2>1. SameEar(s, HandleSessionCreated(s)) /\ HandleSessionCreated(s).calls = <<>>
    BY CreatedArms DEF Idle
  <2> QED BY <2>1, UnvoicedOnes, TalkIsMild
<1>4. ASSUME NEW u, ReadyTells(s, u), ReadyAsks(s, u) PROVE Mild(s, u)
  BY <1>4, UnvoicedOnes, TalkIsMild DEF ReadyTells, ReadyAsks
<1>5. ASSUME s.socket # 0 PROVE Mild(s, MarkReady(s, s.socket))
  <2>1. CASE s.ready
    <3>1. MarkReady(s, s.socket) = s
      BY <2>1 DEF MarkReady
    <3> QED BY <1>2, <3>1
  <2>2. CASE ~s.ready
    <3>1. ~s.stopped /\ s.pending \in {0, s.socket}
      BY <1>1, <1>5, ConnectedIsOpen
    <3> QED BY <1>4, <2>2, <3>1, ReadyMarks
  <2> QED BY <2>1, <2>2
<1>6. ASSUME NEW u, GivesSocketUp(s, u), u.calls \in {<<>>, Failure} PROVE Mild(s, u)
  BY <1>6, UnvoicedOnes, TalkIsMild DEF GivesSocketUp
<1>7. ASSUME s.socket # 0 PROVE Mild(s, HandleTerminalError(s))
  <2> DEFINE u == HandleTerminalError(s)
  <2>1. ~s.stopped /\ ~s.closeEmitted /\ "reconnect" \notin s.timers /\ s.pending \in {0, s.socket}
    BY <1>1, <1>7, ConnectedIsOpen
  <2>2. GivesSocketUp(s, u) /\ u.calls \in {<<>>, Failure}
    BY <1>7, <2>1, TerminalGivesUp DEF PromiseBreaks
  <2> HIDE DEF u
  <2>3. Mild(s, u)
    BY <1>6, <2>2
  <2> QED BY <2>3 DEF u
<1>8. ASSUME s.socket # 0, NEW normal \in BOOLEAN PROVE Mild(s, HandleClose(s, normal))
  <2> DEFINE u == HandleClose(s, normal)
  <2>1. /\ ~s.stopped /\ ~s.closeEmitted /\ ~s.terminal /\ "reconnect" \notin s.timers
        /\ s.pending \in {0, s.socket}
    BY <1>1, <1>8, ConnectedIsOpen
  <2>2. CloseLeaves(s, u) /\ CloseTells(s, u)
    BY <1>8, <2>1, CloseLoses
  <2> HIDE DEF u
  <2>3. u.calls \in {<<>>, Failure, <<[type |-> "close"]>>}
    BY <2>2 DEF CloseTells, GoesOn
  <2>4. Mild(s, u)
    BY <2>2, <2>3, UnvoicedOnes DEF CloseLeaves, Mild
  <2> QED BY <2>4 DEF u
<1>9. ASSUME s.socket # 0 PROVE Mild(s, SendSessionUpdate([s EXCEPT !.wire = "open"]))
  BY <1>9, OpenSendsUpdate, UnvoicedOnes, TalkIsMild
<1>10. ASSUME s.pending # 0 PROVE Mild(s, AttemptTimeout(s))
  <2> DEFINE u == AttemptTimeout(s)
  <2>1. /\ ~s.terminal /\ s.socket \in {0, s.pending}
        /\ (s.socket = 0 <=> s.wire = "none") /\ (s.ready => s.socket # 0)
        /\ ~s.stopped => ~s.closeEmitted /\ "reconnect" \notin s.timers
    BY <1>10 DEF Linked, Sockets, Endings
  <2>2. GivesSocketUp(s, u) /\ u.calls \in {<<>>, Failure}
    BY <1>10, <2>1, TimeoutGivesUp DEF PromiseBreaks, GoesOn
  <2> HIDE DEF u
  <2>3. Mild(s, u)
    BY <1>6, <2>2
  <2> QED BY <2>3 DEF u
<1>11. ASSUME "ready" \in s.timers, s.readyFor = s.socket PROVE Mild(s, ReadyGrace(s))
  <2> DEFINE u == ReadyGrace(s)
  <2>1. s.socket # 0 /\ s.opened \in Nat
    BY <1>1, <1>11 DEF Linked, Sockets, Provider
  <2>2. ~s.stopped /\ s.pending \in {0, s.socket}
    BY <1>1, <2>1, ConnectedIsOpen
  <2>3. (ReadyTells(s, u) /\ ReadyAsks(s, u)) \/ u = Disarm(s, {"ready"})
    BY <1>11, <2>2, GraceMarks
  <2>4. CASE u = Disarm(s, {"ready"})
    <3>1. SameEar(s, u) /\ u.calls = <<>>
      BY <1>1, <2>4 DEF Provider, Disarm, SameEar
    <3> HIDE DEF u
    <3>2. Mild(s, u)
      BY <3>1, UnvoicedOnes, TalkIsMild
    <3> QED BY <3>2 DEF u
  <2>5. CASE ReadyTells(s, u) /\ ReadyAsks(s, u)
    BY <1>4, <2>5
  <2> QED BY <2>3, <2>4, <2>5
<1>12. ASSUME NEW u, Opens(s, u) PROVE Mild(s, u)
  BY <1>12, UnvoicedOnes, TalkIsMild DEF Opens
<1>13. ASSUME "reconnect" \in s.timers PROVE Mild(s, ReconnectTimer(s))
  <2>1. ~s.stopped
    BY <1>13 DEF Linked, Endings
  <2> QED BY <1>12, <2>1, OpeningOpens
<1>14. ASSUME s.promise = "none" PROVE Mild(s, StartSession(s))
  <2>1. "reconnect" \notin s.timers
    BY <1>14 DEF Linked, PromiseKept
  <2> QED BY <1>12, <2>1, OpeningOpens
<1>15. Mild(s, StopSession(s))
  <2> DEFINE u == StopSession(s)
  <2>1. CASE s.stopped
    <3>1. u = s
      BY <2>1 DEF StopSession
    <3> QED BY <1>2, <3>1
  <2>2. CASE ~s.stopped
    <3>1. Stops(s, u) /\ Falls(s, u)
      BY <2>2, StopStops
    <3> HIDE DEF u
    <3>2. Mild(s, u)
      BY <3>1, UnvoicedOnes DEF Stops, Falls, Mild
    <3> QED BY <3>2 DEF u
  <2> QED BY <2>1, <2>2
<1> QED BY <1>3, <1>5, <1>7, <1>8, <1>9, <1>10, <1>11, <1>13, <1>14, <1>15

LEMMA OthersAreMild ==
    ASSUME NEW s \in Idle
    PROVE  /\ Mild(s, HandleSpeechStopped(s))
           /\ Mild(s, HandleConflict(s)) /\ Mild(s, HandleComplaint(s))
           /\ Mild(s, HandleOtherError(s))
           /\ \A t \in Tools : Mild(s, HandleFunctionCall(s, t))
<1>1. Mild(s, HandleSpeechStopped(s))
  <2>1. LET u == HandleSpeechStopped(s)
        IN  /\ u \in Idle /\ u.active = s.active /\ u.lastAudio = s.lastAudio
            /\ u.cancelled = s.cancelled
    BY FlagsAlone
  <2> QED BY <2>1, UnvoicedOnes DEF Mild, Idle
<1>2. Mild(s, HandleConflict(s))
  BY ConflictQueues, UnvoicedOnes, TalkIsMild
<1>3. Mild(s, HandleOtherError(s))
  BY OthersAreIndifferent, UnvoicedOnes, TalkIsMild DEF Indifferent
<1>4. Mild(s, HandleComplaint(s))
  <2>1. /\ SameEar(s, HandleComplaint(s))
        /\ HandleComplaint(s).calls \in {<<>>, <<[type |-> "error"]>>}
    BY OthersAreIndifferent DEF Indifferent
  <2> QED BY <2>1, UnvoicedOnes, TalkIsMild
<1>5. ASSUME NEW t \in Tools PROVE Mild(s, HandleFunctionCall(s, t))
  <2>1. /\ SameEar(s, HandleFunctionCall(s, t))
        /\ HandleFunctionCall(s, t).calls = <<[type |-> "tool", tool |-> t]>>
    BY <1>5, ToolIsPassedOn DEF Indifferent
  <2> QED BY <2>1, UnvoicedOnes, TalkIsMild
<1> QED BY <1>1, <1>2, <1>3, <1>4, <1>5

\* A response begins, or ends: nothing is said to the call.
LEMMA TurnInOrder ==
    ASSUME LinkInv, StaysSilent, NEW u, Settles(p, told, u), u.socket = p.socket,
           u.lastAudio = p.lastAudio, u.calls = <<>>,
           NEW n \in Net, n.made = net.made, InOrder(u, n, call.silenced),
           Apply(u, n, line, call)
    PROVE  StaysSilent'
<1> DEFINE w == CallTakesAll([line |-> line, call |-> call], u.calls, p.active)
<1>1. w = [line |-> line, call |-> call]
  BY CallHears
<1>2. w.line = line /\ w.call = call
  BY <1>1
<1> HIDE DEF w
<1>3. Bounded(u, net.made) /\ call.silenced \subseteq 1..net.made
  BY DEF InOrder, Heeded, Hushed
<1>4. line \in Queue((0..u.lastAudio) \ call.silenced)
  BY DEF StaysSilent
<1> QED BY <1>2, <1>3, <1>4, ApplyInOrder DEF w

\* A piece of audio is passed on.
LEMMA PieceIsHeard ==
    ASSUME LinkInv, StaysSilent, net.inbox # <<>>, p.socket # 0,
           NEW r \in Nat \ {0}, Head(net.inbox) = Piece(r),
           Apply(HandleAudioDelta(p, r), [net EXCEPT !.inbox = Tail(@)], line, call)
    PROVE  StaysSilent'
<1> DEFINE u == HandleAudioDelta(p, r)
           n == [net EXCEPT !.inbox = Tail(@)]
           k == call.silenced
<1>1. /\ p \in Idle /\ p \in Provider /\ told \in Told /\ Linked(p, told) /\ net \in Net
      /\ line \in Queue(Nat) /\ call \in Call /\ InOrder(p, net, k)
      /\ line \in Queue((0..p.lastAudio) \ k)
  BY DEF LinkInv, Attuned, Idle, StaysSilent
<1>2. n \in Net /\ n.made = net.made
  BY <1>1, PushKeeps DEF Net
<1>3. Settles(p, told, u)
  BY <1>1, SpeechSettles
<1>4. Apply(u, n, line, call)
  OBVIOUS
<1>5. CASE r \in p.cancelled
  <2>1. u = p
    BY <1>5 DEF HandleAudioDelta
  <2>2. Mild(p, u)
    BY <1>1, <2>1, UnvoicedOnes DEF Mild, Idle
  <2>3. InOrder(p, n, k)
    <3>1. Head(net.inbox).type # "response.created"
      BY DEF Piece
    <3> QED BY <1>1, <3>1, PassedInOrder
  <2> HIDE DEF u, n
  <2> QED BY <1>1, <1>2, <1>3, <1>4, <2>2, <2>3, MildInOrder DEF k
<1>6. CASE r \notin p.cancelled
  <2> DEFINE a == Piece(r)
             x == [line |-> line, call |-> call]
             w == CallTakesAll(x, u.calls, p.active)
  <2>1. /\ u \in Provider /\ u.socket = p.socket /\ u.calls = <<a>>
        /\ u.active = p.active /\ u.cancelled = p.cancelled /\ u.lastAudio = r
    BY <1>1, <1>6, AudioIsPassedOn DEF SameLink, Piece
  <2> HIDE DEF u
  <2>2. InOrder(u, n, k) /\ p.lastAudio <= r /\ r \notin k
    BY <1>1, <1>6, <2>1, PieceInOrder
  <2>3. Bounded(u, net.made) /\ k \subseteq 1..net.made
    BY <1>2, <2>2 DEF InOrder, Heeded, Hushed
  <2> HIDE DEF n
  <2>4. w = CallTakes(x, a, p.active)
    <3>1. \A c : CallTakesAll(x, <<c>>, p.active) = CallTakes(x, c, p.active)
      BY CallHears
    <3> QED BY <2>1, <3>1
  <2> HIDE DEF w
  <2>5. a.type = "audio" /\ a.response = r
    BY DEF Piece
  <2> HIDE DEF a
  <2>6. w = IF call.attached THEN [x EXCEPT !.line = SendAudio(@, <<r>>)] ELSE x
    BY <2>4, <2>5 DEF CallTakes
  <2>7. w.call = call /\ (w.line = line \/ w.line = SendAudio(line, <<r>>))
    BY <2>6
  <2>8. line \in Queue((0..r) \ k)
    <3>1. (0..p.lastAudio) \ k \subseteq (0..r) \ k
      BY <1>1, <2>2 DEF Provider
    <3> QED BY <1>1, <3>1, QueueWidens
  <2>9. SendAudio(line, <<r>>) \in Queue((0..r) \ k)
    <3>1. r \in (0..r) \ k
      BY <2>2
    <3> DEFINE S == (0..r) \ k
    <3> HIDE DEF S
    <3>2. <<r>> \in Seq(S)
      BY <3>1 DEF S
    <3> QED BY <2>8, <3>2, SendKeeps DEF S
  <2>10. w.line \in Queue((0..u.lastAudio) \ w.call.silenced)
    BY <2>1, <2>7, <2>8, <2>9
  <2>11. w = CallTakesAll([line |-> line, call |-> call], u.calls, p.active)
    BY DEF w
  <2>12. w.call.silenced = k
    BY <2>7
  <2> HIDE DEF x, k
  <2> QED BY <1>2, <1>3, <1>4, <2>2, <2>3, <2>10, <2>11, <2>12, ApplyInOrder DEF u
<1> QED BY <1>5, <1>6

\* The caller speaks.
LEMMA SpeechIsHeard ==
    ASSUME LinkInv, StaysSilent, net.inbox # <<>>, p.socket # 0,
           Head(net.inbox).type = "speech_started",
           Apply(HandleSpeechStarted(p), [net EXCEPT !.inbox = Tail(@)], line, call)
    PROVE  StaysSilent'
<1> DEFINE u == HandleSpeechStarted(p)
           n == [net EXCEPT !.inbox = Tail(@)]
           k == call.silenced
<1>1. /\ p \in Idle /\ p \in Provider /\ told \in Told /\ Linked(p, told) /\ net \in Net
      /\ line \in Queue(Nat) /\ call \in Call /\ InOrder(p, net, k)
      /\ line \in Queue((0..p.lastAudio) \ k)
      /\ p.active \in Nat /\ p.lastAudio \in Nat
  BY DEF LinkInv, Attuned, Idle, StaysSilent, Provider
<1>2. n \in Net /\ n.made = net.made
  BY <1>1, PushKeeps DEF Net
<1>3. Settles(p, told, u)
  BY <1>1, SpeechSettles
<1>4. Apply(u, n, line, call)
  OBVIOUS
<1>5. InOrder(p, n, k)
  BY <1>1, PassedInOrder
<1>6. u \in Provider /\ Yields(p, u) /\ u.socket = p.socket /\ u.lastAudio = p.lastAudio
  BY <1>1, SpeechYields DEF Yields, SameLink
<1> HIDE DEF u, n
<1>7. CASE u.active = p.active /\ u.cancelled = p.cancelled /\ u.calls = <<[type |-> "speech"]>>
  <2>1. Unvoiced(u.calls)
    <3> DEFINE c == [type |-> "speech"]
    <3>1. c.type \notin {"audio", "interruption"} /\ u.calls = <<c>>
      BY <1>7
    <3> HIDE DEF c
    <3> QED BY <3>1 DEF Unvoiced
  <2>2. Mild(p, u)
    BY <1>6, <1>7, <2>1 DEF Mild
  <2> QED BY <1>1, <1>2, <1>3, <1>4, <1>5, <2>2, MildInOrder DEF k
<1>8. CASE /\ u.active = 0
           /\ u.cancelled = p.cancelled
                  \cup ({IF p.active # 0 THEN p.active ELSE p.lastAudio} \ {0})
           /\ u.calls = Interruption
  <2> DEFINE x == [line |-> line, call |-> call]
             w == CallTakesAll(x, u.calls, p.active)
             off == ({p.active} \cup Playing(line)) \ {0}
  <2>1. Playing(line) \in SUBSET (0..p.lastAudio)
    BY <1>1, PlayingIsQueued
  <2>2. InOrder(u, n, k \cup off)
    <3> DEFINE played == Playing(line)
    <3> HIDE DEF played, k
    <3>1. p \in Provider /\ n \in Net /\ u \in Provider /\ played \in SUBSET (0..p.lastAudio)
      BY <1>1, <1>2, <1>6, <2>1 DEF played
    <3>2. InOrder(u, n, k \cup (({p.active} \cup played) \ {0}))
      BY <1>5, <1>6, <1>8, <3>1, AbandonedInOrder
    <3> QED BY <3>2 DEF played
  <2>3. InOrder(u, n, k)
    BY <2>2 DEF InOrder, Hushed
  <2>4. w = CallTakes(CallTakes(x, [type |-> "speech"], p.active),
                      [type |-> "interruption"], p.active)
    <3>1. \A a, b : CallTakesAll(x, <<a, b>>, p.active) =
                       CallTakes(CallTakes(x, a, p.active), b, p.active)
      BY CallHears
    <3> QED BY <1>8, <3>1 DEF Interruption
  <2>5. CallTakes(x, [type |-> "speech"], p.active) = x
    BY DEF CallTakes
  <2>6. w = IF ~call.closing
            THEN [line |-> Discard(line), call |-> [call EXCEPT !.silenced = @ \cup off]]
            ELSE x
    BY <2>4, <2>5 DEF CallTakes, Playing
  <2> HIDE DEF w, off
  <2>7. \/ w.line = line /\ w.call.silenced = k
        \/ w.line = Discard(line) /\ w.call.silenced = k \cup off
    BY <1>1, <2>6 DEF Call
  <2>8. Discard(line) \in Queue((0..u.lastAudio) \ (k \cup off))
    BY <1>1, QueueKeeps
  <2>9. w.line \in Queue((0..u.lastAudio) \ w.call.silenced) /\ InOrder(u, n, w.call.silenced)
    BY <1>1, <1>6, <2>2, <2>3, <2>7, <2>8
  <2>10. Bounded(u, net.made) /\ w.call.silenced \subseteq 1..net.made
    BY <1>2, <2>9 DEF InOrder, Heeded, Hushed
  <2>11. w = CallTakesAll([line |-> line, call |-> call], u.calls, p.active)
    BY DEF w
  <2> HIDE DEF x, k
  <2> QED BY <1>2, <1>3, <1>4, <2>9, <2>10, <2>11, ApplyInOrder
<1> QED BY <1>6, <1>7, <1>8 DEF Yields

LEMMA HandledInOrder ==
    ASSUME LinkInv, StaysSilent, HandleNext
    PROVE  StaysSilent'
<1> DEFINE e == Head(net.inbox)
           u == Handle(e)
           n == [net EXCEPT !.inbox = Tail(@)]
           k == call.silenced
<1>1. /\ p \in Idle /\ p \in Provider /\ told \in Told /\ Linked(p, told) /\ net \in Net
      /\ line \in Queue(Nat) /\ call \in Call /\ InOrder(p, net, k)
      /\ line \in Queue((0..p.lastAudio) \ k)
  BY DEF LinkInv, Attuned, Idle, StaysSilent
<1>2. p.socket # 0 /\ net.inbox # <<>> /\ Apply(u, n, line, call)
  BY DEF HandleNext
<1>3. n \in Net /\ n.made = net.made /\ e \in Event
  BY <1>1, <1>2, PushKeeps DEF Net
<1>4. \/ e.type \in {"session.created", "session.updated", "speech_started",
                     "speech_stopped", "conflict", "terminal", "complaint", "error"}
      \/ \E r \in Nat \ {0} : e = Begun(r)
      \/ \E r \in Nat \ {0} : e = Piece(r)
      \/ e.type = "response.done" /\ e.response \in Nat \ {0}
      \/ e.type = "tool" /\ e.tool \in Tools
      \/ e.type = "close" /\ e.normal \in BOOLEAN
  BY <1>3 DEF Event, Plain, AboutResponse, AboutTool, Begun, Piece
<1>5. ASSUME Settles(p, told, u), Mild(p, u), e.type # "response.created" PROVE StaysSilent'
  <2>1. InOrder(p, n, k)
    BY <1>1, <1>2, <1>5, PassedInOrder
  <2> HIDE DEF u, n
  <2> QED BY <1>1, <1>2, <1>3, <1>5, <2>1, MildInOrder DEF k
<1> HIDE DEF e
<1>6. CASE e.type \in {"session.created", "session.updated", "terminal"}
  BY <1>1, <1>2, <1>5, <1>6, ConnectionSettles, ConnectionIsMild DEF Handle
<1>7. CASE e.type \in {"speech_stopped", "conflict", "complaint", "error"}
  BY <1>1, <1>2, <1>5, <1>7, SpeechSettles, OthersAreMild DEF Handle
<1>8. CASE e.type = "tool" /\ e.tool \in Tools
  BY <1>1, <1>2, <1>5, <1>8, SpeechSettles, OthersAreMild DEF Handle
<1>9. CASE e.type = "close" /\ e.normal \in BOOLEAN
  BY <1>1, <1>2, <1>5, <1>9, ConnectionSettles, ConnectionIsMild DEF Handle
<1>10. CASE e.type = "speech_started"
  <2>1. u = HandleSpeechStarted(p)
    BY <1>10 DEF Handle
  <2> QED BY <1>2, <1>10, <2>1, SpeechIsHeard DEF e
<1>11. ASSUME NEW r \in Nat \ {0}, e = Piece(r) PROVE StaysSilent'
  <2>1. u = HandleAudioDelta(p, r)
    BY <1>11 DEF Handle, Piece
  <2> QED BY <1>2, <1>11, <2>1, PieceIsHeard DEF e
<1>12. ASSUME NEW r \in Nat \ {0}, e = Begun(r) PROVE StaysSilent'
  <2>1. u = HandleResponseCreated(p, r)
    BY <1>12 DEF Handle, Begun
  <2>2. Settles(p, told, u) /\ Begins(p, u, r)
    BY <1>1, <1>2, <2>1, SpeechSettles, CreatedBegins
  <2> HIDE DEF u
  <2>3. /\ u \in Provider /\ u.socket = p.socket /\ u.lastAudio = p.lastAudio /\ u.calls = <<>>
        /\ \/ u.active = r /\ u.cancelled = p.cancelled
           \/ u.active = 0 /\ u.cancelled = p.cancelled \cup {r}
    BY <2>2 DEF Begins, SameLink
  <2>4. InOrder(u, n, k)
    BY <1>1, <1>2, <1>12, <2>3, BeginningInOrder DEF e
  <2> HIDE DEF n
  <2> QED BY <1>2, <1>3, <2>2, <2>3, <2>4, TurnInOrder DEF k
<1>13. CASE e.type = "response.done" /\ e.response \in Nat \ {0}
  <2>1. u = HandleResponseDone(p, e.response)
    BY <1>13 DEF Handle
  <2>2. Settles(p, told, u) /\ Ends(p, u, e.response)
    BY <1>1, <1>2, <1>13, <2>1, SpeechSettles, DoneEnds
  <2> HIDE DEF u
  <2>3. /\ u \in Provider /\ u.socket = p.socket /\ u.lastAudio = p.lastAudio /\ u.calls = <<>>
        /\ u.cancelled = p.cancelled
        /\ u.active = IF p.active = e.response THEN 0 ELSE p.active
    BY <2>2 DEF Ends, SameLink
  <2>4. InOrder(u, n, k)
    BY <1>1, <1>2, <1>13, <2>3, EndingInOrder DEF e
  <2> HIDE DEF n
  <2> QED BY <1>2, <1>3, <2>2, <2>3, <2>4, TurnInOrder DEF k
<1> QED BY <1>4, <1>6, <1>7, <1>8, <1>9, <1>10, <1>11, <1>12, <1>13

\* The connection opens, or is lost.
LEMMA SocketStepInOrder ==
    ASSUME LinkInv, StaysSilent, SocketOpens \/ \E normal \in BOOLEAN : SocketLost(normal)
    PROVE  StaysSilent'
<1> DEFINE k == call.silenced
<1>1. /\ p \in Idle /\ p \in Provider /\ told \in Told /\ Linked(p, told)
      /\ net \in Net /\ call \in Call /\ InOrder(p, net, k)
      /\ line \in Queue((0..p.lastAudio) \ k)
  BY DEF LinkInv, Attuned, Idle, StaysSilent
<1>2. CASE SocketOpens
  <2> DEFINE u == SendSessionUpdate([p EXCEPT !.wire = "open"])
             n == Push(net, [type |-> "session.created"])
  <2>1. p.socket # 0
    BY <1>1, <1>2 DEF SocketOpens, Linked, Sockets
  <2>2. Settles(p, told, u) /\ Mild(p, u)
    BY <1>1, <2>1, ConnectionSettles, ConnectionIsMild
  <2>3. [type |-> "session.created"] \in Event /\ ~Numbered([type |-> "session.created"])
    BY Occurrences DEF Numbered
  <2>4. n \in Net /\ n.made = net.made
    BY <1>1, <2>3, PushKeeps DEF Push, Net
  <2>5. InOrder(p, n, k)
    BY <1>1, <2>1, <2>3, PushInOrder
  <2>6. Apply(u, n, line, call)
    BY <1>2 DEF SocketOpens
  <2> HIDE DEF u, n
  <2> QED BY <1>1, <2>2, <2>4, <2>5, <2>6, MildInOrder DEF k
<1>3. ASSUME NEW normal \in BOOLEAN, SocketLost(normal) PROVE StaysSilent'
  <2> DEFINE e == [type |-> "close", normal |-> normal]
  <2>1. p.socket # 0 /\ e \in Event /\ ~Numbered(e)
    BY <1>1, <1>3, Occurrences DEF SocketLost, Linked, Sockets, Numbered
  <2> HIDE DEF e
  <2>2. /\ p' = [p EXCEPT !.wire = "closing"] /\ net' = Push(net, e)
        /\ call' = [call EXCEPT !.drops = @ + 1] /\ line' = line
    BY <1>3 DEF SocketLost, e
  <2>3. InOrder(p, net', k)
    BY <1>1, <2>1, <2>2, PushInOrder
  <2>4. /\ p'.active = p.active /\ p'.lastAudio = p.lastAudio
        /\ p'.cancelled = p.cancelled /\ p'.socket = p.socket
    BY <1>1, <2>2 DEF Provider
  <2>5. InOrder(p', net', k)
    BY <2>3, <2>4, SameEarInOrder
  <2>6. call'.silenced = k
    BY <1>1, <2>2 DEF Call
  <2> QED BY <1>1, <2>2, <2>4, <2>5, <2>6 DEF StaysSilent
<1> QED BY <1>2, <1>3

\* The server goes on.
LEMMA ServerOnlyInOrder ==
    ASSUME StaysSilent, NEW n, InOrder(p, n, call.silenced), ServerOnly(n)
    PROVE  StaysSilent'
BY DEF StaysSilent, ServerOnly

LEMMA ServerStepInOrder ==
    ASSUME LinkInv, StaysSilent, Server
    PROVE  StaysSilent'
<1> DEFINE k == call.silenced
<1>1. /\ p \in Provider /\ net \in Net /\ call \in Call /\ InOrder(p, net, k)
      /\ line \in Queue((0..p.lastAudio) \ k) /\ (p.wire = "open" => p.socket # 0)
  BY DEF LinkInv, Attuned, Idle, StaysSilent, Linked, Sockets
<1>2. ASSUME NEW n \in Net, n.active = net.active, n.made = net.made, n.inbox = net.inbox,
             p.socket # 0
      PROVE  InOrder(p, n, k) /\ \A e \in Event : ~Numbered(e) => InOrder(p, Push(n, e), k)
  BY <1>1, <1>2, SameInOrder, PushInOrder
<1>3. /\ [type |-> "session.updated"] \in Event /\ ~Numbered([type |-> "session.updated"])
      /\ [type |-> "complaint"] \in Event /\ ~Numbered([type |-> "complaint"])
      /\ [type |-> "terminal"] \in Event /\ ~Numbered([type |-> "terminal"])
      /\ [type |-> "error"] \in Event /\ ~Numbered([type |-> "error"])
      /\ [type |-> "speech_started"] \in Event /\ ~Numbered([type |-> "speech_started"])
      /\ [type |-> "speech_stopped"] \in Event /\ ~Numbered([type |-> "speech_stopped"])
  BY Occurrences DEF Numbered
<1> HIDE DEF k
<1>4. CASE ServerEchoes
  <2> DEFINE n == [net EXCEPT !.owes = FALSE]
  <2>1. n \in Net /\ n.active = net.active /\ n.made = net.made /\ n.inbox = net.inbox
        /\ p.socket # 0
    BY <1>1, <1>4 DEF Net, ServerEchoes, Serving
  <2>2. \/ ServerOnly(Push(n, [type |-> "session.updated"]))
        \/ ServerOnly(Push(n, [type |-> "complaint"]))
        \/ ServerOnly(n)
    BY <1>4 DEF ServerEchoes
  <2> HIDE DEF n
  <2> QED BY <1>2, <1>3, <2>1, <2>2, ServerOnlyInOrder DEF k
<1>5. CASE AccountRefused
  <2>1. p.socket # 0 /\ ServerOnly(Push(net, [type |-> "terminal"]))
    BY <1>1, <1>5 DEF AccountRefused, Serving
  <2> QED BY <1>1, <1>2, <1>3, <2>1, ServerOnlyInOrder DEF k
<1>6. CASE ServerAnswers
  <2> DEFINE n == [net EXCEPT !.wants = @ - 1]
  <2>1. n \in Net
    <3>1. net.wants - 1 \in Nat
      BY <1>1, <1>6 DEF ServerAnswers, Net
    <3> QED BY <1>1, <3>1 DEF Net
  <2>2. n.active = net.active /\ n.made = net.made /\ n.inbox = net.inbox /\ p.socket # 0
    BY <1>1, <1>6 DEF Net, ServerAnswers, Serving
  <2>3. ServerOnly(NewResponse(n)) \/ ServerOnly(Push(n, [type |-> "error"]))
    BY <1>6 DEF ServerAnswers
  <2> HIDE DEF n
  <2>4. InOrder(p, n, k) /\ InOrder(p, Push(n, [type |-> "error"]), k)
    BY <1>2, <1>3, <2>1, <2>2
  <2>5. InOrder(p, NewResponse(n), k)
    BY <1>1, <2>1, <2>2, <2>4, NewInOrder
  <2> QED BY <2>3, <2>4, <2>5, ServerOnlyInOrder DEF k
<1>7. CASE ServerSpeaks
  <2> DEFINE m == Push([net EXCEPT !.deltas = @ + 1], Piece(net.active))
  <2>1. net.active \in Nat \ {0} /\ p.socket # 0 /\ ServerOnly(m)
    BY <1>1, <1>7 DEF ServerSpeaks, Serving, Net, Piece
  <2>2. [net EXCEPT !.deltas = @ + 1] \in Net /\ Piece(net.active) \in Event
    <3>1. Piece(net.active) \in Event
      BY <2>1, Occurrences DEF Piece
    <3>2. net.deltas + 1 \in Nat
      BY <1>1 DEF Net
    <3> QED BY <1>1, <3>1, <3>2 DEF Net
  <2>3. m \in Net
    BY <2>2, PushKeeps
  <2>4. m.active = net.active /\ m.made = net.made /\ m.inbox = Append(net.inbox, Piece(net.active))
    BY <1>1 DEF Push, Net
  <2> HIDE DEF m
  <2>5. InOrder(p, m, k)
    BY <1>1, <2>1, <2>3, <2>4, SpokenInOrder
  <2> QED BY <2>1, <2>5, ServerOnlyInOrder DEF k
<1>8. CASE ServerCallsTool
  <2>1. PICK t \in Tools :
             /\ net' = Push(net, [type |-> "tool", tool |-> t])
             /\ call' = [call EXCEPT !.asked = @ \cup {t}]
    BY <1>8 DEF ServerCallsTool
  <2>2. [type |-> "tool", tool |-> t] \in Event /\ ~Numbered([type |-> "tool", tool |-> t])
    BY Occurrences DEF Numbered
  <2>3. p.socket # 0 /\ UNCHANGED <<p, line>>
    BY <1>1, <1>8 DEF ServerCallsTool, Serving
  <2>4. InOrder(p, net', k)
    BY <1>1, <1>2, <2>1, <2>2, <2>3
  <2>5. call'.silenced = k
    BY <1>1, <2>1 DEF Call, k
  <2> QED BY <1>1, <2>3, <2>4, <2>5, AsideInOrder DEF k
<1>9. CASE ServerFinishes
  <2>1. p.socket # 0 /\ net.active # 0 /\ ServerOnly(EndResponse(net))
    BY <1>1, <1>9 DEF ServerFinishes, Serving, Endable
  <2>2. InOrder(p, EndResponse(net), k)
    BY <1>1, <2>1, DoneInOrder
  <2> QED BY <2>1, <2>2, ServerOnlyInOrder DEF k
<1>10. CASE CallerHeard
  <2> DEFINE n == [net EXCEPT !.hearing = TRUE]
             h == Push(n, [type |-> "speech_started"])
  <2>1. n \in Net /\ n.active = net.active /\ n.made = net.made /\ n.inbox = net.inbox
        /\ p.socket # 0
    BY <1>1, <1>10 DEF Net, CallerHeard, Serving
  <2>2. net' = IF Endable THEN EndResponse(h) ELSE h
    BY <1>10 DEF CallerHeard
  <2>3. call' = [call EXCEPT !.noise = @ + 1] /\ UNCHANGED <<p, line>>
    BY <1>10 DEF CallerHeard
  <2>4. h \in Net /\ h.active = net.active
    <3> HIDE DEF n
    <3>1. h \in Net
      BY <1>3, <2>1, PushKeeps
    <3>2. h.active = n.active
      BY <2>1 DEF Push, Net
    <3> QED BY <2>1, <3>1, <3>2
  <2> HIDE DEF n
  <2>5. InOrder(p, h, k)
    BY <1>2, <1>3, <2>1
  <2> HIDE DEF h
  <2>6. InOrder(p, net', k)
    <3>1. CASE Endable
      <4>1. h.active # 0
        BY <2>4, <3>1 DEF Endable
      <4>2. InOrder(p, EndResponse(h), k)
        BY <1>1, <2>1, <2>4, <2>5, <4>1, DoneInOrder
      <4> QED BY <2>2, <3>1, <4>2
    <3>2. CASE ~Endable
      BY <2>2, <2>5, <3>2
    <3> QED BY <3>1, <3>2
  <2>7. call'.silenced = k
    BY <1>1, <2>3 DEF Call, k
  <2> QED BY <1>1, <2>3, <2>6, <2>7, AsideInOrder DEF k
<1>11. CASE CallerQuiet
  <2> DEFINE n == [net EXCEPT !.hearing = FALSE]
             q == Push(n, [type |-> "speech_stopped"])
  <2>1. n \in Net /\ n.active = net.active /\ n.made = net.made /\ n.inbox = net.inbox
        /\ p.socket # 0
    BY <1>1, <1>11 DEF Net, CallerQuiet, Serving
  <2>2. ServerOnly(NewResponse(q)) \/ ServerOnly(q)
    BY <1>11 DEF CallerQuiet
  <2> HIDE DEF n
  <2>3. q \in Net /\ InOrder(p, q, k)
    BY <1>2, <1>3, <2>1, PushKeeps
  <2> HIDE DEF q
  <2>4. InOrder(p, NewResponse(q), k)
    BY <1>1, <2>1, <2>3, NewInOrder
  <2> QED BY <2>2, <2>3, <2>4, ServerOnlyInOrder DEF k
<1> QED BY <1>4, <1>5, <1>6, <1>7, <1>8, <1>9, <1>10, <1>11 DEF Server

\* A timer fires.
LEMMA StepInOrder ==
    ASSUME LinkInv, StaysSilent, NEW u, Settles(p, told, u), Mild(p, u), Step(u)
    PROVE  StaysSilent'
BY MildInOrder DEF Step, LinkInv, Attuned, StaysSilent

LEMMA TimerStepInOrder ==
    ASSUME LinkInv, StaysSilent, "late_grace" \notin Mishaps, Timer
    PROVE  StaysSilent'
<1>1. p \in Idle /\ told \in Told /\ Linked(p, told)
  BY DEF LinkInv, Attuned
<1>2. CASE AttemptTimesOut
  BY <1>1, <1>2, ConnectionSettles, ConnectionIsMild, StepInOrder DEF AttemptTimesOut
<1>3. CASE GraceFires
  BY <1>1, <1>3, ConnectionSettles, ConnectionIsMild, StepInOrder DEF GraceFires
<1>4. CASE ReconnectFires
  BY <1>1, <1>4, ConnectionSettles, ConnectionIsMild, StepInOrder DEF ReconnectFires
<1>5. CASE ResponseFires
  BY <1>1, <1>5, TimersSettle, TimersAreMild, StepInOrder DEF ResponseFires
<1>6. CASE FillerFires
  BY <1>1, <1>6, TimersSettle, TimersAreMild, StepInOrder DEF FillerFires
<1>7. CASE RecoveryFires
  BY <1>1, <1>7, TimersSettle, TimersAreMild, StepInOrder DEF RecoveryFires
<1>8. CASE HorizonPasses
  BY <1>1, <1>8, TimersSettle, TimersAreMild, StepInOrder DEF HorizonPasses
<1> QED BY <1>2, <1>3, <1>4, <1>5, <1>6, <1>7, <1>8 DEF Timer

\* What the platform speaks itself is of no response.
LEMMA FixedLineIsQueued ==
    ASSUME NEW S, Vendor \in S, NEW q \in Queue(S)
    PROVE  FixedLine(q) \in Queue(S)
<1>1. <<Vendor>> \in Seq(S)
  OBVIOUS
<1>2. SendAudio(q, <<Vendor>>) \in Queue(S)
  BY <1>1, SendKeeps
<1> QED BY <1>2, QueueKeeps DEF FixedLine

\* The farewell of toolEndCall is mild.
LEMMA FarewellIsMild ==
    ASSUME NEW s \in Idle, EndCall \in Tools,
           NEW deaf \in {s, SuppressBargeIn(s)}, NEW told_off \in {deaf, Say(deaf)}
    PROVE  Mild(s, SendToolResult(told_off, EndCall))
<1> DEFINE u == SendToolResult(told_off, EndCall)
<1>1. /\ deaf \in Provider /\ deaf.calls = <<>> /\ deaf.active = s.active
      /\ deaf.lastAudio = s.lastAudio /\ deaf.cancelled = s.cancelled
  <2>1. s \in Provider /\ s.calls = <<>>
    BY DEF Idle
  <2>2. CASE deaf = s
    BY <2>1, <2>2
  <2>3. CASE deaf = SuppressBargeIn(s)
    BY <2>3, FlagsAlone DEF Idle
  <2> QED BY <2>2, <2>3
<1> HIDE DEF u
<1>2. /\ told_off \in Provider /\ told_off.calls = <<>> /\ told_off.active = s.active
      /\ told_off.lastAudio = s.lastAudio /\ told_off.cancelled = s.cancelled
  <2>1. CASE told_off = deaf
    BY <1>1, <2>1
  <2>2. CASE told_off = Say(deaf)
    <3>1. Talks(deaf, Say(deaf))
      BY <1>1, SayTalks
    <3> QED BY <1>1, <2>2, <3>1 DEF Talks, SameEar
  <2> QED BY <2>1, <2>2
<1>3. SameEar(told_off, u) /\ u.calls = told_off.calls
  BY <1>2, ResultTalks DEF u
<1>4. Unvoiced(u.calls)
  BY <1>2, <1>3, UnvoicedOnes
<1> QED BY <1>2, <1>3, <1>4 DEF Mild, SameEar, u

LEMMA SpokenStepInOrder ==
    ASSUME LinkInv, StaysSilent,
           Launch \/ SayLine \/ ToolReturns \/ EndCallTool \/ GuardGoodbye
    PROVE  StaysSilent'
<1> DEFINE k == call.silenced
           S == (0..p.lastAudio) \ k
<1>1. /\ p \in Idle /\ told \in Told /\ Linked(p, told) /\ net \in Net
      /\ call \in Call /\ InOrder(p, net, k) /\ line \in Queue(S)
  BY DEF LinkInv, Attuned, StaysSilent
<1>2. Vendor \in S
  <2>1. p.lastAudio \in Nat
    BY <1>1 DEF Idle, Provider
  <2>2. 0 \notin k
    BY <1>1 DEF InOrder, Hushed
  <2> QED BY <2>1, <2>2 DEF Vendor
<1> HIDE DEF k, S
<1>3. FixedLine(line) \in Queue(S)
  BY <1>1, <1>2, FixedLineIsQueued
<1>4. ASSUME NEW u, Settles(p, told, u), Mild(p, u), NEW l \in Queue(S),
             NEW c \in Call, c.silenced = k, Apply(u, net, l, c)
      PROVE  StaysSilent'
  BY <1>1, <1>4, MildInOrder DEF k, S
<1>5. CASE Launch
  BY <1>1, <1>5, ConnectionSettles, ConnectionIsMild, StepInOrder DEF Launch
<1>6. CASE SayLine
  <2> DEFINE counted == [call EXCEPT !.lines = @ + 1]
  <2>1. counted \in Call /\ counted.silenced = k
    BY <1>1 DEF Call, k
  <2>2. \/ line' = FixedLine(line) /\ call' = counted /\ UNCHANGED <<p, net>>
        \/ Apply(Say(p), net, line, counted)
    BY <1>6 DEF SayLine
  <2> HIDE DEF counted
  <2>3. CASE line' = FixedLine(line) /\ call' = counted /\ UNCHANGED <<p, net>>
    BY <1>1, <1>3, <2>1, <2>3, AsideInOrder DEF k, S
  <2>4. CASE Apply(Say(p), net, line, counted)
    BY <1>1, <1>4, <2>1, <2>4, TimersSettle, TimersAreMild
  <2> QED BY <2>2, <2>3, <2>4
<1>7. CASE ToolReturns
  <2>1. PICK t \in call.running \ {EndCall} :
             Apply(SendToolResult(p, t), net, line, [call EXCEPT !.running = @ \ {t}])
    BY <1>7 DEF ToolReturns
  <2> DEFINE c == [call EXCEPT !.running = @ \ {t}]
  <2>2. t \in Tools /\ c \in Call /\ c.silenced = k
    BY <1>1 DEF Call, k
  <2>3. Settles(p, told, SendToolResult(p, t)) /\ Mild(p, SendToolResult(p, t))
    BY <1>1, <2>2, ResultSettles, TimersAreMild DEF Idle
  <2> HIDE DEF c
  <2>4. Apply(SendToolResult(p, t), net, line, c)
    BY <2>1 DEF c
  <2> QED BY <1>1, <1>4, <2>2, <2>3, <2>4
<1>8. Closing(call) \in Call /\ Closing(call).silenced = k
  BY <1>1 DEF Closing, Call, k
<1>9. CASE EndCallTool
  <2> DEFINE deaf == IF Talking THEN SuppressBargeIn(p) ELSE p
             spoken == Talking /\ line.frames = <<>>
             told_off == IF spoken /\ "vendor" \notin Mishaps THEN Say(deaf) ELSE deaf
             l == IF spoken /\ "vendor" \in Mishaps THEN FixedLine(line) ELSE line
             u == SendToolResult(told_off, EndCall)
  <2>1. EndCall \in Tools
    BY <1>1, <1>9 DEF EndCallTool, Call
  <2>2. deaf \in {p, SuppressBargeIn(p)}
    OBVIOUS
  <2>3. told_off \in {deaf, Say(deaf)}
    OBVIOUS
  <2>4. l \in Queue(S)
    BY <1>1, <1>3
  <2>5. Apply(u, net, l, Closing(call))
    BY <1>9 DEF EndCallTool
  <2> HIDE DEF deaf, told_off, l
  <2>6. Settles(p, told, u) /\ Mild(p, u)
    BY <1>1, <2>1, <2>2, <2>3, FarewellSettles, FarewellIsMild
  <2> HIDE DEF u
  <2> QED BY <1>4, <1>8, <2>4, <2>5, <2>6
<1>10. CASE GuardGoodbye
  <2>1. Apply(Say(p), net, line, Closing(call))
    BY <1>10 DEF GuardGoodbye
  <2> QED BY <1>1, <1>4, <1>8, <2>1, TimersSettle, TimersAreMild
<1> QED BY <1>5, <1>6, <1>7, <1>9, <1>10

LEMMA OverInOrder ==
    ASSUME LinkInv, StaysSilent, p.promise # "none", Over
    PROVE  StaysSilent'
<1> DEFINE c == [call EXCEPT !.over = TRUE]
           R == (0..p.lastAudio) \ call.silenced
<1>1. /\ p \in Idle /\ told \in Told /\ Linked(p, told) /\ net \in Net
      /\ call \in Call /\ InOrder(p, net, call.silenced) /\ line \in Queue(R)
  BY DEF LinkInv, Attuned, StaysSilent
<1> HIDE DEF R
<1>2. c \in Call /\ c.silenced = call.silenced
  BY <1>1 DEF Call
<1>3. MarkClosed(line) \in Queue(R)
  BY <1>1, QueueKeeps
<1>4. Settles(p, told, StopSession(p)) /\ Mild(p, StopSession(p))
  BY <1>1, ConnectionSettles, ConnectionIsMild
<1>5. Apply(StopSession(p), net, MarkClosed(line), c)
  BY DEF Over
<1> HIDE DEF c
<1> QED BY <1>1, <1>2, <1>3, <1>4, <1>5, MildInOrder DEF R

LEMMA QuietStepInOrder ==
    ASSUME LinkInv, StaysSilent,
           Attach \/ AwaitFarewell \/ FarewellTimesOut \/ HangUp \/ CallerLeaves \/ PlayFrame
    PROVE  StaysSilent'
<1> DEFINE S == (0..p.lastAudio) \ call.silenced
<1>1. /\ Linked(p, told) /\ call \in Call /\ Unlaunched(p, call)
      /\ InOrder(p, net, call.silenced) /\ line \in Queue(S)
  BY DEF LinkInv, Attuned, StaysSilent
<1> HIDE DEF S
<1>2. ASSUME UNCHANGED <<p, net>>, line' \in Queue(S), call'.silenced = call.silenced
      PROVE  StaysSilent'
  BY <1>1, <1>2, AsideInOrder DEF S
<1>3. CASE Attach
  <2>1. call'.silenced = call.silenced
    BY <1>1, <1>3 DEF Attach, Call
  <2> QED BY <1>1, <1>2, <1>3, <2>1 DEF Attach
<1>4. CASE AwaitFarewell
  <2>1. line' = WaitForDrain(line, "farewell") /\ UNCHANGED <<p, net>>
        /\ call' = [call EXCEPT !.farewell = "draining"]
    BY <1>4 DEF AwaitFarewell
  <2>2. line' \in Queue(S)
    BY <1>1, <2>1, WaiterAssumption, QueueKeeps
  <2>3. call'.silenced = call.silenced
    BY <1>1, <2>1 DEF Call
  <2> QED BY <1>2, <2>1, <2>2, <2>3
<1>5. CASE FarewellTimesOut
  <2>1. line' = DrainTimeout(line, "farewell") /\ UNCHANGED <<p, net, call>>
    BY <1>5 DEF FarewellTimesOut
  <2>2. line' \in Queue(S)
    BY <1>1, <2>1, WaiterAssumption, QueueKeeps
  <2> QED BY <1>2, <2>1, <2>2
<1>6. CASE HangUp
  <2>1. call.farewell = "draining" \/ told.close > 0 \/ p.promise = "broken"
    BY <1>6 DEF HangUp
  <2>2. p.promise # "none"
    BY <1>1, <2>1 DEF Unlaunched, Linked, PromiseKept, Witnessed
  <2> QED BY <1>6, <2>2, OverInOrder DEF HangUp
<1>7. CASE CallerLeaves
  BY <1>7, OverInOrder DEF CallerLeaves
<1>8. CASE PlayFrame
  <2>1. line' = EmitOneFrame(line) /\ UNCHANGED <<p, net, call>>
    BY <1>8 DEF PlayFrame
  <2>2. line' \in Queue(S)
    BY <1>1, <2>1, QueueKeeps
  <2> QED BY <1>2, <2>1, <2>2
<1> QED BY <1>3, <1>4, <1>5, <1>6, <1>7, <1>8

LEMMA SilenceInit == Init => StaysSilent
<1> SUFFICES ASSUME Init PROVE StaysSilent
  OBVIOUS
<1>1. /\ p.active = 0 /\ p.lastAudio = 0 /\ p.cancelled = {}
      /\ net.active = 0 /\ net.made = 0 /\ net.inbox = <<>> /\ call.silenced = {}
  BY DEF Init, NewProvider, NewNet, NewCall
<1>2. InOrder(p, net, call.silenced)
  <2>1. DOMAIN net.inbox = {}
    BY <1>1
  <2> QED BY <1>1, <2>1 DEF InOrder, InTurn, Heeded, Hushed, Bounded
<1>3. line \in Queue((0..p.lastAudio) \ call.silenced)
  <2> DEFINE S == (0..p.lastAudio) \ call.silenced
  <2>1. <<>> \in Frames(S) /\ <<>> \in Partial(S)
    BY Nothing
  <2> HIDE DEF S
  <2>2. line \in Queue(S)
    BY <2>1 DEF Init, NewSession, Queue
  <2> QED BY <2>2 DEF S
<1> QED BY <1>2, <1>3 DEF StaysSilent

LEMMA SilenceStep ==
    ASSUME Punctual, LinkInv, StaysSilent, [Next]_vars
    PROVE  StaysSilent'
<1>1. CASE SocketOpens \/ \E normal \in BOOLEAN : SocketLost(normal)
  BY <1>1, SocketStepInOrder
<1>2. CASE Server
  BY <1>2, ServerStepInOrder
<1>3. CASE HandleNext
  BY <1>3, HandledInOrder
<1>4. CASE Timer
  BY <1>4, TimerStepInOrder DEF Punctual
<1>5. CASE Orchestrator
  BY <1>5, SpokenStepInOrder, QuietStepInOrder DEF Orchestrator
<1>6. CASE UNCHANGED vars
  BY <1>6 DEF vars, StaysSilent
<1> QED BY <1>1, <1>2, <1>3, <1>4, <1>5, <1>6 DEF Next

\* What the caller has interrupted is never heard again: whatever was playing or on
\* its way when the interruption was acted upon, and in whatever order the server's
\* events, the timers and the tools come afterwards, no frame of it is in the queue
\* (onInterruption, abandonCurrentResponse, handleOutputAudioDelta).
THEOREM SilencedIsSilent == Punctual => (Spec => []SilencedStaysSilent)
<1> SUFFICES ASSUME Punctual PROVE Spec => []SilencedStaysSilent
  OBVIOUS
<1>1. Init => LinkInv /\ StaysSilent
  BY LinkInit, SilenceInit
<1>2. LinkInv /\ StaysSilent /\ [Next]_vars => (LinkInv /\ StaysSilent)'
  BY LinkStep, SilenceStep DEF LinkKept
<1>3. StaysSilent => SilencedStaysSilent
  <2> SUFFICES ASSUME StaysSilent, NEW i \in DOMAIN line.frames
               PROVE  Range(line.frames[i]) \cap call.silenced = {}
    BY DEF SilencedStaysSilent
  <2> DEFINE S == (0..p.lastAudio) \ call.silenced
  <2>1. line.frames \in Seq([1..FrameUnits -> S])
    BY DEF StaysSilent, Queue, Frames
  <2>2. line.frames[i] \in [1..FrameUnits -> S]
    BY <2>1
  <2>3. Range(line.frames[i]) \subseteq S
    BY <2>2 DEF Range
  <2> QED BY <2>3
<1> QED BY <1>1, <1>2, <1>3, PTL DEF Spec

\* The object, the server and the queue keep their shape; the queue is never over
\* its limit, and what waits for the next frame is less than one (enqueueFrame,
\* send).
THEOREM VoiceTypeCorrect == Punctual => (Spec => []TypeOK)
<1> SUFFICES ASSUME Punctual PROVE Spec => []TypeOK
  OBVIOUS
<1>1. Init => LinkInv /\ StaysSilent
  BY LinkInit, SilenceInit
<1>2. LinkInv /\ StaysSilent /\ [Next]_vars => (LinkInv /\ StaysSilent)'
  BY LinkStep, SilenceStep DEF LinkKept
<1>3. LinkInv /\ StaysSilent => TypeOK
  <2> SUFFICES ASSUME LinkInv, StaysSilent PROVE TypeOK
    OBVIOUS
  <2>1. /\ p \in Provider /\ p.out = <<>> /\ p.calls = <<>> /\ net \in Net /\ Sockets(p)
        /\ InTurn(net) /\ Bounded(p, net.made)
    BY DEF LinkInv, Attuned, Idle, Linked, StaysSilent, InOrder, Heeded
  <2>2. /\ p.promise \in Promises /\ p.wire \in Wires /\ p.timers \subseteq Timers
        /\ p.results \subseteq Tools /\ p.tool \in {"none", "running", "acknowledged"}
        /\ p.lines \in 0..MaxPendingSayLines /\ p.attempts \in 0..MaxReconnectAttempts
    BY <2>1 DEF Provider
  <2>3. /\ p.socket \in {0, p.opened} /\ p.pending \in {0, p.opened}
        /\ p.active \in 0..net.made /\ p.lastAudio \in 0..net.made
        /\ p.cancelled \subseteq 1..net.made
    BY <2>1 DEF Sockets, Bounded
  <2>4. net.active \in {0, net.made}
    BY <2>1 DEF InTurn
  <2>5. \A i \in DOMAIN net.inbox : net.inbox[i].type \in Events
    <3>1. \A e \in Event : e.type \in Events
      BY DEF Event, Plain, AboutResponse, AboutTool, Events
    <3>2. net.inbox \in Seq(Event)
      BY <2>1 DEF Net
    <3> QED BY <3>1, <3>2
  <2>6. line \in Queue(0..net.made)
    <3>1. (0..p.lastAudio) \ call.silenced \subseteq 0..net.made
      BY <2>1, <2>3 DEF Net
    <3> QED BY <3>1, QueueWidens DEF StaysSilent
  <2>7. /\ line \in [frames : Seq([1..FrameUnits -> 0..net.made]), tail : Seq(0..net.made),
                     closed : BOOLEAN, waiting : SUBSET Waiters,
                     answer : [Waiters -> {"none", "drained", "cut"}]]
        /\ Len(line.frames) <= MaxQueuedFrames /\ Len(line.tail) < FrameUnits
    <3> DEFINE S == 0..net.made
    <3>1. line \in Queue(S)
      BY <2>6
    <3> HIDE DEF S
    <3>2. /\ line.frames \in Seq([1..FrameUnits -> S]) /\ line.tail \in Seq(S)
          /\ Len(line.frames) <= MaxQueuedFrames /\ Len(line.tail) < FrameUnits
      BY <3>1 DEF Queue, Frames, Partial
    <3>3. line \in [frames : Seq([1..FrameUnits -> S]), tail : Seq(S),
                    closed : BOOLEAN, waiting : SUBSET Waiters,
                    answer : [Waiters -> {"none", "drained", "cut"}]]
      BY <3>1, <3>2 DEF Queue
    <3> QED BY <3>2, <3>3 DEF S
  <2> QED BY <2>1, <2>2, <2>3, <2>4, <2>5, <2>7 DEF TypeOK
<1> QED BY <1>1, <1>2, <1>3, PTL DEF Spec
===============================================================================
