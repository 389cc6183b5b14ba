-------------------------- MODULE VoiceTurns_proofs --------------------------
(***************************************************************************)
(* Whose turn it is.  Two promises about the requests of a provider: it    *)
(* never asks for a response while one is wanted already, and a turn that  *)
(* it keeps for later has somebody who will ask for it: the end of the     *)
(* response under way, a timer, or the reconnection.  And one about the    *)
(* caller: while the call is not closing, a barge-in empties the queue.    *)
(***************************************************************************)
EXTENDS VoiceLine_proofs

(***************************************************************************)
(* One request at a time.                                                  *)
(***************************************************************************)

\* The calls in which the server answers a request within the provider's timer, and
\* a response lasts longer than an event travels (see ResponseFires and Endable).
Timely == "slow" \notin Mishaps /\ "swift" \notin Mishaps

Coming(n, type) == \E i \in DOMAIN n.inbox : n.inbox[i].type = type

\* What the server n holds, a response being awaited or not: one request at the most,
\* which is awaited, unless one has met a response of the server's own.
Polite(n, awaiting) ==
    /\ n.wants > 0 => n.active = 0
    /\ n.wants <= 1 \/ n.collided
    /\ n.wants > 0 /\ ~n.collided => awaiting
    /\ Coming(n, "response.created") => n.active # 0
    /\ Coming(n, "conflict") => n.collided

AwaitsItsTurn == Polite(net, p.awaiting) /\ (p.socket = 0 => net.wants = 0)

Calm(m) == m.type \in {"session.update", "result"}

\* A handler that asks for one response at the most, and only if none is awaited;
\* or the session is not the one it was.
Discreet(s, u) ==
    \/ u.socket # s.socket
    \/ /\ s.awaiting => u.awaiting
       /\ \/ u.out = <<>>
          \/ \E m \in Message : Calm(m) /\ u.out = <<m>>
          \/ /\ ~s.awaiting /\ u.awaiting /\ s.wire = "open"
             /\ \/ u.out = <<Creation>>
                \/ \E m \in Message : /\ Calm(m)
                                      /\ u.out \in {<<m, Creation>>, <<Creation, m>>}

\* An event on its way changes nothing of this, unless it is one of the two.
LEMMA ComingMore ==
    ASSUME NEW n \in Net, NEW e \in Event, NEW type
    PROVE  Coming(Push(n, e), type) <=> Coming(n, type) \/ e.type = type
<1> DEFINE m == Push(n, e)
<1>1. n.inbox \in Seq(Event) /\ m.inbox = Append(n.inbox, e)
  BY DEF Net, Push
<1>2. /\ \A i \in DOMAIN n.inbox : i \in DOMAIN m.inbox /\ m.inbox[i] = n.inbox[i]
      /\ \A i \in DOMAIN m.inbox : i \in DOMAIN n.inbox \/ i = Len(n.inbox) + 1
      /\ Len(n.inbox) + 1 \in DOMAIN m.inbox /\ m.inbox[Len(n.inbox) + 1] = e
  BY <1>1, Appended
<1> HIDE DEF m
<1> QED BY <1>2 DEF Coming, m

LEMMA PushPolite ==
    ASSUME NEW n \in Net, NEW a, Polite(n, a), NEW m \in Net,
           m.wants = n.wants, m.active = n.active, m.collided = n.collided, m.inbox = n.inbox
    PROVE  /\ Polite(m, a)
           /\ \A e \in Event : e.type \notin {"response.created", "conflict"}
                                  => Polite(Push(m, e), a)
<1>1. Polite(m, a)
  BY DEF Polite, Coming
<1>2. ASSUME NEW e \in Event, e.type \notin {"response.created", "conflict"}
      PROVE  Polite(Push(m, e), a)
  <2>1. /\ Push(m, e).wants = m.wants /\ Push(m, e).active = m.active
        /\ Push(m, e).collided = m.collided
    BY DEF Push, Net
  <2>2. /\ Coming(Push(m, e), "response.created") <=> Coming(m, "response.created")
        /\ Coming(Push(m, e), "conflict") <=> Coming(m, "conflict")
    BY <1>2, ComingMore
  <2> QED BY <1>1, <2>1, <2>2 DEF Polite
<1> QED BY <1>1, <1>2

\* A response is over.
LEMMA EndPolite ==
    ASSUME NEW n \in Net, NEW a, Polite(n, a), n.active # 0, ~Coming(n, "response.created")
    PROVE  Polite(EndResponse(n), a)
<1> DEFINE e == [type |-> "response.done", response |-> n.active]
           m == [n EXCEPT !.active = 0]
<1>1. m \in Net /\ n.active \in Nat \ {0}
  BY DEF Net
<1>2. /\ m.wants = n.wants /\ m.active = 0 /\ m.collided = n.collided /\ m.inbox = n.inbox
  BY DEF Net
<1>3. e \in Event /\ e.type \notin {"response.created", "conflict"}
  BY <1>1, Occurrences
<1>4. Polite(m, a)
  BY <1>2 DEF Polite, Coming
<1>5. EndResponse(n) = Push(m, e)
  BY DEF EndResponse
<1> HIDE DEF e, m
<1> QED BY <1>1, <1>3, <1>4, <1>5, PushPolite

\* A request meets a response that is running.
LEMMA CollisionPolite ==
    ASSUME NEW n \in Net, NEW a, n.active # 0, n.wants = 0
    PROVE  Polite(Collide(n), a)
<1> DEFINE e == [type |-> "conflict"]
           m == [n EXCEPT !.collided = TRUE]
<1>1. Push(m, e).wants = 0 /\ Push(m, e).active # 0 /\ Push(m, e).collided
  BY DEF Net, Push
<1>2. Collide(n) = Push(m, e)
  BY DEF Collide
<1> HIDE DEF e, m
<1> QED BY <1>1, <1>2 DEF Polite

\* The server begins a response, when none is running.
LEMMA NewPolite ==
    ASSUME NEW n \in Net, NEW a, Polite(n, a), n.active = 0
    PROVE  Polite(NewResponse(n), a)
<1> DEFINE r == n.made + 1
           e == [type |-> "response.created", response |-> r]
           m == [n EXCEPT !.active = r, !.made = r, !.deltas = 0, !.unanswered = {}]
           begun == Push(m, e)
           b == [begun EXCEPT !.wants = 0]
<1>1. r \in Nat \ {0}
  BY DEF Net
<1>2. m \in Net /\ e \in Event
  <2>1. m \in Net
    BY <1>1 DEF Net
  <2> QED BY <1>1, <2>1, Occurrences
<1>3. m.wants = n.wants /\ m.active = r /\ m.collided = n.collided /\ m.inbox = n.inbox
  BY DEF Net
<1>4. NewResponse(n) = IF n.wants > 0 THEN Collide(b) ELSE begun
  BY DEF NewResponse
<1> HIDE DEF m
<1>5. begun \in Net
  BY <1>2, PushKeeps
<1>6. begun.wants = n.wants /\ begun.active = r /\ begun.collided = n.collided
  BY <1>2, <1>3 DEF Push, Net
<1>7. ASSUME n.wants = 0 PROVE Polite(begun, a)
  <2>1. Coming(begun, "conflict") <=> Coming(n, "conflict")
    <3>1. Coming(begun, "conflict") <=> Coming(m, "conflict") \/ e.type = "conflict"
      BY <1>2, ComingMore
    <3> QED BY <1>3, <3>1 DEF Coming
  <2> HIDE DEF begun
  <2> QED BY <1>1, <1>6, <1>7, <2>1 DEF Polite
<1> HIDE DEF begun
<1>8. Polite(Collide(b), a)
  <2>1. b \in Net /\ b.wants = 0 /\ b.active # 0
    BY <1>1, <1>5, <1>6 DEF Net
  <2> QED BY <2>1, CollisionPolite
<1>9. n.wants \in Nat
  BY DEF Net
<1> QED BY <1>4, <1>7, <1>8, <1>9

\* The server takes what it is sent.
LEMMA TakenPolite ==
    ASSUME NEW n \in Net
    PROVE  /\ \A m \in Message, a \in BOOLEAN : Calm(m) /\ Polite(n, a) =>
                  Polite(NetTakes(n, m), a) /\ NetTakes(n, m).wants = n.wants
           /\ Polite(n, FALSE) => Polite(NetTakes(n, Creation), TRUE)
           /\ \A r \in Nat \ {0}, a \in BOOLEAN :
                  Polite(n, a) /\ (n.active = r => ~Coming(n, "response.created")) =>
                  Polite(NetTakes(n, [type |-> "response.cancel", response |-> r]), a)
<1>1. ASSUME NEW m \in Message, NEW a \in BOOLEAN, Calm(m), Polite(n, a)
      PROVE  Polite(NetTakes(n, m), a) /\ NetTakes(n, m).wants = n.wants
  <2> DEFINE k == NetTakes(n, m)
  <2>1. k = [n EXCEPT !.owes = TRUE] \/ k = [n EXCEPT !.unanswered = @ \cup {m.tool}]
    BY <1>1 DEF NetTakes, Calm
  <2>2. /\ k.wants = n.wants /\ k.active = n.active /\ k.collided = n.collided
        /\ k.inbox = n.inbox
    BY <2>1 DEF Net
  <2> HIDE DEF k
  <2> QED BY <1>1, <2>2 DEF Polite, Coming, k
<1>2. ASSUME Polite(n, FALSE) PROVE Polite(NetTakes(n, Creation), TRUE)
  <2>1. NetTakes(n, Creation) = IF n.active # 0 THEN Collide(n) ELSE [n EXCEPT !.wants = @ + 1]
    BY DEF NetTakes, Creation
  <2>2. n.wants \in Nat /\ (n.active # 0 => n.wants = 0)
    BY <1>2 DEF Polite, Net
  <2>3. CASE n.active # 0
    BY <2>1, <2>2, <2>3, CollisionPolite
  <2>4. CASE n.active = 0
    <3> DEFINE k == [n EXCEPT !.wants = @ + 1]
    <3>1. /\ k.wants = n.wants + 1 /\ k.active = n.active /\ k.collided = n.collided
          /\ k.inbox = n.inbox
      BY DEF Net
    <3> HIDE DEF k
    <3>2. n.wants = 0 \/ n.collided
      BY <1>2, <2>2 DEF Polite
    <3>3. Polite(k, TRUE)
      BY <1>2, <2>2, <2>4, <3>1, <3>2 DEF Polite, Coming
    <3> QED BY <2>1, <2>4, <3>3 DEF k
  <2> QED BY <2>3, <2>4
<1>3. ASSUME NEW r \in Nat \ {0}, NEW a \in BOOLEAN, Polite(n, a),
             n.active = r => ~Coming(n, "response.created")
      PROVE  Polite(NetTakes(n, [type |-> "response.cancel", response |-> r]), a)
  <2>1. NetTakes(n, [type |-> "response.cancel", response |-> r]) =
            IF n.active = r THEN EndResponse(n) ELSE n
    BY DEF NetTakes
  <2> QED BY <1>3, <2>1, EndPolite
<1> QED BY <1>1, <1>2, <1>3

\* The step of Apply.
LEMMA ApplyPolite ==
    ASSUME LinkInv, NEW u, NEW n \in Net, NEW l, NEW c, Settles(p, told, u), Apply(u, n, l, c),
           u.socket = p.socket =>
               LET m == FoldLeft(NetTakes, n, u.out)
               IN  Polite(m, u.awaiting) /\ (p.socket = 0 => m.wants = 0)
    PROVE  AwaitsItsTurn'
<1>1. u \in Provider /\ net.made \in Nat
  BY DEF Settles, StaysLinked, LinkInv, Attuned, Net
<1>2. /\ p' = [u EXCEPT !.out = <<>>, !.calls = <<>>]
      /\ net' = IF u.socket # p.socket THEN NewNet(net.made) ELSE FoldLeft(NetTakes, n, u.out)
  BY DEF Apply
<1>3. p'.awaiting = u.awaiting /\ p'.socket = u.socket
  BY <1>1, <1>2 DEF Provider
<1>4. CASE u.socket = p.socket
  BY <1>2, <1>3, <1>4 DEF AwaitsItsTurn
<1>5. CASE u.socket # p.socket
  <2>1. net' = NewNet(net.made)
    BY <1>2, <1>5
  <2>2. net'.wants = 0 /\ ~net'.collided /\ net'.inbox = <<>>
    BY <2>1 DEF NewNet
  <2>3. DOMAIN net'.inbox = {}
    BY <2>2
  <2>4. Polite(net', p'.awaiting)
    BY <2>2, <2>3 DEF Polite, Coming
  <2> QED BY <2>2, <2>4 DEF AwaitsItsTurn
<1> QED BY <1>4, <1>5

LEMMA DiscreetPolite ==
    ASSUME LinkInv, NEW u, NEW n \in Net, NEW l, NEW c, Settles(p, told, u), Apply(u, n, l, c),
           Polite(n, p.awaiting), p.socket = 0 => n.wants = 0, Discreet(p, u)
    PROVE  AwaitsItsTurn'
<1>1. u \in Provider /\ p \in Provider /\ (p.wire = "open" => p.socket # 0)
  BY DEF Settles, StaysLinked, LinkInv, Attuned, Idle, Linked, Sockets
<1>2. p.awaiting \in BOOLEAN /\ u.awaiting \in BOOLEAN
  BY <1>1 DEF Provider
<1>3. /\ FoldLeft(NetTakes, n, <<>>) = n
      /\ \A a : FoldLeft(NetTakes, n, <<a>>) = NetTakes(n, a)
      /\ \A a, b : FoldLeft(NetTakes, n, <<a, b>>) = NetTakes(NetTakes(n, a), b)
  BY ServerTakes
<1> DEFINE m == FoldLeft(NetTakes, n, u.out)
<1>4. ASSUME u.socket = p.socket, u.out = <<>>, p.awaiting => u.awaiting
      PROVE  Polite(m, u.awaiting) /\ (p.socket = 0 => m.wants = 0)
  <2>1. m = n
    BY <1>3, <1>4
  <2> HIDE DEF m
  <2> QED BY <1>4, <2>1 DEF Polite
<1>5. ASSUME u.socket = p.socket, NEW a \in Message, Calm(a), u.out = <<a>>,
             p.awaiting => u.awaiting
      PROVE  Polite(m, u.awaiting) /\ (p.socket = 0 => m.wants = 0)
  <2>1. m = NetTakes(n, a)
    BY <1>3, <1>5
  <2>2. Polite(m, p.awaiting) /\ m.wants = n.wants
    BY <1>2, <1>5, <2>1, TakenPolite
  <2> HIDE DEF m
  <2> QED BY <1>5, <2>2 DEF Polite
<1>6. ASSUME ~p.awaiting, u.awaiting, p.wire = "open",
             \/ u.out = <<Creation>>
             \/ \E a \in Message : Calm(a) /\ u.out \in {<<a, Creation>>, <<Creation, a>>}
      PROVE  Polite(m, u.awaiting) /\ (p.socket = 0 => m.wants = 0)
  <2>1. Polite(n, FALSE) /\ p.socket # 0
    BY <1>1, <1>2, <1>6
  <2>2. CASE u.out = <<Creation>>
    <3>1. m = NetTakes(n, Creation)
      BY <1>3, <2>2
    <3> QED BY <1>2, <1>6, <2>1, <3>1, TakenPolite
  <2>3. ASSUME NEW a \in Message, Calm(a), u.out = <<a, Creation>>
        PROVE  Polite(m, TRUE)
    <3>1. m = NetTakes(NetTakes(n, a), Creation)
      BY <1>3, <2>3
    <3> DEFINE k == NetTakes(n, a)
    <3>2. k \in Net
      BY ServerKeeps
    <3>3. Polite(k, FALSE)
      BY <2>1, <2>3, TakenPolite
    <3> HIDE DEF k, m
    <3>4. Polite(NetTakes(k, Creation), TRUE)
      BY <3>2, <3>3, TakenPolite
    <3> QED BY <3>1, <3>4 DEF k
  <2>4. ASSUME NEW a \in Message, Calm(a), u.out = <<Creation, a>>
        PROVE  Polite(m, TRUE)
    <3>1. m = NetTakes(NetTakes(n, Creation), a)
      BY <1>3, <2>4
    <3> DEFINE k == NetTakes(n, Creation)
    <3>2. k \in Net
      BY ServerKeeps, Vocabulary
    <3>3. Polite(k, TRUE)
      BY <2>1, TakenPolite
    <3> HIDE DEF k, m
    <3>4. Polite(NetTakes(k, a), TRUE)
      BY <2>4, <3>2, <3>3, TakenPolite
    <3> QED BY <3>1, <3>4 DEF k
  <2> QED BY <1>2, <1>6, <2>1, <2>2, <2>3, <2>4
<1> HIDE DEF m
<1>7. u.socket = p.socket => Polite(m, u.awaiting) /\ (p.socket = 0 => m.wants = 0)
  BY <1>4, <1>5, <1>6 DEF Discreet
<1> QED BY <1>7, ApplyPolite DEF m

\* The handlers that are discreet.
LEMMA TalkIsDiscreet ==
    ASSUME NEW s \in Idle, NEW u
    PROVE  /\ Talks(s, u) => Discreet(s, u)
           /\ SameGate(s, u) /\ u.out \in {<<>>, <<[type |-> "session.update"]>>}
                 => Discreet(s, u)
<1>1. ASSUME Talks(s, u) PROVE Discreet(s, u)
  BY <1>1, ShortSequences DEF Idle, Talks, Gate, Sends, Discreet
<1>2. ASSUME SameGate(s, u), u.out \in {<<>>, <<[type |-> "session.update"]>>}
      PROVE  Discreet(s, u)
  <2> DEFINE m == [type |-> "session.update"]
  <2>1. m \in Message /\ Calm(m)
    BY Vocabulary DEF Calm
  <2>2. u.out = <<>> \/ u.out = <<m>>
    BY <1>2
  <2> HIDE DEF m
  <2> QED BY <1>2, <2>1, <2>2 DEF SameGate, Discreet
<1> QED BY <1>1, <1>2

LEMMA ResultIsDiscreet ==
    ASSUME NEW s \in Idle, NEW tool \in Tools,
           NEW x \in Provider, x.awaiting \in BOOLEAN, SameLink(s, x),
           s.awaiting => x.awaiting,
           \/ x.out = <<>>
           \/ x.out = <<Creation>> /\ x.awaiting /\ ~s.awaiting /\ s.wire = "open"
    PROVE  Discreet(s, SendToolResult(x, tool))
<1> DEFINE u == SendToolResult(x, tool)
           m == [type |-> "result", tool |-> tool]
<1>1. Gate(x, u) /\ SendsResult(x, u, tool)
  BY ResultTalks
<1>2. m \in Message /\ Calm(m)
  BY Vocabulary DEF Calm
<1> HIDE DEF u
<1>3. \/ u.out \in {x.out, Append(x.out, m)}
      \/ /\ u.out \in {Append(x.out, Creation), Append(Append(x.out, m), Creation)}
         /\ u.awaiting /\ ~x.awaiting /\ s.wire = "open"
  BY <1>1 DEF SendsResult, SameLink
<1> HIDE DEF m
<1>4. CASE x.out = <<>>
  <2>1. \/ u.out \in {<<>>, <<m>>}
        \/ /\ u.out \in {<<Creation>>, <<m, Creation>>}
           /\ u.awaiting /\ ~x.awaiting /\ s.wire = "open"
    BY <1>3, <1>4, ShortSequences
  <2>2. Discreet(s, u)
    BY <1>1, <1>2, <2>1 DEF Gate, Discreet
  <2> QED BY <2>2 DEF u
<1>5. CASE x.out = <<Creation>> /\ x.awaiting /\ ~s.awaiting /\ s.wire = "open"
  <2>1. u.out \in {<<Creation>>, <<Creation, m>>}
    BY <1>3, <1>5, ShortSequences
  <2>2. Discreet(s, u)
    BY <1>1, <1>2, <1>5, <2>1 DEF Gate, Discreet
  <2> QED BY <2>2 DEF u
<1> QED BY <1>4, <1>5

LEMMA TimersAreDiscreet ==
    ASSUME NEW s \in Idle
    PROVE  /\ Discreet(s, FillerTimer(s)) /\ Discreet(s, RecoveryTimer(s))
           /\ Discreet(s, [s EXCEPT !.audible = FALSE])
           /\ Discreet(s, Say(s))
           /\ \A t \in Tools : Discreet(s, SendToolResult(s, t))
<1>1. s \in Provider /\ s.out = <<>> /\ s.awaiting \in BOOLEAN /\ SameLink(s, s)
  BY DEF Idle, Provider, SameLink
<1>2. Discreet(s, FillerTimer(s)) /\ Discreet(s, RecoveryTimer(s))
  BY <1>1, FillerTalks, TalkIsDiscreet
<1>3. Discreet(s, Say(s))
  BY <1>1, SayTalks, TalkIsDiscreet
<1>4. Discreet(s, [s EXCEPT !.audible = FALSE])
  <2> DEFINE u == [s EXCEPT !.audible = FALSE]
  <2>1. u \in Idle /\ SameGate(s, u)
    BY FlagsAlone
  <2> HIDE DEF u
  <2>2. Discreet(s, u)
    BY <2>1, TalkIsDiscreet DEF Idle
  <2> QED BY <2>2 DEF u
<1>5. ASSUME NEW t \in Tools PROVE Discreet(s, SendToolResult(s, t))
  BY <1>1, ResultIsDiscreet
<1> QED BY <1>2, <1>3, <1>4, <1>5

LEMMA FarewellIsDiscreet ==
    ASSUME NEW s \in Idle, EndCall \in Tools,
           NEW deaf \in {s, SuppressBargeIn(s)}, NEW told_off \in {deaf, Say(deaf)}
    PROVE  Discreet(s, SendToolResult(told_off, EndCall))
<1>1. /\ deaf \in Provider /\ deaf.out = <<>> /\ SameLink(s, deaf) /\ deaf.awaiting = s.awaiting
  <2>1. s \in Provider /\ s.out = <<>> /\ SameLink(s, s)
    BY DEF Idle, SameLink
  <2>2. CASE deaf = s
    BY <2>1, <2>2
  <2>3. CASE deaf = SuppressBargeIn(s)
    BY <2>3, FlagsAlone DEF Idle, SameGate
  <2> QED BY <2>2, <2>3
<1>2. /\ told_off \in Provider /\ SameLink(s, told_off) /\ (s.awaiting => told_off.awaiting)
      /\ \/ told_off.out = <<>>
         \/ told_off.out = <<Creation>> /\ told_off.awaiting /\ ~s.awaiting /\ s.wire = "open"
  <2>1. CASE told_off = deaf
    BY <1>1, <2>1
  <2>2. CASE told_off = Say(deaf)
    <3>1. Talks(deaf, told_off)
      BY <1>1, <2>2, SayTalks
    <3>2. told_off \in Provider /\ SameLink(s, told_off) /\ (s.awaiting => told_off.awaiting)
      BY <1>1, <3>1 DEF Talks, SameLink, Gate
    <3>3. \/ told_off.out = <<>>
          \/ told_off.out = <<Creation>> /\ told_off.awaiting /\ ~s.awaiting /\ s.wire = "open"
      BY <1>1, <3>1, ShortSequences DEF Talks, Sends, SameLink
    <3> QED BY <3>2, <3>3
  <2> QED BY <2>1, <2>2
<1>3. told_off.awaiting \in BOOLEAN
  BY <1>2 DEF Provider
<1> QED BY <1>2, <1>3, ResultIsDiscreet

LEMMA OthersAreDiscreet ==
    ASSUME NEW s \in Idle
    PROVE  /\ Discreet(s, HandleSpeechStopped(s)) /\ Discreet(s, HandleComplaint(s))
           /\ Discreet(s, HandleOtherError(s))
           /\ \A t \in Tools : Discreet(s, HandleFunctionCall(s, t))
           /\ \A r \in Nat \ {0} : Discreet(s, HandleAudioDelta(s, r))
           /\ \A r \in Nat : Discreet(s, HandleResponseDone(s, r))
<1>1. ASSUME NEW u, SameGate(s, u), u.out \in {<<>>, <<[type |-> "session.update"]>>}
      PROVE  Discreet(s, u)
  BY <1>1, TalkIsDiscreet
<1>2. Discreet(s, HandleSpeechStopped(s))
  BY <1>1, FlagsAlone DEF Idle
<1>3. Discreet(s, HandleComplaint(s)) /\ Discreet(s, HandleOtherError(s))
  BY <1>1, OthersAreIndifferent DEF Indifferent
<1>4. ASSUME NEW t \in Tools PROVE Discreet(s, HandleFunctionCall(s, t))
  BY <1>1, ToolIsPassedOn DEF Indifferent
<1>5. ASSUME NEW r \in Nat \ {0} PROVE Discreet(s, HandleAudioDelta(s, r))
  <2> DEFINE u == HandleAudioDelta(s, r)
  <2>1. u = s \/ (SameGate(s, u) /\ u.out = <<>>)
    BY AudioIsPassedOn
  <2> HIDE DEF u
  <2>2. SameGate(s, u) /\ u.out = <<>>
    BY <2>1 DEF Idle, SameGate
  <2>3. Discreet(s, u)
    BY <1>1, <2>2
  <2> QED BY <2>3 DEF u
<1>6. ASSUME NEW r \in Nat PROVE Discreet(s, HandleResponseDone(s, r))
  <2>1. Ends(s, HandleResponseDone(s, r), r)
    BY DoneEnds
  <2> QED BY <2>1 DEF Ends, Discreet
<1> QED BY <1>2, <1>3, <1>4, <1>5, <1>6

LEMMA ConnectionIsDiscreet ==
    ASSUME NEW s \in Idle, NEW t \in Told, Linked(s, t)
    PROVE  /\ s.socket # 0 =>
                 /\ Discreet(s, HandleSessionCreated(s))
                 /\ Discreet(s, MarkReady(s, s.socket))
                 /\ Discreet(s, HandleTerminalError(s))
                 /\ \A normal \in BOOLEAN : Discreet(s, HandleClose(s, normal))
                 /\ Discreet(s, SendSessionUpdate([s EXCEPT !.wire = "open"]))
           /\ s.pending # 0 => Discreet(s, AttemptTimeout(s))
           /\ "ready" \in s.timers /\ s.readyFor = s.socket => Discreet(s, ReadyGrace(s))
           /\ "reconnect" \in s.timers => Discreet(s, ReconnectTimer(s))
           /\ s.promise = "none" => Discreet(s, StartSession(s))
           /\ s.socket # 0 \/ s.stopped => Discreet(s, StopSession(s))
<1>1. s \in Provider /\ s.out = <<>> /\ SameGate(s, s)
  BY DEF Idle, SameGate
<1>2. ASSUME NEW u, SameGate(s, u), u.out \in {<<>>, <<[type |-> "session.update"]>>}
      PROVE  Discreet(s, u)
  BY <1>2, TalkIsDiscreet
<1>3. ASSUME s.socket # 0 PROVE Discreet(s, HandleSessionCreated(s))
  BY <1>2, CreatedArms DEF Idle
<1>4. ASSUME NEW u, ReadyAsks(s, u) PROVE Discreet(s, u)
  BY <1>4 DEF ReadyAsks, Gate, Discreet
<1>5. ASSUME s.socket # 0 PROVE Discreet(s, MarkReady(s, s.socket))
  <2>1. CASE s.ready
    <3>1. MarkReady(s, s.socket) = s
      BY <2>1 DEF MarkReady
    <3> QED BY <1>1, <1>2, <3>1
  <2>2. CASE ~s.ready
    <3>1. ~s.stopped /\ s.pending \in {0, s.socket}
      BY <1>1, <1>5, ConnectedIsOpen
    <3> QED BY <1>4, <2>2, <3>1, ReadyMarks
  <2> QED BY <2>1, <2>2
<1>6. ASSUME NEW u, GivesSocketUp(s, u) PROVE Discreet(s, u)
  BY <1>6 DEF GivesSocketUp, Discreet
<1>7. ASSUME s.socket # 0 PROVE Discreet(s, HandleTerminalError(s))
  <2>1. ~s.stopped /\ ~s.closeEmitted /\ "reconnect" \notin s.timers /\ s.pending \in {0, s.socket}
    BY <1>1, <1>7, ConnectedIsOpen
  <2>2. GivesSocketUp(s, HandleTerminalError(s))
    BY <1>7, <2>1, TerminalGivesUp
  <2> QED BY <1>6, <2>2
<1>8. ASSUME s.socket # 0, NEW normal \in BOOLEAN PROVE Discreet(s, HandleClose(s, normal))
  <2>1. /\ ~s.stopped /\ ~s.closeEmitted /\ ~s.terminal /\ "reconnect" \notin s.timers
        /\ s.pending \in {0, s.socket}
    BY <1>1, <1>8, ConnectedIsOpen
  <2>2. CloseLeaves(s, HandleClose(s, normal))
    BY <1>8, <2>1, CloseLoses
  <2> QED BY <1>8, <2>2 DEF CloseLeaves, Discreet
<1>9. ASSUME s.socket # 0 PROVE Discreet(s, SendSessionUpdate([s EXCEPT !.wire = "open"]))
  BY <1>2, <1>9, OpenSendsUpdate
<1>10. ASSUME s.pending # 0 PROVE Discreet(s, AttemptTimeout(s))
  <2>1. /\ ~s.terminal /\ s.socket \in {0, s.pending}
        /\ (s.socket = 0 <=> s.wire = "none") /\ (s.ready => s.socket # 0)
        /\ ~s.stopped => ~s.closeEmitted /\ "reconnect" \notin s.timers
    BY <1>10 DEF Linked, Sockets, Endings
  <2>2. GivesSocketUp(s, AttemptTimeout(s))
    BY <1>10, <2>1, TimeoutGivesUp
  <2> QED BY <1>6, <2>2
<1>11. ASSUME "ready" \in s.timers, s.readyFor = s.socket PROVE Discreet(s, ReadyGrace(s))
  <2> DEFINE u == ReadyGrace(s)
  <2>1. s.socket # 0
    BY <1>1, <1>11 DEF Linked, Sockets, Provider
  <2>2. ~s.stopped /\ s.pending \in {0, s.socket}
    BY <1>1, <2>1, ConnectedIsOpen
  <2>3. ReadyAsks(s, u) \/ u = Disarm(s, {"ready"})
    BY <1>11, <2>2, GraceMarks
  <2>4. CASE u = Disarm(s, {"ready"})
    <3>1. SameGate(s, u) /\ u.out = <<>>
      BY <1>1, <2>4 DEF Provider, Disarm, SameGate
    <3> HIDE DEF u
    <3>2. Discreet(s, u)
      BY <1>2, <3>1
    <3> QED BY <3>2 DEF u
  <2>5. CASE ReadyAsks(s, u)
    BY <1>4, <2>5
  <2> QED BY <2>3, <2>4, <2>5
<1>12. ASSUME NEW u, Opens(s, u) PROVE Discreet(s, u)
  BY <1>2, <1>12 DEF Opens
<1>13. ASSUME "reconnect" \in s.timers PROVE Discreet(s, ReconnectTimer(s))
  <2>1. ~s.stopped
    BY <1>13 DEF Linked, Endings
  <2> QED BY <1>12, <2>1, OpeningOpens
<1>14. ASSUME s.promise = "none" PROVE Discreet(s, StartSession(s))
  <2>1. "reconnect" \notin s.timers
    BY <1>14 DEF Linked, PromiseKept
  <2> QED BY <1>12, <2>1, OpeningOpens
<1>15. ASSUME s.socket # 0 \/ s.stopped PROVE Discreet(s, StopSession(s))
  <2>1. CASE s.stopped
    <3>1. StopSession(s) = s
      BY <2>1 DEF StopSession
    <3> QED BY <1>1, <1>2, <3>1
  <2>2. CASE ~s.stopped
    <3>1. Stops(s, StopSession(s))
      BY <2>2, StopStops
    <3> QED BY <1>15, <2>2, <3>1 DEF Stops, Discreet
  <2> QED BY <2>1, <2>2
<1> QED BY <1>3, <1>5, <1>7, <1>8, <1>9, <1>10, <1>11, <1>13, <1>14, <1>15

\* Nothing is to begin when the response that runs is the one the provider hears.
LEMMA NothingBegins ==
    ASSUME NEW s \in Provider, NEW n \in Net, NEW k, InOrder(s, n, k),
           s.active # 0, n.active = s.active
    PROVE  ~Coming(n, "response.created")
<1> SUFFICES ASSUME NEW i \in DOMAIN n.inbox, n.inbox[i].type = "response.created" PROVE FALSE
  BY DEF Coming
<1>1. s.active < n.inbox[i].response /\ n.inbox[i].response \in 1..n.made
  BY DEF InOrder, Heeded, IsAhead, InTurn, Numbered
<1>2. n.active \in {0, n.made} /\ n.made \in Nat
  BY DEF InOrder, InTurn, Net
<1> QED BY <1>1, <1>2

LEMMA BeginsAlone ==
    ASSUME NEW n \in Net, InTurn(n), n.inbox # <<>>, NEW r \in Nat \ {0},
           Head(n.inbox) = Begun(r), n.active = r
    PROVE  ~Coming([n EXCEPT !.inbox = Tail(@)], "response.created")
<1> DEFINE m == [n EXCEPT !.inbox = Tail(@)]
<1>1. /\ InTurn(m) /\ m.made = n.made
      /\ \A i \in DOMAIN m.inbox : Follows(Begun(r), m.inbox[i])
  BY RestIsInTurn
<1>2. n.active \in {0, n.made} /\ n.made \in Nat
  BY DEF InTurn, Net
<1> HIDE DEF m
<1> SUFFICES ASSUME NEW i \in DOMAIN m.inbox, m.inbox[i].type = "response.created" PROVE FALSE
  BY DEF Coming, m
<1>3. m.inbox[i].response \in 1..n.made
  BY <1>1 DEF InTurn, Numbered
<1>4. r < m.inbox[i].response
  <2> DEFINE b == Begun(r)
  <2>1. b.type = "response.created" /\ b.response = r
    BY DEF Begun
  <2>2. Follows(b, m.inbox[i])
    BY <1>1
  <2> HIDE DEF b
  <2> QED BY <2>1, <2>2 DEF Follows, Numbered
<1> QED BY <1>2, <1>3, <1>4

LEMMA HandledPolite ==
    ASSUME LinkInv, StaysSilent, AwaitsItsTurn, HandleNext
    PROVE  AwaitsItsTurn'
<1> DEFINE e == Head(net.inbox)
           u == Handle(e)
           n == [net EXCEPT !.inbox = Tail(@)]
           m == FoldLeft(NetTakes, n, u.out)
           k == call.silenced
<1>1. /\ p \in Idle /\ p \in Provider /\ told \in Told /\ Linked(p, told) /\ net \in Net
      /\ InOrder(p, net, k)
  BY DEF LinkInv, Attuned, Idle, StaysSilent
<1>2. p.socket # 0 /\ net.inbox # <<>> /\ Apply(u, n, line, call)
  BY DEF HandleNext
<1>3. /\ n \in Net /\ e \in Event
      /\ n.wants = net.wants /\ n.active = net.active /\ n.collided = net.collided
  BY <1>1, <1>2, PushKeeps DEF Net
<1>4. /\ \A type : Coming(n, type) => Coming(net, type)
      /\ Coming(net, e.type)
  <2>1. net.inbox \in Seq(Event) /\ n.inbox = Tail(net.inbox)
    BY <1>1 DEF Net
  <2>2. /\ \A i \in DOMAIN n.inbox : i + 1 \in DOMAIN net.inbox /\ n.inbox[i] = net.inbox[i + 1]
        /\ 1 \in DOMAIN net.inbox /\ net.inbox[1] = e
    BY <1>2, <2>1, Rest
  <2> HIDE DEF n, e
  <2> QED BY <2>2 DEF Coming
<1>5. Polite(n, p.awaiting)
  BY <1>3, <1>4 DEF AwaitsItsTurn, Polite
<1>6. \/ e.type \in {"session.created", "session.updated", "speech_started",
                     "speech_stopped", "conflict", "terminal", "complaint", "error"}
      \/ \E r \in Nat \ {0} : e = Begun(r)
      \/ \E r \in Nat \ {0} : e = Piece(r)
      \/ e.type = "response.done" /\ e.response \in Nat \ {0}
      \/ e.type = "tool" /\ e.tool \in Tools
      \/ e.type = "close" /\ e.normal \in BOOLEAN
  BY <1>3 DEF Event, Plain, AboutResponse, AboutTool, Begun, Piece
<1> HIDE DEF n
<1>7. ASSUME Settles(p, told, u), Discreet(p, u) PROVE AwaitsItsTurn'
  <2> HIDE DEF u
  <2> QED BY <1>2, <1>3, <1>5, <1>7, DiscreetPolite
<1>8. ASSUME Settles(p, told, u), u.socket = p.socket => Polite(m, u.awaiting)
      PROVE  AwaitsItsTurn'
  <2> HIDE DEF u
  <2> QED BY <1>2, <1>3, <1>8, ApplyPolite
<1>9. /\ FoldLeft(NetTakes, n, <<>>) = n
      /\ \A r : FoldLeft(NetTakes, n, Cancellation(r)) =
                    NetTakes(n, [type |-> "response.cancel", response |-> r])
  BY ServerTakes DEF Cancellation
<1> HIDE DEF e
<1>10. CASE e.type \in {"session.created", "session.updated", "terminal"}
  BY <1>1, <1>2, <1>7, <1>10, ConnectionSettles, ConnectionIsDiscreet DEF Handle
<1>11. CASE e.type \in {"speech_stopped", "complaint", "error"}
  BY <1>1, <1>2, <1>7, <1>11, SpeechSettles, OthersAreDiscreet DEF Handle
<1>12. CASE e.type = "tool" /\ e.tool \in Tools
  BY <1>1, <1>2, <1>7, <1>12, SpeechSettles, OthersAreDiscreet DEF Handle
<1>13. CASE e.type = "close" /\ e.normal \in BOOLEAN
  BY <1>1, <1>2, <1>7, <1>13, ConnectionSettles, ConnectionIsDiscreet DEF Handle
<1>14. CASE e.type = "response.done" /\ e.response \in Nat \ {0}
  BY <1>1, <1>2, <1>7, <1>14, SpeechSettles, OthersAreDiscreet DEF Handle
<1>15. ASSUME NEW r \in Nat \ {0}, e = Piece(r) PROVE AwaitsItsTurn'
  <2>1. u = HandleAudioDelta(p, r)
    BY <1>15 DEF Handle, Piece
  <2> QED BY <1>1, <1>2, <1>7, <2>1, SpeechSettles, OthersAreDiscreet
<1>16. CASE e.type = "conflict"
  <2>1. u = HandleConflict(p)
    BY <1>16 DEF Handle
  <2>2. Settles(p, told, u) /\ u.out = <<>> /\ ~u.awaiting
    BY <1>1, <1>2, <2>1, SpeechSettles, ConflictQueues
  <2>3. n.collided
    BY <1>3, <1>4, <1>16 DEF AwaitsItsTurn, Polite
  <2>4. m = n
    BY <1>9, <2>2
  <2> HIDE DEF u, m
  <2>5. Polite(m, u.awaiting)
    BY <1>5, <2>3, <2>4 DEF Polite
  <2> QED BY <1>8, <2>2, <2>5 DEF m, u
<1>17. CASE e.type = "speech_started"
  <2>1. u = HandleSpeechStarted(p)
    BY <1>17 DEF Handle
  <2>2. Settles(p, told, u) /\ Yields(p, u)
    BY <1>1, <1>2, <2>1, SpeechSettles, SpeechYields
  <2> HIDE DEF u
  <2>3. u.awaiting = p.awaiting /\ u.awaiting \in BOOLEAN
    BY <1>1, <2>2 DEF Yields, Provider
  <2>4. CASE u.out = <<>>
    <3>1. m = n
      BY <1>9, <2>4
    <3> QED BY <1>5, <1>8, <2>2, <2>3, <3>1 DEF u
  <2>5. CASE p.active # 0 /\ u.out = Cancellation(p.active)
    <3>1. m = NetTakes(n, [type |-> "response.cancel", response |-> p.active])
      BY <1>9, <2>5
    <3>2. p.active \in Nat \ {0}
      BY <1>1, <2>5 DEF Provider
    <3>3. n.active = p.active => ~Coming(n, "response.created")
      BY <1>1, <1>3, <1>4, <2>5, NothingBegins
    <3>4. Polite(m, u.awaiting)
      BY <1>3, <1>5, <2>3, <3>1, <3>2, <3>3, TakenPolite
    <3> QED BY <1>8, <2>2, <3>4 DEF u
  <2> QED BY <2>2, <2>4, <2>5 DEF Yields
<1>18. ASSUME NEW r \in Nat \ {0}, e = Begun(r) PROVE AwaitsItsTurn'
  <2>1. u = HandleResponseCreated(p, r)
    BY <1>18 DEF Handle, Begun
  <2>2. Settles(p, told, u) /\ Begins(p, u, r)
    BY <1>1, <1>2, <2>1, SpeechSettles, CreatedBegins
  <2> HIDE DEF u
  <2>3. u.awaiting = FALSE /\ u.out \in {<<>>, Cancellation(r)}
    <3>1. u.awaiting \in BOOLEAN
      BY <2>2 DEF Begins, Provider
    <3> QED BY <2>2, <3>1 DEF Begins
  <2>4. net.active # 0 /\ net.wants = 0
    <3>1. e.type = "response.created"
      BY <1>18 DEF Begun
    <3>2. net.active # 0 /\ net.wants \in Nat
      BY <1>1, <1>4, <3>1 DEF AwaitsItsTurn, Polite, Net
    <3> QED BY <3>2 DEF AwaitsItsTurn, Polite
  <2>5. Polite(n, FALSE)
    BY <1>3, <1>5, <2>4 DEF Polite
  <2>6. CASE u.out = <<>>
    <3>1. m = n
      BY <1>9, <2>6
    <3> QED BY <1>8, <2>2, <2>3, <2>5, <3>1 DEF u
  <2>7. CASE u.out = Cancellation(r)
    <3>1. m = NetTakes(n, [type |-> "response.cancel", response |-> r])
      BY <1>9, <2>7
    <3>2. n.active = r => ~Coming(n, "response.created")
      BY <1>1, <1>2, <1>3, <1>18, BeginsAlone DEF InOrder, e, n
    <3>3. Polite(m, u.awaiting)
      BY <1>3, <2>3, <2>5, <3>1, <3>2, TakenPolite
    <3> QED BY <1>8, <2>2, <3>3 DEF u
  <2> QED BY <2>3, <2>6, <2>7
<1> QED BY <1>6, <1>10, <1>11, <1>12, <1>13, <1>14, <1>15, <1>16, <1>17, <1>18

LEMMA SocketStepPolite ==
    ASSUME LinkInv, AwaitsItsTurn, SocketOpens \/ \E normal \in BOOLEAN : SocketLost(normal)
    PROVE  AwaitsItsTurn'
<1>1. /\ p \in Idle /\ p \in Provider /\ told \in Told /\ Linked(p, told) /\ net \in Net
  BY DEF LinkInv, Attuned, Idle
<1>2. ASSUME NEW e \in Event, e.type \notin {"response.created", "conflict"}
      PROVE  Polite(Push(net, e), p.awaiting) /\ Push(net, e).wants = net.wants
  <2>1. Polite(Push(net, e), p.awaiting)
    BY <1>1, <1>2, PushPolite DEF AwaitsItsTurn
  <2> QED BY <1>1, <2>1 DEF Push, Net
<1>3. CASE SocketOpens
  <2> DEFINE u == SendSessionUpdate([p EXCEPT !.wire = "open"])
             e == [type |-> "session.created"]
             n == Push(net, e)
  <2>1. p.socket # 0
    BY <1>1, <1>3 DEF SocketOpens, Linked, Sockets
  <2>2. Settles(p, told, u) /\ Discreet(p, u)
    BY <1>1, <2>1, ConnectionSettles, ConnectionIsDiscreet
  <2>3. e \in Event /\ e.type \notin {"response.created", "conflict"}
    BY Occurrences
  <2>4. Apply(u, n, line, call)
    BY <1>3 DEF SocketOpens
  <2> HIDE DEF u, e
  <2>5. n \in Net /\ Polite(n, p.awaiting)
    BY <1>1, <1>2, <2>3, PushKeeps
  <2> HIDE DEF n
  <2> QED BY <2>1, <2>2, <2>4, <2>5, DiscreetPolite
<1>4. ASSUME NEW normal \in BOOLEAN, SocketLost(normal) PROVE AwaitsItsTurn'
  <2> DEFINE e == [type |-> "close", normal |-> normal]
  <2>1. e \in Event /\ e.type \notin {"response.created", "conflict"}
    BY Occurrences
  <2>2. p' = [p EXCEPT !.wire = "closing"] /\ net' = Push(net, e)
    BY <1>4 DEF SocketLost
  <2> HIDE DEF e
  <2>3. p'.awaiting = p.awaiting /\ p'.socket = p.socket
    BY <1>1, <2>2 DEF Provider
  <2> QED BY <1>2, <2>1, <2>2, <2>3 DEF AwaitsItsTurn
<1> QED BY <1>3, <1>4

\* The server goes on.
LEMMA ServerStepPolite ==
    ASSUME Timely, LinkInv, AwaitsItsTurn, Server
    PROVE  AwaitsItsTurn'
<1> DEFINE a == p.awaiting
<1>1. net \in Net /\ (p.wire = "open" => p.socket # 0) /\ Polite(net, a)
  BY DEF LinkInv, Attuned, Linked, Sockets, AwaitsItsTurn
<1>2. p' = p
  BY DEF Server, ServerEchoes, AccountRefused, ServerAnswers, ServerSpeaks, ServerCallsTool,
         ServerFinishes, CallerHeard, CallerQuiet, ServerOnly
<1>3. Serving
  BY DEF Server, ServerEchoes, AccountRefused, ServerAnswers, ServerSpeaks, ServerCallsTool,
         ServerFinishes, CallerHeard, CallerQuiet
<1>4. p'.socket # 0
  BY <1>1, <1>2, <1>3 DEF Serving
<1> HIDE DEF a
<1>5. ASSUME Polite(net', a) PROVE AwaitsItsTurn'
  BY <1>2, <1>4, <1>5 DEF AwaitsItsTurn, a
<1>6. ASSUME NEW n \in Net, n.wants = net.wants, n.active = net.active,
             n.collided = net.collided, n.inbox = net.inbox
      PROVE  /\ Polite(n, a)
             /\ \A e \in Event : e.type \notin {"response.created", "conflict"}
                                    => Polite(Push(n, e), a)
  BY <1>1, <1>6, PushPolite
<1>7. Endable => net.active # 0 /\ ~Coming(net, "response.created")
  BY DEF Endable, Timely, InFlight, Coming
<1>8. CASE ServerEchoes
  <2> DEFINE n == [net EXCEPT !.owes = FALSE]
             e == [type |-> "session.updated"]
             f == [type |-> "complaint"]
  <2>1. /\ n \in Net /\ n.wants = net.wants /\ n.active = net.active
        /\ n.collided = net.collided /\ n.inbox = net.inbox
    BY <1>1 DEF Net
  <2>2. net' = Push(n, e) \/ net' = Push(n, f) \/ net' = n
    BY <1>8 DEF ServerEchoes, ServerOnly
  <2>3. /\ e \in Event /\ e.type \notin {"response.created", "conflict"}
        /\ f \in Event /\ f.type \notin {"response.created", "conflict"}
    BY Occurrences
  <2> HIDE DEF n, e, f
  <2> QED BY <1>5, <1>6, <2>1, <2>2, <2>3
<1>9. CASE AccountRefused
  <2> DEFINE e == [type |-> "terminal"]
  <2>1. net' = Push(net, e)
    BY <1>9 DEF AccountRefused, ServerOnly
  <2>2. e \in Event /\ e.type \notin {"response.created", "conflict"}
    BY Occurrences
  <2> HIDE DEF e
  <2> QED BY <1>1, <1>5, <1>6, <2>1, <2>2
<1>10. CASE ServerAnswers
  <2> DEFINE n == [net EXCEPT !.wants = @ - 1]
             e == [type |-> "error"]
  <2>1. net.wants > 0 /\ net.wants - 1 \in Nat
    BY <1>1, <1>10 DEF ServerAnswers, Net
  <2>2. /\ n \in Net /\ n.wants = net.wants - 1 /\ n.active = net.active
        /\ n.collided = net.collided /\ n.inbox = net.inbox
    BY <1>1, <2>1 DEF Net
  <2>3. net' = NewResponse(n) \/ net' = Push(n, e)
    BY <1>10 DEF ServerAnswers, ServerOnly
  <2>4. e \in Event /\ e.type \notin {"response.created", "conflict"}
    BY Occurrences
  <2> HIDE DEF n, e
  <2>5. Polite(n, a) /\ n.active = 0
    <3>1. net.active = 0 /\ net.wants \in Nat
      BY <1>1, <2>1 DEF Polite, Net
    <3> QED BY <1>1, <2>1, <2>2, <3>1 DEF Polite, Coming
  <2>6. Polite(NewResponse(n), a)
    BY <2>2, <2>5, NewPolite
  <2>7. Polite(Push(n, e), a)
    BY <2>2, <2>4, <2>5, PushPolite
  <2> QED BY <1>5, <2>3, <2>6, <2>7
<1>11. CASE ServerSpeaks
  <2> DEFINE n == [net EXCEPT !.deltas = @ + 1]
             e == Piece(net.active)
  <2>1. net.active \in Nat \ {0} /\ net.deltas + 1 \in Nat
    BY <1>1, <1>11 DEF ServerSpeaks, Net
  <2>2. /\ n \in Net /\ n.wants = net.wants /\ n.active = net.active
        /\ n.collided = net.collided /\ n.inbox = net.inbox
    BY <1>1, <2>1 DEF Net
  <2>3. net' = Push(n, e)
    BY <1>11 DEF ServerSpeaks, ServerOnly, Piece
  <2>4. e \in Event /\ e.type \notin {"response.created", "conflict"}
    BY <2>1, Occurrences DEF Piece
  <2> HIDE DEF n, e
  <2> QED BY <1>5, <1>6, <2>2, <2>3, <2>4
<1>12. CASE ServerCallsTool
  <2>1. PICK t \in Tools : net' = Push(net, [type |-> "tool", tool |-> t])
    BY <1>12 DEF ServerCallsTool
  <2> DEFINE e == [type |-> "tool", tool |-> t]
  <2>2. e \in Event /\ e.type \notin {"response.created", "conflict"}
    BY Occurrences
  <2>3. net' = Push(net, e)
    BY <2>1
  <2> HIDE DEF e
  <2> QED BY <1>1, <1>5, <1>6, <2>2, <2>3
<1>13. CASE ServerFinishes
  <2>1. Polite(EndResponse(net), a)
    BY <1>1, <1>7, <1>13, EndPolite DEF ServerFinishes
  <2> QED BY <1>5, <1>13, <2>1 DEF ServerFinishes, ServerOnly
<1>14. CASE CallerHeard
  <2> DEFINE n == [net EXCEPT !.hearing = TRUE]
             e == [type |-> "speech_started"]
             h == Push(n, e)
  <2>1. /\ n \in Net /\ n.wants = net.wants /\ n.active = net.active
        /\ n.collided = net.collided /\ n.inbox = net.inbox
    BY <1>1 DEF Net
  <2>2. net' = IF Endable THEN EndResponse(h) ELSE h
    BY <1>14 DEF CallerHeard
  <2>3. e \in Event /\ e.type \notin {"response.created", "conflict"}
    BY Occurrences
  <2> HIDE DEF n, e
  <2>4. h \in Net /\ h.active = net.active
    BY <2>1, <2>3, PushKeeps DEF Push, Net
  <2>5. Polite(h, a)
    BY <1>6, <2>1, <2>3
  <2>6. Coming(h, "response.created") <=> Coming(net, "response.created")
    <3>1. Coming(h, "response.created") <=> Coming(n, "response.created")
      BY <2>1, <2>3, ComingMore
    <3> QED BY <2>1, <3>1 DEF Coming
  <2> HIDE DEF h
  <2>7. CASE Endable
    <3>1. Polite(EndResponse(h), a)
      BY <1>7, <2>4, <2>5, <2>6, <2>7, EndPolite
    <3> QED BY <1>5, <2>2, <2>7, <3>1
  <2>8. CASE ~Endable
    BY <1>5, <2>2, <2>5, <2>8
  <2> QED BY <2>7, <2>8
<1>15. CASE CallerQuiet
  <2> DEFINE n == [net EXCEPT !.hearing = FALSE]
             e == [type |-> "speech_stopped"]
             q == Push(n, e)
  <2>1. /\ n \in Net /\ n.wants = net.wants /\ n.active = net.active
        /\ n.collided = net.collided /\ n.inbox = net.inbox
    BY <1>1 DEF Net
  <2>2. (net.active = 0 /\ net' = NewResponse(q)) \/ net' = q
    BY <1>15 DEF CallerQuiet, ServerOnly
  <2>3. e \in Event /\ e.type \notin {"response.created", "conflict"}
    BY Occurrences
  <2> HIDE DEF n, e
  <2>4. q \in Net /\ q.active = net.active
    BY <2>1, <2>3, PushKeeps DEF Push, Net
  <2>5. Polite(q, a)
    BY <1>6, <2>1, <2>3
  <2> HIDE DEF q
  <2>6. net.active = 0 => Polite(NewResponse(q), a)
    BY <2>4, <2>5, NewPolite
  <2> QED BY <1>5, <2>2, <2>5, <2>6
<1> QED BY <1>8, <1>9, <1>10, <1>11, <1>12, <1>13, <1>14, <1>15 DEF Server

\* A timer fires.
LEMMA StepPolite ==
    ASSUME LinkInv, AwaitsItsTurn, NEW u, Settles(p, told, u), Discreet(p, u),
           NEW l, NEW c, Apply(u, net, l, c)
    PROVE  AwaitsItsTurn'
<1>1. net \in Net /\ Polite(net, p.awaiting) /\ (p.socket = 0 => net.wants = 0)
  BY DEF LinkInv, Attuned, AwaitsItsTurn
<1> QED BY <1>1, DiscreetPolite

LEMMA TimerStepPolite ==
    ASSUME Timely, LinkInv, AwaitsItsTurn, "late_grace" \notin Mishaps, Timer
    PROVE  AwaitsItsTurn'
<1>1. p \in Idle /\ p \in Provider /\ told \in Told /\ Linked(p, told) /\ net \in Net
  BY DEF LinkInv, Attuned, Idle
<1>2. ASSUME NEW u, Settles(p, told, u), Discreet(p, u), Step(u) PROVE AwaitsItsTurn'
  BY <1>2, StepPolite DEF Step
<1>3. CASE AttemptTimesOut
  BY <1>1, <1>2, <1>3, ConnectionSettles, ConnectionIsDiscreet DEF AttemptTimesOut
<1>4. CASE GraceFires
  BY <1>1, <1>2, <1>4, ConnectionSettles, ConnectionIsDiscreet DEF GraceFires
<1>5. CASE ReconnectFires
  BY <1>1, <1>2, <1>5, ConnectionSettles, ConnectionIsDiscreet DEF ReconnectFires
<1>6. CASE ResponseFires
  <2> DEFINE u == ResponseTimer(p)
             m == FoldLeft(NetTakes, net, u.out)
  <2>1. Settles(p, told, u) /\ Apply(u, net, line, call)
    BY <1>1, <1>6, TimersSettle DEF ResponseFires, Step
  <2>2. /\ u \in Provider /\ SameLink(p, u)
        /\ u.out = <<>> \/ (u.out = <<Creation>> /\ u.awaiting /\ p.wire = "open")
    BY <1>1, ResponseTimerAsks
  <2>3. FoldLeft(NetTakes, net, <<>>) = net
        /\ FoldLeft(NetTakes, net, <<Creation>>) = NetTakes(net, Creation)
    BY ServerTakes
  <2>4. net.wants = 0
    BY <1>1, <1>6 DEF ResponseFires, Timely, Net
  <2>5. p.wire = "open" => p.socket # 0
    BY <1>1 DEF Linked, Sockets
  <2> HIDE DEF u
  <2>6. Polite(net, FALSE) /\ Polite(net, u.awaiting)
    BY <2>4 DEF AwaitsItsTurn, Polite
  <2>7. CASE u.out = <<>>
    <3>1. m = net
      BY <2>3, <2>7
    <3> QED BY <1>1, <2>1, <2>4, <2>6, <3>1, ApplyPolite
  <2>8. CASE u.out = <<Creation>> /\ u.awaiting /\ p.wire = "open"
    <3>1. m = NetTakes(net, Creation)
      BY <2>3, <2>8
    <3>2. u.awaiting = TRUE
      BY <2>2, <2>8 DEF Provider
    <3>3. Polite(m, u.awaiting)
      BY <1>1, <2>6, <3>1, <3>2, TakenPolite
    <3> QED BY <1>1, <2>1, <2>5, <2>8, <3>3, ApplyPolite
  <2> QED BY <2>2, <2>7, <2>8
<1>7. CASE FillerFires
  BY <1>1, <1>2, <1>7, TimersSettle, TimersAreDiscreet DEF FillerFires
<1>8. CASE RecoveryFires
  BY <1>1, <1>2, <1>8, TimersSettle, TimersAreDiscreet DEF RecoveryFires
<1>9. CASE HorizonPasses
  BY <1>1, <1>2, <1>9, TimersSettle, TimersAreDiscreet DEF HorizonPasses
<1> QED BY <1>3, <1>4, <1>5, <1>6, <1>7, <1>8, <1>9 DEF Timer

LEMMA SpokenStepPolite ==
    ASSUME LinkInv, AwaitsItsTurn,
           Launch \/ SayLine \/ ToolReturns \/ EndCallTool \/ GuardGoodbye
    PROVE  AwaitsItsTurn'
<1>1. p \in Idle /\ told \in Told /\ Linked(p, told) /\ call \in Call
  BY DEF LinkInv, Attuned
<1>2. CASE Launch
  BY <1>1, <1>2, ConnectionSettles, ConnectionIsDiscreet, StepPolite DEF Launch, Step
<1>3. Settles(p, told, Say(p)) /\ Discreet(p, Say(p))
  BY <1>1, TimersSettle, TimersAreDiscreet
<1>4. CASE SayLine
  <2>1. UNCHANGED <<p, net>> \/ \E c : Apply(Say(p), net, line, c)
    BY <1>4 DEF SayLine
  <2>2. CASE UNCHANGED <<p, net>>
    BY <2>2 DEF AwaitsItsTurn
  <2> QED BY <1>3, <2>1, <2>2, StepPolite
<1>5. CASE ToolReturns
  <2>1. PICK t \in call.running \ {EndCall} :
             Apply(SendToolResult(p, t), net, line, [call EXCEPT !.running = @ \ {t}])
    BY <1>5 DEF ToolReturns
  <2>2. t \in Tools
    BY <1>1 DEF Call
  <2>3. Settles(p, told, SendToolResult(p, t)) /\ Discreet(p, SendToolResult(p, t))
    BY <1>1, <2>2, ResultSettles, TimersAreDiscreet DEF Idle
  <2> QED BY <2>1, <2>3, StepPolite
<1>6. CASE EndCallTool
  <2> DEFINE deaf == IF Talking THEN SuppressBargeIn(p) ELSE p
             spoken == Talking /\ line.frames = <<>>
             told_off == IF spoken /\ "vendor" \notin Mishaps THEN Say(deaf) ELSE deaf
             l == IF spoken /\ "vendor" \in Mishaps THEN FixedLine(line) ELSE line
             u == SendToolResult(told_off, EndCall)
  <2>1. EndCall \in Tools
    BY <1>1, <1>6 DEF EndCallTool, Call
  <2>2. deaf \in {p, SuppressBargeIn(p)}
    OBVIOUS
  <2>3. told_off \in {deaf, Say(deaf)}
    OBVIOUS
  <2>4. Apply(u, net, l, Closing(call))
    BY <1>6 DEF EndCallTool
  <2> HIDE DEF deaf, told_off, l
  <2>5. Settles(p, told, u) /\ Discreet(p, u)
    BY <1>1, <2>1, <2>2, <2>3, FarewellSettles, FarewellIsDiscreet
  <2> HIDE DEF u
  <2> QED BY <2>4, <2>5, StepPolite
<1>7. CASE GuardGoodbye
  <2>1. Apply(Say(p), net, line, Closing(call))
    BY <1>7 DEF GuardGoodbye
  <2> QED BY <1>3, <2>1, StepPolite
<1> QED BY <1>2, <1>4, <1>5, <1>6, <1>7

LEMMA OverPolite ==
    ASSUME LinkInv, AwaitsItsTurn, p.promise # "none", Over
    PROVE  AwaitsItsTurn'
<1> DEFINE u == StopSession(p)
           l == MarkClosed(line)
           c == [call EXCEPT !.over = TRUE]
           m == FoldLeft(NetTakes, net, u.out)
<1>1. p \in Idle /\ told \in Told /\ Linked(p, told) /\ net \in Net
  BY DEF LinkInv, Attuned
<1>2. Apply(u, net, l, c)
  BY DEF Over
<1>3. Settles(p, told, u)
  BY <1>1, ConnectionSettles
<1>4. CASE p.socket # 0 \/ p.stopped
  <2>1. Discreet(p, u)
    BY <1>1, <1>4, ConnectionIsDiscreet
  <2> HIDE DEF u, l, c
  <2> QED BY <1>2, <1>3, <2>1, StepPolite
<1>5. CASE p.socket = 0 /\ ~p.stopped
  <2>1. u.out = <<>> /\ ~u.awaiting
    BY <1>1, <1>5, StopStops DEF Falls
  <2>2. FoldLeft(NetTakes, net, <<>>) = net
    BY ServerTakes
  <2> HIDE DEF u, l, c
  <2>3. m = net
    BY <2>1, <2>2
  <2>4. net.wants = 0
    BY <1>5 DEF AwaitsItsTurn
  <2>5. Polite(net, u.awaiting)
    BY <2>4 DEF AwaitsItsTurn, Polite
  <2> QED BY <1>1, <1>2, <1>3, <2>3, <2>4, <2>5, ApplyPolite
<1> QED BY <1>4, <1>5

LEMMA QuietStepPolite ==
    ASSUME LinkInv, AwaitsItsTurn,
           Attach \/ AwaitFarewell \/ FarewellTimesOut \/ HangUp \/ CallerLeaves \/ PlayFrame
    PROVE  AwaitsItsTurn'
<1>1. Linked(p, told) /\ Unlaunched(p, call)
  BY DEF LinkInv
<1>2. CASE Attach \/ AwaitFarewell \/ FarewellTimesOut \/ PlayFrame
  <2>1. UNCHANGED <<p, net>>
    BY <1>2 DEF Attach, AwaitFarewell, FarewellTimesOut, PlayFrame
  <2> QED BY <2>1 DEF AwaitsItsTurn
<1>3. CASE HangUp
  <2>1. call.farewell = "draining" \/ told.close > 0 \/ p.promise = "broken"
    BY <1>3 DEF HangUp
  <2>2. p.promise # "none"
    BY <1>1, <2>1 DEF Unlaunched, Linked, PromiseKept, Witnessed
  <2> QED BY <1>3, <2>2, OverPolite DEF HangUp
<1>4. CASE CallerLeaves
  BY <1>4, OverPolite DEF CallerLeaves
<1> QED BY <1>2, <1>3, <1>4

LEMMA RequestInit == Init => AwaitsItsTurn
<1> SUFFICES ASSUME Init PROVE AwaitsItsTurn
  OBVIOUS
<1>1. net.wants = 0 /\ net.inbox = <<>>
  BY DEF Init, NewNet
<1>2. DOMAIN net.inbox = {}
  BY <1>1
<1> QED BY <1>1, <1>2 DEF AwaitsItsTurn, Polite, Coming

LEMMA RequestStep ==
    ASSUME Punctual, Timely, LinkInv, StaysSilent, AwaitsItsTurn, [Next]_vars
    PROVE  AwaitsItsTurn'
<1>1. CASE SocketOpens \/ \E normal \in BOOLEAN : SocketLost(normal)
  BY <1>1, SocketStepPolite
<1>2. CASE Server
  BY <1>2, ServerStepPolite
<1>3. CASE HandleNext
  BY <1>3, HandledPolite
<1>4. CASE Timer
  BY <1>4, TimerStepPolite DEF Punctual
<1>5. CASE Orchestrator
  BY <1>5, SpokenStepPolite, QuietStepPolite DEF Orchestrator
<1>6. CASE UNCHANGED vars
  BY <1>6 DEF vars, AwaitsItsTurn
<1> QED BY <1>1, <1>2, <1>3, <1>4, <1>5, <1>6 DEF Next

\* Two requests for a response do not cross: the server holds one of ours at the
\* most, unless one has met a response the server began of itself, whatever asks
\* for the next one: a turn of the caller's, the result of a tool, a line of the
\* platform's, a timer, or the session becoming ready again (requestResponse,
\* flushPendingResponse, handleResponseCreated, handleErrorEvent).
THEOREM OneRequestOnly == Punctual /\ Timely => (Spec => []OneRequestAtATime)
<1> SUFFICES ASSUME Punctual, Timely PROVE Spec => []OneRequestAtATime
  OBVIOUS
<1>1. Init => LinkInv /\ StaysSilent /\ AwaitsItsTurn
  BY LinkInit, SilenceInit, RequestInit
<1>2. LinkInv /\ StaysSilent /\ AwaitsItsTurn /\ [Next]_vars
         => (LinkInv /\ StaysSilent /\ AwaitsItsTurn)'
  BY LinkStep, SilenceStep, RequestStep DEF LinkKept
<1>3. AwaitsItsTurn => OneRequestAtATime
  BY DEF AwaitsItsTurn, Polite, OneRequestAtATime
<1> QED BY <1>1, <1>2, <1>3, PTL DEF Spec

-------------------------------------------------------------------------------
(***************************************************************************)
(* The turn that waits.                                                    *)
(***************************************************************************)

Done(r) == [type |-> "response.done", response |-> r]

\* A turn that waits has a timer, or a response to wait for.
Patient(s) ==
    /\ s.active # 0 => ~s.awaiting
    /\ s.queued /\ ~s.closeEmitted => "response" \in s.timers \/ s.active # 0
    /\ s.ready => s.pending = 0

\* Response r runs at the server, or its end is on its way.
Ending(n, r) == n.active = r \/ \E i \in DOMAIN n.inbox : n.inbox[i] = Done(r)

Due(n) == \A i \in DOMAIN n.inbox :
              n.inbox[i].type = "response.created" => Ending(n, n.inbox[i].response)

Bound(s, n) == s.active # 0 /\ ~s.closeEmitted => s.socket # 0 /\ Ending(n, s.active)

\* Nothing is heard on a socket before its session.created.
Fresh(s) == s.pending # 0 /\ ~s.stopped /\ "ready" \notin s.timers

Unmoved(n) == n.active = 0 /\ n.inbox = <<>>

Opening(n) == n.inbox # <<>> /\ n.inbox[1].type \in {"session.created", "close"}

Greeted(s, n) ==
    Fresh(s) => s.active = 0 /\ IF s.wire = "dialling" THEN Unmoved(n) ELSE Opening(n)

\* A request is held only while nothing is spoken.
Vacant(n) == n.wants > 0 => n.active = 0

\* What is kept of the turn, by the provider s and the server n.
Kept(s, n) == Patient(s) /\ Bound(s, n) /\ Due(n) /\ Vacant(n) /\ Greeted(s, n)

TurnIsKept == Kept(p, net)

\* From n to m every response that was to end still is, and what comes first does.
Advances(n, m) ==
    /\ \A r : r # 0 /\ Ending(n, r) => Ending(m, r)
    /\ Due(n) => Due(m)
    /\ n.inbox # <<>> => m.inbox # <<>> /\ m.inbox[1] = n.inbox[1]

\* ... as it does when the server takes a message.
Absorbs(n, m) == /\ Advances(n, m)
                 /\ Unmoved(n) => Unmoved(m)
                 /\ Vacant(n) => Vacant(m)

LEMMA AdvancesTwice ==
    ASSUME NEW k, NEW m, NEW n
    PROVE  /\ Advances(k, m) /\ Advances(m, n) => Advances(k, n)
           /\ Absorbs(k, m) /\ Absorbs(m, n) => Absorbs(k, n)
<1>1. Advances(k, m) /\ Advances(m, n) => Advances(k, n)
  BY DEF Advances
<1> QED BY <1>1 DEF Absorbs

LEMMA Dues ==
    ASSUME NEW n \in Net, NEW i \in DOMAIN n.inbox, n.inbox[i].type = "response.created"
    PROVE  n.inbox[i].response \in Nat \ {0}
<1>1. n.inbox[i] \in Event
  BY DEF Net
<1> QED BY <1>1 DEF Event, Plain, AboutResponse, AboutTool

LEMMA PushAdvances ==
    ASSUME NEW n \in Net, NEW m \in Net, m.active = n.active, m.inbox = n.inbox
    PROVE  /\ Advances(n, m)
           /\ \A e \in Event : e.type # "response.created" => Advances(n, Push(m, e))
<1>1. Advances(n, m)
  BY DEF Advances, Due, Ending
<1>2. ASSUME NEW e \in Event, e.type # "response.created" PROVE Advances(n, Push(m, e))
  <2> DEFINE k == Push(m, e)
  <2>1. n.inbox \in Seq(Event) /\ k.inbox = Append(n.inbox, e) /\ k.active = n.active
    BY DEF Push, Net
  <2>2. /\ \A i \in DOMAIN n.inbox : i \in DOMAIN k.inbox /\ k.inbox[i] = n.inbox[i]
        /\ \A i \in DOMAIN k.inbox : i \in DOMAIN n.inbox \/ k.inbox[i] = e
        /\ n.inbox # <<>> => 1 \in DOMAIN n.inbox /\ k.inbox # <<>>
    BY <2>1, Appended
  <2> HIDE DEF k
  <2>3. \A r : Ending(n, r) => Ending(k, r)
    BY <2>1, <2>2 DEF Ending
  <2>4. Due(n) => Due(k)
    BY <1>2, <2>2, <2>3 DEF Due
  <2> QED BY <2>2, <2>3, <2>4 DEF Advances, k
<1> QED BY <1>1, <1>2

LEMMA EndAdvances ==
    ASSUME NEW n \in Net, n.active # 0
    PROVE  Advances(n, EndResponse(n))
<1> DEFINE e == Done(n.active)
           k == EndResponse(n)
<1>1. n.inbox \in Seq(Event) /\ k.inbox = Append(n.inbox, e)
  BY DEF EndResponse, Push, Net, Done
<1>2. e \in Event /\ e.type = "response.done"
  <2>1. n.active \in Nat \ {0}
    BY DEF Net
  <2> QED BY <2>1, Occurrences DEF Done
<1>3. /\ \A i \in DOMAIN n.inbox : i \in DOMAIN k.inbox /\ k.inbox[i] = n.inbox[i]
      /\ \A i \in DOMAIN k.inbox : i \in DOMAIN n.inbox \/ k.inbox[i] = e
      /\ n.inbox # <<>> => 1 \in DOMAIN n.inbox /\ k.inbox # <<>>
      /\ Len(n.inbox) + 1 \in DOMAIN k.inbox /\ k.inbox[Len(n.inbox) + 1] = e
  BY <1>1, <1>2, Appended
<1>4. ASSUME NEW r, Ending(n, r) PROVE Ending(k, r)
  <2> HIDE DEF k
  <2>1. CASE n.active = r
    BY <1>3, <2>1 DEF Ending
  <2>2. CASE \E i \in DOMAIN n.inbox : n.inbox[i] = Done(r)
    BY <1>3, <2>2 DEF Ending
  <2> QED BY <1>4, <2>1, <2>2 DEF Ending
<1> HIDE DEF k, e
<1>5. Due(n) => Due(k)
  BY <1>2, <1>3, <1>4 DEF Due
<1> QED BY <1>3, <1>4, <1>5 DEF Advances, k

LEMMA NewAdvances ==
    ASSUME NEW n \in Net, n.active = 0
    PROVE  Advances(n, NewResponse(n))
<1> DEFINE r == n.made + 1
           e == Begun(r)
           m == [n EXCEPT !.active = r, !.made = r, !.deltas = 0, !.unanswered = {}]
           k == Push(m, e)
           b == [k EXCEPT !.wants = 0]
<1>1. r \in Nat \ {0}
  BY DEF Net
<1>2. m \in Net /\ e \in Event /\ m.inbox = n.inbox /\ m.active = r
  <2>1. m \in Net
    BY <1>1 DEF Net
  <2>2. e \in Event
    BY <1>1, Occurrences DEF Begun
  <2> QED BY <2>1, <2>2 DEF Net
<1>3. NewResponse(n) = IF n.wants > 0 THEN Collide(b) ELSE k
  BY DEF NewResponse, Begun
<1>4. e.response = r
  BY DEF Begun
<1> HIDE DEF m, e
<1>5. k \in Net /\ k.inbox = Append(n.inbox, e) /\ k.active = r /\ n.inbox \in Seq(Event)
  BY <1>2, PushKeeps DEF Push, Net
<1>6. /\ \A i \in DOMAIN n.inbox : i \in DOMAIN k.inbox /\ k.inbox[i] = n.inbox[i]
      /\ \A i \in DOMAIN k.inbox : i \in DOMAIN n.inbox \/ k.inbox[i] = e
      /\ n.inbox # <<>> => 1 \in DOMAIN n.inbox /\ k.inbox # <<>>
  BY <1>2, <1>5, Appended
<1> HIDE DEF k
<1>7. \A q : q # 0 /\ Ending(n, q) => Ending(k, q)
  BY <1>6 DEF Ending
<1>8. Due(n) => Due(k)
  <2> SUFFICES ASSUME Due(n), NEW i \in DOMAIN k.inbox, k.inbox[i].type = "response.created"
               PROVE  Ending(k, k.inbox[i].response)
    BY DEF Due
  <2>1. CASE i \in DOMAIN n.inbox
    <3>1. n.inbox[i].type = "response.created" /\ n.inbox[i].response # 0
      BY <1>6, <2>1, Dues
    <3> QED BY <1>6, <1>7, <2>1, <3>1 DEF Due
  <2>2. CASE k.inbox[i] = e
    BY <1>4, <1>5, <2>2 DEF Ending
  <2> QED BY <1>6, <2>1, <2>2
<1>9. Advances(n, k)
  BY <1>6, <1>7, <1>8 DEF Advances
<1>10. Advances(k, Collide(b))
  <2> DEFINE c == [b EXCEPT !.collided = TRUE]
             f == [type |-> "conflict"]
  <2>1. c \in Net /\ c.active = k.active /\ c.inbox = k.inbox
    BY <1>5 DEF Net
  <2>2. f \in Event /\ f.type # "response.created"
    BY Occurrences
  <2>3. Collide(b) = Push(c, f)
    BY DEF Collide
  <2> HIDE DEF c, f
  <2> QED BY <1>5, <2>1, <2>2, <2>3, PushAdvances
<1> QED BY <1>3, <1>9, <1>10, AdvancesTwice

\* The server takes what it is sent.
LEMMA TakenAdvances ==
    ASSUME NEW n \in Net, NEW m \in Message
    PROVE  Absorbs(n, NetTakes(n, m))
<1> DEFINE k == NetTakes(n, m)
<1>1. \/ /\ k \in Net /\ k.active = n.active /\ k.inbox = n.inbox
         /\ k.wants = n.wants \/ n.active = 0
      \/ n.active # 0 /\ (k = Collide(n) \/ k = EndResponse(n))
  <2>1. \/ m.type = "session.update" \/ m.type = "response.create"
        \/ m.type = "response.cancel" /\ m.response \in Nat \ {0}
        \/ m.type = "result" /\ m.tool \in Tools
    BY DEF Message, Plain, AboutResponse
  <2>2. k \in Net
    BY ServerKeeps
  <2>3. CASE m.type = "session.update"
    <3>1. k = [n EXCEPT !.owes = TRUE]
      BY <2>3 DEF NetTakes
    <3> QED BY <2>2, <3>1 DEF Net
  <2>4. CASE m.type = "response.create"
    <3>1. k = IF n.active # 0 THEN Collide(n) ELSE [n EXCEPT !.wants = @ + 1]
      BY <2>4 DEF NetTakes
    <3> HIDE DEF k
    <3> QED BY <2>2, <3>1 DEF Net
  <2>5. CASE m.type = "response.cancel" /\ m.response \in Nat \ {0}
    <3>1. k = IF n.active = m.response THEN EndResponse(n) ELSE n
      BY <2>5 DEF NetTakes
    <3> HIDE DEF k
    <3> QED BY <2>5, <3>1
  <2>6. CASE m.type = "result" /\ m.tool \in Tools
    <3>1. k = [n EXCEPT !.unanswered = @ \cup {m.tool}]
      BY <2>6 DEF NetTakes
    <3> QED BY <2>2, <3>1 DEF Net
  <2> QED BY <2>1, <2>3, <2>4, <2>5, <2>6
<1> HIDE DEF k
<1>2. ASSUME k \in Net, k.active = n.active, k.inbox = n.inbox,
             k.wants = n.wants \/ n.active = 0
      PROVE  Absorbs(n, k)
  BY <1>2, PushAdvances DEF Unmoved, Vacant, Absorbs
<1>3. ASSUME n.active # 0, k = Collide(n) PROVE Absorbs(n, k)
  <2> DEFINE c == [n EXCEPT !.collided = TRUE]
             f == [type |-> "conflict"]
  <2>1. c \in Net /\ c.active = n.active /\ c.inbox = n.inbox /\ c.wants = n.wants
    BY DEF Net
  <2>2. f \in Event /\ f.type # "response.created"
    BY Occurrences
  <2>3. Collide(n) = Push(c, f)
    BY DEF Collide
  <2> HIDE DEF c, f
  <2>4. Advances(n, k) /\ ~Unmoved(n)
    BY <1>3, <2>1, <2>2, <2>3, PushAdvances DEF Unmoved
  <2>5. k.active = n.active /\ k.wants = n.wants
    BY <1>3, <2>1, <2>3 DEF Push, Net
  <2> QED BY <2>4, <2>5 DEF Absorbs, Vacant
<1>4. ASSUME n.active # 0, k = EndResponse(n) PROVE Absorbs(n, k)
  <2>1. Advances(n, k) /\ ~Unmoved(n)
    BY <1>4, EndAdvances DEF Unmoved
  <2>2. k.active = 0
    BY <1>4 DEF EndResponse, Push, Net
  <2> QED BY <2>1, <2>2 DEF Absorbs, Vacant
<1> QED BY <1>1, <1>2, <1>3, <1>4 DEF k

LEMMA AllTakenAdvances ==
    ASSUME NEW n \in Net, NEW out \in Seq(Message), Brief(out)
    PROVE  Absorbs(n, FoldLeft(NetTakes, n, out))
<1> DEFINE m == FoldLeft(NetTakes, n, out)
<1>1. ASSUME NEW x \in Net, NEW a \in Message
      PROVE  NetTakes(x, a) \in Net /\ Absorbs(x, NetTakes(x, a))
  BY ServerKeeps, TakenAdvances
<1>2. \/ out = <<>>
      \/ \E a \in Message : out = <<a>>
      \/ \E a, b \in Message : out = <<a, b>>
  BY BriefElements
<1>3. ASSUME out = <<>> PROVE Absorbs(n, m)
  <2>1. m = n
    BY <1>3, ServerTakes
  <2> HIDE DEF m
  <2> QED BY <2>1, PushAdvances DEF Absorbs
<1>4. ASSUME NEW a \in Message, out = <<a>> PROVE Absorbs(n, m)
  <2>1. m = NetTakes(n, a)
    BY <1>4, ServerTakes
  <2> HIDE DEF m
  <2> QED BY <1>1, <2>1
<1>5. ASSUME NEW a \in Message, NEW b \in Message, out = <<a, b>> PROVE Absorbs(n, m)
  <2>1. m = NetTakes(NetTakes(n, a), b)
    <3>1. \A x, y : FoldLeft(NetTakes, n, <<x, y>>) = NetTakes(NetTakes(n, x), y)
      BY ServerTakes
    <3> QED BY <1>5, <3>1
  <2> HIDE DEF m
  <2> DEFINE k == NetTakes(n, a)
  <2>2. k \in Net /\ Absorbs(n, k)
    BY <1>1
  <2>3. m = NetTakes(k, b)
    BY <2>1
  <2> HIDE DEF k
  <2>4. Absorbs(k, m)
    BY <1>1, <2>2, <2>3
  <2> QED BY <2>2, <2>4, AdvancesTwice
<1> HIDE DEF m
<1>6. Absorbs(n, m)
  BY <1>2, <1>3, <1>4, <1>5
<1> QED BY <1>6 DEF m

\* What was kept of n is kept of what n becomes.
LEMMA KeptLater ==
    ASSUME NEW s \in Provider, NEW n, NEW m, Kept(s, n), Vacant(m), Advances(n, m),
           s.wire # "dialling" \/ (Unmoved(n) => Unmoved(m))
    PROVE  Kept(s, m)
<1>1. Bound(s, m)
  BY DEF Kept, Bound, Advances
<1>2. Due(m)
  BY DEF Kept, Advances
<1>3. Opening(n) => Opening(m)
  BY DEF Opening, Advances
<1>4. Greeted(s, m)
  BY <1>3 DEF Kept, Greeted
<1> QED BY <1>1, <1>2, <1>4 DEF Kept

\* A handler that keeps the socket: nothing begins, ...
Tends(s, u) ==
    /\ u.socket = s.socket /\ (s.closeEmitted => u.closeEmitted)
    /\ u.active \in {s.active, 0} /\ Patient(u)
    /\ Fresh(u) => Fresh(s) /\ u.wire = s.wire

\* ... and one that changes it.
Moves(s, u) ==
    /\ u.socket # s.socket /\ Patient(u)
    /\ u.active # 0 => u.closeEmitted
    /\ Fresh(u) => u.wire = "dialling"

\* The step of Apply.
LEMMA ApplyKept ==
    ASSUME LinkInv, NEW u, NEW n \in Net, NEW l, NEW c, Settles(p, told, u), Apply(u, n, l, c),
           Moves(p, u) \/ (u.socket = p.socket /\ Kept(u, n))
    PROVE  TurnIsKept'
<1> DEFINE v == Heard(told, p, u.calls)
           m == FoldLeft(NetTakes, n, u.out)
<1>1. /\ u \in Provider /\ Linked(u, v) /\ u.out \in Seq(Message)
      /\ (u.socket = p.socket => Brief(u.out))
  BY DEF Settles, StaysLinked, Provider
<1> HIDE DEF v
<1>2. /\ p' = [u EXCEPT !.out = <<>>, !.calls = <<>>]
      /\ net' = IF u.socket # p.socket THEN NewNet(net.made) ELSE m
  BY DEF Apply
<1>3. /\ p'.active = u.active /\ p'.awaiting = u.awaiting /\ p'.queued = u.queued
      /\ p'.closeEmitted = u.closeEmitted /\ p'.timers = u.timers /\ p'.ready = u.ready
      /\ p'.pending = u.pending /\ p'.socket = u.socket /\ p'.stopped = u.stopped
      /\ p'.wire = u.wire
  BY <1>1, <1>2 DEF Provider
<1>4. SUFFICES Kept(u, net')
  <2>1. (Patient(u) => Patient(p')) /\ (Bound(u, net') => Bound(p', net'))
    BY <1>3 DEF Patient, Bound
  <2>2. Greeted(u, net') => Greeted(p', net')
    BY <1>3 DEF Greeted, Fresh
  <2> QED BY <2>1, <2>2 DEF Kept, TurnIsKept
<1>5. CASE u.socket = p.socket /\ Kept(u, n)
  <2>1. net' = m
    BY <1>2, <1>5
  <2>2. Absorbs(n, m)
    BY <1>1, <1>5, AllTakenAdvances
  <2> HIDE DEF m
  <2>3. Advances(n, m) /\ (Unmoved(n) => Unmoved(m)) /\ Vacant(m)
    BY <1>5, <2>2 DEF Absorbs, Kept
  <2> QED BY <1>1, <1>5, <2>1, <2>3, KeptLater
<1>6. CASE Moves(p, u)
  <2>1. net' = NewNet(net.made)
    BY <1>2, <1>6 DEF Moves
  <2>2. net'.active = 0 /\ net'.inbox = <<>>
    BY <2>1 DEF NewNet
  <2>3. DOMAIN net'.inbox = {} /\ Unmoved(net') /\ Vacant(net')
    BY <2>2 DEF Unmoved, Vacant
  <2>4. Fresh(u) => u.active = 0
    BY <1>1, <1>6 DEF Moves, Fresh, Linked, Endings
  <2> QED BY <1>6, <2>3, <2>4 DEF Moves, Kept, Bound, Due, Greeted
<1> QED BY <1>5, <1>6

\* What the handlers need of the turn.
Composed(s) == /\ Patient(s)
               /\ s.socket = 0 /\ s.active # 0 => s.closeEmitted
               /\ Fresh(s) => s.active = 0

LEMMA KeptIsComposed ==
    ASSUME NEW s \in Provider, NEW n, Kept(s, n)
    PROVE  Composed(s)
BY DEF Kept, Bound, Greeted, Composed

\* The handlers that leave the connection alone.
LEMMA GateTends ==
    ASSUME NEW s, NEW u, SameLink(s, u), u.active = s.active, Patient(s),
           Gate(s, u) \/ SameGate(s, u)
    PROVE  Tends(s, u)
<1>1. Patient(u)
  <2>1. u.active # 0 => ~u.awaiting
    BY DEF Patient, Gate, SameGate
  <2>2. u.queued /\ ~u.closeEmitted => "response" \in u.timers \/ u.active # 0
    BY DEF Patient, Gate, SameGate, SameLink
  <2>3. u.ready => u.pending = 0
    BY DEF Patient, SameLink
  <2> QED BY <2>1, <2>2, <2>3 DEF Patient
<1> QED BY <1>1 DEF Tends, SameLink, Fresh

LEMMA TalksTends ==
    ASSUME NEW s \in Idle, Patient(s)
    PROVE  /\ Tends(s, s) /\ Tends(s, Say(s)) /\ Tends(s, FillerTimer(s))
           /\ Tends(s, RecoveryTimer(s)) /\ Tends(s, [s EXCEPT !.audible = FALSE])
           /\ Tends(s, HandleSpeechStopped(s)) /\ Tends(s, SuppressBargeIn(s))
           /\ Tends(s, HandleComplaint(s)) /\ Tends(s, HandleOtherError(s))
           /\ \A t \in Tools : Tends(s, SendToolResult(s, t)) /\ Tends(s, HandleFunctionCall(s, t))
           /\ \A r \in Nat \ {0} : Tends(s, HandleAudioDelta(s, r))
<1>1. s \in Provider /\ SameLink(s, s) /\ SameGate(s, s)
  BY DEF Idle, SameLink, SameGate
<1>2. ASSUME NEW u, Talks(s, u) PROVE Tends(s, u)
  BY <1>2, GateTends DEF Talks, SameEar
<1>3. ASSUME NEW u, Indifferent(s, u) PROVE Tends(s, u)
  BY <1>3, GateTends DEF Indifferent, SameEar
<1>4. Tends(s, s)
  BY <1>1, GateTends
<1>5. Tends(s, Say(s)) /\ Tends(s, FillerTimer(s)) /\ Tends(s, RecoveryTimer(s))
  BY <1>1, <1>2, SayTalks, FillerTalks
<1>6. /\ Tends(s, [s EXCEPT !.audible = FALSE]) /\ Tends(s, HandleSpeechStopped(s))
      /\ Tends(s, SuppressBargeIn(s))
  <2> DEFINE a == [s EXCEPT !.audible = FALSE]
             b == HandleSpeechStopped(s)
             c == SuppressBargeIn(s)
  <2>1. /\ SameLink(s, a) /\ SameGate(s, a) /\ a.active = s.active
        /\ SameLink(s, b) /\ SameGate(s, b) /\ b.active = s.active
        /\ SameLink(s, c) /\ SameGate(s, c) /\ c.active = s.active
    BY FlagsAlone
  <2> HIDE DEF a, b, c
  <2>2. Tends(s, a) /\ Tends(s, b) /\ Tends(s, c)
    BY <2>1, GateTends
  <2> QED BY <2>2 DEF a, b, c
<1>7. Tends(s, HandleComplaint(s)) /\ Tends(s, HandleOtherError(s))
  BY <1>3, OthersAreIndifferent
<1>8. ASSUME NEW t \in Tools
      PROVE  Tends(s, SendToolResult(s, t)) /\ Tends(s, HandleFunctionCall(s, t))
  <2>1. SameLink(s, SendToolResult(s, t)) /\ SameEar(s, SendToolResult(s, t))
        /\ Gate(s, SendToolResult(s, t))
    BY <1>1, ResultTalks
  <2>2. Tends(s, SendToolResult(s, t))
    BY <2>1, GateTends DEF SameEar
  <2> QED BY <1>3, <2>2, ToolIsPassedOn
<1>9. ASSUME NEW r \in Nat \ {0} PROVE Tends(s, HandleAudioDelta(s, r))
  <2> DEFINE u == HandleAudioDelta(s, r)
  <2>1. u = s \/ (SameLink(s, u) /\ SameGate(s, u) /\ u.active = s.active)
    BY AudioIsPassedOn
  <2> HIDE DEF u
  <2>2. Tends(s, u)
    BY <1>4, <2>1, GateTends
  <2> QED BY <2>2 DEF u
<1> QED BY <1>4, <1>5, <1>6, <1>7, <1>8, <1>9

LEMMA FarewellTends ==
    ASSUME NEW s \in Idle, Patient(s), EndCall \in Tools,
           NEW deaf \in {s, SuppressBargeIn(s)}, NEW told_off \in {deaf, Say(deaf)}
    PROVE  Tends(s, SendToolResult(told_off, EndCall))
<1> DEFINE u == SendToolResult(told_off, EndCall)
<1>1. deaf \in Provider /\ SameLink(s, deaf) /\ deaf.active = s.active /\ SameGate(s, deaf)
  <2>1. s \in Provider /\ SameLink(s, s) /\ SameGate(s, s)
    BY DEF Idle, SameLink, SameGate
  <2>2. CASE deaf = s
    BY <2>1, <2>2
  <2>3. CASE deaf = SuppressBargeIn(s)
    BY <2>3, FlagsAlone DEF Idle
  <2> QED BY <2>2, <2>3
<1>2. /\ told_off \in Provider /\ SameLink(s, told_off) /\ told_off.active = s.active
      /\ Gate(s, told_off)
  <2>1. CASE told_off = deaf
    BY <1>1, <2>1 DEF Gate, SameGate
  <2>2. CASE told_off = Say(deaf)
    <3>1. Talks(deaf, told_off)
      BY <1>1, <2>2, SayTalks
    <3>2. told_off \in Provider /\ SameLink(s, told_off) /\ told_off.active = s.active
      BY <1>1, <3>1 DEF Talks, SameLink, SameEar
    <3>3. Gate(s, told_off)
      BY <1>1, <3>1 DEF Talks, Gate, SameGate
    <3> QED BY <3>2, <3>3
  <2> QED BY <2>1, <2>2
<1>3. SameLink(told_off, u) /\ SameEar(told_off, u) /\ Gate(told_off, u)
  BY <1>2, ResultTalks
<1> HIDE DEF u
<1>4. SameLink(s, u) /\ u.active = s.active
  BY <1>2, <1>3 DEF SameLink, SameEar
<1>5. Gate(s, u)
  BY <1>2, <1>3 DEF Gate
<1>6. Tends(s, u)
  BY <1>4, <1>5, GateTends
<1> QED BY <1>6 DEF u

\* The handlers of the turns.
LEMMA TurnTends ==
    ASSUME NEW s \in Idle, NEW t, Linked(s, t), Patient(s)
    PROVE  /\ Tends(s, HandleSpeechStarted(s)) /\ Tends(s, HandleConflict(s))
           /\ Tends(s, ResponseTimer(s))
           /\ \A r \in Nat : Tends(s, HandleResponseDone(s, r))
<1>1. s.stopped => s.closeEmitted
  BY DEF Linked, Endings
<1>2. Tends(s, HandleSpeechStarted(s))
  <2> DEFINE u == HandleSpeechStarted(s)
  <2>1. Yields(s, u)
    BY SpeechYields
  <2> HIDE DEF u
  <2>2. /\ SameLink(s, u) /\ u.awaiting = s.awaiting
        /\ \/ u.active = s.active /\ SameGate(s, u)
           \/ u.active = 0 /\ ~u.queued
    BY <2>1 DEF Yields
  <2>3. Patient(u)
    BY <2>2 DEF Patient, SameLink, SameGate
  <2>4. Tends(s, u)
    BY <2>2, <2>3 DEF Tends, SameLink, Fresh
  <2> QED BY <2>4 DEF u
<1>3. Tends(s, HandleConflict(s))
  <2> DEFINE u == HandleConflict(s)
  <2>1. SameLink(s, u) /\ SameEar(s, u) /\ ~u.awaiting /\ "response" \in u.timers
    BY ConflictQueues
  <2> HIDE DEF u
  <2>2. Tends(s, u)
    BY <2>1 DEF Tends, Patient, Fresh, SameLink, SameEar
  <2> QED BY <2>2 DEF u
<1>4. Tends(s, ResponseTimer(s))
  <2> DEFINE u == ResponseTimer(s)
  <2>1. /\ SameLink(s, u) /\ SameEar(s, u) /\ (u.awaiting => s.active = 0 \/ s.awaiting)
        /\ (u.queued => u.stopped \/ s.active # 0)
    BY ResponseTimerAsks
  <2> HIDE DEF u
  <2>2. Patient(u)
    BY <1>1, <2>1 DEF Patient, SameLink, SameEar
  <2>3. Tends(s, u)
    BY <2>1, <2>2 DEF Tends, Fresh, SameLink, SameEar
  <2> QED BY <2>3 DEF u
<1>5. ASSUME NEW r \in Nat PROVE Tends(s, HandleResponseDone(s, r))
  <2> DEFINE u == HandleResponseDone(s, r)
  <2>1. Ends(s, u, r)
    BY DoneEnds
  <2> HIDE DEF u
  <2>2. /\ SameLink(s, u) /\ u.active = (IF s.active = r THEN 0 ELSE s.active)
        /\ u.awaiting /\ ~s.awaiting => u.active = 0
        /\ u.queued => \/ u.stopped \/ u.active # 0 \/ (s.awaiting /\ s.queued)
                       \/ "response" \in u.timers
        /\ "response" \in s.timers => "response" \in u.timers
    BY <2>1 DEF Ends
  <2>3. Patient(u)
    <3>1. u.active # 0 => ~u.awaiting
      BY <2>2 DEF Patient
    <3>2. u.queued /\ ~u.closeEmitted => "response" \in u.timers \/ u.active # 0
      BY <1>1, <2>2 DEF Patient, SameLink
    <3>3. u.ready => u.pending = 0
      BY <2>2 DEF Patient, SameLink
    <3> QED BY <3>1, <3>2, <3>3 DEF Patient
  <2>4. Tends(s, u)
    BY <2>2, <2>3 DEF Tends, Fresh, SameLink
  <2> QED BY <2>4 DEF u
<1> QED BY <1>2, <1>3, <1>4, <1>5

\* The handlers of the connection.
LEMMA ConnectionMinds ==
    ASSUME NEW s \in Idle, NEW t \in Told, Linked(s, t), Composed(s)
    PROVE  /\ s.socket # 0 =>
                 /\ Tends(s, HandleSessionCreated(s)) /\ ~Fresh(HandleSessionCreated(s))
                 /\ Tends(s, MarkReady(s, s.socket))
                 /\ Moves(s, HandleTerminalError(s))
                 /\ \A normal \in BOOLEAN : Moves(s, HandleClose(s, normal))
           /\ s.pending # 0 /\ "ready" \notin s.timers =>
                 Tends(s, AttemptTimeout(s)) \/ Moves(s, AttemptTimeout(s))
           /\ "ready" \in s.timers /\ s.readyFor = s.socket => Tends(s, ReadyGrace(s))
           /\ "reconnect" \in s.timers => Moves(s, ReconnectTimer(s))
           /\ s.promise = "none" => Moves(s, StartSession(s))
           /\ Tends(s, StopSession(s)) \/ Moves(s, StopSession(s))
<1>1. s \in Provider /\ Patient(s)
  BY DEF Idle, Composed
<1>2. Tends(s, s)
  BY <1>1, TalksTends
<1>3. ASSUME s.socket # 0
      PROVE  Tends(s, HandleSessionCreated(s)) /\ ~Fresh(HandleSessionCreated(s))
  <2> DEFINE u == HandleSessionCreated(s)
  <2>1. /\ SameEar(s, u) /\ SameGate(s, u) /\ "ready" \in u.timers
        /\ u.closeEmitted = s.closeEmitted /\ u.socket = s.socket /\ u.pending = s.pending
        /\ u.ready = s.ready
    BY CreatedArms
  <2> HIDE DEF u
  <2>2. Patient(u)
    BY <1>1, <2>1 DEF Patient, SameEar, SameGate
  <2>3. Tends(s, u) /\ ~Fresh(u)
    BY <2>1, <2>2 DEF Tends, Fresh, SameEar
  <2> QED BY <2>3 DEF u
<1>4. ASSUME NEW u, ReadyLeaves(s, u), ReadyTells(s, u), ReadyAsks(s, u) PROVE Tends(s, u)
  <2>1. SameEar(s, u) /\ Gate(s, u) /\ u.pending = 0
        /\ u.socket = s.socket /\ u.closeEmitted = s.closeEmitted
    BY <1>4 DEF ReadyLeaves, ReadyTells, ReadyAsks
  <2>2. Patient(u)
    BY <1>1, <2>1 DEF Patient, SameEar, Gate
  <2> QED BY <2>1, <2>2 DEF Tends, Fresh, SameEar
<1>5. ASSUME s.socket # 0 PROVE Tends(s, MarkReady(s, s.socket))
  <2>1. CASE s.ready
    <3>1. MarkReady(s, s.socket) = s
      BY <2>1 DEF MarkReady
    <3> QED BY <1>2, <3>1
  <2>2. CASE ~s.ready
    <3>1. ~s.stopped /\ s.pending \in {0, s.socket}
      BY <1>1, <1>5, ConnectedIsOpen
    <3> QED BY <1>4, <2>2, <3>1, ReadyMarks
  <2> QED BY <2>1, <2>2
<1>6. ASSUME s.socket # 0 PROVE Moves(s, HandleTerminalError(s))
  <2> DEFINE u == HandleTerminalError(s)
  <2>1. ~s.stopped /\ ~s.closeEmitted /\ "reconnect" \notin s.timers /\ s.pending \in {0, s.socket}
    BY <1>1, <1>6, ConnectedIsOpen
  <2>2. GivesSocketUp(s, u) /\ (PromiseBreaks(s, u) \/ (PromiseStands(s, u) /\ u.closeEmitted))
    BY <1>6, <2>1, TerminalGivesUp
  <2> HIDE DEF u
  <2>3. /\ u.socket = 0 /\ ~u.ready /\ u.pending = 0 /\ u.closeEmitted
        /\ SameEar(s, u) /\ u.awaiting = s.awaiting
    BY <2>2 DEF GivesSocketUp, PromiseBreaks
  <2>4. Moves(s, u)
    BY <1>1, <1>6, <2>3 DEF Moves, Patient, Fresh, SameEar
  <2> QED BY <2>4 DEF u
<1>7. ASSUME s.socket # 0, NEW normal \in BOOLEAN PROVE Moves(s, HandleClose(s, normal))
  <2> DEFINE u == HandleClose(s, normal)
  <2>1. /\ ~s.stopped /\ ~s.closeEmitted /\ ~s.terminal /\ "reconnect" \notin s.timers
        /\ s.pending \in {0, s.socket}
    BY <1>1, <1>7, ConnectedIsOpen
  <2>2. CloseLeaves(s, u)
    BY <1>7, <2>1, CloseLoses
  <2> HIDE DEF u
  <2>3. Moves(s, u)
    BY <1>7, <2>2 DEF CloseLeaves, Moves, Patient, Fresh
  <2> QED BY <2>3 DEF u
<1>8. ASSUME s.pending # 0, "ready" \notin s.timers
      PROVE  Tends(s, AttemptTimeout(s)) \/ Moves(s, AttemptTimeout(s))
  <2> DEFINE u == AttemptTimeout(s)
  <2>1. /\ ~s.terminal /\ s.socket \in {0, s.pending}
        /\ (s.socket = 0 <=> s.wire = "none") /\ (s.ready => s.socket # 0)
        /\ ~s.stopped => ~s.closeEmitted /\ "reconnect" \notin s.timers
    BY <1>8 DEF Linked, Sockets, Endings
  <2>2. /\ GivesSocketUp(s, u)
        /\ \/ PromiseBreaks(s, u)
           \/ PromiseStands(s, u) /\ ~s.stopped /\ GoesOn(s, u)
           \/ PromiseStands(s, u) /\ s.stopped /\ u.closeEmitted = s.closeEmitted
    BY <1>8, <2>1, TimeoutGivesUp
  <2> HIDE DEF u
  <2>3. /\ u.socket = 0 /\ ~u.ready /\ u.pending = 0
        /\ SameEar(s, u) /\ u.awaiting = s.awaiting /\ u.queued = s.queued
    BY <2>2 DEF GivesSocketUp
  <2>4. s.closeEmitted => u.closeEmitted
    BY <2>1, <2>2 DEF PromiseBreaks, GoesOn
  <2>5. Patient(u)
    BY <1>1, <2>2, <2>3, <2>4 DEF Patient, SameEar, PromiseBreaks, PromiseStands, SameGate
  <2>6. ASSUME s.socket = 0 PROVE Tends(s, u)
    BY <2>3, <2>4, <2>5, <2>6 DEF Tends, Fresh, SameEar
  <2>7. ASSUME s.socket # 0 PROVE Moves(s, u)
    <3>1. ~s.stopped
      BY <2>7 DEF Linked, Endings
    <3>2. s.active = 0
      BY <1>8, <3>1 DEF Composed, Fresh
    <3>3. u.active = 0
      BY <2>3, <3>2 DEF SameEar
    <3> QED BY <2>3, <2>5, <2>7, <3>3 DEF Moves, Fresh
  <2> QED BY <2>6, <2>7 DEF u
<1>9. ASSUME "ready" \in s.timers, s.readyFor = s.socket PROVE Tends(s, ReadyGrace(s))
  <2> DEFINE u == ReadyGrace(s)
  <2>1. s.socket # 0
    BY <1>1, <1>9 DEF Linked, Sockets, Provider
  <2>2. ~s.stopped /\ s.pending \in {0, s.socket}
    BY <1>1, <2>1, ConnectedIsOpen
  <2>3. \/ ReadyLeaves(s, u) /\ ReadyTells(s, u) /\ ReadyAsks(s, u)
        \/ s.ready /\ u = Disarm(s, {"ready"})
    BY <1>9, <2>2, GraceMarks
  <2> HIDE DEF u
  <2>4. ASSUME s.ready, u = Disarm(s, {"ready"}) PROVE Tends(s, u)
    <3>1. /\ SameGate(s, u) /\ u.active = s.active /\ u.socket = s.socket
          /\ u.closeEmitted = s.closeEmitted /\ u.pending = s.pending /\ u.ready = s.ready
      BY <1>1, <2>4 DEF Provider, Disarm, SameGate
    <3>2. Patient(u) /\ u.pending = 0
      BY <1>1, <2>4, <3>1 DEF Patient, SameGate
    <3> QED BY <3>1, <3>2 DEF Tends, Fresh
  <2>5. ASSUME ReadyLeaves(s, u), ReadyTells(s, u), ReadyAsks(s, u) PROVE Tends(s, u)
    BY <1>4, <2>5
  <2> QED BY <2>3, <2>4, <2>5 DEF u
<1>10. ASSUME NEW u, Opens(s, u), s.socket = 0 PROVE Moves(s, u)
  <2>1. /\ u.socket # 0 /\ u.wire = "dialling" /\ u.closeEmitted = s.closeEmitted
        /\ u.ready = s.ready /\ SameEar(s, u) /\ SameGate(s, u)
    BY <1>1, <1>10 DEF Opens, Provider
  <2>2. ~u.ready
    BY <1>10, <2>1 DEF Linked, Sockets
  <2>3. Patient(u)
    BY <1>1, <2>1, <2>2 DEF Patient, SameEar, SameGate
  <2>4. u.active # 0 => u.closeEmitted
    BY <1>10, <2>1 DEF Composed, SameEar
  <2> QED BY <1>10, <2>1, <2>3, <2>4 DEF Moves
<1>11. ASSUME "reconnect" \in s.timers PROVE Moves(s, ReconnectTimer(s))
  <2>1. ~s.stopped /\ s.socket = 0
    BY <1>11 DEF Linked, Endings
  <2> QED BY <1>10, <2>1, OpeningOpens
<1>12. ASSUME s.promise = "none" PROVE Moves(s, StartSession(s))
  <2>1. "reconnect" \notin s.timers /\ s.socket = 0
    BY <1>12 DEF Linked, PromiseKept, Sockets
  <2> QED BY <1>10, <2>1, OpeningOpens
<1>13. Tends(s, StopSession(s)) \/ Moves(s, StopSession(s))
  <2> DEFINE u == StopSession(s)
  <2>1. CASE s.stopped
    <3>1. u = s
      BY <2>1 DEF StopSession
    <3> QED BY <1>2, <3>1
  <2>2. CASE ~s.stopped
    <3>1. Stops(s, u) /\ Falls(s, u)
      BY <2>2, StopStops
    <3> HIDE DEF u
    <3>2. /\ u.socket = 0 /\ u.active = 0 /\ u.closeEmitted /\ u.stopped /\ ~u.queued
          /\ ~u.ready
      BY <3>1 DEF Stops, Falls
    <3>3. Tends(s, u) \/ Moves(s, u)
      BY <3>2 DEF Tends, Moves, Patient, Fresh
    <3> QED BY <3>3 DEF u
  <2> QED BY <2>1, <2>2
<1> QED BY <1>3, <1>5, <1>6, <1>7, <1>8, <1>9, <1>11, <1>12, <1>13

\* What is left of the events when the first is read.
LEMMA RestIsDue ==
    ASSUME NEW n \in Net, n.inbox # <<>>, InTurn(n), Due(n), Vacant(n)
    PROVE  LET m == [n EXCEPT !.inbox = Tail(@)]
               e == Head(n.inbox)
           IN  /\ \A r : Ending(n, r) /\ e # Done(r) => Ending(m, r)
               /\ Due(m) /\ Vacant(m)
<1> DEFINE m == [n EXCEPT !.inbox = Tail(@)]
           e == Head(n.inbox)
<1>0. m.wants = n.wants
  BY DEF Net
<1>1. /\ InTurn(m) /\ m.active = n.active
      /\ \A i \in DOMAIN m.inbox : /\ i + 1 \in DOMAIN n.inbox
                                   /\ m.inbox[i] = n.inbox[i + 1]
                                   /\ Follows(e, m.inbox[i])
      /\ \A i \in DOMAIN n.inbox : i = 1 \/ i - 1 \in DOMAIN m.inbox
      /\ n.inbox[1] = e
      /\ \A i \in DOMAIN n.inbox : i \in Nat
  BY RestIsInTurn
<1> HIDE DEF m, e
<1>2. ASSUME NEW r, Ending(n, r), e # Done(r) PROVE Ending(m, r)
  <2>1. CASE n.active = r
    BY <1>1, <2>1 DEF Ending
  <2>2. ASSUME NEW i \in DOMAIN n.inbox, n.inbox[i] = Done(r) PROVE Ending(m, r)
    <3>1. i # 1 /\ i \in Nat
      BY <1>1, <1>2, <2>2
    <3>2. i - 1 \in DOMAIN m.inbox /\ (i - 1) + 1 = i
      BY <1>1, <3>1
    <3>3. m.inbox[i - 1] = Done(r)
      BY <1>1, <2>2, <3>2
    <3> QED BY <3>2, <3>3 DEF Ending
  <2> QED BY <1>2, <2>1, <2>2 DEF Ending
<1>3. ASSUME NEW i \in DOMAIN m.inbox, m.inbox[i].type = "response.created"
      PROVE  Ending(m, m.inbox[i].response)
  <2> DEFINE r == m.inbox[i].response
  <2>1. Ending(n, r)
    BY <1>1, <1>3 DEF Due
  <2>2. e # Done(r)
    <3> SUFFICES ASSUME e = Done(r) PROVE FALSE
      OBVIOUS
    <3>1. e.type = "response.done" /\ e.response = r
      BY DEF Done
    <3>2. r < r
      BY <1>1, <1>3, <3>1 DEF Follows, Numbered
    <3>3. r \in Nat
      <4>1. r \in 1..m.made
        BY <1>1, <1>3 DEF InTurn, Numbered
      <4> QED BY <4>1
    <3> QED BY <3>2, <3>3
  <2> QED BY <1>2, <2>1, <2>2
<1>4. Due(m) /\ Vacant(m)
  BY <1>0, <1>1, <1>3 DEF Due, Vacant
<1> QED BY <1>2, <1>4 DEF m, e

\* A handler that tends to the turn, in a step that leaves it what it tends to.
LEMMA TendsKept ==
    ASSUME LinkInv, NEW u, NEW n \in Net, NEW l, NEW c, Settles(p, told, u), Apply(u, n, l, c),
           Tends(p, u), Due(n), Vacant(n), p.active = 0 \/ Ending(n, p.active) \/ u.active = 0,
           Bound(p, net), Fresh(u) => Greeted(p, n)
    PROVE  TurnIsKept'
<1>1. Bound(u, n)
  BY DEF Tends, Bound
<1>2. Greeted(u, n)
  BY DEF Tends, Greeted
<1>3. Patient(u) /\ u.socket = p.socket
  BY DEF Tends
<1> QED BY <1>1, <1>2, <1>3, ApplyKept DEF Kept

LEMMA HandledKept ==
    ASSUME LinkInv, StaysSilent, TurnIsKept, HandleNext
    PROVE  TurnIsKept'
<1> DEFINE e == Head(net.inbox)
           u == Handle(e)
           n == [net EXCEPT !.inbox = Tail(@)]
<1>1. /\ p \in Idle /\ p \in Provider /\ told \in Told /\ Linked(p, told) /\ net \in Net
      /\ InTurn(net) /\ Kept(p, net)
  BY DEF LinkInv, Attuned, Idle, StaysSilent, InOrder, TurnIsKept
<1>2. p.socket # 0 /\ net.inbox # <<>> /\ Apply(u, n, line, call)
  BY DEF HandleNext
<1>3. n \in Net /\ e \in Event
  BY <1>1, <1>2, PushKeeps DEF Net
<1>4. /\ \A r : Ending(net, r) /\ e # Done(r) => Ending(n, r)
      /\ Due(n) /\ Vacant(n)
  BY <1>1, <1>2, RestIsDue DEF Kept
<1>5. Fresh(p) => e.type \in {"session.created", "close"}
  <2>1. net.inbox[1] = e
    BY <1>1, <1>2, RestIsInTurn
  <2> QED BY <1>1, <1>2, <2>1 DEF Kept, Greeted, Unmoved, Opening
<1>6. \/ e.type \in {"session.created", "session.updated", "speech_started",
                     "speech_stopped", "conflict", "terminal", "complaint", "error"}
      \/ \E r \in Nat \ {0} : e = Begun(r)
      \/ \E r \in Nat \ {0} : e = Piece(r)
      \/ \E r \in Nat \ {0} : e = Done(r)
      \/ e.type = "tool" /\ e.tool \in Tools
      \/ e.type = "close" /\ e.normal \in BOOLEAN
  BY <1>3 DEF Event, Plain, AboutResponse, AboutTool, Begun, Piece, Done
<1>7. Patient(p) /\ Composed(p) /\ Bound(p, net) /\ ~p.closeEmitted
  BY <1>1, <1>2, KeptIsComposed, ConnectedIsOpen DEF Kept
<1> HIDE DEF n, e
<1>8. ASSUME Settles(p, told, u), Tends(p, u), e.type \notin {"response.done", "close"},
             e.type # "session.created" \/ ~Fresh(u)
      PROVE  TurnIsKept'
  <2> HIDE DEF u
  <2>1. ~Fresh(u)
    BY <1>5, <1>8 DEF Tends
  <2>2. \A r : e # Done(r)
    BY <1>8 DEF Done
  <2>3. p.active = 0 \/ Ending(n, p.active)
    BY <1>4, <1>7, <2>2 DEF Bound
  <2> QED BY <1>2, <1>3, <1>4, <1>7, <1>8, <2>1, <2>3, TendsKept
<1>9. CASE e.type = "session.created"
  <2>1. u = HandleSessionCreated(p)
    BY <1>9 DEF Handle
  <2>2. Settles(p, told, u) /\ Tends(p, u) /\ ~Fresh(u)
    BY <1>1, <1>2, <1>7, <2>1, ConnectionSettles, ConnectionMinds
  <2> QED BY <1>8, <1>9, <2>2
<1>10. CASE e.type = "session.updated"
  <2>1. u = MarkReady(p, p.socket)
    BY <1>10 DEF Handle
  <2>2. Settles(p, told, u) /\ Tends(p, u)
    BY <1>1, <1>2, <1>7, <2>1, ConnectionSettles, ConnectionMinds
  <2> QED BY <1>8, <1>10, <2>2
<1>11. CASE e.type \in {"speech_started", "conflict"}
  <2>1. Settles(p, told, u) /\ Tends(p, u)
    BY <1>1, <1>2, <1>7, <1>11, SpeechSettles, TurnTends DEF Handle
  <2> QED BY <1>8, <1>11, <2>1
<1>12. CASE e.type \in {"speech_stopped", "complaint", "error"}
  <2>1. Settles(p, told, u) /\ Tends(p, u)
    BY <1>1, <1>2, <1>7, <1>12, SpeechSettles, TalksTends DEF Handle
  <2> QED BY <1>8, <1>12, <2>1
<1>13. CASE e.type = "tool" /\ e.tool \in Tools
  <2>1. Settles(p, told, u) /\ Tends(p, u)
    BY <1>1, <1>2, <1>7, <1>13, SpeechSettles, TalksTends DEF Handle
  <2> QED BY <1>8, <1>13, <2>1
<1>14. ASSUME NEW r \in Nat \ {0}, e = Piece(r) PROVE TurnIsKept'
  <2>1. u = HandleAudioDelta(p, r) /\ e.type = "audio"
    BY <1>14 DEF Handle, Piece
  <2>2. Settles(p, told, u) /\ Tends(p, u)
    BY <1>1, <1>2, <1>7, <2>1, SpeechSettles, TalksTends
  <2> QED BY <1>8, <2>1, <2>2
<1>15. ASSUME Settles(p, told, u), Moves(p, u) PROVE TurnIsKept'
  <2> HIDE DEF u
  <2> QED BY <1>2, <1>3, <1>15, ApplyKept
<1>16. CASE e.type = "terminal"
  <2>1. u = HandleTerminalError(p)
    BY <1>16 DEF Handle
  <2>2. Settles(p, told, u) /\ Moves(p, u)
    BY <1>1, <1>2, <1>7, <2>1, ConnectionSettles, ConnectionMinds
  <2> QED BY <1>15, <2>2
<1>17. CASE e.type = "close" /\ e.normal \in BOOLEAN
  <2>1. u = HandleClose(p, e.normal)
    BY <1>17 DEF Handle
  <2>2. Settles(p, told, u) /\ Moves(p, u)
    BY <1>1, <1>2, <1>7, <1>17, <2>1, ConnectionSettles, ConnectionMinds
  <2> QED BY <1>15, <2>2
<1>18. ASSUME NEW r \in Nat \ {0}, e = Done(r) PROVE TurnIsKept'
  <2>1. u = HandleResponseDone(p, r) /\ e.type = "response.done"
    BY <1>18 DEF Handle, Done
  <2>2. Settles(p, told, u) /\ Tends(p, u) /\ Ends(p, u, r)
    BY <1>1, <1>2, <1>7, <1>18, <2>1, SpeechSettles, TurnTends, DoneEnds DEF Handle, Done
  <2> HIDE DEF u
  <2>3. ~Fresh(u)
    BY <1>5, <2>1, <2>2 DEF Tends
  <2>4. p.active = 0 \/ Ending(n, p.active) \/ u.active = 0
    <3>1. CASE p.active = r
      BY <2>2, <3>1 DEF Ends
    <3>2. CASE p.active # r /\ p.active # 0
      <4>1. e # Done(p.active)
        <5>1. Done(r).response = r /\ Done(p.active).response = p.active
          BY DEF Done
        <5> QED BY <1>18, <3>2, <5>1
      <4> QED BY <1>4, <1>7, <3>2, <4>1 DEF Bound
    <3> QED BY <3>1, <3>2
  <2> QED BY <1>2, <1>3, <1>4, <1>7, <2>2, <2>3, <2>4, TendsKept
<1>19. ASSUME NEW r \in Nat \ {0}, e = Begun(r) PROVE TurnIsKept'
  <2>1. u = HandleResponseCreated(p, r) /\ e.type = "response.created" /\ e.response = r
    BY <1>19 DEF Handle, Begun
  <2>2. Settles(p, told, u) /\ Begins(p, u, r)
    <3>1. Settles(p, told, HandleResponseCreated(p, r))
      BY <1>1, <1>2, SpeechSettles
    <3> QED BY <1>1, <2>1, <3>1, CreatedBegins
  <2> HIDE DEF u
  <2>3. Ending(n, r)
    <3>1. 1 \in DOMAIN net.inbox /\ net.inbox[1] = e
      BY <1>1, <1>2, RestIsInTurn DEF e
    <3>2. Ending(net, r)
      BY <1>1, <2>1, <3>1 DEF Kept, Due
    <3>3. e # Done(r)
      BY <2>1 DEF Done
    <3> QED BY <1>4, <3>2, <3>3
  <2>4. SameLink(p, u) /\ ~u.awaiting /\ (u.active = r \/ (u.active = 0 /\ ~u.queued))
    BY <2>2 DEF Begins
  <2>5. Patient(u)
    BY <1>7, <2>4 DEF Patient, SameLink
  <2>6. ~Fresh(u)
    BY <1>5, <2>1, <2>4 DEF SameLink, Fresh
  <2>7. Bound(u, n) /\ u.socket = p.socket
    BY <1>2, <2>3, <2>4 DEF Bound, SameLink
  <2>8. Kept(u, n)
    BY <1>4, <2>5, <2>6, <2>7 DEF Kept, Greeted
  <2> QED BY <1>2, <1>3, <2>2, <2>7, <2>8, ApplyKept
<1> QED BY <1>6, <1>9, <1>10, <1>11, <1>12, <1>13, <1>14, <1>16, <1>17, <1>18, <1>19

LEMMA SocketStepKept ==
    ASSUME LinkInv, TurnIsKept, SocketOpens \/ \E normal \in BOOLEAN : SocketLost(normal)
    PROVE  TurnIsKept'
<1>1. /\ p \in Idle /\ p \in Provider /\ told \in Told /\ Linked(p, told) /\ net \in Net
      /\ Kept(p, net)
  BY DEF LinkInv, Attuned, Idle, TurnIsKept
<1>2. ASSUME NEW e \in Event, e.type # "response.created"
      PROVE  /\ Advances(net, Push(net, e)) /\ Vacant(Push(net, e))
             /\ Unmoved(net) => Push(net, e).active = 0 /\ Push(net, e).inbox[1] = e
                                /\ Push(net, e).inbox # <<>>
  <2>1. Advances(net, Push(net, e))
    BY <1>1, <1>2, PushAdvances
  <2>2. /\ Push(net, e).active = net.active /\ Push(net, e).inbox = Append(net.inbox, e)
        /\ Push(net, e).wants = net.wants
    BY <1>1 DEF Push, Net
  <2>3. Append(<<>>, e) = <<e>> /\ <<e>>[1] = e /\ <<e>> # <<>>
    BY ShortSequences
  <2> QED BY <1>1, <2>1, <2>2, <2>3 DEF Unmoved, Vacant, Kept
<1>3. CASE SocketOpens
  <2> DEFINE u == SendSessionUpdate([p EXCEPT !.wire = "open"])
             e == [type |-> "session.created"]
             n == Push(net, e)
             o == [p EXCEPT !.wire = "open"]
  <2>1. p.socket # 0 /\ p.wire = "dialling"
    BY <1>1, <1>3 DEF SocketOpens, Linked, Sockets
  <2>2. /\ Settles(p, told, u) /\ SameEar(p, u) /\ SameGate(p, u)
        /\ SameLink(o, u)
    BY <1>1, <2>1, ConnectionSettles, OpenSendsUpdate
  <2>3. /\ o.socket = p.socket /\ o.closeEmitted = p.closeEmitted /\ o.ready = p.ready
        /\ o.pending = p.pending /\ o.stopped = p.stopped /\ o.timers = p.timers
        /\ o.wire = "open"
    BY <1>1 DEF Provider
  <2>4. e \in Event /\ e.type = "session.created"
    BY Occurrences
  <2>5. Apply(u, n, line, call)
    BY <1>3 DEF SocketOpens
  <2> HIDE DEF u, e, o
  <2>6. /\ n \in Net /\ Advances(net, n) /\ Vacant(n)
        /\ Unmoved(net) => n.active = 0 /\ n.inbox[1] = e /\ n.inbox # <<>>
    BY <1>1, <1>2, <2>4, PushKeeps
  <2> HIDE DEF n
  <2>7. /\ u.socket = p.socket /\ u.closeEmitted = p.closeEmitted /\ u.active = p.active
        /\ u.awaiting = p.awaiting /\ u.queued = p.queued /\ u.ready = p.ready
        /\ u.pending = p.pending /\ u.stopped = p.stopped /\ u.wire = "open"
        /\ "response" \in p.timers <=> "response" \in u.timers
        /\ "ready" \in p.timers <=> "ready" \in u.timers
    BY <2>2, <2>3 DEF SameLink, SameEar, SameGate
  <2>8. Patient(u)
    BY <1>1, <2>7 DEF Kept, Patient
  <2>9. Bound(u, n) /\ Due(n)
    BY <1>1, <2>6, <2>7 DEF Kept, Bound, Advances
  <2>10. Greeted(u, n)
    BY <1>1, <2>1, <2>4, <2>6, <2>7 DEF Kept, Greeted, Fresh, Opening
  <2> QED BY <2>2, <2>5, <2>6, <2>7, <2>8, <2>9, <2>10, ApplyKept DEF Kept
<1>4. ASSUME NEW normal \in BOOLEAN, SocketLost(normal) PROVE TurnIsKept'
  <2> DEFINE e == [type |-> "close", normal |-> normal]
  <2>1. e \in Event /\ e.type = "close"
    BY Occurrences
  <2>2. /\ p' = [p EXCEPT !.wire = "closing"] /\ net' = Push(net, e)
        /\ p.wire \in {"dialling", "open"}
    BY <1>4 DEF SocketLost
  <2> HIDE DEF e
  <2>3. /\ p'.socket = p.socket /\ p'.closeEmitted = p.closeEmitted /\ p'.active = p.active
        /\ p'.awaiting = p.awaiting /\ p'.queued = p.queued /\ p'.ready = p.ready
        /\ p'.pending = p.pending /\ p'.stopped = p.stopped /\ p'.wire = "closing"
        /\ p'.timers = p.timers
    BY <1>1, <2>2 DEF Provider
  <2>4. /\ Advances(net, net') /\ Vacant(net')
        /\ Unmoved(net) => net'.active = 0 /\ net'.inbox[1] = e /\ net'.inbox # <<>>
    BY <1>2, <2>1, <2>2
  <2>5. Patient(p') /\ Bound(p', net') /\ Due(net')
    BY <1>1, <2>3, <2>4 DEF Kept, Patient, Bound, Advances
  <2>6. Opening(net) => Opening(net')
    BY <2>4 DEF Opening, Advances
  <2>7. Greeted(p', net')
    BY <1>1, <2>1, <2>2, <2>3, <2>4, <2>6 DEF Kept, Greeted, Fresh, Opening
  <2> QED BY <2>4, <2>5, <2>7 DEF TurnIsKept, Kept
<1> QED BY <1>3, <1>4

LEMMA AnsweredIsVacant ==
    ASSUME NEW n \in Net
    PROVE  Vacant(EndResponse(n)) /\ Vacant(NewResponse(n))
<1>1. EndResponse(n).active = 0
  BY DEF EndResponse, Push, Net
<1>2. NewResponse(n).wants = 0
  BY DEF NewResponse, Collide, Push, Net
<1> QED BY <1>1, <1>2 DEF Vacant

\* The server goes on: what is to end still is.
LEMMA ServerStepKept ==
    ASSUME LinkInv, TurnIsKept, Server
    PROVE  TurnIsKept'
<1>1. net \in Net /\ p \in Provider /\ Kept(p, net) /\ net.wants \in Nat
  BY DEF LinkInv, Attuned, Idle, TurnIsKept, Net
<1>2. p' = p
  BY DEF Server, ServerEchoes, AccountRefused, ServerAnswers, ServerSpeaks, ServerCallsTool,
         ServerFinishes, CallerHeard, CallerQuiet, ServerOnly
<1>3. p.wire # "dialling"
  BY DEF Server, ServerEchoes, AccountRefused, ServerAnswers, ServerSpeaks, ServerCallsTool,
         ServerFinishes, CallerHeard, CallerQuiet, Serving
<1>4. ASSUME Advances(net, net'), Vacant(net') PROVE TurnIsKept'
  <2>1. Kept(p, net')
    BY <1>1, <1>3, <1>4, KeptLater
  <2> QED BY <1>2, <2>1 DEF TurnIsKept
<1>5. ASSUME NEW n \in Net, n.active = net.active, n.inbox = net.inbox,
             n.wants = net.wants \/ n.wants < net.wants
      PROVE  /\ Advances(net, n) /\ Vacant(n)
             /\ \A e \in Event : e.type # "response.created"
                                    => Advances(net, Push(n, e)) /\ Vacant(Push(n, e))
  <2>1. /\ Advances(net, n)
        /\ \A e \in Event : e.type # "response.created" => Advances(net, Push(n, e))
    BY <1>1, <1>5, PushAdvances
  <2>2. Vacant(n)
    BY <1>1, <1>5 DEF Kept, Vacant, Net
  <2>3. ASSUME NEW e \in Event PROVE Vacant(Push(n, e))
    BY <2>2 DEF Vacant, Push, Net
  <2> QED BY <2>1, <2>2, <2>3
<1>6. CASE ServerEchoes
  <2> DEFINE n == [net EXCEPT !.owes = FALSE]
             e == [type |-> "session.updated"]
             f == [type |-> "complaint"]
  <2>1. n \in Net /\ n.active = net.active /\ n.inbox = net.inbox /\ n.wants = net.wants
    BY <1>1 DEF Net
  <2>2. net' = Push(n, e) \/ net' = Push(n, f) \/ net' = n
    BY <1>6 DEF ServerEchoes, ServerOnly
  <2>3. /\ e \in Event /\ e.type # "response.created"
        /\ f \in Event /\ f.type # "response.created"
    BY Occurrences
  <2> HIDE DEF n, e, f
  <2> QED BY <1>4, <1>5, <2>1, <2>2, <2>3
<1>7. CASE AccountRefused
  <2> DEFINE e == [type |-> "terminal"]
  <2>1. net' = Push(net, e)
    BY <1>7 DEF AccountRefused, ServerOnly
  <2>2. e \in Event /\ e.type # "response.created"
    BY Occurrences
  <2> HIDE DEF e
  <2> QED BY <1>1, <1>4, <1>5, <2>1, <2>2
<1>8. CASE ServerAnswers
  <2> DEFINE n == [net EXCEPT !.wants = @ - 1]
             e == [type |-> "error"]
  <2>1. net.wants > 0 /\ net.wants - 1 \in Nat
    BY <1>1, <1>8 DEF ServerAnswers, Net
  <2>2. n \in Net /\ n.active = net.active /\ n.inbox = net.inbox /\ n.wants = net.wants - 1
    BY <1>1, <2>1 DEF Net
  <2>3. net' = NewResponse(n) \/ net' = Push(n, e)
    BY <1>8 DEF ServerAnswers, ServerOnly
  <2>4. e \in Event /\ e.type # "response.created"
    BY Occurrences
  <2> HIDE DEF n, e
  <2>5. n.active = 0 /\ n.wants < net.wants
    BY <1>1, <2>1, <2>2 DEF Kept, Vacant, Net
  <2>6. Advances(net, n) /\ Advances(net, Push(n, e)) /\ Vacant(Push(n, e))
    BY <1>5, <2>2, <2>4, <2>5
  <2>7. Advances(n, NewResponse(n)) /\ Vacant(NewResponse(n))
    BY <2>2, <2>5, NewAdvances, AnsweredIsVacant
  <2>8. Advances(net, NewResponse(n))
    BY <2>6, <2>7, AdvancesTwice
  <2> QED BY <1>4, <2>3, <2>6, <2>7, <2>8
<1>9. CASE ServerSpeaks
  <2> DEFINE n == [net EXCEPT !.deltas = @ + 1]
             e == Piece(net.active)
  <2>1. net.active \in Nat \ {0} /\ net.deltas + 1 \in Nat
    BY <1>1, <1>9 DEF ServerSpeaks, Net
  <2>2. n \in Net /\ n.active = net.active /\ n.inbox = net.inbox /\ n.wants = net.wants
    BY <1>1, <2>1 DEF Net
  <2>3. net' = Push(n, e)
    BY <1>9 DEF ServerSpeaks, ServerOnly, Piece
  <2>4. e \in Event /\ e.type # "response.created"
    BY <2>1, Occurrences DEF Piece
  <2> HIDE DEF n, e
  <2> QED BY <1>4, <1>5, <2>2, <2>3, <2>4
<1>10. CASE ServerCallsTool
  <2>1. PICK t \in Tools : net' = Push(net, [type |-> "tool", tool |-> t])
    BY <1>10 DEF ServerCallsTool
  <2> DEFINE e == [type |-> "tool", tool |-> t]
  <2>2. e \in Event /\ e.type # "response.created"
    BY Occurrences
  <2>3. net' = Push(net, e)
    BY <2>1
  <2> HIDE DEF e
  <2> QED BY <1>1, <1>4, <1>5, <2>2, <2>3
<1>11. CASE ServerFinishes
  BY <1>1, <1>4, <1>11, EndAdvances, AnsweredIsVacant DEF ServerFinishes, ServerOnly, Endable
<1>12. CASE CallerHeard
  <2> DEFINE n == [net EXCEPT !.hearing = TRUE]
             e == [type |-> "speech_started"]
             h == Push(n, e)
  <2>1. n \in Net /\ n.active = net.active /\ n.inbox = net.inbox /\ n.wants = net.wants
    BY <1>1 DEF Net
  <2>2. net' = IF Endable THEN EndResponse(h) ELSE h
    BY <1>12 DEF CallerHeard
  <2>3. e \in Event /\ e.type # "response.created"
    BY Occurrences
  <2> HIDE DEF n, e
  <2>4. h \in Net /\ h.active = net.active
    BY <2>1, <2>3, PushKeeps DEF Push, Net
  <2>5. Advances(net, h) /\ Vacant(h)
    BY <1>5, <2>1, <2>3
  <2> HIDE DEF h
  <2>6. Endable => Advances(h, EndResponse(h))
    BY <2>4, EndAdvances DEF Endable
  <2>7. Advances(net, net') /\ Vacant(net')
    BY <2>2, <2>4, <2>5, <2>6, AdvancesTwice, AnsweredIsVacant
  <2> QED BY <1>4, <2>7
<1>13. CASE CallerQuiet
  <2> DEFINE n == [net EXCEPT !.hearing = FALSE]
             e == [type |-> "speech_stopped"]
             q == Push(n, e)
  <2>1. n \in Net /\ n.active = net.active /\ n.inbox = net.inbox /\ n.wants = net.wants
    BY <1>1 DEF Net
  <2>2. (net.active = 0 /\ net' = NewResponse(q)) \/ net' = q
    BY <1>13 DEF CallerQuiet, ServerOnly
  <2>3. e \in Event /\ e.type # "response.created"
    BY Occurrences
  <2> HIDE DEF n, e
  <2>4. q \in Net /\ q.active = net.active
    BY <2>1, <2>3, PushKeeps DEF Push, Net
  <2>5. Advances(net, q) /\ Vacant(q)
    BY <1>5, <2>1, <2>3
  <2> HIDE DEF q
  <2>6. net.active = 0 => Advances(q, NewResponse(q))
    BY <2>4, NewAdvances
  <2>7. Advances(net, net') /\ Vacant(net')
    BY <2>2, <2>4, <2>5, <2>6, AdvancesTwice, AnsweredIsVacant
  <2> QED BY <1>4, <2>7
<1> QED BY <1>6, <1>7, <1>8, <1>9, <1>10, <1>11, <1>12, <1>13 DEF Server

\* A step of a handler that reads nothing.
LEMMA StepKept ==
    ASSUME LinkInv, TurnIsKept, NEW u, Settles(p, told, u), Tends(p, u) \/ Moves(p, u),
           NEW l, NEW c, Apply(u, net, l, c)
    PROVE  TurnIsKept'
<1>1. net \in Net /\ Kept(p, net)
  BY DEF LinkInv, Attuned, TurnIsKept
<1>2. CASE Moves(p, u)
  BY <1>1, <1>2, ApplyKept
<1>3. CASE Tends(p, u)
  <2>1. Due(net) /\ Vacant(net) /\ Bound(p, net) /\ Greeted(p, net)
    BY <1>1 DEF Kept
  <2>2. Bound(u, net) /\ Greeted(u, net) /\ Patient(u) /\ u.socket = p.socket
    BY <1>3, <2>1 DEF Tends, Bound, Greeted
  <2> QED BY <1>1, <2>1, <2>2, ApplyKept DEF Kept
<1> QED BY <1>2, <1>3

LEMMA TimerStepKept ==
    ASSUME LinkInv, TurnIsKept, "late_grace" \notin Mishaps, Timer
    PROVE  TurnIsKept'
<1>1. p \in Idle /\ p \in Provider /\ told \in Told /\ Linked(p, told) /\ net \in Net
  BY DEF LinkInv, Attuned, Idle
<1>2. Patient(p) /\ Composed(p)
  BY <1>1, KeptIsComposed DEF TurnIsKept, Kept
<1>3. ASSUME NEW u, Settles(p, told, u), Tends(p, u) \/ Moves(p, u), Step(u) PROVE TurnIsKept'
  BY <1>3, StepKept DEF Step
<1>4. CASE AttemptTimesOut
  BY <1>1, <1>2, <1>3, <1>4, ConnectionSettles, ConnectionMinds DEF AttemptTimesOut
<1>5. CASE GraceFires
  BY <1>1, <1>2, <1>3, <1>5, ConnectionSettles, ConnectionMinds DEF GraceFires
<1>6. CASE ReconnectFires
  BY <1>1, <1>2, <1>3, <1>6, ConnectionSettles, ConnectionMinds DEF ReconnectFires
<1>7. CASE ResponseFires
  BY <1>1, <1>2, <1>3, <1>7, TimersSettle, TurnTends DEF ResponseFires
<1>8. CASE FillerFires
  BY <1>1, <1>2, <1>3, <1>8, TimersSettle, TalksTends DEF FillerFires
<1>9. CASE RecoveryFires
  BY <1>1, <1>2, <1>3, <1>9, TimersSettle, TalksTends DEF RecoveryFires
<1>10. CASE HorizonPasses
  BY <1>1, <1>2, <1>3, <1>10, TimersSettle, TalksTends DEF HorizonPasses
<1> QED BY <1>4, <1>5, <1>6, <1>7, <1>8, <1>9, <1>10 DEF Timer

LEMMA SpokenStepKept ==
    ASSUME LinkInv, TurnIsKept,
           Launch \/ SayLine \/ ToolReturns \/ EndCallTool \/ GuardGoodbye
    PROVE  TurnIsKept'
<1>1. p \in Idle /\ p \in Provider /\ told \in Told /\ Linked(p, told) /\ call \in Call
  BY DEF LinkInv, Attuned, Idle
<1>2. Patient(p) /\ Composed(p)
  BY <1>1, KeptIsComposed DEF TurnIsKept, Kept
<1>3. CASE Launch
  <2>1. Settles(p, told, StartSession(p)) /\ Moves(p, StartSession(p))
    BY <1>1, <1>2, <1>3, ConnectionSettles, ConnectionMinds DEF Launch
  <2> QED BY <1>3, <2>1, StepKept DEF Launch, Step
<1>4. Settles(p, told, Say(p)) /\ Tends(p, Say(p))
  BY <1>1, <1>2, TimersSettle, TalksTends
<1>5. CASE SayLine
  <2>1. UNCHANGED <<p, net>> \/ \E c : Apply(Say(p), net, line, c)
    BY <1>5 DEF SayLine
  <2>2. CASE UNCHANGED <<p, net>>
    BY <2>2 DEF TurnIsKept
  <2> QED BY <1>4, <2>1, <2>2, StepKept
<1>6. CASE ToolReturns
  <2>1. PICK t \in call.running \ {EndCall} :
             Apply(SendToolResult(p, t), net, line, [call EXCEPT !.running = @ \ {t}])
    BY <1>6 DEF ToolReturns
  <2>2. t \in Tools
    BY <1>1 DEF Call
  <2>3. Settles(p, told, SendToolResult(p, t)) /\ Tends(p, SendToolResult(p, t))
    BY <1>1, <1>2, <2>2, ResultSettles, TalksTends DEF Idle
  <2> QED BY <2>1, <2>3, StepKept
<1>7. CASE EndCallTool
  <2> DEFINE deaf == IF Talking THEN SuppressBargeIn(p) ELSE p
             spoken == Talking /\ line.frames = <<>>
             told_off == IF spoken /\ "vendor" \notin Mishaps THEN Say(deaf) ELSE deaf
             l == IF spoken /\ "vendor" \in Mishaps THEN FixedLine(line) ELSE line
             u == SendToolResult(told_off, EndCall)
  <2>1. EndCall \in Tools
    BY <1>1, <1>7 DEF EndCallTool, Call
  <2>2. deaf \in {p, SuppressBargeIn(p)}
    OBVIOUS
  <2>3. told_off \in {deaf, Say(deaf)}
    OBVIOUS
  <2>4. Apply(u, net, l, Closing(call))
    BY <1>7 DEF EndCallTool
  <2> HIDE DEF deaf, told_off, l
  <2>5. Settles(p, told, u) /\ Tends(p, u)
    BY <1>1, <1>2, <2>1, <2>2, <2>3, FarewellSettles, FarewellTends
  <2> HIDE DEF u
  <2> QED BY <2>4, <2>5, StepKept
<1>8. CASE GuardGoodbye
  <2>1. Apply(Say(p), net, line, Closing(call))
    BY <1>8 DEF GuardGoodbye
  <2> QED BY <1>4, <2>1, StepKept
<1> QED BY <1>3, <1>5, <1>6, <1>7, <1>8

LEMMA OverKept ==
    ASSUME LinkInv, TurnIsKept, p.promise # "none", Over
    PROVE  TurnIsKept'
<1> DEFINE u == StopSession(p)
           l == MarkClosed(line)
           c == [call EXCEPT !.over = TRUE]
<1>1. p \in Idle /\ p \in Provider /\ told \in Told /\ Linked(p, told)
  BY DEF LinkInv, Attuned, Idle
<1>2. Apply(u, net, l, c)
  BY DEF Over
<1>3. Settles(p, told, u) /\ (Tends(p, u) \/ Moves(p, u))
  BY <1>1, KeptIsComposed, ConnectionSettles, ConnectionMinds DEF TurnIsKept
<1> HIDE DEF u, l, c
<1> QED BY <1>2, <1>3, StepKept

LEMMA QuietStepKept ==
    ASSUME LinkInv, TurnIsKept,
           Attach \/ AwaitFarewell \/ FarewellTimesOut \/ HangUp \/ CallerLeaves \/ PlayFrame
    PROVE  TurnIsKept'
<1>1. Linked(p, told) /\ Unlaunched(p, call)
  BY DEF LinkInv
<1>2. CASE Attach \/ AwaitFarewell \/ FarewellTimesOut \/ PlayFrame
  <2>1. UNCHANGED <<p, net>>
    BY <1>2 DEF Attach, AwaitFarewell, FarewellTimesOut, PlayFrame
  <2> QED BY <2>1 DEF TurnIsKept
<1>3. CASE HangUp
  <2>1. call.farewell = "draining" \/ told.close > 0 \/ p.promise = "broken"
    BY <1>3 DEF HangUp
  <2>2. p.promise # "none"
    BY <1>1, <2>1 DEF Unlaunched, Linked, PromiseKept, Witnessed
  <2> QED BY <1>3, <2>2, OverKept DEF HangUp
<1>4. CASE CallerLeaves
  BY <1>4, OverKept DEF CallerLeaves
<1> QED BY <1>2, <1>3, <1>4

LEMMA TurnInit == Init => TurnIsKept
<1> SUFFICES ASSUME Init PROVE TurnIsKept
  OBVIOUS
<1>1. /\ net.wants = 0 /\ net.inbox = <<>> /\ p.active = 0 /\ ~p.queued /\ ~p.ready
      /\ p.pending = 0
  BY DEF Init, NewNet, NewProvider
<1>2. DOMAIN net.inbox = {}
  BY <1>1
<1> QED BY <1>1, <1>2 DEF TurnIsKept, Kept, Patient, Bound, Due, Vacant, Greeted, Fresh

LEMMA TurnStep ==
    ASSUME Punctual, LinkInv, StaysSilent, TurnIsKept, [Next]_vars
    PROVE  TurnIsKept'
<1>1. CASE SocketOpens \/ \E normal \in BOOLEAN : SocketLost(normal)
  BY <1>1, SocketStepKept
<1>2. CASE Server
  BY <1>2, ServerStepKept
<1>3. CASE HandleNext
  BY <1>3, HandledKept
<1>4. CASE Timer
  BY <1>4, TimerStepKept DEF Punctual
<1>5. CASE Orchestrator
  BY <1>5, SpokenStepKept, QuietStepKept DEF Orchestrator
<1>6. CASE UNCHANGED vars
  BY <1>6 DEF vars, TurnIsKept
<1> QED BY <1>1, <1>2, <1>3, <1>4, <1>5, <1>6 DEF Next

\* A turn that waits for the channel is not forgotten: its timer runs, or the
\* response it waits for runs at the server, or the end of that response is on its
\* way, whatever interrupts, collides, fails or is lost in between (requestResponse,
\* flushPendingResponse, handleResponseCreated, abandonCurrentResponse, handleClose).
THEOREM WaitingTurnHasAKey == Punctual => (Spec => []QueuedTurnHasAKey)
<1> SUFFICES ASSUME Punctual PROVE Spec => []QueuedTurnHasAKey
  OBVIOUS
<1>1. Init => LinkInv /\ StaysSilent /\ TurnIsKept
  BY LinkInit, SilenceInit, TurnInit
<1>2. LinkInv /\ StaysSilent /\ TurnIsKept /\ [Next]_vars
         => (LinkInv /\ StaysSilent /\ TurnIsKept)'
  BY LinkStep, SilenceStep, TurnStep DEF LinkKept
<1>3. TurnIsKept => QueuedTurnHasAKey
  BY DEF TurnIsKept, Kept, Patient, Bound, Ending, Done, QueuedTurnHasAKey
<1> QED BY <1>1, <1>2, <1>3, PTL DEF Spec

-------------------------------------------------------------------------------
(***************************************************************************)
(* The caller is heard.                                                    *)
(***************************************************************************)

\* The calls in which whatever plays comes from the model, over one session: no
\* fixed lines of a vendor's, and no socket is lost.
Undisturbed == "vendor" \notin Mishaps /\ MaxDrops = 0

\* Until the call is closing, the provider knows of what is in the queue, and the
\* queue is empty while the caller speaks.
Attends(s, l, c) ==
    ~c.closing => /\ ~s.suppressed
                  /\ l.frames # <<>> => s.audible
                  /\ s.callerSpeaking => s.active = 0 /\ l.frames = <<>>

\* No socket of ours is going.
Whole(n) == \A i \in DOMAIN n.inbox : n.inbox[i].type # "close"

CallerIsHeard == Attends(p, line, call) /\ Whole(net) /\ line \in Queue(Nat \ {0})

LEMMA PushStaysWhole ==
    ASSUME NEW n \in Net, Whole(n), NEW m \in Net, m.inbox = n.inbox
    PROVE  /\ Whole(m)
           /\ \A e \in Event : e.type # "close" => Whole(Push(m, e))
<1>1. Whole(m)
  BY DEF Whole
<1>2. ASSUME NEW e \in Event, e.type # "close" PROVE Whole(Push(m, e))
  <2> DEFINE k == Push(m, e)
  <2>1. n.inbox \in Seq(Event) /\ k.inbox = Append(n.inbox, e)
    BY DEF Net, Push
  <2>2. /\ \A i \in DOMAIN k.inbox : i \in DOMAIN n.inbox \/ i = Len(n.inbox) + 1
        /\ \A i \in DOMAIN n.inbox : k.inbox[i] = n.inbox[i]
        /\ k.inbox[Len(n.inbox) + 1] = e
    BY <2>1, Appended
  <2> HIDE DEF k
  <2>3. Whole(k)
    BY <1>2, <2>2 DEF Whole
  <2> QED BY <2>3 DEF k
<1> QED BY <1>1, <1>2

LEMMA EndStaysWhole ==
    ASSUME NEW n \in Net, Whole(n), n.active # 0
    PROVE  Whole(EndResponse(n))
<1> DEFINE m == [n EXCEPT !.active = 0]
           e == [type |-> "response.done", response |-> n.active]
<1>1. m \in Net /\ m.inbox = n.inbox /\ e \in Event /\ e.type # "close"
  BY Occurrences DEF Net
<1>2. EndResponse(n) = Push(m, e)
  BY DEF EndResponse
<1> HIDE DEF m, e
<1> QED BY <1>1, <1>2, PushStaysWhole

LEMMA CollideStaysWhole ==
    ASSUME NEW n \in Net, Whole(n)
    PROVE  Whole(Collide(n))
<1> DEFINE m == [n EXCEPT !.collided = TRUE]
           e == [type |-> "conflict"]
<1>1. m \in Net /\ m.inbox = n.inbox /\ e \in Event /\ e.type # "close"
  BY Occurrences DEF Net
<1>2. Collide(n) = Push(m, e)
  BY DEF Collide
<1> HIDE DEF m, e
<1> QED BY <1>1, <1>2, PushStaysWhole

LEMMA NewStaysWhole ==
    ASSUME NEW n \in Net, Whole(n)
    PROVE  Whole(NewResponse(n))
<1> DEFINE r == n.made + 1
           m == [n EXCEPT !.active = r, !.made = r, !.deltas = 0, !.unanswered = {}]
           k == Push(m, Begun(r))
           b == [k EXCEPT !.wants = 0]
<1>1. r \in Nat \ {0}
  BY DEF Net
<1>2. m \in Net /\ m.inbox = n.inbox
  BY <1>1 DEF Net
<1>3. Begun(r) \in Event /\ Begun(r).type # "close"
  BY <1>1, Occurrences DEF Begun
<1>4. NewResponse(n) = IF n.wants > 0 THEN Collide(b) ELSE k
  BY DEF NewResponse, Begun
<1> HIDE DEF m
<1>5. k \in Net /\ Whole(k)
  BY <1>2, <1>3, PushKeeps, PushStaysWhole
<1> HIDE DEF k
<1>6. b \in Net /\ b.inbox = k.inbox
  BY <1>5 DEF Net
<1>7. Whole(b)
  BY <1>5, <1>6, PushStaysWhole
<1> HIDE DEF b
<1> QED BY <1>4, <1>5, <1>6, <1>7, CollideStaysWhole

LEMMA TakenStaysWhole ==
    ASSUME NEW n \in Net, Whole(n), NEW m \in Message
    PROVE  Whole(NetTakes(n, m))
<1> DEFINE k == NetTakes(n, m)
<1>1. \/ m.type = "session.update" \/ m.type = "response.create"
      \/ m.type = "response.cancel" /\ m.response \in Nat \ {0}
      \/ m.type = "result" /\ m.tool \in Tools
  BY DEF Message, Plain, AboutResponse
<1>2. k \in Net
  BY ServerKeeps
<1>3. CASE m.type = "session.update"
  <2>1. k = [n EXCEPT !.owes = TRUE]
    BY <1>3 DEF NetTakes
  <2>2. k.inbox = n.inbox
    BY <2>1 DEF Net
  <2> HIDE DEF k
  <2> QED BY <1>2, <2>2, PushStaysWhole DEF k
<1>4. CASE m.type = "response.create"
  <2>1. k = IF n.active # 0 THEN Collide(n) ELSE [n EXCEPT !.wants = @ + 1]
    BY <1>4 DEF NetTakes
  <2> HIDE DEF k
  <2>2. CASE n.active # 0
    BY <2>1, <2>2, CollideStaysWhole DEF k
  <2>3. CASE n.active = 0
    <3>1. k.inbox = n.inbox
      BY <2>1, <2>3 DEF Net
    <3> QED BY <1>2, <3>1, PushStaysWhole DEF k
  <2> QED BY <2>2, <2>3
<1>5. CASE m.type = "response.cancel" /\ m.response \in Nat \ {0}
  <2>1. k = IF n.active = m.response THEN EndResponse(n) ELSE n
    BY <1>5 DEF NetTakes
  <2> HIDE DEF k
  <2> QED BY <1>5, <2>1, EndStaysWhole DEF k
<1>6. CASE m.type = "result" /\ m.tool \in Tools
  <2>1. k = [n EXCEPT !.unanswered = @ \cup {m.tool}]
    BY <1>6 DEF NetTakes
  <2>2. k.inbox = n.inbox
    BY <2>1 DEF Net
  <2> HIDE DEF k
  <2> QED BY <1>2, <2>2, PushStaysWhole DEF k
<1> QED BY <1>1, <1>3, <1>4, <1>5, <1>6

LEMMA AllTakenStaysWhole ==
    ASSUME NEW n \in Net, Whole(n), NEW out \in Seq(Message), Brief(out)
    PROVE  Whole(FoldLeft(NetTakes, n, out))
<1>1. ASSUME NEW x \in Net, NEW m \in Message, Whole(x)
      PROVE  NetTakes(x, m) \in Net /\ Whole(NetTakes(x, m))
  BY <1>1, ServerKeeps, TakenStaysWhole
<1>2. \/ out = <<>>
      \/ \E a \in Message : out = <<a>>
      \/ \E a, b \in Message : out = <<a, b>>
  BY BriefElements
<1>3. CASE out = <<>>
  BY <1>3, ServerTakes
<1>4. ASSUME NEW a \in Message, out = <<a>> PROVE Whole(FoldLeft(NetTakes, n, out))
  <2>1. FoldLeft(NetTakes, n, out) = NetTakes(n, a)
    BY <1>4, ServerTakes
  <2> QED BY <1>1, <2>1
<1>5. ASSUME NEW a \in Message, NEW b \in Message, out = <<a, b>>
      PROVE  Whole(FoldLeft(NetTakes, n, out))
  <2>1. FoldLeft(NetTakes, n, <<a, b>>) = NetTakes(NetTakes(n, a), b)
    <3>1. \A x, y : FoldLeft(NetTakes, n, <<x, y>>) = NetTakes(NetTakes(n, x), y)
      BY ServerTakes
    <3> QED BY <3>1
  <2> QED BY <1>1, <1>5, <2>1
<1> QED BY <1>2, <1>3, <1>4, <1>5

\* The step of Apply, given what the handlers of the call have made of the queue.
LEMMA ApplyAttends ==
    ASSUME LinkInv, NEW u, NEW n \in Net, Whole(n), NEW l, NEW c,
           Settles(p, told, u), Apply(u, n, l, c),
           NEW w, w = CallTakesAll([line |-> l, call |-> c], u.calls, p.active),
           Attends(u, w.line, w.call), w.line \in Queue(Nat \ {0})
    PROVE  CallerIsHeard'
<1>1. /\ u \in Provider /\ u.out \in Seq(Message) /\ (u.socket = p.socket => Brief(u.out))
      /\ net \in Net
  BY DEF Settles, StaysLinked, Provider, LinkInv, Attuned
<1>2. /\ p' = [u EXCEPT !.out = <<>>, !.calls = <<>>]
      /\ net' = IF u.socket # p.socket THEN NewNet(net.made) ELSE FoldLeft(NetTakes, n, u.out)
      /\ line' = w.line /\ call' = w.call
  BY DEF Apply
<1>3. Whole(net')
  <2>1. CASE u.socket = p.socket
    BY <1>1, <1>2, <2>1, AllTakenStaysWhole
  <2>2. CASE u.socket # p.socket
    <3>1. net' = NewNet(net.made)
      BY <1>2, <2>2
    <3>2. NewNet(net.made).inbox = <<>>
      BY DEF NewNet
    <3>3. DOMAIN net'.inbox = {}
      BY <3>1, <3>2
    <3> QED BY <3>3 DEF Whole
  <2> QED BY <2>1, <2>2
<1>4. /\ p'.active = u.active /\ p'.audible = u.audible /\ p'.suppressed = u.suppressed
      /\ p'.callerSpeaking = u.callerSpeaking
  BY <1>1, <1>2 DEF Provider
<1>5. Attends(p', line', call')
  BY <1>2, <1>4 DEF Attends
<1> QED BY <1>2, <1>3, <1>5 DEF CallerIsHeard

\* A handler that gives the caller no less attention, and plays nothing.
Hushes(s, u) ==
    /\ u.suppressed => s.suppressed
    /\ u.callerSpeaking => s.callerSpeaking
    /\ s.active = 0 => u.active = 0
    /\ Unvoiced(u.calls)

LEMMA HushAttends ==
    ASSUME LinkInv, CallerIsHeard, NEW u, Settles(p, told, u), Unvoiced(u.calls),
           NEW n \in Net, Whole(n), NEW l \in Queue(Nat \ {0}), NEW c \in Call,
           \/ c.closing
           \/ /\ Hushes(p, u)
              /\ l.frames # <<>> => line.frames # <<>> /\ (p.audible => u.audible)
              /\ c.closing = call.closing,
           Apply(u, n, l, c)
    PROVE  CallerIsHeard'
<1> DEFINE x == [line |-> l, call |-> c]
           w == CallTakesAll(x, u.calls, p.active)
<1>1. /\ p.active \in Nat /\ u.calls \in Seq(Telling) /\ Brief(u.calls)
  BY DEF Settles, StaysLinked, Provider, LinkInv, Attuned, Idle
<1>2. x \in World
  <2>1. Nat \ {0} \subseteq Nat
    OBVIOUS
  <2>2. l \in Queue(Nat)
    BY <2>1, QueueWidens
  <2> QED BY <2>2 DEF World
<1>3. w.line = l /\ SameCall(c, w.call)
  <2>1. x.line = l /\ x.call = c
    OBVIOUS
  <2> HIDE DEF x
  <2> QED BY <1>1, <1>2, <2>1, UnvoicedIsUnheard, CallHearsBrief
<1> HIDE DEF w, x
<1>4. Attends(u, w.line, w.call)
  <2>1. CASE c.closing
    BY <1>3, <2>1 DEF SameCall, Attends
  <2>2. CASE ~c.closing
    BY <1>3, <2>2 DEF SameCall, Attends, Hushes, CallerIsHeard
  <2> QED BY <2>1, <2>2
<1>5. w = CallTakesAll([line |-> l, call |-> c], u.calls, p.active)
  BY DEF w, x
<1> QED BY <1>3, <1>4, <1>5, ApplyAttends

\* ... and a step that leaves the provider alone.
LEMMA AsideAttends ==
    ASSUME CallerIsHeard, UNCHANGED p, call'.closing = call.closing, Whole(net'),
           line' \in Queue(Nat \ {0}), line'.frames # <<>> => line.frames # <<>>
    PROVE  CallerIsHeard'
BY DEF CallerIsHeard, Attends

LEMMA EarHushes ==
    ASSUME NEW s, NEW u, SameEar(s, u), Unvoiced(u.calls)
    PROVE  Hushes(s, u) /\ u.audible = s.audible
BY DEF SameEar, Hushes

\* The handlers that hush.
Quiets(s, u) == Hushes(s, u) /\ u.audible = s.audible

LEMMA TimersQuiet ==
    ASSUME NEW s \in Idle
    PROVE  /\ Quiets(s, ResponseTimer(s))
           /\ Quiets(s, FillerTimer(s)) /\ Quiets(s, RecoveryTimer(s))
           /\ Quiets(s, Say(s))
           /\ \A t \in Tools : Quiets(s, SendToolResult(s, t))
           /\ Hushes(s, [s EXCEPT !.audible = FALSE])
<1>1. s \in Provider /\ s.calls = <<>>
  BY DEF Idle
<1>2. Quiets(s, ResponseTimer(s))
  BY ResponseTimerAsks, UnvoicedOnes, EarHushes DEF Quiets
<1>3. ASSUME NEW u, Talks(s, u) PROVE Quiets(s, u)
  BY <1>1, <1>3, UnvoicedOnes, EarHushes DEF Talks, Quiets
<1>4. Quiets(s, FillerTimer(s)) /\ Quiets(s, RecoveryTimer(s))
  BY <1>1, <1>3, FillerTalks
<1>5. Quiets(s, Say(s))
  BY <1>1, <1>3, SayTalks
<1>6. Hushes(s, [s EXCEPT !.audible = FALSE])
  <2> DEFINE u == [s EXCEPT !.audible = FALSE]
  <2>1. u \in Idle /\ u.active = s.active /\ u.callerSpeaking = s.callerSpeaking
        /\ u.suppressed = s.suppressed
    BY FlagsAlone
  <2> HIDE DEF u
  <2>2. Hushes(s, u)
    BY <2>1, UnvoicedOnes DEF Hushes, Idle
  <2> QED BY <2>2 DEF u
<1>7. ASSUME NEW t \in Tools PROVE Quiets(s, SendToolResult(s, t))
  <2>1. SameEar(s, SendToolResult(s, t)) /\ SendToolResult(s, t).calls = <<>>
    BY <1>1, <1>7, ResultTalks
  <2> QED BY <2>1, UnvoicedOnes, EarHushes DEF Quiets
<1> QED BY <1>2, <1>4, <1>5, <1>6, <1>7

LEMMA OthersQuiet ==
    ASSUME NEW s \in Idle
    PROVE  /\ Quiets(s, HandleSpeechStopped(s))
           /\ Quiets(s, HandleConflict(s)) /\ Quiets(s, HandleComplaint(s))
           /\ Quiets(s, HandleOtherError(s))
           /\ \A t \in Tools : Quiets(s, HandleFunctionCall(s, t))
<1>1. Quiets(s, HandleSpeechStopped(s))
  <2>1. LET u == HandleSpeechStopped(s)
        IN  /\ u \in Idle /\ u.active = s.active /\ u.audible = s.audible
            /\ ~u.callerSpeaking /\ u.suppressed = s.suppressed
    BY FlagsAlone
  <2> QED BY <2>1, UnvoicedOnes DEF Quiets, Hushes, Idle
<1>2. Quiets(s, HandleConflict(s))
  BY ConflictQueues, UnvoicedOnes, EarHushes DEF Quiets
<1>3. Quiets(s, HandleOtherError(s))
  BY OthersAreIndifferent, UnvoicedOnes, EarHushes DEF Indifferent, Quiets
<1>4. Quiets(s, HandleComplaint(s))
  <2>1. /\ SameEar(s, HandleComplaint(s))
        /\ HandleComplaint(s).calls \in {<<>>, <<[type |-> "error"]>>}
    BY OthersAreIndifferent DEF Indifferent
  <2> QED BY <2>1, UnvoicedOnes, EarHushes DEF Quiets
<1>5. ASSUME NEW t \in Tools PROVE Quiets(s, HandleFunctionCall(s, t))
  <2>1. /\ SameEar(s, HandleFunctionCall(s, t))
        /\ HandleFunctionCall(s, t).calls = <<[type |-> "tool", tool |-> t]>>
    BY <1>5, ToolIsPassedOn DEF Indifferent
  <2> QED BY <2>1, UnvoicedOnes, EarHushes DEF Quiets
<1> QED BY <1>1, <1>2, <1>3, <1>4, <1>5

LEMMA ConnectionQuiets ==
    ASSUME NEW s \in Idle, NEW t \in Told, Linked(s, t)
    PROVE  /\ s.socket # 0 =>
                 /\ Quiets(s, HandleSessionCreated(s))
                 /\ Quiets(s, MarkReady(s, s.socket))
                 /\ Quiets(s, HandleTerminalError(s))
                 /\ Quiets(s, SendSessionUpdate([s EXCEPT !.wire = "open"]))
           /\ s.pending # 0 => Quiets(s, AttemptTimeout(s))
           /\ "ready" \in s.timers /\ s.readyFor = s.socket => Quiets(s, ReadyGrace(s))
           /\ "reconnect" \in s.timers => Quiets(s, ReconnectTimer(s))
           /\ s.promise = "none" => Quiets(s, StartSession(s))
           /\ Hushes(s, StopSession(s))
<1>1. s \in Provider /\ s.out = <<>> /\ s.calls = <<>>
  BY DEF Idle
<1>2. Quiets(s, s)
  BY <1>1, UnvoicedOnes DEF Quiets, Hushes
<1>3. ASSUME s.socket # 0 PROVE Quiets(s, HandleSessionCreated(s))
  <2>1. SameEar(s, HandleSessionCreated(s)) /\ HandleSessionCreated(s).calls = <<>>
    BY CreatedArms DEF Idle
  <2> QED BY <2>1, UnvoicedOnes, EarHushes DEF Quiets
<1>4. ASSUME NEW u, ReadyTells(s, u), ReadyAsks(s, u) PROVE Quiets(s, u)
  BY <1>4, UnvoicedOnes, EarHushes DEF ReadyTells, ReadyAsks, Quiets
<1>5. ASSUME s.socket # 0 PROVE Quiets(s, MarkReady(s, s.socket))
  <2>1. CASE s.ready
    <3>1. MarkReady(s, s.socket) = s
      BY <2>1 DEF MarkReady
    <3> QED BY <1>2, <3>1
  <2>2. CASE ~s.ready
    <3>1. ~s.stopped /\ s.pending \in {0, s.socket}
      BY <1>1, <1>5, ConnectedIsOpen
    <3> QED BY <1>4, <2>2, <3>1, ReadyMarks
  <2> QED BY <2>1, <2>2
<1>6. ASSUME NEW u, GivesSocketUp(s, u), u.calls \in {<<>>, Failure} PROVE Quiets(s, u)
  BY <1>6, UnvoicedOnes, EarHushes DEF GivesSocketUp, Quiets
<1>7. ASSUME s.socket # 0 PROVE Quiets(s, HandleTerminalError(s))
  <2> DEFINE u == HandleTerminalError(s)
  <2>1. ~s.stopped /\ ~s.closeEmitted /\ "reconnect" \notin s.timers /\ s.pending \in {0, s.socket}
    BY <1>1, <1>7, ConnectedIsOpen
  <2>2. GivesSocketUp(s, u) /\ u.calls \in {<<>>, Failure}
    BY <1>7, <2>1, TerminalGivesUp DEF PromiseBreaks
  <2> HIDE DEF u
  <2>3. Quiets(s, u)
    BY <1>6, <2>2
  <2> QED BY <2>3 DEF u
<1>8. ASSUME s.socket # 0 PROVE Quiets(s, SendSessionUpdate([s EXCEPT !.wire = "open"]))
  BY <1>8, OpenSendsUpdate, UnvoicedOnes, EarHushes DEF Quiets
<1>9. ASSUME s.pending # 0 PROVE Quiets(s, AttemptTimeout(s))
  <2> DEFINE u == AttemptTimeout(s)
  <2>1. /\ ~s.terminal /\ s.socket \in {0, s.pending}
        /\ (s.socket = 0 <=> s.wire = "none") /\ (s.ready => s.socket # 0)
        /\ ~s.stopped => ~s.closeEmitted /\ "reconnect" \notin s.timers
    BY <1>9 DEF Linked, Sockets, Endings
  <2>2. GivesSocketUp(s, u) /\ u.calls \in {<<>>, Failure}
    BY <1>9, <2>1, TimeoutGivesUp DEF PromiseBreaks, GoesOn
  <2> HIDE DEF u
  <2>3. Quiets(s, u)
    BY <1>6, <2>2
  <2> QED BY <2>3 DEF u
<1>10. ASSUME "ready" \in s.timers, s.readyFor = s.socket PROVE Quiets(s, ReadyGrace(s))
  <2> DEFINE u == ReadyGrace(s)
  <2>1. s.socket # 0 /\ s.opened \in Nat
    BY <1>1, <1>10 DEF Linked, Sockets, Provider
  <2>2. ~s.stopped /\ s.pending \in {0, s.socket}
    BY <1>1, <2>1, ConnectedIsOpen
  <2>3. (ReadyTells(s, u) /\ ReadyAsks(s, u)) \/ u = Disarm(s, {"ready"})
    BY <1>10, <2>2, GraceMarks
  <2>4. CASE u = Disarm(s, {"ready"})
    <3>1. SameEar(s, u) /\ u.calls = <<>>
      BY <1>1, <2>4 DEF Provider, Disarm, SameEar
    <3> HIDE DEF u
    <3>2. Quiets(s, u)
      BY <3>1, UnvoicedOnes, EarHushes DEF Quiets
    <3> QED BY <3>2 DEF u
  <2>5. CASE ReadyTells(s, u) /\ ReadyAsks(s, u)
    BY <1>4, <2>5
  <2> QED BY <2>3, <2>4, <2>5
<1>11. ASSUME NEW u, Opens(s, u) PROVE Quiets(s, u)
  BY <1>11, UnvoicedOnes, EarHushes DEF Opens, Quiets
<1>12. ASSUME "reconnect" \in s.timers PROVE Quiets(s, ReconnectTimer(s))
  <2>1. ~s.stopped
    BY <1>12 DEF Linked, Endings
  <2> QED BY <1>11, <2>1, OpeningOpens
<1>13. ASSUME s.promise = "none" PROVE Quiets(s, StartSession(s))
  <2>1. "reconnect" \notin s.timers
    BY <1>13 DEF Linked, PromiseKept
  <2> QED BY <1>11, <2>1, OpeningOpens
<1>14. Hushes(s, StopSession(s))
  <2> DEFINE u == StopSession(s)
  <2>1. CASE s.stopped
    <3>1. u = s
      BY <2>1 DEF StopSession
    <3> QED BY <1>2, <3>1 DEF Quiets
  <2>2. CASE ~s.stopped
    <3>1. Stops(s, u) /\ Falls(s, u)
      BY <2>2, StopStops
    <3> HIDE DEF u
    <3>2. Hushes(s, u)
      BY <3>1, UnvoicedOnes DEF Stops, Falls, Hushes
    <3> QED BY <3>2 DEF u
  <2> QED BY <2>1, <2>2
<1> QED BY <1>3, <1>5, <1>7, <1>8, <1>9, <1>10, <1>12, <1>13, <1>14

\* The caller speaks: what plays yields.
LEMMA SpeechAttends ==
    ASSUME LinkInv, CallerIsHeard, net.inbox # <<>>, p.socket # 0,
           NEW n \in Net, Whole(n),
           Apply(HandleSpeechStarted(p), n, line, call)
    PROVE  CallerIsHeard' /\ (~call.closing => line'.frames = <<>>)
<1> DEFINE u == HandleSpeechStarted(p)
           x == [line |-> line, call |-> call]
           w == CallTakesAll(x, u.calls, p.active)
<1>1. /\ p \in Idle /\ told \in Told /\ Linked(p, told)
      /\ line \in Queue(Nat) /\ call \in Call
      /\ Attends(p, line, call) /\ line \in Queue(Nat \ {0})
  BY DEF LinkInv, Attuned, CallerIsHeard
<1>2. Settles(p, told, u) /\ Yields(p, u)
  BY <1>1, SpeechSettles, SpeechYields
<1>3. Apply(u, n, line, call) /\ line' = w.line
  BY DEF Apply
<1> HIDE DEF u
<1>4. ASSUME Attends(u, w.line, w.call), w.line \in Queue(Nat \ {0}),
             ~call.closing => w.line.frames = <<>>
      PROVE  CallerIsHeard' /\ (~call.closing => line'.frames = <<>>)
  <2>1. w = CallTakesAll([line |-> line, call |-> call], u.calls, p.active)
    OBVIOUS
  <2> HIDE DEF w
  <2> QED BY <1>2, <1>3, <1>4, <2>1, ApplyAttends
<1>5. CASE /\ (p.active = 0 /\ ~p.audible) \/ p.suppressed
           /\ u.active = p.active /\ u.audible = p.audible
           /\ u.calls = <<[type |-> "speech"]>>
  <2>1. w = CallTakes(x, [type |-> "speech"], p.active)
    <3>1. \A a : CallTakesAll(x, <<a>>, p.active) = CallTakes(x, a, p.active)
      BY CallHears
    <3> QED BY <1>5, <3>1
  <2>2. CallTakes(x, [type |-> "speech"], p.active) = x
    BY DEF CallTakes
  <2>3. w.line = line /\ w.call = call
    BY <2>1, <2>2
  <2> HIDE DEF w
  <2>4. ~call.closing => u.active = 0 /\ line.frames = <<>> /\ ~u.suppressed
    BY <1>1, <1>2, <1>5 DEF Attends, Yields
  <2>5. Attends(u, w.line, w.call)
    BY <2>3, <2>4 DEF Attends
  <2> QED BY <1>1, <1>4, <2>3, <2>4, <2>5
<1>6. CASE /\ ~p.suppressed
           /\ u.active = 0 /\ u.calls = Interruption
  <2> DEFINE off == ({p.active} \cup Playing(line)) \ {0}
  <2>1. w = CallTakes(CallTakes(x, [type |-> "speech"], p.active),
                      [type |-> "interruption"], p.active)
    <3>1. \A a, b : CallTakesAll(x, <<a, b>>, p.active) =
                       CallTakes(CallTakes(x, a, p.active), b, p.active)
      BY CallHears
    <3> QED BY <1>6, <3>1 DEF Interruption
  <2>2. CallTakes(x, [type |-> "speech"], p.active) = x
    BY DEF CallTakes
  <2>3. w = IF ~call.closing
            THEN [line |-> Discard(line), call |-> [call EXCEPT !.silenced = @ \cup off]]
            ELSE x
    BY <2>1, <2>2 DEF CallTakes, Playing
  <2> HIDE DEF w, off
  <2>4. CASE call.closing
    <3>1. w.line = line /\ w.call = call
      BY <2>3, <2>4
    <3>2. Attends(u, w.line, w.call)
      BY <2>4, <3>1 DEF Attends
    <3> QED BY <1>1, <1>4, <2>4, <3>1, <3>2
  <2>5. CASE ~call.closing
    <3>1. w.line = Discard(line)
      BY <2>3, <2>5
    <3>2. Discard(line).frames = <<>> /\ Discard(line) \in Queue(Nat \ {0})
      BY <1>1, QueueKeeps DEF Discard, Settle, Queue
    <3>3. ~u.suppressed
      BY <1>2, <1>6 DEF Yields
    <3>4. Attends(u, w.line, w.call)
      BY <1>6, <3>1, <3>2, <3>3 DEF Attends
    <3> QED BY <1>4, <3>1, <3>2, <3>4
  <2> QED BY <2>4, <2>5
<1> QED BY <1>2, <1>5, <1>6 DEF Yields

\* A piece of audio is passed on: it is of the response the provider speaks, so the
\* caller is not speaking.
LEMMA PieceAttends ==
    ASSUME LinkInv, StaysSilent, CallerIsHeard, net.inbox # <<>>, p.socket # 0,
           NEW r \in Nat \ {0}, Head(net.inbox) = Piece(r), NEW n \in Net, Whole(n),
           Apply(HandleAudioDelta(p, r), n, line, call)
    PROVE  CallerIsHeard'
<1> DEFINE u == HandleAudioDelta(p, r)
           x == [line |-> line, call |-> call]
           w == CallTakesAll(x, u.calls, p.active)
           a == Piece(r)
<1>1. /\ p \in Idle /\ p \in Provider /\ told \in Told /\ Linked(p, told) /\ net \in Net
      /\ call \in Call /\ Attends(p, line, call) /\ line \in Queue(Nat \ {0})
  BY DEF LinkInv, Attuned, CallerIsHeard, Idle
<1>2. Settles(p, told, u)
  BY <1>1, SpeechSettles
<1>3. Apply(u, n, line, call)
  OBVIOUS
<1>4. CASE r \in p.cancelled
  <2>1. u = p
    BY <1>4 DEF HandleAudioDelta
  <2>2. Quiets(p, u)
    BY <1>1, <2>1, UnvoicedOnes DEF Quiets, Hushes, Idle
  <2> HIDE DEF u
  <2> QED BY <1>1, <1>2, <1>3, <2>2, HushAttends DEF Quiets, Hushes
<1>5. CASE r \notin p.cancelled
  <2>1. r = p.active
    <3>1. n \in Net /\ 1 \in DOMAIN net.inbox /\ net.inbox[1] = Piece(r)
      BY <1>1, Rest DEF Net
    <3>2. Known(p, net.inbox, 1, r)
      BY <3>1 DEF StaysSilent, InOrder, Heeded, Piece
    <3>3. ASSUME NEW j \in DOMAIN net.inbox, j < 1 PROVE FALSE
      <4>1. j \in 1..Len(net.inbox) /\ Len(net.inbox) \in Nat
        BY <1>1 DEF Net
      <4> QED BY <3>3, <4>1
    <3> QED BY <1>5, <3>2, <3>3 DEF Known
  <2>2. /\ u.calls = <<a>> /\ u.audible /\ u.active = p.active
        /\ u.callerSpeaking = p.callerSpeaking /\ u.suppressed = p.suppressed
    BY <1>1, <1>5, AudioIsPassedOn DEF Piece
  <2> HIDE DEF u
  <2>3. w = CallTakes(x, a, p.active)
    <3>1. \A c : CallTakesAll(x, <<c>>, p.active) = CallTakes(x, c, p.active)
      BY CallHears
    <3> QED BY <2>2, <3>1
  <2> HIDE DEF w
  <2>4. a.type = "audio" /\ a.response = r
    BY DEF Piece
  <2> HIDE DEF a
  <2>5. w = IF call.attached THEN [x EXCEPT !.line = SendAudio(@, <<r>>)] ELSE x
    BY <2>3, <2>4 DEF CallTakes
  <2>6. w.call = call /\ (w.line = line \/ w.line = SendAudio(line, <<r>>))
    BY <2>5
  <2>7. SendAudio(line, <<r>>) \in Queue(Nat \ {0})
    <3> DEFINE S == Nat \ {0}
    <3>1. r \in S
      OBVIOUS
    <3> HIDE DEF S
    <3>2. <<r>> \in Seq(S)
      BY <3>1
    <3> QED BY <1>1, <3>2, SendKeeps DEF S
  <2>8. Attends(u, w.line, w.call)
    BY <1>1, <2>1, <2>2, <2>6 DEF Attends
  <2>9. w.line \in Queue(Nat \ {0})
    BY <1>1, <2>6, <2>7
  <2>10. w = CallTakesAll([line |-> line, call |-> call], u.calls, p.active)
    BY DEF w
  <2> HIDE DEF x
  <2> QED BY <1>2, <1>3, <2>8, <2>9, <2>10, ApplyAttends
<1> QED BY <1>4, <1>5

\* A response begins, or ends: nothing is said to the call.
LEMMA TurnAttends ==
    ASSUME LinkInv, CallerIsHeard, NEW u, Settles(p, told, u), u.calls = <<>>,
           NEW n \in Net, Whole(n), Attends(u, line, call), Apply(u, n, line, call)
    PROVE  CallerIsHeard'
<1> DEFINE w == CallTakesAll([line |-> line, call |-> call], u.calls, p.active)
<1>1. w = [line |-> line, call |-> call]
  BY CallHears
<1>2. w.line = line /\ w.call = call
  BY <1>1
<1> HIDE DEF w
<1>3. line \in Queue(Nat \ {0})
  BY DEF CallerIsHeard
<1> QED BY <1>2, <1>3, ApplyAttends DEF w

LEMMA HandledAttends ==
    ASSUME LinkInv, StaysSilent, CallerIsHeard, HandleNext
    PROVE  /\ CallerIsHeard'
           /\ Head(net.inbox).type = "speech_started" /\ ~call.closing => line'.frames = <<>>
<1> DEFINE e == Head(net.inbox)
           u == Handle(e)
           n == [net EXCEPT !.inbox = Tail(@)]
<1>1. /\ p \in Idle /\ p \in Provider /\ told \in Told /\ Linked(p, told) /\ net \in Net
      /\ call \in Call /\ Attends(p, line, call) /\ Whole(net) /\ line \in Queue(Nat \ {0})
  BY DEF LinkInv, Attuned, Idle, CallerIsHeard
<1>2. p.socket # 0 /\ net.inbox # <<>> /\ Apply(u, n, line, call)
  BY DEF HandleNext
<1>3. n \in Net /\ e \in Event /\ Whole(n) /\ e.type # "close"
  <2>1. n \in Net /\ e \in Event
    BY <1>1, <1>2, PushKeeps
  <2>2. /\ n.inbox = Tail(net.inbox) /\ net.inbox \in Seq(Event)
    BY <1>1 DEF Net
  <2> HIDE DEF n
  <2>3. /\ 1 \in DOMAIN net.inbox /\ net.inbox[1] = e
        /\ \A i \in DOMAIN n.inbox : i + 1 \in DOMAIN net.inbox
                                     /\ n.inbox[i] = net.inbox[i + 1]
    BY <1>2, <2>2, Rest
  <2>4. e.type # "close" /\ Whole(n)
    BY <1>1, <2>3 DEF Whole
  <2> QED BY <2>1, <2>4
<1>4. \/ e.type \in {"session.created", "session.updated", "speech_started",
                     "speech_stopped", "conflict", "terminal", "complaint", "error"}
      \/ \E r \in Nat \ {0} : e = Begun(r)
      \/ \E r \in Nat \ {0} : e = Piece(r)
      \/ e.type = "response.done" /\ e.response \in Nat \ {0}
      \/ e.type = "tool" /\ e.tool \in Tools
  BY <1>3 DEF Event, Plain, AboutResponse, AboutTool, Begun, Piece
<1>5. ASSUME Settles(p, told, u), Quiets(p, u) PROVE CallerIsHeard'
  <2> HIDE DEF u, n
  <2> QED BY <1>1, <1>2, <1>3, <1>5, HushAttends DEF Quiets, Hushes
<1> HIDE DEF e
<1>6. CASE e.type \in {"session.created", "session.updated", "terminal"}
  BY <1>1, <1>2, <1>5, <1>6, ConnectionSettles, ConnectionQuiets DEF Handle, e
<1>7. CASE e.type \in {"speech_stopped", "conflict", "complaint", "error"}
  BY <1>1, <1>2, <1>5, <1>7, SpeechSettles, OthersQuiet DEF Handle, e
<1>8. CASE e.type = "tool" /\ e.tool \in Tools
  <2>1. CallerIsHeard'
    BY <1>1, <1>2, <1>5, <1>8, SpeechSettles, OthersQuiet DEF Handle
  <2> QED BY <1>8, <2>1 DEF e
<1>9. CASE e.type = "speech_started"
  <2>1. u = HandleSpeechStarted(p)
    BY <1>9 DEF Handle
  <2> HIDE DEF n
  <2> QED BY <1>2, <1>3, <2>1, SpeechAttends DEF e
<1>10. ASSUME NEW r \in Nat \ {0}, e = Piece(r) PROVE CallerIsHeard' /\ e.type # "speech_started"
  <2>1. u = HandleAudioDelta(p, r)
    BY <1>10 DEF Handle, Piece
  <2> HIDE DEF n
  <2> QED BY <1>2, <1>3, <1>10, <2>1, PieceAttends DEF e, Piece
<1>11. ASSUME NEW r \in Nat \ {0}, e = Begun(r) PROVE CallerIsHeard' /\ e.type # "speech_started"
  <2>1. u = HandleResponseCreated(p, r)
    BY <1>11 DEF Handle, Begun
  <2>2. Settles(p, told, u) /\ Begins(p, u, r)
    BY <1>1, <1>2, <2>1, SpeechSettles, CreatedBegins
  <2> HIDE DEF u, n
  <2>3. Attends(u, line, call) /\ u.calls = <<>>
    BY <1>1, <2>2 DEF Attends, Begins
  <2> QED BY <1>2, <1>3, <1>11, <2>2, <2>3, TurnAttends DEF Begun
<1>12. CASE e.type = "response.done" /\ e.response \in Nat \ {0}
  <2>1. u = HandleResponseDone(p, e.response)
    BY <1>12 DEF Handle
  <2>2. Settles(p, told, u) /\ Ends(p, u, e.response)
    BY <1>1, <1>2, <1>12, <2>1, SpeechSettles, DoneEnds
  <2> HIDE DEF u, n
  <2>3. Attends(u, line, call) /\ u.calls = <<>>
    BY <1>1, <2>2 DEF Attends, Ends
  <2>4. CallerIsHeard'
    BY <1>2, <1>3, <2>2, <2>3, TurnAttends
  <2> QED BY <1>12, <2>4 DEF e
<1> QED BY <1>4, <1>6, <1>7, <1>8, <1>9, <1>10, <1>11, <1>12 DEF e

\* The connection opens; it is not lost.
LEMMA SocketStepAttends ==
    ASSUME Undisturbed, LinkInv, CallerIsHeard,
           SocketOpens \/ \E normal \in BOOLEAN : SocketLost(normal)
    PROVE  CallerIsHeard'
<1>1. /\ p \in Idle /\ told \in Told /\ Linked(p, told) /\ net \in Net /\ call \in Call
      /\ Whole(net) /\ line \in Queue(Nat \ {0})
  BY DEF LinkInv, Attuned, CallerIsHeard
<1>2. ~ \E normal \in BOOLEAN : SocketLost(normal)
  <2>1. call.drops \in Nat /\ MaxDrops = 0
    BY <1>1 DEF Call, Undisturbed
  <2>2. ~ (call.drops < MaxDrops)
    BY <2>1
  <2> QED BY <2>2 DEF SocketLost
<1> DEFINE u == SendSessionUpdate([p EXCEPT !.wire = "open"])
           e == [type |-> "session.created"]
           n == Push(net, e)
<1>3. SocketOpens /\ Apply(u, n, line, call)
  BY <1>2 DEF SocketOpens
<1>4. p.socket # 0
  BY <1>1, <1>3 DEF SocketOpens, Linked, Sockets
<1>5. Settles(p, told, u) /\ Quiets(p, u)
  BY <1>1, <1>4, ConnectionSettles, ConnectionQuiets
<1>6. e \in Event /\ e.type # "close"
  BY Occurrences
<1> HIDE DEF e
<1>7. n \in Net /\ Whole(n)
  BY <1>1, <1>6, PushKeeps, PushStaysWhole
<1> HIDE DEF u, n
<1> QED BY <1>1, <1>3, <1>5, <1>7, HushAttends DEF Quiets, Hushes

\* The server goes on.
LEMMA ServerOnlyAttends ==
    ASSUME CallerIsHeard, NEW n, Whole(n), ServerOnly(n)
    PROVE  CallerIsHeard'
BY AsideAttends DEF ServerOnly, CallerIsHeard

LEMMA ServerStepAttends ==
    ASSUME LinkInv, CallerIsHeard, Server
    PROVE  CallerIsHeard'
<1>1. net \in Net /\ call \in Call /\ Whole(net) /\ line \in Queue(Nat \ {0})
  BY DEF LinkInv, Attuned, CallerIsHeard
<1>2. ASSUME NEW n \in Net, n.inbox = net.inbox
      PROVE  Whole(n) /\ \A e \in Event : e.type # "close" => Whole(Push(n, e))
  BY <1>1, <1>2, PushStaysWhole
<1>3. /\ [type |-> "session.updated"] \in Event /\ [type |-> "complaint"] \in Event
      /\ [type |-> "terminal"] \in Event /\ [type |-> "error"] \in Event
      /\ [type |-> "speech_started"] \in Event /\ [type |-> "speech_stopped"] \in Event
  BY Occurrences
<1>4. CASE ServerEchoes
  <2> DEFINE n == [net EXCEPT !.owes = FALSE]
  <2>1. n \in Net /\ n.inbox = net.inbox
    BY <1>1 DEF Net
  <2>2. \/ ServerOnly(Push(n, [type |-> "session.updated"]))
        \/ ServerOnly(Push(n, [type |-> "complaint"]))
        \/ ServerOnly(n)
    BY <1>4 DEF ServerEchoes
  <2> HIDE DEF n
  <2> QED BY <1>2, <1>3, <2>1, <2>2, ServerOnlyAttends
<1>5. CASE AccountRefused
  <2>1. ServerOnly(Push(net, [type |-> "terminal"]))
    BY <1>5 DEF AccountRefused
  <2> QED BY <1>1, <1>2, <1>3, <2>1, ServerOnlyAttends
<1>6. CASE ServerAnswers
  <2> DEFINE n == [net EXCEPT !.wants = @ - 1]
  <2>1. n \in Net /\ n.inbox = net.inbox
    <3>1. net.wants - 1 \in Nat
      BY <1>1, <1>6 DEF ServerAnswers, Net
    <3> QED BY <1>1, <3>1 DEF Net
  <2>2. ServerOnly(NewResponse(n)) \/ ServerOnly(Push(n, [type |-> "error"]))
    BY <1>6 DEF ServerAnswers
  <2> HIDE DEF n
  <2>3. Whole(NewResponse(n)) /\ Whole(Push(n, [type |-> "error"]))
    BY <1>2, <1>3, <2>1, NewStaysWhole
  <2> QED BY <2>2, <2>3, ServerOnlyAttends
<1>7. CASE ServerSpeaks
  <2> DEFINE n == [net EXCEPT !.deltas = @ + 1]
             e == Piece(net.active)
  <2>1. ServerOnly(Push(n, e)) /\ net.active \in Nat \ {0}
    BY <1>1, <1>7 DEF ServerSpeaks, Piece, Net
  <2>2. e \in Event /\ e.type # "close"
    BY <2>1, Occurrences DEF Piece
  <2>3. n \in Net /\ n.inbox = net.inbox
    <3>1. net.deltas + 1 \in Nat
      BY <1>1 DEF Net
    <3> QED BY <1>1, <3>1 DEF Net
  <2> HIDE DEF n, e
  <2>4. Whole(Push(n, e))
    BY <1>2, <2>2, <2>3
  <2> QED BY <2>1, <2>4, ServerOnlyAttends
<1>8. CASE ServerCallsTool
  <2>1. PICK t \in Tools :
             /\ net' = Push(net, [type |-> "tool", tool |-> t])
             /\ call' = [call EXCEPT !.asked = @ \cup {t}]
             /\ UNCHANGED <<p, line>>
    BY <1>8 DEF ServerCallsTool
  <2>2. [type |-> "tool", tool |-> t] \in Event
    BY Occurrences
  <2>3. Whole(net')
    BY <1>1, <1>2, <2>1, <2>2
  <2>4. call'.closing = call.closing
    BY <1>1, <2>1 DEF Call
  <2> QED BY <1>1, <2>1, <2>3, <2>4, AsideAttends
<1>9. CASE ServerFinishes
  <2>1. net.active # 0 /\ ServerOnly(EndResponse(net))
    BY <1>9 DEF ServerFinishes, Endable
  <2> QED BY <1>1, <2>1, EndStaysWhole, ServerOnlyAttends
<1>10. CASE CallerHeard
  <2> DEFINE n == [net EXCEPT !.hearing = TRUE]
             h == Push(n, [type |-> "speech_started"])
  <2>1. n \in Net /\ n.inbox = net.inbox /\ n.active = net.active
    BY <1>1 DEF Net
  <2>2. /\ net' = IF Endable THEN EndResponse(h) ELSE h
        /\ call' = [call EXCEPT !.noise = @ + 1] /\ UNCHANGED <<p, line>>
    BY <1>10 DEF CallerHeard
  <2>3. Endable => net.active # 0
    BY DEF Endable
  <2> HIDE DEF n
  <2>4. h \in Net /\ Whole(h) /\ h.active = net.active
    <3>1. h \in Net
      BY <1>3, <2>1, PushKeeps
    <3>2. h.active = n.active
      BY <2>1 DEF Push, Net
    <3>3. Whole(h)
      BY <1>2, <1>3, <2>1
    <3> QED BY <2>1, <3>1, <3>2, <3>3
  <2> HIDE DEF h
  <2>5. Whole(net')
    BY <2>2, <2>3, <2>4, EndStaysWhole
  <2>6. call'.closing = call.closing
    BY <1>1, <2>2 DEF Call
  <2> QED BY <1>1, <2>2, <2>5, <2>6, AsideAttends
<1>11. CASE CallerQuiet
  <2> DEFINE n == [net EXCEPT !.hearing = FALSE]
             q == Push(n, [type |-> "speech_stopped"])
  <2>1. n \in Net /\ n.inbox = net.inbox
    BY <1>1 DEF Net
  <2>2. ServerOnly(NewResponse(q)) \/ ServerOnly(q)
    BY <1>11 DEF CallerQuiet
  <2> HIDE DEF n
  <2>3. q \in Net /\ Whole(q)
    BY <1>2, <1>3, <2>1, PushKeeps
  <2> HIDE DEF q
  <2> QED BY <2>2, <2>3, NewStaysWhole, ServerOnlyAttends
<1> QED BY <1>4, <1>5, <1>6, <1>7, <1>8, <1>9, <1>10, <1>11 DEF Server

\* A timer fires.
LEMMA StepAttends ==
    ASSUME LinkInv, CallerIsHeard, NEW u, Settles(p, told, u), Quiets(p, u), Step(u)
    PROVE  CallerIsHeard'
BY HushAttends DEF Step, LinkInv, Attuned, CallerIsHeard, Quiets, Hushes

\* The model's audio has played out: without a vendor, nothing else is in the queue.
LEMMA HorizonAttends ==
    ASSUME LinkInv, CallerIsHeard, HorizonPasses
    PROVE  CallerIsHeard'
<1> DEFINE u == [p EXCEPT !.audible = FALSE]
<1>1. /\ p \in Idle /\ told \in Told /\ Linked(p, told) /\ net \in Net /\ call \in Call
      /\ Whole(net) /\ line \in Queue(Nat \ {0})
  BY DEF LinkInv, Attuned, CallerIsHeard
<1>2. Settles(p, told, u) /\ Hushes(p, u) /\ Apply(u, net, line, call)
  BY <1>1, TimersSettle, TimersQuiet DEF HorizonPasses, Step
<1>3. line.frames = <<>>
  <2> SUFFICES ASSUME line.frames # <<>> PROVE FALSE
    OBVIOUS
  <2>1. line.frames \in Seq([1..FrameUnits -> Nat \ {0}])
    BY <1>1 DEF Queue, Frames
  <2>2. 1 \in DOMAIN line.frames /\ line.frames[1] \in [1..FrameUnits -> Nat \ {0}]
    BY <2>1
  <2>3. Range(line.frames[1]) = {Vendor}
    BY <2>2 DEF HorizonPasses
  <2> QED BY <2>2, <2>3 DEF Range, Vendor
<1> HIDE DEF u
<1> QED BY <1>1, <1>2, <1>3, HushAttends DEF Hushes

LEMMA TimerStepAttends ==
    ASSUME LinkInv, CallerIsHeard, "late_grace" \notin Mishaps, Timer
    PROVE  CallerIsHeard'
<1>1. p \in Idle /\ told \in Told /\ Linked(p, told)
  BY DEF LinkInv, Attuned
<1>2. CASE AttemptTimesOut
  BY <1>1, <1>2, ConnectionSettles, ConnectionQuiets, StepAttends DEF AttemptTimesOut
<1>3. CASE GraceFires
  BY <1>1, <1>3, ConnectionSettles, ConnectionQuiets, StepAttends DEF GraceFires
<1>4. CASE ReconnectFires
  BY <1>1, <1>4, ConnectionSettles, ConnectionQuiets, StepAttends DEF ReconnectFires
<1>5. CASE ResponseFires
  BY <1>1, <1>5, TimersSettle, TimersQuiet, StepAttends DEF ResponseFires
<1>6. CASE FillerFires
  BY <1>1, <1>6, TimersSettle, TimersQuiet, StepAttends DEF FillerFires
<1>7. CASE RecoveryFires
  BY <1>1, <1>7, TimersSettle, TimersQuiet, StepAttends DEF RecoveryFires
<1>8. CASE HorizonPasses
  BY <1>8, HorizonAttends
<1> QED BY <1>2, <1>3, <1>4, <1>5, <1>6, <1>7, <1>8 DEF Timer

LEMMA SpokenStepAttends ==
    ASSUME Undisturbed, LinkInv, CallerIsHeard,
           Launch \/ SayLine \/ ToolReturns \/ EndCallTool \/ GuardGoodbye
    PROVE  CallerIsHeard'
<1>1. /\ p \in Idle /\ told \in Told /\ Linked(p, told) /\ net \in Net
      /\ call \in Call /\ Whole(net) /\ line \in Queue(Nat \ {0})
  BY DEF LinkInv, Attuned, CallerIsHeard
<1>2. ASSUME NEW u, Settles(p, told, u), Quiets(p, u),
             NEW c \in Call, c.closing = call.closing, Apply(u, net, line, c)
      PROVE  CallerIsHeard'
  BY <1>1, <1>2, HushAttends DEF Quiets, Hushes
<1>3. ASSUME NEW u, Settles(p, told, u), Unvoiced(u.calls), Apply(u, net, line, Closing(call))
      PROVE  CallerIsHeard'
  <2>1. Closing(call) \in Call /\ Closing(call).closing
    BY <1>1 DEF Closing, Call
  <2> QED BY <1>1, <1>3, <2>1, HushAttends
<1>4. CASE Launch
  BY <1>1, <1>4, ConnectionSettles, ConnectionQuiets, StepAttends DEF Launch
<1>5. CASE SayLine
  <2> DEFINE counted == [call EXCEPT !.lines = @ + 1]
  <2>1. counted \in Call /\ counted.closing = call.closing
    BY <1>1 DEF Call
  <2>2. Apply(Say(p), net, line, counted)
    BY <1>5 DEF SayLine, Undisturbed
  <2> HIDE DEF counted
  <2> QED BY <1>1, <1>2, <2>1, <2>2, TimersSettle, TimersQuiet
<1>6. CASE ToolReturns
  <2>1. PICK t \in call.running \ {EndCall} :
             Apply(SendToolResult(p, t), net, line, [call EXCEPT !.running = @ \ {t}])
    BY <1>6 DEF ToolReturns
  <2> DEFINE c == [call EXCEPT !.running = @ \ {t}]
  <2>2. t \in Tools /\ c \in Call /\ c.closing = call.closing
    BY <1>1 DEF Call
  <2>3. Settles(p, told, SendToolResult(p, t)) /\ Quiets(p, SendToolResult(p, t))
    BY <1>1, <2>2, ResultSettles, TimersQuiet DEF Idle
  <2> HIDE DEF c
  <2>4. Apply(SendToolResult(p, t), net, line, c)
    BY <2>1 DEF c
  <2> QED BY <1>2, <2>2, <2>3, <2>4
<1>7. CASE EndCallTool
  <2> DEFINE deaf == IF Talking THEN SuppressBargeIn(p) ELSE p
             spoken == Talking /\ line.frames = <<>>
             told_off == IF spoken /\ "vendor" \notin Mishaps THEN Say(deaf) ELSE deaf
             u == SendToolResult(told_off, EndCall)
  <2>1. EndCall \in Tools
    BY <1>1, <1>7 DEF EndCallTool, Call
  <2>2. deaf \in {p, SuppressBargeIn(p)}
    OBVIOUS
  <2>3. told_off \in {deaf, Say(deaf)}
    OBVIOUS
  <2>4. Apply(u, net, line, Closing(call))
    BY <1>7 DEF EndCallTool, Undisturbed
  <2> HIDE DEF deaf, told_off
  <2>5. Settles(p, told, u) /\ Mild(p, u)
    BY <1>1, <2>1, <2>2, <2>3, FarewellSettles, FarewellIsMild
  <2> HIDE DEF u
  <2> QED BY <1>3, <2>4, <2>5 DEF Mild
<1>8. CASE GuardGoodbye
  <2>1. Apply(Say(p), net, line, Closing(call))
    BY <1>8 DEF GuardGoodbye
  <2> QED BY <1>1, <1>3, <2>1, TimersSettle, TimersQuiet DEF Quiets, Hushes
<1> QED BY <1>4, <1>5, <1>6, <1>7, <1>8

LEMMA OverAttends ==
    ASSUME LinkInv, CallerIsHeard, p.promise # "none", Over
    PROVE  CallerIsHeard'
<1> DEFINE c == [call EXCEPT !.over = TRUE]
           l == MarkClosed(line)
           u == StopSession(p)
<1>1. /\ p \in Idle /\ told \in Told /\ Linked(p, told) /\ net \in Net
      /\ call \in Call /\ Whole(net) /\ line \in Queue(Nat \ {0})
  BY DEF LinkInv, Attuned, CallerIsHeard
<1>2. c \in Call /\ c.closing = call.closing
  BY <1>1 DEF Call
<1>3. l \in Queue(Nat \ {0}) /\ l.frames = <<>>
  BY <1>1, QueueKeeps DEF MarkClosed, Settle, Queue
<1>4. Settles(p, told, u) /\ Hushes(p, u)
  BY <1>1, ConnectionSettles, ConnectionQuiets
<1>5. Apply(u, net, l, c)
  BY DEF Over
<1> HIDE DEF c, l, u
<1> QED BY <1>1, <1>2, <1>3, <1>4, <1>5, HushAttends DEF Hushes

LEMMA QuietStepAttends ==
    ASSUME LinkInv, CallerIsHeard,
           Attach \/ AwaitFarewell \/ FarewellTimesOut \/ HangUp \/ CallerLeaves \/ PlayFrame
    PROVE  CallerIsHeard'
<1>1. /\ Linked(p, told) /\ call \in Call /\ Unlaunched(p, call) /\ Whole(net)
      /\ line \in Queue(Nat \ {0})
  BY DEF LinkInv, Attuned, CallerIsHeard
<1>2. CASE Attach
  <2>1. call'.closing = call.closing /\ UNCHANGED <<p, net, line>>
    BY <1>1, <1>2 DEF Attach, Call
  <2> QED BY <1>1, <2>1, AsideAttends
<1>3. CASE AwaitFarewell
  <2>1. /\ line' = WaitForDrain(line, "farewell") /\ UNCHANGED <<p, net>>
        /\ call' = [call EXCEPT !.farewell = "draining"]
    BY <1>3 DEF AwaitFarewell
  <2>2. line' \in Queue(Nat \ {0})
    BY <1>1, <2>1, WaiterAssumption, QueueKeeps
  <2>3. line'.frames = line.frames
    BY <1>1, <2>1 DEF WaitForDrain, Queue
  <2>4. call'.closing = call.closing
    BY <1>1, <2>1 DEF Call
  <2> QED BY <1>1, <2>1, <2>2, <2>3, <2>4, AsideAttends
<1>4. CASE FarewellTimesOut
  <2>1. line' = DrainTimeout(line, "farewell") /\ UNCHANGED <<p, net, call>>
    BY <1>4 DEF FarewellTimesOut
  <2>2. line' \in Queue(Nat \ {0})
    BY <1>1, <2>1, WaiterAssumption, QueueKeeps
  <2>3. line'.frames = line.frames
    BY <1>1, <2>1 DEF DrainTimeout, Queue
  <2> QED BY <1>1, <2>1, <2>2, <2>3, AsideAttends
<1>5. CASE HangUp
  <2>1. call.farewell = "draining" \/ told.close > 0 \/ p.promise = "broken"
    BY <1>5 DEF HangUp
  <2>2. p.promise # "none"
    BY <1>1, <2>1 DEF Unlaunched, Linked, PromiseKept, Witnessed
  <2> QED BY <1>5, <2>2, OverAttends DEF HangUp
<1>6. CASE CallerLeaves
  BY <1>6, OverAttends DEF CallerLeaves
<1>7. CASE PlayFrame
  <2>1. line' = EmitOneFrame(line) /\ UNCHANGED <<p, net, call>> /\ line.frames # <<>>
    BY <1>7 DEF PlayFrame
  <2>2. line' \in Queue(Nat \ {0})
    BY <1>1, <2>1, QueueKeeps
  <2> QED BY <1>1, <2>1, <2>2, AsideAttends
<1> QED BY <1>2, <1>3, <1>4, <1>5, <1>6, <1>7

LEMMA HeardInit == Init => CallerIsHeard
<1> SUFFICES ASSUME Init PROVE CallerIsHeard
  OBVIOUS
<1>1. ~p.suppressed /\ ~p.callerSpeaking /\ line.frames = <<>> /\ net.inbox = <<>>
  BY DEF Init, NewProvider, NewSession, NewNet
<1>2. DOMAIN net.inbox = {}
  BY <1>1
<1>3. line \in Queue(Nat \ {0})
  <2> DEFINE S == Nat \ {0}
  <2>1. <<>> \in Frames(S) /\ <<>> \in Partial(S)
    BY Nothing
  <2> HIDE DEF S
  <2>2. line \in Queue(S)
    BY <2>1 DEF Init, NewSession, Queue
  <2> QED BY <2>2 DEF S
<1> QED BY <1>1, <1>2, <1>3 DEF CallerIsHeard, Attends, Whole

LEMMA HeardStep ==
    ASSUME Punctual, Undisturbed, LinkInv, StaysSilent, CallerIsHeard, [Next]_vars
    PROVE  CallerIsHeard'
<1>1. CASE SocketOpens \/ \E normal \in BOOLEAN : SocketLost(normal)
  BY <1>1, SocketStepAttends
<1>2. CASE Server
  BY <1>2, ServerStepAttends
<1>3. CASE HandleNext
  BY <1>3, HandledAttends
<1>4. CASE Timer
  BY <1>4, TimerStepAttends DEF Punctual
<1>5. CASE Orchestrator
  BY <1>5, SpokenStepAttends, QuietStepAttends DEF Orchestrator
<1>6. CASE UNCHANGED vars
  BY <1>6 DEF vars, CallerIsHeard, Attends, Whole
<1> QED BY <1>1, <1>2, <1>3, <1>4, <1>5, <1>6 DEF Next

\* When the provider hears the caller, the caller is heard: in a call that speaks
\* through the model alone and over one session, whatever is refused, collides, times
\* out or comes late, the queue is empty once the speech has been handled
\* (handleSpeechStarted, handleResponseCreated, onInterruption, playbackHorizonMs).
THEOREM TheCallerIsHeard == Punctual /\ Undisturbed => (Spec => BargeInSilencesTheLine)
<1> SUFFICES ASSUME Punctual, Undisturbed PROVE Spec => BargeInSilencesTheLine
  OBVIOUS
<1>1. Init => LinkInv /\ StaysSilent /\ CallerIsHeard
  BY LinkInit, SilenceInit, HeardInit
<1>2. LinkInv /\ StaysSilent /\ CallerIsHeard /\ [Next]_vars
         => (LinkInv /\ StaysSilent /\ CallerIsHeard)'
  BY LinkStep, SilenceStep, HeardStep DEF LinkKept
<1>3. LinkInv /\ StaysSilent /\ CallerIsHeard
         => [HandleNext /\ Head(net.inbox).type = "speech_started" /\ ~call.closing
             => line'.frames = <<>>]_vars
  BY HandledAttends
<1> QED BY <1>1, <1>2, <1>3, PTL DEF Spec, BargeInSilencesTheLine
================================================================================
