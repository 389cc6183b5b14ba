---------------------------- MODULE ActiveCall_proofs ----------------------------
(***************************************************************************)
(* Theorems about ActiveCall, for every direction, provider, operation and *)
(* set of mishaps.                                                         *)
(***************************************************************************)
EXTENDS ActiveCall, SequenceTheorems, TLAPS

(***************************************************************************)
(* What the helpers return.                                                *)
(***************************************************************************)

\* A line that is cut is gone, unless it was not up; a new event says so, and the
\* AudioSocket connection ends with it.
LEMMA CutTyped ==
  ASSUME NEW n \in NetType
  PROVE  /\ Cut(n) \in NetType
         /\ n.line \notin {"none", "ringing"} => Cut(n).line = "gone"
         /\ n.line # "none" => Cut(n).line = "gone"
         /\ n.line \in {"none", "gone"} => Cut(n) = n
         /\ Cut(n).operator \in {n.operator, "none"}
         /\ Cut(n).socket \in {n.socket, "over", "ended"}
         /\ n.socket = "none" => Cut(n).socket = "none"
  <1>1. CASE ~Up(n)
    BY <1>1 DEF Cut, Up, NetType, Lines
  <1>2. CASE Up(n)
    <2> DEFINE left == IF n.line = "stasis" THEN <<"stasisEnd">> ELSE <<>>
               socket == CASE n.socket = "open" -> "ended"
                           [] n.socket = "dialling" -> "over"
                           [] OTHER -> n.socket
    <2>1. left \in Seq(Events) /\ <<"destroyed">> \in Seq(Events) /\ n.events \in Seq(Events)
      <3>1. <<"stasisEnd">> \in Seq(Events) /\ <<"destroyed">> \in Seq(Events)
        BY DEF Events
      <3>2. <<>> \in Seq(Events)
        OBVIOUS
      <3> QED
        BY <3>1, <3>2 DEF NetType
    <2>2. n.events \o left \o <<"destroyed">> \in Seq(Events)
      BY <2>1
    <2>3. socket \in {n.socket, "over", "ended"} /\ (n.socket = "none" => socket = "none")
      OBVIOUS
    <2>4. n.line \in {"ringing", "stasis", "bridge", "transfer"}
      BY <1>2 DEF Up
    <2>5. Cut(n) = [line |-> "gone", operator |-> IF n.line = "transfer" THEN "none" ELSE n.operator,
                    events |-> n.events \o left \o <<"destroyed">>, socket |-> socket]
      BY <1>2 DEF Cut
    <2> HIDE DEF left, socket
    <2> QED
      BY <2>2, <2>3, <2>4, <2>5 DEF NetType, Lines
  <1> QED
    BY <1>1, <1>2

\* The events that wait behind the first.
LEMMA RestTyped ==
  ASSUME net \in NetType, net.events # <<>>
  PROVE  /\ Rest \in NetType
         /\ Rest.line = net.line /\ Rest.socket = net.socket /\ Rest.operator = net.operator
         /\ Rest.events \in Seq(Events)
         /\ \A i \in DOMAIN Rest.events :
               i + 1 \in DOMAIN net.events /\ Rest.events[i] = net.events[i + 1]
  <1>1. net.events \in Seq(Events)
    BY DEF NetType
  <1>2. /\ Tail(net.events) \in Seq(Events)
        /\ \A i \in DOMAIN Tail(net.events) :
             i + 1 \in DOMAIN net.events /\ Tail(net.events)[i] = net.events[i + 1]
    BY <1>1, HeadTailProperties
  <1> QED
    BY <1>2 DEF Rest, NetType

\* An event is sent.
LEMMA AppendTyped ==
  ASSUME net \in NetType, NEW event \in Events
  PROVE  /\ Append(net.events, event) \in Seq(Events)
         /\ \A i \in DOMAIN Append(net.events, event) :
              IF i \in DOMAIN net.events
              THEN Append(net.events, event)[i] = net.events[i]
              ELSE i = Len(net.events) + 1 /\ Append(net.events, event)[i] = event
  <1>1. net.events \in Seq(Events)
    BY DEF NetType
  <1> QED
    BY <1>1, AppendProperties

LEMMA EndAiPathTyped ==
  ASSUME NEW a \in AgentType
  PROVE  /\ EndAiPath(a) \in AgentType
         /\ EndAiPath(a).session \in {a.session, "closed"}
  BY DEF EndAiPath, AgentType

LEMMA TouchTyped ==
  ASSUME NEW a \in AgentType
  PROVE  Touch(a) \in AgentType /\ Touch(a).session = a.session
  <1>1. a.timers \in SUBSET {"max", "silence"}
    BY DEF AgentType
  <1>2. /\ a.timers \ {"silence"} \in SUBSET {"max", "silence"}
        /\ a.timers \cup {"silence"} \in SUBSET {"max", "silence"}
    BY <1>1
  <1> QED
    BY <1>2 DEF Touch, AgentType

LEMMA ArmTimersTyped ==
  ASSUME NEW a \in AgentType
  PROVE  ArmTimers(a) \in AgentType /\ ArmTimers(a).session = a.session
  <1>1. [a EXCEPT !.timers = @ \cup {"max"}] \in AgentType
    BY DEF AgentType
  <1> QED
    BY <1>1, TouchTyped DEF ArmTimers, AgentType

LEMMA FinaliseTyped ==
  ASSUME TypeOK, NEW pending \in SUBSET Todo, Finalise(pending)
  PROVE  call' \in CallType /\ agent' \in AgentType /\ todo' \in SUBSET Todo
  BY EndAiPathTyped DEF Finalise, TypeOK, CallType, Todo

LEMMA HangUpTyped ==
  ASSUME TypeOK, NEW pending \in SUBSET Todo, HangUp(pending)
  PROVE  agent' \in AgentType /\ todo' \in SUBSET Todo
  BY EndAiPathTyped DEF HangUp, TypeOK, Todo

LEMMA AbandonTyped ==
  ASSUME NEW d \in DialType, NEW cut \in BOOLEAN
  PROVE  Abandon(d, cut) \in DialType
  BY DEF Abandon, Settle, DialType

LEMMA StartTransferTyped ==
  ASSUME TypeOK, call.transfers < MaxTransfers, StartTransfer
  PROVE  call' \in CallType /\ xfer' \in Transfers
  <1>1. call.transfers + 1 \in 0..MaxTransfers
    BY ConstantsAssumption DEF TypeOK, CallType
  <1> QED
    BY <1>1 DEF StartTransfer, TypeOK, CallType, Transfers

(***************************************************************************)
(* Every step keeps the types.                                             *)
(***************************************************************************)
LEMMA InitTyped == Init => TypeOK
  <1> SUFFICES ASSUME Init PROVE TypeOK
    OBVIOUS
  <1>1. PICK outbound \in {d = "outbound" : d \in Directions} :
          /\ net = [line |-> IF outbound THEN "none" ELSE "stasis", operator |-> "none",
                    events |-> IF outbound THEN <<>> ELSE <<"start">>, socket |-> "none"]
          /\ call = [outbound |-> outbound, known |-> FALSE, handed |-> FALSE,
                     finalized |-> FALSE, reported |-> "none", phase |-> "none",
                     transfers |-> 0]
    BY DEF Init
  <1>2. outbound \in BOOLEAN
    OBVIOUS
  <1>3. net \in NetType
    <2>1. <<>> \in Seq(Events)
      OBVIOUS
    <2>2. <<"start">> \in Seq(Events)
      BY DEF Events
    <2> QED
      BY <1>1, <1>2, <2>1, <2>2 DEF NetType, Lines
  <1>4. call \in CallType
    BY <1>1, <1>2, ConstantsAssumption DEF CallType
  <1>5. dial \in DialType /\ agent \in AgentType
    BY DEF Init, DialType, AgentType
  <1>6. told \in Seq({"missed", "answered", "optOut"})
    BY DEF Init
  <1> QED
    BY <1>3, <1>4, <1>5, <1>6 DEF Init, TypeOK, Setups, Transfers

LEMMA NetworkTyped ==
  ASSUME TypeOK,
         \/ PersonAnswers
         \/ RingingEnds
         \/ CallerHangsUp
         \/ OperatorAnswers
         \/ NobodyAnswers
         \/ OperatorHangsUp
         \/ LoseEvent
  PROVE  TypeOK'
  <1> USE DEF TypeOK
  <1>1. CASE PersonAnswers
    <2>1. net' \in NetType
      BY <1>1, AppendTyped DEF PersonAnswers, NetType, Lines, Events
    <2> QED
      BY <1>1, <2>1 DEF PersonAnswers
  <1>2. CASE RingingEnds
    <2>1. net' \in NetType
      BY <1>2, CutTyped DEF RingingEnds, NetType, Lines, Events
    <2> QED
      BY <1>2, <2>1 DEF RingingEnds
  <1>3. CASE CallerHangsUp
    <2>1. net' \in NetType
      BY <1>3, CutTyped DEF CallerHangsUp, NetType, Lines, Events
    <2> QED
      BY <1>3, <2>1 DEF CallerHangsUp
  <1>4. CASE OperatorAnswers
    <2>1. net' \in NetType
      BY <1>4 DEF OperatorAnswers, NetType, Lines, Events
    <2> QED
      BY <1>4, <2>1 DEF OperatorAnswers
  <1>5. CASE NobodyAnswers
    <2>1. net' \in NetType
      BY <1>5, CutTyped DEF NobodyAnswers, NetType, Lines, Events
    <2> QED
      BY <1>5, <2>1 DEF NobodyAnswers
  <1>6. CASE OperatorHangsUp
    <2>1. net' \in NetType
      BY <1>6, CutTyped, AppendTyped DEF OperatorHangsUp, NetType, Lines, Events
    <2> QED
      BY <1>6, <2>1 DEF OperatorHangsUp
  <1>7. CASE LoseEvent
    <2>1. net' \in NetType
      BY <1>7, RestTyped DEF LoseEvent, Rest
    <2> QED
      BY <1>7, <2>1 DEF LoseEvent
  <1> QED
    BY <1>1, <1>2, <1>3, <1>4, <1>5, <1>6, <1>7

LEMMA DialTyped ==
  ASSUME TypeOK,
         \/ PlaceOutboundCall
         \/ AsteriskRings
         \/ OriginateReturns
         \/ OriginateFails
         \/ Watchdog
         \/ TellMissed
         \/ CutStaleDial
  PROVE  TypeOK'
  <1> USE DEF TypeOK
  <1>1. CASE PlaceOutboundCall
    <2>1. dial' \in DialType
      BY <1>1 DEF PlaceOutboundCall, DialType
    <2> QED
      BY <1>1, <2>1 DEF PlaceOutboundCall
  <1>2. CASE AsteriskRings
    <2>1. net' \in NetType
      BY <1>2 DEF AsteriskRings, NetType, Lines, Events
    <2> QED
      BY <1>2, <2>1 DEF AsteriskRings
  <1>3. CASE OriginateReturns
    <2>1. dial' \in DialType
      BY <1>3 DEF OriginateReturns, DialType
    <2> QED
      BY <1>3, <2>1 DEF OriginateReturns
  <1>4. CASE OriginateFails
    <2>1. [dial EXCEPT !.placing = "done"] \in DialType
      BY DEF DialType
    <2>2. dial' \in DialType
      BY <1>4, <2>1, AbandonTyped DEF OriginateFails
    <2> QED
      BY <1>4, <2>2 DEF OriginateFails
  <1>5. CASE Watchdog
    <2>1. dial' \in DialType
      BY <1>5, AbandonTyped DEF Watchdog, DialType
    <2> QED
      BY <1>5, <2>1 DEF Watchdog
  <1>6. CASE TellMissed
    <2>1. dial' \in DialType
      BY <1>6 DEF TellMissed, DialType
    <2>2. told' \in Seq({"missed", "answered", "optOut"})
      BY <1>6 DEF TellMissed
    <2> QED
      BY <1>6, <2>1, <2>2 DEF TellMissed
  <1>7. CASE CutStaleDial
    <2>1. net' \in NetType
      BY <1>7, CutTyped DEF CutStaleDial, NetType, Lines, Events
    <2>2. dial' \in DialType
      BY <1>7, CutTyped DEF CutStaleDial, DialType
    <2> QED
      BY <1>7, <2>1, <2>2 DEF CutStaleDial
  <1> QED
    BY <1>1, <1>2, <1>3, <1>4, <1>5, <1>6, <1>7

LEMMA EventsTyped ==
  ASSUME TypeOK,
         \/ HandleStasisStart
         \/ HandleStasisEnd
         \/ HandleChannelDestroyed
         \/ HandleChannelLeftBridge
  PROVE  TypeOK'
  <1> USE DEF TypeOK
  <1>1. CASE HandleStasisStart
    <2>1. net' \in NetType
      BY <1>1, CutTyped, RestTyped DEF HandleStasisStart, Arrives, Settle, NetType, Lines, Events
    <2>2. dial' \in DialType
      BY <1>1, CutTyped, RestTyped DEF HandleStasisStart, Arrives, Settle, DialType
    <2>3. setup' \in Setups
      BY <1>1, CutTyped, RestTyped DEF HandleStasisStart, Arrives, Settle, Setups
    <2> QED
      BY <1>1, <2>1, <2>2, <2>3 DEF HandleStasisStart
  <1>2. CASE HandleStasisEnd
    <2>1. net' \in NetType
      BY <1>2, RestTyped, FinaliseTyped DEF HandleStasisEnd, Arrives, NetType, Lines, Events
    <2>2. call' \in CallType
      BY <1>2, RestTyped, FinaliseTyped DEF HandleStasisEnd, Arrives, CallType
    <2>3. agent' \in AgentType
      BY <1>2, RestTyped, FinaliseTyped DEF HandleStasisEnd, Arrives, AgentType
    <2>4. todo' \in SUBSET Todo
      BY <1>2, RestTyped, FinaliseTyped DEF HandleStasisEnd, Arrives, Todo
    <2> QED
      BY <1>2, <2>1, <2>2, <2>3, <2>4 DEF HandleStasisEnd
  <1>3. CASE HandleChannelDestroyed
    <2>1. net' \in NetType
      BY <1>3, RestTyped, FinaliseTyped, AbandonTyped DEF HandleChannelDestroyed, Arrives, NetType, Lines, Events
    <2>2. dial' \in DialType
      BY <1>3, RestTyped, FinaliseTyped, AbandonTyped DEF HandleChannelDestroyed, Arrives, DialType
    <2>3. call' \in CallType
      BY <1>3, RestTyped, FinaliseTyped, AbandonTyped DEF HandleChannelDestroyed, Arrives, CallType
    <2>4. agent' \in AgentType
      BY <1>3, RestTyped, FinaliseTyped, AbandonTyped DEF HandleChannelDestroyed, Arrives, AgentType
    <2>5. todo' \in SUBSET Todo
      BY <1>3, RestTyped, FinaliseTyped, AbandonTyped DEF HandleChannelDestroyed, Arrives, Todo
    <2> QED
      BY <1>3, <2>1, <2>2, <2>3, <2>4, <2>5 DEF HandleChannelDestroyed
  <1>4. CASE HandleChannelLeftBridge
    <2>1. net' \in NetType
      BY <1>4, RestTyped, HangUpTyped DEF HandleChannelLeftBridge, Arrives, NetType, Lines, Events
    <2>2. agent' \in AgentType
      BY <1>4, RestTyped, HangUpTyped DEF HandleChannelLeftBridge, Arrives, AgentType
    <2>3. todo' \in SUBSET Todo
      BY <1>4, RestTyped, HangUpTyped DEF HandleChannelLeftBridge, Arrives, Todo
    <2> QED
      BY <1>4, <2>1, <2>2, <2>3 DEF HandleChannelLeftBridge
  <1> QED
    BY <1>1, <1>2, <1>3, <1>4

LEMMA SetupTyped ==
  ASSUME TypeOK,
         \/ Register
         \/ CannotAttribute
         \/ AnswerChannel
         \/ ResolveProvider
         \/ CreateAiSession
         \/ StartVoice
         \/ DegradeToFallback
         \/ RunFallbackPath
         \/ HandToBridge
         \/ ContinueInDialplan
         \/ HandedOver
         \/ AbortCall
  PROVE  TypeOK'
  <1> USE DEF TypeOK
  <1>1. CASE Register
    <2>1. call' \in CallType
      BY <1>1 DEF Register, CallType
    <2>2. setup' \in Setups
      BY <1>1 DEF Register, Setups
    <2> QED
      BY <1>1, <2>1, <2>2 DEF Register
  <1>2. CASE CannotAttribute
    <2>1. net' \in NetType
      BY <1>2, CutTyped DEF CannotAttribute, NetType, Lines, Events
    <2>2. setup' \in Setups
      BY <1>2, CutTyped DEF CannotAttribute, Setups
    <2> QED
      BY <1>2, <2>1, <2>2 DEF CannotAttribute
  <1>3. CASE AnswerChannel
    <2>1. setup' \in Setups
      BY <1>3 DEF AnswerChannel, Setups
    <2> QED
      BY <1>3, <2>1 DEF AnswerChannel
  <1>4. CASE ResolveProvider
    <2>1. agent' \in AgentType
      BY <1>4, ConstantsAssumption DEF ResolveProvider, AgentType
    <2>2. setup' \in Setups
      BY <1>4, ConstantsAssumption DEF ResolveProvider, Setups
    <2> QED
      BY <1>4, <2>1, <2>2 DEF ResolveProvider
  <1>5. CASE CreateAiSession
    <2>1. agent' \in AgentType
      BY <1>5 DEF CreateAiSession, AgentType
    <2>2. setup' \in Setups
      BY <1>5 DEF CreateAiSession, Setups
    <2> QED
      BY <1>5, <2>1, <2>2 DEF CreateAiSession
  <1>6. CASE StartVoice
    <2>1. agent' \in AgentType
      BY <1>6, TouchTyped DEF StartVoice, AgentType
    <2>2. setup' \in Setups
      BY <1>6, TouchTyped DEF StartVoice, Setups
    <2> QED
      BY <1>6, <2>1, <2>2 DEF StartVoice
  <1>7. CASE DegradeToFallback
    <2>1. agent' \in AgentType
      BY <1>7 DEF DegradeToFallback, AgentType
    <2>2. setup' \in Setups
      BY <1>7 DEF DegradeToFallback, Setups
    <2> QED
      BY <1>7, <2>1, <2>2 DEF DegradeToFallback
  <1>8. CASE RunFallbackPath
    <2>1. agent' \in AgentType
      <3>1. [agent EXCEPT !.asks = agent.session # "closed"] \in AgentType
        BY DEF AgentType
      <3> QED
        BY <1>8, <3>1, ArmTimersTyped DEF RunFallbackPath
    <2>2. setup' \in Setups
      BY <1>8, ArmTimersTyped DEF RunFallbackPath, Setups
    <2> QED
      BY <1>8, <2>1, <2>2 DEF RunFallbackPath
  <1>9. CASE HandToBridge
    <2>1. call' \in CallType
      BY <1>9 DEF HandToBridge, FlagHandover, CallType
    <2>2. setup' \in Setups
      BY <1>9 DEF HandToBridge, FlagHandover, Setups
    <2> QED
      BY <1>9, <2>1, <2>2 DEF HandToBridge
  <1>10. CASE ContinueInDialplan
    <2>1. net' \in NetType
      BY <1>10, AppendTyped DEF ContinueInDialplan, NetType, Lines, Events
    <2>2. call' \in CallType
      BY <1>10 DEF ContinueInDialplan, CallType
    <2>3. setup' \in Setups
      BY <1>10 DEF ContinueInDialplan, Setups
    <2> QED
      BY <1>10, <2>1, <2>2, <2>3 DEF ContinueInDialplan
  <1>11. CASE HandedOver
    <2>1. agent' \in AgentType
      BY <1>11, ArmTimersTyped DEF HandedOver, AgentType
    <2>2. setup' \in Setups
      BY <1>11, ArmTimersTyped DEF HandedOver, Setups
    <2> QED
      BY <1>11, <2>1, <2>2 DEF HandedOver
  <1>12. CASE AbortCall
    <2>1. net' \in NetType
      BY <1>12, CutTyped, FinaliseTyped DEF AbortCall, NetType, Lines, Events
    <2>2. call' \in CallType
      BY <1>12, CutTyped, FinaliseTyped DEF AbortCall, CallType
    <2>3. agent' \in AgentType
      BY <1>12, CutTyped, FinaliseTyped DEF AbortCall, AgentType
    <2>4. todo' \in SUBSET Todo
      BY <1>12, CutTyped, FinaliseTyped DEF AbortCall, Todo
    <2>5. setup' \in Setups
      BY <1>12, CutTyped, FinaliseTyped DEF AbortCall, Setups
    <2> QED
      BY <1>12, <2>1, <2>2, <2>3, <2>4, <2>5 DEF AbortCall
  <1> QED
    BY <1>1, <1>2, <1>3, <1>4, <1>5, <1>6, <1>7, <1>8, <1>9, <1>10, <1>11, <1>12

LEMMA AgentTyped ==
  ASSUME TypeOK,
         \/ AttachAudioSocket
         \/ HandleAudioSocketEnd
         \/ HandleProviderClose
         \/ ToolTransferToHuman
         \/ TransferAnnounced
         \/ ToolEndCall
         \/ ToolRecordCallOutcome
         \/ OptOutStored
         \/ HandleDtmf
         \/ IvrRequestsTransfer
         \/ SupervisorHangsUp
         \/ SupervisorTransfers
  PROVE  TypeOK'
  <1> USE DEF TypeOK
  <1>1. CASE AttachAudioSocket
    <2>1. net' \in NetType
      BY <1>1, TouchTyped, CutTyped DEF AttachAudioSocket, NetType, Lines, Events
    <2>2. agent' \in AgentType
      BY <1>1, TouchTyped, CutTyped DEF AttachAudioSocket, AgentType
    <2> QED
      BY <1>1, <2>1, <2>2 DEF AttachAudioSocket
  <1>2. CASE HandleAudioSocketEnd
    <2>1. net' \in NetType
      BY <1>2, FinaliseTyped, EndAiPathTyped DEF HandleAudioSocketEnd, NetType, Lines, Events
    <2>2. call' \in CallType
      BY <1>2, FinaliseTyped, EndAiPathTyped DEF HandleAudioSocketEnd, CallType
    <2>3. agent' \in AgentType
      BY <1>2, FinaliseTyped, EndAiPathTyped DEF HandleAudioSocketEnd, AgentType
    <2>4. todo' \in SUBSET Todo
      BY <1>2, FinaliseTyped, EndAiPathTyped DEF HandleAudioSocketEnd, Todo
    <2> QED
      BY <1>2, <2>1, <2>2, <2>3, <2>4 DEF HandleAudioSocketEnd
  <1>3. CASE HandleProviderClose
    <2>1. agent' \in AgentType
      BY <1>3, HangUpTyped, EndAiPathTyped DEF HandleProviderClose, AgentType
    <2>2. todo' \in SUBSET Todo
      BY <1>3, HangUpTyped, EndAiPathTyped DEF HandleProviderClose, Todo
    <2> QED
      BY <1>3, <2>1, <2>2 DEF HandleProviderClose
  <1>4. CASE ToolTransferToHuman
    <2>1. agent' \in AgentType
      BY <1>4, TouchTyped DEF ToolTransferToHuman, AgentType
    <2>2. todo' \in SUBSET Todo
      BY <1>4, TouchTyped DEF ToolTransferToHuman, Todo
    <2> QED
      BY <1>4, <2>1, <2>2 DEF ToolTransferToHuman
  <1>5. CASE TransferAnnounced
    <2>1. call' \in CallType
      BY <1>5, StartTransferTyped DEF TransferAnnounced, CallType
    <2>2. xfer' \in Transfers
      BY <1>5, StartTransferTyped DEF TransferAnnounced, Transfers
    <2>3. todo' \in SUBSET Todo
      BY <1>5, StartTransferTyped DEF TransferAnnounced, Todo
    <2> QED
      BY <1>5, <2>1, <2>2, <2>3 DEF TransferAnnounced
  <1>6. CASE ToolEndCall
    <2>1. agent' \in AgentType
      BY <1>6, TouchTyped DEF ToolEndCall, AgentType
    <2>2. todo' \in SUBSET Todo
      BY <1>6, TouchTyped DEF ToolEndCall, Todo
    <2> QED
      BY <1>6, <2>1, <2>2 DEF ToolEndCall
  <1>7. CASE ToolRecordCallOutcome
    <2>1. call' \in CallType
      BY <1>7, TouchTyped DEF ToolRecordCallOutcome, Tell, CallType
    <2>2. agent' \in AgentType
      BY <1>7, TouchTyped DEF ToolRecordCallOutcome, Tell, AgentType
    <2>3. todo' \in SUBSET Todo
      BY <1>7, TouchTyped DEF ToolRecordCallOutcome, Tell, Todo
    <2>4. told' \in Seq({"missed", "answered", "optOut"})
      BY <1>7, TouchTyped DEF ToolRecordCallOutcome, Tell
    <2> QED
      BY <1>7, <2>1, <2>2, <2>3, <2>4 DEF ToolRecordCallOutcome
  <1>8. CASE OptOutStored
    <2>1. call' \in CallType
      BY <1>8 DEF OptOutStored, Tell, CallType
    <2>2. todo' \in SUBSET Todo
      BY <1>8 DEF OptOutStored, Tell, Todo
    <2>3. told' \in Seq({"missed", "answered", "optOut"})
      BY <1>8 DEF OptOutStored, Tell
    <2> QED
      BY <1>8, <2>1, <2>2, <2>3 DEF OptOutStored
  <1>9. CASE HandleDtmf
    <2>1. agent' \in AgentType
      BY <1>9, TouchTyped, StartTransferTyped DEF HandleDtmf, AgentType
    <2>2. call' \in CallType
      BY <1>9, TouchTyped, StartTransferTyped DEF HandleDtmf, CallType
    <2>3. xfer' \in Transfers
      BY <1>9, TouchTyped, StartTransferTyped DEF HandleDtmf, Transfers
    <2> QED
      BY <1>9, <2>1, <2>2, <2>3 DEF HandleDtmf
  <1>10. CASE IvrRequestsTransfer
    <2>1. agent' \in AgentType
      <3>1. [agent EXCEPT !.asks = FALSE] \in AgentType
        BY DEF AgentType
      <3> QED
        BY <1>10, <3>1, TouchTyped DEF IvrRequestsTransfer
    <2>2. call' \in CallType
      BY <1>10, TouchTyped, StartTransferTyped DEF IvrRequestsTransfer, CallType
    <2>3. xfer' \in Transfers
      BY <1>10, TouchTyped, StartTransferTyped DEF IvrRequestsTransfer, Transfers
    <2> QED
      BY <1>10, <2>1, <2>2, <2>3 DEF IvrRequestsTransfer
  <1>11. CASE SupervisorHangsUp
    <2>1. agent' \in AgentType
      BY <1>11, HangUpTyped DEF SupervisorHangsUp, AgentType
    <2>2. todo' \in SUBSET Todo
      BY <1>11, HangUpTyped DEF SupervisorHangsUp, Todo
    <2> QED
      BY <1>11, <2>1, <2>2 DEF SupervisorHangsUp
  <1>12. CASE SupervisorTransfers
    <2>1. call' \in CallType
      BY <1>12, StartTransferTyped DEF SupervisorTransfers, CallType
    <2>2. xfer' \in Transfers
      BY <1>12, StartTransferTyped DEF SupervisorTransfers, Transfers
    <2> QED
      BY <1>12, <2>1, <2>2 DEF SupervisorTransfers
  <1> QED
    BY <1>1, <1>2, <1>3, <1>4, <1>5, <1>6, <1>7, <1>8, <1>9, <1>10, <1>11, <1>12

LEMMA EndingTyped ==
  ASSUME TypeOK,
         \/ (\E t \in {"silence", "max"} : GuardFires(t))
         \/ Farewell
         \/ Release
         \/ FinalizeSafety
         \/ FinalizeReports
  PROVE  TypeOK'
  <1> USE DEF TypeOK
  <1>1. CASE (\E t \in {"silence", "max"} : GuardFires(t))
    <2>1. agent' \in AgentType
      BY <1>1 DEF GuardFires, AgentType
    <2>2. todo' \in SUBSET Todo
      BY <1>1 DEF GuardFires, Todo
    <2> QED
      BY <1>1, <2>1, <2>2 DEF GuardFires
  <1>2. CASE Farewell
    <2>1. agent' \in AgentType
      BY <1>2, HangUpTyped DEF Farewell, AgentType
    <2>2. todo' \in SUBSET Todo
      BY <1>2, HangUpTyped DEF Farewell, Todo
    <2> QED
      BY <1>2, <2>1, <2>2 DEF Farewell
  <1>3. CASE Release
    <2>1. net' \in NetType
      BY <1>3, CutTyped DEF Release, NetType, Lines, Events
    <2>2. todo' \in SUBSET Todo
      BY <1>3, CutTyped DEF Release, Todo
    <2> QED
      BY <1>3, <2>1, <2>2 DEF Release
  <1>4. CASE FinalizeSafety
    <2>1. call' \in CallType
      BY <1>4, FinaliseTyped DEF FinalizeSafety, CallType
    <2>2. agent' \in AgentType
      BY <1>4, FinaliseTyped DEF FinalizeSafety, AgentType
    <2>3. todo' \in SUBSET Todo
      BY <1>4, FinaliseTyped DEF FinalizeSafety, Todo
    <2> QED
      BY <1>4, <2>1, <2>2, <2>3 DEF FinalizeSafety
  <1>5. CASE FinalizeReports
    <2>1. call' \in CallType
      BY <1>5 DEF FinalizeReports, CallType
    <2>2. todo' \in SUBSET Todo
      BY <1>5 DEF FinalizeReports, Todo
    <2>3. told' \in Seq({"missed", "answered", "optOut"})
      BY <1>5 DEF FinalizeReports
    <2> QED
      BY <1>5, <2>1, <2>2, <2>3 DEF FinalizeReports
  <1> QED
    BY <1>1, <1>2, <1>3, <1>4, <1>5

LEMMA TransferTyped ==
  ASSUME TypeOK,
         \/ ChooseTarget
         \/ OriginateOperatorLeg
         \/ JoinOperator
         \/ OperatorDoesNotAnswer
         \/ Redirect
         \/ WaitForOperator
         \/ TransferConnected
         \/ TransferCompleted
         \/ TransferFailed
  PROVE  TypeOK'
  <1> USE DEF TypeOK
  <1>1. CASE ChooseTarget
    <2>1. call' \in CallType
      BY <1>1 DEF ChooseTarget, Fail, CallType
    <2>2. xfer' \in Transfers
      BY <1>1 DEF ChooseTarget, Fail, Transfers
    <2>3. todo' \in SUBSET Todo
      BY <1>1 DEF ChooseTarget, Fail, Todo
    <2> QED
      BY <1>1, <2>1, <2>2, <2>3 DEF ChooseTarget
  <1>2. CASE OriginateOperatorLeg
    <2>1. net' \in NetType
      BY <1>2 DEF OriginateOperatorLeg, Fail, NetType, Lines, Events
    <2>2. call' \in CallType
      BY <1>2 DEF OriginateOperatorLeg, Fail, CallType
    <2>3. xfer' \in Transfers
      BY <1>2 DEF OriginateOperatorLeg, Fail, Transfers
    <2>4. todo' \in SUBSET Todo
      BY <1>2 DEF OriginateOperatorLeg, Fail, Todo
    <2> QED
      BY <1>2, <2>1, <2>2, <2>3, <2>4 DEF OriginateOperatorLeg
  <1>3. CASE JoinOperator
    <2>1. net' \in NetType
      BY <1>3 DEF JoinOperator, NetType, Lines, Events
    <2>2. xfer' \in Transfers
      BY <1>3 DEF JoinOperator, Transfers
    <2> QED
      BY <1>3, <2>1, <2>2 DEF JoinOperator
  <1>4. CASE OperatorDoesNotAnswer
    <2>1. net' \in NetType
      BY <1>4 DEF OperatorDoesNotAnswer, Fail, NetType, Lines, Events
    <2>2. call' \in CallType
      BY <1>4 DEF OperatorDoesNotAnswer, Fail, CallType
    <2>3. xfer' \in Transfers
      BY <1>4 DEF OperatorDoesNotAnswer, Fail, Transfers
    <2>4. todo' \in SUBSET Todo
      BY <1>4 DEF OperatorDoesNotAnswer, Fail, Todo
    <2> QED
      BY <1>4, <2>1, <2>2, <2>3, <2>4 DEF OperatorDoesNotAnswer
  <1>5. CASE Redirect
    <2>1. net' \in NetType
      BY <1>5 DEF Redirect, Fail, NetType, Lines, Events
    <2>2. call' \in CallType
      BY <1>5 DEF Redirect, Fail, CallType
    <2>3. xfer' \in Transfers
      BY <1>5 DEF Redirect, Fail, Transfers
    <2>4. todo' \in SUBSET Todo
      BY <1>5 DEF Redirect, Fail, Todo
    <2> QED
      BY <1>5, <2>1, <2>2, <2>3, <2>4 DEF Redirect
  <1>6. CASE WaitForOperator
    <2>1. call' \in CallType
      BY <1>6 DEF WaitForOperator, Fail, CallType
    <2>2. xfer' \in Transfers
      BY <1>6 DEF WaitForOperator, Fail, Transfers
    <2>3. todo' \in SUBSET Todo
      BY <1>6 DEF WaitForOperator, Fail, Todo
    <2> QED
      BY <1>6, <2>1, <2>2, <2>3 DEF WaitForOperator
  <1>7. CASE TransferConnected
    <2>1. call' \in CallType
      BY <1>7 DEF TransferConnected, CallType
    <2>2. agent' \in AgentType
      BY <1>7 DEF TransferConnected, AgentType
    <2>3. xfer' \in Transfers
      BY <1>7 DEF TransferConnected, Transfers
    <2> QED
      BY <1>7, <2>1, <2>2, <2>3 DEF TransferConnected
  <1>8. CASE TransferCompleted
    <2>1. agent' \in AgentType
      BY <1>8, EndAiPathTyped DEF TransferCompleted, AgentType
    <2>2. xfer' \in Transfers
      BY <1>8, EndAiPathTyped DEF TransferCompleted, Transfers
    <2> QED
      BY <1>8, <2>1, <2>2 DEF TransferCompleted
  <1>9. CASE TransferFailed
    <2>1. agent' \in AgentType
      BY <1>9, EndAiPathTyped, HangUpTyped, ArmTimersTyped DEF TransferFailed, AgentType
    <2>2. todo' \in SUBSET Todo
      BY <1>9, EndAiPathTyped, HangUpTyped, ArmTimersTyped DEF TransferFailed, Todo
    <2> QED
      BY <1>9, <2>1, <2>2 DEF TransferFailed
  <1> QED
    BY <1>1, <1>2, <1>3, <1>4, <1>5, <1>6, <1>7, <1>8, <1>9

LEMMA NextTyped == TypeOK /\ [Next]_vars => TypeOK'
  <1> SUFFICES ASSUME TypeOK, [Next]_vars PROVE TypeOK'
    OBVIOUS
  <1>1. CASE UNCHANGED vars
    BY <1>1 DEF vars, TypeOK
  <1>2. CASE Next
    BY <1>2, NetworkTyped, DialTyped, EventsTyped, SetupTyped, AgentTyped, EndingTyped,
       TransferTyped
    DEF Next, Environment, System, Setup, Transfer
  <1> QED
    BY <1>1, <1>2

\* Every reachable state is well typed; MaxTransfers is never exceeded.
THEOREM CallTypesHold == Spec => []TypeOK
  <1> QED
    BY InitTyped, NextTyped, PTL DEF Spec

(***************************************************************************)
(* A call is finalised only when it is over.  That is not inductive: who   *)
(* finalises a call has an event, a connection's end or a timer to go by,  *)
(* and these must have told the truth.                                     *)
(***************************************************************************)

\* A start is the first event there is, and is handled once; a caller of whom it is
\* said that they have left Stasis is gone or handed over; one whose channel is said
\* to be destroyed is gone.
Heard ==
    \A i \in DOMAIN net.events :
        /\ net.events[i] = "start" => i = 1 /\ setup = "idle"
        /\ net.events[i] = "stasisEnd" => net.line = "gone" \/ call.handed
        /\ net.events[i] = "destroyed" => net.line = "gone"

\* Nothing is heard of a person who has not answered, and nothing is done for them.
Untaken ==
    net.line \in {"none", "ringing"} => setup = "idle" /\ net.events = <<>>

\* Before the call is claimed nothing goes on in it.
Unclaimed ==
    setup = "idle" =>
        /\ net.line \notin {"bridge", "transfer"}
        /\ net.socket = "none" /\ net.operator = "none"
        /\ ~call.known /\ todo = {} /\ xfer = "idle"
        /\ agent.session # "open" /\ ~agent.asks /\ agent.timers = {}

\* The caller is in the dialplan by the hand-over only.
HandedTo ==
    /\ setup = "continuing" => call.handed
    /\ net.line \in {"bridge", "transfer"} =>
         call.handed /\ setup \in {"continued", "done"}

\* A transfer under way is recorded as such.
Recorded ==
    /\ xfer \notin {"idle", "completing"} => call.phase = "requested"
    /\ xfer = "completing" => call.phase = "connected"

\* The AudioSocket ends with the call, or by the redirect of a transfer, which is then
\* still under way if the list of channels can be read.
SocketEnds ==
    net.socket = "ended" /\ "poll" \notin mishaps =>
        \/ net.line = "gone"
        \/ xfer \in {"waiting", "joined"}
        \/ call.phase = "connected"

\* The safety net of a hang-up is armed when the channel has been released.
Hanging == "safety" \in todo => net.line = "gone"

Position ==
    /\ Untaken /\ Unclaimed /\ HandedTo /\ Recorded /\ SocketEnds /\ Hanging

Finalised == "poll" \notin mishaps => FinalizedMeansOver

LEMMA FinaliseDoes ==
  ASSUME TypeOK, NEW pending \in SUBSET Todo, Finalise(pending)
  PROVE  /\ call' = call \/ call' = [call EXCEPT !.finalized = TRUE]
         /\ agent' = agent \/ agent' = EndAiPath(agent)
         /\ todo' \subseteq pending \cup {"finalise"}
  BY DEF Finalise

\* What is heard first is true.
LEMMA FirstHeard ==
  ASSUME TypeOK, Heard, Untaken, NEW event \in Events, Arrives(event)
  PROVE  /\ net.line \notin {"none", "ringing"}
         /\ event = "start" => setup = "idle"
         /\ event = "stasisEnd" => net.line = "gone" \/ call.handed
         /\ event = "destroyed" => net.line = "gone"
  <1>1. net.events \in Seq(Events) /\ net.events # <<>> /\ Head(net.events) = event
    BY DEF TypeOK, NetType, Arrives
  <1>2. 1 \in DOMAIN net.events /\ net.events[1] = event
    BY <1>1
  <1> QED
    BY <1>1, <1>2 DEF Heard, Untaken

LEMMA HangUpDoes ==
  ASSUME NEW pending \in SUBSET Todo, HangUp(pending)
  PROVE  /\ ~call.known => agent' = agent /\ todo' = pending
         /\ todo' \subseteq pending \cup {"release"}
  BY DEF HangUp

LEMMA EndAiPathDoes ==
  ASSUME NEW a \in AgentType
  PROVE  /\ EndAiPath(a).session \in {a.session, "closed"}
         /\ EndAiPath(a).asks => a.asks
         /\ EndAiPath(a).timers \subseteq a.timers
  BY DEF EndAiPath, AgentType

\* Every step keeps everybody's position, and a finalised call over.
LEMMA NetworkKeeps ==
  ASSUME TypeOK, TypeOK', Heard, Position, Finalised,
         \/ PersonAnswers
         \/ RingingEnds
         \/ CallerHangsUp
         \/ OperatorAnswers
         \/ NobodyAnswers
         \/ OperatorHangsUp
         \/ LoseEvent
  PROVE  Position' /\ Finalised'
  <1> USE DEF Position, Untaken, Unclaimed, HandedTo, Recorded, SocketEnds, Hanging,
       Finalised, FinalizedMeansOver, TypeOK, NetType, CallType
  <1>1. CASE PersonAnswers
    BY <1>1
    DEF PersonAnswers
  <1>2. CASE RingingEnds
    BY <1>2, CutTyped
    DEF RingingEnds
  <1>3. CASE CallerHangsUp
    BY <1>3, CutTyped
    DEF CallerHangsUp
  <1>4. CASE OperatorAnswers
    BY <1>4
    DEF OperatorAnswers
  <1>5. CASE NobodyAnswers
    BY <1>5, CutTyped
    DEF NobodyAnswers
  <1>6. CASE OperatorHangsUp
    BY <1>6, CutTyped
    DEF OperatorHangsUp
  <1>7. CASE LoseEvent
    BY <1>7, RestTyped
    DEF LoseEvent, Rest
  <1> QED
    BY <1>1, <1>2, <1>3, <1>4, <1>5, <1>6, <1>7

LEMMA DialKeeps ==
  ASSUME TypeOK, TypeOK', Heard, Position, Finalised,
         \/ PlaceOutboundCall
         \/ AsteriskRings
         \/ OriginateReturns
         \/ OriginateFails
         \/ Watchdog
         \/ TellMissed
         \/ CutStaleDial
  PROVE  Position' /\ Finalised'
  <1> USE DEF Position, Untaken, Unclaimed, HandedTo, Recorded, SocketEnds, Hanging,
       Finalised, FinalizedMeansOver, TypeOK, NetType, CallType
  <1>1. CASE PlaceOutboundCall
    BY <1>1
    DEF PlaceOutboundCall
  <1>2. CASE AsteriskRings
    BY <1>2
    DEF AsteriskRings
  <1>3. CASE OriginateReturns
    BY <1>3
    DEF OriginateReturns
  <1>4. CASE OriginateFails
    BY <1>4
    DEF OriginateFails
  <1>5. CASE Watchdog
    BY <1>5
    DEF Watchdog
  <1>6. CASE TellMissed
    BY <1>6
    DEF TellMissed
  <1>7. CASE CutStaleDial
    BY <1>7, CutTyped
    DEF CutStaleDial
  <1> QED
    BY <1>1, <1>2, <1>3, <1>4, <1>5, <1>6, <1>7

LEMMA EventsKeeps ==
  ASSUME TypeOK, TypeOK', Heard, Position, Finalised,
         \/ HandleStasisStart
         \/ HandleStasisEnd
         \/ HandleChannelDestroyed
         \/ HandleChannelLeftBridge
  PROVE  Position' /\ Finalised'
  <1> USE DEF Position, Untaken, Unclaimed, HandedTo, Recorded, SocketEnds, Hanging,
       Finalised, FinalizedMeansOver, TypeOK, NetType, CallType
  <1>1. CASE HandleStasisStart
    <2>1. /\ net.line \notin {"none", "ringing"} /\ setup = "idle"
          /\ Rest \in NetType /\ Rest.line = net.line /\ Rest.socket = net.socket
          /\ Rest.operator = net.operator
      BY <1>1, FirstHeard, RestTyped DEF HandleStasisStart, Arrives, Events
    <2>2. CASE net' = Rest
      BY <1>1, <2>1, <2>2 DEF HandleStasisStart
    <2>3. CASE net' = Cut(Rest)
      <3>1. net'.line = "gone" /\ net'.operator = "none" /\ net'.socket = "none"
        BY <2>1, <2>3, CutTyped
      <3> QED
        BY <1>1, <2>1, <3>1 DEF HandleStasisStart
    <2> QED
      BY <1>1, <2>2, <2>3 DEF HandleStasisStart
  <1>2. CASE HandleStasisEnd
    <2>1. /\ net'.line = net.line /\ net'.socket = net.socket /\ net'.operator = net.operator
          /\ net.line \notin {"none", "ringing"}
      BY <1>2, FirstHeard, RestTyped DEF HandleStasisEnd, Arrives, Events
    <2>2. CASE UNCHANGED <<call, agent, todo>>
      BY <1>2, <2>1, <2>2 DEF HandleStasisEnd
    <2>3. CASE call.known /\ net.line = "gone" /\ Finalise(todo)
      BY <1>2, <2>1, <2>3, FinaliseDoes DEF HandleStasisEnd
    <2> QED
      BY <1>2, <2>2, <2>3, FirstHeard DEF HandleStasisEnd, Events, FindByChannel
  <1>3. CASE HandleChannelDestroyed
    <2>1. /\ net'.line = net.line /\ net'.socket = net.socket /\ net'.operator = net.operator
          /\ net.line \notin {"none", "ringing"}
      BY <1>3, FirstHeard, RestTyped DEF HandleChannelDestroyed, Arrives, Events
    <2>2. CASE UNCHANGED <<call, agent, todo>>
      BY <1>3, <2>1, <2>2 DEF HandleChannelDestroyed
    <2>3. CASE call.known /\ net.line = "gone" /\ Finalise(todo)
      BY <1>3, <2>1, <2>3, FinaliseDoes DEF HandleChannelDestroyed
    <2> QED
      BY <1>3, <2>2, <2>3, FirstHeard DEF HandleChannelDestroyed, Events, FindByChannel
  <1>4. CASE HandleChannelLeftBridge
    BY <1>4, RestTyped, HangUpDoes
    DEF HandleChannelLeftBridge, Arrives
  <1> QED
    BY <1>1, <1>2, <1>3, <1>4

LEMMA SetupKeeps ==
  ASSUME TypeOK, TypeOK', Heard, Position, Finalised,
         \/ Register
         \/ CannotAttribute
         \/ AnswerChannel
         \/ ResolveProvider
         \/ CreateAiSession
         \/ StartVoice
         \/ DegradeToFallback
         \/ RunFallbackPath
         \/ HandToBridge
         \/ ContinueInDialplan
         \/ HandedOver
         \/ AbortCall
  PROVE  Position' /\ Finalised'
  <1> USE DEF Position, Untaken, Unclaimed, HandedTo, Recorded, SocketEnds, Hanging,
       Finalised, FinalizedMeansOver, TypeOK, NetType, CallType
  <1>1. CASE Register
    BY <1>1
    DEF Register
  <1>2. CASE CannotAttribute
    BY <1>2, CutTyped
    DEF CannotAttribute
  <1>3. CASE AnswerChannel
    BY <1>3
    DEF AnswerChannel
  <1>4. CASE ResolveProvider
    BY <1>4
    DEF ResolveProvider
  <1>5. CASE CreateAiSession
    BY <1>5
    DEF CreateAiSession
  <1>6. CASE StartVoice
    BY <1>6, TouchTyped
    DEF StartVoice
  <1>7. CASE DegradeToFallback
    BY <1>7
    DEF DegradeToFallback
  <1>8. CASE RunFallbackPath
    BY <1>8, ArmTimersTyped
    DEF RunFallbackPath
  <1>9. CASE HandToBridge
    BY <1>9
    DEF HandToBridge, FlagHandover
  <1>10. CASE ContinueInDialplan
    <2>1. CASE net.line = "stasis"
      <3>1. /\ net'.line = "bridge" /\ net'.socket = "dialling" /\ net'.operator = net.operator
            /\ setup' = "continued" /\ setup = "continuing"
            /\ UNCHANGED <<call, agent, xfer, todo, mishaps>>
        BY <1>10, <2>1 DEF ContinueInDialplan
      <3> QED
        BY <2>1, <3>1
    <2>2. CASE net.line # "stasis"
      BY <1>10, <2>2 DEF ContinueInDialplan
    <2> QED
      BY <2>1, <2>2
  <1>11. CASE HandedOver
    BY <1>11, ArmTimersTyped
    DEF HandedOver
  <1>12. CASE AbortCall
    <2>1. net'.line = "gone" /\ setup' = "done" /\ UNCHANGED xfer
      BY <1>12, CutTyped DEF AbortCall
    <2>2. call'.phase = call.phase
      BY <1>12, FinaliseDoes DEF AbortCall
    <2> QED
      BY <2>1, <2>2
  <1> QED
    BY <1>1, <1>2, <1>3, <1>4, <1>5, <1>6, <1>7, <1>8, <1>9, <1>10, <1>11, <1>12

LEMMA AgentKeeps ==
  ASSUME TypeOK, TypeOK', Heard, Position, Finalised,
         \/ AttachAudioSocket
         \/ HandleAudioSocketEnd
         \/ HandleProviderClose
         \/ ToolTransferToHuman
         \/ TransferAnnounced
         \/ ToolEndCall
         \/ ToolRecordCallOutcome
         \/ OptOutStored
         \/ HandleDtmf
         \/ IvrRequestsTransfer
         \/ SupervisorHangsUp
         \/ SupervisorTransfers
  PROVE  Position' /\ Finalised'
  <1> USE DEF Position, Untaken, Unclaimed, HandedTo, Recorded, SocketEnds, Hanging,
       Finalised, FinalizedMeansOver, TypeOK, NetType, CallType
  <1>1. CASE AttachAudioSocket
    <2>1. CASE call.known
      BY <1>1, <2>1, TouchTyped DEF AttachAudioSocket
    <2>2. CASE ~call.known
      <3>1. net'.line = "gone" /\ net'.operator \in {net.operator, "none"}
        <4>1. [net EXCEPT !.socket = "over"] \in NetType
          OBVIOUS
        <4> QED
          BY <1>1, <2>2, <4>1, CutTyped DEF AttachAudioSocket
      <3> QED
        BY <1>1, <2>2, <3>1 DEF AttachAudioSocket
    <2> QED
      BY <2>1, <2>2
  <1>2. CASE HandleAudioSocketEnd
    BY <1>2, FinaliseDoes, EndAiPathDoes
    DEF HandleAudioSocketEnd, CanTransfer
  <1>3. CASE HandleProviderClose
    BY <1>3, HangUpDoes, EndAiPathDoes
    DEF HandleProviderClose, Conversing
  <1>4. CASE ToolTransferToHuman
    BY <1>4, TouchTyped
    DEF ToolTransferToHuman, Conversing
  <1>5. CASE TransferAnnounced
    BY <1>5
    DEF TransferAnnounced, StartTransfer, CanTransfer
  <1>6. CASE ToolEndCall
    BY <1>6, TouchTyped
    DEF ToolEndCall, Conversing
  <1>7. CASE ToolRecordCallOutcome
    BY <1>7, TouchTyped
    DEF ToolRecordCallOutcome, Tell, Conversing
  <1>8. CASE OptOutStored
    BY <1>8
    DEF OptOutStored, Tell
  <1>9. CASE HandleDtmf
    BY <1>9, TouchTyped
    DEF HandleDtmf, StartTransfer, CanTransfer
  <1>10. CASE IvrRequestsTransfer
    BY <1>10, TouchTyped
    DEF IvrRequestsTransfer, StartTransfer, CanTransfer
  <1>11. CASE SupervisorHangsUp
    BY <1>11, HangUpDoes
    DEF SupervisorHangsUp
  <1>12. CASE SupervisorTransfers
    BY <1>12
    DEF SupervisorTransfers, StartTransfer, CanTransfer
  <1> QED
    BY <1>1, <1>2, <1>3, <1>4, <1>5, <1>6, <1>7, <1>8, <1>9, <1>10, <1>11, <1>12

LEMMA EndingKeeps ==
  ASSUME TypeOK, TypeOK', Heard, Position, Finalised,
         \/ (\E t \in {"silence", "max"} : GuardFires(t))
         \/ Farewell
         \/ Release
         \/ FinalizeSafety
         \/ FinalizeReports
  PROVE  Position' /\ Finalised'
  <1> USE DEF Position, Untaken, Unclaimed, HandedTo, Recorded, SocketEnds, Hanging,
       Finalised, FinalizedMeansOver, TypeOK, NetType, CallType
  <1>1. CASE (\E t \in {"silence", "max"} : GuardFires(t))
    BY <1>1
    DEF GuardFires
  <1>2. CASE Farewell
    BY <1>2, HangUpDoes
    DEF Farewell
  <1>3. CASE Release
    BY <1>3, CutTyped
    DEF Release
  <1>4. CASE FinalizeSafety
    BY <1>4, FinaliseDoes
    DEF FinalizeSafety
  <1>5. CASE FinalizeReports
    <2>1. /\ call'.phase = call.phase /\ call'.handed = call.handed
          /\ call'.finalized = call.finalized /\ ~call'.known
      <3>1. CASE call.outbound /\ call.reported = "none"
        BY <1>5, <3>1 DEF FinalizeReports
      <3>2. CASE ~(call.outbound /\ call.reported = "none")
        BY <1>5, <3>2 DEF FinalizeReports
      <3> QED
        BY <3>1, <3>2
    <2>2. todo' \subseteq todo /\ UNCHANGED <<net, agent, setup, xfer, mishaps>>
      BY <1>5 DEF FinalizeReports
    <2> QED
      BY <2>1, <2>2
  <1> QED
    BY <1>1, <1>2, <1>3, <1>4, <1>5

LEMMA TransferKeeps ==
  ASSUME TypeOK, TypeOK', Heard, Position, Finalised,
         \/ ChooseTarget
         \/ OriginateOperatorLeg
         \/ JoinOperator
         \/ OperatorDoesNotAnswer
         \/ Redirect
         \/ WaitForOperator
         \/ TransferConnected
         \/ TransferCompleted
         \/ TransferFailed
  PROVE  Position' /\ Finalised'
  <1> USE DEF Position, Untaken, Unclaimed, HandedTo, Recorded, SocketEnds, Hanging,
       Finalised, FinalizedMeansOver, TypeOK, NetType, CallType
  <1>1. CASE ChooseTarget
    BY <1>1
    DEF ChooseTarget, Fail
  <1>2. CASE OriginateOperatorLeg
    BY <1>2
    DEF OriginateOperatorLeg, Fail
  <1>3. CASE JoinOperator
    BY <1>3
    DEF JoinOperator
  <1>4. CASE OperatorDoesNotAnswer
    BY <1>4
    DEF OperatorDoesNotAnswer, Fail
  <1>5. CASE Redirect
    <2>1. CASE net' = net
      BY <1>5, <2>1 DEF Redirect, Fail, Up, Lines
    <2>2. CASE xfer' = "waiting" /\ UNCHANGED <<call, todo>>
      <3>1. net'.line = "transfer" /\ net.line \in {"bridge", "transfer"} /\ xfer = "redirecting"
        BY <1>5, <2>2 DEF Redirect, Fail
      <3> QED
        BY <1>5, <2>2, <3>1 DEF Redirect
    <2> QED
      BY <1>5, <2>1, <2>2 DEF Redirect
  <1>6. CASE WaitForOperator
    BY <1>6
    DEF WaitForOperator, Fail, Up, Lines
  <1>7. CASE TransferConnected
    BY <1>7
    DEF TransferConnected
  <1>8. CASE TransferCompleted
    BY <1>8, EndAiPathDoes
    DEF TransferCompleted
  <1>9. CASE TransferFailed
    BY <1>9, EndAiPathDoes, HangUpDoes, ArmTimersTyped
    DEF TransferFailed
  <1> QED
    BY <1>1, <1>2, <1>3, <1>4, <1>5, <1>6, <1>7, <1>8, <1>9

(***************************************************************************)
(* What is heard stays true.                                               *)
(***************************************************************************)
LEMMA HeardStays ==
  ASSUME Heard, net'.events = net.events,
         setup = "idle" => setup' = "idle",
         net.line = "gone" => net'.line = "gone",
         call.handed => call'.handed \/ net'.line = "gone"
  PROVE  Heard'
  BY DEF Heard

LEMMA HeardRest ==
  ASSUME TypeOK, Heard, net.events # <<>>, net'.events = Rest.events,
         net.line = "gone" => net'.line = "gone",
         call.handed => call'.handed
  PROVE  Heard'
  <1>1. net \in NetType /\ Rest.events \in Seq(Events)
    BY RestTyped DEF TypeOK
  <1>2. \A i \in DOMAIN Rest.events :
          i \in Nat \ {0} /\ i + 1 \in DOMAIN net.events /\ Rest.events[i] = net.events[i + 1]
    BY <1>1, RestTyped
  <1> QED
    BY <1>2 DEF Heard

\* Only the end of a call is heard of a line that is cut.
LEMMA CutEvents ==
  ASSUME NEW n \in NetType, NEW i \in DOMAIN Cut(n).events, Cut(n).events[i] = "start"
  PROVE  i \in DOMAIN n.events /\ n.events[i] = "start"
  <1>1. CASE ~Up(n)
    BY <1>1 DEF Cut
  <1>2. CASE Up(n)
    <2>1. n.events \in Seq(Events)
      BY DEF NetType
    <2>2. CASE n.line = "stasis"
      <3>1. Cut(n).events = n.events \o <<"stasisEnd">> \o <<"destroyed">>
        BY <1>2, <2>2 DEF Cut
      <3> QED
        BY <2>1, <3>1
    <2>3. CASE n.line # "stasis"
      <3>1. Cut(n).events = n.events \o <<>> \o <<"destroyed">>
        BY <1>2, <2>3 DEF Cut
      <3> QED
        BY <2>1, <3>1
    <2> QED
      BY <2>2, <2>3
  <1> QED
    BY <1>1, <1>2

LEMMA HeardCut ==
  ASSUME TypeOK, Heard, Untaken, net' = Cut(net), setup = "idle" => setup' = "idle",
         call.handed => call'.handed
  PROVE  Heard'
  <1>1. net \in NetType
    BY DEF TypeOK
  <1>2. CASE net'.line = "gone"
    BY <1>1, <1>2, CutEvents DEF Heard
  <1>3. CASE net' = net
    BY <1>3 DEF Heard
  <1> QED
    BY <1>1, <1>2, <1>3, CutTyped DEF Untaken

\* One lemma for each group of actions.
LEMMA NetworkHeard ==
  ASSUME TypeOK, Heard, Position,
         \/ PersonAnswers
         \/ RingingEnds
         \/ CallerHangsUp
         \/ OperatorAnswers
         \/ NobodyAnswers
         \/ OperatorHangsUp
         \/ LoseEvent
  PROVE  Heard'
  <1> USE DEF Position
  <1>1. CASE PersonAnswers
    <2>1. net.events = <<>> /\ setup = "idle" /\ net'.events = Append(net.events, "start")
      BY <1>1 DEF PersonAnswers, Untaken, TypeOK, NetType
    <2>2. net'.events = <<"start">> /\ setup' = "idle"
      BY <1>1, <2>1 DEF PersonAnswers
    <2> QED
      BY <2>2 DEF Heard
  <1>2. CASE RingingEnds
    BY <1>2, HeardCut DEF RingingEnds
  <1>3. CASE CallerHangsUp
    BY <1>3, HeardCut DEF CallerHangsUp
  <1>4. CASE OperatorAnswers
    BY <1>4, HeardStays DEF OperatorAnswers, TypeOK, NetType, CallType
  <1>5. CASE NobodyAnswers
    BY <1>5, HeardCut DEF NobodyAnswers
  <1>6. CASE OperatorHangsUp
    <2>1. CASE net.line = "transfer"
      BY <1>6, <2>1, HeardCut DEF OperatorHangsUp
    <2>2. CASE net.line # "transfer"
      <3>1. net'.events = Append(net.events, "left") /\ net'.line = net.line
        BY <1>6, <2>2 DEF OperatorHangsUp, TypeOK, NetType
      <3> QED
        BY <1>6, <3>1, AppendTyped DEF OperatorHangsUp, Heard, TypeOK, Events
    <2> QED
      BY <2>1, <2>2
  <1>7. CASE LoseEvent
    BY <1>7, HeardRest, RestTyped DEF LoseEvent, Arrives, Rest, TypeOK, CallType
  <1> QED
    BY <1>1, <1>2, <1>3, <1>4, <1>5, <1>6, <1>7

LEMMA DialHeard ==
  ASSUME TypeOK, Heard, Position,
         \/ PlaceOutboundCall
         \/ AsteriskRings
         \/ OriginateReturns
         \/ OriginateFails
         \/ Watchdog
         \/ TellMissed
         \/ CutStaleDial
  PROVE  Heard'
  <1> USE DEF Position
  <1>1. CASE PlaceOutboundCall
    BY <1>1, HeardStays DEF PlaceOutboundCall, TypeOK, NetType, CallType
  <1>2. CASE AsteriskRings
    BY <1>2, HeardStays DEF AsteriskRings, TypeOK, NetType, CallType
  <1>3. CASE OriginateReturns
    BY <1>3, HeardStays DEF OriginateReturns, TypeOK, NetType, CallType
  <1>4. CASE OriginateFails
    BY <1>4, HeardStays DEF OriginateFails, TypeOK, NetType, CallType
  <1>5. CASE Watchdog
    BY <1>5, HeardStays DEF Watchdog, TypeOK, NetType, CallType
  <1>6. CASE TellMissed
    BY <1>6, HeardStays DEF TellMissed, TypeOK, NetType, CallType
  <1>7. CASE CutStaleDial
    BY <1>7, HeardCut DEF CutStaleDial
  <1> QED
    BY <1>1, <1>2, <1>3, <1>4, <1>5, <1>6, <1>7

LEMMA EventsHeard ==
  ASSUME TypeOK, Heard, Position,
         \/ HandleStasisStart
         \/ HandleStasisEnd
         \/ HandleChannelDestroyed
         \/ HandleChannelLeftBridge
  PROVE  Heard'
  <1> USE DEF Position
  <1>1. CASE HandleStasisStart
    <2>1. net.events # <<>>
      BY <1>1 DEF HandleStasisStart, Arrives
    <2>2. CASE net' = Rest
      BY <1>1, <2>1, <2>2, HeardRest, RestTyped DEF HandleStasisStart, TypeOK
    <2>3. CASE net' = Cut(Rest)
      <3>1. /\ Rest \in NetType /\ net'.line = "gone"
            /\ \A i \in DOMAIN Rest.events : Rest.events[i] # "start"
        <4>1. Rest \in NetType /\ Rest.line = net.line /\ Rest.events \in Seq(Events)
          BY <2>1, RestTyped DEF TypeOK
        <4>2. net.line # "none"
          BY <2>1 DEF Untaken
        <4>3. \A i \in DOMAIN Rest.events : i \in Nat \ {0} /\ Rest.events[i] # "start"
          BY <2>1, <4>1, RestTyped DEF TypeOK, Heard
        <4> QED
          BY <2>3, <4>1, <4>2, <4>3, CutTyped
      <3> QED
        BY <2>3, <3>1, CutEvents DEF Heard
    <2> QED
      BY <1>1, <2>2, <2>3 DEF HandleStasisStart
  <1>2. CASE HandleStasisEnd
    BY <1>2, HeardRest, RestTyped, FinaliseDoes DEF HandleStasisEnd, Arrives, TypeOK, CallType
  <1>3. CASE HandleChannelDestroyed
    BY <1>3, HeardRest, RestTyped, FinaliseDoes DEF HandleChannelDestroyed, Arrives, TypeOK, CallType
  <1>4. CASE HandleChannelLeftBridge
    BY <1>4, HeardRest, RestTyped DEF HandleChannelLeftBridge, Arrives, TypeOK, CallType
  <1> QED
    BY <1>1, <1>2, <1>3, <1>4

LEMMA SetupHeard ==
  ASSUME TypeOK, Heard, Position,
         \/ Register
         \/ CannotAttribute
         \/ AnswerChannel
         \/ ResolveProvider
         \/ CreateAiSession
         \/ StartVoice
         \/ DegradeToFallback
         \/ RunFallbackPath
         \/ HandToBridge
         \/ ContinueInDialplan
         \/ HandedOver
         \/ AbortCall
  PROVE  Heard'
  <1> USE DEF Position
  <1>1. CASE Register
    BY <1>1, HeardStays DEF Register, TypeOK, NetType, CallType
  <1>2. CASE CannotAttribute
    BY <1>2, HeardCut DEF CannotAttribute
  <1>3. CASE AnswerChannel
    BY <1>3, HeardStays DEF AnswerChannel, TypeOK, NetType, CallType
  <1>4. CASE ResolveProvider
    BY <1>4, HeardStays DEF ResolveProvider, TypeOK, NetType, CallType
  <1>5. CASE CreateAiSession
    BY <1>5, HeardStays DEF CreateAiSession, TypeOK, NetType, CallType
  <1>6. CASE StartVoice
    BY <1>6, HeardStays DEF StartVoice, TypeOK, NetType, CallType
  <1>7. CASE DegradeToFallback
    BY <1>7, HeardStays DEF DegradeToFallback, TypeOK, NetType, CallType
  <1>8. CASE RunFallbackPath
    BY <1>8, HeardStays DEF RunFallbackPath, TypeOK, NetType, CallType
  <1>9. CASE HandToBridge
    BY <1>9, HeardStays DEF HandToBridge, FlagHandover, TypeOK, NetType, CallType
  <1>10. CASE ContinueInDialplan
    <2>1. CASE net.line = "stasis"
      <3>1. /\ net'.events = Append(net.events, "stasisEnd")
            /\ setup # "idle" /\ call.handed /\ call' = call
        BY <1>10, <2>1 DEF ContinueInDialplan, HandedTo, TypeOK, NetType
      <3> QED
        BY <2>1, <3>1, AppendTyped DEF Heard, TypeOK, Events
    <2>2. CASE net.line # "stasis"
      <3>1. net.line = "gone"
        BY <1>10, <2>2 DEF ContinueInDialplan, HandedTo, Untaken, TypeOK, NetType, Lines
      <3>2. net' = net /\ setup' # "idle" /\ setup # "idle"
        BY <1>10, <2>2 DEF ContinueInDialplan
      <3> QED
        BY <3>1, <3>2 DEF Heard
    <2> QED
      BY <2>1, <2>2
  <1>11. CASE HandedOver
    BY <1>11, HeardStays DEF HandedOver, TypeOK, NetType, CallType
  <1>12. CASE AbortCall
    BY <1>12, HeardCut, FinaliseDoes DEF AbortCall, TypeOK, CallType
  <1> QED
    BY <1>1, <1>2, <1>3, <1>4, <1>5, <1>6, <1>7, <1>8, <1>9, <1>10, <1>11, <1>12

LEMMA AgentHeard ==
  ASSUME TypeOK, Heard, Position,
         \/ AttachAudioSocket
         \/ HandleAudioSocketEnd
         \/ HandleProviderClose
         \/ ToolTransferToHuman
         \/ TransferAnnounced
         \/ ToolEndCall
         \/ ToolRecordCallOutcome
         \/ OptOutStored
         \/ HandleDtmf
         \/ IvrRequestsTransfer
         \/ SupervisorHangsUp
         \/ SupervisorTransfers
  PROVE  Heard'
  <1> USE DEF Position
  <1>1. CASE AttachAudioSocket
    <2>1. CASE call.known
      BY <1>1, <2>1, HeardStays DEF AttachAudioSocket, TypeOK, NetType
    <2>2. CASE ~call.known
      <3> DEFINE over == [net EXCEPT !.socket = "over"]
      <3>1. /\ over \in NetType /\ over.events = net.events /\ over.line = "bridge"
            /\ net' = Cut(over)
        BY <1>1, <2>2 DEF AttachAudioSocket, TypeOK, NetType
      <3> HIDE DEF over
      <3>2. net'.line = "gone" /\ setup' = setup
        BY <1>1, <3>1, CutTyped DEF AttachAudioSocket
      <3> QED
        BY <3>1, <3>2, CutEvents DEF Heard
    <2> QED
      BY <2>1, <2>2
  <1>2. CASE HandleAudioSocketEnd
    BY <1>2, HeardStays, FinaliseDoes DEF HandleAudioSocketEnd, TypeOK, NetType, CallType
  <1>3. CASE HandleProviderClose
    BY <1>3, HeardStays DEF HandleProviderClose, TypeOK, NetType, CallType
  <1>4. CASE ToolTransferToHuman
    BY <1>4, HeardStays DEF ToolTransferToHuman, TypeOK, NetType, CallType
  <1>5. CASE TransferAnnounced
    BY <1>5, HeardStays DEF TransferAnnounced, StartTransfer, TypeOK, NetType, CallType
  <1>6. CASE ToolEndCall
    BY <1>6, HeardStays DEF ToolEndCall, TypeOK, NetType, CallType
  <1>7. CASE ToolRecordCallOutcome
    BY <1>7, HeardStays DEF ToolRecordCallOutcome, Tell, TypeOK, NetType, CallType
  <1>8. CASE OptOutStored
    BY <1>8, HeardStays DEF OptOutStored, Tell, TypeOK, NetType, CallType
  <1>9. CASE HandleDtmf
    BY <1>9, HeardStays DEF HandleDtmf, StartTransfer, TypeOK, NetType, CallType
  <1>10. CASE IvrRequestsTransfer
    BY <1>10, HeardStays DEF IvrRequestsTransfer, StartTransfer, TypeOK, NetType, CallType
  <1>11. CASE SupervisorHangsUp
    BY <1>11, HeardStays DEF SupervisorHangsUp, TypeOK, NetType, CallType
  <1>12. CASE SupervisorTransfers
    BY <1>12, HeardStays DEF SupervisorTransfers, StartTransfer, TypeOK, NetType, CallType
  <1> QED
    BY <1>1, <1>2, <1>3, <1>4, <1>5, <1>6, <1>7, <1>8, <1>9, <1>10, <1>11, <1>12

LEMMA EndingHeard ==
  ASSUME TypeOK, Heard, Position,
         \/ (\E t \in {"silence", "max"} : GuardFires(t))
         \/ Farewell
         \/ Release
         \/ FinalizeSafety
         \/ FinalizeReports
  PROVE  Heard'
  <1> USE DEF Position
  <1>1. CASE (\E t \in {"silence", "max"} : GuardFires(t))
    BY <1>1, HeardStays DEF GuardFires, TypeOK, NetType, CallType
  <1>2. CASE Farewell
    BY <1>2, HeardStays DEF Farewell, TypeOK, NetType, CallType
  <1>3. CASE Release
    BY <1>3, HeardCut DEF Release
  <1>4. CASE FinalizeSafety
    BY <1>4, HeardStays, FinaliseDoes DEF FinalizeSafety, TypeOK, NetType, CallType
  <1>5. CASE FinalizeReports
    BY <1>5, HeardStays DEF FinalizeReports, TypeOK, NetType, CallType
  <1> QED
    BY <1>1, <1>2, <1>3, <1>4, <1>5

LEMMA TransferHeard ==
  ASSUME TypeOK, Heard, Position,
         \/ ChooseTarget
         \/ OriginateOperatorLeg
         \/ JoinOperator
         \/ OperatorDoesNotAnswer
         \/ Redirect
         \/ WaitForOperator
         \/ TransferConnected
         \/ TransferCompleted
         \/ TransferFailed
  PROVE  Heard'
  <1> USE DEF Position
  <1>1. CASE ChooseTarget
    BY <1>1, HeardStays DEF ChooseTarget, Fail, TypeOK, NetType, CallType
  <1>2. CASE OriginateOperatorLeg
    BY <1>2, HeardStays DEF OriginateOperatorLeg, Fail, TypeOK, NetType, CallType
  <1>3. CASE JoinOperator
    BY <1>3, HeardStays DEF JoinOperator, TypeOK, NetType, CallType
  <1>4. CASE OperatorDoesNotAnswer
    BY <1>4, HeardStays DEF OperatorDoesNotAnswer, Fail, TypeOK, NetType, CallType
  <1>5. CASE Redirect
    BY <1>5, HeardStays DEF Redirect, Fail, TypeOK, NetType, CallType
  <1>6. CASE WaitForOperator
    BY <1>6, HeardStays DEF WaitForOperator, Fail, TypeOK, NetType, CallType
  <1>7. CASE TransferConnected
    BY <1>7, HeardStays DEF TransferConnected, TypeOK, NetType, CallType
  <1>8. CASE TransferCompleted
    BY <1>8, HeardStays DEF TransferCompleted, TypeOK, NetType, CallType
  <1>9. CASE TransferFailed
    BY <1>9, HeardStays DEF TransferFailed, TypeOK, NetType, CallType
  <1> QED
    BY <1>1, <1>2, <1>3, <1>4, <1>5, <1>6, <1>7, <1>8, <1>9

Over == TypeOK /\ Heard /\ Position /\ Finalised

LEMMA InitOver == Init => Over
  <1> SUFFICES ASSUME Init PROVE Over
    OBVIOUS
  <1>1. TypeOK
    BY InitTyped
  <1>2. /\ net.line \in {"none", "stasis"} /\ net.operator = "none" /\ net.socket = "none"
        /\ net.events = IF net.line = "none" THEN <<>> ELSE <<"start">>
        /\ ~call.known /\ ~call.handed /\ ~call.finalized /\ call.phase = "none"
    BY DEF Init
  <1>3. Heard
    BY <1>2 DEF Init, Heard
  <1>4. Position /\ Finalised
    BY <1>2 DEF Init, Position, Untaken, Unclaimed, HandedTo, Recorded, SocketEnds, Hanging,
                Finalised, FinalizedMeansOver
  <1> QED
    BY <1>1, <1>3, <1>4 DEF Over

LEMMA NextOver ==
  ASSUME Over, [Next]_vars
  PROVE  Over'
  <1> USE DEF Over
  <1>1. TypeOK'
    BY NextTyped
  <1>2. CASE UNCHANGED vars
    BY <1>1, <1>2 DEF vars, Heard, Position, Untaken, Unclaimed, HandedTo, Recorded, SocketEnds,
                      Hanging, Finalised, FinalizedMeansOver
  <1>3. CASE Next
    <2>1. Heard'
      BY <1>3, NetworkHeard, DialHeard, EventsHeard, SetupHeard, AgentHeard, EndingHeard,
         TransferHeard
      DEF Next, Environment, System, Setup, Transfer
    <2>2. Position' /\ Finalised'
      BY <1>1, <1>3, NetworkKeeps, DialKeeps, EventsKeeps, SetupKeeps, AgentKeeps, EndingKeeps,
         TransferKeeps
      DEF Next, Environment, System, Setup, Transfer
    <2> QED
      BY <1>1, <2>1, <2>2
  <1> QED
    BY <1>2, <1>3

\* A call is finalised only when the caller is gone, as long as the list of
\* channels can be read during a transfer: if it cannot, the transfer is given up
\* before the end of the AudioSocket connection, that end is read as the caller's,
\* and the call is finalised while they wait for an operator.
THEOREM FinalisedWhenOver ==
  ASSUME \A weather \in Weather : "poll" \notin weather
  PROVE  Spec => []FinalizedMeansOver
  <1>1. Init => Over
    BY InitOver
  <1>2. Over /\ [Next]_vars => Over'
    BY NextOver
  <1>3. Over => FinalizedMeansOver
    BY DEF Over, TypeOK, Finalised
  <1> QED
    BY <1>1, <1>2, <1>3, PTL DEF Spec

(***************************************************************************)
(* A transfer that is connected has an operator.                           *)
(***************************************************************************)

\* The operator has been heard when the transfer is taken for done.
Joined ==
    (xfer = "joined" \/ call.phase = "connected") /\ net.line = "transfer"
        => net.operator = "talking"

\* Unless the transfer goes on, or its operator answers or leaves.
LEMMA JoinedStays ==
  ASSUME Joined, Recorded, xfer' = xfer, call'.phase = call.phase,
         net'.line = "transfer" => net.line = "transfer" /\ net'.operator = net.operator
  PROVE  Recorded' /\ Joined'
  BY DEF Joined, Recorded

LEMMA NetworkJoins ==
  ASSUME TypeOK, Joined, Recorded,
         \/ PersonAnswers
         \/ RingingEnds
         \/ CallerHangsUp
         \/ OperatorAnswers
         \/ NobodyAnswers
         \/ OperatorHangsUp
         \/ LoseEvent
  PROVE  Recorded' /\ Joined'
  <1>1. CASE PersonAnswers
    BY <1>1, JoinedStays
    DEF PersonAnswers, TypeOK, NetType, CallType
  <1>2. CASE RingingEnds
    BY <1>2, JoinedStays, CutTyped
    DEF RingingEnds, TypeOK, NetType, CallType
  <1>3. CASE CallerHangsUp
    BY <1>3, JoinedStays, CutTyped
    DEF CallerHangsUp, TypeOK, NetType, CallType
  <1>4. CASE OperatorAnswers
    BY <1>4
    DEF OperatorAnswers, Joined, Recorded, TypeOK, NetType, CallType
  <1>5. CASE NobodyAnswers
    BY <1>5, JoinedStays, CutTyped
    DEF NobodyAnswers, TypeOK, NetType, CallType
  <1>6. CASE OperatorHangsUp
    BY <1>6, JoinedStays, CutTyped
    DEF OperatorHangsUp, TypeOK, NetType, CallType
  <1>7. CASE LoseEvent
    BY <1>7, JoinedStays, RestTyped
    DEF LoseEvent, Rest, TypeOK, NetType, CallType
  <1> QED
    BY <1>1, <1>2, <1>3, <1>4, <1>5, <1>6, <1>7

LEMMA DialJoins ==
  ASSUME TypeOK, Joined, Recorded,
         \/ PlaceOutboundCall
         \/ AsteriskRings
         \/ OriginateReturns
         \/ OriginateFails
         \/ Watchdog
         \/ TellMissed
         \/ CutStaleDial
  PROVE  Recorded' /\ Joined'
  <1>1. CASE PlaceOutboundCall
    BY <1>1, JoinedStays
    DEF PlaceOutboundCall, TypeOK, NetType, CallType
  <1>2. CASE AsteriskRings
    BY <1>2, JoinedStays
    DEF AsteriskRings, TypeOK, NetType, CallType
  <1>3. CASE OriginateReturns
    BY <1>3, JoinedStays
    DEF OriginateReturns, TypeOK, NetType, CallType
  <1>4. CASE OriginateFails
    BY <1>4, JoinedStays
    DEF OriginateFails, TypeOK, NetType, CallType
  <1>5. CASE Watchdog
    BY <1>5, JoinedStays
    DEF Watchdog, TypeOK, NetType, CallType
  <1>6. CASE TellMissed
    BY <1>6, JoinedStays
    DEF TellMissed, TypeOK, NetType, CallType
  <1>7. CASE CutStaleDial
    BY <1>7, JoinedStays, CutTyped
    DEF CutStaleDial, TypeOK, NetType, CallType
  <1> QED
    BY <1>1, <1>2, <1>3, <1>4, <1>5, <1>6, <1>7

LEMMA EventsJoins ==
  ASSUME TypeOK, Joined, Recorded,
         \/ HandleStasisStart
         \/ HandleStasisEnd
         \/ HandleChannelDestroyed
         \/ HandleChannelLeftBridge
  PROVE  Recorded' /\ Joined'
  <1>1. CASE HandleStasisStart
    BY <1>1, JoinedStays, CutTyped, RestTyped
    DEF HandleStasisStart, Arrives, TypeOK, NetType, CallType
  <1>2. CASE HandleStasisEnd
    BY <1>2, JoinedStays, RestTyped, FinaliseDoes
    DEF HandleStasisEnd, Arrives, TypeOK, NetType, CallType
  <1>3. CASE HandleChannelDestroyed
    BY <1>3, JoinedStays, RestTyped, FinaliseDoes
    DEF HandleChannelDestroyed, Arrives, TypeOK, NetType, CallType
  <1>4. CASE HandleChannelLeftBridge
    BY <1>4, JoinedStays, RestTyped
    DEF HandleChannelLeftBridge, Arrives, TypeOK, NetType, CallType
  <1> QED
    BY <1>1, <1>2, <1>3, <1>4

LEMMA SetupJoins ==
  ASSUME TypeOK, Joined, Recorded,
         \/ Register
         \/ CannotAttribute
         \/ AnswerChannel
         \/ ResolveProvider
         \/ CreateAiSession
         \/ StartVoice
         \/ DegradeToFallback
         \/ RunFallbackPath
         \/ HandToBridge
         \/ ContinueInDialplan
         \/ HandedOver
         \/ AbortCall
  PROVE  Recorded' /\ Joined'
  <1>1. CASE Register
    BY <1>1, JoinedStays
    DEF Register, TypeOK, NetType, CallType
  <1>2. CASE CannotAttribute
    BY <1>2, JoinedStays, CutTyped
    DEF CannotAttribute, TypeOK, NetType, CallType
  <1>3. CASE AnswerChannel
    BY <1>3, JoinedStays
    DEF AnswerChannel, TypeOK, NetType, CallType
  <1>4. CASE ResolveProvider
    BY <1>4, JoinedStays
    DEF ResolveProvider, TypeOK, NetType, CallType
  <1>5. CASE CreateAiSession
    BY <1>5, JoinedStays
    DEF CreateAiSession, TypeOK, NetType, CallType
  <1>6. CASE StartVoice
    BY <1>6, JoinedStays
    DEF StartVoice, TypeOK, NetType, CallType
  <1>7. CASE DegradeToFallback
    BY <1>7, JoinedStays
    DEF DegradeToFallback, TypeOK, NetType, CallType
  <1>8. CASE RunFallbackPath
    BY <1>8, JoinedStays
    DEF RunFallbackPath, TypeOK, NetType, CallType
  <1>9. CASE HandToBridge
    BY <1>9, JoinedStays
    DEF HandToBridge, FlagHandover, TypeOK, NetType, CallType
  <1>10. CASE ContinueInDialplan
    BY <1>10, JoinedStays
    DEF ContinueInDialplan, TypeOK, NetType, CallType
  <1>11. CASE HandedOver
    BY <1>11, JoinedStays
    DEF HandedOver, TypeOK, NetType, CallType
  <1>12. CASE AbortCall
    BY <1>12, JoinedStays, CutTyped, FinaliseDoes
    DEF AbortCall, TypeOK, NetType, CallType
  <1> QED
    BY <1>1, <1>2, <1>3, <1>4, <1>5, <1>6, <1>7, <1>8, <1>9, <1>10, <1>11, <1>12

LEMMA AgentJoins ==
  ASSUME TypeOK, Joined, Recorded,
         \/ AttachAudioSocket
         \/ HandleAudioSocketEnd
         \/ HandleProviderClose
         \/ ToolTransferToHuman
         \/ TransferAnnounced
         \/ ToolEndCall
         \/ ToolRecordCallOutcome
         \/ OptOutStored
         \/ HandleDtmf
         \/ IvrRequestsTransfer
         \/ SupervisorHangsUp
         \/ SupervisorTransfers
  PROVE  Recorded' /\ Joined'
  <1>1. CASE AttachAudioSocket
    BY <1>1, JoinedStays, CutTyped
    DEF AttachAudioSocket, TypeOK, NetType, CallType
  <1>2. CASE HandleAudioSocketEnd
    BY <1>2, JoinedStays, FinaliseDoes
    DEF HandleAudioSocketEnd, TypeOK, NetType, CallType
  <1>3. CASE HandleProviderClose
    BY <1>3, JoinedStays
    DEF HandleProviderClose, TypeOK, NetType, CallType
  <1>4. CASE ToolTransferToHuman
    BY <1>4, JoinedStays
    DEF ToolTransferToHuman, TypeOK, NetType, CallType
  <1>5. CASE TransferAnnounced
    BY <1>5
    DEF TransferAnnounced, StartTransfer, CanTransfer, Joined, Recorded, TypeOK, NetType, CallType
  <1>6. CASE ToolEndCall
    BY <1>6, JoinedStays
    DEF ToolEndCall, TypeOK, NetType, CallType
  <1>7. CASE ToolRecordCallOutcome
    BY <1>7, JoinedStays
    DEF ToolRecordCallOutcome, Tell, TypeOK, NetType, CallType
  <1>8. CASE OptOutStored
    BY <1>8, JoinedStays
    DEF OptOutStored, Tell, TypeOK, NetType, CallType
  <1>9. CASE HandleDtmf
    BY <1>9
    DEF HandleDtmf, StartTransfer, CanTransfer, Joined, Recorded, TypeOK, NetType, CallType
  <1>10. CASE IvrRequestsTransfer
    BY <1>10
    DEF IvrRequestsTransfer, StartTransfer, CanTransfer, Joined, Recorded, TypeOK, NetType, CallType
  <1>11. CASE SupervisorHangsUp
    BY <1>11, JoinedStays
    DEF SupervisorHangsUp, TypeOK, NetType, CallType
  <1>12. CASE SupervisorTransfers
    BY <1>12
    DEF SupervisorTransfers, StartTransfer, CanTransfer, Joined, Recorded, TypeOK, NetType, CallType
  <1> QED
    BY <1>1, <1>2, <1>3, <1>4, <1>5, <1>6, <1>7, <1>8, <1>9, <1>10, <1>11, <1>12

LEMMA EndingJoins ==
  ASSUME TypeOK, Joined, Recorded,
         \/ (\E t \in {"silence", "max"} : GuardFires(t))
         \/ Farewell
         \/ Release
         \/ FinalizeSafety
         \/ FinalizeReports
  PROVE  Recorded' /\ Joined'
  <1>1. CASE (\E t \in {"silence", "max"} : GuardFires(t))
    BY <1>1, JoinedStays
    DEF GuardFires, TypeOK, NetType, CallType
  <1>2. CASE Farewell
    BY <1>2, JoinedStays
    DEF Farewell, TypeOK, NetType, CallType
  <1>3. CASE Release
    BY <1>3, JoinedStays, CutTyped
    DEF Release, TypeOK, NetType, CallType
  <1>4. CASE FinalizeSafety
    BY <1>4, JoinedStays, FinaliseDoes
    DEF FinalizeSafety, TypeOK, NetType, CallType
  <1>5. CASE FinalizeReports
    BY <1>5, JoinedStays
    DEF FinalizeReports, TypeOK, NetType, CallType
  <1> QED
    BY <1>1, <1>2, <1>3, <1>4, <1>5

LEMMA TransferJoins ==
  ASSUME TypeOK, Joined, Recorded, "colleague" \notin mishaps,
         \/ ChooseTarget
         \/ OriginateOperatorLeg
         \/ JoinOperator
         \/ OperatorDoesNotAnswer
         \/ Redirect
         \/ WaitForOperator
         \/ TransferConnected
         \/ TransferCompleted
         \/ TransferFailed
  PROVE  Recorded' /\ Joined'
  <1>1. CASE ChooseTarget
    BY <1>1
    DEF ChooseTarget, Fail, Joined, Recorded, TypeOK, NetType, CallType
  <1>2. CASE OriginateOperatorLeg
    BY <1>2
    DEF OriginateOperatorLeg, Fail, Joined, Recorded, TypeOK, NetType, CallType
  <1>3. CASE JoinOperator
    BY <1>3
    DEF JoinOperator, Joined, Recorded, TypeOK, NetType, CallType
  <1>4. CASE OperatorDoesNotAnswer
    BY <1>4
    DEF OperatorDoesNotAnswer, Fail, Joined, Recorded, TypeOK, NetType, CallType
  <1>5. CASE Redirect
    BY <1>5
    DEF Redirect, Fail, Joined, Recorded, TypeOK, NetType, CallType
  <1>6. CASE WaitForOperator
    BY <1>6
    DEF WaitForOperator, Fail, OperatorIsUp, Joined, Recorded, TypeOK, NetType, CallType
  <1>7. CASE TransferConnected
    BY <1>7
    DEF TransferConnected, Joined, Recorded, TypeOK, NetType, CallType
  <1>8. CASE TransferCompleted
    BY <1>8
    DEF TransferCompleted, Joined, Recorded, TypeOK, NetType, CallType
  <1>9. CASE TransferFailed
    BY <1>9
    DEF TransferFailed, Joined, Recorded, TypeOK, NetType, CallType
  <1> QED
    BY <1>1, <1>2, <1>3, <1>4, <1>5, <1>6, <1>7, <1>8, <1>9

Connected == TypeOK /\ Recorded /\ Joined

LEMMA NextConnected ==
  ASSUME "colleague" \notin mishaps, Connected, [Next]_vars
  PROVE  Connected'
  <1> USE DEF Connected
  <1>1. TypeOK'
    BY NextTyped
  <1>2. CASE UNCHANGED vars
    BY <1>1, <1>2 DEF vars, Recorded, Joined
  <1>3. CASE Next
    BY <1>1, <1>3, NetworkJoins, DialJoins, EventsJoins, SetupJoins, AgentJoins, EndingJoins,
       TransferJoins
    DEF Next, Environment, System, Setup, Transfer
  <1> QED
    BY <1>2, <1>3

\* A transfer recorded as connected has an operator who speaks, as long as no other
\* operator of the tenant is on the telephone while one is waited for.
THEOREM ConnectedIsSpeaking ==
  ASSUME \A weather \in Weather : "colleague" \notin weather
  PROVE  Spec => []ConnectedMeansSpeaking
  <1>1. Init => Connected
    BY InitOver DEF Connected, Over, Position, Unclaimed, Init, Joined
  <1>2. Connected /\ [Next]_vars => Connected'
    BY NextConnected DEF Connected, TypeOK
  <1>3. Connected => ConnectedMeansSpeaking
    BY DEF Connected, Joined, ConnectedMeansSpeaking
  <1> QED
    BY <1>1, <1>2, <1>3, PTL DEF Spec

(***************************************************************************)
(* One verdict: ActiveCall implements the steps of DialVerdict.            *)
(***************************************************************************)

\* Who answers for the dial: the one that took it out of the pending ones.  While the
\* call has not been claimed, nothing is told but by abandonOutboundDial.
Answered ==
    /\ ~call.outbound => dial.at = "idle"
    /\ dial.leaving # "idle" => dial.at = "settled" /\ setup = "idle"
    /\ call.outbound /\ setup # "idle" => dial.at = "settled"
    /\ setup = "idle" /\ dial.leaving \in {"idle", "writing"} => told = <<>>
    /\ setup # "idle" => ~Verdict!Said("missed")
    /\ Verdict!Said("answered") => call.reported # "none"
    /\ "storing" \in todo => call.outbound

VerdictStep == [Verdict!Next]_(Verdict!vars)

LEMMA AnsweredStays ==
  ASSUME Answered, UNCHANGED told, dial'.at = dial.at, dial'.leaving = dial.leaving,
         call'.outbound = call.outbound, call'.reported = call.reported,
         setup' = setup \/ (setup # "idle" /\ setup' # "idle"),
         "storing" \in todo' => "storing" \in todo
  PROVE  Answered' /\ VerdictStep
  <1>1. UNCHANGED Verdict!vars
    BY DEF Verdict!vars
  <1>2. (Verdict!Said("missed"))' = Verdict!Said("missed")
    BY DEF Verdict!Said
  <1>3. (Verdict!Said("answered"))' = Verdict!Said("answered")
    BY DEF Verdict!Said
  <1> QED
    BY <1>1, <1>2, <1>3 DEF Answered, VerdictStep

\* A dial is taken out of the pending ones, and given up or claimed.
LEMMA AnsweredSettles ==
  ASSUME Answered, UNCHANGED <<told, call>>, dial.at = "parked", dial'.at = "settled",
         \/ dial'.leaving = "writing" /\ setup' = setup
         \/ dial'.leaving = dial.leaving /\ setup' # "idle",
         "storing" \in todo' => "storing" \in todo
  PROVE  Answered' /\ VerdictStep
  <1>1. UNCHANGED Verdict!vars
    BY DEF Verdict!vars
  <1>2. call.outbound /\ setup = "idle" /\ dial.leaving = "idle" /\ told = <<>>
    BY DEF Answered
  <1>3. ~(Verdict!Said("missed"))' /\ ~(Verdict!Said("answered"))'
    BY <1>2 DEF Verdict!Said
  <1> QED
    BY <1>1, <1>2, <1>3 DEF Answered, VerdictStep

\* One more outcome is told.
LEMMA ToldMore ==
  ASSUME TypeOK, NEW outcome, outcome \in {"missed", "answered", "optOut"},
         told' = Append(told, outcome)
  PROVE  \A o \in {"missed", "answered", "optOut"} :
           (Verdict!Said(o))' <=> Verdict!Said(o) \/ o = outcome
  <1> SUFFICES ASSUME NEW o \in {"missed", "answered", "optOut"}
               PROVE  (Verdict!Said(o))' <=> Verdict!Said(o) \/ o = outcome
    OBVIOUS
  <1>1. told \in Seq({"missed", "answered", "optOut"})
    BY DEF TypeOK
  <1>2. /\ DOMAIN told' = 1..(Len(told) + 1) /\ DOMAIN told = 1..Len(told) /\ Len(told) \in Nat
        /\ \A i \in DOMAIN told : told'[i] = told[i]
        /\ told'[Len(told) + 1] = outcome
    BY <1>1, AppendProperties
  <1>3. \A i \in DOMAIN told' : i \in DOMAIN told \/ i = Len(told) + 1
    BY <1>2
  <1>4. DOMAIN told \subseteq DOMAIN told' /\ Len(told) + 1 \in DOMAIN told'
    BY <1>2
  <1> QED
    BY <1>2, <1>3, <1>4 DEF Verdict!Said

\* The person who took the call is reported on.
LEMMA AnsweredTells ==
  ASSUME TypeOK, Answered, NEW outcome \in {"answered", "optOut"},
         call.outbound, setup # "idle", setup' = setup, UNCHANGED dial,
         outcome = "answered" => call.reported = "none",
         call'.reported = outcome, call'.outbound = call.outbound,
         told' = Append(told, outcome)
  PROVE  Answered' /\ VerdictStep
  <1>1. \A o \in {"missed", "answered", "optOut"} :
          (Verdict!Said(o))' <=> Verdict!Said(o) \/ o = outcome
    BY ToldMore
  <1>2. dial.at = "settled" /\ ~Verdict!Said("missed") /\ dial.leaving = "idle"
    BY DEF Answered
  <1>3. outcome = "answered" => ~Verdict!Said("answered")
    BY DEF Answered
  <1>4. Verdict!Next
    BY <1>2, <1>3 DEF Verdict!Next, Verdict!Converse, Verdict!Refuse, Verdict!Report
  <1>5. Answered'
    BY <1>1, <1>2 DEF Answered
  <1> QED
    BY <1>4, <1>5 DEF VerdictStep

LEMMA NetworkAnswers ==
  ASSUME TypeOK, Heard, Position, Answered,
         \/ PersonAnswers
         \/ RingingEnds
         \/ CallerHangsUp
         \/ OperatorAnswers
         \/ NobodyAnswers
         \/ OperatorHangsUp
         \/ LoseEvent
  PROVE  Answered' /\ VerdictStep
  <1>1. CASE PersonAnswers
    BY <1>1, AnsweredStays
    DEF PersonAnswers, TypeOK, CallType, DialType
  <1>2. CASE RingingEnds
    BY <1>2, AnsweredStays
    DEF RingingEnds, TypeOK, CallType, DialType
  <1>3. CASE CallerHangsUp
    BY <1>3, AnsweredStays
    DEF CallerHangsUp, TypeOK, CallType, DialType
  <1>4. CASE OperatorAnswers
    BY <1>4, AnsweredStays
    DEF OperatorAnswers, TypeOK, CallType, DialType
  <1>5. CASE NobodyAnswers
    BY <1>5, AnsweredStays
    DEF NobodyAnswers, TypeOK, CallType, DialType
  <1>6. CASE OperatorHangsUp
    BY <1>6, AnsweredStays
    DEF OperatorHangsUp, TypeOK, CallType, DialType
  <1>7. CASE LoseEvent
    BY <1>7, AnsweredStays
    DEF LoseEvent, TypeOK, CallType, DialType
  <1> QED
    BY <1>1, <1>2, <1>3, <1>4, <1>5, <1>6, <1>7

LEMMA DialAnswers ==
  ASSUME TypeOK, Heard, Position, Answered,
         \/ PlaceOutboundCall
         \/ AsteriskRings
         \/ OriginateReturns
         \/ OriginateFails
         \/ Watchdog
         \/ TellMissed
         \/ CutStaleDial
  PROVE  Answered' /\ VerdictStep
  <1>1. CASE PlaceOutboundCall
    <2>1. /\ dial.at = "idle" /\ dial'.at = "parked" /\ dial'.leaving = dial.leaving
          /\ call.outbound /\ UNCHANGED <<call, setup, told, todo>>
      BY <1>1 DEF PlaceOutboundCall, TypeOK, DialType
    <2>2. Verdict!Next
      BY <2>1 DEF Verdict!Next, Verdict!Place
    <2>3. Answered'
      BY <2>1 DEF Answered, Verdict!Said
    <2> QED
      BY <2>2, <2>3 DEF VerdictStep
  <1>2. CASE AsteriskRings
    BY <1>2, AnsweredStays
    DEF AsteriskRings, TypeOK, CallType, DialType
  <1>3. CASE OriginateReturns
    BY <1>3, AnsweredStays
    DEF OriginateReturns, TypeOK, CallType, DialType
  <1>4. CASE OriginateFails
    <2>1. CASE dial.at = "parked"
      <3>1. dial'.at = "settled" /\ dial'.leaving = "writing"
        BY <1>4, <2>1 DEF OriginateFails, Abandon, Settle, TypeOK, DialType
      <3> QED
        BY <1>4, <2>1, <3>1, AnsweredSettles DEF OriginateFails
    <2>2. CASE dial.at # "parked"
      <3>1. dial'.at = dial.at /\ dial'.leaving = dial.leaving
        BY <1>4, <2>2 DEF OriginateFails, Abandon, TypeOK, DialType
      <3> QED
        BY <1>4, <3>1, AnsweredStays DEF OriginateFails
    <2> QED
      BY <2>1, <2>2
  <1>5. CASE Watchdog
    <2>1. dial.at = "parked" /\ dial'.at = "settled" /\ dial'.leaving = "writing"
      BY <1>5 DEF Watchdog, Abandon, Settle, TypeOK, DialType
    <2> QED
      BY <1>5, <2>1, AnsweredSettles DEF Watchdog
  <1>6. CASE TellMissed
    <2>1. told = <<>> /\ dial.at = "settled" /\ setup = "idle"
      BY <1>6 DEF TellMissed, Answered
    <2>2. /\ told' = Append(told, "missed") /\ dial'.at = dial.at
          /\ dial'.leaving \in {"cutting", "done"} /\ UNCHANGED <<call, setup, todo>>
      BY <1>6 DEF TellMissed, TypeOK, DialType
    <2>3. Verdict!Next
      BY <2>1, <2>2 DEF Verdict!Next, Verdict!Miss, Verdict!Report
    <2>4. ~(Verdict!Said("answered"))'
      BY <2>1, <2>2, ToldMore DEF Verdict!Said
    <2>5. Answered'
      BY <2>1, <2>2, <2>4 DEF Answered
    <2> QED
      BY <2>3, <2>5 DEF VerdictStep
  <1>7. CASE CutStaleDial
    <2>1. dial'.at = dial.at /\ dial'.leaving = "done" /\ dial.leaving = "cutting"
      BY <1>7 DEF CutStaleDial, TypeOK, DialType
    <2>2. UNCHANGED <<call, setup, todo, told>>
      BY <1>7 DEF CutStaleDial
    <2>3. UNCHANGED Verdict!vars
      BY <2>1, <2>2 DEF Verdict!vars
    <2>4. Answered'
      BY <2>1, <2>2 DEF Answered, Verdict!Said
    <2> QED
      BY <2>3, <2>4 DEF VerdictStep
  <1> QED
    BY <1>1, <1>2, <1>3, <1>4, <1>5, <1>6, <1>7

LEMMA EventsAnswers ==
  ASSUME TypeOK, Heard, Position, Answered,
         \/ HandleStasisStart
         \/ HandleStasisEnd
         \/ HandleChannelDestroyed
         \/ HandleChannelLeftBridge
  PROVE  Answered' /\ VerdictStep
  <1> USE DEF Position
  <1>1. CASE HandleStasisStart
    <2>1. CASE UNCHANGED <<dial, setup>>
      BY <1>1, <2>1, AnsweredStays DEF HandleStasisStart
    <2>2. CASE call.outbound /\ dial.at = "parked" /\ setup' = "naming" /\ dial' = Settle(dial)
      <3>1. dial'.at = "settled" /\ dial'.leaving = dial.leaving
        BY <2>2 DEF Settle, TypeOK, DialType
      <3> QED
        BY <1>1, <2>2, <3>1, AnsweredSettles DEF HandleStasisStart
    <2>3. CASE ~call.outbound /\ setup' = "naming" /\ dial' = dial
      <3>1. setup = "idle"
        BY <1>1, FirstHeard DEF HandleStasisStart, Events
      <3>2. dial.at = "idle" /\ dial.leaving = "idle" /\ told = <<>>
        BY <2>3, <3>1 DEF Answered
      <3>3. UNCHANGED <<call, told, todo>> /\ UNCHANGED Verdict!vars
        BY <1>1, <2>3 DEF HandleStasisStart, Verdict!vars
      <3>4. ~(Verdict!Said("missed"))' /\ ~(Verdict!Said("answered"))'
        BY <3>2, <3>3 DEF Verdict!Said
      <3>5. Answered'
        BY <2>3, <3>1, <3>2, <3>3, <3>4 DEF Answered
      <3> QED
        BY <3>3, <3>5 DEF VerdictStep
    <2> QED
      BY <1>1, <2>1, <2>2, <2>3 DEF HandleStasisStart
  <1>2. CASE HandleStasisEnd
    BY <1>2, AnsweredStays, FinaliseDoes
    DEF HandleStasisEnd, TypeOK, CallType, DialType
  <1>3. CASE HandleChannelDestroyed
    <2>1. CASE dial.at = "parked"
      <3>1. dial'.at = "settled" /\ dial'.leaving = "writing"
        BY <1>3, <2>1 DEF HandleChannelDestroyed, Abandon, Settle, TypeOK, DialType
      <3> QED
        BY <1>3, <2>1, <3>1, AnsweredSettles DEF HandleChannelDestroyed
    <2>2. CASE dial.at # "parked"
      <3>1. /\ call'.outbound = call.outbound /\ call'.reported = call.reported
            /\ todo' \subseteq todo \cup {"finalise"}
        BY <1>3, <2>2, FinaliseDoes DEF HandleChannelDestroyed, TypeOK, CallType
      <3> QED
        BY <1>3, <2>2, <3>1, AnsweredStays DEF HandleChannelDestroyed
    <2> QED
      BY <2>1, <2>2
  <1>4. CASE HandleChannelLeftBridge
    BY <1>4, AnsweredStays, HangUpDoes
    DEF HandleChannelLeftBridge, TypeOK, CallType, DialType
  <1> QED
    BY <1>1, <1>2, <1>3, <1>4

LEMMA SetupAnswers ==
  ASSUME TypeOK, Heard, Position, Answered,
         \/ Register
         \/ CannotAttribute
         \/ AnswerChannel
         \/ ResolveProvider
         \/ CreateAiSession
         \/ StartVoice
         \/ DegradeToFallback
         \/ RunFallbackPath
         \/ HandToBridge
         \/ ContinueInDialplan
         \/ HandedOver
         \/ AbortCall
  PROVE  Answered' /\ VerdictStep
  <1>1. CASE Register
    BY <1>1, AnsweredStays
    DEF Register, TypeOK, CallType, DialType
  <1>2. CASE CannotAttribute
    BY <1>2, AnsweredStays
    DEF CannotAttribute, TypeOK, CallType, DialType
  <1>3. CASE AnswerChannel
    BY <1>3, AnsweredStays
    DEF AnswerChannel, TypeOK, CallType, DialType
  <1>4. CASE ResolveProvider
    BY <1>4, AnsweredStays
    DEF ResolveProvider, TypeOK, CallType, DialType
  <1>5. CASE CreateAiSession
    BY <1>5, AnsweredStays
    DEF CreateAiSession, TypeOK, CallType, DialType
  <1>6. CASE StartVoice
    BY <1>6, AnsweredStays
    DEF StartVoice, TypeOK, CallType, DialType
  <1>7. CASE DegradeToFallback
    BY <1>7, AnsweredStays
    DEF DegradeToFallback, TypeOK, CallType, DialType
  <1>8. CASE RunFallbackPath
    BY <1>8, AnsweredStays
    DEF RunFallbackPath, TypeOK, CallType, DialType
  <1>9. CASE HandToBridge
    BY <1>9, AnsweredStays
    DEF HandToBridge, FlagHandover, TypeOK, CallType, DialType
  <1>10. CASE ContinueInDialplan
    BY <1>10, AnsweredStays
    DEF ContinueInDialplan, TypeOK, CallType, DialType
  <1>11. CASE HandedOver
    BY <1>11, AnsweredStays
    DEF HandedOver, TypeOK, CallType, DialType
  <1>12. CASE AbortCall
    BY <1>12, AnsweredStays, FinaliseDoes
    DEF AbortCall, TypeOK, CallType, DialType
  <1> QED
    BY <1>1, <1>2, <1>3, <1>4, <1>5, <1>6, <1>7, <1>8, <1>9, <1>10, <1>11, <1>12

LEMMA AgentAnswers ==
  ASSUME TypeOK, Heard, Position, Answered,
         \/ AttachAudioSocket
         \/ HandleAudioSocketEnd
         \/ HandleProviderClose
         \/ ToolTransferToHuman
         \/ TransferAnnounced
         \/ ToolEndCall
         \/ ToolRecordCallOutcome
         \/ OptOutStored
         \/ HandleDtmf
         \/ IvrRequestsTransfer
         \/ SupervisorHangsUp
         \/ SupervisorTransfers
  PROVE  Answered' /\ VerdictStep
  <1>1. CASE AttachAudioSocket
    BY <1>1, AnsweredStays
    DEF AttachAudioSocket, TypeOK, CallType, DialType
  <1>2. CASE HandleAudioSocketEnd
    BY <1>2, AnsweredStays, FinaliseDoes
    DEF HandleAudioSocketEnd, TypeOK, CallType, DialType
  <1>3. CASE HandleProviderClose
    BY <1>3, AnsweredStays, HangUpDoes
    DEF HandleProviderClose, TypeOK, CallType, DialType
  <1>4. CASE ToolTransferToHuman
    BY <1>4, AnsweredStays
    DEF ToolTransferToHuman, TypeOK, CallType, DialType
  <1>5. CASE TransferAnnounced
    BY <1>5, AnsweredStays
    DEF TransferAnnounced, StartTransfer, TypeOK, CallType, DialType
  <1>6. CASE ToolEndCall
    BY <1>6, AnsweredStays
    DEF ToolEndCall, TypeOK, CallType, DialType
  <1>7. CASE ToolRecordCallOutcome
    <2>1. call.outbound /\ setup # "idle" /\ UNCHANGED <<dial, setup>>
      BY <1>7 DEF ToolRecordCallOutcome, Conversing, Position, Unclaimed
    <2>2. CASE call.reported = "none" /\ Tell("answered") /\ UNCHANGED todo
      <3>1. call'.reported = "answered" /\ call'.outbound = call.outbound
        BY <2>2 DEF Tell, TypeOK, CallType
      <3> QED
        BY <2>1, <2>2, <3>1, AnsweredTells DEF Tell
    <2>3. CASE todo' = todo \cup {"storing"} /\ UNCHANGED <<call, told>>
      <3>1. UNCHANGED Verdict!vars
        BY <2>1, <2>3 DEF Verdict!vars
      <3>2. Answered'
        BY <2>1, <2>3 DEF Answered, Verdict!Said
      <3> QED
        BY <3>1, <3>2 DEF VerdictStep
    <2> QED
      BY <1>7, <2>2, <2>3 DEF ToolRecordCallOutcome
  <1>8. CASE OptOutStored
    <2>1. call.outbound /\ setup # "idle" /\ UNCHANGED <<dial, setup>>
      BY <1>8 DEF OptOutStored, Answered, Position, Unclaimed
    <2>2. call'.reported = "optOut" /\ call'.outbound = call.outbound /\ told' = Append(told, "optOut")
      BY <1>8 DEF OptOutStored, Tell, TypeOK, CallType
    <2> QED
      BY <2>1, <2>2, AnsweredTells
  <1>9. CASE HandleDtmf
    BY <1>9, AnsweredStays
    DEF HandleDtmf, StartTransfer, TypeOK, CallType, DialType
  <1>10. CASE IvrRequestsTransfer
    BY <1>10, AnsweredStays
    DEF IvrRequestsTransfer, StartTransfer, TypeOK, CallType, DialType
  <1>11. CASE SupervisorHangsUp
    BY <1>11, AnsweredStays, HangUpDoes
    DEF SupervisorHangsUp, TypeOK, CallType, DialType
  <1>12. CASE SupervisorTransfers
    BY <1>12, AnsweredStays
    DEF SupervisorTransfers, StartTransfer, TypeOK, CallType, DialType
  <1> QED
    BY <1>1, <1>2, <1>3, <1>4, <1>5, <1>6, <1>7, <1>8, <1>9, <1>10, <1>11, <1>12

LEMMA EndingAnswers ==
  ASSUME TypeOK, Heard, Position, Answered,
         \/ (\E t \in {"silence", "max"} : GuardFires(t))
         \/ Farewell
         \/ Release
         \/ FinalizeSafety
         \/ FinalizeReports
  PROVE  Answered' /\ VerdictStep
  <1>1. CASE (\E t \in {"silence", "max"} : GuardFires(t))
    BY <1>1, AnsweredStays
    DEF GuardFires, TypeOK, CallType, DialType
  <1>2. CASE Farewell
    BY <1>2, AnsweredStays, HangUpDoes
    DEF Farewell, TypeOK, CallType, DialType
  <1>3. CASE Release
    BY <1>3, AnsweredStays
    DEF Release, TypeOK, CallType, DialType
  <1>4. CASE FinalizeSafety
    BY <1>4, AnsweredStays, FinaliseDoes
    DEF FinalizeSafety, TypeOK, CallType, DialType
  <1>5. CASE FinalizeReports
    <2>1. setup # "idle" /\ UNCHANGED <<dial, setup>>
      BY <1>5 DEF FinalizeReports, Position, Unclaimed
    <2>2. CASE call.outbound /\ call.reported = "none"
      <3>1. /\ call'.reported = "answered" /\ call'.outbound = call.outbound
            /\ told' = Append(told, "answered")
        BY <1>5, <2>2 DEF FinalizeReports, TypeOK, CallType
      <3> QED
        BY <2>1, <2>2, <3>1, AnsweredTells
    <2>3. CASE ~(call.outbound /\ call.reported = "none")
      <3>1. call'.reported = call.reported /\ call'.outbound = call.outbound /\ UNCHANGED told
        BY <1>5, <2>3 DEF FinalizeReports, TypeOK, CallType
      <3> QED
        BY <1>5, <2>1, <3>1, AnsweredStays DEF FinalizeReports
    <2> QED
      BY <2>2, <2>3
  <1> QED
    BY <1>1, <1>2, <1>3, <1>4, <1>5

LEMMA TransferAnswers ==
  ASSUME TypeOK, Heard, Position, Answered,
         \/ ChooseTarget
         \/ OriginateOperatorLeg
         \/ JoinOperator
         \/ OperatorDoesNotAnswer
         \/ Redirect
         \/ WaitForOperator
         \/ TransferConnected
         \/ TransferCompleted
         \/ TransferFailed
  PROVE  Answered' /\ VerdictStep
  <1>1. CASE ChooseTarget
    BY <1>1, AnsweredStays
    DEF ChooseTarget, Fail, TypeOK, CallType, DialType
  <1>2. CASE OriginateOperatorLeg
    BY <1>2, AnsweredStays
    DEF OriginateOperatorLeg, Fail, TypeOK, CallType, DialType
  <1>3. CASE JoinOperator
    BY <1>3, AnsweredStays
    DEF JoinOperator, TypeOK, CallType, DialType
  <1>4. CASE OperatorDoesNotAnswer
    BY <1>4, AnsweredStays
    DEF OperatorDoesNotAnswer, Fail, TypeOK, CallType, DialType
  <1>5. CASE Redirect
    BY <1>5, AnsweredStays
    DEF Redirect, Fail, TypeOK, CallType, DialType
  <1>6. CASE WaitForOperator
    BY <1>6, AnsweredStays
    DEF WaitForOperator, Fail, TypeOK, CallType, DialType
  <1>7. CASE TransferConnected
    BY <1>7, AnsweredStays
    DEF TransferConnected, TypeOK, CallType, DialType
  <1>8. CASE TransferCompleted
    BY <1>8, AnsweredStays
    DEF TransferCompleted, TypeOK, CallType, DialType
  <1>9. CASE TransferFailed
    BY <1>9, AnsweredStays, HangUpDoes
    DEF TransferFailed, TypeOK, CallType, DialType
  <1> QED
    BY <1>1, <1>2, <1>3, <1>4, <1>5, <1>6, <1>7, <1>8, <1>9

\* Every step of the orchestrator is a step of DialVerdict or changes nothing that the
\* dialer sees; with the liveness that TLC checks this is VerdictSpec.
THEOREM OneVerdict == Spec => Verdict!Init /\ [][Verdict!Next]_(Verdict!vars)
  <1>1. Init => Over /\ Answered /\ Verdict!Init
    <2> SUFFICES ASSUME Init PROVE Over /\ Answered /\ Verdict!Init
      OBVIOUS
    <2>1. dial.at = "idle" /\ dial.leaving = "idle" /\ told = <<>> /\ setup = "idle" /\ todo = {}
      BY DEF Init
    <2>2. ~Verdict!Said("missed") /\ ~Verdict!Said("answered")
      BY <2>1 DEF Verdict!Said
    <2> QED
      BY <2>1, <2>2, InitOver DEF Answered, Verdict!Init
  <1>2. Over /\ [Next]_vars => Over'
    BY NextOver
  <1>3. Over /\ Answered /\ [Next]_vars => Answered' /\ [Verdict!Next]_(Verdict!vars)
    <2> SUFFICES ASSUME Over, Answered, [Next]_vars PROVE Answered' /\ VerdictStep
      BY DEF VerdictStep
    <2>1. CASE UNCHANGED vars
      BY <2>1, AnsweredStays DEF vars
    <2>2. CASE Next
      BY <2>2, NetworkAnswers, DialAnswers, EventsAnswers, SetupAnswers, AgentAnswers,
         EndingAnswers, TransferAnswers
      DEF Over, Next, Environment, System, Setup, Transfer
    <2> QED
      BY <2>1, <2>2
  <1> QED
    BY <1>1, <1>2, <1>3, PTL DEF Spec
==================================================================================
