-------------------------- MODULE CallRecord_proofs --------------------------
(***************************************************************************)
(* What the rows of a call keep, for any number of tickets, retries and    *)
(* corrections, and for every order of their statements.  The invariant    *)
(* adds what a writer that is under way may rely on: that setup and the    *)
(* session go together, that the end of the AI path closes the session or  *)
(* says why not, and that a ticket which is live is the call's or is being *)
(* linked.                                                                 *)
(***************************************************************************)
EXTENDS CallRecord, FiniteSetTheorems, TLAPS

SetupSteps == {"answer", "mark", "launch", "create", "assign", "activate", "over"}
PathSteps == {"open", "stop", "finish", "over"}
TeardownSteps == {"no", "ai_path", "end_call", "leave", "over"}
AskSteps == {"no", "look", "linked", "insert", "link", "over"}
WriterSteps == {"no", "model", "upsert", "status", "mirror", "correct", "copy", "over"}

CallRow == [status : {"ringing", "answered", "completed", "abandoned"}, ended : BOOLEAN,
            ticket : Asks \cup {None}, aiStatus : {"pending", "completed", "failed"}]
SessionRow == [status : {"none", "initializing", "active", "transferring", "closed"}, ended : BOOLEAN]
TicketRow == [state : {"none", "live", "removed"}, summary : Writers \cup {None}]
History == [together : BOOLEAN, crossed : BOOLEAN, late : BOOLEAN, failed : BOOLEAN]
WriterState == [at : WriterSteps, sees : Asks \cup {None}, works : BOOLEAN]

RecordTypeOK ==
  /\ row \in CallRow
  /\ session \in SessionRow
  /\ answered \in BOOLEAN /\ known \in BOOLEAN
  /\ setup \in SetupSteps
  /\ transfer \in {"no", "mark", "over"}
  /\ aiPath \in PathSteps /\ teardown \in TeardownSteps
  /\ ask \in [Asks -> AskSteps]
  /\ ticket \in [Asks -> TicketRow]
  /\ analysis \in [status : {"none", "completed", "failed"}, summary : Writers \cup {None}]
  /\ writer \in [Writers -> WriterState]
  /\ history \in History

EndedIsEnded == row.ended => row.status \in {"completed", "abandoned"}

\* A session exists once setup has inserted it, and is known once setup has its
\* id; only one that is known is ended.
SetupInOrder ==
  /\ setup \in {"answer", "mark", "launch", "create"} => session.status = "none" /\ ~known
  /\ setup = "assign" => session.status # "none" /\ ~known
  /\ setup = "activate" => known
  /\ known => session.status # "none" /\ setup \in {"activate", "over"}
  /\ session.ended => known
  /\ transfer = "mark" => known

\* The teardown comes with the end of the AI path or after it, and the call's
\* row ends with the teardown; once the path is over the session is, or it was
\* not known by then, or its last statement failed.
SessionAtEnd ==
  /\ aiPath = "open" => teardown = "no"
  /\ row.ended => teardown \in {"leave", "over"}
  /\ aiPath = "finish" => known
  /\ aiPath = "over" => session.ended \/ history.late \/ history.failed

\* One ask at a time; a live ticket is the call's or is being linked; and
\* whoever inserts one finds none, whoever links one links the only one.
TicketsApart ==
  ~history.together =>
    /\ \A a, b \in Asks : Busy(a) /\ Busy(b) => a = b
    /\ \A a \in LiveTickets : row.ticket = a \/ ask[a] = "link"
    /\ \A a, b \in Asks : ask[a] = "insert" => b \notin LiveTickets
    /\ \A a, b \in Asks : ask[a] = "link" /\ b \in LiveTickets => a = b

OnlyCorrectionsCopy ==
  \A w \in Writers : writer[w].at \in {"correct", "copy"} => w \in Corrections

RecordInv ==
  /\ RecordTypeOK
  /\ EndedIsEnded /\ SetupInOrder /\ SessionAtEnd /\ TicketsApart /\ OnlyCorrectionsCopy

LEMMA RecordStarts == RecordInit => RecordInv
<1> SUFFICES ASSUME RecordInit PROVE RecordInv
  OBVIOUS
<1>1. RecordTypeOK
  BY DEF RecordInit, RecordTypeOK, CallRow, SessionRow, SetupSteps, PathSteps, TeardownSteps,
         AskSteps, TicketRow, WriterState, WriterSteps, History
<1>2. EndedIsEnded /\ SetupInOrder /\ SessionAtEnd
  BY DEF RecordInit, EndedIsEnded, SetupInOrder, SessionAtEnd
<1>3. LiveTickets = {} /\ \A a \in Asks : ~Busy(a)
  BY DEF RecordInit, LiveTickets, Busy
<1>4. TicketsApart
  BY <1>3 DEF TicketsApart, Busy
<1>5. OnlyCorrectionsCopy
  BY DEF RecordInit, OnlyCorrectionsCopy
<1> QED BY <1>1, <1>2, <1>4, <1>5 DEF RecordInv

(***************************************************************************)
(* The call and its session                                                *)
(***************************************************************************)
\* A statement about the call leaves its tickets and its analysis alone.
LEMMA CallStepKeepsTheRest ==
  ASSUME RecordInv, UNCHANGED <<ask, ticket, analysis, writer>>,
         row'.ticket = row.ticket, history'.together = history.together
  PROVE  TicketsApart' /\ OnlyCorrectionsCopy'
<1>1. LiveTickets' = LiveTickets /\ \A a \in Asks : Busy(a)' = Busy(a)
  BY DEF LiveTickets, Busy
<1>2. TicketsApart'
  BY <1>1 DEF RecordInv, TicketsApart
<1> QED BY <1>2 DEF RecordInv, OnlyCorrectionsCopy

CallStep ==
  \/ Answered \/ MarkCallAnswered \/ BuildProvider
  \/ CreateAiSession \/ SessionIsKnown \/ ActivateSession
  \/ StartTransfer \/ MarkTransferring
  \/ EndAiPath \/ ProviderStopped \/ FinishAiSession
  \/ Finalize \/ MarkCallEnded \/ LeaveCalls

\* updateAiSession relabels a session; it neither ends nor reopens one.
LEMMA StatusKeepsTheEnd ==
  ASSUME RecordInv, NEW s \in {"active", "transferring"}, SetSessionStatus(s)
  PROVE  /\ session' \in SessionRow /\ session'.ended = session.ended
         /\ session.status # "none" => session'.status # "none"
<1>1. session \in SessionRow
  BY DEF RecordInv, RecordTypeOK
<1>2. CASE session' = session
  BY <1>1, <1>2
<1>3. CASE session' = [session EXCEPT !.status = s]
  BY <1>1, <1>3 DEF SessionRow
<1> QED BY <1>2, <1>3 DEF SetSessionStatus

\* What endAiPath notes as it closes the path.
LEMMA ClosingIsNoted ==
  ASSUME RecordInv, CloseAiPath
  PROVE  /\ history' \in History
         /\ history'.together = history.together /\ history'.crossed = history.crossed
         /\ aiPath' \in {"stop", "over"}
         /\ aiPath' = "over" => history'.late
  BY DEF RecordInv, RecordTypeOK, History, CloseAiPath

LEMMA CallSteps ==
  ASSUME RecordInv, CallStep
  PROVE  RecordInv' /\ (row.ended => row'.ended /\ row'.status = row.status) /\ UNCHANGED ticket
<1> USE DEF RecordInv, RecordTypeOK, CallRow, SessionRow, SetupSteps, PathSteps, TeardownSteps,
            SessionUnchanged, TicketsUnchanged, AnalysisUnchanged,
            EndedIsEnded, SetupInOrder, SessionAtEnd
<1>1. CASE Answered
  BY <1>1, CallStepKeepsTheRest DEF Answered
<1>2. CASE MarkCallAnswered
  <2>1. /\ row' \in CallRow /\ row'.ended = row.ended /\ row'.ticket = row.ticket
        /\ row.ended => row'.status = row.status
    BY <1>2 DEF MarkCallAnswered, AnsweredRow
  <2> QED BY <1>2, <2>1, CallStepKeepsTheRest DEF MarkCallAnswered
<1>3. CASE BuildProvider
  BY <1>3, CallStepKeepsTheRest DEF BuildProvider
<1>4. CASE CreateAiSession
  <2>1. CASE setup' = "over" /\ session' = session
    BY <1>4, <2>1, CallStepKeepsTheRest DEF CreateAiSession
  <2>2. CASE setup' = "assign" /\ session' = [status |-> "initializing", ended |-> FALSE]
    BY <1>4, <2>2, CallStepKeepsTheRest DEF CreateAiSession
  <2> QED BY <1>4, <2>1, <2>2 DEF CreateAiSession
<1>5. CASE SessionIsKnown
  <2>1. /\ UNCHANGED <<row, session, answered, transfer, aiPath, teardown, history>>
        /\ UNCHANGED <<ask, ticket, analysis, writer>>
        /\ setup = "assign" /\ ~known /\ session.status # "none"
    BY <1>5 DEF SessionIsKnown
  <2>2. setup' \in {"activate", "over"} /\ (known' <=> setup' = "activate")
    BY <1>5 DEF SessionIsKnown
  <2>3. known' \in BOOLEAN
    BY <1>5 DEF SessionIsKnown
  <2>4. TicketsApart' /\ OnlyCorrectionsCopy'
    BY <2>1, CallStepKeepsTheRest
  <2>5. SetupInOrder' /\ SessionAtEnd' /\ EndedIsEnded'
    BY <2>1, <2>2
  <2>6. RecordTypeOK'
    BY <2>1, <2>2, <2>3
  <2> QED BY <2>1, <2>4, <2>5, <2>6
<1>6. CASE ActivateSession
  <2>1. /\ session' \in SessionRow /\ session'.ended = session.ended
        /\ session.status # "none" => session'.status # "none"
    BY <1>6, StatusKeepsTheEnd DEF ActivateSession
  <2> QED BY <1>6, <2>1, CallStepKeepsTheRest DEF ActivateSession
<1>7. CASE StartTransfer
  BY <1>7, CallStepKeepsTheRest DEF StartTransfer
<1>8. CASE MarkTransferring
  <2>1. /\ session' \in SessionRow /\ session'.ended = session.ended
        /\ session.status # "none" => session'.status # "none"
    BY <1>8, StatusKeepsTheEnd DEF MarkTransferring
  <2> QED BY <1>8, <2>1, CallStepKeepsTheRest DEF MarkTransferring
<1>9. CASE EndAiPath
  <2>1. /\ history' \in History /\ history'.together = history.together
        /\ aiPath' \in {"stop", "over"} /\ (aiPath' = "over" => history'.late)
    BY <1>9, ClosingIsNoted DEF EndAiPath
  <2>2. UNCHANGED <<row, setup, transfer, teardown, session, answered, known, ask, ticket,
                    analysis, writer>>
    BY <1>9 DEF EndAiPath
  <2> QED BY <2>1, <2>2, CallStepKeepsTheRest
<1>10. CASE ProviderStopped
  <2>1. /\ history' \in History /\ history'.together = history.together
        /\ history'.late = ~known
    BY <1>10 DEF ProviderStopped, History
  <2>2. /\ aiPath' \in {"finish", "over"}
        /\ aiPath' = "finish" => known
        /\ aiPath' = "over" => ~known
    BY <1>10 DEF ProviderStopped, SessionToFinish
  <2>3. UNCHANGED <<row, setup, transfer, teardown, session, answered, known, ask, ticket,
                    analysis, writer>> /\ aiPath = "stop"
    BY <1>10 DEF ProviderStopped
  <2>4. TicketsApart' /\ OnlyCorrectionsCopy'
    BY <2>1, <2>3, CallStepKeepsTheRest
  <2>5. SetupInOrder' /\ SessionAtEnd' /\ EndedIsEnded'
    BY <2>1, <2>2, <2>3
  <2>6. RecordTypeOK'
    BY <2>1, <2>2, <2>3
  <2> QED BY <2>3, <2>4, <2>5, <2>6
<1>11. CASE FinishAiSession
  <2>1. /\ UNCHANGED <<row, answered, known, setup, transfer, teardown>>
        /\ UNCHANGED <<ask, ticket, analysis, writer>>
        /\ aiPath = "finish" /\ aiPath' = "over" /\ known
    BY <1>11 DEF FinishAiSession
  <2>2. /\ history' \in History /\ history'.together = history.together
        /\ session' \in SessionRow
        /\ session.status # "none" => session'.status # "none"
        /\ session'.ended \/ history'.failed
    <3>1. CASE history' = [history EXCEPT !.failed = TRUE] /\ session' = session
      BY <3>1 DEF History
    <3>2. CASE /\ session' = IF session.ended THEN session
                             ELSE [status |-> "closed", ended |-> TRUE]
               /\ history' = history
      BY <3>2
    <3> QED BY <1>11, <3>1, <3>2 DEF FinishAiSession
  <2>3. TicketsApart' /\ OnlyCorrectionsCopy'
    BY <2>1, <2>2, CallStepKeepsTheRest
  <2>4. SetupInOrder' /\ SessionAtEnd' /\ EndedIsEnded'
    BY <2>1, <2>2
  <2>5. RecordTypeOK'
    BY <2>1, <2>2
  <2> QED BY <2>1, <2>3, <2>4, <2>5
<1>12. CASE Finalize
  <2>1. UNCHANGED <<row, setup, transfer, session, answered, known, ask, ticket, analysis, writer>>
        /\ teardown = "no"
    BY <1>12 DEF Finalize
  <2>2. CASE aiPath = "open"
    <3>1. /\ history' \in History /\ history'.together = history.together
          /\ aiPath' \in {"stop", "over"} /\ (aiPath' = "over" => history'.late)
      BY <1>12, <2>2, ClosingIsNoted DEF Finalize
    <3>2. teardown' = "ai_path"
      BY <1>12, <2>2 DEF Finalize
    <3> QED BY <2>1, <3>1, <3>2, CallStepKeepsTheRest
  <2>3. CASE aiPath # "open"
    <3>1. teardown' = "end_call" /\ UNCHANGED <<aiPath, history>>
      BY <1>12, <2>3 DEF Finalize
    <3> QED BY <2>1, <2>3, <3>1, CallStepKeepsTheRest
  <2> QED BY <2>2, <2>3
<1>13. CASE MarkCallEnded
  <2>1. /\ row' \in CallRow /\ row'.ticket = row.ticket
        /\ row'.ended => row'.status \in {"completed", "abandoned"}
        /\ row.ended => row'.ended /\ row'.status = row.status
    <3>1. CASE row' = row
      BY <3>1
    <3>2. CASE ~row.ended /\ row' = EndedRow
      BY <3>2 DEF EndedRow
    <3> QED BY <1>13, <3>1, <3>2 DEF MarkCallEnded
  <2>2. /\ UNCHANGED <<setup, transfer, aiPath, history, session, answered, known, ask, ticket,
                       analysis, writer>>
        /\ teardown' = "leave" /\ aiPath # "open"
    BY <1>13 DEF MarkCallEnded
  <2>3. TicketsApart' /\ OnlyCorrectionsCopy'
    BY <2>1, <2>2, CallStepKeepsTheRest
  <2> QED BY <2>1, <2>2, <2>3
<1>14. CASE LeaveCalls
  BY <1>14, CallStepKeepsTheRest DEF LeaveCalls
<1> QED
  BY <1>1, <1>2, <1>3, <1>4, <1>5, <1>6, <1>7, <1>8, <1>9, <1>10, <1>11, <1>12, <1>13, <1>14
     DEF CallStep

(***************************************************************************)
(* The tickets                                                             *)
(***************************************************************************)
\* A statement about a ticket leaves the session, and all but the call's link.
TicketStep(a) ==
  \/ AskForTicket(a) \/ ReadCallTicket(a) \/ ReadLinkedTicket(a)
  \/ InsertTicket(a) \/ LinkTicket(a) \/ AskFails(a) \/ RemoveTicket(a)

LEMMA TicketStepsFrame ==
  ASSUME RecordInv, NEW a \in Asks, TicketStep(a)
  PROVE  /\ RecordTypeOK' /\ EndedIsEnded' /\ SetupInOrder' /\ SessionAtEnd' /\ OnlyCorrectionsCopy'
         /\ row.ended => row'.ended /\ row'.status = row.status
         /\ \A b \in Asks : ticket'[b].summary = ticket[b].summary
<1> USE DEF RecordInv, RecordTypeOK, CallRow, TicketRow, AskSteps, SessionUnchanged, AnalysisUnchanged,
            CallUnchanged, EndedIsEnded, SetupInOrder, SessionAtEnd, OnlyCorrectionsCopy
<1>1. CASE AskForTicket(a)
  <2>1. history' \in History /\ history'.late = history.late /\ history'.failed = history.failed
    BY <1>1 DEF AskForTicket, History
  <2> QED BY <1>1, <2>1 DEF AskForTicket
<1>2. CASE ReadCallTicket(a)
  BY <1>2 DEF ReadCallTicket
<1>3. CASE ReadLinkedTicket(a)
  BY <1>3 DEF ReadLinkedTicket
<1>4. CASE InsertTicket(a)
  BY <1>4 DEF InsertTicket
<1>5. CASE LinkTicket(a)
  BY <1>5 DEF LinkTicket
<1>6. CASE AskFails(a)
  <2>1. history' \in History /\ history'.late = history.late /\ history'.failed = history.failed
    BY <1>6 DEF AskFails, History
  <2> QED BY <1>6, <2>1 DEF AskFails
<1>7. CASE RemoveTicket(a)
  BY <1>7 DEF RemoveTicket
<1> QED
  BY <1>1, <1>2, <1>3, <1>4, <1>5, <1>6, <1>7 DEF TicketStep

LEMMA TicketStepsApart ==
  ASSUME RecordInv, NEW a \in Asks, TicketStep(a)
  PROVE  TicketsApart'
<1> USE DEF RecordInv, RecordTypeOK, CallRow, TicketRow, AskSteps, CallUnchanged, AnalysisUnchanged
<1> SUFFICES ASSUME ~history'.together PROVE TicketsApart'
  BY DEF TicketsApart
<1>1. CASE AskForTicket(a)
  <2>1. ~history.together /\ \A b \in Asks : ~Busy(b)
    BY <1>1 DEF AskForTicket, History
  <2>2. LiveTickets' = LiveTickets /\ row' = row
    BY <1>1 DEF AskForTicket, LiveTickets
  <2>3. \A b \in Asks : b # a => ~Busy(b)'
    BY <1>1, <2>1 DEF AskForTicket, Busy
  <2>4. ask'[a] = "look" /\ \A b \in Asks : ask'[b] = "insert" \/ ask'[b] = "link" => b # a /\ Busy(b)'
    BY <1>1 DEF AskForTicket, Busy
  <2>5. \A b \in LiveTickets : row.ticket = b
    BY <2>1 DEF TicketsApart, Busy, LiveTickets
  <2> QED BY <2>2, <2>3, <2>4, <2>5 DEF TicketsApart
<1>2. CASE ReadCallTicket(a)
  <2>1. ~history.together /\ LiveTickets' = LiveTickets /\ row' = row
    BY <1>2 DEF ReadCallTicket, LiveTickets
  <2>2. \A b \in Asks : b # a => ask'[b] = ask[b]
    BY <1>2 DEF ReadCallTicket
  <2>3. ask[a] = "look" /\ ask'[a] \in {"linked", "insert"}
    BY <1>2 DEF ReadCallTicket
  <2>4. ask'[a] = "insert" => row.ticket = None
    BY <1>2 DEF ReadCallTicket, HasTicket
  <2>5. \A b \in Asks : b # a => ~Busy(b)
    BY <2>1, <2>3 DEF TicketsApart, Busy
  <2>6. row.ticket = None => LiveTickets = {}
    BY <2>1, <2>3, <2>5, WritersAssumption DEF TicketsApart, Busy, LiveTickets
  <2>7. \A b \in Asks : b # a => ask'[b] \in {"no", "over"} /\ ~Busy(b)'
    BY <2>2, <2>5 DEF Busy
  <2>8. \A b \in LiveTickets : row.ticket = b
    BY <2>1, <2>3, <2>7, <2>2 DEF TicketsApart, LiveTickets
  <2>9. \A b \in Asks : ask'[b] # "link" /\ (ask'[b] = "insert" => LiveTickets = {})
    BY <2>3, <2>4, <2>6, <2>7
  <2> QED BY <2>1, <2>7, <2>8, <2>9 DEF TicketsApart
<1>3. CASE ReadLinkedTicket(a)
  <2>1. ~history.together /\ LiveTickets' = LiveTickets /\ row' = row
    BY <1>3 DEF ReadLinkedTicket, LiveTickets
  <2>2. \A b \in Asks : b # a => ask'[b] = ask[b]
    BY <1>3 DEF ReadLinkedTicket
  <2>3. ask[a] = "linked" /\ ask'[a] \in {"over", "insert"}
    BY <1>3 DEF ReadLinkedTicket
  <2>4. ask'[a] = "insert" => row.ticket \notin LiveTickets
    BY <1>3 DEF ReadLinkedTicket, LiveTickets
  <2>5. \A b \in Asks : b # a => ~Busy(b)
    BY <2>1, <2>3 DEF TicketsApart, Busy
  <2>6. row.ticket \notin LiveTickets => LiveTickets = {}
    BY <2>1, <2>3, <2>5 DEF TicketsApart, Busy, LiveTickets
  <2>7. \A b \in Asks : b # a => ask'[b] \in {"no", "over"} /\ ~Busy(b)'
    BY <2>2, <2>5 DEF Busy
  <2>8. \A b \in LiveTickets : row.ticket = b
    BY <2>1, <2>3, <2>7, <2>2 DEF TicketsApart, LiveTickets
  <2>9. \A b \in Asks : ask'[b] # "link" /\ (ask'[b] = "insert" => LiveTickets = {})
    BY <2>3, <2>4, <2>6, <2>7
  <2> QED BY <2>1, <2>7, <2>8, <2>9 DEF TicketsApart
<1>4. CASE InsertTicket(a)
  <2>1. ~history.together /\ row' = row /\ ask[a] = "insert" /\ ask'[a] = "link"
    BY <1>4 DEF InsertTicket
  <2>2. \A b \in Asks : b # a => ask'[b] = ask[b] /\ ~Busy(b)
    BY <1>4, <2>1 DEF InsertTicket, TicketsApart, Busy
  <2>3. \A b \in Asks : b # a => b \notin LiveTickets'
    BY <1>4, <2>1 DEF InsertTicket, TicketsApart, LiveTickets
  <2> QED BY <2>1, <2>2, <2>3 DEF TicketsApart, Busy, LiveTickets
<1>5. CASE LinkTicket(a)
  <2>1. ~history.together /\ LiveTickets' = LiveTickets /\ row'.ticket = a
    BY <1>5 DEF LinkTicket, LiveTickets
  <2>2. ask[a] = "link" /\ ask'[a] = "over"
    BY <1>5 DEF LinkTicket
  <2>3. \A b \in Asks : b # a => ask'[b] = ask[b] /\ ~Busy(b)
    BY <1>5, <2>1, <2>2 DEF LinkTicket, TicketsApart, Busy
  <2>4. \A b \in LiveTickets : b = a
    BY <2>1, <2>2 DEF TicketsApart, LiveTickets
  <2> QED BY <2>1, <2>2, <2>3, <2>4 DEF TicketsApart, Busy
<1>6. CASE AskFails(a)
  <2>1. ~history.together /\ LiveTickets' = LiveTickets /\ row' = row
    BY <1>6 DEF AskFails, LiveTickets, History
  <2>2. ask[a] # "link" /\ ask'[a] = "over"
    BY <1>6 DEF AskFails, History
  <2>3. \A b \in Asks : b # a => ask'[b] = ask[b]
    BY <1>6 DEF AskFails
  <2> QED BY <2>1, <2>2, <2>3 DEF TicketsApart, Busy, LiveTickets
<1>7. CASE RemoveTicket(a)
  <2>1. ~history.together /\ row' = row /\ ask' = ask
    BY <1>7 DEF RemoveTicket
  <2>2. LiveTickets' \subseteq LiveTickets
    BY <1>7 DEF RemoveTicket, LiveTickets
  <2> QED BY <2>1, <2>2 DEF TicketsApart, Busy, LiveTickets
<1> QED
  BY <1>1, <1>2, <1>3, <1>4, <1>5, <1>6, <1>7 DEF TicketStep

(***************************************************************************)
(* The analysis                                                            *)
(***************************************************************************)
WriterStep(w) ==
  \/ RetryAnalysis(w) \/ ModelAnswers(w) \/ UpsertAnalysis(w) \/ SetAiStatus(w)
  \/ MirrorToTicket(w) \/ WriteFails(w)
  \/ BeginCorrection(w) \/ CorrectAnalysis(w) \/ CopyCorrection(w)

\* What a writer's step keeps that touches no more than the analysis, a summary
\* and its own position.
LEMMA WriterStepKeepsTheRest ==
  ASSUME RecordInv, UNCHANGED <<session, answered, known, setup, transfer, aiPath, teardown, ask>>,
         row' \in CallRow, row'.status = row.status, row'.ended = row.ended, row'.ticket = row.ticket,
         ticket' \in [Asks -> TicketRow], \A a \in Asks : ticket'[a].state = ticket[a].state,
         analysis' \in [status : {"none", "completed", "failed"}, summary : Writers \cup {None}],
         history' \in History,
         history'.together = history.together, history'.late = history.late /\ history'.failed = history.failed,
         writer' \in [Writers -> WriterState],
         \A w \in Writers : writer'[w].at \in {"correct", "copy"} => w \in Corrections
  PROVE  RecordInv' /\ (row.ended => row'.ended /\ row'.status = row.status)
<1> USE DEF RecordInv
<1>1. RecordTypeOK'
  BY DEF RecordTypeOK
<1>2. EndedIsEnded' /\ SetupInOrder' /\ SessionAtEnd'
  BY DEF EndedIsEnded, SetupInOrder, SessionAtEnd
<1>3. LiveTickets' = LiveTickets /\ \A a \in Asks : Busy(a)' = Busy(a)
  BY DEF LiveTickets, Busy
<1>4. TicketsApart'
  BY <1>3 DEF TicketsApart
<1>5. OnlyCorrectionsCopy'
  BY DEF OnlyCorrectionsCopy
<1> QED BY <1>1, <1>2, <1>4, <1>5

\* Crossing says only that writers crossed.
LEMMA CrossingIsHistory ==
  ASSUME RecordInv, NEW b \in BOOLEAN, history' = [history EXCEPT !.crossed = b]
  PROVE  /\ history' \in History
         /\ history'.together = history.together /\ history'.late = history.late /\ history'.failed = history.failed
  BY DEF RecordInv, RecordTypeOK, History

LEMMA CrossingKeeps ==
  ASSUME RecordInv, NEW w \in Writers, Crossing(w)
  PROVE  /\ history' \in History
         /\ history'.together = history.together /\ history'.late = history.late /\ history'.failed = history.failed
<1>1. PICK b \in BOOLEAN : history' = [history EXCEPT !.crossed = b]
  BY DEF Crossing
<1> QED BY <1>1, CrossingIsHistory

LEMMA AnalyseCallStep ==
  ASSUME RecordInv, AnalyseCall
  PROVE  RecordInv' /\ (row.ended => row'.ended /\ row'.status = row.status) /\ UNCHANGED ticket
<1> USE DEF RecordInv, RecordTypeOK, OnlyCorrectionsCopy, CallAndTicketsUnchanged, CallUnchanged,
            SessionUnchanged, TicketsUnchanged
<1>1. Post \in Writers /\ Post \notin Corrections
  BY WritersAssumption DEF Writers
<1>2. /\ history' \in History
      /\ history'.together = history.together /\ history'.late = history.late /\ history'.failed = history.failed
  <2>1. CASE UNCHANGED history
    BY <2>1
  <2>2. CASE Crossing(Post)
    BY <2>2, <1>1, CrossingKeeps
  <2> QED BY <2>1, <2>2 DEF AnalyseCall
<1>3. /\ writer' \in [Writers -> WriterState]
      /\ writer'[Post].at \in {"model", "upsert"}
      /\ \A v \in Writers : v # Post => writer'[v] = writer[v]
  BY <1>1 DEF AnalyseCall, WriterGoes, WriterState, WriterSteps
<1>4. UNCHANGED <<row, session, answered, known, setup, transfer, aiPath, teardown, ask, ticket, analysis>>
  BY DEF AnalyseCall
<1> QED BY <1>2, <1>3, <1>4, WriterStepKeepsTheRest

\* A writer moves, and remembers a ticket.
LEMMA WriterSeesMore ==
  ASSUME writer \in [Writers -> WriterState], NEW w \in Writers, NEW step \in WriterSteps,
         NEW id \in Asks \cup {None}, writer' = [writer EXCEPT ![w].at = step, ![w].sees = id]
  PROVE  /\ writer' \in [Writers -> WriterState]
         /\ writer'[w].at = step
         /\ \A v \in Writers : v # w => writer'[v] = writer[v]
<1>1. [writer EXCEPT ![w].at = step, ![w].sees = id] \in [Writers -> WriterState]
  BY DEF WriterState
<1>2. [writer EXCEPT ![w].at = step, ![w].sees = id][w].at = step
  BY DEF WriterState
<1>3. \A v \in Writers : v # w => [writer EXCEPT ![w].at = step, ![w].sees = id][v] = writer[v]
  BY DEF WriterState
<1> QED BY <1>1, <1>2, <1>3

\* A writer moves, and has something to write or not.
LEMMA WriterTurns ==
  ASSUME writer \in [Writers -> WriterState], NEW w \in Writers, NEW step \in WriterSteps,
         NEW works \in BOOLEAN, writer' = [writer EXCEPT ![w].at = step, ![w].works = works]
  PROVE  /\ writer' \in [Writers -> WriterState]
         /\ writer'[w].at = step
         /\ \A v \in Writers : v # w => writer'[v] = writer[v]
<1>1. [writer EXCEPT ![w].at = step, ![w].works = works] \in [Writers -> WriterState]
  BY DEF WriterState
<1>2. [writer EXCEPT ![w].at = step, ![w].works = works][w].at = step
  BY DEF WriterState
<1>3. \A v \in Writers : v # w => [writer EXCEPT ![w].at = step, ![w].works = works][v] = writer[v]
  BY DEF WriterState
<1> QED BY <1>1, <1>2, <1>3

\* The summariser's answer, or its failure: the writer turns to the upsert.
LEMMA WriterTurnsToUpsert ==
  ASSUME writer \in [Writers -> WriterState], NEW w \in Writers, NEW works \in BOOLEAN,
         writer' = [writer EXCEPT ![w].at = "upsert", ![w].works = works]
  PROVE  /\ writer' \in [Writers -> WriterState]
         /\ writer'[w].at = "upsert"
         /\ \A v \in Writers : v # w => writer'[v] = writer[v]
<1>1. "upsert" \in WriterSteps
  BY DEF WriterSteps
<1> QED BY <1>1, WriterTurns

\* A summary is taken from a ticket by a supervisor's correction only.
Kept ==
  \A a \in Asks : (ticket[a].summary # None /\ ticket'[a].summary = None) =>
    \E e \in Corrections : writer[e].at = "copy" /\ ~writer[e].works

LEMMA AnalysisSteps ==
  ASSUME RecordInv, NEW w \in Writers, WriterStep(w)
  PROVE  RecordInv' /\ (row.ended => row'.ended /\ row'.status = row.status) /\ Kept
<1> USE DEF RecordInv, RecordTypeOK, OnlyCorrectionsCopy, CallAndTicketsUnchanged, CallUnchanged,
            SessionUnchanged, TicketsUnchanged
<1>0. w # None
  BY WritersAssumption DEF Writers
<1>t. w \in Writers /\ writer \in [Writers -> WriterState]
  OBVIOUS
<1> DEFINE WriterMoves == /\ writer' \in [Writers -> WriterState]
                          /\ \A v \in Writers : v # w => writer'[v] = writer[v]
                          /\ writer'[w].at \in {"correct", "copy"} => w \in Corrections
<1> DEFINE HistoryMoves == /\ history' \in History
                           /\ history'.together = history.together /\ history'.late = history.late /\ history'.failed = history.failed
<1>a. WriterEnds(w) => WriterMoves
  BY DEF WriterEnds, WriterState, WriterSteps
<1>b. \A step \in WriterSteps :
        (WriterGoes(w, step) /\ (step \in {"correct", "copy"} => w \in Corrections)) => WriterMoves
  BY DEF WriterGoes, WriterState
<1>1. CASE RetryAnalysis(w)
  <2>1. WriterMoves
    BY <1>1, <1>b DEF RetryAnalysis, WriterSteps
  <2> QED BY <1>1, <2>1, WriterStepKeepsTheRest DEF RetryAnalysis, Kept
<1>2. CASE ModelAnswers(w)
  <2>1. WriterMoves
    <3>1. PICK works \in BOOLEAN : writer' = [writer EXCEPT ![w].at = "upsert", ![w].works = works]
      BY ONLY <1>2 DEF ModelAnswers
    <3>2. /\ writer' \in [Writers -> WriterState]
          /\ writer'[w].at = "upsert"
          /\ \A v \in Writers : v # w => writer'[v] = writer[v]
      BY ONLY <3>1, <1>t, WriterTurnsToUpsert
    <3> QED BY ONLY <3>2
  <2>2. HistoryMoves
    BY <1>2, CrossingKeeps DEF ModelAnswers
  <2> QED BY <1>2, <2>1, <2>2, WriterStepKeepsTheRest DEF ModelAnswers, Kept
<1>3. CASE UpsertAnalysis(w)
  <2>1. WriterMoves
    BY <1>3, <1>b DEF UpsertAnalysis, WriterSteps
  <2>2. analysis' \in [status : {"none", "completed", "failed"}, summary : Writers \cup {None}]
    BY <1>3 DEF UpsertAnalysis
  <2> QED BY <1>3, <2>1, <2>2, WriterStepKeepsTheRest DEF UpsertAnalysis, Kept
<1>4. CASE SetAiStatus(w)
  <2>1. WriterMoves
    <3>1. CASE row.ticket = None
      BY <1>4, <3>1, <1>a DEF SetAiStatus
    <3>2. CASE row.ticket # None
      <4>1. writer' = [writer EXCEPT ![w].at = "mirror", ![w].sees = row.ticket]
        BY <1>4, <3>2 DEF SetAiStatus
      <4>2. "mirror" \in WriterSteps /\ row.ticket \in Asks \cup {None}
        BY DEF WriterSteps, CallRow
      <4>3. /\ writer' \in [Writers -> WriterState]
            /\ writer'[w].at = "mirror"
            /\ \A v \in Writers : v # w => writer'[v] = writer[v]
        BY <4>1, <4>2, WriterSeesMore
      <4> QED BY ONLY <4>3
    <3> QED BY <3>1, <3>2
  <2>2. row' \in CallRow /\ row'.status = row.status /\ row'.ended = row.ended /\ row'.ticket = row.ticket
    BY <1>4 DEF SetAiStatus, CallRow
  <2> QED BY <1>4, <2>1, <2>2, WriterStepKeepsTheRest DEF SetAiStatus, Kept
<1>5. CASE MirrorToTicket(w)
  <2>1. WriterMoves
    BY <1>5, <1>a DEF MirrorToTicket
  <2>2. \A t \in TicketRow : /\ Mirrored(t, w) \in TicketRow /\ Mirrored(t, w).state = t.state
                             /\ t.summary # None => Mirrored(t, w).summary # None
    BY <1>0 DEF Mirrored, TicketRow
  <2>3. /\ ticket' \in [Asks -> TicketRow]
        /\ \A a \in Asks : /\ ticket'[a].state = ticket[a].state
                           /\ ticket[a].summary # None => ticket'[a].summary # None
    <3>1. PICK seen : ticket' = [ticket EXCEPT ![seen] = Mirrored(ticket[seen], w)]
      BY <1>5 DEF MirrorToTicket
    <3>2. CASE seen \in Asks
      <4>1. PICK m \in TicketRow : /\ m = Mirrored(ticket[seen], w) /\ m.state = ticket[seen].state
                                   /\ ticket[seen].summary # None => m.summary # None
        BY <2>2, <3>2
      <4>2. ticket' = [ticket EXCEPT ![seen] = m]
        BY <3>1, <4>1
      <4>3. ticket'[seen] = m /\ \A a \in Asks : a # seen => ticket'[a] = ticket[a]
        BY <3>2, <4>2
      <4> QED BY <4>1, <4>2, <4>3
    <3>3. CASE seen \notin Asks
      <4>1. ticket' = ticket
        BY <3>1, <3>3
      <4> QED BY <4>1
    <3> QED BY <3>2, <3>3
  <2>4. Kept
    BY ONLY <2>3 DEF Kept
  <2>5. UNCHANGED <<row, session, answered, known, setup, transfer, aiPath, teardown, ask, analysis, history>>
    BY <1>5 DEF MirrorToTicket
  <2>6. RecordInv' /\ (row.ended => row'.ended /\ row'.status = row.status)
    BY <2>1, <2>3, <2>5, WriterStepKeepsTheRest
  <2> QED BY <2>4, <2>6
<1>6. CASE WriteFails(w)
  <2>1. WriterMoves
    <3>1. CASE writer[w].works
      <4>1. writer' = [writer EXCEPT ![w].at = "upsert", ![w].works = FALSE]
        BY <1>6, <3>1 DEF WriteFails
      <4>2. /\ writer' \in [Writers -> WriterState]
            /\ writer'[w].at = "upsert"
            /\ \A v \in Writers : v # w => writer'[v] = writer[v]
        BY ONLY <4>1, <1>t, WriterTurnsToUpsert
      <4> QED BY ONLY <4>2
    <3>2. CASE ~writer[w].works
      BY <1>6, <3>2, <1>a DEF WriteFails
    <3> QED BY <3>1, <3>2
  <2>2. HistoryMoves
    BY <1>6, CrossingIsHistory DEF WriteFails
  <2> QED BY <1>6, <2>1, <2>2, WriterStepKeepsTheRest DEF WriteFails, Kept
<1>7. CASE BeginCorrection(w)
  <2>1. WriterMoves
    BY <1>7 DEF BeginCorrection, WriterState, WriterSteps, CallRow
  <2>2. HistoryMoves
    BY <1>7, CrossingKeeps DEF BeginCorrection
  <2> QED BY <1>7, <2>1, <2>2, WriterStepKeepsTheRest DEF BeginCorrection, Kept
<1>8. CASE CorrectAnalysis(w)
  <2>1. WriterMoves
    BY <1>8, <1>a, <1>b DEF CorrectAnalysis, WriterSteps
  <2>2. analysis' \in [status : {"none", "completed", "failed"}, summary : Writers \cup {None}]
    BY <1>8 DEF CorrectAnalysis, Correction
  <2> QED BY <1>8, <2>1, <2>2, WriterStepKeepsTheRest DEF CorrectAnalysis, Kept
<1>9. CASE CopyCorrection(w)
  <2>1. WriterMoves
    BY <1>9, <1>a DEF CopyCorrection
  <2>2. HistoryMoves
    BY <1>9, CrossingIsHistory DEF CopyCorrection
  <2>3. Correction(w) \in Writers \cup {None} /\ (Correction(w) = None => ~writer[w].works)
    BY <1>0 DEF Correction
  <2>4. /\ ticket' \in [Asks -> TicketRow]
        /\ \A a \in Asks : /\ ticket'[a].state = ticket[a].state
                           /\ ticket'[a].summary \in {ticket[a].summary, Correction(w)}
    BY <1>9, <2>3 DEF CopyCorrection, TicketRow
  <2>5. writer[w].at = "copy" /\ w \in Corrections
    BY <1>9 DEF CopyCorrection
  <2>6. Kept
    BY <2>3, <2>4, <2>5 DEF Kept
  <2> QED BY <1>9, <2>1, <2>2, <2>4, <2>6, WriterStepKeepsTheRest DEF CopyCorrection
<1> QED
  BY <1>1, <1>2, <1>3, <1>4, <1>5, <1>6, <1>7, <1>8, <1>9 DEF WriterStep

(***************************************************************************)
(* One story on three pages                                                *)
(***************************************************************************)
Agreed ==
  /\ analysis.status # "none" => row.aiStatus = analysis.status
  /\ (row.ticket # None /\ analysis.summary # None) =>
       ticket[row.ticket].summary = analysis.summary

\* How far the writer w has brought the three tables together.
HalfWay(w) ==
  /\ writer[w].at \in {"status", "mirror"} =>
       /\ analysis.status = IF writer[w].works THEN "completed" ELSE "failed"
       /\ analysis.summary = IF writer[w].works THEN w ELSE None
  /\ writer[w].at \in {"mirror", "correct", "copy"} =>
       /\ row.aiStatus = analysis.status
       /\ writer[w].sees = row.ticket
  /\ writer[w].at \in {"mirror", "copy"} => row.ticket # None
  /\ writer[w].at = "copy" => analysis.summary = Correction(w)

\* What is written after the call, and by whom.
AfterTheCall ==
  /\ analysis.status # "none" => teardown = "over"
  /\ analysis.status = "none" => analysis.summary = None
  /\ \A w \in Writers : writer[w].at # "no" => teardown = "over"
  /\ \A w \in Writers : writer[w].at \in {"status", "mirror", "correct", "copy"} =>
       analysis.status # "none"

\* As long as nobody has crossed anybody, one writer writes at a time and no
\* tool is about to link a ticket.
OneStory ==
  ~history.crossed =>
    /\ \A v, w \in Writers : Writing(v) /\ Writing(w) => v = w
    /\ \A a \in Asks : Busy(a) => analysis.status = "none" /\ \A w \in Writers : ~Writing(w)
    /\ \A w \in Writers : Writing(w) => HalfWay(w)
    /\ (\A w \in Writers : ~Writing(w)) => Agreed

Story == AfterTheCall /\ OneStory

LEMMA StoryStarts == RecordInit => Story
<1> SUFFICES ASSUME RecordInit PROVE Story
  OBVIOUS
<1>1. \A w \in Writers : writer[w].at = "no" /\ ~Writing(w)
  BY DEF RecordInit, Writing
<1>2. analysis.status = "none" /\ analysis.summary = None
  BY DEF RecordInit
<1>3. \A a \in Asks : ~Busy(a)
  BY DEF RecordInit, Busy
<1> QED BY <1>1, <1>2, <1>3 DEF Story, AfterTheCall, OneStory, Agreed

\* A step that writes neither the analysis nor its copies, and starts no tool
\* once the call is over.
LEMMA StoryIsLeftAlone ==
  ASSUME Story, UNCHANGED <<analysis, writer>>,
         row'.ticket = row.ticket, row'.aiStatus = row.aiStatus, history'.crossed = history.crossed,
         \A a \in Asks : ticket'[a].summary = ticket[a].summary, row.ticket \in Asks \cup {None},
         teardown = "over" => teardown' = "over",
         \A a \in Asks : Busy(a)' => Busy(a) \/ teardown = "no"
  PROVE  Story'
<1>1. AfterTheCall'
  BY DEF Story, AfterTheCall
<1>2. \A w \in Writers : /\ Writing(w)' <=> Writing(w)
                         /\ HalfWay(w) => HalfWay(w)'
  BY DEF Writing, HalfWay, Correction
<1>3. Agreed => Agreed'
  BY DEF Agreed
<1>4. teardown = "no" => analysis.status = "none" /\ \A w \in Writers : ~Writing(w)
  BY DEF Story, AfterTheCall, Writing
<1>5. OneStory'
  BY <1>2, <1>3, <1>4 DEF Story, OneStory
<1> QED BY <1>1, <1>5 DEF Story

LEMMA CallStepsKeepTheStory ==
  ASSUME RecordInv, Story, CallStep
  PROVE  Story'
<1>1. UNCHANGED <<analysis, writer, ask, ticket>> /\ history'.crossed = history.crossed
  BY DEF RecordInv, RecordTypeOK, History, TicketsUnchanged, AnalysisUnchanged, CallStep,
         Answered, MarkCallAnswered, BuildProvider, CreateAiSession, SessionIsKnown,
         ActivateSession, StartTransfer, MarkTransferring, EndAiPath, ProviderStopped,
         FinishAiSession, Finalize, CloseAiPath, MarkCallEnded, LeaveCalls
<1>2. row'.ticket = row.ticket /\ row'.aiStatus = row.aiStatus
  BY DEF RecordInv, RecordTypeOK, CallRow, AnsweredRow, EndedRow, CallStep,
         Answered, MarkCallAnswered, BuildProvider, CreateAiSession, SessionIsKnown,
         ActivateSession, StartTransfer, MarkTransferring, EndAiPath, ProviderStopped,
         FinishAiSession, Finalize, CloseAiPath, MarkCallEnded, LeaveCalls
<1>3. teardown = "over" => teardown' = "over"
  BY DEF RecordInv, SessionAtEnd, CallStep,
         Answered, MarkCallAnswered, BuildProvider, CreateAiSession, SessionIsKnown,
         ActivateSession, StartTransfer, MarkTransferring, EndAiPath, ProviderStopped,
         FinishAiSession, Finalize, CloseAiPath, MarkCallEnded, LeaveCalls
<1>4. row.ticket \in Asks \cup {None}
  BY DEF RecordInv, RecordTypeOK, CallRow
<1>5. \A a \in Asks : Busy(a)' => Busy(a)
  BY <1>1 DEF Busy
<1> QED BY <1>1, <1>2, <1>3, <1>4, <1>5, StoryIsLeftAlone

LEMMA TicketStepsKeepTheStory ==
  ASSUME RecordInv, Story, NEW a \in Asks, TicketStep(a)
  PROVE  Story'
<1> USE DEF CallUnchanged, SessionUnchanged, AnalysisUnchanged
<1>1. UNCHANGED <<analysis, writer, teardown>> /\ history'.crossed = history.crossed
  BY DEF RecordInv, RecordTypeOK, History, TicketStep, AskForTicket, ReadCallTicket, ReadLinkedTicket,
         InsertTicket, LinkTicket, AskFails, RemoveTicket
<1>2. /\ row.ticket \in Asks \cup {None}
      /\ \A b \in Asks : ticket'[b].summary = ticket[b].summary
  BY TicketStepsFrame DEF RecordInv, RecordTypeOK, CallRow
<1>3. \A b \in Asks : Busy(b)' => Busy(b) \/ teardown = "no"
  BY DEF RecordInv, RecordTypeOK, SessionAtEnd, TicketStep, AskForTicket, ReadCallTicket,
         ReadLinkedTicket, InsertTicket, LinkTicket, AskFails, RemoveTicket, Busy
<1>4. CASE LinkTicket(a)
  <2>1. Busy(a) /\ teardown' = teardown
    BY <1>4 DEF LinkTicket, Busy
  <2>2. AfterTheCall'
    BY <1>1 DEF Story, AfterTheCall
  <2>3. ~history.crossed => analysis.status = "none" /\ \A w \in Writers : ~Writing(w)
    BY <2>1 DEF Story, OneStory
  <2>4. ~history'.crossed => Agreed' /\ \A w \in Writers : ~Writing(w)'
    BY <1>1, <2>3 DEF Story, AfterTheCall, Agreed, Writing
  <2>5. OneStory'
    BY <1>1, <2>3, <2>4 DEF OneStory
  <2> QED BY <2>2, <2>5 DEF Story
<1>5. CASE ~LinkTicket(a)
  <2>1. row' = row
    BY <1>5 DEF TicketStep, AskForTicket, ReadCallTicket, ReadLinkedTicket, InsertTicket, AskFails,
           RemoveTicket
  <2> QED BY <1>1, <1>2, <1>3, <2>1, StoryIsLeftAlone
<1> QED BY <1>4, <1>5

\* The only writer goes on, or leaves the three tables in agreement.
LEMMA StoryGoesOn ==
  ASSUME Story, NEW w \in Writers, Writing(w), ask' = ask,
         history'.crossed \/ history'.crossed = history.crossed,
         \A v \in Writers : v # w => writer'[v] = writer[v],
         ~history'.crossed => (Writing(w)' => HalfWay(w)') /\ (~Writing(w)' => Agreed')
  PROVE  OneStory'
<1> SUFFICES ASSUME ~history'.crossed PROVE OneStory'
  BY DEF OneStory
<1>1. ~history.crossed
  OBVIOUS
<1>2. \A v \in Writers : v # w => ~Writing(v) /\ ~Writing(v)'
  BY <1>1 DEF Story, OneStory, Writing
<1>3. \A a \in Asks : ~Busy(a) /\ ~Busy(a)'
  BY <1>1 DEF Story, OneStory, Busy
<1> QED BY <1>2, <1>3 DEF OneStory

\* A writer that starts alone.
LEMMA StoryBegins ==
  ASSUME RecordInv, Story, NEW w \in Writers, Crossing(w), ~Writing(w), ask' = ask,
         \A v \in Writers : v # w => writer'[v] = writer[v],
         Writing(w)', (~history.crossed /\ Agreed) => HalfWay(w)'
  PROVE  OneStory'
<1> SUFFICES ASSUME ~history'.crossed PROVE OneStory'
  BY DEF OneStory
<1>1. /\ ~history.crossed
      /\ \A v \in Writers : v # w => ~Writing(v)
      /\ \A a \in Asks : ~Busy(a)
  BY DEF Crossing, RecordInv, RecordTypeOK, History
<1>2. Agreed
  BY <1>1 DEF Story, OneStory
<1>3. \A v \in Writers : v # w => ~Writing(v)'
  BY <1>1 DEF Writing
<1>4. \A a \in Asks : ~Busy(a)'
  BY <1>1 DEF Busy
<1> QED BY <1>1, <1>2, <1>3, <1>4 DEF OneStory

LEMMA AnalyseCallKeepsTheStory ==
  ASSUME RecordInv, Story, AnalyseCall
  PROVE  Story'
<1> USE DEF CallAndTicketsUnchanged, CallUnchanged, TicketsUnchanged
<1>1. Post \in Writers /\ writer \in [Writers -> WriterState]
  BY DEF Writers, RecordInv, RecordTypeOK
<1>2. UNCHANGED <<row, teardown, ask, ticket, analysis>> /\ teardown = "over" /\ writer[Post].at = "no"
  BY DEF AnalyseCall
<1>3. writer'[Post].at \in {"model", "upsert"} /\ \A v \in Writers : v # Post => writer'[v] = writer[v]
  BY <1>1 DEF AnalyseCall, WriterGoes, WriterState
<1>4. AfterTheCall'
  BY <1>2, <1>3 DEF Story, AfterTheCall
<1>5. CASE writer'[Post].at = "model"
  <2>1. history' = history
    BY <1>1, <1>5 DEF AnalyseCall, WriterState
  <2>2. \A v \in Writers : (Writing(v)' <=> Writing(v)) /\ (Writing(v) => (HalfWay(v) => HalfWay(v)'))
    BY <1>2, <1>3, <1>5 DEF Writing, HalfWay, Correction
  <2>3. Agreed' <=> Agreed
    BY <1>2 DEF Agreed
  <2>4. OneStory'
    BY <1>2, <2>1, <2>2, <2>3 DEF Story, OneStory, Busy
  <2> QED BY <1>4, <2>4 DEF Story
<1>6. CASE writer'[Post].at = "upsert"
  <2>1. Crossing(Post)
    BY <1>1, <1>6 DEF AnalyseCall, WriterGoes, WriterState
  <2>2. ~Writing(Post) /\ Writing(Post)' /\ HalfWay(Post)'
    BY <1>2, <1>6 DEF Writing, HalfWay
  <2>3. OneStory'
    BY <1>1, <1>2, <1>3, <2>1, <2>2, StoryBegins
  <2> QED BY <1>4, <2>3 DEF Story
<1> QED BY <1>3, <1>5, <1>6

LEMMA WriterStepsKeepTheStory ==
  ASSUME RecordInv, Story, NEW w \in Writers, WriterStep(w)
  PROVE  Story'
<1> USE DEF CallAndTicketsUnchanged, CallUnchanged, SessionUnchanged, TicketsUnchanged
<1>0. /\ writer \in [Writers -> WriterState] /\ w # None
      /\ ticket \in [Asks -> TicketRow] /\ row \in CallRow
      /\ analysis \in [status : {"none", "completed", "failed"}, summary : Writers \cup {None}]
      /\ history \in History
  BY WritersAssumption DEF Writers, RecordInv, RecordTypeOK
<1>a. WriterEnds(w) => /\ writer'[w].at = "over"
                       /\ \A v \in Writers : v # w => writer'[v] = writer[v]
  BY <1>0 DEF WriterEnds
<1>b. \A step \in WriterSteps :
        WriterGoes(w, step) => /\ writer'[w].at = step
                               /\ writer'[w].sees = writer[w].sees /\ writer'[w].works = writer[w].works
                               /\ \A v \in Writers : v # w => writer'[v] = writer[v]
  BY <1>0 DEF WriterGoes, WriterState
<1>1. CASE RetryAnalysis(w)
  <2>1. writer'[w].at = "model" /\ \A v \in Writers : v # w => writer'[v] = writer[v]
    BY <1>1, <1>b DEF RetryAnalysis, WriterSteps
  <2>2. /\ UNCHANGED <<row, teardown, ask, ticket, analysis, history>>
        /\ analysis.status = "failed" /\ writer[w].at = "no"
    BY <1>1 DEF RetryAnalysis
  <2>3. \A v \in Writers : (Writing(v)' <=> Writing(v)) /\ (Writing(v) => (HalfWay(v) => HalfWay(v)'))
    BY <2>1, <2>2 DEF Writing, HalfWay, Correction
  <2>4. Agreed' <=> Agreed
    BY <2>2 DEF Agreed
  <2>5. OneStory'
    BY <2>2, <2>3, <2>4 DEF Story, OneStory, Busy
  <2>6. AfterTheCall'
    BY <2>1, <2>2 DEF Story, AfterTheCall
  <2> QED BY <2>5, <2>6 DEF Story
<1>2. CASE ModelAnswers(w)
  <2>1. writer'[w].at = "upsert" /\ \A v \in Writers : v # w => writer'[v] = writer[v]
    BY <1>2, <1>0 DEF ModelAnswers, WriterState
  <2>2. UNCHANGED <<row, teardown, ask, ticket, analysis>> /\ writer[w].at = "model" /\ Crossing(w)
    BY <1>2 DEF ModelAnswers
  <2>3. ~Writing(w) /\ Writing(w)' /\ HalfWay(w)'
    BY <2>1, <2>2 DEF Writing, HalfWay
  <2>4. OneStory'
    BY <2>1, <2>2, <2>3, StoryBegins
  <2>5. AfterTheCall'
    BY <2>1, <2>2 DEF Story, AfterTheCall
  <2> QED BY <2>4, <2>5 DEF Story
<1>3. CASE UpsertAnalysis(w)
  <2>1. /\ writer'[w].at = "status" /\ writer'[w].works = writer[w].works
        /\ \A v \in Writers : v # w => writer'[v] = writer[v]
    BY <1>3, <1>b DEF UpsertAnalysis, WriterSteps
  <2>2. UNCHANGED <<row, teardown, ask, ticket, history>> /\ writer[w].at = "upsert"
    BY <1>3 DEF UpsertAnalysis
  <2>3. /\ analysis'.status = IF writer[w].works THEN "completed" ELSE "failed"
        /\ analysis'.summary = IF writer[w].works THEN w ELSE None
    BY <1>3 DEF UpsertAnalysis
  <2>4. Writing(w) /\ Writing(w)' /\ HalfWay(w)'
    BY <2>1, <2>2, <2>3 DEF Writing, HalfWay
  <2>5. OneStory'
    BY <2>1, <2>2, <2>4, StoryGoesOn
  <2>6. AfterTheCall'
    BY <2>1, <2>2, <2>3 DEF Story, AfterTheCall
  <2> QED BY <2>5, <2>6 DEF Story
<1>4. CASE SetAiStatus(w)
  <2>1. /\ UNCHANGED <<teardown, ask, ticket, analysis, history>> /\ writer[w].at = "status"
        /\ row' = [row EXCEPT !.aiStatus = IF writer[w].works THEN "completed" ELSE "failed"]
    BY <1>4 DEF SetAiStatus
  <2>2. Writing(w)
    BY <2>1 DEF Writing
  <2>3. ~history.crossed => HalfWay(w)
    BY <2>2 DEF Story, OneStory
  <2>4. ~history.crossed => row'.aiStatus = analysis'.status
    BY <1>0, <2>1, <2>3 DEF HalfWay, CallRow
  <2>5. row'.ticket = row.ticket
    BY <1>0, <2>1 DEF CallRow
  <2>6. CASE row.ticket = None
    <3>1. writer'[w].at = "over" /\ \A v \in Writers : v # w => writer'[v] = writer[v]
      BY <1>4, <1>a, <2>6 DEF SetAiStatus
    <3>2. ~history.crossed => Agreed'
      BY <2>4, <2>5, <2>6 DEF Agreed
    <3>3. OneStory'
      BY <2>1, <2>2, <3>1, <3>2, StoryGoesOn DEF Writing
    <3>4. AfterTheCall'
      BY <2>1, <3>1 DEF Story, AfterTheCall
    <3> QED BY <3>3, <3>4 DEF Story
  <2>7. CASE row.ticket # None
    <3>1. /\ writer'[w].at = "mirror" /\ writer'[w].sees = row.ticket
          /\ writer'[w].works = writer[w].works
          /\ \A v \in Writers : v # w => writer'[v] = writer[v]
      <4>1. writer' = [writer EXCEPT ![w].at = "mirror", ![w].sees = row.ticket]
        BY <1>4, <2>7 DEF SetAiStatus
      <4> HIDE DEF CallAndTicketsUnchanged, CallUnchanged
      <4> QED BY ONLY <4>1, <1>0 DEF WriterState
    <3>2. ~history.crossed => HalfWay(w)'
      BY <2>1, <2>3, <2>4, <2>5, <2>7, <3>1 DEF HalfWay
    <3>3. OneStory'
      BY <2>1, <2>2, <3>1, <3>2, StoryGoesOn DEF Writing
    <3>4. AfterTheCall'
      BY <2>1, <3>1 DEF Story, AfterTheCall
    <3> QED BY <3>3, <3>4 DEF Story
  <2> QED BY <2>6, <2>7
<1>5. CASE MirrorToTicket(w)
  <2>1. /\ UNCHANGED <<row, teardown, ask, analysis, history>> /\ writer[w].at = "mirror"
        /\ ticket' = [ticket EXCEPT ![writer[w].sees] = Mirrored(ticket[writer[w].sees], w)]
    BY <1>5 DEF MirrorToTicket
  <2>2. writer'[w].at = "over" /\ \A v \in Writers : v # w => writer'[v] = writer[v]
    BY <1>5, <1>a DEF MirrorToTicket
  <2>3. Writing(w) /\ ~Writing(w)'
    BY <2>1, <2>2 DEF Writing
  <2>4. ~history.crossed => Agreed'
    <3> SUFFICES ASSUME ~history.crossed PROVE Agreed'
      OBVIOUS
    <3>1. HalfWay(w)
      BY <2>3 DEF Story, OneStory
    <3>2. /\ row.aiStatus = analysis.status /\ writer[w].sees = row.ticket /\ row.ticket # None
          /\ analysis.summary = IF writer[w].works THEN w ELSE None
      BY <2>1, <3>1 DEF HalfWay
    <3>3. row.ticket \in Asks
      BY <1>0, <3>2 DEF CallRow
    <3>4. writer[w].works => ticket'[row.ticket].summary = w
      <4> SUFFICES ASSUME writer[w].works PROVE ticket'[row.ticket].summary = w
        OBVIOUS
      <4>1. ticket' = [ticket EXCEPT ![row.ticket] = [ticket[row.ticket] EXCEPT !.summary = w]]
        BY <2>1, <3>2 DEF Mirrored
      <4> QED BY <4>1, <3>3, <1>0 DEF TicketRow
    <3> QED BY <2>1, <3>2, <3>4 DEF Agreed
  <2>5. OneStory'
    BY <2>1, <2>2, <2>3, <2>4, StoryGoesOn
  <2>6. AfterTheCall'
    BY <2>1, <2>2 DEF Story, AfterTheCall
  <2> QED BY <2>5, <2>6 DEF Story
<1>6. CASE WriteFails(w)
  <2>1. /\ UNCHANGED <<row, teardown, ask, ticket, analysis>>
        /\ writer[w].at \in {"upsert", "status", "mirror"}
    BY <1>6 DEF WriteFails
  <2>2. history'.crossed = (history.crossed \/ ~writer[w].works)
    BY <1>6, <1>0 DEF WriteFails
  <2>3. /\ writer'[w].at \in {"upsert", "over"}
        /\ \A v \in Writers : v # w => writer'[v] = writer[v]
        /\ writer[w].works => writer'[w].at = "upsert"
    BY <1>6, <1>0 DEF WriteFails, WriterEnds, WriterState
  <2>4. Writing(w)
    BY <2>1 DEF Writing
  <2>5. ~history'.crossed => Writing(w)' /\ HalfWay(w)'
    BY <2>2, <2>3 DEF Writing, HalfWay
  <2>6. history'.crossed \/ history'.crossed = history.crossed
    BY <2>2, <1>0 DEF History
  <2>7. OneStory'
    BY <2>1, <2>3, <2>4, <2>5, <2>6, StoryGoesOn
  <2>8. AfterTheCall'
    BY <2>1, <2>3 DEF Story, AfterTheCall
  <2> QED BY <2>7, <2>8 DEF Story
<1>7. CASE BeginCorrection(w)
  <2>1. /\ UNCHANGED <<row, teardown, ask, ticket, analysis>>
        /\ writer[w].at = "no" /\ analysis.status # "none" /\ Crossing(w)
    BY <1>7 DEF BeginCorrection
  <2>2. /\ writer'[w].at = "correct" /\ writer'[w].sees = row.ticket
        /\ \A v \in Writers : v # w => writer'[v] = writer[v]
    BY <1>7, <1>0 DEF BeginCorrection
  <2>3. ~Writing(w) /\ Writing(w)'
    BY <2>1, <2>2 DEF Writing
  <2>4. Agreed => HalfWay(w)'
    BY <2>1, <2>2 DEF Agreed, HalfWay
  <2>5. OneStory'
    BY <2>1, <2>2, <2>3, <2>4, StoryBegins
  <2>6. AfterTheCall'
    BY <2>1, <2>2 DEF Story, AfterTheCall
  <2> QED BY <2>5, <2>6 DEF Story
<1>8. CASE CorrectAnalysis(w)
  <2>1. UNCHANGED <<row, teardown, ask, ticket, history>> /\ writer[w].at = "correct"
    BY <1>8 DEF CorrectAnalysis
  <2>2. analysis'.status = analysis.status /\ analysis'.summary = Correction(w)
    BY <1>8, <1>0 DEF CorrectAnalysis
  <2>3. Writing(w)
    BY <2>1 DEF Writing
  <2>4. ~history.crossed => row.aiStatus = analysis.status /\ writer[w].sees = row.ticket
    BY <2>1, <2>3 DEF Story, OneStory, HalfWay
  <2>5. CASE writer[w].sees = None
    <3>1. writer'[w].at = "over" /\ \A v \in Writers : v # w => writer'[v] = writer[v]
      BY <1>8, <1>a, <2>5 DEF CorrectAnalysis
    <3>2. ~history.crossed => Agreed'
      BY <2>1, <2>2, <2>4, <2>5 DEF Agreed
    <3>3. OneStory'
      BY <2>1, <2>3, <3>1, <3>2, StoryGoesOn DEF Writing
    <3>4. AfterTheCall'
      BY <2>1, <2>2, <3>1 DEF Story, AfterTheCall
    <3> QED BY <3>3, <3>4 DEF Story
  <2>6. CASE writer[w].sees # None
    <3>1. /\ writer'[w].at = "copy" /\ writer'[w].sees = writer[w].sees
          /\ writer'[w].works = writer[w].works
          /\ \A v \in Writers : v # w => writer'[v] = writer[v]
      BY <1>8, <1>b, <2>6 DEF CorrectAnalysis, WriterSteps
    <3>2. ~history.crossed => HalfWay(w)'
      BY <2>1, <2>2, <2>4, <2>6, <3>1 DEF HalfWay, Correction
    <3>3. OneStory'
      BY <2>1, <2>3, <3>1, <3>2, StoryGoesOn DEF Writing
    <3>4. AfterTheCall'
      BY <2>1, <2>2, <3>1 DEF Story, AfterTheCall
    <3> QED BY <3>3, <3>4 DEF Story
  <2> QED BY <2>5, <2>6
<1>9. CASE CopyCorrection(w)
  <2>1. UNCHANGED <<row, teardown, ask, analysis>> /\ writer[w].at = "copy"
    BY <1>9 DEF CopyCorrection
  <2>2. writer'[w].at = "over" /\ \A v \in Writers : v # w => writer'[v] = writer[v]
    BY <1>9, <1>a DEF CopyCorrection
  <2>3. Writing(w) /\ ~Writing(w)'
    BY <2>1, <2>2 DEF Writing
  <2>4. history'.crossed \/ history' = history
    BY <1>9, <1>0 DEF CopyCorrection, History
  <2>5. ~history'.crossed => Agreed'
    <3> SUFFICES ASSUME ~history'.crossed PROVE Agreed'
      OBVIOUS
    <3>1. ~history.crossed /\ ticket' = [ticket EXCEPT ![writer[w].sees].summary = Correction(w)]
      BY <1>9, <2>4, <1>0 DEF CopyCorrection, History
    <3>2. HalfWay(w)
      BY <3>1, <2>3 DEF Story, OneStory
    <3>3. /\ row.aiStatus = analysis.status /\ writer[w].sees = row.ticket /\ row.ticket # None
          /\ analysis.summary = Correction(w)
      BY <2>1, <3>2 DEF HalfWay
    <3>4. row.ticket \in Asks
      BY <1>0, <3>3 DEF CallRow
    <3>5. ticket'[row.ticket].summary = analysis.summary
      BY <3>1, <3>3, <3>4, <1>0 DEF TicketRow
    <3> QED BY <2>1, <3>3, <3>5 DEF Agreed
  <2>6. OneStory'
    BY <2>1, <2>2, <2>3, <2>4, <2>5, StoryGoesOn
  <2>7. AfterTheCall'
    BY <2>1, <2>2 DEF Story, AfterTheCall
  <2> QED BY <2>6, <2>7 DEF Story
<1> QED
  BY <1>1, <1>2, <1>3, <1>4, <1>5, <1>6, <1>7, <1>8, <1>9 DEF WriterStep

(***************************************************************************)
(* The theorems                                                            *)
(***************************************************************************)
LEMMA RecordSteps ==
  ASSUME RecordInv, RecordNext
  PROVE  RecordInv' /\ (row.ended => row'.ended /\ row'.status = row.status) /\ Kept
<1>1. CASE CallStep
  BY <1>1, CallSteps DEF Kept
<1>2. ASSUME NEW a \in Asks, TicketStep(a)
      PROVE  RecordInv' /\ (row.ended => row'.ended /\ row'.status = row.status) /\ Kept
  BY <1>2, TicketStepsFrame, TicketStepsApart DEF RecordInv, Kept
<1>3. CASE AnalyseCall
  BY <1>3, AnalyseCallStep DEF Kept
<1>4. ASSUME NEW w \in Writers, WriterStep(w)
      PROVE  RecordInv' /\ (row.ended => row'.ended /\ row'.status = row.status) /\ Kept
  BY <1>4, AnalysisSteps
<1> QED
  BY <1>1, <1>2, <1>3, <1>4 DEF RecordNext, CallStep, TicketStep, WriterStep

LEMMA RecordStutters == RecordInv /\ UNCHANGED recordVars => RecordInv' /\ Kept
<1> SUFFICES ASSUME RecordInv, UNCHANGED recordVars PROVE RecordInv' /\ Kept
  OBVIOUS
<1>1. RecordTypeOK' /\ OnlyCorrectionsCopy'
  BY DEF recordVars, RecordInv, RecordTypeOK, OnlyCorrectionsCopy
<1>2. EndedIsEnded' /\ SetupInOrder' /\ SessionAtEnd'
  BY DEF recordVars, RecordInv, EndedIsEnded, SetupInOrder, SessionAtEnd
<1>3. TicketsApart'
  BY DEF recordVars, RecordInv, TicketsApart, Busy, LiveTickets
<1> QED BY <1>1, <1>2, <1>3 DEF RecordInv, Kept, recordVars

LEMMA RecordHolds == RecordSpec => []RecordInv
<1>1. RecordInv /\ [RecordNext]_recordVars => RecordInv'
  BY RecordSteps, RecordStutters
<1> QED BY RecordStarts, <1>1, PTL DEF RecordSpec

\* A call that has ended is neither reopened nor relabelled, whichever statement
\* of its setup or of another writer arrives after markCallEnded.
THEOREM TheEndedCallIsFinal == RecordSpec => EndedCallIsFinal
<1>1. RecordInv /\ [RecordNext]_recordVars =>
        [row.ended => row'.ended /\ row'.status = row.status]_recordVars
  BY RecordSteps DEF recordVars
<1> QED BY RecordHolds, <1>1, PTL DEF RecordSpec, EndedCallIsFinal

\* A ticket's summary is replaced or corrected to nothing by a supervisor; no
\* failed analysis takes it away.
THEOREM SummariesStay == RecordSpec => SummaryIsNeverTakenAway
<1>1. RecordInv /\ [RecordNext]_recordVars =>
        [\A a \in Asks : (ticket[a].summary # None /\ ticket'[a].summary = None) =>
           \E e \in Corrections : writer[e].at = "copy" /\ ~writer[e].works]_recordVars
  BY RecordSteps DEF recordVars, Kept
<1> QED BY RecordHolds, <1>1, PTL DEF RecordSpec, SummaryIsNeverTakenAway

\* Whoever ends the AI path first, and however little the teardown waits for it:
\* a call that has ended leaves its session open only while endAiPath is still to
\* close it, or because the session's id came too late for it, or because the
\* statement that closes it failed.
THEOREM SessionsClose == RecordSpec => []SessionClosesWithTheCall
<1>1. RecordInv => SessionClosesWithTheCall
  BY DEF RecordInv, SessionAtEnd, RecordTypeOK, PathSteps, SessionClosesWithTheCall
<1> QED BY RecordHolds, <1>1, PTL

\* create_ticket gives a call one ticket, however often the agent calls it, as
\* long as no two calls of it overlap and none breaks off before the link.
THEOREM OneTicket == RecordSpec => []OneTicketUnlessTogether
<1>1. RecordInv => OneTicketUnlessTogether
  <2> SUFFICES ASSUME RecordInv, ~history.together PROVE OneTicketPerCall
    BY DEF OneTicketUnlessTogether
  <2>1. \A a, b \in LiveTickets : a = b
    BY DEF RecordInv, TicketsApart, LiveTickets, Busy
  <2>2. CASE LiveTickets = {}
    BY <2>2, FS_EmptySet DEF OneTicketPerCall
  <2>3. CASE LiveTickets # {}
    <3>1. PICK a : LiveTickets = {a}
      BY <2>1, <2>3
    <3>2. Cardinality(LiveTickets) = 1
      BY <3>1, FS_Singleton
    <3> QED BY <3>2 DEF OneTicketPerCall
  <2> QED BY <2>2, <2>3
<1> QED BY RecordHolds, <1>1, PTL
LEMMA StoryHolds == RecordSpec => []Story
<1>1. RecordInv /\ Story /\ [RecordNext]_recordVars => Story'
  <2> SUFFICES ASSUME RecordInv, Story, [RecordNext]_recordVars PROVE Story'
    OBVIOUS
  <2>1. CASE CallStep
    BY <2>1, CallStepsKeepTheStory
  <2>2. ASSUME NEW a \in Asks, TicketStep(a) PROVE Story'
    BY <2>2, TicketStepsKeepTheStory
  <2>3. CASE AnalyseCall
    BY <2>3, AnalyseCallKeepsTheStory
  <2>4. ASSUME NEW w \in Writers, WriterStep(w) PROVE Story'
    BY <2>4, WriterStepsKeepTheStory
  <2>5. CASE UNCHANGED recordVars
    <3>1. row.ticket \in Asks \cup {None}
      BY DEF RecordInv, RecordTypeOK, CallRow
    <3>2. \A a \in Asks : Busy(a)' => Busy(a)
      BY <2>5 DEF recordVars, Busy
    <3> QED BY <2>5, <3>1, <3>2, StoryIsLeftAlone DEF recordVars
  <2> QED
    BY <2>1, <2>2, <2>3, <2>4, <2>5 DEF RecordNext, CallStep, TicketStep, WriterStep
<1> QED BY StoryStarts, RecordHolds, <1>1, PTL DEF RecordSpec

\* Once the writers are done, the call, its ticket and its analysis agree,
\* unless two of them crossed or one broke off: writeAiAnalysis and the
\* supervisor's correction each leave the three tables as they would have
\* been written at once.
THEOREM PagesTellOneStory == RecordSpec => []PagesAgree
<1>1. Story => PagesAgree
  BY DEF Story, OneStory, Agreed, PagesAgree, Settled
<1> QED BY StoryHolds, <1>1, PTL
=============================================================================
