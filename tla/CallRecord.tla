----------------------------- MODULE CallRecord -----------------------------
(***************************************************************************)
(* The rows of one call: what crm-writer.ts writes to calls, ai_sessions,  *)
(* tickets and ai_analyses, one statement at a time, by everybody who      *)
(* writes them while the others are still writing: the call's setup, its   *)
(* teardown, the tools the agent calls, the post-call analysis, and the    *)
(* supervisors who retry or correct an analysis (ai-analyses.handlers.ts)  *)
(* or remove a ticket (tickets.handlers.ts).                               *)
(*                                                                         *)
(* "Each function is idempotent wherever the data model allows it": the    *)
(* properties say how far that carries once two of them overlap.           *)
(***************************************************************************)
EXTENDS Naturals, FiniteSets

CONSTANTS
  Asks,     \* create_ticket calls of the agent; each inserts its own ticket
  Retries,  \* POST /ai-analyses/{id}/retry
  Corrections,  \* PATCH /ai-analyses/{id}
  Post,     \* the post-call analysis
  None      \* no ticket, no summary

ASSUME WritersAssumption ==
  /\ None \notin Asks \cup Retries \cup Corrections \cup {Post}
  /\ Post \notin Retries \cup Corrections
  /\ Retries \cap Corrections = {}

VARIABLES
  row,       \* calls: [status, ended, ticket, aiStatus]
  session,   \* ai_sessions: [status, ended]
  answered,  \* call.answered
  known,     \* call.aiSessionId is set
  setup,     \* beginCall and launchProvider: the statement they are at
  transfer,  \* startTransfer: the statement it is at
  aiPath,    \* endAiPath, whoever called it first: the await it is at
  teardown,  \* finalizeCall: the statement it is at
  ask,       \* createTicketFromCall of each ask: the statement it is at
  ticket,    \* tickets: [state, summary]
  analysis,  \* ai_analyses: [status, summary]
  writer,    \* writeAiAnalysis and updateHandler: [at, sees, works]; one that
             \* does not work writes no summary
  history    \* [together, crossed, late, failed]: see the properties

recordVars == <<row, session, answered, known, setup, transfer, aiPath, teardown, ask,
                ticket, analysis, writer, history>>

Writers == Retries \cup Corrections \cup {Post}

RecordInit ==
  /\ row = [status |-> "ringing", ended |-> FALSE, ticket |-> None, aiStatus |-> "pending"]
  /\ session = [status |-> "none", ended |-> FALSE]
  /\ answered = FALSE /\ known = FALSE
  /\ setup = "answer"
  /\ transfer \in {"no", "over"}  \* the agent may ask for a human, or never does
  /\ aiPath = "open"
  /\ teardown = "no"
  /\ ask \in [Asks -> {"no", "over"}]  \* and may ask for tickets
  /\ ticket = [a \in Asks |-> [state |-> "none", summary |-> None]]
  /\ analysis = [status |-> "none", summary |-> None]
  /\ writer = [w \in Writers |-> [at |-> "no", sees |-> None, works |-> TRUE]]
  /\ history = [together |-> FALSE, crossed |-> FALSE, late |-> FALSE, failed |-> FALSE]

(***************************************************************************)
(* calls and ai_sessions                                                   *)
(***************************************************************************)
SessionUnchanged == UNCHANGED <<session, answered, known>>
TicketsUnchanged == UNCHANGED <<ask, ticket>>
AnalysisUnchanged == UNCHANGED <<analysis, writer>>

\* ari.answer: the call is answered in memory, the statement is on its way; or
\* it is refused and abortCall takes the call down.
Answered ==
  /\ setup = "answer"
  /\ setup' \in {"mark", "over"}
  /\ answered' = (setup' = "mark")
  /\ UNCHANGED <<row, session, known, transfer, aiPath, teardown, history>>
  /\ TicketsUnchanged /\ AnalysisUnchanged

\* Mutant of AnsweredRow: the statement has lost its status = 'ringing'.
AnsweredWhatever(r) == [r EXCEPT !.status = "answered"]

AnsweredRow(r) == IF r.status = "ringing" THEN [r EXCEPT !.status = "answered"] ELSE r

\* markCallAnswered, run quietly: the statement may fail.
MarkCallAnswered ==
  /\ setup = "mark"
  /\ row' \in {row, AnsweredRow(row)}
  /\ setup' = "launch"
  /\ UNCHANGED <<transfer, aiPath, teardown, history>>
  /\ SessionUnchanged /\ TicketsUnchanged /\ AnalysisUnchanged

\* call.provider is set, after the settings and the profile were read; or that
\* fails into abortCall.
BuildProvider ==
  /\ setup = "launch"
  /\ setup' \in {"create", "over"}
  /\ UNCHANGED <<row, transfer, aiPath, teardown, history>>
  /\ SessionUnchanged /\ TicketsUnchanged /\ AnalysisUnchanged

\* createAiSession commits, or fails into abortCall ...
CreateAiSession ==
  /\ setup = "create"
  /\ \/ /\ session' = [status |-> "initializing", ended |-> FALSE]
        /\ setup' = "assign"
     \/ setup' = "over" /\ UNCHANGED session
  /\ UNCHANGED <<row, answered, known, transfer, aiPath, teardown, history>>
  /\ TicketsUnchanged /\ AnalysisUnchanged

\* ... and its answer arrives: call.aiSessionId = session.id; or is lost with
\* the connection, which fails into abortCall too.
SessionIsKnown ==
  /\ setup = "assign"
  /\ setup' \in {"activate", "over"}
  /\ known' = (setup' = "activate")
  /\ UNCHANGED <<row, session, answered, transfer, aiPath, teardown, history>>
  /\ TicketsUnchanged /\ AnalysisUnchanged

\* updateAiSession: no guard on ended_at.  It is run quietly.
SetSessionStatus(s) ==
  \/ session' = [session EXCEPT !.status = s]
  \/ UNCHANGED session

\* The provider runs and the call is handed over, or setup fails into
\* abortCall before the statement is sent.
ActivateSession ==
  /\ setup = "activate"
  /\ setup' = "over"
  /\ SetSessionStatus("active")
  /\ UNCHANGED <<row, answered, known, transfer, aiPath, teardown, history>>
  /\ TicketsUnchanged /\ AnalysisUnchanged

\* A transfer begins: the agent's tool, the caller's digit, or POST /transfer,
\* which only asks that the call be in `calls`.  The statement is on its way.
StartTransfer ==
  /\ transfer = "no"
  /\ known /\ teardown # "over"
  /\ transfer' = "mark"
  /\ UNCHANGED <<row, setup, aiPath, teardown, history>>
  /\ SessionUnchanged /\ TicketsUnchanged /\ AnalysisUnchanged

MarkTransferring ==
  /\ transfer = "mark"
  /\ SetSessionStatus("transferring")
  /\ transfer' = "over"
  /\ UNCHANGED <<row, answered, known, setup, aiPath, teardown, history>>
  /\ TicketsUnchanged /\ AnalysisUnchanged

\* endAiPath, past its early return: the path is closed, and the provider that
\* there is is told to stop.  Without one there is no session id either.
HasProvider == setup \notin {"answer", "mark", "launch"}

CloseAiPath ==
  /\ aiPath' = IF HasProvider THEN "stop" ELSE "over"
  /\ history' = [history EXCEPT !.late = ~HasProvider]

\* It is called by a hang-up (hangupCall), by a transfer that connected or lost
\* the caller, and when the AudioSocket or the provider closes.
EndAiPath ==
  /\ aiPath = "open"
  /\ CloseAiPath
  /\ UNCHANGED <<row, setup, transfer, teardown>>
  /\ SessionUnchanged /\ TicketsUnchanged /\ AnalysisUnchanged

\* Mutant of SessionToFinish: only a session in use is ended.
EndOnlyActive == known /\ session.status = "active"

SessionToFinish == known

\* provider.stop has been awaited; only now is call.aiSessionId read.
ProviderStopped ==
  /\ aiPath = "stop"
  /\ aiPath' = IF SessionToFinish THEN "finish" ELSE "over"
  /\ history' = [history EXCEPT !.late = ~known]
  /\ UNCHANGED <<row, setup, transfer, teardown>>
  /\ SessionUnchanged /\ TicketsUnchanged /\ AnalysisUnchanged

\* finishAiSession, guarded by ended_at IS NULL and run quietly; completed and
\* failed are both "closed".
FinishAiSession ==
  /\ aiPath = "finish"
  /\ \/ /\ session' = IF session.ended THEN session
                      ELSE [status |-> "closed", ended |-> TRUE]
        /\ UNCHANGED history
     \/ /\ history' = [history EXCEPT !.failed = TRUE]
        /\ UNCHANGED session
  /\ aiPath' = "over"
  /\ UNCHANGED <<row, answered, known, setup, transfer, teardown>>
  /\ TicketsUnchanged /\ AnalysisUnchanged

\* finalizeCall begins, whatever setup, the tools and others who hang up are
\* doing.  It waits for the AI path if it is the first to end it.
Finalize ==
  /\ teardown = "no"
  /\ IF aiPath = "open" THEN CloseAiPath /\ teardown' = "ai_path"
     ELSE teardown' = "end_call" /\ UNCHANGED <<aiPath, history>>
  /\ UNCHANGED <<row, setup, transfer>>
  /\ SessionUnchanged /\ TicketsUnchanged /\ AnalysisUnchanged

EndedRow == [row EXCEPT !.ended = TRUE, !.status = IF answered THEN "completed" ELSE "abandoned"]

\* markCallEnded, guarded by ended_at IS NULL and run quietly.
\* resolveEndStatus: a call that was never answered was abandoned.
MarkCallEnded ==
  /\ teardown = "end_call" \/ (teardown = "ai_path" /\ aiPath = "over")
  /\ row' \in {row, IF row.ended THEN row ELSE EndedRow}
  /\ teardown' = "leave"
  /\ UNCHANGED <<setup, transfer, aiPath, history>>
  /\ SessionUnchanged /\ TicketsUnchanged /\ AnalysisUnchanged

\* The recording and the dialer's report are done; the call leaves `calls`.
LeaveCalls ==
  /\ teardown = "leave"
  /\ teardown' = "over"
  /\ UNCHANGED <<row, setup, transfer, aiPath, history>>
  /\ SessionUnchanged /\ TicketsUnchanged /\ AnalysisUnchanged

(***************************************************************************)
(* tickets                                                                 *)
(***************************************************************************)
CallUnchanged == UNCHANGED <<row, setup, transfer, aiPath, teardown>> /\ SessionUnchanged

Busy(a) == ask[a] \notin {"no", "over"}

\* The tool is dispatched while the agent is on the call.
AskForTicket(a) ==
  /\ ask[a] = "no"
  /\ setup = "over" /\ known /\ aiPath = "open"
  /\ ask' = [ask EXCEPT ![a] = "look"]
  /\ history' = [history EXCEPT !.together = @ \/ \E b \in Asks : Busy(b)]
  /\ CallUnchanged /\ AnalysisUnchanged /\ UNCHANGED ticket

\* Mutant of HasTicket: the ticket of the call is not looked for.
NeverHasTicket == FALSE

HasTicket == row.ticket # None

\* createTicketFromCall reads the call row ...
ReadCallTicket(a) ==
  /\ ask[a] = "look"
  /\ ask' = [ask EXCEPT ![a] = IF HasTicket THEN "linked" ELSE "insert"]
  /\ CallUnchanged /\ AnalysisUnchanged /\ UNCHANGED <<ticket, history>>

\* ... and the ticket it names, unless that one was removed.
ReadLinkedTicket(a) ==
  /\ ask[a] = "linked"
  /\ ask' = [ask EXCEPT ![a] = IF ticket[row.ticket].state = "live" THEN "over" ELSE "insert"]
  /\ CallUnchanged /\ AnalysisUnchanged /\ UNCHANGED <<ticket, history>>

InsertTicket(a) ==
  /\ ask[a] = "insert"
  /\ ticket' = [ticket EXCEPT ![a].state = "live"]
  /\ ask' = [ask EXCEPT ![a] = "link"]
  /\ CallUnchanged /\ AnalysisUnchanged /\ UNCHANGED history

LinkTicket(a) ==
  /\ ask[a] = "link"
  /\ row' = [row EXCEPT !.ticket = a]
  /\ ask' = [ask EXCEPT ![a] = "over"]
  /\ UNCHANGED <<setup, transfer, aiPath, teardown, ticket, history>>
  /\ SessionUnchanged /\ AnalysisUnchanged

\* Any statement of the tool may fail: the agent is told, and asks again.
AskFails(a) ==
  /\ Busy(a)
  /\ ask' = [ask EXCEPT ![a] = "over"]
  /\ history' = [history EXCEPT !.together = @ \/ ask[a] = "link"]
  /\ CallUnchanged /\ AnalysisUnchanged /\ UNCHANGED ticket

RemoveTicket(a) ==
  /\ ticket[a].state = "live"
  /\ ticket' = [ticket EXCEPT ![a].state = "removed"]
  /\ CallUnchanged /\ AnalysisUnchanged /\ UNCHANGED <<ask, history>>

(***************************************************************************)
(* ai_analyses                                                             *)
(***************************************************************************)
WriterGoes(w, step) == writer' = [writer EXCEPT ![w].at = step]
WriterEnds(w) == writer' = [writer EXCEPT ![w] = [at |-> "over", sees |-> None, works |-> TRUE]]

Writing(w) == writer[w].at \notin {"no", "model", "over"}

\* A writer that starts to write beside another, or beside a tool that has yet
\* to link its ticket, may leave the two tables apart.
Crossing(w) ==
  history' = [history EXCEPT
    !.crossed = @ \/ (\E v \in Writers \ {w} : Writing(v)) \/ (\E a \in Asks : Busy(a))]

CallAndTicketsUnchanged == CallUnchanged /\ TicketsUnchanged

\* runPostCallAnalysis: nothing was said, or the summariser is asked.
AnalyseCall ==
  /\ teardown = "over" /\ writer[Post].at = "no"
  /\ \/ WriterGoes(Post, "model") /\ UNCHANGED history
     \/ /\ writer' = [writer EXCEPT ![Post].at = "upsert", ![Post].works = FALSE]
        /\ Crossing(Post)
  /\ CallAndTicketsUnchanged /\ UNCHANGED analysis

\* retryHandler: only of a failed analysis, as it was when the request came.
RetryAnalysis(w) ==
  /\ w \in Retries /\ writer[w].at = "no"
  /\ analysis.status = "failed"
  /\ WriterGoes(w, "model")
  /\ CallAndTicketsUnchanged /\ UNCHANGED <<analysis, history>>

\* The summariser answers, or fails and the failure is what is written.
ModelAnswers(w) ==
  /\ writer[w].at = "model"
  /\ \E works \in BOOLEAN :
       writer' = [writer EXCEPT ![w].at = "upsert", ![w].works = works]
  /\ Crossing(w)
  /\ CallAndTicketsUnchanged /\ UNCHANGED analysis

\* writeAiAnalysis, its three statements: the upsert ...
UpsertAnalysis(w) ==
  /\ writer[w].at = "upsert"
  /\ analysis' = IF writer[w].works THEN [status |-> "completed", summary |-> w]
                 ELSE [status |-> "failed", summary |-> None]
  /\ WriterGoes(w, "status")
  /\ CallAndTicketsUnchanged /\ UNCHANGED history

\* ... calls.ai_status, which returns the ticket ...
SetAiStatus(w) ==
  /\ writer[w].at = "status"
  /\ row' = [row EXCEPT !.aiStatus = IF writer[w].works THEN "completed" ELSE "failed"]
  /\ IF row.ticket = None THEN WriterEnds(w)
     ELSE writer' = [writer EXCEPT ![w].at = "mirror", ![w].sees = row.ticket]
  /\ UNCHANGED <<setup, transfer, aiPath, teardown, analysis, history>>
  /\ SessionUnchanged /\ TicketsUnchanged

\* Mutant of Mirrored: the mirror writes what it has and what it has not.
MirroredWhole(t, w) == [t EXCEPT !.summary = IF writer[w].works THEN w ELSE None]

\* Mutant of Mirrored: a ticket that has a summary keeps it.
MirroredOnce(t, w) == IF writer[w].works /\ t.summary = None THEN [t EXCEPT !.summary = w] ELSE t

Mirrored(t, w) == IF writer[w].works THEN [t EXCEPT !.summary = w] ELSE t

\* ... and the ticket: only the fields there are.
MirrorToTicket(w) ==
  /\ writer[w].at = "mirror"
  /\ ticket' = [ticket EXCEPT ![writer[w].sees] = Mirrored(ticket[writer[w].sees], w)]
  /\ WriterEnds(w)
  /\ CallUnchanged /\ UNCHANGED <<ask, analysis, history>>

\* A statement fails.  The catch around the summary writes a failed analysis
\* over whatever the statements before it stored; a failing failure is dropped.
WriteFails(w) ==
  /\ writer[w].at \in {"upsert", "status", "mirror"}
  /\ IF writer[w].works
     THEN writer' = [writer EXCEPT ![w].at = "upsert", ![w].works = FALSE]
     ELSE WriterEnds(w)
  /\ history' = [history EXCEPT !.crossed = @ \/ ~writer[w].works]
  /\ CallAndTicketsUnchanged /\ UNCHANGED analysis

\* updateHandler reads the row and its call's ticket; the summary sent may be
\* null ...
BeginCorrection(e) ==
  /\ e \in Corrections /\ writer[e].at = "no"
  /\ analysis.status # "none"
  /\ \E works \in BOOLEAN :
       writer' = [writer EXCEPT ![e] = [at |-> "correct", sees |-> row.ticket, works |-> works]]
  /\ Crossing(e)
  /\ CallAndTicketsUnchanged /\ UNCHANGED analysis

Correction(e) == IF writer[e].works THEN e ELSE None

\* ... corrects the analysis ...
CorrectAnalysis(e) ==
  /\ writer[e].at = "correct"
  /\ analysis' = [analysis EXCEPT !.summary = Correction(e)]
  /\ IF writer[e].sees = None THEN WriterEnds(e) ELSE WriterGoes(e, "copy")
  /\ CallAndTicketsUnchanged /\ UNCHANGED history

\* ... and copies the correction to the ticket, if that statement gets there.
CopyCorrection(e) ==
  /\ writer[e].at = "copy"
  /\ \/ /\ ticket' = [ticket EXCEPT ![writer[e].sees].summary = Correction(e)]
        /\ UNCHANGED history
     \/ /\ history' = [history EXCEPT !.crossed = TRUE]
        /\ UNCHANGED ticket
  /\ WriterEnds(e)
  /\ CallUnchanged /\ UNCHANGED <<ask, analysis>>

RecordNext ==
  \/ Answered \/ MarkCallAnswered \/ BuildProvider
  \/ CreateAiSession \/ SessionIsKnown \/ ActivateSession
  \/ StartTransfer \/ MarkTransferring
  \/ EndAiPath \/ ProviderStopped \/ FinishAiSession
  \/ Finalize \/ MarkCallEnded \/ LeaveCalls
  \/ \E a \in Asks : \/ AskForTicket(a) \/ ReadCallTicket(a) \/ ReadLinkedTicket(a)
                     \/ InsertTicket(a) \/ LinkTicket(a) \/ AskFails(a) \/ RemoveTicket(a)
  \/ AnalyseCall
  \/ \E w \in Writers :
       \/ RetryAnalysis(w) \/ ModelAnswers(w) \/ UpsertAnalysis(w) \/ SetAiStatus(w)
       \/ MirrorToTicket(w) \/ WriteFails(w)
       \/ BeginCorrection(w) \/ CorrectAnalysis(w) \/ CopyCorrection(w)

RecordSpec == RecordInit /\ [][RecordNext]_recordVars

(***************************************************************************)
(* Properties                                                              *)
(***************************************************************************)

\* "The first writer wins": no statement that was on its way as the call was
\* finalised, the answer's least of all, reopens or relabels it.
EndedCallIsFinal == [][row.ended => row'.ended /\ row'.status = row.status]_recordVars

\* An ended call leaves no session open that nobody will close: a hang-up, a
\* transfer, the AudioSocket, the provider and the teardown may all end the AI
\* path at once, and the one that does closes the session however little the
\* others wait for it (endAiPath, finalizeCall).  Two things leave it open: its
\* id came after the provider had stopped, or finishAiSession failed.
SessionClosesWithTheCall ==
  (row.ended /\ session.status # "none" /\ ~session.ended) =>
    aiPath \in {"stop", "finish"} \/ history.late \/ history.failed

\* "Teardown (any of StasisEnd / ChannelDestroyed / AudioSocket close / our own
\* hangup - all four race, all are idempotent): ... finishAiSession()
\* ai_sessions.status/endedAt" (docs/ARCHITECTURE.md): once everybody is done and
\* the last statements went through, the session the call knows of is closed.  It
\* does not hold, so that no run checks it: the README says what happens.
TeardownClosesTheSession ==
  (teardown = "over" /\ aiPath = "over" /\ setup = "over" /\ transfer # "mark"
     /\ row.ended /\ known /\ ~history.failed) =>
    session = [status |-> "closed", ended |-> TRUE]

LiveTickets == {a \in Asks : ticket[a].state = "live"}

\* "If the AI calls create_ticket twice (it does), the call already has a ticket
\* and that one is returned instead of a duplicate" (crm-writer.ts).
OneTicketPerCall == Cardinality(LiveTickets) <= 1

\* However often the agent asks, one call has one ticket, unless two asks were
\* under way together or one broke off between its ticket and the link.
OneTicketUnlessTogether == OneTicketPerCall \/ history.together

Settled == (\A a \in Asks : ~Busy(a)) /\ (\A w \in Writers : ~Writing(w))

\* Once nobody is writing, the call list, the ticket page and the analysis page
\* tell the same story, unless two writers crossed or one broke off half way.
PagesAgree ==
  (Settled /\ ~history.crossed) =>
    /\ analysis.status # "none" => row.aiStatus = analysis.status
    /\ (row.ticket # None /\ analysis.summary # None) =>
         ticket[row.ticket].summary = analysis.summary

\* "A failed analysis cannot blank a summary a previous successful run
\* produced": what a ticket page shows is replaced, and taken away only by the
\* supervisor who corrects it to nothing.
SummaryIsNeverTakenAway ==
  [][\A a \in Asks : (ticket[a].summary # None /\ ticket'[a].summary = None) =>
       \E e \in Corrections : writer[e].at = "copy" /\ ~writer[e].works]_recordVars
=============================================================================
