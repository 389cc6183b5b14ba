----------------------------- MODULE LiveBoard -----------------------------
(***************************************************************************)
(* The live board of a supervisor's browser                                *)
(* (apps/frontend, modules/calls/live): a store that two sources write,    *)
(* the events of a WebSocket and the answers of a poll, against the calls  *)
(* the orchestrator holds.  Events are in order but are lost with the      *)
(* connection; an answer tells what was live as the request was served.    *)
(* One tick of the clock is five seconds.                                  *)
(***************************************************************************)
EXTENDS Naturals, Sequences, FiniteSets

CONSTANTS
  Calls,
  Grace,      \* FRESH_ROW_GRACE_MS, in ticks
  Retention,  \* ENDED_RETENTION_MS, in ticks
  MaxDrops,   \* bound: connections lost
  MaxUpdates  \* bound: events of a call between its first and its last

ASSUME BoardAssumption == Grace \in Nat \ {0} /\ Retention \in Nat \ {0}

VARIABLES
  server,     \* the orchestrator's `calls`: coming, live, closing (over, but a
              \* tool or a transfer is still at work), resumed (the same, and its
              \* call.status has been set again) or over
  updates,    \* broadcasts of live_call_updated so far
  wire,       \* of each call, the events on their way: [type, status]
  connected,  \* the browser's socket
  drops,
  answer,     \* the poll: how long ago it was served, and the calls it found
  data,       \* query.data, the last answer: none, an empty list or calls
  board       \* the store's rows: [on, status, ended, age, endedAge]; status is
              \* the orchestrator's, "ended" or else "open", ended is endedAtMs

boardVars == <<server, updates, wire, connected, drops, answer, data, board>>

NoAnswer == [pending |-> FALSE, age |-> 0, lists |-> {}]
NoRow == [on |-> FALSE, status |-> "open", ended |-> FALSE, age |-> 0, endedAge |-> 0]

BoardInit ==
  /\ server = [c \in Calls |-> "coming"]
  /\ updates = [c \in Calls |-> 0]
  /\ wire = [c \in Calls |-> <<>>]
  /\ connected = TRUE /\ drops = 0
  /\ answer = NoAnswer /\ data = "none"
  /\ board = [c \in Calls |-> NoRow]

(***************************************************************************)
(* The orchestrator                                                        *)
(***************************************************************************)
\* broadcastCallEvent: whoever is not connected does not hear of it.  Every event
\* but the last carries the call with the status it has.
Broadcast(c, type, status) ==
  wire' = IF connected
          THEN [wire EXCEPT ![c] = Append(@, [type |-> type, status |-> status])] ELSE wire

CallStatus(c) == IF server[c] = "closing" THEN "ended" ELSE "open"

CallBegins(c) ==
  /\ server[c] = "coming"
  /\ server' = [server EXCEPT ![c] = "live"]
  /\ Broadcast(c, "snapshot", "open")
  /\ UNCHANGED <<updates, connected, drops, answer, data, board>>

\* A tool that is still at work when the call ends broadcasts after it.
CallUpdates(c) ==
  /\ server[c] \in {"live", "closing", "resumed"} /\ updates[c] < MaxUpdates
  /\ updates' = [updates EXCEPT ![c] = @ + 1]
  /\ Broadcast(c, "snapshot", CallStatus(c))
  /\ UNCHANGED <<server, connected, drops, answer, data, board>>

CallEnds(c) ==
  /\ server[c] = "live"
  /\ server' = [server EXCEPT ![c] = "closing"]
  /\ Broadcast(c, "ended", "ended")
  /\ UNCHANGED <<updates, connected, drops, answer, data, board>>

\* So does a transfer that begins, connects or fails after its call has ended: it
\* has set call.status to "transferring", "transferred" or "live" before it does.
TransferReturns(c) ==
  /\ server[c] = "closing"
  /\ server' = [server EXCEPT ![c] = "resumed"]
  /\ Broadcast(c, "snapshot", "open")
  /\ UNCHANGED <<updates, connected, drops, answer, data, board>>

ToolsFinish(c) ==
  /\ server[c] \in {"closing", "resumed"}
  /\ server' = [server EXCEPT ![c] = "over"]
  /\ UNCHANGED <<updates, wire, connected, drops, answer, data, board>>

ConnectionLost ==
  /\ connected /\ drops < MaxDrops
  /\ connected' = FALSE /\ drops' = drops + 1
  /\ wire' = [c \in Calls |-> <<>>]
  /\ UNCHANGED <<server, updates, answer, data, board>>

\* useWebSocket reconnects; nothing is sent again.
Reconnected ==
  /\ ~connected
  /\ connected' = TRUE
  /\ UNCHANGED <<server, updates, wire, drops, answer, data, board>>

(***************************************************************************)
(* The store                                                               *)
(***************************************************************************)
\* Mutant of RowFrom: a snapshot makes the row anew.
RowAnew(row, status) == [NoRow EXCEPT !.on = TRUE, !.status = status]

\* rowFromSnapshot, rowFromItem: the call is spread over the row, its status over
\* the row's; what only the store knows is carried over.
RowFrom(row, status) == [(IF row.on THEN row ELSE NoRow) EXCEPT !.on = TRUE, !.status = status]

EndedNow(row) == [row EXCEPT !.status = "ended", !.ended = TRUE, !.endedAge = 0]

\* applySnapshot, applyTransfer and applyEnded; an end without a row is dropped.
ReceiveEvent(c) ==
  /\ wire[c] # <<>>
  /\ wire' = [wire EXCEPT ![c] = Tail(@)]
  /\ board' = [board EXCEPT ![c] =
       CASE Head(wire[c]).type = "snapshot" -> RowFrom(@, Head(wire[c]).status)
         [] Head(wire[c]).type = "ended" /\ @.on -> EndedNow(@)
         [] OTHER -> @]
  /\ UNCHANGED <<server, updates, connected, drops, answer, data>>

ShouldKeepRow(row) ==
  IF row.ended THEN row.endedAge < Retention ELSE row.age < Grace

\* GET /live-calls: the list is taken, none of it "ended", for finalizeCall takes
\* the call off `calls` as it sets that; the rest of the answer is still read.  No
\* answer overtakes the events broadcast before its list was taken.
ServePoll ==
  /\ ~answer.pending
  /\ \A c \in Calls : wire[c] = <<>>
  /\ answer' = [pending |-> TRUE, age |-> 0, lists |-> {c \in Calls : server[c] = "live"}]
  /\ UNCHANGED <<server, updates, wire, connected, drops, data, board>>

\* Mutant of HydratedRow: a call the board has not heard of is not put on it.
HydratedRowOfKnown(c) ==
  IF board[c].on /\ (c \in answer.lists \/ ShouldKeepRow(board[c])) THEN board[c] ELSE NoRow

HydratedRow(c) ==
  IF c \in answer.lists THEN RowFrom(board[c], "open")
  ELSE IF board[c].on /\ ShouldKeepRow(board[c]) THEN board[c] ELSE NoRow

\* hydrate: what is listed is there, what is not goes but for the fresh and the
\* recently ended.  It is an effect on query.data, and an answer equal to the one
\* before leaves query.data the same object: two lists with calls differ in
\* durationSeconds, two empty ones do not.
Hydrate ==
  /\ answer.pending
  /\ board' = IF data = "empty" /\ answer.lists = {} THEN board
              ELSE [c \in Calls |-> HydratedRow(c)]
  /\ data' = IF answer.lists = {} THEN "empty" ELSE "calls"
  /\ answer' = NoAnswer
  /\ UNCHANGED <<server, updates, wire, connected, drops>>

PollFails ==
  /\ answer.pending
  /\ answer' = NoAnswer
  /\ UNCHANGED <<server, updates, wire, connected, drops, data, board>>

Expired(row) == row.on /\ row.ended /\ row.endedAge >= Retention

\* prune, every fifteen seconds.
Prune ==
  /\ \E c \in Calls : Expired(board[c])
  /\ board' = [c \in Calls |-> IF Expired(board[c]) THEN NoRow ELSE board[c]]
  /\ UNCHANGED <<server, updates, wire, connected, drops, answer, data>>

Older(age, limit) == IF age < limit THEN age + 1 ELSE age

\* Five seconds pass; ages beyond their limit are all the same.  An event that is
\* not lost arrives sooner than that, an answer within FRESH_ROW_GRACE_MS, and
\* what outlives its call is done within ENDED_RETENTION_MS.
Tick ==
  /\ answer.pending => answer.age + 1 < Grace
  /\ \A c \in Calls : /\ wire[c] = <<>>
                      /\ server[c] \in {"closing", "resumed"} => board[c].endedAge + 1 < Retention
  /\ board' = [c \in Calls |->
       IF ~board[c].on THEN board[c]
       ELSE [board[c] EXCEPT !.age = Older(@, Grace),
                             !.endedAge = IF board[c].ended THEN Older(@, Retention) ELSE @]]
  /\ answer' = IF answer.pending THEN [answer EXCEPT !.age = @ + 1] ELSE answer
  /\ board' # board \/ answer' # answer
  /\ UNCHANGED <<server, updates, wire, connected, drops, data>>

BoardNext ==
  \/ \E c \in Calls : CallBegins(c) \/ CallUpdates(c) \/ CallEnds(c)
                       \/ TransferReturns(c) \/ ToolsFinish(c) \/ ReceiveEvent(c)
  \/ ConnectionLost \/ Reconnected
  \/ ServePoll \/ Hydrate \/ PollFails \/ Prune \/ Tick

\* The page is open: it polls, its timers run, what is on the wire arrives.  A
\* poll may fail, but not every one does.
BoardFairness ==
  /\ WF_boardVars(ServePoll) /\ SF_boardVars(Hydrate)
  /\ WF_boardVars(Prune) /\ WF_boardVars(Tick)
  /\ \A c \in Calls : WF_boardVars(ReceiveEvent(c)) /\ WF_boardVars(ToolsFinish(c))

BoardSpec == BoardInit /\ [][BoardNext]_boardVars /\ BoardFairness

Shown(c) == board[c].on /\ ~board[c].ended

\* A row keeps its end, the one the page goes by when it counts the calls, offers
\* to take one over and takes a row away (endedAtMs): while the row is there no
\* poll served before the end and no event broadcast after it withdraws the end,
\* and none starts the row's retention again.  Its `status` does not keep: see
\* EndedRowSaysSo.
EndedRowStaysEnded ==
  [][\A c \in Calls : (board[c].on /\ board[c].ended /\ board'[c].on) =>
       board'[c].ended /\ board'[c].endedAge >= board[c].endedAge]_boardVars

\* What the card and the panel print beside that end is the row's status.  A poll
\* served before the end, or a transfer that comes back after it, sets it back
\* ("live", "transferred"), so that this does not hold; no run checks it.
EndedRowSaysSo == \A c \in Calls : board[c].ended => board[c].status = "ended"

\* The board comes to show the calls there are: a call that lasts is on it as
\* live, whatever was lost; one that is over is off it for good, if its events
\* came through.
BoardFollows ==
  \A c \in Calls : <>[](/\ server[c] = "live" => Shown(c)
                        /\ server[c] = "over" /\ drops = 0 => ~board[c].on)

\* "WebSocket bo'lmasa ham ma'lumot yangilanib turadi" (useLiveCalls.ts: the data
\* is kept fresh even without the WebSocket): the poll alone takes a call that is
\* over off the board.
BoardSettles == \A c \in Calls : <>[](server[c] = "over" => ~board[c].on)
=============================================================================
