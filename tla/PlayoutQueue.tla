------------------------------ MODULE PlayoutQueue -----------------------------
(***************************************************************************)
(* The outgoing half of one AudioSocket session (class Session of          *)
(* lib/ai/audiosocket.ts): audio of any length is cut into frames, frames  *)
(* wait in a bounded queue and leave it one per 20 ms slot, and whoever is *)
(* about to act on the call may wait for the queue to run dry.             *)
(*                                                                         *)
(* A session is a record; the operators below are its methods.  A unit of  *)
(* audio is whatever the user of the module wants to follow, for instance  *)
(* the response that produced it.                                          *)
(***************************************************************************)
EXTENDS Naturals, Sequences

CONSTANTS
    FrameUnits,       \* units in a frame (AUDIOSOCKET_FRAME_BYTES)
    MaxQueuedFrames,  \* the option of the same name
    Waiters           \* who calls waitForQueueDrain

ASSUME QueueAssumption == FrameUnits \in Nat \ {0} /\ MaxQueuedFrames \in Nat \ {0}

NewSession ==
    [frames |-> <<>>, tail |-> <<>>, closed |-> FALSE, waiting |-> {},
     answer |-> [w \in Waiters |-> "none"]]

\* settleDrainWaiters
Settle(q, verdict) ==
    [q EXCEPT !.waiting = {},
              !.answer = [w \in Waiters |-> IF w \in q.waiting THEN verdict ELSE @[w]]]

\* enqueueFrame for every frame of `fresh': a full queue loses its oldest frame.
Enqueue(q, fresh) ==
    LET all == q.frames \o fresh
        excess == IF Len(all) > MaxQueuedFrames THEN Len(all) - MaxQueuedFrames ELSE 0
    IN  [q EXCEPT !.frames = SubSeq(all, excess + 1, Len(all))]

\* send: what does not fill a frame waits in the tail for the next call.
SendAudio(q, units) ==
    LET source == q.tail \o units
        whole == Len(source) \div FrameUnits
        rest == SubSeq(source, whole * FrameUnits + 1, Len(source))
        Frame(i) == [j \in 1..FrameUnits |-> source[(i - 1) * FrameUnits + j]]
    IN  IF q.closed \/ units = <<>> THEN q
        ELSE Enqueue([q EXCEPT !.tail = rest], [i \in 1..whole |-> Frame(i)])

\* flush: the tail becomes a frame, padded with `silence'.
FlushTail(q, silence) ==
    LET padded == [j \in 1..FrameUnits |-> IF j <= Len(q.tail) THEN q.tail[j] ELSE silence]
    IN  IF q.closed \/ q.tail = <<>> THEN q
        ELSE Enqueue([q EXCEPT !.tail = <<>>], <<padded>>)

\* discardQueuedAudio
Discard(q) == Settle([q EXCEPT !.frames = <<>>, !.tail = <<>>], "cut")

\* Mutant of WaitForDrain: it waits for the last frame of an empty queue, too.
WaitForLastFrame(q, w) ==
    IF q.closed THEN [q EXCEPT !.answer[w] = "cut"]
    ELSE [q EXCEPT !.waiting = @ \cup {w}, !.answer[w] = "none"]

\* waitForQueueDrain, up to its promise
WaitForDrain(q, w) ==
    IF q.closed THEN [q EXCEPT !.answer[w] = "cut"]
    ELSE IF q.frames = <<>> THEN [q EXCEPT !.answer[w] = "drained"]
    ELSE [q EXCEPT !.waiting = @ \cup {w}, !.answer[w] = "none"]

\* the timer of waitForQueueDrain
DrainTimeout(q, w) == [q EXCEPT !.waiting = @ \ {w}, !.answer[w] = "cut"]

\* emitOneFrame, in a slot of the pacer that finds a frame; silence fills the
\* others.  A slot skipped under back pressure is a slot that comes later.
EmitOneFrame(q) ==
    LET shifted == [q EXCEPT !.frames = Tail(@)]
    IN  IF q.closed \/ q.frames = <<>> THEN q
        ELSE IF Len(q.frames) = 1 THEN Settle(shifted, "drained")
        ELSE shifted

\* markClosed; hangup does the same to a session that is open
MarkClosed(q) ==
    Settle([q EXCEPT !.closed = TRUE, !.frames = <<>>, !.tail = <<>>], "cut")
================================================================================
