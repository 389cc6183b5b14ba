------------------------------ MODULE DialVerdict ------------------------------
(***************************************************************************)
(* What the call orchestrator promises the dialer of a phone it has rung:  *)
(* the dial is answered for.  Either nobody took the call, and that is the *)
(* only thing said of it; or it was taken, which is said at most once, and *)
(* the person may have asked not to be rung again.                         *)
(***************************************************************************)
EXTENDS Sequences

VARIABLES
    placed,     \* the dial has been parked: from here an answer is owed
    told        \* the outcomes reported to the dialer, in their order

vars == <<placed, told>>

Said(outcome) == \E i \in DOMAIN told : told[i] = outcome

Init == placed = FALSE /\ told = <<>>

Place == ~placed /\ placed' = TRUE /\ UNCHANGED told

Report(outcome) == placed /\ told' = Append(told, outcome) /\ UNCHANGED placed

Miss == told = <<>> /\ Report("missed")

Converse == ~Said("missed") /\ ~Said("answered") /\ Report("answered")

Refuse == ~Said("missed") /\ Report("optOut")

Next == Place \/ Miss \/ Converse \/ Refuse

FirstReport == told = <<>> /\ (Miss \/ Converse \/ Refuse)

Spec == Init /\ [][Next]_vars /\ WF_vars(FirstReport)
================================================================================
