------------------------------ MODULE VoiceProvider ----------------------------
(***************************************************************************)
(* What the orchestrator is promised by any speech-to-speech backend       *)
(* (interfaces VoiceProvider and VoiceProviderHandlers of                  *)
(* lib/telephony/contracts.ts), and builds on in launchProvider,           *)
(* buildProviderHandlers and handleProviderClose: start() settles once;    *)
(* a start that fails is reported by its rejection and by nothing else;    *)
(* onReady comes once and onClose at most once; and after onClose no       *)
(* handler is called again, so that a call torn down stays so.             *)
(***************************************************************************)
EXTENDS Naturals

VARIABLES
    phase,     \* of the provider: "new", "opening", "live", "failed", "closed"
    announced, \* onReady calls
    closings,  \* onClose calls
    stray      \* a handler was called when none may be

cvars == <<phase, announced, closings, stray>>

Init == phase = "new" /\ announced = 0 /\ closings = 0 /\ stray = FALSE

Start == phase = "new" /\ phase' = "opening" /\ UNCHANGED <<announced, closings, stray>>

\* start() resolves; the session is announced in the same breath.
Open ==
    /\ phase = "opening" /\ phase' = "live"
    /\ announced' = 1
    /\ UNCHANGED <<closings, stray>>

\* start() rejects.
Fail == phase = "opening" /\ phase' = "failed" /\ UNCHANGED <<announced, closings, stray>>

\* The session ends, of itself or because stop() is called.
Close ==
    /\ phase \in {"opening", "live"} /\ phase' = "closed"
    /\ closings' = 1
    /\ UNCHANGED <<announced, stray>>

Next == Start \/ Open \/ Fail \/ Close

Spec == Init /\ [][Next]_cvars
================================================================================
