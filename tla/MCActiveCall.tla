------------------------------ MODULE MCActiveCall -----------------------------
(***************************************************************************)
(* Instances of ActiveCall for TLC.                                        *)
(***************************************************************************)
EXTENDS ActiveCall

\* What a call survives with every promise kept.
Survived == {{"originate", "start", "db", "no_operator", "leg"},
             {"lost_dial_event", "voice_drop"}}

\* Every mishap away, and another operator of the tenant on the telephone.
Calm == {{}}
Colleague == {{"colleague"}}
================================================================================
