------------------------------- MODULE MCVoiceLine -----------------------------
(***************************************************************************)
(* VoiceLine for TLC.  voice_line talks over one healthy session with a    *)
(* caller who interrupts and a model that calls tools; voice_link loses    *)
(* the session in every way and says nothing but goodbye.                  *)
(***************************************************************************)
EXTENDS VoiceLine
================================================================================
