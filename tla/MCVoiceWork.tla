------------------------------ MODULE MCVoiceWork ------------------------------
(* VoiceWork for TLC: a plain voice, a source of the multipass bin and the *)
(* multipass voice that consumes it.                                       *)
EXTENDS VoiceWork

MCVoices == {"plain", "source", "multi"}
MCRole == [v \in MCVoices |-> v]
================================================================================
