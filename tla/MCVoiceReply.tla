----------------------------- MODULE MCVoiceReply -----------------------------
(***************************************************************************)
(* An instance of VoiceReply for TLC; the configuration gives the bounds.  *)
(***************************************************************************)
EXTENDS VoiceReply
=============================================================================
