---------------------------- MODULE MCVoiceGuard ----------------------------
(* A handful of requests about two calls.  The windows keep the order of   *)
(* the code's: 2 minutes resubmit < 10 retained < 15 pending.              *)
EXTENDS VoiceGuard, TLC
=============================================================================
