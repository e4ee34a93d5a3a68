------------------------------- MODULE MCLive -------------------------------
(* An instance of Live: one page, canonical or variant. *)
EXTENDS Live
=============================================================================
