--------------------------- MODULE MCIntentCreate ---------------------------
(***************************************************************************)
(* Instances of IntentCreate.  "ask" and "again" are one request and its   *)
(* repetition, "add" follows it up under another spelling of the title,    *)
(* "other" shares only the title, "apart" repeats "ask" as distinct.       *)
(***************************************************************************)
EXTENDS IntentCreate, TLC

Contents == [
  ask   |-> [title |-> "t", body |-> {"a", "b"}, labels |-> {}],
  again |-> [title |-> "t", body |-> {"a", "b"}, labels |-> {}],
  add   |-> [title |-> "T", body |-> {"b", "c"}, labels |-> {"urgent"}],
  other |-> [title |-> "t", body |-> {"x"}, labels |-> {}],
  apart |-> [title |-> "t", body |-> {"a", "b"}, labels |-> {}]]

MCTitle == [r \in Request |-> Contents[r].title]
MCBody == [r \in Request |-> Contents[r].body]
MCLabels == [r \in Request |-> Contents[r].labels]
=============================================================================
