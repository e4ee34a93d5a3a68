-------------------------- MODULE MCOperationCreate --------------------------
(***************************************************************************)
(* Instances of OperationCreate.  "first" opens the operation, "more" adds *)
(* text, a title and a label, "side" and "aside" promote scope to child    *)
(* beads, "replay" repeats "side".                                         *)
(***************************************************************************)
EXTENDS OperationCreate, TLC

Contents == [
  first  |-> [title |-> "t1", body |-> {"a"}, labels |-> {}],
  more   |-> [title |-> "t2", body |-> {"b"}, labels |-> {"urgent"}],
  side   |-> [title |-> "t3", body |-> {"c"}, labels |-> {}],
  aside  |-> [title |-> "t4", body |-> {"d"}, labels |-> {}],
  replay |-> [title |-> "t3", body |-> {"c"}, labels |-> {}]]

MCTitle == [d \in Delivery |-> Contents[d].title]
MCBody == [d \in Delivery |-> Contents[d].body]
MCLabels == [d \in Delivery |-> Contents[d].labels]

\* One process.
OneProcess == [d \in Delivery |-> "p1"]
\* Two processes: "more" arrives at another one than the rest.
TwoProcesses == [d \in Delivery |-> IF d = "more" THEN "p2" ELSE "p1"]
=============================================================================
