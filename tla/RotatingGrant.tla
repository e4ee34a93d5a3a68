---------------------------- MODULE RotatingGrant ----------------------------
(***************************************************************************)
(* What the authorization server promises of a grant: it starts from one   *)
(* code, at most one pair of tokens of it is live, whoever rotates the     *)
(* live pair gets the next one and kills it, and a pair that died stays    *)
(* dead.                                                                   *)
(***************************************************************************)
CONSTANTS
  Grant,  \* grants, named by the code they start from
  Pair    \* token pairs

VARIABLES
  live,   \* the live pairs of each grant
  spent   \* pairs that were live once

Init ==
  /\ live \in {f \in [Grant -> SUBSET Pair] :
       \A g \in Grant : \A p, q \in f[g] : p = q}
  /\ spent = UNION {live[g] : g \in Grant}

\* A code is exchanged, once, for a pair never seen before.
Begin(g) ==
  /\ live[g] = {}
  /\ \E p \in Pair \ spent :
       /\ live' = [live EXCEPT ![g] = {p}]
       /\ spent' = spent \cup {p}

Rotate(g) ==
  /\ live[g] # {}
  /\ \E p \in Pair \ spent :
       /\ live' = [live EXCEPT ![g] = {p}]
       /\ spent' = spent \cup {p}

\* Pairs with a death date die by themselves.
Lapse ==
  /\ live' \in [Grant -> SUBSET Pair]
  /\ \A g \in Grant : live'[g] \subseteq live[g]
  /\ spent' = spent

Next == Lapse \/ \E g \in Grant : Begin(g) \/ Rotate(g)

Spec == Init /\ [][Next]_<<live, spent>>
=============================================================================
