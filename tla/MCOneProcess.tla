----------------------------- MODULE MCOneProcess -----------------------------
(***************************************************************************)
(* What one process does with overlapping deliveries: the lock, for four   *)
(* calls of which three are on one key, and the deliveries behind it. The  *)
(* first state says which of the two takes the steps; the other stays as   *)
(* it begins.                                                              *)
(***************************************************************************)
EXTENDS MCOperationCreate, OperationLock

CONSTANTS c1, c2, c3, c4, k1, k2

MCCall == {c1, c2, c3, c4}
MCKey == {k1, k2}
MCKeyOf == c1 :> k1 @@ c2 :> k1 @@ c3 :> k1 @@ c4 :> k2

VARIABLE subject

OneInit == Init /\ LockingInit /\ subject \in {"lock", "deliveries"}

OneNext ==
  /\ UNCHANGED subject
  /\ \/ subject = "lock" /\ LockingNext /\ UNCHANGED vars
     \/ subject = "deliveries" /\ Next /\ UNCHANGED lockingVars

\* The fairness is the lock's; where no call arrives it asks for nothing.
OneSpec == OneInit /\ [][OneNext]_<<vars, lockingVars, subject>> /\ LockingFairness
=============================================================================
