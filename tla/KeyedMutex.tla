----------------------------- MODULE KeyedMutex -----------------------------
(***************************************************************************)
(* What withOperationLock promises its callers: calls on one key run one   *)
(* at a time, calls on different keys never wait for each other, and a     *)
(* call ends exactly once.  How the promise chain keeps that promise is    *)
(* OperationLock; OperationCreate relies on this abstraction.              *)
(***************************************************************************)
CONSTANTS Call,   \* invocations of withOperationLock
          KeyOf   \* the key each invocation locks

VARIABLE phase    \* "idle", "waiting", "running" or "ended", per call

Rivals(c) == {d \in Call \ {c} : KeyOf[d] = KeyOf[c]}

Init == phase = [c \in Call |-> "idle"]

Request(c) ==
  /\ phase[c] = "idle"
  /\ phase' = [phase EXCEPT ![c] = "waiting"]

Enter(c) ==
  /\ phase[c] = "waiting"
  /\ \A d \in Rivals(c) : phase[d] # "running"
  /\ phase' = [phase EXCEPT ![c] = "running"]

Leave(c) ==
  /\ phase[c] = "running"
  /\ phase' = [phase EXCEPT ![c] = "ended"]

Next == \E c \in Call : Request(c) \/ Enter(c) \/ Leave(c)

\* Safety part, and the promise that nobody waits for ever.
Safe == Init /\ [][Next]_phase
Spec == Safe /\ \A c \in Call : phase[c] = "waiting" ~> phase[c] = "ended"
=============================================================================
