---------------------------- MODULE OperationLock ----------------------------
(***************************************************************************)
(* The per-operation mutex of src/src/lib/idempotency.ts                   *)
(* (withOperationLock): a map from key to the promise of the last caller.  *)
(* A caller chains its work behind the promise it finds there, puts its    *)
(* own promise in its place, and on the way out deletes the entry if it is *)
(* still its own.  A call is an element of Call used once; the promise it  *)
(* leaves in the map is named by the call itself.                          *)
(*                                                                         *)
(* JavaScript runs one callback at a time, so each action is one turn of   *)
(* the event loop; the gap between a body's promise settling (Finish) and  *)
(* the caller's `finally` (Release) is real: other calls run in it.        *)
(***************************************************************************)
EXTENDS Naturals

CONSTANTS
  Call,     \* invocations of withOperationLock
  Key,      \* operation keys
  KeyOf,    \* the key each call locks
  NoCall    \* "the map has no entry" / "there was nobody before me"

ASSUME KeyOfAssumption == KeyOf \in [Call -> Key]
ASSUME NoCallAssumption == NoCall \notin Call

VARIABLES
  locks,    \* the module-level Map: the call whose promise is each key's entry
  prior,    \* the call whose promise each call chained itself behind
  lockPc,       \* where each call is
  outcome,  \* how each call's body ended
  ticket,   \* history: the position in which each call arrived
  arrivals  \* history: how many calls have arrived

lockingVars == <<locks, prior, lockPc, outcome, ticket, arrivals>>

Started(c) == lockPc[c] \in {"running", "settled", "returned"}
Settled(c) == lockPc[c] \in {"settled", "returned"}
SameKey(c, d) == KeyOf[c] = KeyOf[d]

LockingTypeOK ==
  /\ locks \in [Key -> Call \cup {NoCall}]
  /\ prior \in [Call -> Call \cup {NoCall}]
  /\ lockPc \in [Call -> {"idle", "waiting", "running", "settled", "returned"}]
  /\ outcome \in [Call -> {"pending", "resolved", "rejected"}]
  /\ ticket \in [Call -> Nat]
  /\ arrivals \in Nat

LockingInit ==
  /\ locks = [k \in Key |-> NoCall]
  /\ prior = [c \in Call |-> NoCall]
  /\ lockPc = [c \in Call |-> "idle"]
  /\ outcome = [c \in Call |-> "pending"]
  /\ ticket = [c \in Call |-> 0]
  /\ arrivals = 0

\* The synchronous prologue: read the entry, chain behind it, replace it.
Arrive(c) ==
  /\ lockPc[c] = "idle"
  /\ prior' = [prior EXCEPT ![c] = locks[KeyOf[c]]]
  /\ locks' = [locks EXCEPT ![KeyOf[c]] = c]
  /\ lockPc' = [lockPc EXCEPT ![c] = "waiting"]
  /\ arrivals' = arrivals + 1
  /\ ticket' = [ticket EXCEPT ![c] = arrivals']
  /\ UNCHANGED outcome

\* prior.then(fn, fn): the body runs once the promise ahead has settled,
\* whichever way it settled.
ReleasedAheadIfResolved(c) == prior[c] # NoCall => outcome[prior[c]] = "resolved"
ReleasedAheadAtOnce(c) == TRUE
ReleasedAhead(c) == prior[c] # NoCall => Settled(prior[c])

Start(c) ==
  /\ lockPc[c] = "waiting"
  /\ ReleasedAhead(c)
  /\ lockPc' = [lockPc EXCEPT ![c] = "running"]
  /\ UNCHANGED <<locks, prior, outcome, ticket, arrivals>>

\* The body's promise resolves or rejects; `settled` follows it either way.
Finish(c) ==
  /\ lockPc[c] = "running"
  /\ \E o \in {"resolved", "rejected"} : outcome' = [outcome EXCEPT ![c] = o]
  /\ lockPc' = [lockPc EXCEPT ![c] = "settled"]
  /\ UNCHANGED <<locks, prior, ticket, arrivals>>

\* The `finally` block: only the last holder clears the entry.
EntryAfterAlways(c) == NoCall
EntryAfterNever(c) == locks[KeyOf[c]]
EntryAfter(c) == IF locks[KeyOf[c]] = c THEN NoCall ELSE locks[KeyOf[c]]

Release(c) ==
  /\ lockPc[c] = "settled"
  /\ locks' = [locks EXCEPT ![KeyOf[c]] = EntryAfter(c)]
  /\ lockPc' = [lockPc EXCEPT ![c] = "returned"]
  /\ UNCHANGED <<prior, outcome, ticket, arrivals>>

LockingNext == \E c \in Call : Arrive(c) \/ Start(c) \/ Finish(c) \/ Release(c)

\* Promise reactions run, and every body ends: each store command it awaits
\* carries a timeout (execStdout).  Nothing makes a caller arrive.
LockingFairness == \A c \in Call : WF_lockingVars(Start(c) \/ Finish(c) \/ Release(c))

LockingSpec == LockingInit /\ [][LockingNext]_lockingVars
FairLockingSpec == LockingSpec /\ LockingFairness

-----------------------------------------------------------------------------
\* Calls on one key are served in the order they arrived: a body runs only
\* once every earlier body on its key has settled.  Mutual exclusion is the
\* special case of two bodies running at once ("two concurrent submissions
\* cannot both observe 'no bead yet'", idempotent-create.ts).
ServedInOrder ==
  \A c, d \in Call :
    /\ SameKey(c, d)
    /\ lockPc[c] # "idle"
    /\ ticket[c] < ticket[d]
    /\ Started(d)
    => Settled(c)

\* "The map cannot grow without bound across a long-lived server": a key
\* none of whose callers is still inside has no entry.
MapDrains ==
  \A k \in Key :
    (\A c \in Call : KeyOf[c] = k => lockPc[c] \in {"idle", "returned"})
      => locks[k] = NoCall

\* The same module is a keyed mutex that never starves a caller, even one
\* queued behind a body that rejected ("must not poison the queue").
Phase == [c \in Call |-> IF Settled(c) THEN "ended" ELSE lockPc[c]]
Mutex == INSTANCE KeyedMutex WITH phase <- Phase
ImplementsMutex == Mutex!Spec
=============================================================================
