----------------------------- MODULE VoiceGuard -----------------------------
(***************************************************************************)
(* The two-step confirmation of src/src/lib/voice-guard.ts: a tool call    *)
(* whose text a glossary rule flags is paused, and runs when voice_confirm *)
(* settles it.  A Token stands for one caller, tool and argument object    *)
(* (voiceToken); a Request is one MCP call, either the guarded tool call   *)
(* itself or a voice_confirm, and is used once.  A pause is an object the  *)
(* executing confirm keeps a reference to, so it outlives its place in the *)
(* map: it is named by the request that opened it.                         *)
(*                                                                         *)
(* A turn of the event loop is an action; the one gap in `confirm` is the  *)
(* await of the tool's handler, which Tick, other calls and other confirms *)
(* interleave with.  When the handler settles, the owner's continuation    *)
(* and then those of the requests awaiting the same flight run in one go.  *)
(***************************************************************************)
EXTENDS Integers, FiniteSets

CONSTANTS
  MaxRequests,     \* bound on the MCP calls that reach the guard
  Token,           \* flagged calls, told apart by caller, tool and arguments
  PendingTtl,      \* PENDING_TTL_MS
  SettledRetain,   \* SETTLED_RETAIN_MS
  ResubmitWindow,  \* RESUBMIT_WINDOW_MS
  MaxEntries,      \* MAX_ENTRIES
  MaxTime,         \* bound on the clock
  HandlerTime,     \* bound on how long a tool's handler runs
  LateConfirms     \* may a handler be started that outlives PENDING_TTL_MS?

ASSUME LimitsAssumption ==
  /\ {MaxRequests, PendingTtl, SettledRetain, ResubmitWindow, MaxTime, HandlerTime} \subseteq Nat
  /\ MaxEntries \in Nat \ {0}
  /\ LateConfirms \in BOOLEAN
  /\ ResubmitWindow <= SettledRetain    \* 2 and 10 minutes

\* Requests are named in the order they arrive.
Request == 1 .. MaxRequests

\* Two argument objects a `correct` decision may carry (correctedHash).
Executing == {"accept", "original", "correct one", "correct other"}
Decision == Executing \cup {"cancel"}

VARIABLES
  now,      \* Date.now()
  entries,  \* the Map: the pauses in it, one per token
  pause,    \* the pause objects, by the request that opened them: place orders
            \* the keys of the Map by their insertion, startedAt is the history
            \* the bound on HandlerTime needs
  listed,   \* tokens whose relay-status item still needs verification
  pc,       \* where each request is
  about     \* the pause each request works on

vars == <<now, entries, pause, listed, pc, about>>

Nothing == [token |-> "none", state |-> "unopened", createdAt |-> 0, settledAt |-> -1,
            startedAt |-> 0, decision |-> "none", place |-> 0]

Init ==
  /\ now = 0
  /\ entries = {}
  /\ pause = [r \in Request |-> Nothing]
  /\ listed = {}
  /\ pc = [r \in Request |-> "idle"]
  /\ about = [r \in Request |-> r]

Tick ==
  /\ now < MaxTime
  /\ \A r \in Request : pc[r] = "running" => now - pause[about[r]].startedAt < HandlerTime
  /\ now' = now + 1
  /\ UNCHANGED <<entries, pause, listed, pc, about>>

-----------------------------------------------------------------------------
Live(e) == pause[e].state \in {"pending", "executing"}

\* prune: what is too old goes, then the earliest inserted above the cap.
Expired(e) ==
  IF Live(e)
  THEN now - pause[e].createdAt > PendingTtl
  ELSE now - pause[e].settledAt > SettledRetain

Fresh == {e \in entries : ~Expired(e)}
After(e) == {f \in Fresh : pause[f].place > pause[e].place}
Pruned == {e \in Fresh : Cardinality(After(e)) < MaxEntries}

\* entries.get(token) once pruned: the token's pause, or none.
At(t) == {e \in Pruned : pause[e].token = t}

Arrives(r) == pc[r] = "idle" /\ \A s \in 1 .. r - 1 : pc[s] # "idle"
Answered(r) == pc' = [pc EXCEPT ![r] = "answered"]

\* Await the flight of pause e, or answer at once when it is over.
AwaitFlight(r, e) ==
  /\ about' = [about EXCEPT ![r] = e]
  /\ IF pause[e].state = "executing"
     THEN pc' = [pc EXCEPT ![r] = "waiting"]
     ELSE Answered(r)

-----------------------------------------------------------------------------
(* A guarded tool call that a rule flags (the wrapper's tail, and open). *)

\* A pause that open() hands back instead of opening another.
ReusableLiveOnly(e) == Live(e)
Reusable(e) ==
  Live(e) \/ (pause[e].state = "done" /\ now - pause[e].settledAt < ResubmitWindow)

\* Map.set keeps the place of a key it already has; a new one comes last.
PlaceFor(t, r) == IF At(t) = {} THEN r ELSE pause[CHOOSE e \in At(t) : TRUE].place

CallAgain(r, t) ==
  /\ Arrives(r)
  /\ \E e \in At(t) :
       /\ Reusable(e)
       /\ IF pause[e].state = "pending"
          THEN Answered(r) /\ UNCHANGED about
          ELSE AwaitFlight(r, e)
  /\ entries' = Pruned
  /\ UNCHANGED <<now, pause, listed>>

CallPauses(r, t) ==
  /\ Arrives(r)
  /\ \A e \in At(t) : ~Reusable(e)
  /\ pause' = [pause EXCEPT ![r] = [token |-> t, state |-> "pending", createdAt |-> now,
                                    settledAt |-> -1, startedAt |-> 0, decision |-> "none",
                                    place |-> PlaceFor(t, r)]]
  /\ entries' = (Pruned \ At(t)) \cup {r}
  /\ listed' = listed \cup {t}
  /\ Answered(r)
  /\ UNCHANGED <<now, about>>

-----------------------------------------------------------------------------
(* voice_confirm. *)

\* "no pending request for token ... Nothing was executed"
ConfirmUnknown(r, t) ==
  /\ Arrives(r)
  /\ At(t) = {}
  /\ entries' = Pruned
  /\ Answered(r)
  /\ UNCHANGED <<now, pause, listed, about>>

\* The pause was settled or is executing: never run twice.
ConfirmSettled(r, t, d) ==
  /\ Arrives(r)
  /\ \E e \in At(t) :
       /\ pause[e].state # "pending"
       /\ IF pause[e].decision = d
          THEN AwaitFlight(r, e)
          ELSE Answered(r) /\ UNCHANGED about
  /\ entries' = Pruned
  /\ UNCHANGED <<now, pause, listed>>

ConfirmCancels(r, t) ==
  /\ Arrives(r)
  /\ \E e \in At(t) :
       /\ pause[e].state = "pending"
       /\ pause' = [pause EXCEPT ![e].state = "cancelled", ![e].decision = "cancel",
                                 ![e].settledAt = now]
  /\ listed' = listed \ {t}
  /\ entries' = Pruned
  /\ Answered(r)
  /\ UNCHANGED <<now, about>>

\* The tool is gone, or its schema rejects the substituted arguments.
ConfirmInvalid(r, t, d) ==
  /\ Arrives(r)
  /\ d # "cancel"
  /\ \E e \in At(t) : pause[e].state = "pending"
  /\ entries' = Pruned
  /\ Answered(r)
  /\ UNCHANGED <<now, pause, listed, about>>

MayRunUnlessDone(e) == pause[e].state \in {"pending", "executing"}
MayRun(e) == pause[e].state = "pending"

ConfirmRuns(r, t, d) ==
  /\ Arrives(r)
  /\ d \in Executing
  /\ \E e \in At(t) :
       /\ MayRun(e)
       /\ LateConfirms \/ now + HandlerTime <= pause[e].createdAt + PendingTtl
       /\ pause' = [pause EXCEPT ![e].state = "executing", ![e].decision = d,
                                 ![e].startedAt = now]
       /\ about' = [about EXCEPT ![r] = e]
  /\ entries' = Pruned
  /\ pc' = [pc EXCEPT ![r] = "running"]
  /\ UNCHANGED <<now, listed>>

\* The handler of the execution r owns settles; r and then the requests that
\* await the same flight are answered.
Waiters(e) == {w \in Request : pc[w] = "waiting" /\ about[w] = e}
ServedOwnerOnly(r) == {r}
Served(r) == {r} \cup Waiters(about[r])

Settles(r) ==
  /\ pc' = [w \in Request |-> IF w \in Served(r) THEN "answered" ELSE pc[w]]
  /\ UNCHANGED <<now, entries, about>>

HandlerSucceeds(r) ==
  /\ pc[r] = "running"
  /\ pause' = [pause EXCEPT ![about[r]].state = "done", ![about[r]].settledAt = now]
  /\ listed' = listed \ {pause[about[r]].token}
  /\ Settles(r)

\* It throws, or reports isError: the pause is confirmable again.
HandlerFails(r) ==
  /\ pc[r] = "running"
  /\ pause' = [pause EXCEPT ![about[r]].state = "pending", ![about[r]].decision = "none"]
  /\ UNCHANGED listed
  /\ Settles(r)

Next ==
  \/ Tick
  \/ \E r \in Request :
       \/ HandlerSucceeds(r) \/ HandlerFails(r)
       \/ \E t \in Token :
            \/ CallAgain(r, t) \/ CallPauses(r, t)
            \/ ConfirmUnknown(r, t) \/ ConfirmCancels(r, t)
            \/ \E d \in Decision :
                 ConfirmSettled(r, t, d) \/ ConfirmInvalid(r, t, d) \/ ConfirmRuns(r, t, d)

\* Every tool's handler ends: the store commands it awaits carry timeouts.
Fairness == \A r \in Request : WF_vars(HandlerSucceeds(r) \/ HandlerFails(r))

Spec == Init /\ [][Next]_vars
FairSpec == Spec /\ Fairness

-----------------------------------------------------------------------------
PauseRecord ==
  [token : Token \cup {"none"},
   state : {"unopened", "pending", "executing", "done", "cancelled"},
   createdAt : 0 .. MaxTime, settledAt : -1 .. MaxTime,
   startedAt : 0 .. MaxTime, decision : Decision \cup {"none"}, place : 0 .. MaxRequests]

TypeOK ==
  /\ now \in 0 .. MaxTime
  /\ entries \subseteq Request
  /\ pause \in [Request -> PauseRecord]
  /\ listed \subseteq Token
  /\ \A d, e \in entries : pause[d].token = pause[e].token => d = e
  /\ pc \in [Request -> {"idle", "running", "waiting", "answered"}]
  /\ about \in [Request -> Request]

Running(t) == {r \in Request : pc[r] = "running" /\ pause[about[r]].token = t}

\* "Executed exactly once: concurrent/retried confirms await this same
\* flight": no two executions of one call are ever under way together.
OneExecutionAtATime == \A t \in Token : \A r, s \in Running(t) : r = s

\* "Re-sending the identical original call this soon after it settled is a
\* retry, not new work": whatever is re-sent and re-confirmed in between, a
\* call that ran runs again only if it was paused anew after the window.
NoRerunInsideWindow ==
  \A a, b \in Request :
    /\ a # b
    /\ pause[a].state = "done" /\ pause[b].state = "done"
    /\ pause[a].token = pause[b].token
    => \/ pause[a].createdAt >= pause[b].settledAt + ResubmitWindow
       \/ pause[b].createdAt >= pause[a].settledAt + ResubmitWindow

\* Nobody who awaits another request's execution is left hanging.
EveryRequestAnswered ==
  \A r \in Request : pc[r] \in {"running", "waiting"} ~> pc[r] = "answered"
=============================================================================
