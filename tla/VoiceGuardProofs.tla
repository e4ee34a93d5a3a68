-------------------------- MODULE VoiceGuardProofs --------------------------
(***************************************************************************)
(* Why a confirmed call runs once.  A pause that runs keeps its place in   *)
(* the Map: its handler ends before the time-to-live prune goes by         *)
(* (~LateConfirms), and the cap takes none away while at most MAX_ENTRIES  *)
(* pauses are fresh (Room).  Both are needed: without either, prune drops  *)
(* a pause that runs, and the call sent again is paused, confirmed and run *)
(* beside it.  And the wording a speaker is told to accept has the slips   *)
(* of the glossary corrected, and nothing else changed.                    *)
(***************************************************************************)
EXTENDS VoiceGuard, SpeechSlips, Ordered, SequenceTheorems, FiniteSetTheorems,
        FunctionTheorems, WellFoundedInduction, TLAPS

\* The cap of the Map takes nothing away: at most MAX_ENTRIES pauses are fresh.
Room == Cardinality(Fresh) <= MaxEntries

\* What runs is a pause the Map holds, it ends before prune may take it, and
\* one request owns it.
Runs ==
  \A r \in Request : pc[r] = "running" =>
    /\ pause[about[r]].state = "executing"
    /\ about[r] \in entries
    /\ now <= pause[about[r]].startedAt + HandlerTime
    /\ pause[about[r]].startedAt + HandlerTime <= pause[about[r]].createdAt + PendingTtl
OneOwner ==
  \A r, s \in Request : pc[r] = "running" /\ pc[s] = "running" /\ about[r] = about[s] => r = s

\* A pause that is done leaves the Map only once its window is over, and a
\* later pause of the same call that may still run was opened after it.
DoneIsKept ==
  \A b \in Request : pause[b].state = "done" =>
    /\ pause[b].settledAt <= now
    /\ b \in entries \/ now >= pause[b].settledAt + ResubmitWindow
LiveIsLater ==
  \A a \in entries, b \in Request :
    a # b /\ pause[a].token = pause[b].token /\ pause[b].state = "done" /\ Live(a)
    => pause[a].createdAt >= pause[b].settledAt + ResubmitWindow

\* A request that has not arrived has opened nothing, and the Map holds calls.
Unopened ==
  /\ \A r \in Request : pc[r] = "idle" => pause[r].state = "unopened" /\ r \notin entries
  /\ \A e \in entries : pause[e].token \in Token

VoiceInv ==
  TypeOK /\ Unopened /\ Runs /\ OneOwner /\ DoneIsKept /\ LiveIsLater /\ NoRerunInsideWindow

-----------------------------------------------------------------------------
\* With room, prune takes what is too old and nothing else.
LEMMA RoomIsEnough == TypeOK /\ Room => Pruned = Fresh
<1> SUFFICES ASSUME TypeOK, Room PROVE Pruned = Fresh
  OBVIOUS
<1>1. IsFiniteSet(Fresh)
  <2>1. IsFiniteSet(Request)
    BY FS_Interval, LimitsAssumption DEF Request
  <2>2. Fresh \subseteq Request
    BY DEF TypeOK, Fresh
  <2> QED BY <2>1, <2>2, FS_Subset
<1>2. ASSUME NEW e \in Fresh PROVE Cardinality(After(e)) < MaxEntries
  <2>1. After(e) \subseteq Fresh \ {e}
    <3>1. pause[e].place \in Int
      BY <1>2 DEF TypeOK, Fresh, PauseRecord
    <3> QED BY <3>1 DEF After
  <2>2. /\ IsFiniteSet(Fresh \ {e})
        /\ Cardinality(Fresh \ {e}) = Cardinality(Fresh) - 1
    BY <1>1, <1>2, FS_RemoveElement
  <2>3. Cardinality(After(e)) <= Cardinality(Fresh \ {e})
    BY <2>1, <2>2, FS_Subset
  <2>4. IsFiniteSet(After(e))
    BY <2>1, <2>2, FS_Subset
  <2>5. /\ Cardinality(After(e)) \in Nat
        /\ Cardinality(Fresh) \in Nat
    BY <1>1, <2>4, FS_CardinalityType
  <2> QED BY <2>2, <2>3, <2>5, LimitsAssumption DEF Room
<1> QED BY <1>2 DEF Pruned

\* What prune leaves of the invariant: the pauses that run stay, and what is
\* done and gone is out of its window.
Kept ==
  /\ Pruned \subseteq entries
  /\ \A r \in Request : pc[r] = "running" => about[r] \in Pruned
  /\ \A b \in Request : pause[b].state = "done" =>
       b \in Pruned \/ now >= pause[b].settledAt + ResubmitWindow

LEMMA PruneKeeps == VoiceInv /\ Room => Kept
<1> SUFFICES ASSUME VoiceInv, Room PROVE Kept
  OBVIOUS
<1>1. Pruned = Fresh
  BY RoomIsEnough DEF VoiceInv
<1>t. /\ now \in Int
      /\ \A e \in Request : /\ pause[e].createdAt \in Int /\ pause[e].settledAt \in Int
                            /\ pause[e].startedAt \in Int
      /\ entries \subseteq Request
      /\ {PendingTtl, SettledRetain, ResubmitWindow, HandlerTime} \subseteq Int
      /\ ResubmitWindow <= SettledRetain
  BY LimitsAssumption DEF VoiceInv, TypeOK, PauseRecord
<1>2. Fresh \subseteq entries
  BY DEF Fresh
<1>3. ASSUME NEW r \in Request, pc[r] = "running" PROVE about[r] \in Fresh
  <2>1. /\ about[r] \in entries
        /\ pause[about[r]].state = "executing"
        /\ now <= pause[about[r]].startedAt + HandlerTime
        /\ pause[about[r]].startedAt + HandlerTime <= pause[about[r]].createdAt + PendingTtl
    BY <1>3 DEF VoiceInv, Runs
  <2>2. ~Expired(about[r])
    BY <2>1, <1>t DEF Expired, Live
  <2> QED BY <2>1, <2>2 DEF Fresh
<1>4. ASSUME NEW b \in Request, pause[b].state = "done"
      PROVE b \in Fresh \/ now >= pause[b].settledAt + ResubmitWindow
  <2>1. b \in entries \/ now >= pause[b].settledAt + ResubmitWindow
    BY <1>4 DEF VoiceInv, DoneIsKept
  <2>2. CASE b \in entries /\ Expired(b)
    BY <2>2, <1>t, <1>4 DEF Expired, Live
  <2> QED BY <2>1, <2>2 DEF Fresh
<1> QED BY <1>1, <1>2, <1>3, <1>4 DEF Kept

-----------------------------------------------------------------------------
\* Time passes only while every handler is within its bound.
LEMMA TickKeeps == VoiceInv /\ Tick => VoiceInv'
<1> SUFFICES ASSUME VoiceInv, Tick PROVE VoiceInv'
  OBVIOUS
<1>t. /\ now \in 0 .. MaxTime /\ MaxTime \in Nat
      /\ \A e \in Request : /\ pause[e].createdAt \in Int /\ pause[e].settledAt \in Int
                            /\ pause[e].startedAt \in Int
      /\ about \in [Request -> Request]
      /\ {PendingTtl, SettledRetain, ResubmitWindow, HandlerTime} \subseteq Int
  BY LimitsAssumption DEF VoiceInv, TypeOK, PauseRecord
<1>u. /\ now < MaxTime /\ now' = now + 1
      /\ entries' = entries /\ pause' = pause /\ listed' = listed
      /\ pc' = pc /\ about' = about
  BY DEF Tick
<1>1. TypeOK'
  BY <1>t, <1>u DEF VoiceInv, TypeOK
<1>2. Runs'
  BY <1>t, <1>u DEF VoiceInv, Runs, Tick
<1>3. Unopened' /\ OneOwner' /\ LiveIsLater' /\ NoRerunInsideWindow'
  BY <1>u DEF VoiceInv, Unopened, OneOwner, LiveIsLater, NoRerunInsideWindow, Live
<1>4. DoneIsKept'
  BY <1>t, <1>u DEF VoiceInv, DoneIsKept
<1> QED BY <1>1, <1>2, <1>3, <1>4 DEF VoiceInv

\* A request that only prunes and is answered, or joins those who wait.
LEMMA AnsweredKeeps ==
  ASSUME VoiceInv, Kept, NEW r \in Request, Arrives(r),
         entries' = Pruned, UNCHANGED <<now, pause>>, listed' \subseteq listed,
         NEW s \in {"waiting", "answered"}, pc' = [pc EXCEPT ![r] = s],
         about' \in [Request -> Request],
         \A q \in Request : q # r => about'[q] = about[q]
  PROVE  VoiceInv'
<1>t. pc[r] = "idle" /\ pc \in [Request -> {"idle", "running", "waiting", "answered"}]
  BY DEF VoiceInv, TypeOK, Arrives
<1>u. now' = now /\ pause' = pause /\ Pruned \subseteq entries
  BY DEF Kept
<1>1. \A q \in Request : pc'[q] = "running" => pc[q] = "running" /\ about'[q] = about[q]
  BY <1>t
<1>2. TypeOK'
  BY <1>t, <1>u DEF VoiceInv, TypeOK
<1>3. Runs'
  BY <1>1, <1>u DEF VoiceInv, Runs, Kept
<1>4. OneOwner' /\ Unopened'
  BY <1>1, <1>t, <1>u DEF VoiceInv, OneOwner, Unopened
<1>5. DoneIsKept' /\ LiveIsLater' /\ NoRerunInsideWindow'
  BY <1>u DEF VoiceInv, DoneIsKept, LiveIsLater, NoRerunInsideWindow, Kept, Live
<1> QED BY <1>2, <1>3, <1>4, <1>5 DEF VoiceInv

\* The pause a confirm or a call sent again finds.
LEMMA Found ==
  ASSUME VoiceInv, Kept, NEW t, NEW e \in At(t)
  PROVE  /\ e \in Request /\ e \in Pruned /\ e \in entries
         /\ pause[e].token = t /\ pause[e] \in PauseRecord
BY DEF At, VoiceInv, Kept, TypeOK

LEMMA CallAgainKeeps ==
  ASSUME VoiceInv, Room, NEW r \in Request, NEW t \in Token, CallAgain(r, t)
  PROVE  VoiceInv'
<1>1. Kept
  BY PruneKeeps
<1>2. PICK e \in At(t) :
        IF pause[e].state = "pending"
        THEN Answered(r) /\ UNCHANGED about
        ELSE AwaitFlight(r, e)
  BY DEF CallAgain
<1>3. e \in Request /\ about \in [Request -> Request]
  BY <1>1, Found DEF VoiceInv, TypeOK
<1>4. /\ \E s \in {"waiting", "answered"} : pc' = [pc EXCEPT ![r] = s]
      /\ about' = about \/ about' = [about EXCEPT ![r] = e]
  BY <1>2 DEF Answered, AwaitFlight
<1>5. PICK s \in {"waiting", "answered"} : pc' = [pc EXCEPT ![r] = s]
  BY <1>4
<1>6. /\ about' \in [Request -> Request]
      /\ \A q \in Request : q # r => about'[q] = about[q]
  BY <1>3, <1>4
<1>7. Arrives(r) /\ entries' = Pruned /\ UNCHANGED <<now, pause>> /\ listed' \subseteq listed
  BY DEF CallAgain
<1> QED BY <1>1, <1>5, <1>6, <1>7, AnsweredKeeps

LEMMA ConfirmSettledKeeps ==
  ASSUME VoiceInv, Room, NEW r \in Request, NEW t \in Token, NEW d \in Decision,
         ConfirmSettled(r, t, d)
  PROVE  VoiceInv'
<1>1. Kept
  BY PruneKeeps
<1>2. PICK e \in At(t) :
        IF pause[e].decision = d
        THEN AwaitFlight(r, e)
        ELSE Answered(r) /\ UNCHANGED about
  BY DEF ConfirmSettled
<1>3. e \in Request /\ about \in [Request -> Request]
  BY <1>1, Found DEF VoiceInv, TypeOK
<1>4. /\ \E s \in {"waiting", "answered"} : pc' = [pc EXCEPT ![r] = s]
      /\ about' = about \/ about' = [about EXCEPT ![r] = e]
  BY <1>2 DEF Answered, AwaitFlight
<1>5. PICK s \in {"waiting", "answered"} : pc' = [pc EXCEPT ![r] = s]
  BY <1>4
<1>6. /\ about' \in [Request -> Request]
      /\ \A q \in Request : q # r => about'[q] = about[q]
  BY <1>3, <1>4
<1>7. Arrives(r) /\ entries' = Pruned /\ UNCHANGED <<now, pause>> /\ listed' \subseteq listed
  BY DEF ConfirmSettled
<1> QED BY <1>1, <1>5, <1>6, <1>7, AnsweredKeeps

\* A confirm of a token that is not there, or with arguments that do not fit.
LEMMA ConfirmRefusedKeeps ==
  ASSUME VoiceInv, Room, NEW r \in Request, NEW t \in Token, NEW d \in Decision,
         ConfirmUnknown(r, t) \/ ConfirmInvalid(r, t, d)
  PROVE  VoiceInv'
<1>1. Kept
  BY PruneKeeps
<1>2. /\ Arrives(r) /\ entries' = Pruned /\ UNCHANGED <<now, pause>> /\ listed' = listed
      /\ pc' = [pc EXCEPT ![r] = "answered"] /\ about' = about
  BY DEF ConfirmUnknown, ConfirmInvalid, Answered
<1>3. about' \in [Request -> Request] /\ \A q \in Request : q # r => about'[q] = about[q]
  BY <1>2 DEF VoiceInv, TypeOK
<1> QED BY <1>1, <1>2, <1>3, AnsweredKeeps

-----------------------------------------------------------------------------
\* A new pause takes the place of one of its call that is out of its window.
LEMMA CallPausesKeeps ==
  ASSUME VoiceInv, Room, NEW r \in Request, NEW t \in Token, CallPauses(r, t)
  PROVE  VoiceInv'
<1>1. Kept
  BY PruneKeeps
<1>t. /\ pc[r] = "idle" /\ pc \in [Request -> {"idle", "running", "waiting", "answered"}]
      /\ pause \in [Request -> PauseRecord] /\ entries \subseteq Request
      /\ now \in 0 .. MaxTime /\ ResubmitWindow \in Int
  BY LimitsAssumption DEF VoiceInv, TypeOK, CallPauses, Arrives
<1>u. /\ now' = now /\ about' = about /\ listed' = listed \cup {t}
      /\ entries' = (Pruned \ At(t)) \cup {r}
      /\ pc' = [pc EXCEPT ![r] = "answered"]
      /\ \A e \in At(t) : ~Reusable(e)
      /\ Pruned \subseteq entries
  BY <1>1 DEF CallPauses, Answered, Kept
<1>2. PICK p : /\ pause' = [pause EXCEPT ![r] = p]
               /\ p = [token |-> t, state |-> "pending", createdAt |-> now,
                       settledAt |-> -1, startedAt |-> 0, decision |-> "none",
                       place |-> PlaceFor(t, r)]
  BY DEF CallPauses
<1>3. \A e \in Request : pause'[e] = IF e = r THEN p ELSE pause[e]
  BY <1>2, <1>t
<1>4. PlaceFor(t, r) \in 0 .. MaxRequests
  <2>1. CASE At(t) = {}
    BY <2>1, LimitsAssumption DEF PlaceFor, Request
  <2>2. CASE At(t) # {}
    <3>1. PICK e \in At(t) : e = CHOOSE f \in At(t) : TRUE
      BY <2>2
    <3>2. pause[e].place \in 0 .. MaxRequests
      BY <1>1, Found DEF PauseRecord
    <3> QED BY <3>1, <3>2, <2>2 DEF PlaceFor
  <2> QED BY <2>1, <2>2
<1>5. p \in PauseRecord /\ p.token = t /\ p.state = "pending" /\ p.createdAt = now
  BY <1>2, <1>4, <1>t, LimitsAssumption DEF PauseRecord, Decision
<1>6. pause[r].state = "unopened" /\ r \notin entries
  BY <1>t DEF VoiceInv, Unopened
<1>7. \A e \in At(t) : /\ e \in Pruned /\ pause[e].token = t
                       /\ ~Live(e)
                       /\ pause[e].state = "done" => now >= pause[e].settledAt + ResubmitWindow
  BY <1>u, <1>t DEF At, Reusable, PauseRecord
<1>8. \A e \in Pruned \ At(t) : pause[e].token # t
  BY DEF At
<1>9. \A b \in Request : pause[b].state = "done" =>
        b \in Pruned \ At(t) \/ now >= pause[b].settledAt + ResubmitWindow
  BY <1>1, <1>7 DEF Kept
<1>10. \A q \in Request : pc'[q] = "running" => pc[q] = "running" /\ q # r
  BY <1>t, <1>u
<1>11. TypeOK'
  <2>1. pause' \in [Request -> PauseRecord]
    BY <1>2, <1>5, <1>t
  <2>2. \A d, e \in entries' : pause'[d].token = pause'[e].token => d = e
    BY <1>3, <1>5, <1>8, <1>t, <1>u DEF VoiceInv, TypeOK
  <2> QED BY <2>1, <2>2, <1>t, <1>u DEF VoiceInv, TypeOK
<1>12. Unopened'
  BY <1>3, <1>5, <1>t, <1>u DEF VoiceInv, Unopened
<1>13. Runs'
  <2> SUFFICES ASSUME NEW q \in Request, pc[q] = "running"
               PROVE  /\ pause'[about[q]].state = "executing"
                      /\ about[q] \in entries'
                      /\ now <= pause'[about[q]].startedAt + HandlerTime
                      /\ pause'[about[q]].startedAt + HandlerTime
                           <= pause'[about[q]].createdAt + PendingTtl
    BY <1>10, <1>u DEF Runs
  <2>1. /\ pause[about[q]].state = "executing"
        /\ now <= pause[about[q]].startedAt + HandlerTime
        /\ pause[about[q]].startedAt + HandlerTime <= pause[about[q]].createdAt + PendingTtl
        /\ about[q] \in Pruned
    BY <1>1 DEF VoiceInv, Runs, Kept
  <2>2. about[q] \notin At(t) /\ about[q] # r /\ about[q] \in Request
    BY <2>1, <1>6, <1>7, <1>t, <1>u DEF Live
  <2> QED BY <2>1, <2>2, <1>3, <1>u
<1>14. OneOwner'
  BY <1>10, <1>u DEF VoiceInv, OneOwner
<1>15. DoneIsKept'
  BY <1>3, <1>5, <1>9, <1>u DEF VoiceInv, DoneIsKept
<1>16. LiveIsLater'
  <2> SUFFICES ASSUME NEW a \in entries', NEW b \in Request, a # b,
                      pause'[a].token = pause'[b].token, pause'[b].state = "done", Live(a)'
               PROVE  pause'[a].createdAt >= pause'[b].settledAt + ResubmitWindow
    BY DEF LiveIsLater
  <2>1. b # r /\ pause'[b] = pause[b] /\ pause[b].state = "done"
    BY <1>3, <1>5
  <2>2. CASE a = r
    <3>1. pause[b].token = t
      BY <2>1, <2>2, <1>3, <1>5
    <3>2. now >= pause[b].settledAt + ResubmitWindow
      BY <2>1, <3>1, <1>8, <1>9
    <3> QED BY <2>1, <2>2, <3>2, <1>3, <1>5
  <2>3. CASE a # r
    <3>1. a \in entries /\ pause'[a] = pause[a]
      BY <2>3, <1>3, <1>t, <1>u
    <3> QED BY <2>1, <3>1 DEF VoiceInv, LiveIsLater, Live
  <2> QED BY <2>2, <2>3
<1>17. NoRerunInsideWindow'
  BY <1>3, <1>5 DEF VoiceInv, NoRerunInsideWindow
<1> QED BY <1>11, <1>12, <1>13, <1>14, <1>15, <1>16, <1>17 DEF VoiceInv

\* A confirm that settles the pause it finds without running it.
LEMMA ConfirmCancelsKeeps ==
  ASSUME VoiceInv, Room, NEW r \in Request, NEW t \in Token, ConfirmCancels(r, t)
  PROVE  VoiceInv'
<1>1. Kept
  BY PruneKeeps
<1>2. PICK e \in At(t) :
        /\ pause[e].state = "pending"
        /\ pause' = [pause EXCEPT ![e].state = "cancelled", ![e].decision = "cancel",
                                  ![e].settledAt = now]
  BY DEF ConfirmCancels
<1>t. /\ pc[r] = "idle" /\ pc \in [Request -> {"idle", "running", "waiting", "answered"}]
      /\ pause \in [Request -> PauseRecord] /\ entries \subseteq Request
      /\ now \in 0 .. MaxTime /\ now \in -1 .. MaxTime
      /\ e \in Request /\ pause[e] \in PauseRecord
  BY <1>1, Found, LimitsAssumption DEF VoiceInv, TypeOK, ConfirmCancels, Arrives
<1>u. /\ now' = now /\ about' = about /\ listed' \subseteq listed
      /\ entries' = Pruned /\ Pruned \subseteq entries
      /\ pc' = [pc EXCEPT ![r] = "answered"]
  BY <1>1 DEF ConfirmCancels, Answered, Kept
<1>3. PICK p : p = [pause[e] EXCEPT !.state = "cancelled", !.decision = "cancel",
                                    !.settledAt = now]
  OBVIOUS
<1>4. /\ p \in PauseRecord /\ p.token = pause[e].token /\ p.state = "cancelled"
      /\ \A b \in Request : pause'[b] = IF b = e THEN p ELSE pause[b]
  BY <1>2, <1>3, <1>t DEF PauseRecord, Decision
<1>5. \A q \in Request : pc'[q] = "running" => pc[q] = "running" /\ about[q] # e
  BY <1>2, <1>t, <1>u DEF VoiceInv, Runs
<1>6. TypeOK'
  <2>1. pause' \in [Request -> PauseRecord]
    BY <1>2, <1>3, <1>4, <1>t
  <2>2. \A a, b \in entries' : pause'[a].token = pause'[b].token => a = b
    BY <1>4, <1>t, <1>u DEF VoiceInv, TypeOK
  <2> QED BY <2>1, <2>2, <1>t, <1>u DEF VoiceInv, TypeOK
<1>7. Unopened'
  BY <1>2, <1>4, <1>t, <1>u DEF VoiceInv, Unopened
<1>8. Runs'
  BY <1>1, <1>4, <1>5, <1>u DEF VoiceInv, TypeOK, Runs, Kept
<1>9. OneOwner'
  BY <1>5, <1>u DEF VoiceInv, OneOwner
<1>10. DoneIsKept' /\ NoRerunInsideWindow'
  BY <1>1, <1>4, <1>u DEF VoiceInv, DoneIsKept, NoRerunInsideWindow, Kept
<1>11. LiveIsLater'
  BY <1>4, <1>t, <1>u DEF VoiceInv, LiveIsLater, Live
<1> QED BY <1>6, <1>7, <1>8, <1>9, <1>10, <1>11 DEF VoiceInv

\* A confirm that runs the pause it finds: it is the Map's, and its only owner.
LEMMA ConfirmRunsKeeps ==
  ASSUME VoiceInv, Room, ~LateConfirms, NEW r \in Request, NEW t \in Token,
         NEW d \in Decision, ConfirmRuns(r, t, d)
  PROVE  VoiceInv'
<1>1. Kept
  BY PruneKeeps
<1>2. PICK e \in At(t) :
        /\ pause[e].state = "pending"
        /\ now + HandlerTime <= pause[e].createdAt + PendingTtl
        /\ pause' = [pause EXCEPT ![e].state = "executing", ![e].decision = d,
                                  ![e].startedAt = now]
        /\ about' = [about EXCEPT ![r] = e]
  BY DEF ConfirmRuns, MayRun
<1>t. /\ pc[r] = "idle" /\ pc \in [Request -> {"idle", "running", "waiting", "answered"}]
      /\ pause \in [Request -> PauseRecord] /\ entries \subseteq Request
      /\ about \in [Request -> Request]
      /\ now \in 0 .. MaxTime /\ HandlerTime \in Nat
      /\ e \in Request /\ e \in Pruned /\ e \in entries /\ pause[e] \in PauseRecord
  BY <1>1, Found, LimitsAssumption DEF VoiceInv, TypeOK, ConfirmRuns, Arrives
<1>u. /\ now' = now /\ listed' = listed
      /\ entries' = Pruned /\ Pruned \subseteq entries
      /\ pc' = [pc EXCEPT ![r] = "running"]
  BY <1>1 DEF ConfirmRuns, Kept
<1>3. PICK p : p = [pause[e] EXCEPT !.state = "executing", !.decision = d, !.startedAt = now]
  OBVIOUS
<1>4. /\ p \in PauseRecord /\ p.token = pause[e].token /\ p.state = "executing"
      /\ p.createdAt = pause[e].createdAt /\ p.startedAt = now
      /\ \A b \in Request : pause'[b] = IF b = e THEN p ELSE pause[b]
  BY <1>2, <1>3, <1>t DEF PauseRecord
<1>5. \A q \in Request : q # r /\ pc'[q] = "running" =>
        pc[q] = "running" /\ about'[q] = about[q] /\ about[q] # e
  BY <1>2, <1>t, <1>u DEF VoiceInv, Runs
<1>6. TypeOK'
  <2>1. pause' \in [Request -> PauseRecord]
    BY <1>2, <1>3, <1>4, <1>t
  <2>2. \A a, b \in entries' : pause'[a].token = pause'[b].token => a = b
    BY <1>4, <1>t, <1>u DEF VoiceInv, TypeOK
  <2>3. about' \in [Request -> Request]
    BY <1>2, <1>t
  <2> QED BY <2>1, <2>2, <2>3, <1>t, <1>u DEF VoiceInv, TypeOK
<1>7. Unopened'
  BY <1>2, <1>4, <1>t, <1>u DEF VoiceInv, Unopened
<1>8. Runs'
  <2> SUFFICES ASSUME NEW q \in Request, pc'[q] = "running"
               PROVE  /\ pause'[about'[q]].state = "executing"
                      /\ about'[q] \in entries'
                      /\ now <= pause'[about'[q]].startedAt + HandlerTime
                      /\ pause'[about'[q]].startedAt + HandlerTime
                           <= pause'[about'[q]].createdAt + PendingTtl
    BY <1>u DEF Runs
  <2>1. CASE q = r
    <3>1. about'[q] = e
      BY <2>1, <1>2, <1>t
    <3> QED BY <3>1, <1>2, <1>4, <1>t, <1>u
  <2>2. CASE q # r
    <3>1. pause'[about'[q]] = pause[about[q]] /\ about'[q] = about[q] /\ pc[q] = "running"
      BY <2>2, <1>4, <1>5, <1>t
    <3> QED BY <3>1, <1>1, <1>u DEF VoiceInv, Runs, Kept
  <2> QED BY <2>1, <2>2
<1>9. OneOwner'
  BY <1>2, <1>5, <1>t, <1>u DEF VoiceInv, OneOwner
<1>10. DoneIsKept' /\ NoRerunInsideWindow'
  BY <1>1, <1>4, <1>u DEF VoiceInv, DoneIsKept, NoRerunInsideWindow, Kept
<1>11. LiveIsLater'
  BY <1>2, <1>4, <1>t, <1>u DEF VoiceInv, LiveIsLater, Live
<1> QED BY <1>6, <1>7, <1>8, <1>9, <1>10, <1>11 DEF VoiceInv

-----------------------------------------------------------------------------
\* When a handler settles, its owner is answered and nobody else stops running.
LEMMA SettlesKeeps ==
  ASSUME VoiceInv, NEW r \in Request, pc[r] = "running", Settles(r)
  PROVE  /\ pc' \in [Request -> {"idle", "running", "waiting", "answered"}]
         /\ \A q \in Request : pc'[q] = "idle" => pc[q] = "idle"
         /\ \A q \in Request : pc'[q] = "running" => pc[q] = "running" /\ about[q] # about[r]
         /\ now' = now /\ entries' = entries /\ about' = about
<1>1. /\ pc \in [Request -> {"idle", "running", "waiting", "answered"}]
      /\ \A q \in Request : pc'[q] = IF q \in Served(r) THEN "answered" ELSE pc[q]
      /\ r \in Served(r)
  BY DEF VoiceInv, TypeOK, Settles, Served
<1>2. \A q \in Request : pc[q] = "running" /\ about[q] = about[r] => q = r
  BY DEF VoiceInv, OneOwner
<1> QED BY <1>1, <1>2 DEF Settles

LEMMA HandlerFailsKeeps ==
  ASSUME VoiceInv, NEW r \in Request, HandlerFails(r)
  PROVE  VoiceInv'
<1> DEFINE e == about[r]
<1>1. pc[r] = "running" /\ Settles(r) /\ listed' = listed
  BY DEF HandlerFails
<1>t. /\ pause \in [Request -> PauseRecord] /\ e \in Request /\ e \in entries
      /\ pause[e].state = "executing" /\ pause[e] \in PauseRecord
  BY <1>1 DEF VoiceInv, TypeOK, Runs
<1>3. PICK p : p = [pause[e] EXCEPT !.state = "pending", !.decision = "none"]
  OBVIOUS
<1>4. /\ p \in PauseRecord /\ p.token = pause[e].token /\ p.state = "pending"
      /\ p.createdAt = pause[e].createdAt
      /\ pause' = [pause EXCEPT ![e] = p]
      /\ \A b \in Request : pause'[b] = IF b = e THEN p ELSE pause[b]
  BY <1>3, <1>t DEF HandlerFails, PauseRecord
<1> HIDE DEF e
<1>5. /\ pc' \in [Request -> {"idle", "running", "waiting", "answered"}]
      /\ \A q \in Request : pc'[q] = "idle" => pc[q] = "idle"
      /\ \A q \in Request : pc'[q] = "running" => pc[q] = "running" /\ about[q] # e
      /\ now' = now /\ entries' = entries /\ about' = about
  BY <1>1, SettlesKeeps DEF e
<1>6. TypeOK'
  BY <1>1, <1>4, <1>5, <1>t DEF VoiceInv, TypeOK
<1>7. Unopened'
  BY <1>4, <1>5, <1>t DEF VoiceInv, Unopened
<1>8. Runs' /\ OneOwner'
  BY <1>4, <1>5 DEF VoiceInv, TypeOK, Runs, OneOwner
<1>9. DoneIsKept' /\ NoRerunInsideWindow'
  BY <1>4, <1>5 DEF VoiceInv, DoneIsKept, NoRerunInsideWindow
<1>10. LiveIsLater'
  BY <1>4, <1>5, <1>t DEF VoiceInv, TypeOK, LiveIsLater, Live
<1> QED BY <1>6, <1>7, <1>8, <1>9, <1>10 DEF VoiceInv

\* The pause that is done now is the Map's only one of its call.
LEMMA HandlerSucceedsKeeps ==
  ASSUME VoiceInv, NEW r \in Request, HandlerSucceeds(r)
  PROVE  VoiceInv'
<1> DEFINE e == about[r]
<1>1. pc[r] = "running" /\ Settles(r) /\ listed' \subseteq listed
  BY DEF HandlerSucceeds
<1>t. /\ pause \in [Request -> PauseRecord] /\ e \in Request /\ e \in entries
      /\ entries \subseteq Request
      /\ pause[e].state = "executing" /\ pause[e] \in PauseRecord
      /\ now \in 0 .. MaxTime /\ now \in -1 .. MaxTime
  BY <1>1, LimitsAssumption DEF VoiceInv, TypeOK, Runs
<1>3. PICK p : p = [pause[e] EXCEPT !.state = "done", !.settledAt = now]
  OBVIOUS
<1>4. /\ p \in PauseRecord /\ p.token = pause[e].token /\ p.state = "done"
      /\ p.createdAt = pause[e].createdAt /\ p.settledAt = now
      /\ pause' = [pause EXCEPT ![e] = p]
      /\ \A b \in Request : pause'[b] = IF b = e THEN p ELSE pause[b]
  BY <1>3, <1>t DEF HandlerSucceeds, PauseRecord
<1> HIDE DEF e
<1>5. /\ pc' \in [Request -> {"idle", "running", "waiting", "answered"}]
      /\ \A q \in Request : pc'[q] = "idle" => pc[q] = "idle"
      /\ \A q \in Request : pc'[q] = "running" => pc[q] = "running" /\ about[q] # e
      /\ now' = now /\ entries' = entries /\ about' = about
  BY <1>1, SettlesKeeps DEF e
<1>6. TypeOK'
  BY <1>1, <1>4, <1>5, <1>t DEF VoiceInv, TypeOK
<1>7. Unopened'
  BY <1>4, <1>5, <1>t DEF VoiceInv, Unopened
<1>8. Runs' /\ OneOwner'
  BY <1>4, <1>5 DEF VoiceInv, TypeOK, Runs, OneOwner
<1>9. DoneIsKept'
  BY <1>4, <1>5, <1>t DEF VoiceInv, DoneIsKept
<1>10. \A a \in entries : pause[a].token = pause[e].token => a = e
  BY <1>t DEF VoiceInv, TypeOK
<1>11. LiveIsLater'
  BY <1>4, <1>5, <1>10, <1>t DEF VoiceInv, LiveIsLater, Live
<1>12. \A b \in Request : b # e /\ pause[b].token = pause[e].token /\ pause[b].state = "done"
         => pause[e].createdAt >= pause[b].settledAt + ResubmitWindow
  BY <1>t DEF VoiceInv, LiveIsLater, Live
<1>13. NoRerunInsideWindow'
  BY <1>4, <1>5, <1>12 DEF VoiceInv, NoRerunInsideWindow
<1> QED BY <1>6, <1>7, <1>8, <1>9, <1>11, <1>13 DEF VoiceInv

-----------------------------------------------------------------------------
LEMMA VoiceInitial == Init => VoiceInv
<1> SUFFICES ASSUME Init PROVE VoiceInv
  OBVIOUS
<1>1. \A r \in Request : pause[r] = Nothing /\ pc[r] = "idle" /\ about[r] = r
  BY DEF Init
<1>2. Nothing \in PauseRecord /\ Nothing.state = "unopened" /\ 0 \in 0 .. MaxTime
  BY LimitsAssumption DEF Nothing, PauseRecord
<1>3. TypeOK
  BY <1>1, <1>2 DEF Init, TypeOK
<1> QED BY <1>1, <1>2, <1>3 DEF Init, VoiceInv, Unopened, Runs, OneOwner, DoneIsKept,
                                LiveIsLater, NoRerunInsideWindow

LEMMA VoiceStep == ASSUME ~LateConfirms PROVE VoiceInv /\ Room /\ [Next]_vars => VoiceInv'
<1> SUFFICES ASSUME VoiceInv, Room, [Next]_vars PROVE VoiceInv'
  OBVIOUS
<1>1. CASE UNCHANGED vars
  BY <1>1 DEF vars, VoiceInv, TypeOK, Unopened, Runs, OneOwner, DoneIsKept, LiveIsLater,
              NoRerunInsideWindow, Live
<1>2. CASE Tick
  BY <1>2, TickKeeps
<1>3. ASSUME NEW r \in Request, HandlerSucceeds(r) \/ HandlerFails(r) PROVE VoiceInv'
  BY <1>3, HandlerSucceedsKeeps, HandlerFailsKeeps
<1>4. ASSUME NEW r \in Request, NEW t \in Token, CallAgain(r, t) \/ CallPauses(r, t)
      PROVE  VoiceInv'
  BY <1>4, CallAgainKeeps, CallPausesKeeps
<1>5. ASSUME NEW r \in Request, NEW t \in Token, ConfirmUnknown(r, t) \/ ConfirmCancels(r, t)
      PROVE  VoiceInv'
  <2>1. "cancel" \in Decision
    BY DEF Decision
  <2> QED BY <1>5, <2>1, ConfirmRefusedKeeps, ConfirmCancelsKeeps
<1>6. ASSUME NEW r \in Request, NEW t \in Token, NEW d \in Decision,
             ConfirmSettled(r, t, d) \/ ConfirmInvalid(r, t, d) \/ ConfirmRuns(r, t, d)
      PROVE  VoiceInv'
  BY <1>6, ConfirmSettledKeeps, ConfirmRefusedKeeps, ConfirmRunsKeeps
<1> QED BY <1>1, <1>2, <1>3, <1>4, <1>5, <1>6, Zenon DEF Next

LEMMA VoiceInvariant == ASSUME ~LateConfirms PROVE Spec /\ []Room => []VoiceInv
<1>1. VoiceInv /\ Room /\ [Next]_vars => VoiceInv'
  BY VoiceStep
<1> QED BY <1>1, VoiceInitial, PTL DEF Spec

(* The hypothesis holds of a run whose flagged calls fit the Map: each call  *)
(* has one entry (open, voice-guard.ts:293-304).                           *)
THEOREM FewCallsLeaveRoom ==
  ASSUME ~LateConfirms, IsFiniteSet(Token), Cardinality(Token) <= MaxEntries
  PROVE  Spec => []Room
<1>1. VoiceInv => Room
  <2> SUFFICES ASSUME VoiceInv PROVE Room
    OBVIOUS
  <2> DEFINE f == [e \in Fresh |-> pause[e].token]
  <2>1. f \in Injection(Fresh, Token)
    BY DEF Injection, IsInjective, VoiceInv, TypeOK, Unopened, Fresh
  <2>2. Cardinality(Fresh) <= Cardinality(Token) /\ IsFiniteSet(Fresh)
    BY <2>1, FS_Injection
  <2>3. Cardinality(Fresh) \in Nat /\ Cardinality(Token) \in Nat
    BY <2>2, FS_CardinalityType
  <2> QED BY <2>2, <2>3, LimitsAssumption DEF Room
<1>2. VoiceInv /\ [Next]_vars => VoiceInv'
  BY <1>1, VoiceStep
<1> QED BY <1>1, <1>2, VoiceInitial, PTL DEF Spec

(* While every handler ends before its pause expires and the Map is not    *)
(* over its cap, no two executions of one call are ever under way          *)
(* together, whatever confirms, retries and calls sent again arrive        *)
(* (confirm, voice-guard.ts:401-489).                                      *)
THEOREM ConfirmedCallsRunAlone ==
  ASSUME ~LateConfirms
  PROVE  Spec /\ []Room => []OneExecutionAtATime
<1>1. VoiceInv => OneExecutionAtATime
  BY DEF VoiceInv, TypeOK, Runs, OneOwner, OneExecutionAtATime, Running
<1> QED BY <1>1, VoiceInvariant, PTL

(* Under the same hypotheses a call that ran runs again only if it was     *)
(* paused anew after the resubmit window (open, voice-guard.ts:293-313):   *)
(* prune keeps what is done longer than the window lasts.                  *)
THEOREM RetriesAreNotNewWork ==
  ASSUME ~LateConfirms
  PROVE  Spec /\ []Room => []NoRerunInsideWindow
<1>1. VoiceInv => NoRerunInsideWindow
  BY DEF VoiceInv
<1> QED BY <1>1, VoiceInvariant, PTL

-----------------------------------------------------------------------------
(* Sorting, and induction.                                                 *)

\* A strict order on a set, in which any two elements are one before the other.
Orders(S, order) ==
  /\ \A x \in S : <<x, x>> \notin order
  /\ \A x, y, z \in S : <<x, y>> \in order /\ <<y, z>> \in order => <<x, z>> \in order
  /\ \A x, y \in S : x # y => <<x, y>> \in order \/ <<y, x>> \in order

\* A set is sorted into a sequence that has each of its elements, once, in order.
LEMMA SortedHas ==
  ASSUME NEW S, IsFiniteSet(S), NEW order, Orders(S, order)
  PROVE  /\ Cardinality(S) \in Nat
         /\ SortedBy(S, order) \in [1 .. Cardinality(S) -> S]
         /\ \A i, j \in 1 .. Cardinality(S) :
              i < j => <<SortedBy(S, order)[i], SortedBy(S, order)[j]>> \in order
         /\ \A x \in S : \E k \in 1 .. Cardinality(S) : SortedBy(S, order)[k] = x
  <1> DEFINE n == Cardinality(S)
             Below(x) == {y \in S : <<y, x>> \in order}
             rank == [x \in S |-> Cardinality(Below(x))]
             s == SortedBy(S, order)
  <1>1. n \in Nat BY FS_CardinalityType
  <1>2. ASSUME NEW x \in S PROVE IsFiniteSet(Below(x)) /\ Cardinality(Below(x)) \in Nat /\ Cardinality(Below(x)) < n
    <2>1. Below(x) \in SUBSET S OBVIOUS
    <2>2. Below(x) # S BY DEF Orders
    <2>3. IsFiniteSet(Below(x)) /\ Cardinality(Below(x)) <= n /\ (n = Cardinality(Below(x)) => S = Below(x))
      <3> HIDE DEF Below
      <3> QED BY <2>1, FS_Subset
    <2>4. Cardinality(Below(x)) \in Nat BY <2>3, FS_CardinalityType
    <2> QED BY <1>1, <2>2, <2>3, <2>4
  <1>3. ASSUME NEW x \in S, NEW y \in S, <<x, y>> \in order PROVE rank[x] < rank[y]
    <2>1. Below(x) \in SUBSET Below(y) BY <1>3 DEF Orders
    <2>2. x \in Below(y) /\ x \notin Below(x) BY <1>3 DEF Orders
    <2>3. Cardinality(Below(x)) <= Cardinality(Below(y))
          /\ (Cardinality(Below(y)) = Cardinality(Below(x)) => Below(y) = Below(x))
      <3>1. IsFiniteSet(Below(y)) BY <1>2
      <3> HIDE DEF Below
      <3> QED BY <2>1, <3>1, FS_Subset
    <2>4. Cardinality(Below(x)) \in Nat /\ Cardinality(Below(y)) \in Nat BY <1>2
    <2>5. Below(x) # Below(y) BY <2>2
    <2>6. rank[x] = Cardinality(Below(x)) /\ rank[y] = Cardinality(Below(y)) OBVIOUS
    <2> HIDE DEF Below, rank
    <2> QED BY <2>3, <2>4, <2>5, <2>6
  <1>4. rank \in Injection(S, 0 .. n - 1)
    <2>1. rank \in [S -> 0 .. n - 1]
      <3>1. \A x \in S : Cardinality(Below(x)) \in 0 .. n - 1 BY <1>1, <1>2
      <3> QED BY <3>1
    <2>2. \A x \in S : rank[x] \in Nat BY <1>2
    <2>3. ASSUME NEW x \in S, NEW y \in S, rank[x] = rank[y] PROVE x = y
      <3> HIDE DEF rank
      <3>1. CASE <<x, y>> \in order
        <4>1. rank[x] < rank[y] BY <1>3, <3>1
        <4> QED BY <2>2, <2>3, <4>1
      <3>2. CASE <<y, x>> \in order
        <4>1. rank[y] < rank[x] BY <1>3, <3>2
        <4> QED BY <2>2, <2>3, <4>1
      <3> QED BY <3>1, <3>2 DEF Orders
    <2> HIDE DEF rank
    <2> QED BY <2>1, <2>3 DEF Injection, IsInjective
  <1>5. rank \in Surjection(S, 0 .. n - 1)
    <2>1. IsFiniteSet(0 .. n - 1) /\ Cardinality(0 .. n - 1) = n BY <1>1, FS_Interval
    <2> HIDE DEF rank
    <2> QED BY <1>4, <2>1, FS_Injection
  <1>6. \A r \in 0 .. n - 1 : \E x \in S : rank[x] = r
    <2> HIDE DEF rank
    <2> QED BY <1>5 DEF Surjection
  <1>7. ASSUME NEW k \in 1 .. n PROVE s[k] \in S /\ rank[s[k]] = k - 1
    <2>1. s[k] = CHOOSE x \in S : Cardinality(Below(x)) = k - 1 BY DEF SortedBy
    <2>2. k - 1 \in 0 .. n - 1 BY <1>1
    <2>3. \E x \in S : Cardinality(Below(x)) = k - 1 BY <1>6, <2>2
    <2>4. s[k] \in S /\ Cardinality(Below(s[k])) = k - 1
      <3> HIDE DEF s, Below
      <3> QED BY <2>1, <2>3
    <2> QED BY <2>4
  <1>8. s \in [1 .. n -> S]
    <2> DEFINE place(k) == CHOOSE x \in S : Cardinality(Below(x)) = k - 1
    <2>1. s = [k \in 1 .. n |-> place(k)] BY DEF SortedBy
    <2> HIDE DEF s, place
    <2>2. \A k \in 1 .. n : place(k) \in S BY <1>7, <2>1
    <2> QED BY <2>1, <2>2
  <1>9. ASSUME NEW i \in 1 .. n, NEW j \in 1 .. n, i < j PROVE <<s[i], s[j]>> \in order
    <2> HIDE DEF s, rank
    <2>1. s[i] \in S /\ s[j] \in S /\ rank[s[i]] = i - 1 /\ rank[s[j]] = j - 1 BY <1>7
    <2>2. s[i] # s[j] BY <1>1, <1>9, <2>1
    <2>3. <<s[j], s[i]>> \notin order
      <3> SUFFICES ASSUME <<s[j], s[i]>> \in order PROVE FALSE OBVIOUS
      <3>1. rank[s[j]] < rank[s[i]] BY <1>3, <2>1
      <3> QED BY <1>1, <1>9, <2>1, <3>1
    <2> QED BY <2>1, <2>2, <2>3 DEF Orders
  <1>10. ASSUME NEW x \in S PROVE \E k \in 1 .. n : s[k] = x
    <2>1. rank[x] \in 0 .. n - 1 BY <1>1, <1>2
    <2> HIDE DEF s, rank
    <2>2. rank[x] + 1 \in 1 .. n BY <1>1, <2>1
    <2>3. s[rank[x] + 1] \in S /\ rank[s[rank[x] + 1]] = rank[x] BY <1>1, <1>7, <2>1, <2>2
    <2>4. s[rank[x] + 1] = x BY <1>4, <2>3 DEF Injection, IsInjective
    <2> QED BY <2>2, <2>4
  <1> QED BY <1>1, <1>8, <1>9, <1>10

\* Places of a sequence are finitely many numbers.
LEMMA PlacesFinite ==
  ASSUME NEW n \in Nat, NEW places, places \subseteq 1 .. n
  PROVE  IsFiniteSet(places) /\ places \subseteq Int
  <1> DEFINE all == 1 .. n
  <1>1. IsFiniteSet(all) BY FS_Interval
  <1>2. places \in SUBSET all /\ all \subseteq Int OBVIOUS
  <1> HIDE DEF all
  <1> QED BY <1>1, <1>2, FS_Subset

\* What is picked from a sequence is a sequence of the same things.
LEMMA PickedSeq ==
  ASSUME NEW T, NEW s \in Seq(T), NEW places, places \subseteq 1 .. Len(s)
  PROVE  PickedAt(s, places) \in Seq(T)
  <1> DEFINE n == Cardinality(places)
             a == Ascending(places)
             order == {p \in places \X places : p[1] < p[2]}
  <1>1. Len(s) \in Nat /\ \A i \in places : s[i] \in T OBVIOUS
  <1>2. IsFiniteSet(places) /\ places \subseteq Int BY <1>1, PlacesFinite
  <1>3. Orders(places, order) BY <1>2 DEF Orders
  <1>4. a = SortedBy(places, order) BY DEF Ascending
  <1> HIDE DEF order, a
  <1>5. n \in Nat /\ a \in [1 .. n -> places] BY <1>2, <1>3, <1>4, SortedHas
  <1>6. PickedAt(s, places) = [k \in 1 .. n |-> s[a[k]]] BY DEF PickedAt, a
  <1> HIDE DEF n
  <1>7. \A k \in 1 .. n : s[a[k]] \in T BY <1>1, <1>5
  <1> QED BY <1>5, <1>6, <1>7

\* Every set of naturals that is not empty has a least element.
LEMMA LeastOf ==
  ASSUME NEW T, T \subseteq Nat, T # {} PROVE \E m \in T : \A n \in T : m <= n
  <1> DEFINE R == StrictSubsetOrdering(Nat)
             U == {0 .. n : n \in T}
  <1>1. IsWellFoundedOn(R, FiniteSubsetsOf(Nat)) BY FS_StrictSubsetOrderingWellFounded
  <1>2. U \subseteq FiniteSubsetsOf(Nat)
    <2>1. \A n \in Nat : IsFiniteSet(0 .. n) BY FS_Interval
    <2> QED BY <2>1 DEF FiniteSubsetsOf
  <1>3. U # {} OBVIOUS
  <1> HIDE DEF R
  <1>4. PICK x \in U : \A y \in U : ~ (<<y, x>> \in R) BY <1>1, <1>2, <1>3, WFMin
  <1>5. PICK m \in T : x = 0 .. m BY <1>4
  <1>6. ASSUME NEW n \in T, ~(m <= n) PROVE FALSE
    <2>1. <<0 .. n, x>> \in R
      <3>1. (0 .. n) \in SUBSET Nat /\ (0 .. m) \in SUBSET Nat BY <1>6
      <3>2. (0 .. n) \subseteq (0 .. m) /\ (0 .. n) # (0 .. m)
        <4>1. m \in 0 .. m /\ m \notin 0 .. n BY <1>6
        <4>2. \A k \in 0 .. n : k \in 0 .. m BY <1>6
        <4> QED BY <4>1, <4>2
      <3> QED BY <1>5, <3>1, <3>2 DEF R, StrictSubsetOrdering
    <2> QED BY <1>4, <1>6, <2>1
  <1> QED BY <1>6

\* Induction, over a set.
LEMMA Inductively ==
  ASSUME NEW S, 0 \in S, \A n \in Nat : n \in S => n + 1 \in S PROVE \A n \in Nat : n \in S
  <1> SUFFICES ASSUME NEW k \in Nat, k \notin S PROVE FALSE OBVIOUS
  <1>1. PICK m \in Nat \ S : \A n \in Nat \ S : m <= n BY LeastOf
  <1>2. m - 1 \in Nat /\ m - 1 \in S /\ m = (m - 1) + 1 BY <1>1
  <1> QED BY <1>1, <1>2

---------------------------------------------------------------------------
(* SpeechSlips: what is searched, found and replaced in a text.             *)

\* Values that follow from those before them.
StepsIn(V, n) == [(1 .. n) \X V -> V]
Follows(f, a, n, step) == f[0] = a /\ \A k \in 1 .. n : f[k] = step[<<k, f[k - 1]>>]

\* A recursive function: it has values as far as each follows from the one before.
LEMMA Recursion ==
  ASSUME NEW V, NEW a \in V, NEW n \in Nat, NEW step \in StepsIn(V, n)
  PROVE  \E f \in [0 .. n -> V] : Follows(f, a, n, step)
  <1> DEFINE S == {m \in Nat : m <= n => \E f \in [0 .. m -> V] : Follows(f, a, m, step)}
  <1>1. 0 \in S
    <2> DEFINE f == [k \in 0 .. 0 |-> a]
    <2>1. f \in [0 .. 0 -> V] /\ f[0] = a OBVIOUS
    <2> HIDE DEF f
    <2>2. \A k \in 1 .. 0 : FALSE OBVIOUS
    <2>3. Follows(f, a, 0, step) BY <2>1, <2>2 DEF Follows
    <2> QED BY <2>1, <2>3
  <1>2. ASSUME NEW m \in Nat, m \in S PROVE m + 1 \in S
    <2> SUFFICES ASSUME m + 1 <= n PROVE \E f \in [0 .. m + 1 -> V] : Follows(f, a, m + 1, step) OBVIOUS
    <2>1. PICK f \in [0 .. m -> V] : Follows(f, a, m, step) BY <1>2
    <2> DEFINE h == [k \in 0 .. m + 1 |-> IF k = m + 1 THEN step[<<m + 1, f[m]>>] ELSE f[k]]
    <2>2. m \in 0 .. m /\ m + 1 \in 1 .. n OBVIOUS
    <2>3. f[m] \in V BY <2>1, <2>2
    <2>4. step[<<m + 1, f[m]>>] \in V BY <2>2, <2>3 DEF StepsIn
    <2>5. \A k \in 0 .. m + 1 : k # m + 1 => k \in 0 .. m OBVIOUS
    <2>6. h \in [0 .. m + 1 -> V] BY <2>1, <2>4, <2>5
    <2>7. \A k \in 0 .. m : h[k] = f[k]
      <3>1. \A k \in 0 .. m : k \in 0 .. m + 1 /\ k # m + 1 OBVIOUS
      <3> QED BY <3>1
    <2>8. h[m + 1] = step[<<m + 1, f[m]>>]
      <3>1. m + 1 \in 0 .. m + 1 OBVIOUS
      <3> QED BY <3>1
    <2> HIDE DEF h
    <2>9. h[0] = a
      <3>1. 0 \in 0 .. m OBVIOUS
      <3> QED BY <2>1, <2>7, <3>1 DEF Follows
    <2>10. ASSUME NEW k \in 1 .. m + 1 PROVE h[k] = step[<<k, h[k - 1]>>]
      <3>1. k - 1 \in 0 .. m BY <2>10
      <3>2. h[k - 1] = f[k - 1] BY <2>7, <3>1
      <3>3. CASE k = m + 1
        <4>1. k - 1 = m BY <3>3
        <4> QED BY <2>8, <3>2, <3>3, <4>1
      <3>4. CASE k # m + 1
        <4>1. k \in 1 .. m /\ k \in 0 .. m BY <2>10, <3>4
        <4> QED BY <2>1, <2>7, <3>2, <4>1 DEF Follows
      <3> QED BY <3>3, <3>4
    <2>11. Follows(h, a, m + 1, step) BY <2>9, <2>10 DEF Follows
    <2> QED BY <2>6, <2>11
  <1> HIDE DEF S
  <1>3. n \in S BY <1>1, <1>2, Inductively
  <1> QED BY <1>3 DEF S

Texts == Seq(Letter)

\* The letters the code names are three.
LEMMA LettersAre ==
  /\ Space \in Letter /\ Filler \in Letter /\ "s" \in Letter
  /\ Space # Filler /\ "s" # Space /\ "s" # Filler
  <1>1. Space \in Letter /\ Filler \in Letter /\ "s" \in Letter BY SpeechAssumption
  <1>2. Space # Filler BY DEF Space, Filler
  <1>3. "s" # Space BY DEF Space
  <1>4. "s" # Filler BY DEF Filler
  <1> QED BY <1>1, <1>2, <1>3, <1>4

\* A text has a letter at each of its places.
LEMMA PlacesOf == ASSUME NEW t \in Texts PROVE Len(t) \in Nat /\ DOMAIN t = 1 .. Len(t) /\ \A i \in 1 .. Len(t) : t[i] \in Letter
  BY DEF Texts

\* What is heard at a place has a length, or none.
LEMMA HeardIs == ASSUME NEW t, NEW w \in Texts, NEW plural, NEW i PROVE HeardAt(t, w, plural, i) \in Nat
  BY DEF HeardAt, Texts

\* A search goes on behind the match it is in, or where it was.
LEMMA SearchGoes ==
  ASSUME NEW t \in Texts, NEW w \in Texts, NEW plural
  PROVE  LET from == GoesOn(t, w, plural)
         IN  /\ from[0] = 1 /\ from \in [0 .. Len(t) -> Nat]
             /\ \A i \in 1 .. Len(t) :
                  from[i] = IF from[i - 1] <= i /\ HeardAt(t, w, plural, i) > 0
                            THEN i + HeardAt(t, w, plural, i) ELSE from[i - 1]
  <1> DEFINE n == Len(t)
             N(i) == HeardAt(t, w, plural, i)
             Body(g, i) == IF i = 0 THEN 1
                           ELSE LET before == g[i - 1]
                                    heard == N(i)
                                IN  IF before <= i /\ heard > 0 THEN i + heard ELSE before
             step == [x \in (1 .. n) \X Nat |-> IF x[2] <= x[1] /\ N(x[1]) > 0 THEN x[1] + N(x[1]) ELSE x[2]]
             from == GoesOn(t, w, plural)
  <1>1. n \in Nat BY DEF Texts
  <1>2. \A i : N(i) \in Nat BY HeardIs
  <1>3. from = CHOOSE g : g = [i \in 0 .. n |-> Body(g, i)] BY DEF GoesOn
  <1> HIDE DEF N, from, n
  <1>4. step \in [(1 .. n) \X Nat -> Nat] BY <1>1, <1>2
  <1>5. \A k \in 1 .. n, v \in Nat : step[<<k, v>>] = IF v <= k /\ N(k) > 0 THEN k + N(k) ELSE v OBVIOUS
  <1> HIDE DEF step
  <1>6. PICK f \in [0 .. n -> Nat] : f[0] = 1 /\ \A k \in 1 .. n : f[k] = step[<<k, f[k - 1]>>]
    <2> DEFINE V == Nat
               a == 1
    <2>1. a \in V OBVIOUS
    <2>2. step \in StepsIn(V, n) BY <1>4 DEF StepsIn
    <2> HIDE DEF V, a
    <2>3. \E f \in [0 .. n -> V] : Follows(f, a, n, step) BY <1>1, <2>1, <2>2, Recursion
    <2> QED BY <2>3 DEF V, a, Follows
  <1>7. \A i \in 0 .. n : f[i] = Body(f, i)
    <2> TAKE i \in 0 .. n
    <2>1. CASE i = 0 BY <1>6, <2>1
    <2>2. CASE i # 0
      <3>1. i \in 1 .. n /\ i - 1 \in 0 .. n BY <1>1, <2>2
      <3> QED BY <1>5, <1>6, <2>2, <3>1
    <2> QED BY <2>1, <2>2
  <1>8. f = [i \in 0 .. n |-> Body(f, i)]
    <2>1. f = [i \in 0 .. n |-> f[i]] BY <1>6
    <2> QED BY <1>7, <2>1
  <1> HIDE DEF Body
  <1>9. from = [i \in 0 .. n |-> Body(from, i)] BY <1>3, <1>8
  <1>10. \A i \in 0 .. n : from[i] = Body(from, i) BY <1>9
  <1>11. from[0] = 1
    <2>1. 0 \in 0 .. n BY <1>1
    <2> QED BY <1>10, <2>1 DEF Body
  <1>12. \A i \in 1 .. n : from[i] = IF from[i - 1] <= i /\ N(i) > 0 THEN i + N(i) ELSE from[i - 1]
    <2>1. \A i \in 1 .. n : i \in 0 .. n /\ i # 0 BY <1>1
    <2> QED BY <1>10, <2>1 DEF Body
  <1> DEFINE S == {i \in Nat : i <= n => from[i] \in Nat}
  <1>13. 0 \in S BY <1>11
  <1>14. ASSUME NEW i \in Nat, i \in S PROVE i + 1 \in S
    <2> SUFFICES ASSUME i + 1 <= n PROVE from[i + 1] \in Nat OBVIOUS
    <2>1. i + 1 \in 1 .. n /\ i + 1 - 1 = i /\ from[i] \in Nat BY <1>1, <1>14
    <2>2. N(i + 1) \in Nat BY <1>2
    <2> QED BY <1>12, <2>1, <2>2
  <1> HIDE DEF S
  <1>15. \A i \in Nat : i \in S BY <1>13, <1>14, Inductively
  <1>16. \A i \in 0 .. n : from[i] \in Nat BY <1>1, <1>15 DEF S
  <1>17. from \in [0 .. n -> Nat] BY <1>9, <1>16
  <1> QED BY <1>11, <1>12, <1>17 DEF from, n, N

\* Where no two of the words overlap, the search finds them all.
LEMMA SearchFinds ==
  ASSUME NEW t \in Texts, NEW w \in Texts, NEW plural,
         \A i, j \in 1 .. Len(t) :
           i < j /\ HeardAt(t, w, plural, i) > 0 /\ HeardAt(t, w, plural, j) > 0
             => i + HeardAt(t, w, plural, i) <= j
  PROVE  Matches(t, w, plural) =
           {<<i, HeardAt(t, w, plural, i)>> : i \in {j \in 1 .. Len(t) : HeardAt(t, w, plural, j) > 0}}
  <1> DEFINE n == Len(t)
             N(i) == HeardAt(t, w, plural, i)
             from == GoesOn(t, w, plural)
             S == {i \in Nat : i <= n => from[i] <= i + 1 \/ \E j \in 1 .. i : N(j) > 0 /\ from[i] = j + N(j)}
  <1>1. n \in Nat /\ DOMAIN t = 1 .. n BY PlacesOf
  <1>2. \A i : N(i) \in Nat BY HeardIs
  <1>3. /\ from[0] = 1
        /\ \A i \in 1 .. n : from[i] = IF from[i - 1] <= i /\ N(i) > 0 THEN i + N(i) ELSE from[i - 1]
        /\ \A i \in 0 .. n : from[i] \in Nat
    BY SearchGoes
  <1>4. \A i, j \in 1 .. n : i < j /\ N(i) > 0 /\ N(j) > 0 => i + N(i) <= j OBVIOUS
  <1>5. Matches(t, w, plural) = {<<i, N(i)>> : i \in {j \in DOMAIN t : from[j - 1] <= j /\ N(j) > 0}} BY DEF Matches
  <1> HIDE DEF N, from, n
  <1>6. 0 \in S BY <1>3
  <1>7. ASSUME NEW i \in Nat, i \in S PROVE i + 1 \in S
    <2> SUFFICES ASSUME i + 1 <= n
                 PROVE from[i + 1] <= i + 2 \/ \E j \in 1 .. i + 1 : N(j) > 0 /\ from[i + 1] = j + N(j)
      OBVIOUS
    <2>1. i + 1 \in 1 .. n /\ i + 1 - 1 = i /\ i \in 0 .. n /\ from[i] \in Nat BY <1>1, <1>3
    <2>2. CASE from[i] <= i + 1 /\ N(i + 1) > 0
      <3>1. from[i + 1] = i + 1 + N(i + 1) BY <1>3, <2>1, <2>2
      <3>2. i + 1 \in 1 .. i + 1 OBVIOUS
      <3> QED BY <2>2, <3>1, <3>2
    <2>3. CASE ~(from[i] <= i + 1 /\ N(i + 1) > 0)
      <3>1. from[i + 1] = from[i] BY <1>3, <2>1, <2>3
      <3>2. CASE from[i] <= i + 1 BY <2>1, <3>1, <3>2
      <3>3. CASE \E j \in 1 .. i : N(j) > 0 /\ from[i] = j + N(j)
        <4>1. \A j \in 1 .. i : j \in 1 .. i + 1 OBVIOUS
        <4> QED BY <3>1, <3>3, <4>1
      <3> QED BY <1>1, <1>7, <3>2, <3>3
    <2> QED BY <2>2, <2>3
  <1> HIDE DEF S
  <1>8. \A i \in Nat : i \in S BY <1>6, <1>7, Inductively
  <1>9. ASSUME NEW i \in 1 .. n, N(i) > 0 PROVE from[i - 1] <= i
    <2>1. i - 1 \in Nat /\ i - 1 <= n /\ i - 1 \in 0 .. n BY <1>1
    <2>2. from[i - 1] <= i - 1 + 1 \/ \E j \in 1 .. i - 1 : N(j) > 0 /\ from[i - 1] = j + N(j)
      BY <1>8, <2>1 DEF S
    <2>3. ASSUME NEW j \in 1 .. i - 1, N(j) > 0, from[i - 1] = j + N(j) PROVE from[i - 1] <= i
      <3>1. j \in 1 .. n /\ j < i BY <1>1, <2>1
      <3> QED BY <1>4, <1>9, <2>3, <3>1
    <2>4. from[i - 1] \in Nat BY <1>3, <2>1
    <2> QED BY <2>2, <2>3, <2>4
  <1>10. {j \in DOMAIN t : from[j - 1] <= j /\ N(j) > 0} = {j \in 1 .. n : N(j) > 0} BY <1>1, <1>9
  <1> QED BY <1>5, <1>10 DEF n, N
---------------------------------------------------------------------------
\* Places that are masked whole word by whole word; and the words w at i, as
\* they were before any masking.
ByWords(t, K) ==
  /\ K \subseteq 1 .. Len(t)
  /\ \A k \in K : /\ k = 1 \/ k - 1 \in K \/ t[k - 1] = Space
                  /\ k = Len(t) \/ k + 1 \in K \/ t[k + 1] = Space

Spot(t, w, i) ==
  /\ i \in 1 .. Len(t) /\ i + Len(w) - 1 <= Len(t)
  /\ \A j \in 1 .. Len(w) : t[i + j - 1] = w[j]
  /\ i = 1 \/ t[i - 1] = Space
  /\ i + Len(w) = Len(t) + 1 \/ t[i + Len(w)] = Space

Plain(t) == t \in Texts /\ Filler \notin ToSet(t)

\* A plain text has no masked letter.
LEMMA PlainIs == ASSUME NEW t, Plain(t)
  PROVE t \in Texts /\ Len(t) \in Nat /\ DOMAIN t = 1 .. Len(t) /\ \A i \in 1 .. Len(t) : t[i] # Filler /\ t[i] \in Letter
  <1>1. t \in Texts BY DEF Plain
  <1>2. Len(t) \in Nat /\ DOMAIN t = 1 .. Len(t) /\ \A i \in 1 .. Len(t) : t[i] \in Letter BY <1>1, PlacesOf
  <1>3. ToSet(t) = {t[i] : i \in DOMAIN t} BY DEF ToSet
  <1> QED BY <1>1, <1>2, <1>3 DEF Plain

\* A phrase is not empty, and neither begins nor ends with a space.
LEMMA PhraseIs == ASSUME NEW w \in Phrase
  PROVE w \in Texts /\ Len(w) \in Nat /\ Len(w) >= 1 /\ w[1] # Space /\ w[Len(w)] # Space
  BY DEF Phrase, Texts, Last

\* The plural of a plain phrase is one.
LEMMA PluralIs == ASSUME NEW w \in Phrase, Plain(w)
  PROVE  Append(w, "s") \in Phrase /\ Plain(Append(w, "s")) /\ Len(Append(w, "s")) = Len(w) + 1
  <1> DEFINE v == Append(w, "s")
  <1>1. w \in Seq(Letter) /\ Len(w) \in Nat /\ Len(w) >= 1 /\ w[1] # Space BY PhraseIs DEF Texts
  <1>2. "s" \in Letter /\ "s" # Space BY LettersAre
  <1>3. v \in Seq(Letter) /\ Len(v) = Len(w) + 1 /\ v[1] = w[1] /\ v[Len(w) + 1] = "s" BY <1>1, <1>2
  <1>4. \A i \in 1 .. Len(w) : v[i] = w[i] BY <1>1
  <1> HIDE DEF v
  <1>5. v # << >> /\ Head(v) # Space /\ Last(v) # Space BY <1>1, <1>3, <1>2 DEF Last
  <1>6. v \in Phrase BY <1>3, <1>5 DEF Phrase
  <1>7. \A i \in 1 .. Len(w) : w[i] # Filler BY PlainIs
  <1>8. Filler # "s" BY LettersAre
  <1>9. \A i \in 1 .. Len(v) : v[i] # Filler
    <2>1. \A i \in 1 .. Len(v) : i \in 1 .. Len(w) \/ i = Len(w) + 1 BY <1>1, <1>3
    <2> QED BY <1>3, <1>4, <1>7, <1>8, <2>1
  <1>10. DOMAIN v = 1 .. Len(v) BY <1>3
  <1>11. Filler \notin ToSet(v) BY <1>9, <1>10 DEF ToSet
  <1> QED BY <1>3, <1>6, <1>11 DEF Plain, Texts, v

\* A stretch of words is a spot of one of them.
LEMMA StretchesAre ==
  ASSUME NEW t, Plain(t), NEW W, W \subseteq Phrase
  PROVE  /\ \A s \in Stretches(t, W) :
              \E w \in W : Spot(t, w, s[1]) /\ s = <<s[1], s[1] + Len(w) - 1>> /\ s[2] = s[1] + Len(w) - 1
         /\ \A w \in W : \A i : Spot(t, w, i) => <<i, i + Len(w) - 1>> \in Stretches(t, W)
  <1>1. t \in Texts /\ Len(t) \in Nat /\ DOMAIN t = 1 .. Len(t) BY PlainIs
  <1>2. \A g : g \in Gaps(t) <=> g = 0 \/ g = Len(t) + 1 \/ (g \in 1 .. Len(t) /\ t[g] = Space)
    BY <1>1 DEF Gaps
  <1>3. \A g \in Gaps(t) : g \in 0 .. Len(t) + 1 BY <1>1, <1>2
  <1>4. ASSUME NEW s \in Stretches(t, W)
        PROVE  \E w \in W : Spot(t, w, s[1]) /\ s = <<s[1], s[1] + Len(w) - 1>> /\ s[2] = s[1] + Len(w) - 1
    <2>1. PICK g \in Gaps(t), h \in Gaps(t) : s = <<g + 1, h - 1>> BY <1>4 DEF Stretches
    <2>2. s[1] = g + 1 /\ s[2] = h - 1 /\ s[1] <= s[2] /\ SubSeq(t, s[1], s[2]) \in W
      BY <1>4, <2>1 DEF Stretches
    <2>3. g \in Int /\ h \in Int /\ 0 <= g /\ g <= Len(t) + 1 /\ 0 <= h /\ h <= Len(t) + 1 BY <1>1, <1>3
    <2>4. s[1] \in 1 .. Len(t) /\ s[2] \in 1 .. Len(t) BY <1>1, <2>2, <2>3
    <2> DEFINE w == SubSeq(t, s[1], s[2])
    <2>5. Len(w) = s[2] - s[1] + 1 /\ \A j \in 1 .. Len(w) : w[j] = t[s[1] + j - 1]
      BY <1>1, <2>2, <2>4 DEF Texts
    <2>6. w \in W BY <2>2
    <2> HIDE DEF w
    <2>7. s[1] = 1 \/ t[s[1] - 1] = Space
      <3>1. g = 0 \/ g = Len(t) + 1 \/ t[g] = Space BY <1>2
      <3>2. g # Len(t) + 1 /\ s[1] - 1 = g BY <1>1, <2>2, <2>3, <2>4
      <3> QED BY <2>2, <2>3, <3>1, <3>2
    <2>8. s[1] + Len(w) = h BY <1>1, <2>2, <2>3, <2>5
    <2>9. h = Len(t) + 1 \/ t[h] = Space
      <3>1. h # 0 BY <2>2, <2>3, <2>4
      <3> QED BY <1>2, <3>1
    <2>10. s[1] + Len(w) - 1 = s[2] BY <2>4, <2>5
    <2>11. Spot(t, w, s[1])
      <3>1. \A j \in 1 .. Len(w) : t[s[1] + j - 1] = w[j] BY <2>5
      <3>2. s[1] + Len(w) - 1 <= Len(t) BY <2>4, <2>10
      <3> QED BY <2>4, <2>7, <2>8, <2>9, <3>1, <3>2 DEF Spot
    <2>12. s = <<s[1], s[2]>> BY <2>1
    <2> QED BY <2>6, <2>10, <2>11, <2>12
  <1>5. ASSUME NEW w \in W, NEW i, Spot(t, w, i) PROVE <<i, i + Len(w) - 1>> \in Stretches(t, W)
    <2>1. w \in Seq(Letter) /\ Len(w) \in Nat /\ Len(w) >= 1 BY PhraseIs DEF Texts
    <2>2. i \in 1 .. Len(t) /\ i + Len(w) - 1 \in 1 .. Len(t) BY <1>1, <1>5, <2>1 DEF Spot
    <2> DEFINE e == i + Len(w) - 1
               u == SubSeq(t, i, e)
    <2>3. e \in 1 .. Len(t) /\ i <= e /\ e = i + Len(w) - 1 BY <2>1, <2>2
    <2>4. u \in Seq(Letter) /\ Len(u) = Len(w) /\ \A j \in 1 .. Len(u) : u[j] = t[i + j - 1]
      <3> HIDE DEF e
      <3>1. Len(u) = e - i + 1 /\ \A j \in 1 .. Len(u) : u[j] = t[i + j - 1] BY <1>1, <2>2, <2>3 DEF Texts
      <3>2. u \in Seq(Letter) BY <1>1, <2>2, <2>3 DEF Texts
      <3> QED BY <1>1, <2>1, <2>2, <2>3, <3>1, <3>2
    <2> HIDE DEF u
    <2>5. \A j \in 1 .. Len(w) : t[i + j - 1] = w[j] BY <1>5 DEF Spot
    <2>6. u = w
      <3>1. \A j \in 1 .. Len(u) : u[j] = w[j] BY <2>4, <2>5
      <3> QED BY <2>1, <2>4, <3>1
    <2>7. i - 1 \in Gaps(t) /\ e + 1 \in Gaps(t)
      <3>1. i - 1 \in Gaps(t)
        <4>1. i = 1 \/ t[i - 1] = Space BY <1>5 DEF Spot
        <4>2. CASE i = 1 BY <1>2, <4>2
        <4>3. CASE i # 1
          <5>1. i - 1 \in 1 .. Len(t) BY <1>1, <2>2, <4>3
          <5> QED BY <1>2, <4>1, <4>3, <5>1
        <4> QED BY <4>2, <4>3
      <3>2. e + 1 \in Gaps(t)
        <4>1. e + 1 = i + Len(w) BY <2>1, <2>2
        <4>2. e + 1 = Len(t) + 1 \/ t[e + 1] = Space BY <1>5, <4>1 DEF Spot
        <4>3. CASE e + 1 = Len(t) + 1 BY <1>2, <4>3
        <4>4. CASE e + 1 # Len(t) + 1
          <5>1. e + 1 \in 1 .. Len(t) BY <1>1, <2>3, <4>4
          <5> QED BY <1>2, <4>2, <4>4, <5>1
        <4> QED BY <4>3, <4>4
      <3> QED BY <3>1, <3>2
    <2>8. <<i, e>> = <<(i - 1) + 1, (e + 1) - 1>> BY <2>2, <2>3
    <2>9. <<i, e>>[1] = i /\ <<i, e>>[2] = e /\ SubSeq(t, i, e) = w BY <2>6 DEF u
    <2> HIDE DEF e
    <2>10. <<i, e>> \in {<<g + 1, h - 1>> : g \in Gaps(t), h \in Gaps(t)} BY <2>7, <2>8
    <2> DEFINE s == <<i, e>>
    <2>11. s[1] = i /\ s[2] = e OBVIOUS
    <2>12. s[1] <= s[2] /\ SubSeq(t, s[1], s[2]) \in W BY <1>5, <2>3, <2>9, <2>11
    <2>13. s \in {<<g + 1, h - 1>> : g \in Gaps(t), h \in Gaps(t)} BY <2>10
    <2> HIDE DEF s
    <2>14. s \in Stretches(t, W) BY <2>12, <2>13 DEF Stretches
    <2>15. <<i, e>> \in Stretches(t, W) BY <2>14 DEF s
    <2> QED BY <2>3, <2>15
  <1> QED BY <1>4, <1>5

\* What is masked is whole words.
LEMMA StretchesWhole ==
  ASSUME NEW t, Plain(t), NEW W, W \subseteq Phrase
  PROVE  ByWords(t, UNION {s[1] .. s[2] : s \in Stretches(t, W)})
  <1> DEFINE K == UNION {s[1] .. s[2] : s \in Stretches(t, W)}
  <1>1. Len(t) \in Nat BY PlainIs
  <1>2. ASSUME NEW k \in K
        PROVE  /\ k \in 1 .. Len(t)
               /\ k = 1 \/ k - 1 \in K \/ t[k - 1] = Space
               /\ k = Len(t) \/ k + 1 \in K \/ t[k + 1] = Space
    <2>1. PICK s \in Stretches(t, W) : k \in s[1] .. s[2] BY <1>2
    <2>2. PICK w \in W : Spot(t, w, s[1]) /\ s[2] = s[1] + Len(w) - 1 BY StretchesAre
    <2>3. Len(w) \in Nat /\ Len(w) >= 1 BY PhraseIs
    <2>4. /\ s[1] \in 1 .. Len(t) /\ s[2] <= Len(t)
          /\ s[1] = 1 \/ t[s[1] - 1] = Space
          /\ s[1] + Len(w) = Len(t) + 1 \/ t[s[1] + Len(w)] = Space
      BY <2>2 DEF Spot
    <2>5. s[2] \in Int /\ s[1] + Len(w) = s[2] + 1 BY <2>2, <2>3, <2>4
    <2>6. s[1] .. s[2] \subseteq K OBVIOUS
    <2>7. k \in 1 .. Len(t) BY <1>1, <2>1, <2>4, <2>5
    <2>8. k = 1 \/ k - 1 \in K \/ t[k - 1] = Space
      <3>1. CASE k = s[1] BY <2>4, <3>1
      <3>2. CASE k # s[1]
        <4>1. k - 1 \in s[1] .. s[2] BY <2>1, <2>4, <2>5, <3>2
        <4> QED BY <2>6, <4>1
      <3> QED BY <3>1, <3>2
    <2>9. k = Len(t) \/ k + 1 \in K \/ t[k + 1] = Space
      <3>1. CASE k = s[2] BY <1>1, <2>4, <2>5, <3>1
      <3>2. CASE k # s[2]
        <4>1. k + 1 \in s[1] .. s[2] BY <2>1, <2>4, <2>5, <3>2
        <4> QED BY <2>6, <4>1
      <3> QED BY <3>1, <3>2
    <2> QED BY <2>7, <2>8, <2>9
  <1> HIDE DEF K
  <1>3. ByWords(t, K) BY <1>2 DEF ByWords
  <1> QED BY <1>3 DEF K

\* Whole words are heard in a masked text where they were and are not masked.
LEMMA HeardMasked ==
  ASSUME NEW t, Plain(t), NEW K, ByWords(t, K), NEW w \in Phrase, Plain(w), NEW i \in 1 .. Len(t)
  PROVE  WordsAt(MaskedBy(t, K), w, i) <=> Spot(t, w, i) /\ (i .. i + Len(w) - 1) \cap K = {}
  <1> DEFINE u == MaskedBy(t, K)
             n == Len(t)
             m == Len(w)
  <1>1. t \in Texts /\ n \in Nat /\ DOMAIN t = 1 .. n /\ (\A j \in 1 .. n : t[j] # Filler /\ t[j] \in Letter)
    BY PlainIs
  <1>2. w \in Seq(Letter) /\ m \in Nat /\ m >= 1 /\ w[1] # Space /\ w[m] # Space BY PhraseIs DEF Texts
  <1>3. \A j \in 1 .. m : w[j] # Filler BY PlainIs
  <1>4. u \in Seq(Letter) /\ Len(u) = n /\ DOMAIN u = 1 .. n
        /\ \A j \in 1 .. n : u[j] = IF j \in K THEN Filler ELSE t[j]
    <2>1. Filler \in Letter BY LettersAre
    <2>2. u = [j \in 1 .. n |-> IF j \in K THEN Filler ELSE t[j]] BY <1>1 DEF MaskedBy
    <2> HIDE DEF u, n
    <2>3. u \in [1 .. n -> Letter] BY <1>1, <2>1, <2>2
    <2> QED BY <1>1, <2>2, <2>3
  <1>5. K \subseteq 1 .. n /\ \A k \in K : (k = 1 \/ k - 1 \in K \/ t[k - 1] = Space)
                                         /\ (k = n \/ k + 1 \in K \/ t[k + 1] = Space)
    BY DEF ByWords
  <1>6. Filler # Space BY LettersAre
  <1>7. \A j : InWord(u, j) <=> j \in 1 .. n /\ j \notin K /\ t[j] # Space
    <2>1. \A j : InWord(u, j) <=> j \in 1 .. n /\ u[j] # Space /\ u[j] # Filler BY <1>4 DEF InWord
    <2> QED BY <1>1, <1>4, <1>6, <2>1
  <1> HIDE DEF u
  <1>8. WordsAt(u, w, i) <=> /\ i + m - 1 <= n /\ SubSeq(u, i, i + m - 1) = w
                             /\ (InWord(u, i - 1) <=> ~InWord(u, i))
                             /\ (InWord(u, i + m - 1) <=> ~InWord(u, i + m))
    <2>1. i + m - 1 = (i + m) - 1 BY <1>1, <1>2
    <2>2. WordEdge(u, i) <=> (InWord(u, i - 1) <=> ~InWord(u, i)) BY DEF WordEdge, InWord
    <2>3. WordEdge(u, i + m) <=> (InWord(u, (i + m) - 1) <=> ~InWord(u, i + m)) BY DEF WordEdge, InWord
    <2> QED BY <1>4, <2>1, <2>2, <2>3 DEF WordsAt
  <1> HIDE DEF n, m
  <1>9. i \in 1 .. n BY DEF n
  <1>10. ASSUME i + m - 1 <= n
        PROVE  SubSeq(u, i, i + m - 1) = w <=> \A j \in 1 .. m : u[i + j - 1] = w[j]
    <2> DEFINE v == SubSeq(u, i, i + m - 1)
    <2>1. i + m - 1 \in 1 .. n BY <1>1, <1>2, <1>10, <1>9
    <2>2. v \in Seq(Letter) /\ Len(v) = m /\ \A j \in 1 .. m : v[j] = u[i + j - 1]
      BY <1>1, <1>2, <1>4, <1>9, <2>1
    <2> HIDE DEF v
    <2>3. v = w <=> \A j \in 1 .. m : v[j] = w[j]
      <3>1. Len(w) = m BY DEF m
      <3> QED BY <1>2, <2>2, <3>1
    <2> QED BY <2>2, <2>3 DEF v
  <1>11. ASSUME i + m - 1 <= n, \A j \in 1 .. m : t[i + j - 1] = w[j], \A j \in i .. i + m - 1 : j \notin K
         PROVE  InWord(u, i) /\ InWord(u, i + m - 1)
    <2>1. 1 \in 1 .. m /\ m \in 1 .. m /\ i + 1 - 1 = i BY <1>1, <1>2, <1>9
    <2>2. t[i] = w[1] /\ t[i + m - 1] = w[m] BY <1>11, <2>1
    <2>3. i \in i .. i + m - 1 /\ i + m - 1 \in i .. i + m - 1 /\ i + m - 1 \in 1 .. n BY <1>1, <1>2, <1>11, <1>9
    <2> QED BY <1>2, <1>7, <1>11, <1>9, <2>2, <2>3
  <1>12. ASSUME WordsAt(u, w, i) PROVE Spot(t, w, i) /\ (i .. i + m - 1) \cap K = {}
    <2>1. i + m - 1 <= n /\ \A j \in 1 .. m : u[i + j - 1] = w[j] BY <1>8, <1>10, <1>12
    <2>2. \A j \in 1 .. m : i + j - 1 \in 1 .. n BY <1>1, <1>2, <1>9, <2>1
    <2>3. \A j \in 1 .. m : i + j - 1 \notin K BY <1>3, <1>4, <2>1, <2>2
    <2>4. \A j \in 1 .. m : t[i + j - 1] = w[j] BY <1>4, <2>1, <2>2, <2>3
    <2>5. \A j \in i .. i + m - 1 : j \notin K
      <3> TAKE j \in i .. i + m - 1
      <3>1. j - i + 1 \in 1 .. m /\ i + (j - i + 1) - 1 = j BY <1>1, <1>2, <1>9
      <3> QED BY <2>3, <3>1
    <2>6. InWord(u, i) /\ InWord(u, i + m - 1) BY <1>11, <2>1, <2>4, <2>5
    <2>7. ~InWord(u, i - 1) /\ ~InWord(u, i + m) BY <1>8, <1>12, <2>6
    <2>8. i = 1 \/ t[i - 1] = Space
      <3> SUFFICES ASSUME i # 1, t[i - 1] # Space PROVE FALSE OBVIOUS
      <3>1. i - 1 \in 1 .. n BY <1>1, <1>9
      <3>2. i - 1 \in K BY <1>7, <2>7, <3>1
      <3>3. i - 1 # n /\ (i - 1) + 1 = i BY <1>1, <1>9
      <3>4. i \in K \/ t[i] = Space BY <1>5, <3>2, <3>3
      <3> QED BY <1>7, <2>6, <3>4
    <2>9. i + m = n + 1 \/ t[i + m] = Space
      <3> SUFFICES ASSUME i + m # n + 1, t[i + m] # Space PROVE FALSE OBVIOUS
      <3>1. i \in Nat /\ i >= 1 /\ m \in Nat /\ m >= 1 BY <1>2, <1>9
      <3>2. n \in Nat /\ i + m - 1 <= n BY <1>1, <2>1
      <3>3. i + m \in 1 .. n
        <4>1. i + m # n + 1 OBVIOUS
        <4> QED BY <3>1, <3>2, <4>1
      <3>4. i + m \in K BY <1>7, <2>7, <3>3
      <3>5. i + m # 1 /\ (i + m) - 1 = i + m - 1 BY <1>1, <1>2, <1>9
      <3>6. i + m - 1 \in K \/ t[i + m - 1] = Space BY <1>5, <3>4, <3>5
      <3> QED BY <1>7, <2>6, <3>6
    <2>10. Spot(t, w, i) BY <1>9, <2>1, <2>4, <2>8, <2>9 DEF Spot, n, m
    <2> QED BY <2>5, <2>10
  <1>13. ASSUME Spot(t, w, i), (i .. i + m - 1) \cap K = {} PROVE WordsAt(u, w, i)
    <2>1. /\ i + m - 1 <= n /\ \A j \in 1 .. m : t[i + j - 1] = w[j]
          /\ i = 1 \/ t[i - 1] = Space
          /\ i + m = n + 1 \/ t[i + m] = Space
      BY <1>13 DEF Spot, n, m
    <2>2. \A j \in i .. i + m - 1 : j \notin K BY <1>13
    <2>3. \A j \in 1 .. m : i + j - 1 \in 1 .. n /\ i + j - 1 \in i .. i + m - 1 BY <1>1, <1>2, <1>9, <2>1
    <2>4. \A j \in 1 .. m : u[i + j - 1] = w[j] BY <1>4, <2>1, <2>2, <2>3
    <2>5. InWord(u, i) /\ InWord(u, i + m - 1) BY <1>11, <2>1, <2>2
    <2>6. ~InWord(u, i - 1)
      <3>1. i = 1 => i - 1 \notin 1 .. n BY <1>1, <1>9
      <3> QED BY <1>7, <2>1, <3>1
    <2>7. ~InWord(u, i + m)
      <3>1. i + m = n + 1 => i + m \notin 1 .. n BY <1>1
      <3> QED BY <1>7, <2>1, <3>1
    <2> QED BY <1>8, <1>10, <2>1, <2>4, <2>5, <2>6, <2>7
  <1> QED BY <1>12, <1>13 DEF u, m
---------------------------------------------------------------------------
\* The places of these words.
Covered(t, W) == UNION {s[1] .. s[2] : s \in Stretches(t, W)}
NoOverlap(t, W) == \A s, v \in Stretches(t, W) : s # v => Disjoint(s, v)

\* More words have more stretches.
LEMMA StretchesGrow == ASSUME NEW t, NEW W, NEW V \in SUBSET W PROVE Stretches(t, V) \subseteq Stretches(t, W)
  BY DEF Stretches

\* Masking changes no place but those it masks.
LEMMA MaskedIs ==
  ASSUME NEW t \in Texts, NEW K
  PROVE  /\ MaskedBy(t, K) \in Texts /\ Len(MaskedBy(t, K)) = Len(t) /\ DOMAIN MaskedBy(t, K) = 1 .. Len(t)
         /\ \A j \in 1 .. Len(t) : MaskedBy(t, K)[j] = IF j \in K THEN Filler ELSE t[j]
  <1> DEFINE u == MaskedBy(t, K)
             n == Len(t)
  <1>1. n \in Nat /\ DOMAIN t = 1 .. n /\ \A j \in 1 .. n : t[j] \in Letter BY PlacesOf
  <1>2. Filler \in Letter BY LettersAre
  <1>3. u = [j \in 1 .. n |-> IF j \in K THEN Filler ELSE t[j]] BY <1>1 DEF MaskedBy
  <1> HIDE DEF u, n
  <1>4. u \in [1 .. n -> Letter] BY <1>1, <1>2, <1>3
  <1>5. u \in Seq(Letter) /\ Len(u) = n BY <1>1, <1>4
  <1>6. DOMAIN u = 1 .. n /\ \A j \in 1 .. n : u[j] = IF j \in K THEN Filler ELSE t[j] BY <1>3
  <1> QED BY <1>5, <1>6 DEF Texts, u, n

\* Masking a text twice masks what either does.
LEMMA MaskedTwice ==
  ASSUME NEW t \in Texts, NEW K, NEW U PROVE MaskedBy(MaskedBy(t, K), U) = MaskedBy(t, K \union U)
  <1> DEFINE u == MaskedBy(t, K)
             n == Len(t)
  <1>1. DOMAIN t = 1 .. n BY PlacesOf
  <1>2. DOMAIN u = 1 .. n /\ \A j \in 1 .. n : u[j] = IF j \in K THEN Filler ELSE t[j] BY MaskedIs
  <1>3. MaskedBy(u, U) = [j \in 1 .. n |-> IF j \in U THEN Filler ELSE u[j]] BY <1>2 DEF MaskedBy
  <1>4. MaskedBy(t, K \union U) = [j \in 1 .. n |-> IF j \in K \union U THEN Filler ELSE t[j]] BY <1>1 DEF MaskedBy
  <1> HIDE DEF u, n
  <1>5. \A j \in 1 .. n : (IF j \in U THEN Filler ELSE u[j]) = (IF j \in K \union U THEN Filler ELSE t[j])
    BY <1>2
  <1>6. MaskedBy(u, U) = MaskedBy(t, K \union U) BY <1>3, <1>4, <1>5
  <1> QED BY <1>6 DEF u

\* Masking one more phrase.
LEMMA KeepOne ==
  ASSUME NEW t, Plain(t), NEW W, W \subseteq Phrase, NoOverlap(t, W),
         NEW V \in SUBSET W, NEW w \in W, Plain(w)
  PROVE  WithoutPhrase(MaskedBy(t, Covered(t, V)), w) = MaskedBy(t, Covered(t, V \union {w}))
  <1> DEFINE K == Covered(t, V)
             u == MaskedBy(t, K)
             n == Len(t)
             L == Len(w)
             N(i) == HeardAt(u, w, FALSE, i)
             M == Matches(u, w, FALSE)
             U == UNION {m[1] .. m[1] + m[2] - 1 : m \in M}
  <1>1. t \in Texts /\ n \in Nat BY PlainIs
  <1>2. w \in Phrase /\ w \in Texts /\ L \in Nat /\ L >= 1 BY PhraseIs
  <1>3. ByWords(t, K) BY StretchesWhole DEF Covered
  <1>4. u \in Texts /\ Len(u) = n BY <1>1, MaskedIs
  <1>5. \A i \in 1 .. n : N(i) = IF Spot(t, w, i) /\ (i .. i + L - 1) \cap K = {} THEN L ELSE 0
    <2> TAKE i \in 1 .. n
    <2>1. WordsAt(u, w, i) <=> Spot(t, w, i) /\ (i .. i + L - 1) \cap K = {} BY <1>2, <1>3, HeardMasked
    <2>2. N(i) = IF WordsAt(u, w, i) THEN L ELSE 0 BY DEF HeardAt
    <2> HIDE DEF N, u, K, L, n
    <2> QED BY <2>1, <2>2
  <1>6. \A i : Spot(t, w, i) => <<i, i + L - 1>> \in Stretches(t, W) BY StretchesAre
  <1>7. \A i : Spot(t, w, i) => i \in 1 .. n BY DEF Spot
  <1>8. ASSUME NEW i \in 1 .. n, NEW j \in 1 .. n, i < j, N(i) > 0, N(j) > 0 PROVE i + N(i) <= j
    <2> HIDE DEF N, u, K, L, n
    <2>1. Spot(t, w, i) /\ Spot(t, w, j) /\ N(i) = L BY <1>2, <1>5, <1>8
    <2>2. <<i, i + L - 1>> \in Stretches(t, W) /\ <<j, j + L - 1>> \in Stretches(t, W) BY <1>6, <2>1
    <2>3. <<i, i + L - 1>> # <<j, j + L - 1>> BY <1>8
    <2>4. Disjoint(<<i, i + L - 1>>, <<j, j + L - 1>>) BY <2>2, <2>3 DEF NoOverlap
    <2>5. i + L - 1 < j \/ j + L - 1 < i BY <2>4 DEF Disjoint
    <2> QED BY <1>1, <1>2, <1>8, <2>1, <2>5
  <1>9. WithoutPhrase(u, w) = MaskedBy(u, U) BY DEF WithoutPhrase
  <1> HIDE DEF K
  <1>10. MaskedBy(u, U) = MaskedBy(t, K \union U)
    <2> HIDE DEF U
    <2> QED BY <1>1, MaskedTwice
  <1>11. M = {<<i, N(i)>> : i \in {j \in 1 .. n : N(j) > 0}}
    <2> DEFINE plural == FALSE
    <2>1. \A i, j \in 1 .. Len(u) :
            i < j /\ HeardAt(u, w, plural, i) > 0 /\ HeardAt(u, w, plural, j) > 0
              => i + HeardAt(u, w, plural, i) <= j
      BY <1>4, <1>8
    <2> HIDE DEF u, n, L, plural
    <2>2. Matches(u, w, plural) =
            {<<i, HeardAt(u, w, plural, i)>> : i \in {j \in 1 .. Len(u) : HeardAt(u, w, plural, j) > 0}}
      BY <1>2, <1>4, <2>1, SearchFinds
    <2> QED BY <1>4, <2>2 DEF plural
  <1> HIDE DEF N, u, M, n, L
  <1>12. ASSUME NEW k \in U PROVE k \in Covered(t, V \union {w})
    <2>1. PICK m \in M : k \in m[1] .. m[1] + m[2] - 1 OBVIOUS
    <2>2. PICK i \in 1 .. n : N(i) > 0 /\ m = <<i, N(i)>> BY <1>11, <2>1
    <2>3. m[1] = i /\ m[2] = L /\ Spot(t, w, i) BY <1>2, <1>5, <2>2
    <2>4. \A x \in V \union {w} : \A j : Spot(t, x, j) => <<j, j + Len(x) - 1>> \in Stretches(t, V \union {w})
      <3>1. V \union {w} \subseteq Phrase OBVIOUS
      <3> QED BY <3>1, StretchesAre
    <2>5. <<i, i + L - 1>> \in Stretches(t, V \union {w}) BY <2>3, <2>4 DEF L
    <2>6. k \in <<i, i + L - 1>>[1] .. <<i, i + L - 1>>[2] BY <2>1, <2>3
    <2> QED BY <2>5, <2>6 DEF Covered
  <1>13. K \subseteq Covered(t, V \union {w})
    <2>1. Stretches(t, V) \subseteq Stretches(t, V \union {w}) BY StretchesGrow
    <2> QED BY <2>1 DEF Covered, K
  <1>14. ASSUME NEW k \in Covered(t, V \union {w}) PROVE k \in K \union U
    <2>1. PICK s \in Stretches(t, V \union {w}) : k \in s[1] .. s[2] BY <1>14 DEF Covered
    <2>2. PICK x \in V \union {w} : Spot(t, x, s[1]) /\ s = <<s[1], s[1] + Len(x) - 1>>
      <3>1. V \union {w} \subseteq Phrase OBVIOUS
      <3> QED BY <3>1, StretchesAre
    <2>3. CASE x \in V
      <3>1. \A y \in V : \A j : Spot(t, y, j) => <<j, j + Len(y) - 1>> \in Stretches(t, V)
        <4>1. V \subseteq Phrase OBVIOUS
        <4> QED BY <4>1, StretchesAre
      <3>2. s \in Stretches(t, V) BY <2>2, <2>3, <3>1
      <3> QED BY <2>1, <3>2 DEF Covered, K
    <2>4. CASE x = w
      <3> DEFINE i == s[1]
      <3>1. Spot(t, w, i) /\ s = <<i, i + L - 1>> /\ s[2] = i + L - 1 BY <2>2, <2>4 DEF L
      <3>2. i \in 1 .. n BY <1>7, <3>1
      <3>3. CASE (i .. i + L - 1) \cap K = {}
        <4>1. N(i) = L /\ N(i) > 0 BY <1>2, <1>5, <3>1, <3>2, <3>3
        <4>2. <<i, L>> \in M BY <1>11, <3>2, <4>1
        <4>3. k \in <<i, L>>[1] .. <<i, L>>[1] + <<i, L>>[2] - 1 BY <2>1, <3>1
        <4>4. k \in U BY <4>2, <4>3
        <4> QED BY <4>4
      <3>4. CASE (i .. i + L - 1) \cap K # {}
        <4>1. PICK c \in i .. i + L - 1 : c \in K BY <3>4
        <4>2. PICK v \in Stretches(t, V) : c \in v[1] .. v[2] BY <4>1 DEF Covered, K
        <4>3. s \in Stretches(t, W) /\ v \in Stretches(t, W)
          <5>1. V \union {w} \in SUBSET W OBVIOUS
          <5> QED BY <2>1, <4>2, <5>1, StretchesGrow
        <4>4. PICK y \in V : Spot(t, y, v[1]) /\ v[2] = v[1] + Len(y) - 1
          <5>1. V \subseteq Phrase OBVIOUS
          <5> QED BY <4>2, <5>1, StretchesAre
        <4>5. v[1] \in Int /\ v[2] \in Int
          <5>1. v[1] \in 1 .. n BY <4>4 DEF Spot, n
          <5>2. Len(y) \in Nat BY <4>4, PhraseIs
          <5> QED BY <1>1, <4>4, <5>1, <5>2
        <4>6. ~Disjoint(s, v) BY <1>1, <1>2, <3>1, <3>2, <4>1, <4>2, <4>5 DEF Disjoint
        <4>7. s = v BY <4>3, <4>6 DEF NoOverlap
        <4>8. k \in K BY <2>1, <4>2, <4>7 DEF Covered, K
        <4> QED BY <4>8
      <3> QED BY <3>3, <3>4
    <2> QED BY <2>3, <2>4
  <1>15. K \union U = Covered(t, V \union {w}) BY <1>12, <1>13, <1>14
  <1> QED BY <1>9, <1>10, <1>15 DEF u, K

\* Masking all phrases masks each of their places.
KeptTo(t, phrases, m, n) ==
  m = [k \in 0 .. n |-> IF k = 0 THEN t ELSE WithoutPhrase(m[k - 1], phrases[k])]

\* Masking the phrases one after the other masks the stretches of them all.
LEMMA KeepAll ==
  ASSUME NEW t, Plain(t), NEW phrases \in Seq(Phrase), \A k \in 1 .. Len(phrases) : Plain(phrases[k]),
         NoOverlap(t, ToSet(phrases))
  PROVE  WithoutPhrases(t, phrases) = MaskedBy(t, Covered(t, ToSet(phrases)))
  <1> DEFINE n == Len(phrases)
             W == ToSet(phrases)
             First(k) == {phrases[j] : j \in 1 .. k}
             f == [k \in 0 .. n |-> MaskedBy(t, Covered(t, First(k)))]
             m == CHOOSE g : KeptTo(t, phrases, g, n)
  <1>1. n \in Nat /\ DOMAIN phrases = 1 .. n /\ \A k \in 1 .. n : phrases[k] \in Phrase OBVIOUS
  <1>2. W = {phrases[j] : j \in 1 .. n} BY <1>1 DEF ToSet
  <1>3. WithoutPhrases(t, phrases) = m[n] BY DEF WithoutPhrases, KeptTo
  <1>4. t \in Texts /\ DOMAIN t = 1 .. Len(t) BY PlainIs
  <1>5. \A k \in 0 .. n : f[k] = MaskedBy(t, Covered(t, First(k))) OBVIOUS
  <1>6. f = [k \in 0 .. n |-> f[k]] OBVIOUS
  <1>7. NoOverlap(t, W) /\ \A k \in 1 .. n : Plain(phrases[k]) OBVIOUS
  <1> HIDE DEF n, f, W, m
  <1>8. W \subseteq Phrase BY <1>1, <1>2
  <1>9. MaskedBy(t, Covered(t, First(0))) = t
    <2>1. First(0) = {} OBVIOUS
    <2>2. Covered(t, {}) = {} BY DEF Covered, Stretches
    <2>3. MaskedBy(t, {}) = [i \in DOMAIN t |-> t[i]] BY DEF MaskedBy
    <2>4. t = [i \in DOMAIN t |-> t[i]] BY <1>4 DEF Texts
    <2> QED BY <2>1, <2>2, <2>3, <2>4
  <1>10. ASSUME NEW k \in 1 .. n
        PROVE  WithoutPhrase(MaskedBy(t, Covered(t, First(k - 1))), phrases[k]) = MaskedBy(t, Covered(t, First(k)))
    <2>1. First(k - 1) \in SUBSET W
      <3>1. \A j \in 1 .. k - 1 : j \in 1 .. n BY <1>1
      <3> QED BY <1>2, <3>1
    <2>2. phrases[k] \in W /\ Plain(phrases[k]) BY <1>2, <1>7
    <2>3. First(k) = First(k - 1) \union {phrases[k]}
      <3>1. \A j : j \in 1 .. k <=> j \in 1 .. k - 1 \/ j = k BY <1>1
      <3> QED BY <3>1
    <2> DEFINE V == First(k - 1)
               w == phrases[k]
    <2>4. V \in SUBSET W /\ w \in W /\ Plain(w) BY <2>1, <2>2
    <2> HIDE DEF V, w
    <2>5. WithoutPhrase(MaskedBy(t, Covered(t, V)), w) = MaskedBy(t, Covered(t, V \union {w}))
      BY <1>8, <1>7, <2>4, KeepOne
    <2> QED BY <2>3, <2>5 DEF V, w
  <1> HIDE DEF First
  <1>11. \A k \in 0 .. n : f[k] = IF k = 0 THEN t ELSE WithoutPhrase(f[k - 1], phrases[k])
    <2> TAKE k \in 0 .. n
    <2>1. CASE k = 0 BY <1>9, <1>5, <2>1
    <2>2. CASE k # 0
      <3>1. k \in 1 .. n /\ k - 1 \in 0 .. n BY <1>1, <2>2
      <3> QED BY <1>10, <1>5, <2>2, <3>1
    <2> QED BY <2>1, <2>2
  <1>12. KeptTo(t, phrases, f, n) BY <1>11, <1>6 DEF KeptTo
  <1>13. KeptTo(t, phrases, m, n) BY <1>12 DEF m
  <1>14. \A k \in 0 .. n : m[k] = IF k = 0 THEN t ELSE WithoutPhrase(m[k - 1], phrases[k]) BY <1>13 DEF KeptTo
  <1> DEFINE S == {k \in Nat : k <= n => m[k] = f[k]}
  <1>15. 0 \in S BY <1>1, <1>11, <1>14
  <1>16. ASSUME NEW k \in Nat, k \in S PROVE k + 1 \in S
    <2> SUFFICES ASSUME k + 1 <= n PROVE m[k + 1] = f[k + 1] OBVIOUS
    <2>1. k + 1 \in 0 .. n /\ k + 1 # 0 /\ k + 1 - 1 = k /\ m[k] = f[k] BY <1>1, <1>16
    <2> QED BY <1>11, <1>14, <2>1
  <1> HIDE DEF S
  <1>17. n \in S BY <1>1, <1>15, <1>16, Inductively
  <1>18. m[n] = f[n] BY <1>1, <1>17 DEF S
  <1>19. f[n] = MaskedBy(t, Covered(t, First(n))) BY <1>1, <1>5
  <1> QED BY <1>2, <1>3, <1>18, <1>19 DEF First, W
---------------------------------------------------------------------------
\* What a rule finds are its slips, and what it suggests for each.
Adapted(t, r, s) == IF t[s[2]] = "s" /\ Last(r.meant) # "s" THEN Append(r.meant, "s") ELSE r.meant
FindOf(t, n, r, s) == [rule |-> n, index |-> s[1], length |-> s[2] - s[1] + 1, meant |-> Adapted(t, r, s)]

\* The phrases of a rule, and the plural that it hears, are plain.
LEMMA RuleIs == ASSUME NEW r \in Rule, PlainPhrases(r)
  PROVE  /\ r.heard \in Phrase /\ Plain(r.heard) /\ r.meant \in Phrase /\ r.keep \in Seq(Phrase)
         /\ ToSet(r.keep) \subseteq Phrase /\ \A k \in 1 .. Len(r.keep) : Plain(r.keep[k])
         /\ Append(r.heard, "s") \in Phrase /\ Plain(Append(r.heard, "s"))
         /\ Len(Append(r.heard, "s")) = Len(r.heard) + 1
  <1>1. r.heard \in Phrase /\ r.meant \in Phrase /\ r.keep \in Seq(Phrase) BY DEF Rule
  <1> DEFINE keep == r.keep
  <1>2. DOMAIN keep = 1 .. Len(keep) /\ \A k \in 1 .. Len(keep) : keep[k] \in Phrase BY <1>1
  <1> HIDE DEF keep
  <1>3. ToSet(keep) = {keep[k] : k \in 1 .. Len(keep)} BY <1>2 DEF ToSet
  <1>4. \A w \in {r.heard} \union ToSet(keep) : Filler \notin ToSet(w) BY DEF PlainPhrases, keep
  <1>5. \A w \in Phrase : w \in Texts BY PhraseIs
  <1>6. Plain(r.heard) BY <1>1, <1>4, <1>5 DEF Plain
  <1>7. \A k \in 1 .. Len(keep) : Plain(keep[k]) BY <1>2, <1>3, <1>4, <1>5 DEF Plain
  <1>8. ToSet(keep) \subseteq Phrase BY <1>2, <1>3
  <1>9. /\ Append(r.heard, "s") \in Phrase /\ Plain(Append(r.heard, "s"))
        /\ Len(Append(r.heard, "s")) = Len(r.heard) + 1
    BY <1>1, <1>6, PluralIs
  <1> QED BY <1>1, <1>6, <1>7, <1>8, <1>9 DEF keep

\* The search of one rule finds its slips, and says of each what the reference says.
LEMMA SlipsFound ==
  ASSUME NEW t, Plain(t), NEW r \in Rule, PlainPhrases(r), NoOverlap(t, ToSet(r.keep)),
         \A s, v \in Slips(t, r) : s # v => Disjoint(s, v), NEW k
  PROVE  /\ \A s \in Slips(t, r) : s[1] \in 1 .. Len(t) /\ s[2] \in s[1] .. Len(t)
         /\ FoundBy(t, k, r) = {FindOf(t, k, r, s) : s \in Slips(t, r)}
  <1> DEFINE n == Len(t)
             w == r.heard
             ws == Append(w, "s")
             W == {w, ws}
             L == Len(w)
             K == Covered(t, ToSet(r.keep))
             u == WithoutPhrases(t, r.keep)
             N(i) == HeardAt(u, w, TRUE, i)
             M == Matches(u, w, TRUE)
             Sl == Slips(t, r)
  <1>1. t \in Texts /\ n \in Nat BY PlainIs
  <1>2. /\ w \in Phrase /\ Plain(w) /\ r.meant \in Phrase /\ r.keep \in Seq(Phrase)
        /\ ToSet(r.keep) \subseteq Phrase /\ \A j \in 1 .. Len(r.keep) : Plain(r.keep[j])
        /\ ws \in Phrase /\ Plain(ws) /\ Len(ws) = L + 1
    BY RuleIs
  <1>3. w \in Texts /\ L \in Nat /\ L >= 1 BY <1>2, PhraseIs
  <1>4. u = MaskedBy(t, K) BY <1>2, KeepAll
  <1>5. ByWords(t, K) BY <1>2, StretchesWhole DEF Covered
  <1>6. u \in Texts /\ Len(u) = n BY <1>1, <1>4, MaskedIs
  <1>7. Sl = {s \in Stretches(t, W) : s[1] .. s[2] \cap K = {}} BY DEF Slips, KeptPlaces, Covered
  <1>8. \A s, v \in Sl : s # v => Disjoint(s, v) OBVIOUS
  <1>9. FoundBy(t, k, r) = {[rule |-> k, index |-> m[1], length |-> m[2],
                             meant |-> AdaptCase(SubSeq(t, m[1], m[1] + m[2] - 1), r.meant)] : m \in M}
    BY DEF FoundBy
  <1> HIDE DEF u, K, Sl
  <1>10. \A i : N(i) = IF WordsAt(u, ws, i) THEN L + 1 ELSE IF WordsAt(u, w, i) THEN L ELSE 0 BY DEF HeardAt
  <1>11. \A x \in W : \A i \in 1 .. n : WordsAt(u, x, i) <=> Spot(t, x, i) /\ (i .. i + Len(x) - 1) \cap K = {}
    <2> TAKE x \in W
    <2> TAKE i \in 1 .. n
    <2>1. x \in Phrase /\ Plain(x) BY <1>2
    <2> HIDE DEF W, n
    <2> QED BY <1>4, <1>5, <2>1, HeardMasked DEF n
  <1>12. W \subseteq Phrase BY <1>2
  <1> HIDE DEF W, n, w, ws, L, N
  <1>13. \A s \in Stretches(t, W) :
           \E x \in W : Spot(t, x, s[1]) /\ s = <<s[1], s[1] + Len(x) - 1>> /\ s[2] = s[1] + Len(x) - 1
    BY <1>12, StretchesAre
  <1>14. \A x \in W : \A i : Spot(t, x, i) => <<i, i + Len(x) - 1>> \in Stretches(t, W) BY <1>12, StretchesAre
  <1>15. w \in W /\ ws \in W /\ \A x \in W : x = w \/ x = ws BY DEF W
  <1>16. ASSUME NEW i \in 1 .. n, NEW x \in W, WordsAt(u, x, i) PROVE <<i, i + Len(x) - 1>> \in Sl
    <2>1. Spot(t, x, i) /\ (i .. i + Len(x) - 1) \cap K = {} BY <1>11, <1>16
    <2> DEFINE s == <<i, i + Len(x) - 1>>
    <2>2. s \in Stretches(t, W) BY <1>14, <2>1
    <2>3. s[1] .. s[2] \cap K = {} BY <2>1
    <2> HIDE DEF s
    <2>4. s \in Sl BY <1>7, <2>2, <2>3
    <2> QED BY <2>4 DEF s
  <1>17. ASSUME NEW i \in 1 .. n, N(i) > 0 PROVE <<i, i + N(i) - 1>> \in Sl /\ N(i) \in Nat
    <2>1. CASE WordsAt(u, ws, i)
      <3>1. N(i) = Len(ws) /\ N(i) \in Nat BY <1>2, <1>3, <1>10, <2>1
      <3> QED BY <1>15, <1>16, <2>1, <3>1
    <2>2. CASE ~WordsAt(u, ws, i) /\ WordsAt(u, w, i)
      <3>1. N(i) = Len(w) /\ N(i) \in Nat BY <1>3, <1>10, <2>2 DEF L
      <3> QED BY <1>15, <1>16, <2>2, <3>1
    <2>3. CASE ~WordsAt(u, ws, i) /\ ~WordsAt(u, w, i) BY <1>10, <1>17, <2>3
    <2> QED BY <2>1, <2>2, <2>3
  <1>18. ASSUME NEW s \in Sl
         PROVE  /\ s[1] \in 1 .. n /\ s[2] \in s[1] .. n /\ s = <<s[1], s[2]>>
                /\ N(s[1]) > 0 /\ N(s[1]) = s[2] - s[1] + 1
    <2>1. s \in Stretches(t, W) /\ s[1] .. s[2] \cap K = {} BY <1>7
    <2>2. PICK x \in W : Spot(t, x, s[1]) /\ s = <<s[1], s[1] + Len(x) - 1>> /\ s[2] = s[1] + Len(x) - 1
      BY <1>13, <2>1
    <2>3. s[1] \in 1 .. n /\ s[2] <= n BY <2>2 DEF Spot, n
    <2>4. Len(x) \in Nat /\ Len(x) >= 1 BY <1>12, PhraseIs
    <2>5. s[2] \in s[1] .. n BY <1>1, <2>2, <2>3, <2>4
    <2>6. WordsAt(u, x, s[1]) BY <1>11, <2>1, <2>2, <2>3
    <2>7. N(s[1]) > 0 BY <1>3, <1>10, <1>15, <2>6
    <2>8. <<s[1], s[1] + N(s[1]) - 1>> \in Sl /\ N(s[1]) \in Nat BY <1>17, <2>3, <2>7
    <2> DEFINE v == <<s[1], s[1] + N(s[1]) - 1>>
    <2>9. v[1] = s[1] /\ v[2] = s[1] + N(s[1]) - 1 /\ v \in Sl BY <2>8
    <2> HIDE DEF v
    <2>10. ~Disjoint(s, v) BY <1>1, <2>3, <2>5, <2>7, <2>8, <2>9 DEF Disjoint
    <2>11. s = v BY <1>8, <2>9, <2>10
    <2>12. N(s[1]) = s[2] - s[1] + 1 BY <1>1, <2>3, <2>5, <2>8, <2>9, <2>11
    <2> QED BY <2>2, <2>3, <2>5, <2>7, <2>12
  <1>19. ASSUME NEW i \in 1 .. n, NEW j \in 1 .. n, i < j, N(i) > 0, N(j) > 0 PROVE i + N(i) <= j
    <2> DEFINE s == <<i, i + N(i) - 1>>
               v == <<j, j + N(j) - 1>>
    <2>1. s \in Sl /\ v \in Sl /\ N(i) \in Nat /\ N(j) \in Nat BY <1>17, <1>19
    <2>2. s[1] = i /\ s[2] = i + N(i) - 1 /\ v[1] = j /\ v[2] = j + N(j) - 1 OBVIOUS
    <2> HIDE DEF s, v
    <2>3. s # v BY <1>19, <2>2
    <2>4. Disjoint(s, v) BY <1>8, <2>1, <2>3
    <2> QED BY <1>1, <1>19, <2>1, <2>2, <2>4 DEF Disjoint
  <1>20. M = {<<i, N(i)>> : i \in {j \in 1 .. n : N(j) > 0}}
    <2> DEFINE plural == TRUE
    <2>1. \A i, j \in 1 .. Len(u) :
            i < j /\ HeardAt(u, w, plural, i) > 0 /\ HeardAt(u, w, plural, j) > 0
              => i + HeardAt(u, w, plural, i) <= j
      BY <1>6, <1>19 DEF N
    <2> HIDE DEF plural
    <2>2. Matches(u, w, plural) =
            {<<i, HeardAt(u, w, plural, i)>> : i \in {j \in 1 .. Len(u) : HeardAt(u, w, plural, j) > 0}}
      BY <1>3, <1>6, <2>1, SearchFinds
    <2> QED BY <1>6, <2>2 DEF plural, N
  <1> HIDE DEF M
  <1> DEFINE F(m) == [rule |-> k, index |-> m[1], length |-> m[2],
                      meant |-> AdaptCase(SubSeq(t, m[1], m[1] + m[2] - 1), r.meant)]
  <1>21. ASSUME NEW i \in 1 .. n, NEW e \in i .. n
         PROVE  F(<<i, e - i + 1>>) = FindOf(t, k, r, <<i, e>>)
    <2> DEFINE v == SubSeq(t, i, e)
    <2>1. i + (e - i + 1) - 1 = e BY <1>1
    <2>2. Len(v) = e - i + 1 /\ v[Len(v)] = t[e] BY <1>1 DEF Texts, n
    <2> HIDE DEF v
    <2>3. AdaptCase(v, r.meant) = Adapted(t, r, <<i, e>>) BY <2>2 DEF AdaptCase, Adapted, Last
    <2>4. SubSeq(t, i, i + (e - i + 1) - 1) = v BY <2>1 DEF v
    <2> QED BY <2>3, <2>4 DEF FindOf
  <1>22. ASSUME NEW m \in M PROVE \E s \in Sl : F(m) = FindOf(t, k, r, s)
    <2>1. PICK i \in 1 .. n : N(i) > 0 /\ m = <<i, N(i)>> BY <1>20
    <2> DEFINE s == <<i, i + N(i) - 1>>
    <2>2. s \in Sl /\ N(i) \in Nat BY <1>17, <2>1
    <2>3. s[1] = i /\ s[2] = i + N(i) - 1 OBVIOUS
    <2>4. i + N(i) - 1 \in i .. n
      <3> HIDE DEF s
      <3> QED BY <1>18, <2>2, <2>3
    <2>5. (i + N(i) - 1) - i + 1 = N(i) BY <1>1, <2>2
    <2> HIDE DEF F
    <2>6. F(m) = FindOf(t, k, r, s) BY <1>21, <2>1, <2>4, <2>5
    <2> QED BY <2>2, <2>6
  <1>23. ASSUME NEW s \in Sl PROVE \E m \in M : F(m) = FindOf(t, k, r, s)
    <2>1. s[1] \in 1 .. n /\ s[2] \in s[1] .. n /\ s = <<s[1], s[2]>> /\ N(s[1]) > 0 /\ N(s[1]) = s[2] - s[1] + 1
      BY <1>18
    <2>2. <<s[1], s[2] - s[1] + 1>> \in M BY <1>20, <2>1
    <2> HIDE DEF F
    <2>3. F(<<s[1], s[2] - s[1] + 1>>) = FindOf(t, k, r, s) BY <1>21, <2>1
    <2> QED BY <2>2, <2>3
  <1>24. FoundBy(t, k, r) = {F(m) : m \in M} BY <1>9
  <1> HIDE DEF F
  <1>25. {F(m) : m \in M} = {FindOf(t, k, r, s) : s \in Sl} BY <1>22, <1>23
  <1>26. \A s \in Sl : s[1] \in 1 .. n /\ s[2] \in s[1] .. n BY <1>18
  <1> QED BY <1>24, <1>25, <1>26 DEF Sl, n
---------------------------------------------------------------------------
\* What becomes of a text letter by letter, and the findings that say the same.
Joins(upTo, piece, n) ==
  /\ upTo \in [0 .. n -> Texts] /\ upTo[0] = << >>
  /\ \A i \in 1 .. n : upTo[i] = upTo[i - 1] \o piece[i]

FindsIn(t, finds) ==
  /\ IsFiniteSet(finds)
  /\ \A f \in finds : /\ f.rule \in Nat /\ f.index \in 1 .. Len(t) /\ f.length \in Nat /\ f.length >= 1
                      /\ f.index + f.length <= Len(t) + 1 /\ f.meant \in Texts
  /\ \A f, g \in finds : f # g => f.index + f.length <= g.index \/ g.index + g.length <= f.index

SaysTheSame(t, finds, piece) ==
  /\ \A f \in finds : /\ piece[f.index] = f.meant
                      /\ \A j \in f.index + 1 .. f.index + f.length - 1 : piece[j] = << >>
  /\ \A j \in 1 .. Len(t) :
       (\A f \in finds : ~(f.index <= j /\ j < f.index + f.length)) => piece[j] = <<t[j]>>

Then(p, q) == p \o q

\* Three texts in a row, grouped either way.
LEMMA Grouped == \A p, q, r \in Texts : Then(Then(p, q), r) = Then(p, Then(q, r))
  BY ConcatAssociative DEF Then, Texts

\* Letters that stay as they are.
LEMMA JoinPlain ==
  ASSUME NEW t \in Texts, NEW piece, NEW upTo, Joins(upTo, piece, Len(t)),
         NEW a \in 0 .. Len(t), NEW b \in a .. Len(t), \A j \in a + 1 .. b : piece[j] = <<t[j]>>
  PROVE  upTo[b] = upTo[a] \o SubSeq(t, a + 1, b)
  <1> DEFINE n == Len(t)
             Holds(k) == upTo[k] = upTo[a] \o SubSeq(t, a + 1, k)
             S == {d \in Nat : a + d <= b => Holds(a + d)}
  <1>1. n \in Nat /\ t \in Seq(Letter) BY DEF Texts
  <1>2. a \in 0 .. n /\ b \in a .. n OBVIOUS
  <1>3. (\A i \in 0 .. n : upTo[i] \in Seq(Letter)) /\ \A i \in 1 .. n : upTo[i] = upTo[i - 1] \o piece[i]
    BY DEF Joins, Texts
  <1> HIDE DEF n, Holds
  <1>4. 0 \in S
    <2>1. a + 0 = a /\ a \in Int /\ a + 1 \in Int /\ a < a + 1 BY <1>1, <1>2
    <2>2. SubSeq(t, a + 1, a) = << >> BY <2>1, SubSeqEmpty
    <2>3. upTo[a] \o << >> = upTo[a] BY <1>3, <1>2, ConcatEmptySeq
    <2>4. Holds(a) BY <2>2, <2>3 DEF Holds
    <2> QED BY <2>1, <2>4
  <1>5. ASSUME NEW d \in Nat, d \in S PROVE d + 1 \in S
    <2> SUFFICES ASSUME a + (d + 1) <= b PROVE Holds(a + (d + 1))
      OBVIOUS
    <2> DEFINE k == a + (d + 1)
    <2>1. k \in 1 .. n /\ k - 1 = a + d /\ k - 1 <= b /\ k \in a + 1 .. b BY <1>1, <1>2
    <2>2. upTo[k - 1] = upTo[a] \o SubSeq(t, a + 1, k - 1)
      <3>1. Holds(k - 1) BY <1>5, <2>1
      <3> QED BY <3>1 DEF Holds
    <2>3. upTo[k] = upTo[k - 1] \o <<t[k]>> BY <1>3, <2>1
    <2> DEFINE m == a + 1
    <2>4. m \in 1 .. Len(t) /\ k \in m .. Len(t) BY <1>1, <1>2, <2>1 DEF n
    <2> HIDE DEF k, m
    <2>5. SubSeq(t, m, k) = SubSeq(t, m, k - 1) \o <<t[k]>> BY <1>1, <2>4, SubSeqRecursiveSecond
    <2> DEFINE p == upTo[a]
               q == SubSeq(t, m, k - 1)
               e == <<t[k]>>
    <2>6. p \in Seq(Letter) BY <1>3, <1>2
    <2>7. q \in Seq(Letter)
      <3>1. \A i \in m .. k - 1 : i \in 1 .. n BY <1>1, <1>2, <2>1, <2>4
      <3>2. \A i \in m .. k - 1 : t[i] \in Letter BY <1>1, <3>1 DEF n
      <3>3. m \in Int /\ k - 1 \in Int BY <1>1, <1>2, <2>1, <2>4
      <3> QED BY <3>2, <3>3, SubSeqProperties
    <2>8. e \in Seq(Letter)
      <3>1. t[k] \in Letter BY <1>1, <2>1 DEF n
      <3> QED BY <3>1
    <2>9. upTo[k] = (p \o q) \o e BY <2>2, <2>3 DEF m
    <2> HIDE DEF p, q, e
    <2>10. (p \o q) \o e = p \o (q \o e)
      <3>1. p \in Texts /\ q \in Texts /\ e \in Texts BY <2>6, <2>7, <2>8 DEF Texts
      <3>2. Then(Then(p, q), e) = Then(p, Then(q, e)) BY <3>1, Grouped
      <3> QED BY <3>2 DEF Then
    <2>11. upTo[k] = upTo[a] \o SubSeq(t, m, k) BY <2>5, <2>9, <2>10 DEF p, q, e
    <2> QED BY <2>11 DEF k, m, Holds
  <1> HIDE DEF S
  <1>6. b - a \in Nat /\ a + (b - a) = b BY <1>1, <1>2
  <1>7. b - a \in S BY <1>4, <1>5, <1>6, Inductively
  <1>8. Holds(b) BY <1>1, <1>6, <1>7, <1>2 DEF S
  <1> QED BY <1>8 DEF Holds

\* Letters that are swallowed.
LEMMA JoinSwallowed ==
  ASSUME NEW n \in Nat, NEW piece, NEW upTo, Joins(upTo, piece, n),
         NEW a \in 0 .. n, NEW b \in a .. n, \A j \in a + 1 .. b : piece[j] = << >>
  PROVE  upTo[b] = upTo[a]
  <1> DEFINE S == {d \in Nat : a + d <= b => upTo[a + d] = upTo[a]}
  <1>1. (\A i \in 0 .. n : upTo[i] \in Seq(Letter)) /\ \A i \in 1 .. n : upTo[i] = upTo[i - 1] \o piece[i]
    BY DEF Joins, Texts
  <1>2. 0 \in S OBVIOUS
  <1>3. ASSUME NEW d \in Nat, d \in S PROVE d + 1 \in S
    <2> SUFFICES ASSUME a + (d + 1) <= b PROVE upTo[a + (d + 1)] = upTo[a] OBVIOUS
    <2> DEFINE k == a + (d + 1)
    <2>1. k \in 1 .. n /\ k - 1 = a + d /\ k - 1 <= b /\ k \in a + 1 .. b /\ k - 1 \in 0 .. n OBVIOUS
    <2>2. upTo[k - 1] = upTo[a] BY <1>3, <2>1
    <2>3. upTo[k] = upTo[k - 1] \o << >> BY <1>1, <2>1
    <2> HIDE DEF k
    <2>4. upTo[k - 1] \o << >> = upTo[k - 1] BY <1>1, <2>1, ConcatEmptySeq
    <2> QED BY <2>2, <2>3, <2>4 DEF k
  <1> HIDE DEF S
  <1>4. b - a \in Nat /\ a + (b - a) = b OBVIOUS
  <1>5. b - a \in S BY <1>2, <1>3, <1>4, Inductively
  <1> QED BY <1>4, <1>5 DEF S

\* Cutting a text whose end was replaced, before the part replaced.
LEMMA CutBefore ==
  ASSUME NEW t \in Texts, NEW m \in 0 .. Len(t), NEW R \in Texts, NEW a \in 0 .. m, NEW c \in 1 .. m + 1
  PROVE  LET x == SubSeq(t, 1, m) \o R
         IN  SubSeq(x, 1, a) = SubSeq(t, 1, a) /\ SubSeq(x, c, Len(x)) = SubSeq(t, c, m) \o R
  <1> DEFINE p == SubSeq(t, 1, m)
             x == p \o R
             n == Len(t)
  <1>1. t \in Seq(Letter) /\ R \in Seq(Letter) /\ n \in Nat /\ Len(R) \in Nat BY DEF Texts
  <1>2. m \in 0 .. n /\ a \in 0 .. m /\ c \in 1 .. m + 1 OBVIOUS
  <1>3. p \in Seq(Letter) /\ Len(p) = m /\ \A i \in 1 .. m : p[i] = t[i] BY <1>1
  <1> HIDE DEF p
  <1>4. x \in Seq(Letter) /\ Len(x) = m + Len(R)
        /\ (\A i \in 1 .. m : x[i] = t[i]) /\ \A i \in 1 .. Len(R) : x[m + i] = R[i]
    BY <1>1, <1>3
  <1> HIDE DEF x, n
  <1>5. SubSeq(x, 1, a) = SubSeq(t, 1, a)
    <2> DEFINE u == SubSeq(x, 1, a)
               v == SubSeq(t, 1, a)
    <2>1. u \in Seq(Letter) /\ Len(u) = a /\ \A i \in 1 .. a : u[i] = x[i] BY <1>1, <1>4, <1>2
    <2>2. v \in Seq(Letter) /\ Len(v) = a /\ \A i \in 1 .. a : v[i] = t[i] BY <1>1, <1>2 DEF n
    <2>3. \A i \in 1 .. a : x[i] = t[i]
      <3>1. \A i \in 1 .. a : i \in 1 .. m BY <1>1, <1>2
      <3> QED BY <1>4, <3>1
    <2> HIDE DEF u, v
    <2>4. \A i \in 1 .. Len(u) : u[i] = v[i] BY <2>1, <2>2, <2>3
    <2>5. u = v BY <2>1, <2>2, <2>4, SeqEqual
    <2> QED BY <2>5 DEF u, v
  <1>6. SubSeq(x, c, Len(x)) = SubSeq(t, c, m) \o R
    <2> DEFINE l == Len(x)
               k == m - c + 1
               u == SubSeq(x, c, l)
               q == SubSeq(t, c, m)
               v == q \o R
    <2>1. l \in Nat /\ k \in Nat /\ c + k = m + 1 /\ l = m + Len(R) BY <1>1, <1>4, <1>2
    <2> HIDE DEF l, k
    <2>2. u \in Seq(Letter) /\ Len(u) = k + Len(R) /\ \A i \in 1 .. k + Len(R) : u[i] = x[c + i - 1]
      <3>1. \A i \in c .. l : i \in 1 .. Len(x) BY <1>1, <1>4, <1>2, <2>1
      <3>2. \A i \in c .. l : x[i] \in Letter BY <1>4, <3>1
      <3>3. c \in Int /\ l \in Int BY <1>2, <2>1
      <3>4. /\ u \in Seq(Letter) /\ Len(u) = (IF c <= l THEN l - c + 1 ELSE 0)
            /\ \A i \in 1 .. l - c + 1 : u[i] = x[c + i - 1]
        BY <3>2, <3>3, SubSeqProperties
      <3>5. l - c + 1 = k + Len(R) /\ (~(c <= l) => k + Len(R) = 0) BY <1>1, <1>2, <2>1
      <3> QED BY <3>4, <3>5
    <2>3. q \in Seq(Letter) /\ Len(q) = k /\ \A i \in 1 .. k : q[i] = t[c + i - 1]
      <3>1. \A i \in c .. m : i \in 1 .. n BY <1>1, <1>2
      <3>2. \A i \in c .. m : t[i] \in Letter BY <1>1, <3>1 DEF n
      <3>3. c \in Int /\ m \in Int BY <1>1, <1>2
      <3>4. /\ q \in Seq(Letter) /\ Len(q) = (IF c <= m THEN m - c + 1 ELSE 0)
            /\ \A i \in 1 .. m - c + 1 : q[i] = t[c + i - 1]
        BY <3>2, <3>3, SubSeqProperties
      <3>5. m - c + 1 = k /\ (~(c <= m) => k = 0) BY <1>1, <1>2, <2>1
      <3> QED BY <3>4, <3>5
    <2> HIDE DEF u, q
    <2>4. v \in Seq(Letter) /\ Len(v) = k + Len(R)
          /\ (\A i \in 1 .. k : v[i] = q[i]) /\ \A i \in 1 .. Len(R) : v[k + i] = R[i]
      <3>1. /\ v \in Seq(Letter) /\ Len(v) = Len(q) + Len(R)
            /\ \A i \in 1 .. Len(q) + Len(R) : v[i] = IF i <= Len(q) THEN q[i] ELSE R[i - Len(q)]
        BY <1>1, <2>3, ConcatProperties
      <3> HIDE DEF v
      <3>2. \A i \in 1 .. k : i \in 1 .. k + Len(R) /\ i <= k BY <1>1, <2>1
      <3>3. \A i \in 1 .. Len(R) : k + i \in 1 .. k + Len(R) /\ ~(k + i <= k) /\ (k + i) - k = i BY <1>1, <2>1
      <3>4. \A i \in 1 .. k : v[i] = q[i] BY <2>3, <3>1, <3>2
      <3>5. \A i \in 1 .. Len(R) : v[k + i] = R[i] BY <2>3, <3>1, <3>3
      <3> QED BY <2>3, <3>1, <3>4, <3>5
    <2> HIDE DEF v
    <2>5. ASSUME NEW i \in 1 .. k + Len(R) PROVE u[i] = v[i]
      <3>1. CASE i <= k
        <4>1. i \in 1 .. k /\ c + i - 1 \in 1 .. m BY <1>1, <1>2, <2>1, <3>1
        <4> QED BY <1>4, <2>2, <2>3, <2>4, <4>1
      <3>2. CASE ~(i <= k)
        <4>1. i - k \in 1 .. Len(R) /\ c + i - 1 = m + (i - k) /\ k + (i - k) = i BY <1>1, <1>2, <2>1, <3>2
        <4>2. u[i] = x[m + (i - k)] BY <2>2, <4>1
        <4>3. x[m + (i - k)] = R[i - k] BY <1>4, <4>1
        <4>4. v[k + (i - k)] = R[i - k] BY <2>4, <4>1
        <4> QED BY <4>1, <4>2, <4>3, <4>4
      <3> QED BY <3>1, <3>2
    <2>6. Len(u) = Len(v) /\ \A i \in 1 .. Len(u) : u[i] = v[i] BY <2>2, <2>4, <2>5
    <2>7. u = v BY <2>2, <2>4, <2>6, SeqEqual
    <2> QED BY <2>7 DEF u, v, q, l
  <1> QED BY <1>5, <1>6 DEF x, p
\* Replacing what was found, from right to left, comes to the same as going
\* through the letters from left to right.
Replacing(t, order, g, n) == g = [k \in 0 .. n |-> IF k = 0 THEN t ELSE Substituted(g[k - 1], order[k])]

\* Four texts in a row, grouped either way.
LEMMA Regrouped ==
  ASSUME NEW p \in Texts, NEW q \in Texts, NEW r \in Texts, NEW s \in Texts
  PROVE  /\ Then(Then(p, q), Then(r, s)) = Then(p, Then(Then(q, r), s))
         /\ Then(Then(Then(p, q), r), s) = Then(p, Then(Then(q, r), s))
  <1>1. \A x, y, z \in Texts : Then(Then(x, y), z) = Then(x, Then(y, z)) BY Grouped
  <1>2. \A x, y \in Texts : Then(x, y) \in Texts BY ConcatProperties DEF Then, Texts
  <1>3. Then(p, q) \in Texts /\ Then(q, r) \in Texts /\ Then(r, s) \in Texts BY <1>2
  <1>4. Then(Then(p, q), Then(r, s)) = Then(p, Then(q, Then(r, s))) BY <1>1, <1>3
  <1>5. Then(q, Then(r, s)) = Then(Then(q, r), s) BY <1>1, <1>3
  <1>6. Then(Then(Then(p, q), r), s) = Then(p, Then(Then(q, r), s)) BY <1>1, <1>3
  <1> QED BY <1>4, <1>5, <1>6

\* Whatever order they were found in: replacing the findings joins the pieces.
LEMMA ReplacedIsJoined ==
  ASSUME NEW t \in Texts, NEW finds, FindsIn(t, finds), NEW piece, SaysTheSame(t, finds, piece),
         NEW upTo, Joins(upTo, piece, Len(t))
  PROVE  ApplySuggestions(t, finds) = upTo[Len(t)]
  <1> DEFINE n == Len(t)
             order == FromRight(finds)
             o == SortedBy(finds, order)
             c == Cardinality(finds)
             b(k) == IF k = 0 THEN n + 1 ELSE o[k].index
             e(k) == o[k].index + o[k].length
             mid(k) == SubSeq(t, e(k), b(k - 1) - 1)
             head(k) == SubSeq(t, 1, b(k) - 1)
             step == [x \in (1 .. c) \X Texts |-> (o[x[1]].meant \o mid(x[1])) \o x[2]]
             done == CHOOSE g : Replacing(t, o, g, c)
  <1>1. n \in Nat /\ t \in Seq(Letter) BY DEF Texts
  <1>2. /\ IsFiniteSet(finds)
        /\ \A f \in finds : /\ f.rule \in Nat /\ f.index \in 1 .. n /\ f.length \in Nat /\ f.length >= 1
                            /\ f.index + f.length <= n + 1 /\ f.meant \in Seq(Letter)
        /\ \A f, g \in finds : f # g => f.index + f.length <= g.index \/ g.index + g.length <= f.index
    BY DEF FindsIn, Texts
  <1> HIDE DEF n
  <1>3. \A f, g \in finds : <<f, g>> \in order <=> f.index > g.index \/ (f.index = g.index /\ f.rule < g.rule)
    BY DEF FromRight
  <1>4. \A f, g \in finds : f # g => f.index > g.index \/ g.index > f.index BY <1>1, <1>2
  <1>5. \A f, g \in finds : <<f, g>> \in order <=> f.index > g.index
    <2> HIDE DEF order
    <2> TAKE f, g \in finds
    <2>1. f.index \in Int /\ g.index \in Int /\ f.rule \in Nat /\ g.rule \in Nat BY <1>1, <1>2
    <2>2. CASE f = g
      <3>1. ~(f.rule < g.rule) /\ ~(f.index > g.index) BY <2>1, <2>2
      <3> QED BY <1>3, <3>1
    <2>3. CASE f # g
      <3>1. f.index # g.index BY <1>4, <2>1, <2>3
      <3> QED BY <1>3, <3>1
    <2> QED BY <2>2, <2>3
  <1>6. Orders(finds, order)
    <2> HIDE DEF order
    <2>1. \A f \in finds : f.index \in Int BY <1>1, <1>2
    <2> QED BY <1>4, <1>5, <2>1 DEF Orders
  <1> HIDE DEF order
  <1>7. /\ c \in Nat /\ o \in [1 .. c -> finds]
        /\ \A i, j \in 1 .. c : i < j => <<o[i], o[j]>> \in order
        /\ \A f \in finds : \E k \in 1 .. c : o[k] = f
    BY <1>2, <1>6, SortedHas
  <1>8. ApplySuggestions(t, finds) = done[c]
    <2>1. Len(o) = c BY <1>7
    <2> DEFINE l == Len(o)
    <2>2. ApplySuggestions(t, finds) = (CHOOSE g : Replacing(t, o, g, l))[l]
      BY DEF ApplySuggestions, Replacing, order
    <2> QED BY <2>1, <2>2
  <1> HIDE DEF o, c, done
  <1>9. \A k \in 1 .. c : o[k] \in finds BY <1>7
  <1>10. \A k \in 1 .. c : /\ o[k].index \in 1 .. n /\ o[k].length \in Nat /\ o[k].length >= 1
                           /\ o[k].index + o[k].length <= n + 1 /\ o[k].meant \in Seq(Letter)
    BY <1>2, <1>9
  <1>11. \A i, j \in 1 .. c : i < j => o[i].index > o[j].index BY <1>5, <1>7, <1>9
  <1>12. \A i, j \in 1 .. c : i < j => o[j].index + o[j].length <= o[i].index
    <2> TAKE i, j \in 1 .. c
    <2> HAVE i < j
    <2>1. o[i].index > o[j].index /\ o[i].index \in Int /\ o[j].index \in Int /\ o[i].length \in Nat
      BY <1>1, <1>10, <1>11
    <2>2. o[i] # o[j] BY <2>1
    <2>3. o[i].index + o[i].length <= o[j].index \/ o[j].index + o[j].length <= o[i].index BY <1>2, <1>9, <2>2
    <2> QED BY <2>1, <2>3
  <1>13. \A k \in 0 .. c : b(k) \in 1 .. n + 1
    <2> TAKE k \in 0 .. c
    <2>1. CASE k = 0 BY <1>1, <2>1
    <2>2. CASE k # 0
      <3>1. k \in 1 .. c BY <1>7, <2>2
      <3> QED BY <1>1, <1>10, <2>2, <3>1
    <2> QED BY <2>1, <2>2
  <1>14. \A k \in 1 .. c : k \in 0 .. c /\ k - 1 \in 0 .. c /\ b(k) = o[k].index /\ b(k) < e(k) /\ e(k) <= b(k - 1) /\ e(k) \in Nat
    <2> TAKE k \in 1 .. c
    <2>1. k \in 0 .. c /\ k - 1 \in 0 .. c /\ b(k) = o[k].index BY <1>7
    <2>2. b(k) < e(k) /\ e(k) \in Nat BY <1>1, <1>10, <2>1
    <2>3. e(k) <= b(k - 1)
      <3>1. CASE k = 1 BY <1>10, <3>1
      <3>2. CASE k # 1
        <4>1. k - 1 \in 1 .. c /\ k - 1 < k /\ k - 1 # 0 BY <1>7, <3>2
        <4> QED BY <1>12, <4>1
      <3> QED BY <3>1, <3>2
    <2> QED BY <2>1, <2>2, <2>3
  <1>15. /\ \A f \in finds : /\ piece[f.index] = f.meant
                             /\ \A j \in f.index + 1 .. f.index + f.length - 1 : piece[j] = << >>
         /\ \A j \in 1 .. n : (\A f \in finds : ~(f.index <= j /\ j < f.index + f.length)) => piece[j] = <<t[j]>>
    BY DEF SaysTheSame, n
  <1>16. ASSUME NEW k \in 1 .. c, NEW j \in e(k) .. b(k - 1) - 1 PROVE piece[j] = <<t[j]>>
    <2>1. j \in 1 .. n /\ j >= e(k) /\ j < b(k - 1)
      <3>1. e(k) >= 1 /\ b(k - 1) <= n + 1 /\ b(k - 1) \in Int /\ e(k) \in Int BY <1>1, <1>13, <1>14
      <3> HIDE DEF e, b
      <3> QED BY <1>1, <1>16, <3>1
    <2>2. ASSUME NEW f \in finds, f.index <= j, j < f.index + f.length PROVE FALSE
      <3>1. PICK i \in 1 .. c : o[i] = f BY <1>7
      <3>2. i < k \/ i = k \/ k < i BY <1>7
      <3>3. j \in Int /\ f.index \in Int /\ f.length \in Nat BY <1>1, <1>2, <2>1
      <3>4. CASE i < k
        <4>1. k # 1 /\ k - 1 \in 1 .. c /\ (i < k - 1 \/ i = k - 1) BY <1>7, <3>4
        <4>2. b(k - 1) = o[k - 1].index /\ o[k - 1].index \in Int BY <1>1, <1>10, <4>1
        <4>3. o[i].index >= o[k - 1].index
          <5>1. CASE i < k - 1 BY <1>11, <3>1, <3>3, <4>1, <4>2, <5>1
          <5>2. CASE i = k - 1 BY <4>2, <5>2
          <5> QED BY <4>1, <5>1, <5>2
        <4> QED BY <2>1, <2>2, <3>1, <3>3, <4>2, <4>3
      <3>5. CASE i = k BY <2>1, <2>2, <3>1, <3>3, <3>5
      <3>6. CASE k < i
        <4>1. f.index + f.length <= o[k].index BY <1>12, <3>1, <3>6
        <4>2. o[k].index = b(k) /\ b(k) < e(k) /\ e(k) \in Nat /\ o[k].index \in Int BY <1>1, <1>10, <1>14
        <4> HIDE DEF e, b
        <4> QED BY <2>1, <2>2, <3>3, <4>1, <4>2
      <3> QED BY <3>2, <3>4, <3>5, <3>6
    <2> QED BY <1>15, <2>1, <2>2
  <1>17. ASSUME NEW j \in 1 .. b(c) - 1 PROVE piece[j] = <<t[j]>>
    <2>1. b(c) \in 1 .. n + 1 BY <1>7, <1>13
    <2>2. j \in 1 .. n /\ j < b(c)
      <3> HIDE DEF b
      <3> QED BY <1>1, <1>17, <2>1
    <2>3. ASSUME NEW f \in finds, f.index <= j PROVE FALSE
      <3>1. PICK i \in 1 .. c : o[i] = f BY <1>7
      <3>2. c # 0 /\ c \in 1 .. c /\ (i < c \/ i = c) BY <1>7, <3>1
      <3>3. b(c) = o[c].index /\ o[c].index \in Int /\ f.index \in Int /\ j \in Int BY <1>1, <1>2, <1>10, <2>2, <3>2
      <3>4. f.index >= o[c].index BY <1>11, <3>1, <3>2, <3>3
      <3> QED BY <2>2, <2>3, <3>3, <3>4
    <2> QED BY <1>15, <2>2, <2>3
  <1>18. (\A i \in 0 .. n : upTo[i] \in Seq(Letter)) /\ upTo[0] = << >>
         /\ \A i \in 1 .. n : upTo[i] = upTo[i - 1] \o piece[i]
    BY DEF Joins, Texts, n
  <1>19. \A k \in 1 .. c : mid(k) \in Seq(Letter)
    <2> TAKE k \in 1 .. c
    <2>1. e(k) \in Int /\ b(k - 1) - 1 \in Int /\ e(k) >= 1 /\ b(k - 1) - 1 <= n BY <1>1, <1>13, <1>14
    <2> DEFINE x == e(k)
               y == b(k - 1) - 1
    <2>2. x \in Int /\ y \in Int /\ x >= 1 /\ y <= n BY <2>1
    <2> HIDE DEF x, y
    <2>3. \A i \in x .. y : t[i] \in Letter
      <3>1. \A i \in x .. y : i \in 1 .. n BY <1>1, <2>2
      <3> QED BY <1>1, <3>1 DEF n
    <2>4. SubSeq(t, x, y) \in Seq(Letter) BY <2>2, <2>3, SubSeqProperties
    <2> QED BY <2>4 DEF x, y
  <1>20. \A k \in 0 .. c : head(k) \in Seq(Letter)
    <2> TAKE k \in 0 .. c
    <2> DEFINE y == b(k) - 1
    <2>1. y \in 0 .. n BY <1>1, <1>13
    <2> HIDE DEF y
    <2>2. \A i \in 1 .. y : t[i] \in Letter BY <1>1, <2>1 DEF n
    <2>3. y \in Int /\ 1 \in Int BY <1>1, <2>1
    <2>4. SubSeq(t, 1, y) \in Seq(Letter) BY <2>2, <2>3, SubSeqProperties
    <2> QED BY <2>4 DEF y
  \* Between two findings, and at one.
  <1>21. ASSUME NEW k \in 1 .. c PROVE upTo[b(k - 1) - 1] = (upTo[b(k) - 1] \o o[k].meant) \o mid(k)
    <2> DEFINE x == b(k)
               y == e(k)
               z == b(k - 1)
    <2>1. x = o[k].index /\ y = o[k].index + o[k].length /\ x \in 1 .. n /\ y \in x + 1 .. n + 1 /\ z \in y .. n + 1
      <3>1. x = o[k].index /\ y = o[k].index + o[k].length /\ x < y /\ y <= z /\ y \in Nat BY <1>14
      <3>2. x \in 1 .. n BY <1>10, <3>1
      <3>3. z \in 1 .. n + 1 BY <1>13, <1>14
      <3> HIDE DEF x, y, z
      <3> QED BY <1>1, <3>1, <3>2, <3>3
    <2>2. \A j \in y .. z - 1 : piece[j] = <<t[j]>> BY <1>16
    <2>3. mid(k) = SubSeq(t, y, z - 1) OBVIOUS
    <2> HIDE DEF x, y, z, b, e, mid
    <2>4. piece[x] = o[k].meant /\ \A j \in x + 1 .. y - 1 : piece[j] = << >>
      <3> DEFINE f == o[k]
      <3>1. f \in finds /\ x = f.index /\ y = f.index + f.length BY <1>9, <2>1
      <3> HIDE DEF f
      <3>2. /\ piece[f.index] = f.meant
            /\ \A j \in f.index + 1 .. f.index + f.length - 1 : piece[j] = << >>
        BY <1>15, <3>1
      <3>3. piece[x] = f.meant BY <3>1, <3>2
      <3>4. ASSUME NEW j \in x + 1 .. y - 1 PROVE piece[j] = << >>
        <4>1. f.index \in Int /\ f.length \in Int /\ x \in Int /\ y \in Int BY <1>1, <1>2, <2>1, <3>1
        <4>2. j \in f.index + 1 .. f.index + f.length - 1 BY <3>1, <3>4, <4>1
        <4> QED BY <3>2, <4>2
      <3> QED BY <3>3, <3>4 DEF f
    <2>5. upTo[x] = upTo[x - 1] \o o[k].meant BY <1>18, <2>1, <2>4
    <2>6. upTo[y - 1] = upTo[x]
      <3> DEFINE w == y - 1
      <3>1. x \in 0 .. n /\ w \in x .. n BY <1>1, <2>1
      <3>2. Joins(upTo, piece, n) BY DEF n
      <3> HIDE DEF w
      <3>3. \A j \in x + 1 .. w : piece[j] = << >> BY <2>4 DEF w
      <3>4. upTo[w] = upTo[x] BY <1>1, <3>1, <3>2, <3>3, JoinSwallowed
      <3> QED BY <3>4 DEF w
    <2>7. upTo[z - 1] = upTo[y - 1] \o SubSeq(t, y, z - 1)
      <3> DEFINE w == y - 1
                 v == z - 1
      <3>1. w \in 0 .. n /\ v \in w .. n /\ w + 1 = y BY <1>1, <2>1
      <3>2. \A j \in w + 1 .. v : piece[j] = <<t[j]>> BY <2>2, <3>1
      <3> HIDE DEF w, v
      <3>3. w \in 0 .. Len(t) /\ v \in w .. Len(t) BY <3>1 DEF n
      <3>4. upTo[v] = upTo[w] \o SubSeq(t, w + 1, v) BY <3>2, <3>3, JoinPlain
      <3> QED BY <3>1, <3>4 DEF w, v
    <2>8. upTo[z - 1] = (upTo[x - 1] \o o[k].meant) \o mid(k) BY <2>3, <2>5, <2>6, <2>7
    <2> QED BY <2>8 DEF x, z
  <1>22. upTo[b(c) - 1] = head(c)
    <2> DEFINE y == b(c) - 1
    <2>1. y \in 0 .. n BY <1>1, <1>13, <1>7
    <2>2. \A j \in 1 .. y : piece[j] = <<t[j]>> BY <1>17
    <2>3. head(c) = SubSeq(t, 1, y) OBVIOUS
    <2> DEFINE a == 0
    <2> HIDE DEF y, head, b
    <2>4. c \in 0 .. c BY <1>7
    <2>5. a \in 0 .. Len(t) /\ y \in a .. Len(t) BY <1>1, <2>1 DEF n
    <2>6. a + 1 = 1 /\ upTo[a] = << >> BY <1>18
    <2>7. \A j \in a + 1 .. y : piece[j] = <<t[j]>> BY <2>2, <2>6
    <2> HIDE DEF a
    <2>8. upTo[y] = upTo[a] \o SubSeq(t, a + 1, y) BY <2>5, <2>7, JoinPlain
    <2>9. SubSeq(t, a + 1, y) = head(c) BY <2>3, <2>6
    <2>10. head(c) \in Seq(Letter) BY <1>20, <2>4
    <2>11. << >> \o head(c) = head(c) BY <2>10, ConcatEmptySeq
    <2> QED BY <2>6, <2>8, <2>9, <2>11 DEF y
  \* What stands behind a finding when it is replaced.
  <1>23. PICK R \in [0 .. c -> Texts] : Follows(R, << >>, c, step)
    <2>1. step \in StepsIn(Texts, c)
      <3>1. ASSUME NEW k \in 1 .. c, NEW x \in Texts PROVE (o[k].meant \o mid(k)) \o x \in Texts
        <4> DEFINE p == o[k].meant
                   q == mid(k)
        <4>1. p \in Seq(Letter) /\ q \in Seq(Letter) /\ x \in Seq(Letter) BY <1>10, <1>19, <3>1 DEF Texts
        <4> HIDE DEF p, q
        <4>2. (p \o q) \o x \in Seq(Letter) BY <4>1
        <4> QED BY <4>2 DEF p, q, Texts
      <3> HIDE DEF mid
      <3>2. \A x \in (1 .. c) \X Texts : (o[x[1]].meant \o mid(x[1])) \o x[2] \in Texts BY <3>1
      <3> QED BY <3>2 DEF StepsIn
    <2>2. << >> \in Texts BY DEF Texts
    <2> DEFINE V == Texts
               a == << >>
    <2>3. a \in V /\ step \in StepsIn(V, c) BY <2>1, <2>2
    <2> HIDE DEF V, a, step
    <2>4. \E f \in [0 .. c -> V] : Follows(f, a, c, step) BY <1>7, <2>3, Recursion
    <2> QED BY <2>4 DEF V, a
  <1>24. (\A k \in 0 .. c : R[k] \in Seq(Letter)) /\ R[0] = << >> BY <1>7, <1>23 DEF Texts, Follows
  <1>25. \A k \in 1 .. c : R[k] = (o[k].meant \o mid(k)) \o R[k - 1]
    <2> TAKE k \in 1 .. c
    <2>1. k - 1 \in 0 .. c BY <1>14
    <2>2. R[k - 1] \in Texts BY <1>23, <2>1
    <2>3. R[k] = step[<<k, R[k - 1]>>] BY <1>23 DEF Follows
    <2> HIDE DEF mid
    <2>4. step[<<k, R[k - 1]>>] = (o[k].meant \o mid(k)) \o R[k - 1] BY <2>2
    <2> QED BY <2>3, <2>4
  <1> HIDE DEF step
  <1>26. c \in Nat /\ \A k \in 1 .. c : k \in 0 .. c /\ k - 1 \in 0 .. c BY <1>7, <1>14
  <1>27. \A k \in 0 .. c : upTo[n] = upTo[b(k) - 1] \o R[k]
    <2> DEFINE Holds(k) == upTo[n] = upTo[b(k) - 1] \o R[k]
               S == {k \in Nat : k <= c => Holds(k)}
    <2>1. 0 \in S
      <3>1. b(0) - 1 = n BY <1>1
      <3>2. upTo[n] \in Seq(Letter) BY <1>1, <1>18
      <3>3. upTo[n] \o << >> = upTo[n] BY <3>2, ConcatEmptySeq
      <3> HIDE DEF b
      <3> QED BY <1>24, <3>1, <3>3
    <2>2. ASSUME NEW k \in Nat, k \in S PROVE k + 1 \in S
      <3> HIDE DEF Holds
      <3> SUFFICES ASSUME k + 1 <= c PROVE Holds(k + 1) OBVIOUS
      <3> DEFINE i == k + 1
      <3>1. i \in 1 .. c /\ i - 1 = k /\ i \in 0 .. c /\ k \in 0 .. c /\ k <= c BY <1>26
      <3>2. upTo[n] = upTo[b(k) - 1] \o R[k]
        <4>1. Holds(k) BY <2>2, <3>1
        <4> QED BY <4>1 DEF Holds
      <3> DEFINE p == upTo[b(i) - 1]
                 q == o[i].meant
                 m == mid(i)
                 s == R[k]
      <3>3. b(i) - 1 \in 0 .. n
        <4>1. b(i) \in 1 .. n + 1 BY <1>13, <3>1
        <4> HIDE DEF b
        <4> QED BY <1>1, <4>1
      <3> HIDE DEF i
      <3>4. upTo[b(k) - 1] = (p \o q) \o m BY <1>21, <3>1
      <3>5. R[i] = (q \o m) \o s BY <1>25, <3>1
      <3>6. p \in Seq(Letter) /\ q \in Seq(Letter) /\ m \in Seq(Letter) /\ s \in Seq(Letter)
        <4>1. p \in Seq(Letter)
          <5> HIDE DEF b
          <5> QED BY <1>18, <3>3
        <4> HIDE DEF p, b
        <4>2. q \in Seq(Letter) BY <1>10, <3>1
        <4>3. m \in Seq(Letter) BY <1>19, <3>1
        <4>4. s \in Seq(Letter) BY <1>24, <3>1
        <4> QED BY <4>1, <4>2, <4>3, <4>4
      <3>7. upTo[n] = ((p \o q) \o m) \o s /\ R[i] = (q \o m) \o s BY <3>2, <3>4, <3>5
      <3> HIDE DEF p, q, m, s
      <3>8. ((p \o q) \o m) \o s = p \o ((q \o m) \o s) 
        <4>1. p \in Texts /\ q \in Texts /\ m \in Texts /\ s \in Texts BY <3>6 DEF Texts
        <4>2. Then(Then(Then(p, q), m), s) = Then(p, Then(Then(q, m), s)) BY <4>1, Regrouped
        <4> QED BY <4>2 DEF Then
      <3>9. upTo[n] = p \o R[i] BY <3>7, <3>8
      <3> QED BY <3>9 DEF p, i, Holds
    <2> HIDE DEF S
    <2>3. \A k \in Nat : k \in S BY <2>1, <2>2, Inductively
    <2> HIDE DEF Holds
    <2>4. \A k \in 0 .. c : Holds(k) BY <1>26, <2>3 DEF S
    <2> QED BY <2>4 DEF Holds
  \* The text after each replacement.
  <1> DEFINE g == [k \in 0 .. c |-> head(k) \o R[k]]
  <1>28. g[0] = t
    <2>1. head(0) = SubSeq(t, 1, n) /\ 0 \in 0 .. c
      <3>1. b(0) - 1 = n /\ 0 \in 0 .. c BY <1>1, <1>26
      <3> HIDE DEF b
      <3> QED BY <3>1
    <2>2. SubSeq(t, 1, n) = t BY <1>1, SubSeqFull DEF n
    <2>3. t \o << >> = t BY <1>1, ConcatEmptySeq
    <2> HIDE DEF head
    <2> QED BY <1>24, <2>1, <2>2, <2>3
  <1>29. ASSUME NEW k \in 1 .. c PROVE g[k] = Substituted(g[k - 1], o[k])
    <2> DEFINE m == b(k - 1) - 1
               a == o[k].index - 1
               z == e(k)
               r == R[k - 1]
               x == g[k - 1]
               p == head(k)
               q == o[k].meant
               d == mid(k)
    <2>1. m \in 0 .. n /\ a \in 0 .. m /\ z \in 1 .. m + 1 /\ a + 1 = b(k) /\ a = b(k) - 1
      <3>1. b(k - 1) \in 1 .. n + 1 /\ b(k) \in 1 .. n + 1 BY <1>13, <1>14
      <3>2. b(k) = o[k].index /\ b(k) < e(k) /\ e(k) <= b(k - 1) /\ e(k) \in Nat BY <1>14
      <3> HIDE DEF b, e
      <3> QED BY <1>1, <3>1, <3>2
    <2>2. r \in Texts BY <1>23, <1>26
    <2>3. x = SubSeq(t, 1, m) \o r BY <1>26
    <2>4. p = SubSeq(t, 1, a) BY <2>1
    <2>5. d = SubSeq(t, z, m) OBVIOUS
    <2>6. Substituted(x, o[k]) = (SubSeq(x, 1, a) \o q) \o SubSeq(x, z, Len(x)) BY DEF Substituted
    <2>7. g[k] = p \o R[k] BY <1>26
    <2>8. R[k] = (q \o d) \o r BY <1>25
    <2>9. p \in Seq(Letter) /\ q \in Seq(Letter) /\ d \in Seq(Letter) /\ r \in Seq(Letter)
      <3>1. p \in Seq(Letter) BY <1>20, <1>26
      <3>2. q \in Seq(Letter) BY <1>10
      <3>3. d \in Seq(Letter) BY <1>19
      <3>4. r \in Seq(Letter) BY <1>24, <1>26
      <3> QED BY <3>1, <3>2, <3>3, <3>4
    <2> HIDE DEF m, a, z, r, x, p, q, d, g
    <2>10. SubSeq(x, 1, a) = SubSeq(t, 1, a) /\ SubSeq(x, z, Len(x)) = SubSeq(t, z, m) \o r
      <3> DEFINE y == SubSeq(t, 1, m) \o r
      <3>1. m \in 0 .. Len(t) BY <2>1 DEF n
      <3>2. SubSeq(y, 1, a) = SubSeq(t, 1, a) /\ SubSeq(y, z, Len(y)) = SubSeq(t, z, m) \o r
        BY <2>1, <2>2, <3>1, CutBefore
      <3> QED BY <2>3, <3>2
    <2>11. Substituted(x, o[k]) = (p \o q) \o (d \o r) BY <2>4, <2>5, <2>6, <2>10
    <2>12. (p \o q) \o (d \o r) = p \o ((q \o d) \o r) 
      <3>1. p \in Texts /\ q \in Texts /\ d \in Texts /\ r \in Texts BY <2>9 DEF Texts
      <3>2. Then(Then(p, q), Then(d, r)) = Then(p, Then(Then(q, d), r)) BY <3>1, Regrouped
      <3> QED BY <3>2 DEF Then
    <2> QED BY <2>7, <2>8, <2>11, <2>12 DEF x
  <1>30. g = [k \in 0 .. c |-> g[k]] OBVIOUS
  <1>31. g[c] = head(c) \o R[c] BY <1>26
  <1> HIDE DEF g
  <1>32. \A k \in 0 .. c : g[k] = IF k = 0 THEN t ELSE Substituted(g[k - 1], o[k])
    <2> TAKE k \in 0 .. c
    <2>1. CASE k = 0 BY <1>28, <2>1
    <2>2. CASE k # 0
      <3>1. k \in 1 .. c BY <1>26, <2>2
      <3> QED BY <1>29, <2>2, <3>1
    <2> QED BY <2>1, <2>2
  <1>33. Replacing(t, o, g, c) BY <1>30, <1>32 DEF Replacing
  <1>34. Replacing(t, o, done, c) BY <1>33 DEF done
  <1>35. \A k \in 0 .. c : done[k] = IF k = 0 THEN t ELSE Substituted(done[k - 1], o[k]) BY <1>34 DEF Replacing
  <1>36. done[c] = g[c]
    <2> DEFINE S == {k \in Nat : k <= c => done[k] = g[k]}
    <2>1. 0 \in S
      <3>1. 0 \in 0 .. c BY <1>26
      <3> QED BY <1>32, <1>35, <3>1
    <2>2. ASSUME NEW k \in Nat, k \in S PROVE k + 1 \in S
      <3> SUFFICES ASSUME k + 1 <= c PROVE done[k + 1] = g[k + 1] OBVIOUS
      <3>1. k + 1 \in 0 .. c /\ k + 1 # 0 /\ k + 1 - 1 = k /\ done[k] = g[k] BY <1>26, <2>2
      <3> QED BY <1>32, <1>35, <3>1
    <2> HIDE DEF S
    <2>3. c \in S BY <1>26, <2>1, <2>2, Inductively
    <2> QED BY <1>26, <2>3 DEF S
  <1> HIDE DEF head, b
  <1>37. upTo[n] = upTo[b(c) - 1] \o R[c] BY <1>27, <1>26
  <1>38. done[c] = upTo[n] BY <1>31, <1>36, <1>22, <1>37
  <1> QED BY <1>8, <1>38 DEF n
---------------------------------------------------------------------------
\* The slips of all the rules, and what becomes of each letter.
Slip(t, rules, n, s) == n \in 1 .. Len(rules) /\ s \in Slips(t, rules[n])

\* The slips of all the rules are apart, and they are what the scan finds.
LEMMA SlipsAre ==
  ASSUME NEW t \in Texts, NEW rules \in Seq(Rule), SlipsApart(t, rules)
  PROVE  /\ Plain(t) /\ Len(rules) \in Nat
         /\ \A n \in 1 .. Len(rules) : rules[n] \in Rule
         /\ \A n, s : Slip(t, rules, n, s) => s[1] \in 1 .. Len(t) /\ s[2] \in s[1] .. Len(t)
         /\ \A n, s, m, v : Slip(t, rules, n, s) /\ Slip(t, rules, m, v) => (n = m /\ s = v) \/ Disjoint(s, v)
         /\ \A f : f \in ScanText(t, rules) <=>
                     \E n, s : Slip(t, rules, n, s) /\ f = FindOf(t, n, rules[n], s)
  <1> DEFINE l == Len(rules)
  <1>1. l \in Nat /\ DOMAIN rules = 1 .. l /\ \A n \in 1 .. l : rules[n] \in Rule OBVIOUS
  <1> HIDE DEF l
  <1>2. /\ Filler \notin ToSet(t) /\ \A n \in 1 .. l : PlainPhrases(rules[n])
        /\ \A n \in 1 .. l : NoOverlap(t, ToSet(rules[n].keep))
        /\ \A n, m \in 1 .. l : \A s \in Slips(t, rules[n]), v \in Slips(t, rules[m]) :
             n # m \/ s # v => Disjoint(s, v)
    BY <1>1 DEF SlipsApart, NoOverlap
  <1>3. Plain(t) BY <1>2 DEF Plain
  <1>4. ASSUME NEW n \in 1 .. l
        PROVE  /\ \A s \in Slips(t, rules[n]) : s[1] \in 1 .. Len(t) /\ s[2] \in s[1] .. Len(t)
               /\ FoundBy(t, n, rules[n]) = {FindOf(t, n, rules[n], s) : s \in Slips(t, rules[n])}
    <2> DEFINE r == rules[n]
    <2>1. r \in Rule /\ PlainPhrases(r) /\ NoOverlap(t, ToSet(r.keep)) BY <1>1, <1>2
    <2>2. \A s, v \in Slips(t, r) : s # v => Disjoint(s, v) BY <1>2
    <2> HIDE DEF r
    <2>3. /\ \A s \in Slips(t, r) : s[1] \in 1 .. Len(t) /\ s[2] \in s[1] .. Len(t)
          /\ FoundBy(t, n, r) = {FindOf(t, n, r, s) : s \in Slips(t, r)}
      BY <1>3, <2>1, <2>2, SlipsFound
    <2> QED BY <2>3 DEF r
  <1>5. \A n, s : Slip(t, rules, n, s) => s[1] \in 1 .. Len(t) /\ s[2] \in s[1] .. Len(t)
    BY <1>4 DEF Slip, l
  <1>6. \A n, s, m, v : Slip(t, rules, n, s) /\ Slip(t, rules, m, v) => (n = m /\ s = v) \/ Disjoint(s, v)
    BY <1>2 DEF Slip, l
  <1>7. \A f : f \in ScanText(t, rules) <=> \E n \in 1 .. l : f \in FoundBy(t, n, rules[n])
    BY <1>1 DEF ScanText
  <1>8. \A f : f \in ScanText(t, rules) <=> \E n \in 1 .. l : \E s \in Slips(t, rules[n]) : f = FindOf(t, n, rules[n], s)
    <2>1. \A n \in 1 .. l : \A f : f \in FoundBy(t, n, rules[n]) <=> \E s \in Slips(t, rules[n]) : f = FindOf(t, n, rules[n], s)
      <3> TAKE n \in 1 .. l
      <3>1. FoundBy(t, n, rules[n]) = {FindOf(t, n, rules[n], s) : s \in Slips(t, rules[n])} BY <1>4
      <3> QED BY <3>1
    <2> TAKE f
    <2> DEFINE Hit(n) == f \in FoundBy(t, n, rules[n])
               Slipped(n) == \E s \in Slips(t, rules[n]) : f = FindOf(t, n, rules[n], s)
    <2>2. \A n \in 1 .. l : Hit(n) <=> Slipped(n) BY <2>1
    <2>3. f \in ScanText(t, rules) <=> \E n \in 1 .. l : Hit(n) BY <1>7
    <2> HIDE DEF Hit, Slipped
    <2>4. f \in ScanText(t, rules) <=> \E n \in 1 .. l : Slipped(n) BY <2>2, <2>3
    <2> QED BY <2>4 DEF Slipped
  <1>9. \A f : f \in ScanText(t, rules) <=> \E n, s : Slip(t, rules, n, s) /\ f = FindOf(t, n, rules[n], s)
    BY <1>8 DEF Slip, l
  <1> QED BY <1>1, <1>3, <1>5, <1>6, <1>9 DEF l

\* A slip becomes its suggestion, at its first letter; what is in no slip stays.
LEMMA PieceIs ==
  ASSUME NEW t \in Texts, NEW rules \in Seq(Rule), SlipsApart(t, rules)
  PROVE  /\ \A n, s : Slip(t, rules, n, s) =>
              /\ Piece(t, rules, s[1]) = Adapted(t, rules[n], s)
              /\ \A j \in s[1] + 1 .. s[2] : Piece(t, rules, j) = << >>
         /\ \A j : (\A n, s : Slip(t, rules, n, s) => j \notin s[1] .. s[2]) => Piece(t, rules, j) = <<t[j]>>
  <1> DEFINE slips == UNION {{[at |-> s, by |-> rules[n]] : s \in Slips(t, rules[n])} : n \in DOMAIN rules}
             starting(i) == {s \in slips : s.at[1] = i}
             said1(s) == IF t[s.at[2]] = "s" /\ Last(s.by.meant) # "s" THEN Append(s.by.meant, "s") ELSE s.by.meant
  <1>1. \A x : x \in slips <=> \E n, s : Slip(t, rules, n, s) /\ x = [at |-> s, by |-> rules[n]]
    <2>1. DOMAIN rules = 1 .. Len(rules) OBVIOUS
    <2> QED BY <2>1 DEF Slip
  <1>2. \A i : Piece(t, rules, i) =
          IF starting(i) # {} THEN said1(CHOOSE x \in starting(i) : TRUE)
          ELSE IF \E s \in slips : i \in s.at[1] .. s.at[2] THEN << >> ELSE <<t[i]>>
    BY DEF Piece
  <1>3. \A n, s : said1([at |-> s, by |-> rules[n]]) = Adapted(t, rules[n], s) BY DEF Adapted
  <1> HIDE DEF slips, said1
  <1>4. /\ \A n, s : Slip(t, rules, n, s) => s[1] \in 1 .. Len(t) /\ s[2] \in s[1] .. Len(t)
        /\ \A n, s, m, v : Slip(t, rules, n, s) /\ Slip(t, rules, m, v) => (n = m /\ s = v) \/ Disjoint(s, v)
        /\ Len(t) \in Nat
    BY SlipsAre, PlainIs
  <1>5. ASSUME NEW n, NEW s, Slip(t, rules, n, s), NEW m, NEW v, Slip(t, rules, m, v), v[1] \in s[1] .. s[2]
        PROVE  n = m /\ s = v
    <2>1. ~Disjoint(s, v) BY <1>4, <1>5 DEF Disjoint
    <2> QED BY <1>4, <1>5, <2>1
  <1>6. ASSUME NEW n, NEW s, Slip(t, rules, n, s)
        PROVE  Piece(t, rules, s[1]) = Adapted(t, rules[n], s)
    <2> DEFINE x == [at |-> s, by |-> rules[n]]
    <2>1. x \in slips /\ x.at[1] = s[1] BY <1>1, <1>6
    <2>2. x \in starting(s[1]) BY <2>1
    <2>3. ASSUME NEW y \in starting(s[1]) PROVE y = x
      <3>1. PICK m, v : Slip(t, rules, m, v) /\ y = [at |-> v, by |-> rules[m]] BY <1>1
      <3>2. v[1] = s[1] BY <3>1
      <3>3. v[1] \in s[1] .. s[2] BY <1>4, <1>6, <3>2
      <3>4. n = m /\ s = v BY <1>5, <1>6, <3>1, <3>3
      <3> QED BY <3>1, <3>4
    <2> HIDE DEF starting, x
    <2>4. (CHOOSE y \in starting(s[1]) : TRUE) = x BY <2>2, <2>3
    <2>5. Piece(t, rules, s[1]) = said1(x) BY <1>2, <2>2, <2>4
    <2> QED BY <1>3, <2>5 DEF x
  <1>7. ASSUME NEW n, NEW s, Slip(t, rules, n, s), NEW j \in s[1] + 1 .. s[2]
        PROVE  Piece(t, rules, j) = << >>
    <2> DEFINE x == [at |-> s, by |-> rules[n]]
    <2>1. j \in s[1] .. s[2] /\ j # s[1] BY <1>4, <1>7
    <2>2. x \in slips /\ j \in x.at[1] .. x.at[2] BY <1>1, <1>7, <2>1
    <2>3. ASSUME NEW y \in starting(j) PROVE FALSE
      <3>1. PICK m, v : Slip(t, rules, m, v) /\ y = [at |-> v, by |-> rules[m]] BY <1>1
      <3>2. v[1] = j BY <3>1
      <3>3. s = v BY <1>5, <1>7, <2>1, <3>1, <3>2
      <3> QED BY <2>1, <3>2, <3>3
    <2> HIDE DEF starting, x
    <2> QED BY <1>2, <2>2, <2>3
  <1>8. ASSUME NEW j, \A n, s : Slip(t, rules, n, s) => j \notin s[1] .. s[2]
        PROVE  Piece(t, rules, j) = <<t[j]>>
    <2>1. ASSUME NEW y \in slips PROVE j \notin y.at[1] .. y.at[2] /\ y.at[1] # j
      <3>1. PICK m, v : Slip(t, rules, m, v) /\ y = [at |-> v, by |-> rules[m]] BY <1>1
      <3>2. y.at = v /\ j \notin v[1] .. v[2] BY <1>8, <3>1
      <3>3. v[1] \in v[1] .. v[2] BY <1>4, <3>1
      <3> QED BY <3>2, <3>3
    <2>2. starting(j) = {} BY <2>1
    <2> HIDE DEF starting
    <2> QED BY <1>2, <2>1, <2>2
  <1> QED BY <1>6, <1>7, <1>8

\* A suggestion is a text.
LEMMA AdaptedIs == ASSUME NEW t, NEW r \in Rule, NEW s PROVE Adapted(t, r, s) \in Texts
  <1>1. r.meant \in Phrase BY DEF Rule
  <1>2. r.meant \in Texts BY <1>1, PhraseIs
  <1>3. "s" \in Letter BY LettersAre
  <1> DEFINE w == r.meant
  <1>4. w \in Seq(Letter) BY <1>2 DEF Texts
  <1> HIDE DEF w
  <1>5. Append(w, "s") \in Seq(Letter) BY <1>3, <1>4
  <1> QED BY <1>4, <1>5 DEF Adapted, Texts, w

\* What the scan finds lies in the text, apart.
LEMMA FindsAre ==
  ASSUME NEW t \in Texts, NEW rules \in Seq(Rule), SlipsApart(t, rules)
  PROVE  FindsIn(t, ScanText(t, rules))
  <1> DEFINE finds == ScanText(t, rules)
             n == Len(t)
  <1>1. t \in Texts /\ n \in Nat BY SlipsAre, PlainIs
  <1>2. /\ Len(rules) \in Nat /\ \A k \in 1 .. Len(rules) : rules[k] \in Rule
        /\ \A k, s : Slip(t, rules, k, s) => s[1] \in 1 .. n /\ s[2] \in s[1] .. n
        /\ \A k, s, m, v : Slip(t, rules, k, s) /\ Slip(t, rules, m, v) => (k = m /\ s = v) \/ Disjoint(s, v)
        /\ \A f : f \in finds <=> \E k, s : Slip(t, rules, k, s) /\ f = FindOf(t, k, rules[k], s)
    BY SlipsAre
  <1> HIDE DEF finds, n
  <1>3. ASSUME NEW f \in finds
        PROVE  /\ f.rule \in Nat /\ f.index \in 1 .. n /\ f.length \in Nat /\ f.length >= 1
               /\ f.index + f.length <= n + 1 /\ f.meant \in Texts
    <2>1. PICK k, s : Slip(t, rules, k, s) /\ f = FindOf(t, k, rules[k], s) BY <1>2
    <2>2. /\ f.rule = k /\ f.index = s[1] /\ f.length = s[2] - s[1] + 1 /\ f.meant = Adapted(t, rules[k], s)
      BY <2>1 DEF FindOf
    <2>3. k \in 1 .. Len(rules) /\ s[1] \in 1 .. n /\ s[2] \in s[1] .. n BY <1>2, <2>1 DEF Slip
    <2>4. f.meant \in Texts BY <1>2, <2>2, <2>3, AdaptedIs
    <2>5. k \in Nat BY <1>2, <2>3
    <2>6. f.length \in Nat /\ f.length >= 1 /\ f.index + f.length <= n + 1 BY <1>1, <2>2, <2>3
    <2> QED BY <2>2, <2>3, <2>4, <2>5, <2>6
  <1>4. ASSUME NEW f \in finds, NEW g \in finds, f # g
        PROVE  f.index + f.length <= g.index \/ g.index + g.length <= f.index
    <2>1. PICK k, s : Slip(t, rules, k, s) /\ f = FindOf(t, k, rules[k], s) BY <1>2
    <2>2. PICK m, v : Slip(t, rules, m, v) /\ g = FindOf(t, m, rules[m], v) BY <1>2
    <2>3. ~(k = m /\ s = v) BY <1>4, <2>1, <2>2
    <2>4. Disjoint(s, v) BY <1>2, <2>1, <2>2, <2>3
    <2>5. f.index = s[1] /\ f.length = s[2] - s[1] + 1 BY <2>1 DEF FindOf
    <2>6. g.index = v[1] /\ g.length = v[2] - v[1] + 1 BY <2>2 DEF FindOf
    <2>7. s[1] \in 1 .. n /\ s[2] \in s[1] .. n BY <1>2, <2>1
    <2>8. v[1] \in 1 .. n /\ v[2] \in v[1] .. n BY <1>2, <2>2
    <2> QED BY <1>1, <2>4, <2>5, <2>6, <2>7, <2>8 DEF Disjoint
  <1>5. IsFiniteSet(finds)
    <2> DEFINE h == [f \in finds |-> f.index]
    <2>1. h \in [finds -> 1 .. n] BY <1>3
    <2>2. ASSUME NEW f \in finds, NEW g \in finds, h[f] = h[g] PROVE f = g
      <3>1. f.index = g.index BY <2>2
      <3>2. f.index \in 1 .. n /\ f.length \in Nat /\ f.length >= 1 /\ g.length \in Nat /\ g.length >= 1 BY <1>3
      <3> HIDE DEF h
      <3>3. ~(f.index + f.length <= g.index) /\ ~(g.index + g.length <= f.index) BY <1>1, <3>1, <3>2
      <3> QED BY <1>4, <3>3
    <2> HIDE DEF h
    <2>3. h \in Injection(finds, 1 .. n) BY <2>1, <2>2, Fun_IsInj
    <2>4. IsFiniteSet(1 .. n) BY <1>1, FS_Interval
    <2> QED BY <2>3, <2>4, FS_Injection
  <1>6. FindsIn(t, finds) BY <1>3, <1>4, <1>5 DEF FindsIn, n
  <1> QED BY <1>6 DEF finds

Correcting(t, rules, g, n) == g = [i \in 0 .. n |-> IF i = 0 THEN << >> ELSE g[i - 1] \o Piece(t, rules, i)]

\* What becomes of a letter is a text.
LEMMA PieceText ==
  ASSUME NEW t \in Texts, NEW rules \in Seq(Rule), SlipsApart(t, rules), NEW j \in 1 .. Len(t)
  PROVE  Piece(t, rules, j) \in Texts
  <1>1. /\ Plain(t) /\ \A k \in 1 .. Len(rules) : rules[k] \in Rule
        /\ \A n, s : Slip(t, rules, n, s) => s[1] \in 1 .. Len(t) /\ s[2] \in s[1] .. Len(t)
    BY SlipsAre
  <1>2. t[j] \in Letter /\ Len(t) \in Nat BY <1>1, PlainIs
  <1>3. CASE \E n, s : Slip(t, rules, n, s) /\ j \in s[1] .. s[2]
    <2>1. PICK n, s : Slip(t, rules, n, s) /\ j \in s[1] .. s[2] BY <1>3
    <2>2. n \in 1 .. Len(rules) BY <2>1 DEF Slip
    <2>3. s[1] \in 1 .. Len(t) /\ s[2] \in s[1] .. Len(t) BY <1>1, <2>1
    <2>4. CASE j = s[1]
      <3>1. Piece(t, rules, j) = Adapted(t, rules[n], s) BY <2>1, <2>4, PieceIs
      <3> QED BY <1>1, <2>2, <3>1, AdaptedIs
    <2>5. CASE j # s[1]
      <3>1. j \in s[1] + 1 .. s[2] BY <1>2, <2>1, <2>3, <2>5
      <3>2. Piece(t, rules, j) = << >> BY <2>1, <3>1, PieceIs
      <3> QED BY <3>2 DEF Texts
    <2> QED BY <2>4, <2>5
  <1>4. CASE ~(\E n, s : Slip(t, rules, n, s) /\ j \in s[1] .. s[2])
    <2>1. \A n, s : Slip(t, rules, n, s) => j \notin s[1] .. s[2] BY <1>4
    <2>2. Piece(t, rules, j) = <<t[j]>> BY <2>1, PieceIs
    <2> QED BY <1>2, <2>2 DEF Texts
  <1> QED BY <1>3, <1>4

\* The reference joins the pieces.
LEMMA CorrectedJoins ==
  ASSUME NEW t \in Texts, NEW rules \in Seq(Rule), SlipsApart(t, rules),
         NEW piece, piece = [j \in 1 .. Len(t) |-> Piece(t, rules, j)]
  PROVE  \E upTo : Joins(upTo, piece, Len(t)) /\ Corrected(t, rules) = upTo[Len(t)]
  <1> DEFINE n == Len(t)
             step == [x \in (1 .. n) \X Texts |-> x[2] \o piece[x[1]]]
             upTo == CHOOSE g : Correcting(t, rules, g, n)
  <1>1. n \in Nat BY SlipsAre, PlainIs
  <1>2. \A j \in 1 .. n : piece[j] = Piece(t, rules, j) /\ piece[j] \in Texts BY PieceText
  <1>3. Corrected(t, rules) = upTo[n] BY DEF Corrected, Correcting
  <1> HIDE DEF n, upTo
  <1>4. step \in StepsIn(Texts, n)
    <2>1. ASSUME NEW j \in 1 .. n, NEW x \in Texts PROVE x \o piece[j] \in Texts
      <3> DEFINE p == piece[j]
      <3>1. p \in Seq(Letter) /\ x \in Seq(Letter) BY <1>2 DEF Texts
      <3> HIDE DEF p
      <3>2. x \o p \in Seq(Letter) BY <3>1
      <3> QED BY <3>2 DEF p, Texts
    <2>2. \A x \in (1 .. n) \X Texts : x[2] \o piece[x[1]] \in Texts BY <2>1
    <2> QED BY <2>2 DEF StepsIn
  <1>5. \A k \in 1 .. n : \A x \in Texts : step[<<k, x>>] = x \o piece[k] OBVIOUS
  <1>6. << >> \in Texts BY DEF Texts
  <1> DEFINE V == Texts
             a == << >>
  <1>7. a \in V /\ step \in StepsIn(V, n) BY <1>4, <1>6
  <1> HIDE DEF V, a, step
  <1>8. PICK R \in [0 .. n -> V] : Follows(R, a, n, step) BY <1>1, <1>7, Recursion
  <1>9. \A k \in 0 .. n : R[k] \in Texts /\ R[k] = IF k = 0 THEN << >> ELSE R[k - 1] \o Piece(t, rules, k)
    <2> TAKE k \in 0 .. n
    <2>1. R[k] \in Texts BY <1>8 DEF V
    <2>2. CASE k = 0 BY <1>8, <2>1, <2>2 DEF Follows, a
    <2>3. CASE k # 0
      <3>1. k \in 1 .. n /\ k - 1 \in 0 .. n BY <1>1, <2>3
      <3>2. R[k] = step[<<k, R[k - 1]>>] /\ R[k - 1] \in Texts BY <1>8, <3>1 DEF Follows, V
      <3>3. R[k] = R[k - 1] \o piece[k] BY <1>5, <3>1, <3>2
      <3> QED BY <1>2, <2>1, <2>3, <3>1, <3>3
    <2> QED BY <2>2, <2>3
  <1>10. R = [k \in 0 .. n |-> R[k]] BY <1>8
  <1>11. R = [k \in 0 .. n |-> IF k = 0 THEN << >> ELSE R[k - 1] \o Piece(t, rules, k)]
    <2> DEFINE e(k) == IF k = 0 THEN << >> ELSE R[k - 1] \o Piece(t, rules, k)
    <2>1. \A k \in 0 .. n : R[k] = e(k) BY <1>9
    <2> HIDE DEF e
    <2>2. R = [k \in 0 .. n |-> e(k)] BY <1>10, <2>1
    <2> QED BY <2>2 DEF e
  <1>12. Correcting(t, rules, R, n) BY <1>11 DEF Correcting
  <1>13. Correcting(t, rules, upTo, n) BY <1>12 DEF upTo
  <1>14. /\ upTo = [k \in 0 .. n |-> upTo[k]]
         /\ \A k \in 0 .. n : upTo[k] = IF k = 0 THEN << >> ELSE upTo[k - 1] \o Piece(t, rules, k)
    <2> DEFINE e(k) == IF k = 0 THEN << >> ELSE upTo[k - 1] \o Piece(t, rules, k)
    <2>1. upTo = [k \in 0 .. n |-> e(k)] BY <1>13 DEF Correcting
    <2> HIDE DEF e
    <2>2. \A k \in 0 .. n : upTo[k] = e(k) BY <2>1
    <2>3. upTo = [k \in 0 .. n |-> upTo[k]] BY <2>1, <2>2
    <2> QED BY <2>2, <2>3 DEF e
  <1>15. \A k \in 1 .. n : k \in 0 .. n /\ k # 0 /\ k - 1 \in 0 .. n BY <1>1
  <1>16. upTo[0] = << >> /\ \A k \in 1 .. n : upTo[k] = upTo[k - 1] \o piece[k]
    <2>1. 0 \in 0 .. n BY <1>1
    <2>2. upTo[0] = << >> BY <1>14, <2>1
    <2>3. ASSUME NEW k \in 1 .. n PROVE upTo[k] = upTo[k - 1] \o piece[k]
      <3>1. upTo[k] = upTo[k - 1] \o Piece(t, rules, k) BY <1>14, <1>15
      <3> QED BY <1>2, <3>1
    <2> QED BY <2>2, <2>3
  <1>17. \A k \in 0 .. n : upTo[k] \in Texts
    <2> DEFINE S == {k \in Nat : k <= n => upTo[k] \in Texts}
    <2>1. 0 \in S BY <1>6, <1>16
    <2>2. ASSUME NEW k \in Nat, k \in S PROVE k + 1 \in S
      <3> SUFFICES ASSUME k + 1 <= n PROVE upTo[k + 1] \in Texts OBVIOUS
      <3> DEFINE i == k + 1
      <3>1. i \in 1 .. n /\ i - 1 = k /\ k <= n BY <1>1
      <3>2. upTo[k] \in Texts BY <2>2, <3>1
      <3> HIDE DEF i
      <3> DEFINE p == upTo[k]
                 q == piece[i]
      <3>3. p \in Seq(Letter) /\ q \in Seq(Letter) BY <1>2, <3>1, <3>2 DEF Texts
      <3>4. upTo[i] = p \o q BY <1>16, <3>1
      <3> HIDE DEF p, q
      <3>5. p \o q \in Seq(Letter) BY <3>3
      <3> QED BY <3>4, <3>5 DEF Texts, i
    <2> HIDE DEF S
    <2>3. \A k \in Nat : k \in S BY <2>1, <2>2, Inductively
    <2> QED BY <1>1, <2>3 DEF S
  <1>18. upTo \in [0 .. n -> Texts] BY <1>14, <1>17
  <1>19. Joins(upTo, piece, n) BY <1>16, <1>18 DEF Joins
  <1> QED BY <1>3, <1>19 DEF n

\* Where slips stand apart, running the substitutions the guard lists gives the
\* text with every slip corrected and every other letter as it was sent.
LEMMA SubstitutionsCorrect ==
  ASSUME NEW t \in Texts, NEW rules \in Seq(Rule), SlipsApart(t, rules)
  PROVE  ApplySuggestions(t, ScanText(t, rules)) = Corrected(t, rules)
  <1> DEFINE finds == ScanText(t, rules)
             n == Len(t)
             piece == [j \in 1 .. n |-> Piece(t, rules, j)]
  <1>1. t \in Texts /\ n \in Nat BY SlipsAre, PlainIs
  <1>2. FindsIn(t, finds) BY FindsAre
  <1>3. /\ \A k, s : Slip(t, rules, k, s) => s[1] \in 1 .. n /\ s[2] \in s[1] .. n
        /\ \A f : f \in finds <=> \E k, s : Slip(t, rules, k, s) /\ f = FindOf(t, k, rules[k], s)
    BY SlipsAre
  <1>4. \A j \in 1 .. n : piece[j] = Piece(t, rules, j) OBVIOUS
  <1>5. \E upTo : Joins(upTo, piece, n) /\ Corrected(t, rules) = upTo[n] BY CorrectedJoins
  <1> HIDE DEF finds, n, piece
  <1>6. ASSUME NEW f \in finds
        PROVE  piece[f.index] = f.meant /\ \A j \in f.index + 1 .. f.index + f.length - 1 : piece[j] = << >>
    <2>1. PICK k, s : Slip(t, rules, k, s) /\ f = FindOf(t, k, rules[k], s) BY <1>3
    <2>2. f.index = s[1] /\ f.length = s[2] - s[1] + 1 /\ f.meant = Adapted(t, rules[k], s)
      BY <2>1 DEF FindOf
    <2>3. s[1] \in 1 .. n /\ s[2] \in s[1] .. n BY <1>3, <2>1
    <2>4. f.index + f.length - 1 = s[2] BY <1>1, <2>2, <2>3
    <2>5. Piece(t, rules, s[1]) = f.meant /\ \A j \in s[1] + 1 .. s[2] : Piece(t, rules, j) = << >>
      BY <2>1, <2>2, PieceIs
    <2>6. \A j \in s[1] + 1 .. s[2] : j \in 1 .. n BY <1>1, <2>3
    <2>7. piece[s[1]] = f.meant BY <1>4, <2>3, <2>5
    <2>8. \A j \in s[1] + 1 .. s[2] : piece[j] = << >> BY <1>4, <2>5, <2>6
    <2> QED BY <2>2, <2>4, <2>7, <2>8
  <1>7. ASSUME NEW j \in 1 .. n, \A f \in finds : ~(f.index <= j /\ j < f.index + f.length)
        PROVE  piece[j] = <<t[j]>>
    <2>1. ASSUME NEW k, NEW s, Slip(t, rules, k, s) PROVE j \notin s[1] .. s[2]
      <3> DEFINE f == FindOf(t, k, rules[k], s)
      <3>1. f \in finds BY <1>3, <2>1
      <3>2. f.index = s[1] /\ f.length = s[2] - s[1] + 1 BY DEF FindOf
      <3> HIDE DEF f
      <3>3. ~(f.index <= j /\ j < f.index + f.length) BY <1>7, <3>1
      <3>4. s[1] \in 1 .. n /\ s[2] \in s[1] .. n BY <1>3, <2>1
      <3> QED BY <1>1, <3>2, <3>3, <3>4
    <2>2. Piece(t, rules, j) = <<t[j]>> BY <2>1, PieceIs
    <2> QED BY <1>4, <2>2
  <1>8. SaysTheSame(t, finds, piece) BY <1>6, <1>7 DEF SaysTheSame, n
  <1>9. PICK upTo : Joins(upTo, piece, n) /\ Corrected(t, rules) = upTo[n] BY <1>5
  <1>10. ApplySuggestions(t, finds) = upTo[Len(t)]
    <2>1. Joins(upTo, piece, Len(t)) BY <1>9 DEF n
    <2> QED BY <1>1, <1>2, <1>8, <2>1, ReplacedIsJoined
  <1> QED BY <1>9, <1>10 DEF finds, n
---------------------------------------------------------------------------
(* SpeechSlips: whose rules a call is told to accept.                       *)

\* Rules that the glossary gl gives, or gave until `at` or later.
WordedIn(gl, rules, at) ==
  \E k \in 1 .. Len(gl) : rules = Parsed(gl[k].lines) /\ (k = Len(gl) \/ gl[k + 1].since >= at)

IsCall(x, time) ==
  /\ x = [at |-> x.at, args |-> x.args, state |-> x.state, wording |-> x.wording,
          unchecked |-> x.unchecked, known |-> x.known]
  /\ x.state \in {"waiting", "answered"} => x.args \in Arguments /\ x.at \in Nat /\ x.at <= time

\* What a call was told, in terms of what the code runs.
ToldIn(gl, x) ==
  /\ x.known \in 1 .. Len(gl)
  /\ \E k \in 1 .. x.known :
       /\ k = x.known \/ gl[k + 1].since > x.at - RulesTtl
       /\ x.wording = Wording(x.args, Parsed(gl[k].lines))

AsTold(gl, x, time) == IsCall(x, time) /\ (x.state = "answered" /\ ~x.unchecked => ToldIn(gl, x))

IsGlossary(gl) == gl \in Seq([lines : Glossaries, since : Nat]) /\ Len(gl) >= 1

RulesIn(gl, loaded, time) ==
  /\ loaded.at \in Int /\ loaded.at <= time /\ loaded.failed \in BOOLEAN
  /\ loaded.at # Never /\ ~loaded.failed => WordedIn(gl, loaded.rules, loaded.at)

FlightIn(gl, flight, time) ==
  /\ flight = [at |-> flight.at, rules |-> flight.rules, read |-> flight.read]
  /\ flight # NotReading =>
       /\ flight.at \in Nat /\ flight.at <= time /\ time <= flight.at + LoadTime /\ flight.read \in BOOLEAN
       /\ flight.read => WordedIn(gl, flight.rules, flight.at)

SpeechInv ==
  /\ clock \in Nat /\ IsGlossary(glossary)
  /\ RulesIn(glossary, ruleCache, clock) /\ FlightIn(glossary, ruleFlight, clock)
  /\ said = [c \in Speaker |-> said[c]] /\ \A c \in Speaker : AsTold(glossary, said[c], clock)

\* Rules stay in force as long as they were when the glossary changes.
LEMMA WordedGrows ==
  ASSUME NEW gl, IsGlossary(gl), NEW e, NEW rules, NEW at, WordedIn(gl, rules, at), e.since >= at
  PROVE  WordedIn(Append(gl, e), rules, at)
  <1> DEFINE n == Len(gl)
             h == Append(gl, e)
  <1>1. n \in Nat BY DEF IsGlossary
  <1>2. Len(h) = n + 1 /\ (\A i \in 1 .. n : h[i] = gl[i]) /\ h[n + 1] = e BY DEF IsGlossary
  <1>3. PICK k \in 1 .. n : rules = Parsed(gl[k].lines) /\ (k = n \/ gl[k + 1].since >= at) BY DEF WordedIn
  <1> HIDE DEF n, h
  <1>4. k \in 1 .. Len(h) /\ h[k] = gl[k] BY <1>1, <1>2
  <1>5. h[k + 1].since >= at
    <2>1. CASE k = n BY <1>2, <2>1
    <2>2. CASE k # n
      <3>1. k + 1 \in 1 .. n BY <1>1, <2>2
      <3> QED BY <1>2, <1>3, <2>2, <3>1
    <2> QED BY <2>1, <2>2
  <1>6. WordedIn(h, rules, at) BY <1>3, <1>4, <1>5 DEF WordedIn
  <1> QED BY <1>6 DEF h

\* What was told stays true when the glossary changes.
LEMMA ToldGrows ==
  ASSUME NEW gl, IsGlossary(gl), NEW e, NEW x, ToldIn(gl, x) PROVE ToldIn(Append(gl, e), x)
  <1> DEFINE n == Len(gl)
             h == Append(gl, e)
  <1>1. n \in Nat BY DEF IsGlossary
  <1>2. Len(h) = n + 1 /\ \A i \in 1 .. n : h[i] = gl[i] BY DEF IsGlossary
  <1>3. x.known \in 1 .. n BY DEF ToldIn
  <1>4. PICK k \in 1 .. x.known : /\ k = x.known \/ gl[k + 1].since > x.at - RulesTtl
                                  /\ x.wording = Wording(x.args, Parsed(gl[k].lines))
    BY DEF ToldIn
  <1> HIDE DEF n, h
  <1>5. x.known \in 1 .. Len(h) /\ k \in 1 .. n /\ h[k] = gl[k] BY <1>1, <1>2, <1>3
  <1>6. k = x.known \/ h[k + 1].since > x.at - RulesTtl
    <2>1. CASE k = x.known BY <2>1
    <2>2. CASE k # x.known
      <3>1. k + 1 \in 1 .. n BY <1>1, <1>3, <2>2
      <3> QED BY <1>2, <1>4, <3>1
    <2> QED BY <2>1, <2>2
  <1>7. ToldIn(h, x) BY <1>4, <1>5, <1>6 DEF ToldIn
  <1> QED BY <1>7 DEF h

\* An answer by rules in force late enough is one that may be told.
LEMMA ToldNow ==
  ASSUME NEW gl, IsGlossary(gl), NEW rules, NEW at \in Int, WordedIn(gl, rules, at), NEW x,
         x.at \in Nat, at > x.at - RulesTtl, x.known = Len(gl), x.wording = Wording(x.args, rules)
  PROVE  ToldIn(gl, x)
  <1> DEFINE n == Len(gl)
  <1>1. n \in Nat /\ n >= 1 /\ \A i \in 1 .. n : gl[i].since \in Nat
    <2> DEFINE E == [lines : Glossaries, since : Nat]
    <2>1. gl \in Seq(E) /\ n >= 1 BY DEF IsGlossary
    <2> HIDE DEF E
    <2>2. n \in Nat /\ \A i \in 1 .. n : gl[i] \in E BY <2>1
    <2>3. \A e \in E : e.since \in Nat BY DEF E
    <2> QED BY <2>1, <2>2, <2>3
  <1>2. PICK k \in 1 .. n : rules = Parsed(gl[k].lines) /\ (k = n \/ gl[k + 1].since >= at) BY DEF WordedIn
  <1> HIDE DEF n
  <1>3. k = n \/ gl[k + 1].since > x.at - RulesTtl
    <2>1. CASE k = n BY <2>1
    <2>2. CASE k # n
      <3>1. k + 1 \in 1 .. n BY <1>1, <2>2
      <3>2. gl[k + 1].since \in Int /\ gl[k + 1].since >= at /\ RulesTtl \in Int BY <1>1, <1>2, <2>2, <3>1, SpeechAssumption
      <3> QED BY <3>2
    <2> QED BY <2>1, <2>2
  <1>4. x.known = n /\ n \in 1 .. n BY <1>1 DEF n
  <1>5. x.wording = Wording(x.args, Parsed(gl[k].lines)) BY <1>2
  <1> QED BY <1>3, <1>4, <1>5 DEF ToldIn, n

\* An answer under rules that were read less than the time to live before.
LEMMA AnswerIs ==
  ASSUME NEW gl, IsGlossary(gl), NEW time \in Nat, NEW loaded, RulesIn(gl, loaded, time),
         NEW x, IsCall(x, time), x.state = "waiting", loaded.at # Never, loaded.at > x.at - RulesTtl,
         NEW y, y = [x EXCEPT !.state = "answered", !.unchecked = loaded.failed,
                              !.wording = Wording(x.args, loaded.rules), !.known = Len(gl)]
  PROVE  AsTold(gl, y, time)
  <1> DEFINE w == Wording(x.args, loaded.rules)
             l == Len(gl)
  <1>1. x = [at |-> x.at, args |-> x.args, state |-> x.state, wording |-> x.wording,
             unchecked |-> x.unchecked, known |-> x.known]
    BY DEF IsCall
  <1>2. x.args \in Arguments /\ x.at \in Nat /\ x.at <= time BY DEF IsCall
  <1>3. y = [x EXCEPT !.state = "answered", !.unchecked = loaded.failed, !.wording = w, !.known = l] OBVIOUS
  <1> HIDE DEF w, l
  <1>4. y = [at |-> x.at, args |-> x.args, state |-> "answered", wording |-> w,
             unchecked |-> loaded.failed, known |-> l]
    BY <1>1, <1>3
  <1>5. /\ y.at = x.at /\ y.args = x.args /\ y.state = "answered" /\ y.wording = w
        /\ y.unchecked = loaded.failed /\ y.known = l
    <2>1. y.at = x.at /\ y.args = x.args /\ y.state = "answered" BY <1>4
    <2>2. y.wording = w
      <3>1. [at |-> x.at, args |-> x.args, state |-> "answered", wording |-> w,
             unchecked |-> loaded.failed, known |-> l].wording = w
        OBVIOUS
      <3> QED BY <1>4, <3>1
    <2>3. y.known = l
      <3>1. [at |-> x.at, args |-> x.args, state |-> "answered", wording |-> w,
             unchecked |-> loaded.failed, known |-> l].known = l
        OBVIOUS
      <3> QED BY <1>4, <3>1
    <2>4. y.unchecked = loaded.failed BY <1>4
    <2> QED BY <2>1, <2>2, <2>4, <2>3
  <1>6. y = [at |-> y.at, args |-> y.args, state |-> y.state, wording |-> y.wording,
             unchecked |-> y.unchecked, known |-> y.known]
    BY <1>4, <1>5
  <1>7. IsCall(y, time) BY <1>2, <1>5, <1>6 DEF IsCall
  <1>8. ASSUME ~y.unchecked PROVE ToldIn(gl, y)
    <2>1. WordedIn(gl, loaded.rules, loaded.at) /\ loaded.at \in Int BY <1>5, <1>8 DEF RulesIn
    <2>2. /\ y.at \in Nat /\ loaded.at > y.at - RulesTtl /\ y.known = Len(gl)
          /\ y.wording = Wording(y.args, loaded.rules)
      BY <1>2, <1>5 DEF w, l
    <2> QED BY <2>1, <2>2, ToldNow
  <1> QED BY <1>7, <1>8 DEF AsTold

\* At the start nothing was told.
LEMMA SpeechStart == SpeechInit => SpeechInv
  <1> SUFFICES ASSUME SpeechInit PROVE SpeechInv OBVIOUS
  <1>1. PICK g \in Glossaries : glossary = <<[lines |-> g, since |-> 0]>> BY DEF SpeechInit
  <1>2. IsGlossary(glossary)
    <2> DEFINE e == [lines |-> g, since |-> 0]
    <2>1. e \in [lines : Glossaries, since : Nat] OBVIOUS
    <2>2. glossary = <<e>> BY <1>1
    <2> HIDE DEF e
    <2> QED BY <2>1, <2>2 DEF IsGlossary
  <1>3. clock \in Nat /\ ruleCache = NotLoaded /\ ruleFlight = NotReading /\ said = [c \in Speaker |-> Silent]
    BY DEF SpeechInit
  <1>4. RulesIn(glossary, ruleCache, clock) BY <1>3 DEF RulesIn, NotLoaded, Never
  <1>5. FlightIn(glossary, ruleFlight, clock) BY <1>3 DEF FlightIn, NotReading
  <1>6. ASSUME NEW c \in Speaker PROVE AsTold(glossary, said[c], clock)
    <2>1. said[c] = Silent BY <1>3
    <2>2. Silent.state = "none" /\ Silent = [at |-> Silent.at, args |-> Silent.args, state |-> Silent.state,
             wording |-> Silent.wording, unchecked |-> Silent.unchecked, known |-> Silent.known]
      BY DEF Silent
    <2> QED BY <2>1, <2>2 DEF AsTold, IsCall
  <1>7. said = [c \in Speaker |-> said[c]] BY <1>3
  <1> QED BY <1>2, <1>3, <1>4, <1>5, <1>6, <1>7 DEF SpeechInv

\* A call is answered from the cache, or waits for the glossary.
LEMMA SpeakKeeps ==
  ASSUME SpeechInv, NEW c \in Speaker, NEW args \in Arguments, Speak(c, args) PROVE SpeechInv'
  <1> DEFINE asked == [Silent EXCEPT !.at = clock, !.args = args, !.state = "waiting"]
  <1>1. /\ clock \in Nat /\ IsGlossary(glossary)
        /\ RulesIn(glossary, ruleCache, clock) /\ FlightIn(glossary, ruleFlight, clock)
        /\ said = [d \in Speaker |-> said[d]] /\ \A d \in Speaker : AsTold(glossary, said[d], clock)
    BY DEF SpeechInv
  <1>2. clock' = clock /\ glossary' = glossary /\ ruleCache' = ruleCache BY DEF Speak
  <1>3. IF RulesAreFresh
        THEN said' = [said EXCEPT ![c] = SpokenTo(asked, ruleCache)] /\ ruleFlight' = ruleFlight
        ELSE /\ said' = [said EXCEPT ![c] = asked]
             /\ ruleFlight' = IF ruleFlight = NotReading THEN [NotReading EXCEPT !.at = clock] ELSE ruleFlight
    BY DEF Speak
  <1>4. IsCall(asked, clock) /\ asked.state = "waiting" /\ asked.at = clock
    <2>1. Silent = [at |-> Silent.at, args |-> Silent.args, state |-> Silent.state, wording |-> Silent.wording,
                    unchecked |-> Silent.unchecked, known |-> Silent.known]
      BY DEF Silent
    <2>2. asked = [at |-> clock, args |-> args, state |-> "waiting", wording |-> Silent.wording,
                  unchecked |-> Silent.unchecked, known |-> Silent.known]
      <3> DEFINE x == Silent
                 time == clock
      <3>1. x = [at |-> x.at, args |-> x.args, state |-> x.state, wording |-> x.wording,
                 unchecked |-> x.unchecked, known |-> x.known]
        BY <2>1
      <3> HIDE DEF x, time
      <3>2. PICK y : y = [x EXCEPT !.at = time, !.args = args, !.state = "waiting"] OBVIOUS
      <3>3. y = [at |-> time, args |-> args, state |-> "waiting", wording |-> x.wording,
                 unchecked |-> x.unchecked, known |-> x.known]
        BY <3>1, <3>2
      <3> QED BY <3>2, <3>3 DEF x, time
    <2> HIDE DEF asked
    <2>3. asked.at = clock /\ asked.args = args /\ asked.state = "waiting" BY <2>2
    <2>4. asked = [at |-> asked.at, args |-> asked.args, state |-> asked.state, wording |-> asked.wording,
                  unchecked |-> asked.unchecked, known |-> asked.known]
      BY <2>2
    <2> QED BY <1>1, <2>3, <2>4 DEF IsCall
  <1> HIDE DEF asked
  <1>5. CASE RulesAreFresh
    <2> DEFINE y == SpokenTo(asked, ruleCache)
    <2>1. ruleCache.at # Never /\ ruleCache.at > asked.at - RulesTtl
      <3>1. ruleCache.at \in Int /\ RulesTtl \in Int BY <1>1, SpeechAssumption DEF RulesIn
      <3> QED BY <1>1, <1>4, <1>5, <3>1 DEF RulesAreFresh
    <2>2. y = [asked EXCEPT !.state = "answered", !.unchecked = ruleCache.failed,
                           !.wording = Wording(asked.args, ruleCache.rules), !.known = Len(glossary)]
      BY DEF SpokenTo
    <2>3. said' = [said EXCEPT ![c] = y] /\ ruleFlight' = ruleFlight BY <1>3, <1>5
    <2> HIDE DEF y
    <2>4. AsTold(glossary, y, clock) BY <1>1, <1>4, <2>1, <2>2, AnswerIs
    <2>5. said' = [d \in Speaker |-> said'[d]] /\ \A d \in Speaker : said'[d] = IF d = c THEN y ELSE said[d]
      BY <1>1, <2>3
    <2>6. \A d \in Speaker : AsTold(glossary, said'[d], clock) BY <1>1, <2>4, <2>5
    <2> QED BY <1>1, <1>2, <2>3, <2>5, <2>6 DEF SpeechInv
  <1>6. CASE ~RulesAreFresh
    <2>1. said' = [said EXCEPT ![c] = asked] BY <1>3, <1>6
    <2>2. ruleFlight' = IF ruleFlight = NotReading THEN [NotReading EXCEPT !.at = clock] ELSE ruleFlight BY <1>3, <1>6
    <2>3. AsTold(glossary, asked, clock) BY <1>4 DEF AsTold
    <2>4. said' = [d \in Speaker |-> said'[d]] /\ \A d \in Speaker : said'[d] = IF d = c THEN asked ELSE said[d]
      BY <1>1, <2>1
    <2>5. \A d \in Speaker : AsTold(glossary, said'[d], clock) BY <1>1, <2>3, <2>4
    <2>6. FlightIn(glossary, ruleFlight', clock)
      <3>1. CASE ruleFlight # NotReading BY <1>1, <2>2, <3>1
      <3>2. CASE ruleFlight = NotReading
        <4> DEFINE f == [NotReading EXCEPT !.at = clock]
        <4>1. NotReading = [at |-> NotReading.at, rules |-> NotReading.rules, read |-> NotReading.read]
              /\ NotReading.read = FALSE
          BY DEF NotReading
        <4>2. ruleFlight' = f BY <2>2, <3>2
        <4>3. f = [at |-> clock, rules |-> NotReading.rules, read |-> NotReading.read] BY <4>1
        <4> HIDE DEF f
        <4>4. f.at = clock /\ f.read = FALSE /\ f = [at |-> f.at, rules |-> f.rules, read |-> f.read]
          BY <4>1, <4>3
        <4>5. clock <= clock /\ clock <= clock + LoadTime BY <1>1, SpeechAssumption
        <4> QED BY <1>1, <4>2, <4>4, <4>5 DEF FlightIn
      <3> QED BY <3>1, <3>2
    <2> QED BY <1>1, <1>2, <2>4, <2>5, <2>6 DEF SpeechInv
  <1> QED BY <1>5, <1>6

\* What is read of the glossary is what it says.
LEMMA ReadKeeps == ASSUME SpeechInv, GlossaryIsRead PROVE SpeechInv'
  <1>1. /\ clock \in Nat /\ IsGlossary(glossary)
        /\ RulesIn(glossary, ruleCache, clock) /\ FlightIn(glossary, ruleFlight, clock)
        /\ said = [d \in Speaker |-> said[d]] /\ \A d \in Speaker : AsTold(glossary, said[d], clock)
    BY DEF SpeechInv
  <1>2. UNCHANGED <<clock, glossary, ruleCache, said>> BY DEF GlossaryIsRead
  <1> DEFINE r == Parsed(Last(glossary).lines)
             l == Len(glossary)
  <1>3. ruleFlight # NotReading /\ ruleFlight' = [ruleFlight EXCEPT !.read = TRUE, !.rules = r] BY DEF GlossaryIsRead
  <1>4. WordedIn(glossary, r, ruleFlight.at)
    <2>1. l \in 1 .. l /\ glossary[l] = Last(glossary) BY <1>1 DEF IsGlossary, Last
    <2> QED BY <2>1 DEF WordedIn
  <1> HIDE DEF r
  <1>5. ruleFlight = [at |-> ruleFlight.at, rules |-> ruleFlight.rules, read |-> ruleFlight.read]
        /\ ruleFlight.at \in Nat /\ ruleFlight.at <= clock /\ clock <= ruleFlight.at + LoadTime
    BY <1>1, <1>3 DEF FlightIn
  <1>6. ruleFlight' = [at |-> ruleFlight.at, rules |-> r, read |-> TRUE] BY <1>3, <1>5
  <1>7. ruleFlight'.at = ruleFlight.at /\ ruleFlight'.rules = r /\ ruleFlight'.read = TRUE BY <1>6
  <1>8. ruleFlight' = [at |-> ruleFlight'.at, rules |-> ruleFlight'.rules, read |-> ruleFlight'.read] BY <1>6, <1>7
  <1>9. FlightIn(glossary, ruleFlight', clock)
    <2> DEFINE f == ruleFlight'
    <2>1. /\ f = [at |-> f.at, rules |-> f.rules, read |-> f.read] /\ f.read \in BOOLEAN
          /\ f.at \in Nat /\ f.at <= clock /\ clock <= f.at + LoadTime /\ WordedIn(glossary, f.rules, f.at)
      BY <1>4, <1>5, <1>7, <1>8
    <2> HIDE DEF f
    <2>2. FlightIn(glossary, f, clock) BY <2>1 DEF FlightIn
    <2> QED BY <2>2 DEF f
  <1> QED BY <1>1, <1>2, <1>9 DEF SpeechInv

\* When the reading ends, or fails, all the calls that wait are answered.
LEMMA LoadedKeeps ==
  ASSUME SpeechInv, ruleFlight # NotReading, NEW failed \in BOOLEAN, NEW rules, NEW loaded,
         loaded = [at |-> ruleFlight.at, rules |-> rules, failed |-> failed],
         ~failed => WordedIn(glossary, rules, ruleFlight.at),
         clock' = clock, glossary' = glossary, ruleCache' = loaded, ruleFlight' = NotReading,
         said' = [c \in Speaker |-> IF said[c].state = "waiting" THEN SpokenTo(said[c], loaded) ELSE said[c]]
  PROVE  SpeechInv'
  <1>1. /\ clock \in Nat /\ IsGlossary(glossary) /\ FlightIn(glossary, ruleFlight, clock)
        /\ \A d \in Speaker : AsTold(glossary, said[d], clock)
    BY DEF SpeechInv
  <1>2. ruleFlight.at \in Nat /\ ruleFlight.at <= clock /\ clock <= ruleFlight.at + LoadTime BY <1>1 DEF FlightIn
  <1>3. loaded.at = ruleFlight.at /\ loaded.rules = rules /\ loaded.failed = failed OBVIOUS
  <1>4. RulesIn(glossary, loaded, clock) BY <1>2, <1>3 DEF RulesIn
  <1>5. FlightIn(glossary, NotReading, clock) BY DEF FlightIn, NotReading
  <1>6. ASSUME NEW c \in Speaker PROVE AsTold(glossary, said'[c], clock)
    <2>1. CASE said[c].state = "waiting"
      <3> DEFINE x == said[c]
                 y == SpokenTo(x, loaded)
      <3>1. IsCall(x, clock) /\ x.state = "waiting" BY <1>1, <2>1 DEF AsTold
      <3>2. y = [x EXCEPT !.state = "answered", !.unchecked = loaded.failed,
                          !.wording = Wording(x.args, loaded.rules), !.known = Len(glossary)]
        BY DEF SpokenTo
      <3>3. said'[c] = y BY <2>1
      <3> HIDE DEF x, y
      <3>4. x.at \in Nat /\ x.at <= clock BY <3>1 DEF IsCall
      <3>5. loaded.at # Never /\ loaded.at > x.at - RulesTtl
        BY <1>1, <1>2, <1>3, <3>4, SpeechAssumption DEF Never
      <3>6. AsTold(glossary, y, clock) BY <1>1, <1>4, <3>1, <3>2, <3>5, AnswerIs
      <3> QED BY <3>3, <3>6
    <2>2. CASE said[c].state # "waiting"
      <3>1. said'[c] = said[c] BY <2>2
      <3> QED BY <1>1, <3>1
    <2> QED BY <2>1, <2>2
  <1>7. said' = [c \in Speaker |-> said'[c]] OBVIOUS
  <1> QED BY <1>1, <1>4, <1>5, <1>6, <1>7 DEF SpeechInv

\* A change of the glossary touches no answer given.
LEMMA RewordKeeps == ASSUME SpeechInv, NEW g \in Glossaries, Reword(g) PROVE SpeechInv'
  <1>1. /\ clock \in Nat /\ IsGlossary(glossary)
        /\ RulesIn(glossary, ruleCache, clock) /\ FlightIn(glossary, ruleFlight, clock)
        /\ said = [d \in Speaker |-> said[d]] /\ \A d \in Speaker : AsTold(glossary, said[d], clock)
    BY DEF SpeechInv
  <1> DEFINE e == [lines |-> g, since |-> clock]
             h == Append(glossary, e)
  <1>2. glossary' = h /\ UNCHANGED <<clock, ruleCache, ruleFlight, said>> BY DEF Reword
  <1>3. e \in [lines : Glossaries, since : Nat] /\ e.since = clock BY <1>1
  <1> HIDE DEF e
  <1>4. IsGlossary(h) BY <1>1, <1>3 DEF IsGlossary
  <1>5. \A rules : \A at \in Int : at <= clock /\ WordedIn(glossary, rules, at) => WordedIn(h, rules, at)
    <2> SUFFICES ASSUME NEW rules, NEW at \in Int, at <= clock, WordedIn(glossary, rules, at)
                 PROVE  WordedIn(h, rules, at)
      OBVIOUS
    <2>1. e.since >= at BY <1>1, <1>3
    <2> QED BY <1>1, <2>1, WordedGrows
  <1>6. \A x : ToldIn(glossary, x) => ToldIn(h, x) BY <1>1, ToldGrows
  <1> HIDE DEF h
  <1>7. RulesIn(h, ruleCache, clock) BY <1>1, <1>5 DEF RulesIn
  <1>8. FlightIn(h, ruleFlight, clock)
    <2>1. ruleFlight # NotReading => ruleFlight.at \in Int /\ ruleFlight.at <= clock BY <1>1 DEF FlightIn
    <2> QED BY <1>1, <1>5, <2>1 DEF FlightIn
  <1>9. \A d \in Speaker : AsTold(h, said[d], clock) BY <1>1, <1>6 DEF AsTold
  <1> QED BY <1>1, <1>2, <1>4, <1>7, <1>8, <1>9 DEF SpeechInv

\* Every step keeps the invariant.
LEMMA SpeechSteps == SpeechInv /\ [SpeechNext]_speechVars => SpeechInv'
  <1> SUFFICES ASSUME SpeechInv, [SpeechNext]_speechVars PROVE SpeechInv' OBVIOUS
  <1>1. ASSUME NEW c \in Speaker, NEW args \in Arguments, Speak(c, args) PROVE SpeechInv' BY <1>1, SpeakKeeps
  <1>2. CASE GlossaryIsRead BY <1>2, ReadKeeps
  <1>3. CASE LoadEnds
    <2> DEFINE failed == FALSE
               loaded == [at |-> ruleFlight.at, rules |-> ruleFlight.rules, failed |-> failed]
    <2>1. ruleFlight # NotReading /\ ruleFlight.read /\ Loaded(loaded) BY <1>3 DEF LoadEnds
    <2>2. WordedIn(glossary, ruleFlight.rules, ruleFlight.at) BY <2>1 DEF SpeechInv, FlightIn
    <2>3. failed \in BOOLEAN OBVIOUS
    <2> HIDE DEF failed
    <2>4. PICK d : d = loaded OBVIOUS
    <2>5. /\ clock' = clock /\ glossary' = glossary /\ ruleCache' = d /\ ruleFlight' = NotReading
          /\ said' = [c \in Speaker |-> IF said[c].state = "waiting" THEN SpokenTo(said[c], d) ELSE said[c]]
      BY <2>1, <2>4 DEF Loaded
    <2> QED BY <2>1, <2>2, <2>3, <2>4, <2>5, LoadedKeeps
  <1>4. CASE LoadRejects
    <2> DEFINE failed == TRUE
               none == << >>
               loaded == [at |-> ruleFlight.at, rules |-> none, failed |-> failed]
    <2>1. ruleFlight # NotReading /\ Loaded(loaded) BY <1>4 DEF LoadRejects
    <2>2. failed \in BOOLEAN /\ failed OBVIOUS
    <2> HIDE DEF failed, none
    <2>3. PICK d : d = loaded OBVIOUS
    <2>4. /\ clock' = clock /\ glossary' = glossary /\ ruleCache' = d /\ ruleFlight' = NotReading
          /\ said' = [c \in Speaker |-> IF said[c].state = "waiting" THEN SpokenTo(said[c], d) ELSE said[c]]
      BY <2>1, <2>3 DEF Loaded
    <2> QED BY <2>1, <2>2, <2>3, <2>4, LoadedKeeps
  <1>5. ASSUME NEW g \in Glossaries, Reword(g) PROVE SpeechInv' BY <1>5, RewordKeeps
  <1>6. CASE SpeechTick
    <2>1. clock \in Nat /\ RulesIn(glossary, ruleCache, clock) /\ FlightIn(glossary, ruleFlight, clock)
          /\ \A d \in Speaker : AsTold(glossary, said[d], clock)
      BY DEF SpeechInv
    <2>2. clock' = clock + 1 /\ UNCHANGED <<glossary, ruleCache, ruleFlight, said>>
          /\ (ruleFlight # NotReading => clock - ruleFlight.at < LoadTime)
      BY <1>6 DEF SpeechTick
    <2>3. RulesIn(glossary, ruleCache, clock') BY <2>1, <2>2 DEF RulesIn
    <2>4. FlightIn(glossary, ruleFlight, clock')
      <3>1. ruleFlight # NotReading => ruleFlight.at <= clock' /\ clock' <= ruleFlight.at + LoadTime
        BY <2>1, <2>2, SpeechAssumption DEF FlightIn
      <3> QED BY <2>1, <3>1 DEF FlightIn
    <2>5. \A d \in Speaker : AsTold(glossary, said[d], clock') BY <2>1, <2>2 DEF AsTold, IsCall
    <2>6. clock' \in Nat BY <2>1, <2>2
    <2> QED BY <2>2, <2>3, <2>4, <2>5, <2>6 DEF SpeechInv
  <1>7. CASE UNCHANGED speechVars BY <1>7 DEF SpeechInv, speechVars
  <1> QED BY <1>1, <1>2, <1>3, <1>4, <1>5, <1>6, <1>7 DEF SpeechNext

\* What the glossary says is made of rules.
LEMMA ParsedIs == ASSUME NEW g \in Glossaries PROVE Parsed(g) \in Seq(Rule)
  <1> DEFINE places == {n \in DOMAIN g : g[n].heard # g[n].meant}
  <1>1. g \in Seq(Rule) BY SpeechAssumption
  <1>2. places \subseteq 1 .. Len(g) BY <1>1
  <1>3. Parsed(g) = PickedAt(g, places) BY DEF Parsed
  <1> HIDE DEF places
  <1> QED BY <1>1, <1>2, <1>3, PickedSeq

\* Where no two slips of a text overlap, by any glossary: whatever a speaker is
\* told to accept is the call with its slips corrected, and nothing else of it
\* changed, by a glossary in force less than the time to live before (loadRules,
\* scanText and applySuggestions).
THEOREM SuggestionsAreTrue ==
  ASSUME \A args \in Arguments, p \in TextPath, g \in Glossaries :
           p \in DOMAIN args => SlipsApart(args[p], Parsed(g))
  PROVE  SpeechSpec => []SlipsAreCorrected
  <1>1. SpeechInv => SlipsAreCorrected
    <2> SUFFICES ASSUME SpeechInv, NEW c \in Speaker, said[c].state = "answered", ~said[c].unchecked
                 PROVE  \E k \in 1 .. said[c].known :
                          /\ k = said[c].known \/ glossary[k + 1].since > said[c].at - RulesTtl
                          /\ \A p \in DOMAIN said[c].args :
                               said[c].wording[p] =
                                 IF p \in TextPath THEN Corrected(said[c].args[p], Parsed(glossary[k].lines))
                                 ELSE said[c].args[p]
      BY DEF SlipsAreCorrected
    <2> DEFINE x == said[c]
    <2>1. IsGlossary(glossary) /\ AsTold(glossary, x, clock) BY DEF SpeechInv
    <2>2. x.state = "answered" /\ ~x.unchecked OBVIOUS
    <2> HIDE DEF x
    <2>3. x.args \in Arguments /\ ToldIn(glossary, x) BY <2>1, <2>2 DEF AsTold, IsCall
    <2>4. PICK k \in 1 .. x.known : /\ k = x.known \/ glossary[k + 1].since > x.at - RulesTtl
                                    /\ x.wording = Wording(x.args, Parsed(glossary[k].lines))
      BY <2>3 DEF ToldIn
    <2> DEFINE g == glossary[k].lines
               R == Parsed(g)
               a == x.args
    <2>5. g \in Glossaries
      <3> DEFINE E == [lines : Glossaries, since : Nat]
      <3>1. glossary \in Seq(E) BY <2>1 DEF IsGlossary
      <3>2. x.known \in 1 .. Len(glossary) BY <2>3 DEF ToldIn
      <3> HIDE DEF E
      <3>3. k \in 1 .. Len(glossary) BY <3>1, <3>2
      <3>4. glossary[k] \in E BY <3>1, <3>3
      <3> QED BY <3>4 DEF E
    <2>6. R \in Seq(Rule) BY <2>5, ParsedIs
    <2>7. x.wording = [p \in DOMAIN a |-> IF p \in TextPath THEN ApplySuggestions(a[p], ScanText(a[p], R)) ELSE a[p]]
      BY <2>4 DEF Wording
    <2>8. a \in Arguments BY <2>3
    <2>9. ASSUME NEW p \in DOMAIN a, p \in TextPath PROVE SlipsApart(a[p], R) BY <2>5, <2>8, <2>9
    <2> HIDE DEF a, R
    <2>10. ASSUME NEW p \in DOMAIN a
           PROVE  x.wording[p] = IF p \in TextPath THEN Corrected(a[p], R) ELSE a[p]
      <3>1. CASE p \in TextPath
        <4> DEFINE t == a[p]
        <4>1. t \in Texts BY <2>8, <3>1, SpeechAssumption DEF Texts
        <4>2. SlipsApart(t, R) BY <2>9, <3>1
        <4> HIDE DEF t
        <4>3. ApplySuggestions(t, ScanText(t, R)) = Corrected(t, R) BY <2>6, <4>1, <4>2, SubstitutionsCorrect
        <4> QED BY <2>7, <3>1, <4>3 DEF t
      <3>2. CASE p \notin TextPath BY <2>7, <3>2
      <3> QED BY <3>1, <3>2
    <2> QED BY <2>4, <2>10 DEF a, R, x
  <1> QED BY <1>1, SpeechStart, SpeechSteps, PTL DEF SpeechSpec
=============================================================================
