------------------------ MODULE RelayHeartbeatProofs ------------------------
(***************************************************************************)
(* No caller's footer or read ever skips or repeats an item, for any       *)
(* number of callers and items, any cap and any clock, provided no item is *)
(* touched in the very millisecond of a read.                              *)
(*                                                                         *)
(* Every operation of the tracker leaves an item as it was, drops it, or   *)
(* stamps it with the present (Moves); a cursor never runs ahead of the    *)
(* clock.  So an item is past a cursor exactly if it was stamped after it. *)
(***************************************************************************)
EXTENDS RelayHeartbeat, TLAPS

States == {"none", "active", "waiting", "failed", "done"}
Flag == BOOLEAN
Record == [state : States, touched : Int, pinned : Flag, needsVerify : Flag]

TypeInv ==
  /\ now \in Nat
  /\ item \in [Id -> Record]
  /\ cursor \in [Caller -> Int]
  /\ unread \in [Caller -> SUBSET Id]

PastOnly ==
  /\ \A i \in Id : item[i].touched <= now
  /\ \A c \in Caller : cursor[c] <= now

IInv == TypeInv /\ PastOnly /\ PendingUntilAcknowledged

\* The items of u are those of t, but for dropped ones and for some of ids,
\* which carry the present instant.
Moves(t, u, ids) ==
  /\ u.item \in [Id -> Record]
  /\ \A i \in Id :
       \/ u.item[i].state = "none" /\ u.item[i].touched \in {t.item[i].touched, Never}
       \/ /\ u.item[i].touched = t.item[i].touched
          /\ t.item[i].state # "none"
       \/ i \in ids /\ u.item[i].touched = now

Sound(t) == t.item \in [Id -> Record]

-----------------------------------------------------------------------------
(* The operations of the tracker. *)

LEMMA UntrackedRecord == Untracked \in Record
  BY DEF Untracked, Record, Never, States, Flag

LEMMA MovesStay ==
  ASSUME NEW t, Sound(t), NEW ids
  PROVE Moves(t, t, ids)
  BY DEF Moves, Sound

LEMMA MovesCompose ==
  ASSUME NEW t, NEW u, NEW w, NEW ids, NEW more,
         Moves(t, u, ids), Moves(u, w, more)
  PROVE Moves(t, w, ids \cup more)
  BY DEF Moves

LEMMA MovesWiden ==
  ASSUME NEW t, NEW u, NEW ids, NEW more, Moves(t, u, ids), ids \subseteq more
  PROVE Moves(t, u, more)
  BY DEF Moves

LEMMA PrunedMoves ==
  ASSUME NEW t, Sound(t)
  PROVE Moves(t, Pruned(t), {})
<1> DEFINE loose == {n \in DOMAIN t.order : ~t.item[t.order[n]].pinned}
           gone == t.order[CHOOSE n \in loose : \A m \in loose : n <= m]
<1>1. CASE Len(t.order) <= MaxItems \/ loose = {}
  <2>1. Pruned(t) = t BY <1>1 DEF Pruned
  <2> QED BY <2>1, MovesStay
<1>2. CASE ~(Len(t.order) <= MaxItems \/ loose = {})
  <2>1. Pruned(t).item = [t.item EXCEPT ![gone] = Untracked] BY <1>2 DEF Pruned
  <2> HIDE DEF gone
  <2>2. \A i \in Id : Pruned(t).item[i] \in {t.item[i], Untracked}
    BY <2>1 DEF Sound
  <2>3. Pruned(t).item \in [Id -> Record]
    BY <2>1, UntrackedRecord DEF Sound
  <2>4. Untracked.state = "none" /\ Untracked.touched = Never BY DEF Untracked
  <2> QED BY <2>2, <2>3, <2>4 DEF Moves, Sound
<1> QED BY <1>1, <1>2

\* Stamping an item with the present.
Stamp(r, state, at, needsVerify) ==
  [r EXCEPT !.state = state, !.touched = at, !.needsVerify = needsVerify]
Stamped(f, i, state, needsVerify) ==
  [f EXCEPT ![i].state = state, ![i].touched = now, ![i].needsVerify = needsVerify]

LEMMA StampedRecord ==
  ASSUME NEW r \in Record, NEW state \in States, NEW at \in Int, NEW needsVerify \in Flag
  PROVE /\ Stamp(r, state, at, needsVerify) \in Record
        /\ Stamp(r, state, at, needsVerify).touched = at
  BY DEF Record, Stamp

LEMMA StampedItem ==
  ASSUME NEW f \in [Id -> Record], now \in Nat, NEW i \in Id, NEW state \in States,
         NEW needsVerify \in Flag
  PROVE /\ Stamped(f, i, state, needsVerify) \in [Id -> Record]
        /\ Stamped(f, i, state, needsVerify)[i].touched = now
        /\ \A j \in Id \ {i} : Stamped(f, i, state, needsVerify)[j] = f[j]
<1> DEFINE r == Stamp(f[i], state, now, needsVerify)
<1>1. f[i] \in Record /\ now \in Int OBVIOUS
<1>2. r \in Record /\ r.touched = now BY <1>1, StampedRecord
<1>3. Stamped(f, i, state, needsVerify) = [f EXCEPT ![i] = r] BY DEF Stamped, Stamp
<1> HIDE DEF r
<1> QED BY <1>2, <1>3

LEMMA StampedMoves ==
  ASSUME NEW t, Sound(t), NEW u, now \in Nat, NEW i \in Id, NEW state \in States,
         NEW needsVerify \in Flag, u.item = Stamped(t.item, i, state, needsVerify)
  PROVE Moves(t, u, {i}) /\ Sound(u)
<1>1. /\ u.item \in [Id -> Record]
      /\ u.item[i].touched = now
      /\ \A j \in Id \ {i} : u.item[j] = t.item[j]
  BY StampedItem DEF Sound
<1> QED BY <1>1 DEF Moves, Sound

LEMMA TouchMoves ==
  ASSUME NEW t, Sound(t), now \in Nat, NEW i \in Id, NEW state \in States \cup {"unsaid"},
         NEW needsVerify \in Flag
  PROVE Moves(t, Touch(t, i, state, needsVerify), {i}) /\ Sound(Touch(t, i, state, needsVerify))
<1> DEFINE touched == [order |-> Append(Without(t.order, i), i),
                       item |-> [t.item EXCEPT ![i].state = StateAfter(t, i, state),
                                               ![i].touched = now,
                                               ![i].needsVerify = needsVerify]]
<1>1. Touch(t, i, state, needsVerify) = Pruned(touched) BY DEF Touch
<1>2. StateAfter(t, i, state) \in States BY DEF StateAfter, States
<1>3. touched.item = Stamped(t.item, i, StateAfter(t, i, state), needsVerify) BY DEF Stamped
<1> HIDE DEF touched
<1>4. Moves(t, touched, {i}) /\ Sound(touched) BY <1>2, <1>3, StampedMoves
<1>5. Moves(touched, Pruned(touched), {}) BY <1>4, PrunedMoves
<1>6. Moves(t, Pruned(touched), {i}) BY <1>4, <1>5, MovesCompose, {i} \cup {} = {i}
<1> QED BY <1>1, <1>5, <1>6 DEF Moves, Sound

LEMMA MarkVerifiedMoves ==
  ASSUME NEW t, Sound(t), now \in Nat, NEW i \in Id
  PROVE Moves(t, MarkVerified(t, i), {i}) /\ Sound(MarkVerified(t, i))
<1>1. CASE t.item[i].state = "none" BY <1>1, MovesStay DEF MarkVerified, Moves
<1>2. CASE t.item[i].state # "none"
  <2> DEFINE state == IF t.item[i].state = "failed" THEN "active" ELSE t.item[i].state
             u == MarkVerified(t, i)
  <2>1. u.item = Stamped(t.item, i, state, FALSE) BY <1>2 DEF MarkVerified, Stamped
  <2>2. state \in States /\ FALSE \in Flag BY DEF Sound, Record, States, Flag
  <2> HIDE DEF state, u
  <2>3. Moves(t, u, {i}) /\ Sound(u) BY <2>1, <2>2, StampedMoves, Zenon
  <2> QED BY <2>3 DEF u
<1> QED BY <1>1, <1>2

LEMMA MarkDoneMoves ==
  ASSUME NEW t, Sound(t), now \in Nat, NEW i \in Id
  PROVE Moves(t, MarkDone(t, i), {i}) /\ Sound(MarkDone(t, i))
<1>1. CASE t.item[i].state = "none" BY <1>1, MovesStay DEF MarkDone, Moves
<1>2. CASE t.item[i].state # "none"
  <2> DEFINE u == MarkDone(t, i)
  <2>1. u.item = Stamped(t.item, i, "done", FALSE) BY <1>2 DEF MarkDone, Stamped
  <2>2. "done" \in States /\ FALSE \in Flag BY DEF States, Flag
  <2> HIDE DEF u
  <2>3. Moves(t, u, {i}) /\ Sound(u) BY <2>1, <2>2, StampedMoves, Zenon
  <2> QED BY <2>3 DEF u
<1> QED BY <1>1, <1>2

LEMMA PinMoves ==
  ASSUME NEW t, Sound(t), NEW i \in Id, NEW pinned \in Flag
  PROVE Moves(t, Pin(t, i, pinned), {}) /\ Sound(Pin(t, i, pinned))
<1> DEFINE u == Pin(t, i, pinned)
<1>1. CASE t.item[i].state = "none" BY <1>1, MovesStay DEF Pin, Moves
<1>2. CASE t.item[i].state # "none"
  <2>1. u.item = [t.item EXCEPT ![i].pinned = pinned] BY <1>2 DEF Pin
  <2> HIDE DEF u
  <2>2. /\ u.item \in [Id -> Record]
        /\ \A j \in Id : u.item[j].touched = t.item[j].touched
        /\ \A j \in Id : u.item[j].state = t.item[j].state
    BY <2>1 DEF Sound, Record
  <2> QED BY <2>2 DEF Moves, Sound, u
<1> QED BY <1>1, <1>2

Said == States \cup {"unsaid"}

LEMMA TouchTwiceMoves ==
  ASSUME NEW t, Sound(t), now \in Nat, NEW i \in Id, NEW j \in Id,
         NEW first \in Said, NEW second \in Said, NEW v \in Flag, NEW w \in Flag
  PROVE Moves(t, Touch(Touch(t, i, first, v), j, second, w), {i, j})
<1> DEFINE u == Touch(t, i, first, v)
           r == Touch(u, j, second, w)
<1>1. Moves(t, u, {i}) /\ Sound(u) BY TouchMoves, Zenon DEF Said
<1> HIDE DEF u
<1>2. Moves(u, r, {j}) BY <1>1, TouchMoves, Zenon DEF Said
<1> HIDE DEF r
<1>3. Moves(t, r, {i} \cup {j}) BY <1>1, <1>2, MovesCompose
<1>4. {i} \cup {j} = {i, j} OBVIOUS
<1> QED BY <1>3, <1>4 DEF r, u

LEMMA SaidFlags ==
  /\ TRUE \in Flag /\ FALSE \in Flag
  /\ {"unsaid", "failed", "waiting", "done"} \subseteq Said
  BY DEF Said, States, Flag

LEMMA DoneOrTouchedMoves ==
  ASSUME NEW t, Sound(t), now \in Nat, NEW i \in Id
  PROVE Moves(t, DoneOrTouched(t, i), {i})
<1>1. Moves(t, Touch(t, i, "done", FALSE), {i}) BY SaidFlags, TouchMoves, Zenon DEF Said
<1>2. Moves(t, MarkDone(t, i), {i}) BY MarkDoneMoves
<1> QED BY <1>1, <1>2, Zenon DEF DoneOrTouched

LEMMA VerifiedOrTouchedMoves ==
  ASSUME NEW t, Sound(t), now \in Nat, NEW i \in Id
  PROVE Moves(t, VerifiedOrTouched(t, i), {i})
<1>1. Moves(t, Touch(t, i, "done", FALSE), {i}) BY SaidFlags, TouchMoves, Zenon DEF Said
<1>2. Moves(t, MarkVerified(t, i), {i}) BY MarkVerifiedMoves
<1> QED BY <1>1, <1>2, Zenon DEF VerifiedOrTouched

-----------------------------------------------------------------------------
(* The actions. *)

\* A tool that touches some items and peeks.
Turn(ids) ==
  /\ ids \subseteq Id
  /\ \E t : Moves(Tracker, t, ids) /\ Settle(t, ids)
  /\ UNCHANGED <<now, cursor>>

LEMMA TypedNow == IInv => now \in Nat /\ Sound(Tracker)
  BY DEF IInv, TypeInv, Sound, Tracker

LEMMA TurnSound ==
  ASSUME ~SameInstant, IInv, NEW ids, Turn(ids)
  PROVE IInv'
<1>1. PICK t : Moves(Tracker, t, ids) /\ Settle(t, ids) BY DEF Turn
<1>2. /\ ids \subseteq Id
      /\ now' = now /\ cursor' = cursor /\ item' = t.item
      /\ \A c \in Caller : cursor[c] < now
      /\ unread' = [c \in Caller |-> unread[c] \cup Restamped(t, ids)]
  BY <1>1 DEF Turn, Settle
<1>3. /\ now \in Nat
      /\ item \in [Id -> Record]
      /\ cursor \in [Caller -> Int]
      /\ unread \in [Caller -> SUBSET Id]
  BY DEF IInv, TypeInv
<1>4. Restamped(t, ids) \subseteq Id BY <1>2 DEF Restamped
<1>5. TypeInv' BY <1>1, <1>2, <1>3, <1>4 DEF TypeInv, Moves
<1>6. PastOnly'
  <2>1. \A i \in Id : t.item[i].touched \in {item[i].touched, Never, now}
    BY <1>1 DEF Moves, Tracker
  <2>2. \A i \in Id : item[i].touched <= now BY DEF IInv, PastOnly
  <2>3. \A i \in Id : t.item[i].touched <= now BY <2>1, <2>2, <1>3 DEF Never
  <2>4. \A c \in Caller : cursor[c] <= now BY DEF IInv, PastOnly
  <2> QED BY <1>2, <2>3, <2>4 DEF PastOnly
<1>7. PendingUntilAcknowledged'
  <2> SUFFICES ASSUME NEW c \in Caller, NEW i \in Id, t.item[i].state # "none"
               PROVE t.item[i].touched > cursor[c] <=> i \in unread'[c]
    BY <1>2 DEF PendingUntilAcknowledged, Delta, Tracked
  <2>1. i \in unread'[c] <=> i \in unread[c] \/ (i \in ids /\ t.item[i].touched = now)
    BY <1>2 DEF Restamped
  <2>2. item[i].state # "none" => (item[i].touched > cursor[c] <=> i \in unread[c])
    BY DEF IInv, PendingUntilAcknowledged, Delta, Tracked
  <2>3. cursor[c] < now /\ cursor[c] \in Int BY <1>2, <1>3
  <2>4. \/ t.item[i].touched = item[i].touched /\ item[i].state # "none"
        \/ i \in ids /\ t.item[i].touched = now
    BY <1>1 DEF Moves, Tracker
  <2> QED BY <2>1, <2>2, <2>3, <2>4, <1>3
<1> QED BY <1>5, <1>6, <1>7 DEF IInv

LEMMA TurnOf ==
  ASSUME NEW ids \in SUBSET Id, NEW t, Moves(Tracker, t, ids), Settle(t, ids),
         UNCHANGED <<now, cursor>>
  PROVE Turn(ids)
  BY Zenon DEF Turn

\* One tracked or new item touched, whatever the tool says of it.
LEMMA OneTouched ==
  ASSUME IInv, NEW i \in Id, NEW state \in {"unsaid", "failed", "waiting", "done"},
         NEW needsVerify \in {TRUE, FALSE}
  PROVE Moves(Tracker, Touch(Tracker, i, state, needsVerify), {i})
<1>1. now \in Nat /\ Sound(Tracker) BY TypedNow
<1>2. state \in Said /\ needsVerify \in Flag BY SaidFlags, Zenon
<1> QED BY <1>1, <1>2, TouchMoves, Zenon DEF Said

LEMMA WriteTurn ==
  ASSUME IInv, NEW c, NEW i \in Id, NEW t \in WriteOutcomes(i), Settle(t, {i}), Answered(c)
  PROVE Turn({i})
<1>1. Moves(Tracker, t, {i}) BY OneTouched, Zenon DEF WriteOutcomes
<1>2. UNCHANGED <<now, cursor>> BY DEF Answered, Footer
<1>3. {i} \in SUBSET Id OBVIOUS
<1> QED BY <1>1, <1>2, <1>3, TurnOf

LEMMA ToolTurn ==
  ASSUME IInv, NEW c \in Caller, NEW i \in Bead,
         \/ Comment(c, i) \/ Label(c, i) \/ Edit(c, i) \/ Create(c, i) \/ Decide(c, i)
         \/ Capture(c, i) \/ Dispatch(c, i) \/ VerifyWork(c, i) \/ Show(c, i)
  PROVE Turn({i})
<1>0. now \in Nat /\ Sound(Tracker) BY TypedNow
<1>1. i \in Id /\ {i} \in SUBSET Id BY DEF Id
<1>2. UNCHANGED <<now, cursor>>
  BY DEF Comment, Label, Edit, Create, Decide, Capture, Dispatch, VerifyWork, Show,
         Answered, Footer
<1>3. CASE Comment(c, i) \/ Label(c, i) \/ Edit(c, i) \/ Create(c, i)
  <2>1. Answered(c) /\ \E t \in WriteOutcomes(i) : Settle(t, {i})
    BY <1>3 DEF Comment, Label, Edit, Create
  <2> QED BY <2>1, <1>1, WriteTurn
<1>4. CASE Decide(c, i)
  <2>1. PICK t \in {DoneOrTouched(Tracker, i), Touch(Tracker, i, "waiting", FALSE),
                    Touch(Tracker, i, "unsaid", TRUE), Touch(Tracker, i, "failed", FALSE)} :
          Settle(t, {i})
    BY <1>4 DEF Decide
  <2>2. Moves(Tracker, DoneOrTouched(Tracker, i), {i}) BY <1>0, <1>1, DoneOrTouchedMoves
  <2>3. Moves(Tracker, t, {i}) BY <2>1, <2>2, <1>1, OneTouched, Zenon
  <2> QED BY <2>1, <2>3, <1>1, <1>2, TurnOf
<1>5. CASE Capture(c, i)
  <2>1. PICK t \in {Touch(Tracker, i, "unsaid", FALSE), Touch(Tracker, i, "failed", FALSE)} :
          Settle(t, {i})
    BY <1>5 DEF Capture
  <2>2. Moves(Tracker, t, {i}) BY <2>1, <1>1, OneTouched, Zenon
  <2> QED BY <2>1, <2>2, <1>1, <1>2, TurnOf
<1>6. CASE Dispatch(c, i)
  <2>1. Moves(Tracker, Touch(Tracker, i, "waiting", FALSE), {i}) BY <1>1, OneTouched, Zenon
  <2> QED BY <1>6, <2>1, <1>1, <1>2, TurnOf DEF Dispatch
<1>7. CASE VerifyWork(c, i)
  <2>1. PICK t \in {VerifiedOrTouched(Tracker, i), Touch(Tracker, i, "unsaid", TRUE)} :
          Settle(t, {i})
    BY <1>7 DEF VerifyWork
  <2>2. Moves(Tracker, VerifiedOrTouched(Tracker, i), {i})
    BY <1>0, <1>1, VerifiedOrTouchedMoves
  <2>3. Moves(Tracker, t, {i}) BY <2>1, <2>2, <1>1, OneTouched, Zenon
  <2> QED BY <2>1, <2>3, <1>1, <1>2, TurnOf
<1>8. CASE Show(c, i)
  <2>1. Moves(Tracker, MarkVerified(Tracker, i), {i}) BY <1>0, <1>1, MarkVerifiedMoves
  <2> QED BY <1>8, <2>1, <1>1, <1>2, TurnOf DEF Show
<1> QED BY <1>3, <1>4, <1>5, <1>6, <1>7, <1>8

LEMMA PairTurn ==
  ASSUME IInv, NEW c \in Caller, NEW i \in Bead, NEW j \in Bead,
         BatchCreate(c, i, j) \/ Flow(c, i, j)
  PROVE Turn({i, j})
<1>0. now \in Nat /\ Sound(Tracker) BY TypedNow
<1>1. i \in Id /\ j \in Id /\ {i, j} \in SUBSET Id BY DEF Id
<1>2. UNCHANGED <<now, cursor>> BY DEF BatchCreate, Flow, Answered, Footer
<1>3. CASE BatchCreate(c, i, j)
  <2>1. PICK first \in {"created", "unverified", "failed"},
             second \in {"created", "unverified", "failed"} :
          Settle(Touch(Touch(Tracker, i, IF first = "failed" THEN "failed" ELSE "unsaid",
                             first = "unverified"),
                       j, IF second = "failed" THEN "failed" ELSE "unsaid",
                       second = "unverified"), {i, j})
    BY <1>3, Zenon DEF BatchCreate
  <2>2. /\ (IF first = "failed" THEN "failed" ELSE "unsaid") \in Said
        /\ (IF second = "failed" THEN "failed" ELSE "unsaid") \in Said
    BY DEF Said, States
  <2>3. (first = "unverified") \in Flag /\ (second = "unverified") \in Flag BY DEF Flag
  <2>4. Moves(Tracker,
              Touch(Touch(Tracker, i, IF first = "failed" THEN "failed" ELSE "unsaid",
                          first = "unverified"),
                    j, IF second = "failed" THEN "failed" ELSE "unsaid",
                    second = "unverified"), {i, j})
    BY <1>0, <1>1, <2>2, <2>3, TouchTwiceMoves, Zenon
  <2> QED BY <2>1, <2>4, <1>1, <1>2, TurnOf, Zenon
<1>4. CASE Flow(c, i, j)
  <2>1. PICK t \in {Touch(Tracker, i, "unsaid", FALSE),
                    Touch(Touch(Tracker, i, "unsaid", FALSE), j, "waiting", FALSE)} :
          Settle(t, {i, j})
    BY <1>4 DEF Flow
  <2>2. Moves(Tracker, Touch(Tracker, i, "unsaid", FALSE), {i})
    BY <1>1, OneTouched, Zenon
  <2>3. Moves(Tracker, Touch(Tracker, i, "unsaid", FALSE), {i, j})
    BY <2>2, MovesWiden, {i} \subseteq {i, j}
  <2>4. Moves(Tracker, Touch(Touch(Tracker, i, "unsaid", FALSE), j, "waiting", FALSE), {i, j})
    BY <1>0, <1>1, SaidFlags, TouchTwiceMoves, Zenon
  <2>5. Moves(Tracker, t, {i, j}) BY <2>1, <2>3, <2>4, Zenon
  <2> QED BY <2>1, <2>5, <1>1, <1>2, TurnOf
<1> QED BY <1>3, <1>4

LEMMA PauseTurn ==
  ASSUME IInv, NEW c \in Caller, NEW i \in Pause, PauseCall(c, i) \/ SettleCall(c, i)
  PROVE Turn({i})
<1>0. now \in Nat /\ Sound(Tracker) BY TypedNow
<1>1. i \in Id /\ {i} \in SUBSET Id BY DEF Id
<1>2. UNCHANGED <<now, cursor>> BY DEF PauseCall, SettleCall, Footer
<1>3. Moves(Tracker, Touch(Tracker, i, "unsaid", TRUE), {i}) BY <1>1, OneTouched, Zenon
<1>4. Moves(Tracker, MarkDone(Tracker, i), {i}) BY <1>0, <1>1, MarkDoneMoves
<1> QED BY <1>1, <1>2, <1>3, <1>4, TurnOf DEF PauseCall, SettleCall

LEMMA MarkedMoves ==
  ASSUME NEW t, Sound(t), now \in Nat, NEW ids \in AtMostOne(Id)
  PROVE Moves(t, VerifiedOf(t, ids), ids) /\ Sound(VerifiedOf(t, ids))
<1>1. CASE ids = {} BY <1>1, MovesStay DEF VerifiedOf
<1>2. CASE ids # {}
  <2>1. PICK i \in Id : ids = {i} BY <1>2 DEF AtMostOne
  <2>2. (CHOOSE j \in ids : TRUE) = i BY <2>1
  <2>3. VerifiedOf(t, ids) = MarkVerified(t, i) BY <1>2, <2>2 DEF VerifiedOf
  <2> QED BY <2>1, <2>3, MarkVerifiedMoves
<1> QED BY <1>1, <1>2

LEMMA PinnedMoves ==
  ASSUME NEW t, Sound(t), NEW ids \in AtMostOne(Id), NEW pinned \in Flag
  PROVE Moves(t, PinnedOf(t, ids, pinned), {}) /\ Sound(PinnedOf(t, ids, pinned))
<1>1. CASE ids = {} BY <1>1, MovesStay, Zenon DEF PinnedOf, Moves
<1>2. CASE ids # {}
  <2>1. PICK i \in Id : ids = {i} BY <1>2 DEF AtMostOne
  <2>2. (CHOOSE j \in ids : TRUE) = i BY <2>1
  <2>3. PinnedOf(t, ids, pinned) = Pin(t, i, pinned) BY <1>2, <2>2, Zenon DEF PinnedOf
  <2> QED BY <2>3, PinMoves, Zenon
<1> QED BY <1>1, <1>2

LEMMA RelayStatusSound ==
  ASSUME ~SameInstant, IInv, NEW c \in Caller, NEW verified \in AtMostOne(Id),
         NEW pin \in AtMostOne(Id), NEW unpin \in AtMostOne(Id), NEW since \in BOOLEAN,
         RelayStatus(c, verified, pin, unpin, since)
  PROVE IInv'
<1> DEFINE v == VerifiedOf(Tracker, verified)
           p == PinnedOf(v, pin, TRUE)
           t == PinnedOf(p, unpin, FALSE)
           touched == Restamped(t, verified)
<1>1. /\ touched # {} => \A d \in Caller : cursor[d] < now
      /\ item' = t.item /\ now' = now
      /\ since => cursor' = cursor
      /\ ~since => cursor' = [cursor EXCEPT ![c] = now]
      /\ unread' = [d \in Caller |->
           IF d = c /\ ~since THEN {} ELSE unread[d] \cup touched]
  BY DEF RelayStatus, Acknowledge
<1>2. /\ now \in Nat
      /\ item \in [Id -> Record]
      /\ cursor \in [Caller -> Int]
      /\ unread \in [Caller -> SUBSET Id]
  BY DEF IInv, TypeInv
<1>3. Moves(Tracker, t, verified)
  <2>1. now \in Nat /\ Sound(Tracker) BY TypedNow
  <2>2. Moves(Tracker, v, verified) /\ Sound(v) BY <2>1, MarkedMoves
  <2> HIDE DEF v
  <2>3. Moves(v, p, {}) /\ Sound(p) BY <2>2, SaidFlags, PinnedMoves, Zenon
  <2> HIDE DEF p
  <2>4. Moves(p, t, {}) BY <2>3, SaidFlags, PinnedMoves, Zenon
  <2> HIDE DEF t
  <2>5. Moves(Tracker, p, verified \cup {}) BY <2>2, <2>3, MovesCompose
  <2>6. Moves(Tracker, t, (verified \cup {}) \cup {}) BY <2>4, <2>5, MovesCompose
  <2>7. (verified \cup {}) \cup {} = verified OBVIOUS
  <2> QED BY <2>6, <2>7
<1> HIDE DEF t
<1>4. verified \subseteq Id BY DEF AtMostOne
<1>5. touched \subseteq Id BY <1>4 DEF Restamped
<1>6. \A i \in touched : i \in verified /\ t.item[i].touched = now BY DEF Restamped
<1>7. \A i \in verified : t.item[i].touched = now => i \in touched BY DEF Restamped
<1> HIDE DEF touched
<1>8. TypeInv'
  <2>1. cursor' \in [Caller -> Int] BY <1>1, <1>2
  <2>2. unread' \in [Caller -> SUBSET Id] BY <1>1, <1>2, <1>5
  <2> QED BY <1>1, <1>2, <1>3, <2>1, <2>2 DEF TypeInv, Moves
<1>9. PastOnly'
  <2>1. \A i \in Id : t.item[i].touched \in {item[i].touched, Never, now}
    BY <1>3 DEF Moves, Tracker
  <2>2. \A i \in Id : item[i].touched <= now BY DEF IInv, PastOnly
  <2>3. \A i \in Id : t.item[i].touched <= now BY <2>1, <2>2, <1>2 DEF Never
  <2>4. \A d \in Caller : cursor[d] <= now BY DEF IInv, PastOnly
  <2>5. \A d \in Caller : cursor'[d] <= now BY <1>1, <1>2, <2>4
  <2> QED BY <1>1, <2>3, <2>5 DEF PastOnly
<1>10. PendingUntilAcknowledged'
  <2> SUFFICES ASSUME NEW d \in Caller, NEW i \in Id, t.item[i].state # "none"
               PROVE t.item[i].touched > cursor'[d] <=> i \in unread'[d]
    BY <1>1 DEF PendingUntilAcknowledged, Delta, Tracked
  <2>1. CASE d = c /\ ~since
    <3>1. cursor'[d] = now /\ unread'[d] = {} BY <2>1, <1>1, <1>2
    <3>2. t.item[i].touched <= now /\ t.item[i].touched \in Int
      BY <1>1, <1>9, <1>3 DEF PastOnly, Moves, Record
    <3> QED BY <3>1, <3>2, <1>2
  <2>2. CASE ~(d = c /\ ~since)
    <3>1. cursor'[d] = cursor[d] /\ cursor[d] \in Int BY <2>2, <1>1, <1>2
    <3>2. i \in unread'[d] <=> i \in unread[d] \/ i \in touched BY <2>2, <1>1
    <3>3. item[i].state # "none" => (item[i].touched > cursor[d] <=> i \in unread[d])
      BY DEF IInv, PendingUntilAcknowledged, Delta, Tracked
    <3>4. \/ t.item[i].touched = item[i].touched /\ item[i].state # "none"
          \/ i \in verified /\ t.item[i].touched = now
      BY <1>3 DEF Moves, Tracker
    <3>5. i \in touched => cursor[d] < now /\ t.item[i].touched = now BY <1>1, <1>6
    <3>6. i \in verified /\ t.item[i].touched = now => i \in touched BY <1>7
    <3> QED BY <3>1, <3>2, <3>3, <3>4, <3>5, <3>6, <1>2
  <2> QED BY <2>1, <2>2
<1> QED BY <1>8, <1>9, <1>10 DEF IInv

LEMMA HeartbeatSound ==
  ASSUME IInv, NEW c \in Caller, Heartbeat(c)
  PROVE IInv'
<1>1. /\ now' = now /\ item' = item
      /\ cursor' = [cursor EXCEPT ![c] = now] /\ unread' = [unread EXCEPT ![c] = {}]
  BY DEF Heartbeat, Acknowledge
<1>2. TypeInv /\ PastOnly /\ PendingUntilAcknowledged BY DEF IInv
<1>3. TypeInv' BY <1>1, <1>2 DEF TypeInv
<1>4. PastOnly' BY <1>1, <1>2 DEF PastOnly, TypeInv
<1>5. PendingUntilAcknowledged'
  <2> SUFFICES ASSUME NEW d \in Caller, NEW i \in Id, item[i].state # "none"
               PROVE item[i].touched > cursor'[d] <=> i \in unread'[d]
    BY <1>1 DEF PendingUntilAcknowledged, Delta, Tracked
  <2>1. CASE d = c
    <3>1. cursor'[d] = now /\ unread'[d] = {} BY <2>1, <1>1, <1>2 DEF TypeInv
    <3>2. item[i].touched <= now /\ item[i].touched \in Int /\ now \in Nat
      BY <1>2 DEF PastOnly, TypeInv, Record
    <3> QED BY <3>1, <3>2
  <2>2. CASE d # c
    <3>1. cursor'[d] = cursor[d] /\ unread'[d] = unread[d] BY <2>2, <1>1, <1>2 DEF TypeInv
    <3> QED BY <3>1, <1>2 DEF PendingUntilAcknowledged, Delta, Tracked
  <2> QED BY <2>1, <2>2
<1> QED BY <1>3, <1>4, <1>5 DEF IInv

\* Init and Restart leave nothing tracked and no cursor.
LEMMA FreshSound ==
  ASSUME now \in Nat, item = [i \in Id |-> Untracked], cursor = [c \in Caller |-> Never],
         unread = [c \in Caller |-> {}]
  PROVE IInv
<1>1. TypeInv BY UntrackedRecord DEF TypeInv, Never
<1>2. PastOnly BY DEF PastOnly, Untracked, Never
<1>3. PendingUntilAcknowledged
  BY DEF PendingUntilAcknowledged, Delta, Tracked, Untracked
<1> QED BY <1>1, <1>2, <1>3 DEF IInv

LEMMA StepSound ==
  ASSUME ~SameInstant, IInv, [Next]_vars
  PROVE IInv'
<1>1. CASE Tick
  <2>1. now' = now + 1 /\ UNCHANGED <<item, cursor, unread>> BY <1>1 DEF Tick
  <2>2. TypeInv' BY <2>1 DEF IInv, TypeInv
  <2>3. PastOnly' BY <2>1 DEF IInv, PastOnly, TypeInv, Record
  <2>4. PendingUntilAcknowledged'
    BY <2>1 DEF IInv, PendingUntilAcknowledged, Delta, Tracked
  <2> QED BY <2>2, <2>3, <2>4 DEF IInv
<1>2. CASE Restart
  <2>1. /\ now' \in Nat /\ item' = [i \in Id |-> Untracked]
        /\ cursor' = [c \in Caller |-> Never] /\ unread' = [c \in Caller |-> {}]
    BY <1>2 DEF Restart, IInv, TypeInv
  <2>2. TypeInv' BY <2>1, UntrackedRecord DEF TypeInv, Never
  <2>3. PastOnly' BY <2>1 DEF PastOnly, Untracked, Never
  <2>4. PendingUntilAcknowledged'
    BY <2>1 DEF PendingUntilAcknowledged, Delta, Tracked, Untracked
  <2> QED BY <2>2, <2>3, <2>4 DEF IInv
<1>3. CASE \E c \in Caller : Tool(c)
  <2>1. PICK c \in Caller : Tool(c) BY <1>3
  <2>2. CASE OtherTool(c)
    <3>1. UNCHANGED <<now, item, cursor, unread>> BY <2>2 DEF OtherTool, Answered, Footer
    <3> QED BY <3>1 DEF IInv, TypeInv, PastOnly, PendingUntilAcknowledged, Delta, Tracked
  <2>3. CASE Heartbeat(c) BY <2>3, HeartbeatSound
  <2>4. ASSUME NEW i \in Bead,
               \/ Comment(c, i) \/ Label(c, i) \/ Edit(c, i) \/ Create(c, i) \/ Decide(c, i)
               \/ Capture(c, i) \/ Dispatch(c, i) \/ VerifyWork(c, i) \/ Show(c, i)
        PROVE IInv'
    BY <2>4, ToolTurn, TurnSound
  <2>5. ASSUME NEW i \in Bead, NEW j \in Bead, BatchCreate(c, i, j) \/ Flow(c, i, j)
        PROVE IInv'
    BY <2>5, PairTurn, TurnSound
  <2>6. ASSUME NEW i \in Pause, PauseCall(c, i) \/ SettleCall(c, i) PROVE IInv'
    BY <2>6, PauseTurn, TurnSound
  <2>7. ASSUME NEW verified \in AtMostOne(Id), NEW pin \in AtMostOne(Id),
               NEW unpin \in AtMostOne(Id), NEW since \in BOOLEAN,
               RelayStatus(c, verified, pin, unpin, since)
        PROVE IInv'
    BY <2>7, RelayStatusSound
  <2> QED BY <2>1, <2>2, <2>3, <2>4, <2>5, <2>6, <2>7, Zenon DEF Tool
<1>4. CASE UNCHANGED vars
  <2>1. UNCHANGED <<now, item, cursor, unread>> BY <1>4 DEF vars
  <2> QED BY <2>1 DEF IInv, TypeInv, PastOnly, PendingUntilAcknowledged, Delta, Tracked
<1> QED BY <1>1, <1>2, <1>3, <1>4 DEF Next

\* "An intervening call can never silently consume an event": for any number of
\* callers and items, what a caller's next read lists or counts is what was touched
\* since its last acknowledging read and is still tracked, provided no item is
\* touched in the millisecond of a read.
THEOREM NothingSkipped ==
  ASSUME ~SameInstant
  PROVE Spec => []PendingUntilAcknowledged
<1>1. Init => IInv
  <2>1. Init => now \in Nat BY DEF Init
  <2> QED BY <2>1, FreshSound DEF Init
<1>2. IInv /\ [Next]_vars => IInv' BY StepSound
<1>3. IInv => PendingUntilAcknowledged BY DEF IInv
<1> QED BY <1>1, <1>2, <1>3, PTL DEF Spec
=============================================================================
