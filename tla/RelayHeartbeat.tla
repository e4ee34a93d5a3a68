--------------------------- MODULE RelayHeartbeat ---------------------------
(***************************************************************************)
(* The bridge-activity projection and its readers: RelayStatusTracker      *)
(* (src/src/lib/relay-status.ts), the per-caller heartbeat cursors         *)
(* (heartbeat.ts), the latest block kept for the live page                 *)
(* (heartbeat-latest.ts), and the tool callbacks of routes/mcp.ts that     *)
(* touch items.  All of it is in memory.                                   *)
(*                                                                         *)
(* A tool awaits the bead store first and then, in one turn, touches its   *)
(* items and composes its answer; every answer but those of `heartbeat`    *)
(* and `relay_status` carries a footer, which projects what is pending for *)
(* the caller.  An action is that turn; what the store answered is chosen. *)
(* Titles, kinds, source times and wording are left out.                   *)
(***************************************************************************)
EXTENDS Integers, Sequences, SequencesExt

CONSTANTS
  Caller,     \* heartbeat cursor keys
  Bead,       \* ids tools touch
  Pause,      \* ids of the items the voice guard touches ("voice:<token>")
  MaxItems,   \* RELAY_STATUS_MAX_ITEMS
  MaxTime,    \* bound on the clock
  SameInstant \* may an item be touched in the millisecond of a read?

ASSUME TrackerAssumption ==
  /\ Bead \cap Pause = {}
  /\ MaxItems \in Nat \ {0}
  /\ MaxTime \in Nat
  /\ SameInstant \in BOOLEAN

Id == Bead \cup Pause
Never == -1

VARIABLES
  now,    \* Date.now()
  order,  \* keys of the tracker's Map, in insertion order
  item,   \* the tracked items
  cursor, \* the instant each caller last acknowledged, or Never
  latest, \* where the last heartbeat block composed came from
  paused, \* voice pauses nobody has settled
  unread  \* history: ids touched since the caller's last acknowledging read

vars == <<now, order, item, cursor, latest, paused, unread>>

Untracked == [state |-> "none", touched |-> Never, pinned |-> FALSE, needsVerify |-> FALSE]
NoBlock == "none"
Tracked == {i \in Id : item[i].state # "none"}

Init ==
  /\ now = 0
  /\ order = <<>>
  /\ item = [i \in Id |-> Untracked]
  /\ cursor = [c \in Caller |-> Never]
  /\ latest = NoBlock
  /\ paused = {}
  /\ unread = [c \in Caller |-> {}]

Tick ==
  /\ now < MaxTime
  /\ now' = now + 1
  /\ UNCHANGED <<order, item, cursor, latest, paused, unread>>

-----------------------------------------------------------------------------
(* The tracker.  Its content is the record t of the Map's order and items.  *)

Tracker == [order |-> order, item |-> item]
Without(s, i) == SelectSeq(s, LAMBDA j : j # i)

\* Above the cap the first unpinned item goes; if all are pinned, none does.
Pruned(t) ==
  LET loose == {n \in DOMAIN t.order : ~t.item[t.order[n]].pinned}
  IN  IF Len(t.order) <= MaxItems \/ loose = {} THEN t
      ELSE LET gone == t.order[CHOOSE n \in loose : \A m \in loose : n <= m]
           IN [order |-> Without(t.order, gone), item |-> [t.item EXCEPT ![gone] = Untracked]]

\* touch: a failure stays until someone says more.
StateAfter(t, i, state) ==
  IF state # "unsaid" THEN state
  ELSE IF t.item[i].state = "failed" THEN "failed" ELSE "active"

\* A touched item moves to the end.
Touch(t, i, state, needsVerify) ==
  Pruned([order |-> Append(Without(t.order, i), i),
          item |-> [t.item EXCEPT
            ![i].state = StateAfter(t, i, state),
            ![i].touched = now,
            ![i].needsVerify = needsVerify]])

\* markVerified and markDone restamp a tracked item where it is.
MarkVerified(t, i) ==
  IF t.item[i].state = "none" THEN t
  ELSE [order |-> t.order,
        item |-> [t.item EXCEPT ![i].needsVerify = FALSE, ![i].touched = now,
                                ![i].state = IF t.item[i].state = "failed" THEN "active"
                                                     ELSE t.item[i].state]]
MarkDone(t, i) ==
  IF t.item[i].state = "none" THEN t
  ELSE [order |-> t.order,
        item |-> [t.item EXCEPT ![i].needsVerify = FALSE, ![i].touched = now,
                                ![i].state = "done"]]
Pin(t, i, pinned) ==
  IF t.item[i].state = "none" THEN t
  ELSE [order |-> t.order, item |-> [t.item EXCEPT ![i].pinned = pinned]]

\* `markDone(id) ?? touch(...)`, `markVerified(id) ?? touch(...)`
DoneOrTouched(t, i) ==
  IF t.item[i].state = "none" THEN Touch(t, i, "done", FALSE) ELSE MarkDone(t, i)
VerifiedOrTouched(t, i) ==
  IF t.item[i].state = "none" THEN Touch(t, i, "done", FALSE) ELSE MarkVerified(t, i)

-----------------------------------------------------------------------------
(* Readers. *)

\* What is pending for a caller: everything on its first query.
DeltaInclusive(c) == {i \in Tracked : item[i].touched >= cursor[c]}
Delta(c) == {i \in Tracked : item[i].touched > cursor[c]}

\* Those of the ids that a step leaving the tracker as t has restamped.
Restamped(t, ids) == {i \in ids : t.item[i].touched = now}

\* The tracker becomes t, in which the ids were touched or marked.
Settle(t, ids) ==
  /\ SameInstant \/ \A c \in Caller : cursor[c] < now
  /\ order' = t.order
  /\ item' = t.item
  /\ unread' = [c \in Caller |-> unread[c] \cup Restamped(t, ids)]

\* A footer peeks: it composes the pending delta and records it for the page.
FooterConsumes(c) ==
  /\ latest' = "footer"
  /\ cursor' = [cursor EXCEPT ![c] = now]
Footer(c) ==
  /\ latest' = "footer"
  /\ UNCHANGED cursor

Answered(c) == Footer(c) /\ UNCHANGED <<now, paused>>

-----------------------------------------------------------------------------
(* Tools that write a bead: read back, not read back, or failed.            *)

WriteOutcomes(i) ==
  {Touch(Tracker, i, "unsaid", FALSE), Touch(Tracker, i, "unsaid", TRUE),
   Touch(Tracker, i, "failed", FALSE)}

\* bead_comment, bead_note
Comment(c, i) == (\E t \in WriteOutcomes(i) : Settle(t, {i})) /\ Answered(c)
\* bead_label
Label(c, i) == (\E t \in WriteOutcomes(i) : Settle(t, {i})) /\ Answered(c)
\* bead_edit
Edit(c, i) == (\E t \in WriteOutcomes(i) : Settle(t, {i})) /\ Answered(c)
\* bead_create; a failure is listed under the store's name
Create(c, i) == (\E t \in WriteOutcomes(i) : Settle(t, {i})) /\ Answered(c)

\* bead_decision
Decide(c, i) ==
  /\ \E t \in {DoneOrTouched(Tracker, i), Touch(Tracker, i, "waiting", FALSE),
               Touch(Tracker, i, "unsaid", TRUE), Touch(Tracker, i, "failed", FALSE)} :
       Settle(t, {i})
  /\ Answered(c)

\* bead_batch_create, with two of its targets; the failures come last
BatchCreate(c, i, j) ==
  /\ i # j
  /\ \E first, second \in {"created", "unverified", "failed"} :
       /\ first = "failed" => second = "failed"
       /\ LET Entered(t, k, how) ==
                Touch(t, k, IF how = "failed" THEN "failed" ELSE "unsaid", how = "unverified")
          IN  Settle(Entered(Entered(Tracker, i, first), j, second), {i, j})
  /\ Answered(c)

\* relay_capture, relay_upsert_task, project_edit
Capture(c, i) ==
  /\ \E t \in {Touch(Tracker, i, "unsaid", FALSE), Touch(Tracker, i, "failed", FALSE)} :
       Settle(t, {i})
  /\ Answered(c)

\* relay_dispatch_request
Dispatch(c, i) == Settle(Touch(Tracker, i, "waiting", FALSE), {i}) /\ Answered(c)

\* relay_flow: the task, then the dispatch for it
Flow(c, i, j) ==
  /\ i # j
  /\ \E t \in {Touch(Tracker, i, "unsaid", FALSE),
               Touch(Touch(Tracker, i, "unsaid", FALSE), j, "waiting", FALSE)} :
       Settle(t, {i, j})
  /\ Answered(c)

\* relay_verify: found, or listed as needing verification; several hits are
\* entered as several calls would enter them.
VerifyWork(c, i) ==
  /\ \E t \in {VerifiedOrTouched(Tracker, i), Touch(Tracker, i, "unsaid", TRUE)} :
       Settle(t, {i})
  /\ Answered(c)

\* bead_show, bead_connections, bead comments: marked before the read.
Show(c, i) == Settle(MarkVerified(Tracker, i), {i}) /\ Answered(c)

\* Any tool that touches nothing.
OtherTool(c) == Answered(c) /\ UNCHANGED <<order, item, unread>>

-----------------------------------------------------------------------------
(* The voice guard's items. *)

PauseCall(c, i) ==
  /\ i \notin paused
  /\ Settle(Touch(Tracker, i, "unsaid", TRUE), {i})
  /\ paused' = paused \cup {i}
  /\ Footer(c)
  /\ UNCHANGED now

SettleCall(c, i) ==
  /\ i \in paused
  /\ Settle(MarkDone(Tracker, i), {i})
  /\ paused' = paused \ {i}
  /\ Footer(c)
  /\ UNCHANGED now

-----------------------------------------------------------------------------
(* Reads that acknowledge. *)

Acknowledge(c) == cursor' = [cursor EXCEPT ![c] = now]

\* heartbeat: lists the first HEARTBEAT_MAX_ITEMS of what is pending, or as many
\* of them as have room, and counts the rest (heartbeat.ts:147, 160-172); it
\* acknowledges all of it. Which are listed is left out.
Heartbeat(c) ==
  /\ Acknowledge(c)
  /\ latest' = "heartbeat"
  /\ unread' = [unread EXCEPT ![c] = {}]
  /\ UNCHANGED <<now, order, item, paused>>

\* relay_status: mark_verified, pin and unpin first, each of at most one id; a
\* `since` read is partial and acknowledges nothing.
VerifiedOf(t, ids) == IF ids = {} THEN t ELSE MarkVerified(t, CHOOSE i \in ids : TRUE)
PinnedOf(t, ids, pinned) == IF ids = {} THEN t ELSE Pin(t, CHOOSE i \in ids : TRUE, pinned)

RelayStatus(c, verified, pin, unpin, since) ==
  LET t == PinnedOf(PinnedOf(VerifiedOf(Tracker, verified), pin, TRUE), unpin, FALSE)
      touched == Restamped(t, verified)
  IN  /\ touched # {} => SameInstant \/ \A d \in Caller : cursor[d] < now
      /\ order' = t.order
      /\ item' = t.item
      /\ IF since
         THEN UNCHANGED cursor
         ELSE Acknowledge(c)
      /\ unread' = [d \in Caller |->
           IF d = c /\ ~since THEN {} ELSE unread[d] \cup touched]
      /\ UNCHANGED <<now, latest, paused>>

Restart ==
  /\ order' = <<>>
  /\ item' = [i \in Id |-> Untracked]
  /\ cursor' = [c \in Caller |-> Never]
  /\ latest' = NoBlock
  /\ paused' = {}
  /\ unread' = [c \in Caller |-> {}]
  /\ UNCHANGED now

AtMostOne(S) == {{}} \cup {{i} : i \in S}

\* The arguments of one relay_status call name one id at most: a call that
\* names several changes the tracker as so many calls in a row would.
NamesOneId(verified, pin, unpin) == verified \cup pin \cup unpin \in AtMostOne(Id)

Tool(c) ==
  \/ OtherTool(c) \/ Heartbeat(c)
  \/ \E i \in Bead :
       \/ Comment(c, i) \/ Label(c, i) \/ Edit(c, i) \/ Create(c, i) \/ Decide(c, i)
       \/ Capture(c, i) \/ Dispatch(c, i) \/ VerifyWork(c, i) \/ Show(c, i)
       \/ \E j \in Bead : BatchCreate(c, i, j) \/ Flow(c, i, j)
  \/ \E i \in Pause : PauseCall(c, i) \/ SettleCall(c, i)
  \/ \E verified, pin, unpin \in AtMostOne(Id), since \in BOOLEAN :
       NamesOneId(verified, pin, unpin) /\ RelayStatus(c, verified, pin, unpin, since)

Next == Tick \/ Restart \/ \E c \in Caller : Tool(c)
Spec == Init /\ [][Next]_vars
-----------------------------------------------------------------------------
ItemRecord ==
  [state : {"active", "waiting", "failed", "done"}, touched : 0 .. MaxTime,
   pinned : BOOLEAN, needsVerify : BOOLEAN]

\* The Map holds each tracked item once, and RELAY_STATUS_MAX_ITEMS at most,
\* however many are pinned.
TypeOK ==
  /\ now \in 0 .. MaxTime
  /\ order \in Seq(Id)
  /\ Len(order) <= MaxItems
  /\ IsInjective(order)
  /\ item \in [Id -> ItemRecord \cup {Untracked}]
  /\ Range(order) = Tracked
  /\ cursor \in [Caller -> Never .. now]
  /\ latest \in {NoBlock, "footer", "heartbeat"}
  /\ paused \subseteq Pause
  /\ unread \in [Caller -> SUBSET Id]

\* "An intervening call can never silently consume an event the caller never
\* asked to checkpoint", and "reports ONLY state that changed since": what a
\* caller's next read lists or counts is exactly what was touched, by anyone,
\* since its last acknowledging read, as far as the tracker still holds it.
PendingUntilAcknowledged ==
  \A c \in Caller : Delta(c) = unread[c] \cap Tracked

\* "Each pending pause is also a `verify` item on the relay-status tracker, so
\* the heartbeat lists it until it is settled" (docs/voice-guard.md).
PauseListedUntilSettled ==
  \A i \in paused : i \in Tracked /\ item[i].needsVerify
=============================================================================
