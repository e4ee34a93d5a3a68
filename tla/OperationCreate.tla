--------------------------- MODULE OperationCreate ---------------------------
(***************************************************************************)
(* createOperationBead (src/src/lib/idempotent-create.ts) for one store    *)
(* and one operation id: deliveries of the same logical request arrive at  *)
(* several bridge processes, each looks the operation key up in the bead   *)
(* store and either creates the bead or reconciles onto it.                *)
(*                                                                         *)
(* Every `await` on the store CLI is an action of its own, so everything   *)
(* read before it may be stale after it.  The per-operation lock is the    *)
(* KeyedMutex that OperationLock implements; it lives in one process, so   *)
(* deliveries at different processes interleave freely, which the code     *)
(* repairs afterwards by choosing a canonical bead and closing the others. *)
(*                                                                         *)
(* Faults selects what the store and the process may do wrong.  A bead is  *)
(* named by the position of its created_at stamp (ties broken by id), so   *)
(* canonicalOf is the least name.  A stamp is taken when `bd create`       *)
(* starts and the bead becomes visible when it commits, possibly after     *)
(* beads with later stamps, and possibly after its caller gave up.         *)
(***************************************************************************)
EXTENDS Naturals, FiniteSets

CONSTANTS
  Delivery,  \* submissions carrying the operation id
  Process,   \* bridge processes sharing the store
  Home,      \* the process each delivery arrives at
  Title,     \* the title each delivery states
  Body,      \* the pieces of text in each delivery's description
  Labels,    \* the caller labels on each delivery
  Promote,   \* deliveries sent with promote: true
  Faults     \* the failures that may happen

FaultKinds ==
  {"find",    \* the lookup by key fails
   "show",    \* a read of one bead fails
   "create",  \* a create fails or times out; its write may have landed already
   "late",    \* ... or may land after the caller gave up
   "lookup",  \* the recovery lookup after a failed create fails too
   "edit",    \* a title/body update fails, with or without effect
   "label",   \* adding labels fails, with or without effect
   "note",    \* a revision note fails, with or without effect
   "close",   \* closing a duplicate fails
   "strip",   \* removing the inherited key from a child fails
   "crash"}   \* a process restarts

ASSUME ContentAssumption ==
  /\ IsFiniteSet(Delivery)
  /\ Home \in [Delivery -> Process]
  /\ Promote \subseteq Delivery
  /\ Faults \subseteq FaultKinds

\* A delivery creates one bead at most, so these names suffice.
Bead == 1 .. Cardinality(Delivery)
NoBead == 0

VARIABLES
  bead,    \* the store, by bead name
  stamp,   \* the next created_at stamp
  pc,      \* where each delivery is in runOperation
  rows,    \* beads the lookup returned that are still to be collapsed
  canon,   \* the canonical bead chosen
  seq,     \* the revision number chosen
  seen,    \* the bead's fields as last read
  target,  \* the bead this delivery created or recovered
  reply    \* what the caller was answered

store == <<bead, stamp>>
work == <<rows, canon, seq, seen, target>>
vars == <<store, pc, work, reply>>

Fails(f) == f \in Faults
Committed(b) == bead[b].state \in {"open", "closed"}
Blank == [title |-> "", body |-> {}, labels |-> {}]
NoReply == [bead |-> NoBead, as |-> "none"]

Absent ==
  [state |-> "absent", opkey |-> FALSE, rkey |-> 0, parent |-> NoBead,
   title |-> "", body |-> {}, labels |-> {}, notes |-> {}]

Init ==
  /\ bead = [b \in Bead |-> Absent]
  /\ stamp = 1
  /\ pc = [d \in Delivery |-> "idle"]
  /\ rows = [d \in Delivery |-> {}]
  /\ canon = [d \in Delivery |-> NoBead]
  /\ seq = [d \in Delivery |-> 0]
  /\ seen = [d \in Delivery |-> Blank]
  /\ target = [d \in Delivery |-> NoBead]
  /\ reply = [d \in Delivery |-> NoReply]

-----------------------------------------------------------------------------
(* Steps shared by several actions. *)

Goto(d, label) == pc' = [pc EXCEPT ![d] = label]

\* The delivery answers its caller and gives up the lock.
Answer(d, b, as) ==
  /\ pc' = [pc EXCEPT ![d] = "done"]
  /\ reply' = [reply EXCEPT ![d] = [bead |-> b, as |-> as]]
  /\ rows' = [rows EXCEPT ![d] = {}]
  /\ canon' = [canon EXCEPT ![d] = NoBead]
  /\ seq' = [seq EXCEPT ![d] = 0]
  /\ seen' = [seen EXCEPT ![d] = Blank]
  /\ target' = [target EXCEPT ![d] = NoBead]

\* It fails: the error propagates out of the lock to the caller.
Fail(d) == Answer(d, NoBead, "error")

\* Beads the store lists under the operation key, open and closed.
Carrying == {b \in Bead : Committed(b) /\ bead[b].opkey}
\* Beads it lists under the child key of revision n.
CarryingChildKey(n) == {b \in Bead : Committed(b) /\ bead[b].rkey = n}

\* A failed lookup reads as an empty one.
MayFailToFind(found) == {found} \cup (IF Fails("find") THEN {{}} ELSE {})
FindByKey == MayFailToFind(Carrying)
FindByChildKey(n) == MayFailToFind(CarryingChildKey(n))

\* Earliest created_at, ties by id.
CanonicalOfLatest(found) == CHOOSE b \in found : \A c \in found : c <= b
CanonicalOf(found) == CHOOSE b \in found : \A c \in found : b <= c

\* One past the highest number recorded in the notes; 1 on an empty history.
NextSeqByHighest(notes) ==
  IF notes = {} THEN 1 ELSE (CHOOSE r \in notes : \A q \in notes : q.seq <= r.seq).seq
NextSeq(notes) ==
  IF notes = {} THEN 1 ELSE (CHOOSE r \in notes : \A q \in notes : q.seq <= r.seq).seq + 1

\* Nobody else at this process is between lookup and answer.
LockFreeAlways(d) == TRUE
LockFreeOfWaiters(d) ==
  \A e \in Delivery \ {d} : Home[e] = Home[d] => pc[e] \in {"idle", "done"}
LockFree(d) ==
  \A e \in Delivery \ {d} :
    Home[e] = Home[d] => pc[e] \in {"idle", "waiting", "done"}

-----------------------------------------------------------------------------
(* Arrival and lookup. *)

Submit(d) ==
  /\ pc[d] = "idle"
  /\ Goto(d, "waiting")
  /\ UNCHANGED <<store, work, reply>>

\* The lock is taken and the key looked up: nobody carries it, so create.
FindNone(d) ==
  /\ pc[d] = "waiting"
  /\ LockFree(d)
  /\ {} \in FindByKey
  /\ Goto(d, "create")
  /\ UNCHANGED <<store, work, reply>>

\* Somebody does: reconcile onto the canonical bead.
FindSome(d) ==
  /\ pc[d] = "waiting"
  /\ LockFree(d)
  /\ \E found \in FindByKey \ {{}} :
       /\ canon' = [canon EXCEPT ![d] = CanonicalOf(found)]
       /\ rows' = [rows EXCEPT ![d] = found \ {CanonicalOf(found)}]
       /\ Goto(d, "collapse")
  /\ UNCHANGED <<store, seq, seen, target, reply>>

-----------------------------------------------------------------------------
(* createBead (src/src/lib/create.ts), for the operation or for a child. *)

NewBead(d, child) ==
  [state |-> "inflight",
   opkey |-> ~child,
   rkey |-> IF child THEN seq[d] ELSE 0,
   parent |-> canon[d],
   title |-> Title[d], body |-> Body[d], labels |-> Labels[d],
   notes |-> {}]

Spawn(d, child, next) ==
  /\ stamp \in Bead
  /\ bead' = [bead EXCEPT ![stamp] = NewBead(d, child)]
  /\ stamp' = stamp + 1
  /\ target' = [target EXCEPT ![d] = stamp]
  /\ Goto(d, next)
  /\ UNCHANGED <<rows, canon, seq, seen, reply>>

StartCreate(d) == pc[d] = "create" /\ Spawn(d, FALSE, "creating")
StartChild(d) == pc[d] = "child" /\ Spawn(d, TRUE, "childCreating")

\* The store commits the bead.  `bd create --parent` hands a child every
\* label of its parent, the operation key among them.
Inherited(b) ==
  IF bead[b].parent = NoBead THEN [opkey |-> FALSE, labels |-> {}]
  ELSE [opkey |-> bead[bead[b].parent].opkey, labels |-> bead[bead[b].parent].labels]

Land(b) ==
  /\ bead[b].state = "inflight"
  /\ bead' = [bead EXCEPT
       ![b].state = "open",
       ![b].opkey = @ \/ Inherited(b).opkey,
       ![b].labels = @ \cup Inherited(b).labels]
  /\ UNCHANGED <<stamp, pc, work, reply>>

\* The CLI reports success, so the bead is there.
CreateReturns(d) ==
  /\ \/ pc[d] = "creating" /\ Goto(d, "first")
     \/ pc[d] = "childCreating" /\ Goto(d, "strip")
  /\ Committed(target[d])
  /\ UNCHANGED <<store, work, reply>>

\* The CLI is killed or cancelled: the write has landed, never will, or still
\* may ("it may still commit", CreateTimeoutError).
CreateFails(d) ==
  /\ Fails("create")
  /\ \/ pc[d] = "creating" /\ Goto(d, "recover")
     \/ pc[d] = "childCreating" /\ Goto(d, "childRecover")
  /\ \/ Committed(target[d]) /\ UNCHANGED bead
     \/ bead[target[d]].state = "inflight" /\ bead' = [bead EXCEPT ![target[d]].state = "lost"]
     \/ bead[target[d]].state = "inflight" /\ Fails("late") /\ UNCHANGED bead
  /\ target' = [target EXCEPT ![d] = NoBead]
  /\ UNCHANGED <<stamp, rows, canon, seq, seen, reply>>

\* Look the failed create up by its key, among open beads only; an absent
\* key, or a lookup that keeps failing, is an error to the caller.
Recoverable(d) ==
  {b \in (IF pc[d] = "recover" THEN Carrying ELSE CarryingChildKey(seq[d])) :
     bead[b].state = "open"}

Recover(d) ==
  /\ pc[d] \in {"recover", "childRecover"}
  /\ Recoverable(d) # {}
  /\ target' = [target EXCEPT ![d] = CanonicalOf(Recoverable(d))]
  /\ Goto(d, IF pc[d] = "recover" THEN "first" ELSE "strip")
  /\ UNCHANGED <<store, rows, canon, seq, seen, reply>>

RecoverNothing(d) ==
  /\ pc[d] \in {"recover", "childRecover"}
  /\ Recoverable(d) = {} \/ Fails("lookup")
  /\ Fail(d)
  /\ UNCHANGED store

-----------------------------------------------------------------------------
(* Revision notes.  recordRevision swallows a failure and the answer is     *)
(* given all the same; a failed note may have been written.                 *)

Note(d, n, mode) == [seq |-> n, mode |-> mode, by |-> d]

Record(d, b, note) ==
  \/ bead' = [bead EXCEPT ![b].notes = @ \cup {note}]
  \/ Fails("note") /\ UNCHANGED bead

RecordFirst(d) ==
  /\ pc[d] = "first"
  /\ Record(d, target[d], Note(d, 1, "create"))
  /\ Answer(d, target[d], "created")
  /\ UNCHANGED stamp

-----------------------------------------------------------------------------
(* Reconciliation onto the canonical bead. *)

\* collapseDuplicate: the loser gets a [bb-dup] note and is closed; failures
\* of either are swallowed and the loser is reported collapsed regardless.
Collapse(d) ==
  /\ pc[d] = "collapse"
  /\ \E b \in rows[d] :
       /\ rows' = [rows EXCEPT ![d] = @ \ {b}]
       /\ \/ bead' = [bead EXCEPT ![b].state = "closed"]
          \/ Fails("close") /\ UNCHANGED bead
  /\ UNCHANGED <<stamp, pc, canon, seq, seen, target, reply>>

\* A history that cannot be read reads as an empty one.
ReadHistory(d) ==
  /\ pc[d] = "collapse"
  /\ rows[d] = {}
  /\ \E notes \in {bead[canon[d]].notes} \cup (IF Fails("show") THEN {{}} ELSE {}) :
       seq' = [seq EXCEPT ![d] = NextSeq(notes)]
  /\ Goto(d, "state")
  /\ UNCHANGED <<store, rows, canon, seen, target, reply>>

FieldsOf(b) == [title |-> bead[b].title, body |-> bead[b].body, labels |-> bead[b].labels]

\* What reconciling the delivery with fields s changes.  mergeBody keeps the
\* current text when it contains the new, takes the new when that contains
\* the current, and appends otherwise: the union of the pieces each time.
MergeBody(s, d) == s.body \cup Body[d]
TitleChanged(s, d) == Title[d] # s.title
BodyChanged(s, d) == MergeBody(s, d) # s.body
NewLabels(s, d) == Labels[d] \ s.labels
Changed(s, d) == TitleChanged(s, d) \/ BodyChanged(s, d) \/ NewLabels(s, d) # {}

AfterEdit(s, d) == IF NewLabels(s, d) # {} THEN "label" ELSE "record"
AfterRead(s, d) ==
  CASE d \in Promote -> "promote"
    [] d \notin Promote /\ (TitleChanged(s, d) \/ BodyChanged(s, d)) -> "edit"
    [] OTHER -> AfterEdit(s, d)

\* Fields that cannot be read read as blank ones.
ReadState(d) ==
  /\ pc[d] = "state"
  /\ \E s \in {FieldsOf(canon[d])} \cup (IF Fails("show") THEN {Blank} ELSE {}) :
       /\ seen' = [seen EXCEPT ![d] = s]
       /\ Goto(d, AfterRead(s, d))
  /\ UNCHANGED <<store, rows, canon, seq, target, reply>>

\* editBead writes whole fields, computed from what was read.
EditedBead(d) ==
  [bead EXCEPT
     ![canon[d]].title = IF TitleChanged(seen[d], d) THEN Title[d] ELSE @,
     ![canon[d]].body = IF BodyChanged(seen[d], d) THEN MergeBody(seen[d], d) ELSE @]

Edit(d) ==
  /\ pc[d] = "edit"
  /\ bead' = EditedBead(d)
  /\ Goto(d, AfterEdit(seen[d], d))
  /\ UNCHANGED <<stamp, work, reply>>

EditFails(d) ==
  /\ pc[d] = "edit"
  /\ Fails("edit")
  /\ bead' \in {bead, EditedBead(d)}
  /\ Fail(d)
  /\ UNCHANGED stamp

\* labelBead adds labels to whatever the store holds.
LabelledBead(d) == [bead EXCEPT ![canon[d]].labels = @ \cup Labels[d]]

AddLabels(d) ==
  /\ pc[d] = "label"
  /\ bead' = LabelledBead(d)
  /\ Goto(d, "record")
  /\ UNCHANGED <<stamp, work, reply>>

AddLabelsFails(d) ==
  /\ pc[d] = "label"
  /\ Fails("label")
  /\ bead' \in {bead, LabelledBead(d)}
  /\ Fail(d)
  /\ UNCHANGED stamp

Mode(d) == IF Changed(seen[d], d) THEN "revision" ELSE "duplicate"

RecordRevision(d) ==
  /\ pc[d] = "record"
  /\ Record(d, canon[d], Note(d, seq[d], Mode(d)))
  /\ Answer(d, canon[d], Mode(d))
  /\ UNCHANGED stamp

-----------------------------------------------------------------------------
(* promote: true -- the added scope becomes a child bead. *)

\* A child already carrying the key of this revision is reused as it is.
FindChild(d) ==
  /\ pc[d] = "promote"
  /\ \E found \in FindByChildKey(seq[d]) :
       IF found = {}
       THEN Goto(d, "child") /\ UNCHANGED target
       ELSE Goto(d, "childNote") /\ target' = [target EXCEPT ![d] = CanonicalOf(found)]
  /\ UNCHANGED <<store, rows, canon, seq, seen, reply>>

\* Take the inherited operation key off the new child; a failure is swallowed.
StripKeySkipped(d) ==
  /\ pc[d] = "strip"
  /\ Goto(d, "childNote")
  /\ UNCHANGED <<store, work, reply>>

StripKey(d) ==
  /\ pc[d] = "strip"
  /\ \/ bead' = [bead EXCEPT ![target[d]].opkey = FALSE]
     \/ Fails("strip") /\ UNCHANGED bead
  /\ Goto(d, "childNote")
  /\ UNCHANGED <<stamp, work, reply>>

RecordPromotion(d) ==
  /\ pc[d] = "childNote"
  /\ Record(d, canon[d], Note(d, seq[d], "child"))
  /\ Answer(d, canon[d], "promoted")
  /\ UNCHANGED stamp

-----------------------------------------------------------------------------
(* A process restarts: its deliveries and its locks are gone, the creates   *)
(* it had started may still land.                                           *)

Crash(p) ==
  /\ Fails("crash")
  /\ LET here == {d \in Delivery : Home[d] = p /\ pc[d] \notin {"idle", "done"}}
         Wiped(f, blank) == [d \in Delivery |-> IF d \in here THEN blank ELSE f[d]]
     IN  /\ here # {}
         /\ pc' = Wiped(pc, "done")
         /\ reply' = Wiped(reply, [bead |-> NoBead, as |-> "crashed"])
         /\ rows' = Wiped(rows, {})
         /\ canon' = Wiped(canon, NoBead)
         /\ seq' = Wiped(seq, 0)
         /\ seen' = Wiped(seen, Blank)
         /\ target' = Wiped(target, NoBead)
  /\ UNCHANGED store

Step(d) ==
  \/ FindNone(d) \/ FindSome(d)
  \/ StartCreate(d) \/ StartChild(d) \/ CreateReturns(d) \/ CreateFails(d)
  \/ Recover(d) \/ RecoverNothing(d) \/ RecordFirst(d)
  \/ Collapse(d) \/ ReadHistory(d) \/ ReadState(d)
  \/ Edit(d) \/ EditFails(d) \/ AddLabels(d) \/ AddLabelsFails(d) \/ RecordRevision(d)
  \/ FindChild(d) \/ StripKey(d) \/ RecordPromotion(d)

Next ==
  \/ \E d \in Delivery : Submit(d) \/ Step(d)
  \/ \E b \in Bead : Land(b)
  \/ \E p \in Process : Crash(p)

\* A process keeps running the deliveries it has, and the store finishes what
\* it started; nothing makes a delivery arrive or a process restart.
Fairness ==
  /\ \A d \in Delivery : WF_vars(Step(d))
  /\ \A b \in Bead : WF_vars(Land(b))

Spec == Init /\ [][Next]_vars
FairSpec == Spec /\ Fairness

-----------------------------------------------------------------------------
(* Properties. *)

Titles == {""} \cup {Title[d] : d \in Delivery}
Texts == UNION {Body[d] : d \in Delivery}
LabelNames == UNION {Labels[d] : d \in Delivery}

Fields == [title : Titles, body : SUBSET Texts, labels : SUBSET LabelNames]

NoteRecord ==
  [seq : Nat \ {0}, mode : {"create", "revision", "duplicate", "child"}, by : Delivery]

BeadRecord ==
  [state : {"absent", "inflight", "lost", "open", "closed"},
   opkey : BOOLEAN, rkey : Nat, parent : Bead \cup {NoBead},
   title : Titles, body : SUBSET Texts, labels : SUBSET LabelNames,
   notes : SUBSET NoteRecord]

Creating == {"create", "creating", "recover", "first"}
Reconciling == {"collapse", "state", "edit", "label", "record", "promote"}
Promoting == {"child", "childCreating", "childRecover", "strip", "childNote"}
Resting == {"idle", "waiting", "done"}

TypeOK ==
  /\ bead \in [Bead -> BeadRecord]
  /\ stamp \in Nat \ {0}
  /\ pc \in [Delivery -> Resting \cup Creating \cup Reconciling \cup Promoting]
  /\ rows \in [Delivery -> SUBSET Bead]
  /\ canon \in [Delivery -> Bead \cup {NoBead}]
  /\ seq \in [Delivery -> Nat]
  /\ seen \in [Delivery -> Fields]
  /\ target \in [Delivery -> Bead \cup {NoBead}]
  /\ reply \in [Delivery ->
       [bead : Bead \cup {NoBead},
        as : {"none", "created", "revision", "duplicate", "promoted", "error", "crashed"}]]

\* Beads created for the operation itself, whether or not they landed yet.
Root(b) == bead[b].state \notin {"absent", "lost"} /\ bead[b].parent = NoBead
Child(b) == Committed(b) /\ bead[b].parent # NoBead
Successful == {"created", "revision", "duplicate", "promoted"}
Acknowledged(d) == reply[d].as \in Successful

\* "Two submissions of one logical request give one bead": however deliveries
\* overlap, at most one bead is ever created for the operation, and all
\* callers are answered with it.
OneBead ==
  /\ \A a, b \in Bead : Root(a) /\ Root(b) => a = b
  /\ \A d, e \in Delivery : Acknowledged(d) /\ Acknowledged(e) => reply[d].bead = reply[e].bead

\* "EVERY DELIVERY IS RECORDED", and "seq is unique per operation": whoever
\* was told of success has exactly one revision note on the bead it was
\* answered with, and no two notes there share a number.
EveryDeliveryRecorded ==
  /\ \A d \in Delivery : Acknowledged(d) =>
       \E r \in bead[reply[d].bead].notes :
         r.by = d /\ \A q \in bead[reply[d].bead].notes : q.by = d => q = r
  /\ \A b \in Bead : \A r, q \in bead[b].notes : r.seq = q.seq => r = q

\* "Silently drop what was already captured" must not happen: text a caller
\* was told is captured is on the answered bead, or for a promotion on a
\* child of it that is still open -- whatever later deliveries do.
CapturedTextIsKept ==
  \A d \in Delivery : Acknowledged(d) =>
    IF reply[d].as = "promoted"
    THEN \E b \in Bead :
           /\ bead[b].parent = reply[d].bead
           /\ bead[b].state = "open"
           /\ Body[d] \subseteq bead[b].body
    ELSE Body[d] \subseteq bead[reply[d].bead].body

\* Closing duplicates never closes the operation's last live bead: whatever
\* fails, however many processes reconcile at once and whenever late creates
\* land, the earliest bead carrying the key is open, so the rule "earliest
\* created_at wins" (canonicalOf) leads every process to a live bead.
CanonicalStaysOpen ==
  \A b \in Carrying : (\A c \in Carrying : b <= c) => bead[b].state = "open"

\* Every delivery that arrives is answered, its lock included.
EveryCallerAnswered == \A d \in Delivery : pc[d] = "waiting" ~> pc[d] = "done"

\* "Body text never shrinks."
BodyNeverShrinks == [][\A b \in Bead : bead[b].body \subseteq bead'[b].body]_vars

\* "A replayed promotion finds the child instead of forking a second one":
\* identical promoted deliveries share one child.
SameSubmission(d, e) == Title[d] = Title[e] /\ Body[d] = Body[e] /\ Labels[d] = Labels[e]
ReplayedPromotionFindsChild ==
  \A d \in Promote :
    (\A e \in Promote : SameSubmission(d, e)) =>
      \A a, b \in Bead : Child(a) /\ Child(b) => a = b
=============================================================================
