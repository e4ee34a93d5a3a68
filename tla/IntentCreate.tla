---------------------------- MODULE IntentCreate ----------------------------
(***************************************************************************)
(* createIntentBead (src/src/lib/intent.ts): creates that carry no         *)
(* operation id.  The requests of one intent -- same store, caller,        *)
(* normalized title and parent -- share a key, which every bead made here  *)
(* carries as a label.  A request finds an earlier bead of the intent in   *)
(* the process' registry or in the store and follows it up; otherwise it   *)
(* creates one, through createBead (create.ts), which first looks for an   *)
(* open bead of identical content made in the last hour.                   *)
(*                                                                         *)
(* One bridge process, one intent.  Every `await` on the store CLI ends an *)
(* action.  Requests hold the lock (KeyedMutex) one at a time.  A          *)
(* bead is named by the order of its created_at stamp (ties broken by id). *)
(* A body is its set of significant words; labels are those the caller     *)
(* gave; the intent key, provenance and note wording are left out.         *)
(***************************************************************************)
EXTENDS Integers, FiniteSets

CONSTANTS
  Request,    \* creates of the intent
  Title,      \* the title each states; they differ in case or punctuation only,
              \* and none is blank (createBead refuses that)
  Body,       \* the words of each one's description
  Labels,     \* its labels
  Distinct,   \* those sent with distinct: true
  Window,     \* BEADS_BRIDGE_INTENT_WINDOW_MS
  KeyWindow,  \* CREATE_KEY_WINDOW_MS
  MaxTime,    \* bound on the clock
  Faults      \* the failures that may happen

FaultKinds ==
  {"show",    \* a read of one bead fails
   "find",    \* the search by the intent label fails
   "create",  \* a create is killed, cancelled or refused; it may have landed
   "late",    \* ... or may land after the caller gave up
   "lookup",  \* a lookup by content key fails
   "edit",    \* a title/body update fails, with or without effect
   "label",   \* adding labels fails, with or without effect
   "note",    \* a revision note fails, with or without effect
   "restart", \* the process restarts
   "evict"}   \* REGISTRY_MAX other intents push this one out of the registry

ASSUME IntentAssumption ==
  /\ IsFiniteSet(Request)
  /\ Distinct \subseteq Request
  /\ \A r \in Request : Title[r] # ""
  /\ Window \in Nat /\ KeyWindow \in Nat /\ MaxTime \in Nat
  /\ Faults \subseteq FaultKinds

\* A request creates one bead at most.
Bead == 1 .. Cardinality(Request)
NoBead == 0

VARIABLES
  now,      \* Date.now()
  bead,     \* the store, by bead name
  stamp,    \* the next created_at stamp
  registry, \* the beads this process settled for the intent, with when and in
            \* which turn; a later turn is a newer entry
  pc,       \* where each request is in createIntentBead
  recent,   \* the registry's entries it has still to look at
  target,   \* the bead it follows up, creates or reuses
  seen,     \* the candidate's fields as read
  seq,      \* the revision number chosen
  whole,    \* has every step after the create succeeded so far?
  reply     \* what the caller was answered

store == <<bead, stamp>>
work == <<recent, target, seen, seq, whole>>
vars == <<now, store, registry, pc, work, reply>>

Fails(f) == f \in Faults
Committed(b) == bead[b].state \in {"open", "closed"}
Age(b) == now - bead[b].born
Blank == [title |-> "", body |-> {}, labels |-> {}]
NoReply == [bead |-> NoBead, as |-> "none", complete |-> FALSE]
Content(r) == [title |-> Title[r], body |-> Body[r], labels |-> Labels[r]]

Absent ==
  [state |-> "absent", born |-> 0, ckey |-> Blank,
   title |-> "", body |-> {}, labels |-> {}, notes |-> {}]

Init ==
  /\ now = 0
  /\ bead = [b \in Bead |-> Absent]
  /\ stamp = 1
  /\ registry = {}
  /\ pc = [r \in Request |-> "idle"]
  /\ recent = [r \in Request |-> {}]
  /\ target = [r \in Request |-> NoBead]
  /\ seen = [r \in Request |-> Blank]
  /\ seq = [r \in Request |-> 0]
  /\ whole = [r \in Request |-> TRUE]
  /\ reply = [r \in Request |-> NoReply]

Tick ==
  /\ now < MaxTime
  /\ now' = now + 1
  /\ UNCHANGED <<store, registry, pc, work, reply>>

\* Somebody finishes the work outside the bridge.
Close(b) ==
  /\ bead[b].state = "open"
  /\ bead' = [bead EXCEPT ![b].state = "closed"]
  /\ UNCHANGED <<now, stamp, registry, pc, work, reply>>

-----------------------------------------------------------------------------
(* Steps shared by several actions. *)

Goto(r, label) == pc' = [pc EXCEPT ![r] = label]
Outcome(f) == IF Fails(f) THEN {TRUE, FALSE} ELSE {TRUE}

\* Answer the caller and give up the lock.
Answer(r, b, as, complete) ==
  /\ pc' = [pc EXCEPT ![r] = "done"]
  /\ reply' = [reply EXCEPT ![r] = [bead |-> b, as |-> as, complete |-> complete]]
  /\ recent' = [recent EXCEPT ![r] = {}]
  /\ target' = [target EXCEPT ![r] = NoBead]
  /\ seen' = [seen EXCEPT ![r] = Blank]
  /\ seq' = [seq EXCEPT ![r] = 0]
  /\ whole' = [whole EXCEPT ![r] = TRUE]
Fail(r) == Answer(r, NoBead, "error", FALSE)

LockFreeAlways(r) == TRUE
LockFree(r) == \A q \in Request \ {r} : pc[q] \in {"idle", "done"}

\* RELATED_OVERLAP of the words of the smaller body; an empty body relates to
\* any, and so does one that contains the other.
BodiesRelated(current, next) ==
  \/ current = {} \/ next = {}
  \/ LET smaller == IF Cardinality(current) < Cardinality(next) THEN current ELSE next
     IN  10 * Cardinality(current \cap next) >= 4 * Cardinality(smaller)

Usable(state, fields, r) ==
  fields.title # "" /\ state # "closed" /\ BodiesRelated(fields.body, Body[r])

FieldsOf(b) == [title |-> bead[b].title, body |-> bead[b].body, labels |-> bead[b].labels]

-----------------------------------------------------------------------------
(* The registry. *)

Forgotten(b) == {e \in registry : e.id # b}
Horizon == now - 2 * (IF Window < 1 THEN 1 ELSE Window)
PrunedRegistry(entries) == {e \in entries : e.at >= Horizon}

\* Requests take turns, so how many are over tells later entries from earlier.
Turn == Cardinality({r \in Request : pc[r] = "done"})
Recorded(b) ==
  PrunedRegistry(Forgotten(b) \cup {[id |-> b, at |-> now, turn |-> Turn]})

\* Inside the window.
Recent == {e \in PrunedRegistry(registry) : now - e.at <= Window}

Evict ==
  /\ Fails("evict")
  /\ registry # {}
  /\ registry' = {}
  /\ UNCHANGED <<now, store, pc, work, reply>>

-----------------------------------------------------------------------------
(* findCandidate. *)

\* A request that arrived has the lock: a distinct one creates, any other
\* looks back.
Enter(r) ==
  /\ pc[r] = "idle"
  /\ LockFree(r)
  /\ IF r \in Distinct
     THEN Goto(r, "create") /\ UNCHANGED <<recent, registry>>
     ELSE /\ Goto(r, "recent")
          /\ recent' = [recent EXCEPT ![r] = Recent]
          /\ registry' = PrunedRegistry(registry)
  /\ UNCHANGED <<now, store, target, seen, seq, whole, reply>>

\* A registered bead is read; one that is closed, unrelated or unreadable is
\* forgotten and the next one, in order from the newest, is tried.
ReadRecent(r) ==
  /\ pc[r] = "recent"
  /\ \E e \in recent[r] :
       /\ \A d \in recent[r] : d.turn <= e.turn
       /\ \E fields \in {FieldsOf(e.id)} \cup (IF Fails("show") THEN {Blank} ELSE {}) :
            IF Usable(bead[e.id].state, fields, r)
            THEN /\ target' = [target EXCEPT ![r] = e.id]
                 /\ seen' = [seen EXCEPT ![r] = fields]
                 /\ Goto(r, "history")
                 /\ UNCHANGED <<registry, recent>>
            ELSE /\ registry' = Forgotten(e.id)
                 /\ recent' = [recent EXCEPT ![r] = @ \ {e}]
                 /\ UNCHANGED <<target, seen, pc>>
  /\ UNCHANGED <<now, store, seq, whole, reply>>

\* Beads the store lists under the intent key that the request may continue.
Fresh(r) ==
  {b \in Bead : Committed(b) /\ Age(b) <= Window /\ Usable(bead[b].state, FieldsOf(b), r)}

\* The newest of them is continued; a failed search reads as an empty one.
Search(r) ==
  /\ pc[r] = "recent"
  /\ recent[r] = {}
  /\ \/ /\ Fresh(r) = {} \/ Fails("find")
        /\ Goto(r, "create")
        /\ UNCHANGED <<target, seen>>
     \/ \E b \in Fresh(r) :
          /\ \A c \in Fresh(r) : c <= b
          /\ target' = [target EXCEPT ![r] = b]
          /\ seen' = [seen EXCEPT ![r] = FieldsOf(b)]
          /\ Goto(r, "history")
  /\ UNCHANGED <<now, store, registry, recent, seq, whole, reply>>

-----------------------------------------------------------------------------
(* first: create, register, record.                                         *)

\* Open beads made in the last hour from identical content.
Twins(r) ==
  {b \in Bead : bead[b].state = "open" /\ bead[b].ckey = Content(r) /\ Age(b) < KeyWindow}

\* The bead exists and is registered; the answer says whether it read back.
Settled(r, b) ==
  /\ registry' = Recorded(b)
  /\ target' = [target EXCEPT ![r] = b]
  /\ \E readBack \in Outcome("show") : whole' = [whole EXCEPT ![r] = readBack]
  /\ Goto(r, "first")
  /\ UNCHANGED <<now, store, recent, seen, seq, reply>>

Reuse(r) ==
  /\ pc[r] = "create"
  /\ \E b \in Twins(r) : (\A c \in Twins(r) : b <= c) /\ Settled(r, b)

NewBead(r) ==
  [state |-> "inflight", born |-> now, ckey |-> Content(r),
   title |-> Title[r], body |-> Body[r], labels |-> Labels[r], notes |-> {}]

StartCreate(r) ==
  /\ pc[r] = "create"
  /\ Twins(r) = {} \/ Fails("lookup")
  /\ bead' = [bead EXCEPT ![stamp] = NewBead(r)]
  /\ stamp' = stamp + 1
  /\ target' = [target EXCEPT ![r] = stamp]
  /\ Goto(r, "creating")
  /\ UNCHANGED <<now, registry, recent, seen, seq, whole, reply>>

Land(b) ==
  /\ bead[b].state = "inflight"
  /\ bead' = [bead EXCEPT ![b].state = "open"]
  /\ UNCHANGED <<now, stamp, registry, pc, work, reply>>

Created(r) ==
  /\ pc[r] = "creating"
  /\ Committed(target[r])
  /\ Settled(r, target[r])

Lost == [Absent EXCEPT !.state = "lost"]

\* A bead in flight whose command is gone lands no more, or late.
Abandoned(b) ==
  IF bead[b].state # "inflight" THEN {bead}
  ELSE {[bead EXCEPT ![b] = Lost], [bead EXCEPT ![b].state = "open"]}
         \cup (IF Fails("late") THEN {bead} ELSE {})

CreateFails(r) ==
  /\ pc[r] = "creating"
  /\ Fails("create")
  /\ bead' \in Abandoned(target[r])
  /\ target' = [target EXCEPT ![r] = NoBead]
  /\ Goto(r, "recover")
  /\ UNCHANGED <<now, stamp, registry, recent, seen, seq, whole, reply>>

\* The failed create is looked up by its content key.
Recover(r) ==
  /\ pc[r] = "recover"
  /\ \E b \in Twins(r) : (\A c \in Twins(r) : b <= c) /\ Settled(r, b)

RecoverNothing(r) ==
  /\ pc[r] = "recover"
  /\ Twins(r) = {} \/ Fails("lookup")
  /\ Fail(r)
  /\ UNCHANGED <<now, store, registry>>

\* A failed note may have been written.
Record(r, n, ok) ==
  LET noted == [bead EXCEPT ![target[r]].notes = @ \cup {[seq |-> n, by |-> r]}]
  IN  bead' \in (IF ok THEN {noted} ELSE {bead, noted})

RecordFirst(r) ==
  /\ pc[r] = "first"
  /\ \E ok \in Outcome("note") :
       /\ Record(r, 1, ok)
       /\ Answer(r, target[r], "created", whole[r] /\ ok)
  /\ UNCHANGED <<now, stamp, registry>>

-----------------------------------------------------------------------------
(* followUp. *)

NextSeq(notes) ==
  IF notes = {} THEN 1 ELSE (CHOOSE n \in notes : \A q \in notes : q.seq <= n.seq).seq + 1

\* mergeBody keeps a body that contains the other, or appends.
MergedBodyReplaced(r) == Body[r]
MergedBody(r) == seen[r].body \cup Body[r]
TitleChanged(r) == Title[r] # seen[r].title
BodyChanged(r) == MergedBody(r) # seen[r].body
NewLabels(r) == Labels[r] \ seen[r].labels
Mode(r) == IF TitleChanged(r) \/ BodyChanged(r) \/ NewLabels(r) # {} THEN "revision" ELSE "duplicate"

\* A history that cannot be read reads as an empty one.
ReadHistory(r) ==
  /\ pc[r] = "history"
  /\ \E notes \in {bead[target[r]].notes} \cup (IF Fails("show") THEN {{}} ELSE {}) :
       seq' = [seq EXCEPT ![r] = NextSeq(notes)]
  /\ Goto(r, IF TitleChanged(r) \/ BodyChanged(r) THEN "edit"
             ELSE IF NewLabels(r) # {} THEN "label" ELSE "record")
  /\ UNCHANGED <<now, store, registry, recent, target, seen, whole, reply>>

\* Steps that fail are reported at the end; the next one is tried all the same.
Attempt(r, done, fault, next) ==
  /\ \E ok \in Outcome(fault) :
       /\ bead' \in (IF ok THEN {done} ELSE {bead, done})
       /\ whole' = [whole EXCEPT ![r] = @ /\ ok]
  /\ Goto(r, next)
  /\ UNCHANGED <<now, stamp, registry, recent, target, seen, seq, reply>>

Edit(r) ==
  /\ pc[r] = "edit"
  /\ Attempt(r,
       [bead EXCEPT ![target[r]].title = IF TitleChanged(r) THEN Title[r] ELSE @,
                    ![target[r]].body = IF BodyChanged(r) THEN MergedBody(r) ELSE @],
       "edit", IF NewLabels(r) # {} THEN "label" ELSE "record")

AddLabels(r) ==
  /\ pc[r] = "label"
  /\ Attempt(r, [bead EXCEPT ![target[r]].labels = @ \cup Labels[r]], "label", "record")

RecordRevision(r) ==
  /\ pc[r] = "record"
  /\ \E ok \in Outcome("note") :
       /\ Record(r, seq[r], ok)
       /\ whole' = [whole EXCEPT ![r] = @ /\ ok]
  /\ Goto(r, "verify")
  /\ UNCHANGED <<now, stamp, registry, recent, target, seen, seq, reply>>

\* Read after write: what this request changed must be on the bead.
Landed(r) ==
  /\ BodyChanged(r) => Body[r] \subseteq bead[target[r]].body
  /\ TitleChanged(r) => bead[target[r]].title = Title[r]

Verify(r) ==
  /\ pc[r] = "verify"
  /\ \E readBack \in Outcome("show") :
       Answer(r, target[r], Mode(r), whole[r] /\ readBack /\ Landed(r))
  /\ UNCHANGED <<now, store, registry>>

-----------------------------------------------------------------------------
(* The process restarts: requests, lock and registry are gone.              *)

Restart ==
  /\ Fails("restart")
  /\ LET here == {r \in Request : pc[r] \notin {"idle", "done"}}
         flying == {r \in here : pc[r] = "creating"}
         Wiped(f, blank) == [r \in Request |-> IF r \in here THEN blank ELSE f[r]]
     IN  /\ here # {}
         /\ IF flying = {} THEN UNCHANGED bead
            ELSE \E r \in flying : bead' \in Abandoned(target[r])
         /\ pc' = Wiped(pc, "done")
         /\ reply' = Wiped(reply, [NoReply EXCEPT !.as = "error"])
         /\ recent' = Wiped(recent, {})
         /\ target' = Wiped(target, NoBead)
         /\ seen' = Wiped(seen, Blank)
         /\ seq' = Wiped(seq, 0)
         /\ whole' = Wiped(whole, TRUE)
  /\ registry' = {}
  /\ UNCHANGED <<now, stamp>>

Step(r) ==
  \/ Enter(r) \/ ReadRecent(r) \/ Search(r)
  \/ Reuse(r) \/ StartCreate(r) \/ Created(r) \/ CreateFails(r)
  \/ Recover(r) \/ RecoverNothing(r) \/ RecordFirst(r)
  \/ ReadHistory(r) \/ Edit(r) \/ AddLabels(r) \/ RecordRevision(r) \/ Verify(r)

Next ==
  \/ Tick \/ Evict \/ Restart
  \/ \E b \in Bead : Land(b) \/ Close(b)
  \/ \E r \in Request : Step(r)

Spec == Init /\ [][Next]_vars
-----------------------------------------------------------------------------
Titles == {""} \cup {Title[r] : r \in Request}
Words == UNION {Body[r] : r \in Request}
LabelNames == UNION {Labels[r] : r \in Request}
Fields == [title : Titles, body : SUBSET Words, labels : SUBSET LabelNames]
Note == [seq : Nat \ {0}, by : Request]
BeadRecord ==
  [state : {"absent", "inflight", "lost", "open", "closed"},
   born : 0 .. MaxTime, ckey : Fields, title : Titles, body : SUBSET Words,
   labels : SUBSET LabelNames, notes : SUBSET Note]
Told ==
  [bead : Bead \cup {NoBead},
   as : {"none", "created", "revision", "duplicate", "error"},
   complete : BOOLEAN]

Entry == [id : Bead, at : 0 .. MaxTime, turn : Nat]

Creating == {"create", "creating", "recover", "first"}
Following == {"history", "edit", "label", "record", "verify"}

\* The registry names each bead once.
TypeOK ==
  /\ now \in 0 .. MaxTime
  /\ stamp \in 1 .. Cardinality(Request) + 1
  /\ bead \in [Bead -> BeadRecord]
  /\ registry \subseteq Entry
  /\ \A d, e \in registry : d.id = e.id => d = e
  /\ pc \in [Request -> {"idle", "recent", "done"} \cup Creating \cup Following]
  /\ recent \in [Request -> SUBSET Entry]
  /\ target \in [Request -> Bead \cup {NoBead}]
  /\ seen \in [Request -> Fields]
  /\ seq \in [Request -> Nat]
  /\ whole \in [Request -> BOOLEAN]
  /\ reply \in [Request -> Told]

\* "One user request must not become two beads": however the requests of an
\* intent overlap, fail and are retried, and whatever became of the registry,
\* no bead is created while a related one made inside the window is open or
\* being made, unless the caller asked for a distinct one.
NoSecondBead ==
  [][stamp' # stamp =>
       \/ \E r \in Distinct : bead'[stamp].ckey = Content(r)
       \/ \A b \in 1 .. stamp - 1 :
            bead[b].state \in {"open", "inflight"} /\ Age(b) <= Window
              => ~BodiesRelated(bead[b].body, bead'[stamp].body)]_vars

\* "The follow-up's information must be on the bead now": what a caller was told
\* is complete is on its bead, labels and note included, whatever followed.
CompleteAnswerKept ==
  \A r \in Request : reply[r].complete =>
    LET b == reply[r].bead
    IN  /\ Committed(b)
        /\ Body[r] \subseteq bead[b].body
        /\ Labels[r] \subseteq bead[b].labels
        /\ \E n \in bead[b].notes : n.by = r

\* "The caller can force it with `distinct: true`" (docs/idempotent-create.md):
\* a distinct request is never answered with a bead another one was told of.
DistinctStaysSeparate ==
  \A r \in Distinct : \A q \in Request \ {r} :
    reply[r].complete /\ reply[q].as \in {"created", "revision", "duplicate"}
      => reply[r].bead # reply[q].bead
=============================================================================
