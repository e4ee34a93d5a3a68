-------------------------- MODULE IntentCreateProofs --------------------------
(***************************************************************************)
(* Theorems about IntentCreate for any set of requests of the intent, any  *)
(* contents and any windows.                                               *)
(*                                                                         *)
(* Both properties rest on the lock: one request at a time is between its  *)
(* arrival and its answer (OneActive), so the text it read of its bead is  *)
(* the bead's text until it has edited it (Working), whoever closes the    *)
(* bead meanwhile.  CompleteAnswerKept then holds with every fault.        *)
(* NoSecondBead needs that what the search did not find is not there:      *)
(* nothing is in flight but the create of the request that holds the lock  *)
(* (Awaited), and what has been searched in vain stays so until the create *)
(* (Clear).  A search that fails, and a create that lands after it was     *)
(* given up, break either of them, and the code then makes a second bead.  *)
(***************************************************************************)
EXTENDS IntentCreate, FiniteSetTheorems, TLAPS

Active(r) == pc[r] \notin {"idle", "done"}
OneActive == \A q, r \in Request : Active(q) /\ Active(r) => q = r

\* Whoever has made a bead has come this far.
Placed == {r \in Request : pc[r] \in {"creating", "recover", "first", "done"}}
Counted == stamp - 1 <= Cardinality(Placed)

Unmade == \A b \in Bead : b >= stamp => bead[b] = Absent

\* A non-empty history has a highest number, so NextSeq is a number.
HasHighest(notes) == notes # {} => \E n \in notes : \A q \in notes : q.seq <= n.seq
Histories == \A b \in Bead : HasHighest(bead[b].notes)

\* What a content key stands for is on the bead.
KeyHolds(x) == x.ckey.body \subseteq x.body /\ x.ckey.labels \subseteq x.labels
Keyed == \A b \in Bead : KeyHolds(bead[b])

Landing(x) == x.state \in {"inflight", "open", "closed"}
Registered ==
  /\ \A e \in registry : Committed(e.id)
  /\ \A r \in Request : \A e \in recent[r] : Committed(e.id)

\* How far the request has come with its bead x.
BodyIsOn(x, r) == Body[r] \subseteq x.body
LabelsAreOn(x, r) == Labels[r] \subseteq x.labels
NoteIsOn(x, r) == \E n \in x.notes : n.by = r
Progress(x, r) ==
  /\ pc[r] = "creating" => Landing(x) /\ x.ckey = Content(r)
  /\ pc[r] \in {"first"} \cup Following => x.state \in {"open", "closed"}
  /\ pc[r] = "first" => BodyIsOn(x, r) /\ LabelsAreOn(x, r)
  /\ pc[r] \in Following => seen[r].body \subseteq x.body /\ seen[r].labels \subseteq x.labels
  /\ pc[r] \in {"history", "edit"} => x.body \subseteq seen[r].body
  /\ pc[r] \in {"label", "record", "verify"} /\ whole[r] => BodyIsOn(x, r)
  /\ pc[r] \in {"record", "verify"} /\ whole[r] => LabelsAreOn(x, r)
  /\ pc[r] = "verify" /\ whole[r] => NoteIsOn(x, r)
  /\ pc[r] \in {"edit", "label", "record"} => seq[r] # 0
Working ==
  \A r \in Request :
    pc[r] \in {"creating", "first"} \cup Following =>
      target[r] \in Bead /\ Progress(bead[target[r]], r)

Named == \A r \in Request : reply[r].complete => reply[r].bead \in Bead

IntentInv ==
  /\ TypeOK
  /\ Named
  /\ OneActive
  /\ Counted
  /\ Unmade
  /\ Histories
  /\ Keyed
  /\ Registered
  /\ Working
  /\ CompleteAnswerKept

-----------------------------------------------------------------------------
(* The second invariant.                                                    *)

\* A create is in flight only while its request waits for it.
Awaited ==
  \A b \in Bead : bead[b].state = "inflight" =>
    \E r \in Request : pc[r] = "creating" /\ target[r] = b

Titled == \A b \in Bead : Landing(bead[b]) => bead[b].title # ""

\* Nothing the request could have continued is there when it creates.
Continues(b, r) ==
  /\ bead[b].state \in {"open", "inflight"}
  /\ Age(b) <= Window
  /\ BodiesRelated(bead[b].body, Body[r])
Clear ==
  \A r \in Request \ Distinct :
    pc[r] = "create" => \A b \in Bead : ~Continues(b, r)

OneInv == Awaited /\ Titled /\ Clear

-----------------------------------------------------------------------------
(* Names, numbers and types.                                                *)

LEMMA Names ==
  /\ Cardinality(Request) \in Nat
  /\ Bead \subseteq Nat \ {0}
  /\ \A S \in SUBSET Request : IsFiniteSet(S) /\ Cardinality(S) \in Nat
  /\ \A S \in SUBSET Request : Cardinality(S) <= Cardinality(Request)
  /\ MaxTime \in Nat /\ 0 \in 0 .. MaxTime
<1>1. IsFiniteSet(Request)
  BY IntentAssumption
<1>2. Cardinality(Request) \in Nat
  BY <1>1, FS_CardinalityType
<1>3. \A S \in SUBSET Request : IsFiniteSet(S) /\ Cardinality(S) <= Cardinality(Request)
  BY <1>1, FS_Subset
<1>4. \A S \in SUBSET Request : Cardinality(S) \in Nat
  BY <1>3, FS_CardinalityType
<1>5. MaxTime \in Nat
  BY IntentAssumption
<1>6. 0 \in 0 .. MaxTime
  BY <1>5
<1> QED BY <1>2, <1>3, <1>4, <1>5, <1>6 DEF Bead

LEMMA ContentIsTyped ==
  ASSUME NEW r \in Request
  PROVE  /\ Title[r] \in Titles /\ Body[r] \in SUBSET Words /\ Labels[r] \in SUBSET LabelNames
         /\ Content(r) \in Fields /\ Blank \in Fields
<1>1. Title[r] \in Titles
  BY DEF Titles
<1>2. Body[r] \in SUBSET Words
  BY DEF Words
<1>3. Labels[r] \in SUBSET LabelNames
  BY DEF LabelNames
<1>4. "" \in Titles
  BY DEF Titles
<1> QED BY <1>1, <1>2, <1>3, <1>4 DEF Content, Blank, Fields

LEMMA AbsentIsTyped ==
  /\ Absent \in BeadRecord /\ Absent.state = "absent"
  /\ KeyHolds(Absent) /\ HasHighest(Absent.notes)
<1>1. "" \in Titles
  BY DEF Titles
<1>2. Blank \in Fields
  BY <1>1 DEF Blank, Fields
<1>3. 0 \in 0 .. MaxTime
  BY Names
<1> QED BY <1>1, <1>2, <1>3 DEF Absent, Blank, BeadRecord, KeyHolds, HasHighest

\* nextSeq is a positive number.
LEMMA NextSeqIsPositive ==
  ASSUME NEW notes \in SUBSET Note, HasHighest(notes)
  PROVE  NextSeq(notes) \in Nat \ {0}
<1>1. CASE notes = {}
  BY <1>1 DEF NextSeq
<1>2. CASE notes # {}
  <2> DEFINE top == CHOOSE n \in notes : \A q \in notes : q.seq <= n.seq
  <2>1. top \in notes
    BY <1>2 DEF HasHighest
  <2>2. top.seq \in Nat
    BY <2>1 DEF Note
  <2>3. NextSeq(notes) = top.seq + 1
    BY <1>2 DEF NextSeq
  <2> QED BY <2>2, <2>3
<1> QED BY <1>1, <1>2

LEMMA HighestKept ==
  ASSUME NEW notes \in SUBSET Note, HasHighest(notes), NEW n \in Note
  PROVE  HasHighest(notes \cup {n})
<1>1. \A q \in notes \cup {n} : q.seq \in Nat
  BY DEF Note
<1>2. CASE notes = {}
  BY <1>1, <1>2 DEF HasHighest
<1>3. CASE notes # {}
  <2>1. PICK m \in notes : \A q \in notes : q.seq <= m.seq
    BY <1>3 DEF HasHighest
  <2>2. CASE m.seq <= n.seq
    <3>1. \A q \in notes \cup {n} : q.seq <= n.seq
      BY <1>1, <2>1, <2>2
    <3> QED BY <3>1 DEF HasHighest
  <2>3. CASE ~(m.seq <= n.seq)
    <3>1. \A q \in notes \cup {n} : q.seq <= m.seq
      BY <1>1, <2>1, <2>3
    <3> QED BY <2>1, <3>1 DEF HasHighest
  <2> QED BY <2>2, <2>3
<1> QED BY <1>2, <1>3

LEMMA IntentInitial == Init => IntentInv
<1> SUFFICES ASSUME Init PROVE IntentInv
  OBVIOUS
<1>1. Cardinality(Request) \in Nat /\ Bead \subseteq Nat \ {0}
  BY Names
<1>2. TypeOK
  <2>1. now \in 0 .. MaxTime /\ stamp \in 1 .. Cardinality(Request) + 1
    BY <1>1, Names DEF Init
  <2>2. bead \in [Bead -> BeadRecord]
    BY AbsentIsTyped DEF Init
  <2>3. registry \subseteq Entry /\ \A d, e \in registry : d.id = e.id => d = e
    BY DEF Init
  <2>4. seen \in [Request -> Fields]
    BY ContentIsTyped DEF Init
  <2>5. reply \in [Request -> Told]
    BY DEF Init, NoReply, Told
  <2> QED BY <2>1, <2>2, <2>3, <2>4, <2>5 DEF Init, TypeOK, NoBead
<1>3. Counted
  BY Names DEF Init, Counted, Placed
<1>4. Unmade /\ Histories /\ Keyed
  BY AbsentIsTyped DEF Init, Unmade, Histories, Keyed
<1>5. OneActive /\ Registered /\ Working /\ CompleteAnswerKept
  BY DEF Init, OneActive, Active, Registered, Working, Following, CompleteAnswerKept, NoReply
<1>6. Named
  BY DEF Init, Named, NoReply
<1> QED BY <1>2, <1>3, <1>4, <1>5, <1>6 DEF IntentInv

-----------------------------------------------------------------------------
(* What every step of a request leaves alone, and what it then has to show.  *)

\* The other requests are where they were.
Only(r) ==
  \A q \in Request : q # r =>
    /\ pc'[q] = pc[q] /\ target'[q] = target[q] /\ seen'[q] = seen[q]
    /\ whole'[q] = whole[q] /\ recent'[q] = recent[q] /\ reply'[q] = reply[q]

\* A bead x that becomes y keeps what is sound about it; a committed one only gains.
Sound(x, y) ==
  /\ HasHighest(x.notes) => HasHighest(y.notes)
  /\ KeyHolds(x) => KeyHolds(y)
  /\ x.state \in {"open", "closed"} =>
       /\ y.state \in {"open", "closed"}
       /\ x.body \subseteq y.body /\ x.labels \subseteq y.labels /\ x.notes \subseteq y.notes
BeadsKept ==
  \A b \in Bead : /\ Sound(bead[b], bead'[b])
                  /\ b >= stamp' => b >= stamp /\ bead'[b] = bead[b]

LEMMA SoundStays == \A x : Sound(x, x)
  BY DEF Sound

\* The answer r was given is, or stays, on its bead.
AnswerHolds(r) ==
  reply[r].complete =>
    /\ Committed(reply[r].bead)
    /\ BodyIsOn(bead[reply[r].bead], r) /\ LabelsAreOn(bead[reply[r].bead], r)
    /\ NoteIsOn(bead[reply[r].bead], r)

AtWork(r) ==
  pc[r] \in {"creating", "first"} \cup Following =>
    target[r] \in Bead /\ Progress(bead[target[r]], r)

LEMMA Parts ==
  IntentInv <=>
    /\ TypeOK /\ Named /\ OneActive /\ Counted /\ Unmade /\ Histories /\ Keyed /\ Registered
    /\ \A r \in Request : AtWork(r) /\ AnswerHolds(r)
BY DEF IntentInv, Working, CompleteAnswerKept, AtWork, AnswerHolds, BodyIsOn, LabelsAreOn, NoteIsOn

\* What was told stays on its bead.
LEMMA AnswerStays ==
  ASSUME IntentInv, BeadsKept, UNCHANGED reply, NEW r \in Request
  PROVE  Named' /\ AnswerHolds(r)'
<1>1. Named' /\ reply' = reply
  BY DEF IntentInv, Named
<1> SUFFICES ASSUME reply[r].complete PROVE AnswerHolds(r)'
  BY <1>1 DEF AnswerHolds
<1>2. AnswerHolds(r) /\ reply[r].bead \in Bead
  BY Parts DEF Named
<1>3. Sound(bead[reply[r].bead], bead'[reply[r].bead])
  BY <1>2 DEF BeadsKept
<1> QED BY <1>1, <1>2, <1>3 DEF AnswerHolds, Sound, Committed, BodyIsOn, LabelsAreOn, NoteIsOn

\* A step of r keeps the invariant if it does to the store, the registry and
\* its own work what it should.
LEMMA StepKeeps ==
  ASSUME IntentInv, NEW r \in Request, TypeOK', Only(r), BeadsKept,
         Active(r) \/ LockFree(r),
         Active(r)' \/ pc'[r] = "done",
         \/ stamp' = stamp /\ (r \in Placed => r \in Placed')
         \/ stamp' = stamp + 1 /\ r \notin Placed /\ r \in Placed',
         registry' \subseteq registry \/ \A e \in registry' : Committed(e.id)',
         \A e \in recent'[r] : e \in recent[r] \/ e \in registry,
         AtWork(r)', Named', AnswerHolds(r)'
  PROVE  IntentInv'
<1> USE DEF IntentInv
<1>1. OneActive'
  <2> SUFFICES ASSUME NEW q \in Request, NEW s \in Request, q # s, Active(q)', Active(s)'
               PROVE  FALSE
    BY DEF OneActive
  <2>1. PICK x \in Request : x # r /\ Active(x)'
    OBVIOUS
  <2>2. Active(x)
    BY <2>1 DEF Only, Active
  <2>3. ~LockFree(r)
    BY <2>1, <2>2 DEF LockFree, Active
  <2>4. Active(r)
    BY <2>3
  <2> QED BY <2>1, <2>2, <2>4 DEF OneActive
<1>2. Counted'
  <2>1. Placed \ {r} = Placed' \ {r}
    BY DEF Placed, Only
  <2>2. Placed \in SUBSET Request /\ Placed' \in SUBSET Request
    BY DEF Placed
  <2>3. /\ IsFiniteSet(Placed) /\ Cardinality(Placed) \in Nat
        /\ IsFiniteSet(Placed') /\ Cardinality(Placed') \in Nat
    BY <2>2, Names
  <2>4. stamp \in Nat
    BY Names DEF TypeOK
  <2>5. CASE stamp' = stamp /\ (r \in Placed => r \in Placed')
    <3>1. Placed \subseteq Placed'
      BY <2>1, <2>5
    <3>2. Cardinality(Placed) <= Cardinality(Placed')
      <4> HIDE DEF Placed
      <4> QED BY <2>3, <3>1, FS_Subset
    <3> QED BY <2>3, <2>4, <2>5, <3>2 DEF Counted
  <2>6. CASE stamp' = stamp + 1 /\ r \notin Placed /\ r \in Placed'
    <3>1. Placed' = Placed \cup {r}
      BY <2>1, <2>6
    <3>2. Cardinality(Placed') = Cardinality(Placed) + 1
      <4> HIDE DEF Placed
      <4> QED BY <2>3, <2>6, <3>1, FS_AddElement
    <3> QED BY <2>3, <2>4, <2>6, <3>2 DEF Counted
  <2> QED BY <2>5, <2>6
<1>3. Unmade'
  BY DEF BeadsKept, Unmade
<1>4. Histories' /\ Keyed'
  BY DEF BeadsKept, Sound, Histories, Keyed
<1>5. \A b \in Bead : Committed(b) => Committed(b)'
  BY DEF BeadsKept, Sound, Committed
<1>6. Registered'
  <2>1. \A e \in registry' : Committed(e.id)'
    <3>1. \A e \in registry : e.id \in Bead
      BY DEF TypeOK, Entry
    <3> QED BY <1>5, <3>1 DEF Registered
  <2>2. ASSUME NEW q \in Request, NEW e \in recent'[q] PROVE Committed(e.id)'
    <3>1. e \in recent[q] \/ e \in registry
      BY <2>2 DEF Only
    <3>2. recent[q] \subseteq Entry /\ registry \subseteq Entry
      BY DEF TypeOK
    <3>3. e.id \in Bead
      BY <3>1, <3>2 DEF Entry
    <3> QED BY <1>5, <3>1, <3>3 DEF Registered
  <2> QED BY <2>1, <2>2 DEF Registered
<1>7. ASSUME NEW q \in Request PROVE AtWork(q)'
  <2>1. CASE q = r
    BY <2>1
  <2>2. CASE q # r
    <3>1. ~Active(q)
      BY <2>2 DEF OneActive, LockFree, Active
    <3>2. pc'[q] \in {"idle", "done"}
      BY <2>2, <3>1 DEF Only, Active
    <3> QED BY <3>2 DEF AtWork, Following
  <2> QED BY <2>1, <2>2
<1>8. ASSUME NEW q \in Request PROVE AnswerHolds(q)'
  <2>1. CASE q = r
    BY <2>1
  <2>2. CASE q # r
    <3> SUFFICES ASSUME reply'[q].complete PROVE AnswerHolds(q)'
      BY DEF AnswerHolds
    <3>1. reply'[q] = reply[q] /\ reply[q].complete
      BY <2>2 DEF Only
    <3> DEFINE b == reply[q].bead
    <3>2. b \in Bead
      BY <3>1 DEF Named
    <3>3. AnswerHolds(q)
      BY Parts
    <3>4. Sound(bead[b], bead'[b])
      BY <3>2 DEF BeadsKept
    <3> QED BY <3>1, <3>3, <3>4 DEF AnswerHolds, Sound, Committed, BodyIsOn, LabelsAreOn, NoteIsOn
  <2> QED BY <2>1, <2>2
<1>9. (\A q \in Request : AtWork(q) /\ AnswerHolds(q))'
  BY <1>7, <1>8
<1>10. Working' /\ CompleteAnswerKept'
  BY <1>9 DEF Working, CompleteAnswerKept, AtWork, AnswerHolds, BodyIsOn, LabelsAreOn, NoteIsOn
<1> QED BY <1>1, <1>2, <1>3, <1>4, <1>6, <1>10

\* The steps that leave the store as it is.
LEMMA StoreUntouched ==
  ASSUME IntentInv, UNCHANGED store
  PROVE  /\ BeadsKept /\ bead' = bead /\ stamp' = stamp
         /\ \A b : Committed(b)' <=> Committed(b)
<1>1. bead' = bead /\ stamp' = stamp
  BY DEF store
<1> QED BY <1>1, SoundStays DEF BeadsKept, Committed

-----------------------------------------------------------------------------
(* findCandidate. *)

LEMMA RecentIsRegistered == Recent \subseteq registry /\ PrunedRegistry(registry) \subseteq registry
BY DEF Recent, PrunedRegistry

LEMMA EnterKeeps ==
  ASSUME IntentInv, NEW r \in Request, Enter(r)
  PROVE  IntentInv'
<1> USE DEF IntentInv, Enter, Goto
<1>1. BeadsKept /\ bead' = bead /\ stamp' = stamp
  BY StoreUntouched
<1>2. Only(r)
  BY DEF Only, TypeOK
<1>3. registry' \subseteq registry /\ \A e \in recent'[r] : e \in recent[r] \/ e \in registry
  BY RecentIsRegistered DEF TypeOK
<1>4. TypeOK'
  BY <1>1, RecentIsRegistered DEF TypeOK, Creating, Following
<1>5. LockFree(r) /\ pc'[r] \in {"create", "recent"}
  BY DEF TypeOK
<1>6. stamp' = stamp /\ (r \in Placed => r \in Placed')
  BY <1>1 DEF Placed
<1>7. AtWork(r)' /\ Active(r)'
  BY <1>5 DEF AtWork, Following, Active
<1>8. Named' /\ AnswerHolds(r)'
  BY <1>1, AnswerStays
<1> QED BY <1>1, <1>2, <1>3, <1>4, <1>5, <1>6, <1>7, <1>8, StepKeeps

\* A candidate is an open bead, whose fields the request has just read.
LEMMA CandidateIsKnown ==
  ASSUME IntentInv, NEW r \in Request, NEW b \in Bead, Committed(b),
         UNCHANGED store, pc'[r] = "history", target'[r] = b, seen'[r] = FieldsOf(b)
  PROVE  AtWork(r)'
<1>1. bead' = bead
  BY DEF store
<1> QED BY <1>1 DEF AtWork, Progress, Committed, FieldsOf, Following

LEMMA FieldsAreTyped ==
  ASSUME TypeOK, NEW b \in Bead
  PROVE  FieldsOf(b) \in Fields
<1>1. bead[b] \in BeadRecord
  BY DEF TypeOK
<1> QED BY <1>1 DEF FieldsOf, Fields, BeadRecord

LEMMA ReadRecentKeeps ==
  ASSUME IntentInv, NEW r \in Request, ReadRecent(r)
  PROVE  IntentInv'
<1> USE DEF IntentInv
<1>0. /\ pc[r] = "recent" /\ UNCHANGED <<now, store, seq, whole, reply>>
  BY DEF ReadRecent
<1>1. BeadsKept /\ bead' = bead /\ stamp' = stamp
  BY <1>0, StoreUntouched
<1>2. PICK e \in recent[r] :
        \E fields \in {FieldsOf(e.id)} \cup (IF Fails("show") THEN {Blank} ELSE {}) :
            IF Usable(bead[e.id].state, fields, r)
            THEN /\ target' = [target EXCEPT ![r] = e.id]
                 /\ seen' = [seen EXCEPT ![r] = fields]
                 /\ Goto(r, "history")
                 /\ UNCHANGED <<registry, recent>>
            ELSE /\ registry' = Forgotten(e.id)
                 /\ recent' = [recent EXCEPT ![r] = @ \ {e}]
                 /\ UNCHANGED <<target, seen, pc>>
  BY DEF ReadRecent
<1>3. PICK fields \in {FieldsOf(e.id), Blank} :
            IF Usable(bead[e.id].state, fields, r)
            THEN /\ target' = [target EXCEPT ![r] = e.id]
                 /\ seen' = [seen EXCEPT ![r] = fields]
                 /\ pc' = [pc EXCEPT ![r] = "history"]
                 /\ registry' = registry /\ recent' = recent
            ELSE /\ registry' = Forgotten(e.id)
                 /\ recent' = [recent EXCEPT ![r] = @ \ {e}]
                 /\ target' = target /\ seen' = seen /\ pc' = pc
  BY <1>2 DEF Goto
<1>4. e.id \in Bead /\ Committed(e.id)
  <2>1. e \in Entry
    BY DEF TypeOK
  <2> QED BY <2>1 DEF Registered, Entry
<1>5. CASE Usable(bead[e.id].state, fields, r)
  <2>1. fields = FieldsOf(e.id)
    <3>1. Blank.title = "" /\ fields.title # ""
      BY <1>5 DEF Usable, Blank
    <3> QED BY <3>1, Zenon
  <2>2. /\ target' = [target EXCEPT ![r] = e.id] /\ seen' = [seen EXCEPT ![r] = FieldsOf(e.id)]
        /\ pc' = [pc EXCEPT ![r] = "history"] /\ registry' = registry /\ recent' = recent
    BY <1>3, <1>5, <2>1
  <2>3. TypeOK'
    BY <1>0, <1>1, <1>4, <2>2, FieldsAreTyped DEF TypeOK, Following
  <2>4. Only(r) /\ pc'[r] = "history" /\ target'[r] = e.id /\ seen'[r] = FieldsOf(e.id)
    BY <1>0, <2>2 DEF Only, TypeOK
  <2>5. AtWork(r)'
    BY <1>0, <1>4, <2>4, CandidateIsKnown
  <2>6. Active(r) /\ Active(r)' /\ r \notin Placed
    BY <1>0, <2>4 DEF Active, Placed
  <2>7. Named' /\ AnswerHolds(r)'
    BY <1>0, <1>1, AnswerStays
  <2> QED BY <1>1, <2>2, <2>3, <2>4, <2>5, <2>6, <2>7, StepKeeps
<1>6. CASE ~Usable(bead[e.id].state, fields, r)
  <2>1. /\ registry' = Forgotten(e.id) /\ recent' = [recent EXCEPT ![r] = @ \ {e}]
        /\ target' = target /\ seen' = seen /\ pc' = pc
    BY <1>3, <1>6
  <2>2. registry' \subseteq registry /\ recent'[r] \subseteq recent[r]
    BY <2>1 DEF Forgotten, TypeOK
  <2>3. TypeOK'
    BY <1>0, <1>1, <2>1, <2>2 DEF TypeOK
  <2>4. Only(r)
    BY <1>0, <2>1 DEF Only, TypeOK
  <2>5. AtWork(r)' /\ Active(r) /\ Active(r)' /\ (r \in Placed => r \in Placed')
    BY <1>0, <2>1 DEF AtWork, Following, Active, Placed
  <2>6. Named' /\ AnswerHolds(r)'
    BY <1>0, <1>1, AnswerStays
  <2> QED BY <1>1, <2>2, <2>3, <2>4, <2>5, <2>6, StepKeeps
<1> QED BY <1>5, <1>6

LEMMA SearchKeeps ==
  ASSUME IntentInv, NEW r \in Request, Search(r)
  PROVE  IntentInv'
<1> USE DEF IntentInv
<1>0. /\ pc[r] = "recent" /\ UNCHANGED <<now, store, registry, recent, seq, whole, reply>>
  BY DEF Search
<1>1. BeadsKept /\ bead' = bead /\ stamp' = stamp
  BY <1>0, StoreUntouched
<1>2. Named' /\ AnswerHolds(r)'
  BY <1>0, <1>1, AnswerStays
<1>3. Active(r) /\ r \notin Placed
  BY <1>0 DEF Active, Placed
<1>4. CASE Goto(r, "create") /\ UNCHANGED <<target, seen>>
  <2>1. TypeOK'
    BY <1>0, <1>1, <1>4 DEF TypeOK, Goto, Creating
  <2>2. Only(r) /\ pc'[r] = "create"
    BY <1>0, <1>4 DEF Only, Goto, TypeOK
  <2>3. AtWork(r)' /\ Active(r)'
    BY <2>2 DEF AtWork, Following, Active
  <2> QED BY <1>0, <1>1, <1>2, <1>3, <2>1, <2>2, <2>3, StepKeeps
<1>5. ASSUME NEW b \in Fresh(r), target' = [target EXCEPT ![r] = b],
             seen' = [seen EXCEPT ![r] = FieldsOf(b)], Goto(r, "history")
      PROVE  IntentInv'
  <2>1. b \in Bead /\ Committed(b)
    BY DEF Fresh
  <2>2. TypeOK'
    BY <1>0, <1>1, <1>5, <2>1, FieldsAreTyped DEF TypeOK, Goto, Following
  <2>3. Only(r) /\ pc'[r] = "history" /\ target'[r] = b /\ seen'[r] = FieldsOf(b)
    BY <1>0, <1>5 DEF Only, Goto, TypeOK
  <2>4. AtWork(r)' /\ Active(r)'
    BY <1>0, <2>1, <2>3, CandidateIsKnown DEF Active
  <2> QED BY <1>0, <1>1, <1>2, <1>3, <2>2, <2>3, <2>4, StepKeeps
<1> QED BY <1>4, <1>5 DEF Search

-----------------------------------------------------------------------------
(* first. *)

LEMMA RecordedIsTyped ==
  ASSUME TypeOK, NEW b \in Bead
  PROVE  /\ Recorded(b) \subseteq Entry
         /\ \A d, e \in Recorded(b) : d.id = e.id => d = e
         /\ \A e \in Recorded(b) : e \in registry \/ e.id = b
<1> DEFINE new == [id |-> b, at |-> now, turn |-> Turn]
<1>1. new \in Entry
  <2>1. Turn \in Nat
    <3>1. {r \in Request : pc[r] = "done"} \in SUBSET Request
      OBVIOUS
    <3> QED BY <3>1, Names DEF Turn
  <2> QED BY <2>1 DEF TypeOK, Entry
<1>2. Recorded(b) \subseteq {e \in registry : e.id # b} \cup {new}
  BY DEF Recorded, PrunedRegistry, Forgotten
<1>3. new.id = b
  OBVIOUS
<1> HIDE DEF new
<1> QED BY <1>1, <1>2, <1>3 DEF TypeOK

LEMMA SettledKeeps ==
  ASSUME IntentInv, NEW r \in Request, pc[r] \in {"create", "creating", "recover"},
         NEW b \in Bead, Committed(b), bead[b].ckey = Content(r), Settled(r, b)
  PROVE  IntentInv'
<1> USE DEF IntentInv
<1>1. BeadsKept /\ bead' = bead /\ stamp' = stamp
  BY StoreUntouched DEF Settled
<1>2. PICK ok \in BOOLEAN : whole' = [whole EXCEPT ![r] = ok]
  BY DEF Settled, Outcome
<1>3. /\ registry' = Recorded(b) /\ target' = [target EXCEPT ![r] = b]
      /\ pc' = [pc EXCEPT ![r] = "first"]
      /\ now' = now /\ recent' = recent /\ seen' = seen /\ seq' = seq /\ reply' = reply
  BY DEF Settled, Goto
<1>4. TypeOK'
  BY <1>1, <1>2, <1>3, RecordedIsTyped DEF TypeOK, Creating
<1>5. Only(r) /\ pc'[r] = "first" /\ target'[r] = b
  BY <1>2, <1>3 DEF Only, TypeOK
<1>6. \A e \in registry' : Committed(e.id)'
  BY <1>1, <1>3, RecordedIsTyped DEF Registered, Committed
<1>7. AtWork(r)'
  <2>1. KeyHolds(bead[b])
    BY DEF Keyed
  <2>2. Body[r] \subseteq bead[b].body /\ Labels[r] \subseteq bead[b].labels
    BY <2>1 DEF KeyHolds, Content
  <2> QED BY <1>1, <1>5, <2>2 DEF AtWork, Progress, Committed, Following, BodyIsOn, LabelsAreOn
<1>8. Active(r) /\ Active(r)' /\ (r \in Placed => r \in Placed')
  BY <1>5 DEF Active, Placed
<1>9. Named' /\ AnswerHolds(r)'
  BY <1>1, <1>3, AnswerStays
<1> QED BY <1>1, <1>3, <1>4, <1>5, <1>6, <1>7, <1>8, <1>9, StepKeeps

LEMMA ReuseKeeps ==
  ASSUME IntentInv, NEW r \in Request, Reuse(r)
  PROVE  IntentInv'
<1>1. PICK b \in Twins(r) : Settled(r, b)
  BY DEF Reuse
<1>2. b \in Bead /\ Committed(b) /\ bead[b].ckey = Content(r)
  BY DEF Twins, Committed
<1> QED BY <1>1, <1>2, SettledKeeps DEF Reuse

LEMMA RecoverKeeps ==
  ASSUME IntentInv, NEW r \in Request, Recover(r)
  PROVE  IntentInv'
<1>1. PICK b \in Twins(r) : Settled(r, b)
  BY DEF Recover
<1>2. b \in Bead /\ Committed(b) /\ bead[b].ckey = Content(r)
  BY DEF Twins, Committed
<1> QED BY <1>1, <1>2, SettledKeeps DEF Recover

LEMMA CreatedKeeps ==
  ASSUME IntentInv, NEW r \in Request, Created(r)
  PROVE  IntentInv'
<1>1. target[r] \in Bead /\ bead[target[r]].ckey = Content(r)
  BY DEF Created, IntentInv, Working, Progress
<1> QED BY <1>1, SettledKeeps DEF Created

\* There is a name left for each request that has made no bead.
LEMMA NameIsLeft ==
  ASSUME IntentInv, NEW r \in Request, r \notin Placed
  PROVE  stamp \in Bead
<1>1. IsFiniteSet(Request) /\ IsFiniteSet(Request \ {r}) /\ Cardinality(Request) \in Nat
  BY Names, IntentAssumption
<1>2. Cardinality(Request \ {r}) = Cardinality(Request) - 1
  BY <1>1, FS_RemoveElement
<1>3. Placed \subseteq Request \ {r}
  BY DEF Placed
<1>4. Cardinality(Placed) \in Nat
  BY <1>3, Names
<1>5. Cardinality(Placed) <= Cardinality(Request) - 1
  <2> HIDE DEF Placed
  <2> QED BY <1>1, <1>2, <1>3, FS_Subset
<1> QED BY <1>1, <1>4, <1>5 DEF IntentInv, TypeOK, Counted, Bead

LEMMA NewBeadIsSound ==
  ASSUME TypeOK, NEW r \in Request
  PROVE  /\ NewBead(r) \in BeadRecord /\ KeyHolds(NewBead(r)) /\ HasHighest(NewBead(r).notes)
         /\ Landing(NewBead(r)) /\ NewBead(r).ckey = Content(r)
         /\ NewBead(r).title = Title[r] /\ NewBead(r).body = Body[r]
<1>1. NewBead(r) \in BeadRecord
  BY ContentIsTyped DEF TypeOK, NewBead, BeadRecord
<1> QED BY <1>1 DEF NewBead, KeyHolds, HasHighest, Landing, Content

LEMMA StartCreateKeeps ==
  ASSUME IntentInv, NEW r \in Request, StartCreate(r)
  PROVE  IntentInv'
<1> USE DEF IntentInv
<1>1. pc[r] = "create" /\ r \notin Placed
  BY DEF StartCreate, Placed
<1>2. stamp \in Bead
  BY <1>1, NameIsLeft
<1> DEFINE x == NewBead(r)
<1>3. /\ bead' = [bead EXCEPT ![stamp] = x] /\ stamp' = stamp + 1
      /\ target' = [target EXCEPT ![r] = stamp] /\ pc' = [pc EXCEPT ![r] = "creating"]
      /\ now' = now /\ registry' = registry /\ recent' = recent /\ seen' = seen
      /\ seq' = seq /\ whole' = whole /\ reply' = reply
  BY DEF StartCreate, Goto
<1>4. x \in BeadRecord /\ KeyHolds(x) /\ HasHighest(x.notes) /\ Landing(x) /\ x.ckey = Content(r)
  BY NewBeadIsSound
<1> HIDE DEF x
<1>5. bead'[stamp] = x /\ \A b \in Bead : b # stamp => bead'[b] = bead[b]
  BY <1>2, <1>3 DEF TypeOK
<1>6. BeadsKept
  <2>1. bead[stamp].state = "absent"
    <3>1. bead[stamp] = Absent
      BY <1>2, Names DEF Unmade
    <3> QED BY <3>1, AbsentIsTyped
  <2>2. Sound(bead[stamp], x)
    BY <1>4, <2>1 DEF Sound
  <2>3. \A b \in Bead : b >= stamp' => b >= stamp /\ b # stamp
    BY <1>2, <1>3, Names
  <2> QED BY <1>5, <2>2, <2>3, SoundStays DEF BeadsKept
<1>7. TypeOK'
  <2>1. stamp' \in 1 .. Cardinality(Request) + 1
    BY <1>2, <1>3, Names DEF Bead
  <2> QED BY <1>2, <1>3, <1>4, <2>1 DEF TypeOK, Creating
<1>8. Only(r) /\ pc'[r] = "creating" /\ target'[r] = stamp
  BY <1>3 DEF Only, TypeOK
<1>9. AtWork(r)'
  BY <1>2, <1>4, <1>5, <1>8 DEF AtWork, Progress, Following
<1>10. Active(r) /\ Active(r)' /\ r \in Placed'
  BY <1>1, <1>8 DEF Active, Placed
<1>11. Named' /\ AnswerHolds(r)'
  BY <1>3, <1>6, AnswerStays
<1> QED BY <1>1, <1>3, <1>6, <1>7, <1>8, <1>9, <1>10, <1>11, StepKeeps

\* One bead of the store changes.
LEMMA BeadChanged ==
  ASSUME IntentInv, NEW b \in Bead, bead[b].state # "absent",
         NEW y \in BeadRecord, Sound(bead[b], y),
         bead' = [bead EXCEPT ![b] = y], stamp' = stamp
  PROVE  /\ bead' \in [Bead -> BeadRecord] /\ BeadsKept /\ bead'[b] = y
         /\ \A c \in Bead : c # b => bead'[c] = bead[c]
<1>1. bead \in [Bead -> BeadRecord] /\ stamp \in Nat
  BY Names DEF IntentInv, TypeOK
<1>2. ~(b >= stamp)
  BY AbsentIsTyped DEF IntentInv, Unmade
<1>3. bead'[b] = y /\ \A c \in Bead : c # b => bead'[c] = bead[c]
  BY <1>1
<1>4. bead' \in [Bead -> BeadRecord]
  BY <1>1
<1>5. BeadsKept
  BY <1>2, <1>3, SoundStays DEF BeadsKept
<1> QED BY <1>3, <1>4, <1>5

\* An abandoned create is lost, lands, or stays in flight.
LEMMA AbandonedIsSound ==
  ASSUME IntentInv, NEW b \in Bead, Landing(bead[b]), bead' \in Abandoned(b), stamp' = stamp
  PROVE  BeadsKept /\ bead' \in [Bead -> BeadRecord]
<1>1. bead \in [Bead -> BeadRecord] /\ bead[b] \in BeadRecord /\ KeyHolds(bead[b])
  BY DEF IntentInv, TypeOK, Keyed
<1>2. CASE bead' = bead
  BY <1>1, <1>2, SoundStays DEF BeadsKept
<1> DEFINE landed == [bead[b] EXCEPT !.state = "open"]
<1>3. CASE bead[b].state = "inflight" /\ bead' = [bead EXCEPT ![b] = landed]
  <2>1. landed \in BeadRecord /\ Sound(bead[b], landed)
    BY <1>1, <1>3 DEF BeadRecord, Sound, KeyHolds
  <2> HIDE DEF landed
  <2> QED BY <1>3, <2>1, BeadChanged
<1>4. CASE bead[b].state = "inflight" /\ bead' = [bead EXCEPT ![b] = Lost]
  <2>1. Lost \in BeadRecord /\ Sound(bead[b], Lost)
    <3>1. /\ Lost \in BeadRecord /\ Lost.ckey = Absent.ckey /\ Lost.body = Absent.body
          /\ Lost.labels = Absent.labels /\ Lost.notes = Absent.notes
      BY AbsentIsTyped DEF Lost, BeadRecord
    <3> QED BY <1>4, <3>1, AbsentIsTyped DEF Sound, KeyHolds
  <2> QED BY <1>4, <2>1, BeadChanged
<1> QED BY <1>2, <1>3, <1>4 DEF Abandoned, Landing

LEMMA CreateFailsKeeps ==
  ASSUME IntentInv, NEW r \in Request, CreateFails(r)
  PROVE  IntentInv'
<1> USE DEF IntentInv
<1>1. /\ pc[r] = "creating" /\ bead' \in Abandoned(target[r])
      /\ target' = [target EXCEPT ![r] = NoBead] /\ pc' = [pc EXCEPT ![r] = "recover"]
      /\ now' = now /\ stamp' = stamp /\ registry' = registry /\ recent' = recent
      /\ seen' = seen /\ seq' = seq /\ whole' = whole /\ reply' = reply
  BY DEF CreateFails, Goto
<1> DEFINE b == target[r]
<1>2. b \in Bead /\ Landing(bead[b])
  BY <1>1 DEF Working, Progress
<1>3. BeadsKept /\ bead' \in [Bead -> BeadRecord]
  BY <1>1, <1>2, AbandonedIsSound
<1>4. TypeOK'
  BY <1>1, <1>3 DEF TypeOK, Creating
<1>5. Only(r) /\ pc'[r] = "recover"
  BY <1>1 DEF Only, TypeOK
<1>6. AtWork(r)' /\ Active(r) /\ Active(r)' /\ r \in Placed'
  BY <1>1, <1>5 DEF AtWork, Following, Active, Placed
<1>7. Named' /\ AnswerHolds(r)'
  BY <1>1, <1>3, AnswerStays
<1> QED BY <1>1, <1>3, <1>4, <1>5, <1>6, <1>7, StepKeeps

\* A request is answered: what it is told is complete is on its bead.
LEMMA AnswerKeeps ==
  ASSUME IntentInv, NEW r \in Request, Active(r),
         BeadsKept, bead' \in [Bead -> BeadRecord],
         now' = now, stamp' = stamp, registry' = registry,
         NEW b \in Bead \cup {NoBead},
         NEW as \in {"none", "created", "revision", "duplicate", "error"}, NEW c \in BOOLEAN,
         Answer(r, b, as, c),
         c => /\ b \in Bead /\ bead'[b].state \in {"open", "closed"}
              /\ BodyIsOn(bead'[b], r) /\ LabelsAreOn(bead'[b], r) /\ NoteIsOn(bead'[b], r)
  PROVE  IntentInv'
<1> USE DEF IntentInv
<1> DEFINE told == [bead |-> b, as |-> as, complete |-> c]
<1>1. /\ pc' = [pc EXCEPT ![r] = "done"] /\ reply' = [reply EXCEPT ![r] = told]
      /\ recent' = [recent EXCEPT ![r] = {}] /\ target' = [target EXCEPT ![r] = NoBead]
      /\ seen' = [seen EXCEPT ![r] = Blank] /\ seq' = [seq EXCEPT ![r] = 0]
      /\ whole' = [whole EXCEPT ![r] = TRUE]
  BY DEF Answer
<1>2. told \in Told /\ told.bead = b /\ told.complete = c
  BY DEF Told
<1> HIDE DEF told
<1>3. Blank \in Fields
  BY ContentIsTyped
<1>4. TypeOK'
  BY <1>1, <1>2, <1>3 DEF TypeOK
<1>5. Only(r) /\ pc'[r] = "done" /\ recent'[r] = {} /\ reply'[r] = told
  BY <1>1 DEF Only, TypeOK
<1>6. AtWork(r)' /\ r \in Placed'
  BY <1>5 DEF AtWork, Following, Placed
<1>7. Named'
  <2>1. ASSUME NEW q \in Request, reply'[q].complete PROVE reply'[q].bead \in Bead
    BY <1>2, <1>5, <2>1 DEF Only, Named
  <2> QED BY <2>1 DEF Named
<1>8. AnswerHolds(r)'
  BY <1>2, <1>5 DEF AnswerHolds, Committed
<1> QED BY <1>1, <1>4, <1>5, <1>6, <1>7, <1>8, StepKeeps

LEMMA RecoverNothingKeeps ==
  ASSUME IntentInv, NEW r \in Request, RecoverNothing(r)
  PROVE  IntentInv'
<1>1. BeadsKept /\ bead' = bead /\ stamp' = stamp
  BY StoreUntouched DEF RecoverNothing
<1>2. Active(r) /\ Answer(r, NoBead, "error", FALSE) /\ now' = now /\ registry' = registry
  BY DEF RecoverNothing, Fail, Active
<1>3. bead' \in [Bead -> BeadRecord]
  BY <1>1 DEF IntentInv, TypeOK
<1> QED BY <1>1, <1>2, <1>3, AnswerKeeps

LEMMA NotedIsSound ==
  ASSUME NEW x \in BeadRecord, HasHighest(x.notes), NEW n \in Nat \ {0}, NEW r \in Request,
         NEW y, y = [x EXCEPT !.notes = @ \cup {[seq |-> n, by |-> r]}]
  PROVE  /\ y \in BeadRecord /\ Sound(x, y) /\ NoteIsOn(y, r)
         /\ y.state = x.state /\ y.body = x.body /\ y.labels = x.labels
<1> DEFINE m == [seq |-> n, by |-> r]
<1>1. m \in Note /\ m.by = r
  BY DEF Note
<1> HIDE DEF m
<1>2. y = [x EXCEPT !.notes = @ \cup {m}]
  BY DEF m
<1>3. /\ y \in BeadRecord /\ y.notes = x.notes \cup {m} /\ y.state = x.state
      /\ y.ckey = x.ckey /\ y.body = x.body /\ y.labels = x.labels
  BY <1>1, <1>2 DEF BeadRecord
<1>4. HasHighest(y.notes)
  BY <1>1, <1>3, HighestKept DEF BeadRecord
<1> QED BY <1>1, <1>3, <1>4 DEF Sound, KeyHolds, NoteIsOn

\* The note is on the bead, or the store is as it was.
LEMMA RecordIsSound ==
  ASSUME IntentInv, NEW r \in Request, target[r] \in Bead, bead[target[r]].state # "absent",
         NEW n \in Nat \ {0}, NEW ok \in BOOLEAN, Record(r, n, ok), stamp' = stamp
  PROVE  /\ bead' \in [Bead -> BeadRecord] /\ BeadsKept
         /\ ok => NoteIsOn(bead'[target[r]], r)
<1> DEFINE b == target[r]
           y == [bead[b] EXCEPT !.notes = @ \cup {[seq |-> n, by |-> r]}]
<1>1. bead[b] \in BeadRecord /\ HasHighest(bead[b].notes)
  BY DEF IntentInv, TypeOK, Histories
<1>2. y \in BeadRecord /\ Sound(bead[b], y) /\ NoteIsOn(y, r)
  BY <1>1, NotedIsSound
<1>3. (bead' = bead /\ ~ok) \/ bead' = [bead EXCEPT ![b] = y]
  BY DEF Record
<1> HIDE DEF y
<1>4. CASE bead' = bead /\ ~ok
  BY <1>4, SoundStays DEF BeadsKept, IntentInv, TypeOK
<1>5. CASE bead' = [bead EXCEPT ![b] = y]
  BY <1>2, <1>5, BeadChanged
<1> QED BY <1>3, <1>4, <1>5

LEMMA RecordFirstKeeps ==
  ASSUME IntentInv, NEW r \in Request, RecordFirst(r)
  PROVE  IntentInv'
<1>0. PICK b : b = target[r]
  OBVIOUS
<1>1. pc[r] = "first" /\ now' = now /\ stamp' = stamp /\ registry' = registry
  BY DEF RecordFirst
<1>2. PICK ok \in BOOLEAN : Record(r, 1, ok) /\ Answer(r, b, "created", whole[r] /\ ok)
  BY <1>0 DEF RecordFirst, Outcome
<1>3. /\ b \in Bead /\ bead[b].state \in {"open", "closed"}
      /\ BodyIsOn(bead[b], r) /\ LabelsAreOn(bead[b], r)
  BY <1>0, <1>1 DEF IntentInv, Working, Progress
<1>4. /\ bead' \in [Bead -> BeadRecord] /\ BeadsKept
      /\ ok => NoteIsOn(bead'[b], r)
  <2>1. bead[b].state # "absent"
    BY <1>3
  <2> QED BY <1>0, <1>1, <1>2, <1>3, <2>1, RecordIsSound
<1>5. Sound(bead[b], bead'[b])
  BY <1>3, <1>4 DEF BeadsKept
<1>6. /\ bead'[b].state \in {"open", "closed"} /\ BodyIsOn(bead'[b], r) /\ LabelsAreOn(bead'[b], r)
  BY <1>3, <1>5 DEF Sound, BodyIsOn, LabelsAreOn
<1>7. Active(r)
  BY <1>1 DEF Active
<1>8. (whole[r] /\ ok) \in BOOLEAN /\ b \in Bead \cup {NoBead}
  BY <1>3
<1>9. PICK c \in BOOLEAN : c = (whole[r] /\ ok)
  BY <1>8
<1>10. Answer(r, b, "created", c)
  BY <1>2, <1>9
<1>11. c => NoteIsOn(bead'[b], r)
  BY <1>4, <1>9
<1> QED BY <1>1, <1>3, <1>4, <1>6, <1>7, <1>8, <1>10, <1>11, AnswerKeeps

-----------------------------------------------------------------------------
(* followUp. *)

LEMMA ReadHistoryKeeps ==
  ASSUME IntentInv, NEW r \in Request, ReadHistory(r)
  PROVE  IntentInv'
<1> USE DEF IntentInv
<1>0. PICK b : b = target[r]
  OBVIOUS
<1>1. /\ pc[r] = "history" /\ UNCHANGED <<now, store, registry, recent, target, seen, whole, reply>>
  BY DEF ReadHistory
<1>2. BeadsKept /\ bead' = bead /\ stamp' = stamp
  BY <1>1, StoreUntouched
<1>3. b \in Bead /\ Progress(bead[b], r)
  BY <1>0, <1>1 DEF Working, Following
<1>4. PICK notes \in SUBSET Note : HasHighest(notes) /\ seq' = [seq EXCEPT ![r] = NextSeq(notes)]
  <2>1. bead[b].notes \in SUBSET Note /\ HasHighest(bead[b].notes)
    BY <1>3 DEF TypeOK, BeadRecord, Histories
  <2>2. HasHighest({})
    BY DEF HasHighest
  <2>3. \E notes \in {bead[b].notes, {}} : seq' = [seq EXCEPT ![r] = NextSeq(notes)]
    BY <1>0 DEF ReadHistory
  <2> QED BY <2>1, <2>2, <2>3
<1>5. NextSeq(notes) \in Nat \ {0}
  BY <1>4, NextSeqIsPositive
<1>6. \/ (TitleChanged(r) \/ BodyChanged(r)) /\ pc' = [pc EXCEPT ![r] = "edit"]
      \/ ~BodyChanged(r) /\ NewLabels(r) # {} /\ pc' = [pc EXCEPT ![r] = "label"]
      \/ ~BodyChanged(r) /\ NewLabels(r) = {} /\ pc' = [pc EXCEPT ![r] = "record"]
  BY DEF ReadHistory, Goto
<1>7. pc'[r] \in {"edit", "label", "record"}
  BY <1>6 DEF TypeOK
<1>8. TypeOK'
  BY <1>1, <1>2, <1>4, <1>5, <1>6 DEF TypeOK, Following
<1>9. Only(r) /\ target'[r] = b /\ seen'[r] = seen[r] /\ whole'[r] = whole[r] /\ seq'[r] # 0
  BY <1>0, <1>1, <1>4, <1>5, <1>6 DEF Only, TypeOK
<1>10. AtWork(r)'
  <2>1. ~BodyChanged(r) => Body[r] \subseteq bead[b].body
    BY <1>1, <1>3 DEF BodyChanged, MergedBody, Progress, Following
  <2>2. NewLabels(r) = {} => Labels[r] \subseteq bead[b].labels
    BY <1>1, <1>3 DEF NewLabels, Progress, Following
  <2>3. CASE pc'[r] = "edit"
    BY <1>1, <1>2, <1>3, <1>9, <2>3 DEF AtWork, Progress, Following
  <2>4. CASE pc'[r] = "label"
    <3>1. ~BodyChanged(r)
      BY <1>6, <2>4 DEF TypeOK
    <3> QED BY <1>1, <1>2, <1>3, <1>9, <2>1, <2>4, <3>1 DEF AtWork, Progress, Following, BodyIsOn
  <2>5. CASE pc'[r] = "record"
    <3>1. ~BodyChanged(r) /\ NewLabels(r) = {}
      BY <1>6, <2>5 DEF TypeOK
    <3> QED
      BY <1>1, <1>2, <1>3, <1>9, <2>1, <2>2, <2>5, <3>1
      DEF AtWork, Progress, Following, BodyIsOn, LabelsAreOn
  <2> QED BY <1>7, <2>3, <2>4, <2>5
<1>11. Active(r) /\ Active(r)' /\ r \notin Placed
  BY <1>1, <1>7 DEF Active, Placed
<1>12. Named' /\ AnswerHolds(r)'
  BY <1>1, <1>2, AnswerStays
<1> QED BY <1>1, <1>2, <1>8, <1>9, <1>10, <1>11, <1>12, StepKeeps

\* An attempted change y of the bead is made, or the request is not whole.
LEMMA AttemptKeeps ==
  ASSUME IntentInv, NEW r \in Request, pc[r] \in {"edit", "label"},
         NEW b \in Bead, b = target[r],
         NEW y \in BeadRecord, Sound(bead[b], y),
         seen[r].body \subseteq y.body, seen[r].labels \subseteq y.labels,
         NEW next \in {"label", "record"}, NEW fault, NEW done,
         done = [bead EXCEPT ![b] = y], Attempt(r, done, fault, next),
         whole[r] => BodyIsOn(y, r),
         next = "record" /\ whole[r] => LabelsAreOn(y, r)
  PROVE  IntentInv'
<1> USE DEF IntentInv
<1>1. PICK ok \in BOOLEAN : /\ bead' = done \/ (~ok /\ bead' = bead)
                            /\ whole' = [whole EXCEPT ![r] = @ /\ ok]
  BY DEF Attempt, Outcome
<1>2. /\ pc' = [pc EXCEPT ![r] = next] /\ now' = now /\ stamp' = stamp /\ registry' = registry
      /\ recent' = recent /\ target' = target /\ seen' = seen /\ seq' = seq /\ reply' = reply
  BY DEF Attempt, Goto
<1>3. Progress(bead[b], r) /\ bead[b].state \in {"open", "closed"}
  BY DEF Working, Following, Progress
<1>4. BeadsKept /\ bead' \in [Bead -> BeadRecord]
  <2>1. CASE bead' = done
    BY <1>2, <1>3, <2>1, BeadChanged
  <2>2. CASE bead' = bead
    BY <1>2, <2>2, SoundStays DEF BeadsKept, TypeOK
  <2> QED BY <1>1, <2>1, <2>2
<1>5. TypeOK'
  BY <1>1, <1>2, <1>4 DEF TypeOK, Following
<1>6. /\ Only(r) /\ pc'[r] = next /\ target'[r] = b /\ seen'[r] = seen[r] /\ seq'[r] = seq[r]
      /\ whole'[r] = (whole[r] /\ ok)
  BY <1>1, <1>2 DEF Only, TypeOK
<1>7. AtWork(r)'
  <2>1. CASE bead' = done
    <3>1. bead'[b] = y
      BY <2>1 DEF TypeOK
    <3>2. y.state \in {"open", "closed"} /\ seq[r] # 0
      BY <1>3 DEF Sound, Progress
    <3> QED BY <1>6, <3>1, <3>2 DEF AtWork, Progress, Following
  <2>2. CASE bead' = bead /\ ~ok
    BY <1>3, <1>6, <2>2 DEF AtWork, Progress, Following
  <2> QED BY <1>1, <2>1, <2>2
<1>8. Active(r) /\ Active(r)' /\ r \notin Placed
  BY <1>6 DEF Active, Placed
<1>9. Named' /\ AnswerHolds(r)'
  BY <1>2, <1>4, AnswerStays
<1> QED BY <1>2, <1>4, <1>5, <1>6, <1>7, <1>8, <1>9, StepKeeps

LEMMA EditKeeps ==
  ASSUME IntentInv, NEW r \in Request, Edit(r)
  PROVE  IntentInv'
<1>0. PICK b : b = target[r]
  OBVIOUS
<1>1. /\ pc[r] = "edit" /\ b \in Bead /\ Progress(bead[b], r)
      /\ bead \in [Bead -> BeadRecord] /\ bead[b] \in BeadRecord /\ KeyHolds(bead[b])
  BY <1>0 DEF Edit, IntentInv, Working, Following, TypeOK, Keyed
<1>2. PICK x : x = bead[b]
  OBVIOUS
<1>3. PICK t \in Titles : t = IF TitleChanged(r) THEN Title[r] ELSE x.title
  BY <1>1, <1>2, ContentIsTyped DEF BeadRecord
<1>4. PICK body \in SUBSET Words : body = IF BodyChanged(r) THEN MergedBody(r) ELSE x.body
  <2>1. seen[r].body \in SUBSET Words
    BY DEF IntentInv, TypeOK, Fields
  <2> QED BY <1>1, <1>2, <2>1, ContentIsTyped DEF BeadRecord, MergedBody
<1>5. x.body \subseteq body /\ seen[r].body \subseteq body /\ Body[r] \subseteq body
  BY <1>1, <1>2, <1>4 DEF Progress, Following, BodyChanged, MergedBody
<1>6. PICK y : y = [x EXCEPT !.title = t, !.body = body]
  OBVIOUS
<1>7. /\ y \in BeadRecord /\ y.body = body /\ y.labels = x.labels /\ y.state = x.state
      /\ y.notes = x.notes /\ y.ckey = x.ckey
  BY <1>1, <1>2, <1>6 DEF BeadRecord
<1>8. Sound(bead[b], y)
  BY <1>1, <1>2, <1>5, <1>7 DEF Sound, KeyHolds
<1>9. PICK done : done = [bead EXCEPT ![target[r]].title = IF TitleChanged(r) THEN Title[r] ELSE @,
                    ![target[r]].body = IF BodyChanged(r) THEN MergedBody(r) ELSE @]
  OBVIOUS
<1>10. done = [bead EXCEPT ![b] = y]
  BY <1>0, <1>1, <1>2, <1>3, <1>4, <1>6, <1>9
<1>11. PICK next \in {"label", "record"} : next = IF NewLabels(r) # {} THEN "label" ELSE "record"
  OBVIOUS
<1>12. Attempt(r, done, "edit", next)
  BY <1>9, <1>11 DEF Edit
<1>13. seen[r].labels \subseteq y.labels /\ (next = "record" => LabelsAreOn(y, r))
  BY <1>1, <1>2, <1>7, <1>11 DEF Progress, Following, NewLabels, LabelsAreOn
<1>14. BodyIsOn(y, r) /\ seen[r].body \subseteq y.body
  BY <1>5, <1>7 DEF BodyIsOn
<1> QED BY <1>0, <1>1, <1>7, <1>8, <1>10, <1>12, <1>13, <1>14, AttemptKeeps

LEMMA AddLabelsKeeps ==
  ASSUME IntentInv, NEW r \in Request, AddLabels(r)
  PROVE  IntentInv'
<1>0. PICK b : b = target[r]
  OBVIOUS
<1>1. /\ pc[r] = "label" /\ b \in Bead /\ Progress(bead[b], r)
      /\ bead \in [Bead -> BeadRecord] /\ bead[b] \in BeadRecord /\ KeyHolds(bead[b])
  BY <1>0 DEF AddLabels, IntentInv, Working, Following, TypeOK, Keyed
<1>2. PICK y : y = [bead[b] EXCEPT !.labels = @ \cup Labels[r]]
  OBVIOUS
<1>3. /\ y \in BeadRecord /\ y.body = bead[b].body /\ y.labels = bead[b].labels \cup Labels[r]
      /\ y.state = bead[b].state /\ y.notes = bead[b].notes /\ y.ckey = bead[b].ckey
  BY <1>1, <1>2, ContentIsTyped DEF BeadRecord
<1>4. Sound(bead[b], y)
  BY <1>1, <1>3 DEF Sound, KeyHolds
<1>5. PICK done : done = [bead EXCEPT ![target[r]].labels = @ \cup Labels[r]]
  OBVIOUS
<1>6. done = [bead EXCEPT ![b] = y] /\ Attempt(r, done, "label", "record")
  BY <1>0, <1>1, <1>2, <1>5 DEF AddLabels
<1>7. /\ seen[r].body \subseteq y.body /\ seen[r].labels \subseteq y.labels
      /\ LabelsAreOn(y, r) /\ (whole[r] => BodyIsOn(y, r))
  BY <1>1, <1>3 DEF Progress, Following, BodyIsOn, LabelsAreOn
<1> QED BY <1>0, <1>1, <1>3, <1>4, <1>6, <1>7, AttemptKeeps

LEMMA RecordRevisionKeeps ==
  ASSUME IntentInv, NEW r \in Request, RecordRevision(r)
  PROVE  IntentInv'
<1> USE DEF IntentInv
<1>0. PICK b : b = target[r]
  OBVIOUS
<1>1. /\ pc[r] = "record" /\ pc' = [pc EXCEPT ![r] = "verify"]
      /\ now' = now /\ stamp' = stamp /\ registry' = registry /\ recent' = recent
      /\ target' = target /\ seen' = seen /\ seq' = seq /\ reply' = reply
  BY DEF RecordRevision, Goto
<1>2. PICK ok \in BOOLEAN : Record(r, seq[r], ok) /\ whole' = [whole EXCEPT ![r] = @ /\ ok]
  BY DEF RecordRevision, Outcome
<1>3. b \in Bead /\ Progress(bead[b], r) /\ bead[b].state \in {"open", "closed"} /\ seq[r] # 0
  BY <1>0, <1>1 DEF Working, Following, Progress
<1>4. /\ bead' \in [Bead -> BeadRecord] /\ BeadsKept
      /\ ok => NoteIsOn(bead'[b], r)
  <2>1. bead[b].state # "absent" /\ seq[r] \in Nat \ {0}
    BY <1>3 DEF TypeOK
  <2> QED BY <1>0, <1>1, <1>2, <1>3, <2>1, RecordIsSound
<1>5. TypeOK'
  BY <1>1, <1>2, <1>4 DEF TypeOK, Following
<1>6. /\ Only(r) /\ pc'[r] = "verify" /\ target'[r] = b /\ seen'[r] = seen[r]
      /\ whole'[r] = (whole[r] /\ ok)
  BY <1>0, <1>1, <1>2 DEF Only, TypeOK
<1>7. AtWork(r)'
  <2>1. Sound(bead[b], bead'[b])
    BY <1>3, <1>4 DEF BeadsKept
  <2> QED BY <1>1, <1>3, <1>4, <1>6, <2>1 DEF AtWork, Progress, Following, Sound, BodyIsOn, LabelsAreOn
<1>8. Active(r) /\ Active(r)' /\ r \notin Placed
  BY <1>1, <1>6 DEF Active, Placed
<1>9. Named' /\ AnswerHolds(r)'
  BY <1>1, <1>4, AnswerStays
<1> QED BY <1>1, <1>4, <1>5, <1>6, <1>7, <1>8, <1>9, StepKeeps

LEMMA VerifyKeeps ==
  ASSUME IntentInv, NEW r \in Request, Verify(r)
  PROVE  IntentInv'
<1>0. PICK b : b = target[r]
  OBVIOUS
<1>1. pc[r] = "verify" /\ UNCHANGED <<now, store, registry>>
  BY DEF Verify
<1>2. BeadsKept /\ bead' = bead /\ stamp' = stamp
  BY <1>1, StoreUntouched
<1>3. PICK ok \in BOOLEAN : Answer(r, b, Mode(r), whole[r] /\ ok /\ Landed(r))
  BY <1>0 DEF Verify, Outcome
<1>4. PICK c \in BOOLEAN : c = (whole[r] /\ ok /\ Landed(r))
  OBVIOUS
<1>5. Answer(r, b, Mode(r), c) /\ Mode(r) \in {"none", "created", "revision", "duplicate", "error"}
  BY <1>3, <1>4 DEF Mode
<1>6. b \in Bead /\ Progress(bead[b], r)
  BY <1>0, <1>1 DEF IntentInv, Working, Following
<1>7. /\ bead[b].state \in {"open", "closed"}
      /\ c => BodyIsOn(bead[b], r) /\ LabelsAreOn(bead[b], r) /\ NoteIsOn(bead[b], r)
  BY <1>1, <1>4, <1>6 DEF Progress, Following
<1>8. Active(r) /\ bead' \in [Bead -> BeadRecord]
  BY <1>1, <1>2 DEF Active, IntentInv, TypeOK
<1> QED BY <1>1, <1>2, <1>5, <1>6, <1>7, <1>8, AnswerKeeps

-----------------------------------------------------------------------------
(* The clock, the world outside and the process.                            *)

\* What touches no request and no text keeps the invariant.
LEMMA WorldKeeps ==
  ASSUME IntentInv, TypeOK', BeadsKept, UNCHANGED <<stamp, pc, work, reply>>,
         registry' \subseteq registry,
         \A b \in Bead : /\ bead'[b].body = bead[b].body /\ bead'[b].labels = bead[b].labels
                         /\ bead'[b].notes = bead[b].notes /\ bead'[b].ckey = bead[b].ckey
                         /\ Landing(bead[b]) => Landing(bead'[b])
  PROVE  IntentInv'
<1> USE DEF IntentInv
<1>1. /\ stamp' = stamp /\ pc' = pc /\ recent' = recent /\ target' = target /\ seen' = seen
      /\ seq' = seq /\ whole' = whole /\ reply' = reply
  BY DEF work
<1>2. OneActive' /\ Counted'
  BY <1>1 DEF OneActive, Active, Counted, Placed
<1>3. Unmade' /\ Histories' /\ Keyed'
  BY DEF BeadsKept, Sound, Unmade, Histories, Keyed
<1>4. \A b \in Bead : Committed(b) => Committed(b)'
  BY DEF BeadsKept, Sound, Committed
<1>5. Registered'
  <2>1. /\ \A e \in registry : e.id \in Bead
        /\ \A r \in Request : \A e \in recent[r] : e.id \in Bead
    BY DEF TypeOK, Entry
  <2> QED BY <1>1, <1>4, <2>1 DEF Registered
<1>6. ASSUME NEW r \in Request PROVE AtWork(r)'
  <2> SUFFICES ASSUME pc[r] \in {"creating", "first"} \cup Following
               PROVE  AtWork(r)'
    BY <1>1 DEF AtWork, Following
  <2>1. PICK b \in Bead : b = target[r]
    BY DEF Working
  <2>2. Progress(bead[b], r) /\ target'[r] = b
    BY <1>1, <2>1 DEF Working
  <2>3. Sound(bead[b], bead'[b])
    BY DEF BeadsKept
  <2>4. Progress(bead[b], r)'
    BY <1>1, <2>2, <2>3 DEF Progress, Sound, BodyIsOn, LabelsAreOn, NoteIsOn, Following
  <2> QED BY <1>1, <2>1, <2>4 DEF AtWork
<1>7. Named' /\ \A r \in Request : AnswerHolds(r)'
  BY <1>1, AnswerStays DEF Named
<1>8. (\A r \in Request : AtWork(r) /\ AnswerHolds(r))'
  BY <1>6, <1>7
<1>9. Working' /\ CompleteAnswerKept'
  BY <1>8 DEF Working, CompleteAnswerKept, AtWork, AnswerHolds, BodyIsOn, LabelsAreOn, NoteIsOn
<1> QED BY <1>2, <1>3, <1>5, <1>7, <1>9

LEMMA TickKeeps ==
  ASSUME IntentInv, Tick
  PROVE  IntentInv'
<1>1. BeadsKept /\ bead' = bead
  BY StoreUntouched DEF Tick
<1>2. now' \in 0 .. MaxTime /\ registry' = registry
  BY Names DEF Tick, IntentInv, TypeOK
<1>3. TypeOK'
  BY <1>2 DEF Tick, store, work, IntentInv, TypeOK
<1> QED BY <1>1, <1>2, <1>3, WorldKeeps DEF Tick, store

LEMMA EvictKeeps ==
  ASSUME IntentInv, Evict
  PROVE  IntentInv'
<1>1. BeadsKept /\ bead' = bead
  BY StoreUntouched DEF Evict
<1>2. TypeOK'
  BY DEF Evict, store, work, IntentInv, TypeOK
<1> QED BY <1>1, <1>2, WorldKeeps DEF Evict, store

\* A bead is opened or closed: nothing else of it changes.
LEMMA StateChangeKeeps ==
  ASSUME IntentInv, NEW b \in Bead, NEW s \in {"open", "closed"},
         bead[b].state \in {"inflight", "open"},
         bead' = [bead EXCEPT ![b].state = s],
         UNCHANGED <<now, stamp, registry, pc, work, reply>>
  PROVE  IntentInv'
<1> USE DEF IntentInv
<1>1. PICK y : y = [bead[b] EXCEPT !.state = s]
  OBVIOUS
<1>2. bead' = [bead EXCEPT ![b] = y] /\ bead[b] \in BeadRecord /\ KeyHolds(bead[b])
  BY <1>1 DEF TypeOK, Keyed
<1>3. /\ y \in BeadRecord /\ y.body = bead[b].body /\ y.labels = bead[b].labels
      /\ y.state = s /\ y.notes = bead[b].notes /\ y.ckey = bead[b].ckey
  BY <1>1, <1>2 DEF BeadRecord
<1>4. Sound(bead[b], y)
  BY <1>2, <1>3 DEF Sound, KeyHolds
<1>5. /\ bead' \in [Bead -> BeadRecord] /\ BeadsKept /\ bead'[b] = y
      /\ \A c \in Bead : c # b => bead'[c] = bead[c]
  BY <1>2, <1>3, <1>4, BeadChanged
<1>6. TypeOK'
  BY <1>5 DEF TypeOK, work
<1>7. \A c \in Bead : /\ bead'[c].body = bead[c].body /\ bead'[c].labels = bead[c].labels
                      /\ bead'[c].notes = bead[c].notes /\ bead'[c].ckey = bead[c].ckey
                      /\ Landing(bead[c]) => Landing(bead'[c])
  BY <1>3, <1>5 DEF Landing
<1> QED BY <1>5, <1>6, <1>7, WorldKeeps

LEMMA LandKeeps ==
  ASSUME IntentInv, NEW b \in Bead, Land(b)
  PROVE  IntentInv'
BY StateChangeKeeps DEF Land

LEMMA CloseKeeps ==
  ASSUME IntentInv, NEW b \in Bead, Close(b)
  PROVE  IntentInv'
BY StateChangeKeeps DEF Close

LEMMA RestartKeeps ==
  ASSUME IntentInv, Restart
  PROVE  IntentInv'
<1> USE DEF IntentInv
<1>1. PICK r \in Request : Active(r) /\ \A q \in Request : Active(q) <=> q = r
  BY DEF Restart, OneActive, Active
<1>2. /\ now' = now /\ stamp' = stamp /\ registry' = {}
      /\ pc' = [q \in Request |-> IF q = r THEN "done" ELSE pc[q]]
      /\ reply' = [q \in Request |-> IF q = r THEN [NoReply EXCEPT !.as = "error"] ELSE reply[q]]
      /\ recent' = [q \in Request |-> IF q = r THEN {} ELSE recent[q]]
      /\ target' = [q \in Request |-> IF q = r THEN NoBead ELSE target[q]]
      /\ seen' = [q \in Request |-> IF q = r THEN Blank ELSE seen[q]]
      /\ seq' = [q \in Request |-> IF q = r THEN 0 ELSE seq[q]]
      /\ whole' = [q \in Request |-> IF q = r THEN TRUE ELSE whole[q]]
  BY <1>1 DEF Restart, Active
<1>3. bead' = bead \/ (pc[r] = "creating" /\ bead' \in Abandoned(target[r]))
  BY <1>1 DEF Restart, Active
<1>4. BeadsKept /\ bead' \in [Bead -> BeadRecord]
  <2>1. CASE bead' = bead
    BY <1>2, <2>1, SoundStays DEF BeadsKept, TypeOK
  <2>2. CASE pc[r] = "creating" /\ bead' \in Abandoned(target[r])
    <3>1. target[r] \in Bead /\ Landing(bead[target[r]])
      BY <2>2 DEF Working, Progress
    <3> QED BY <1>2, <2>2, <3>1, AbandonedIsSound
  <2> QED BY <1>3, <2>1, <2>2
<1>5. TypeOK'
  <2>1. Blank \in Fields /\ [NoReply EXCEPT !.as = "error"] \in Told
    BY ContentIsTyped DEF NoReply, Told
  <2> QED BY <1>2, <1>4, <2>1 DEF TypeOK
<1>6. Only(r) /\ pc'[r] = "done" /\ recent'[r] = {} /\ ~reply'[r].complete
  BY <1>2 DEF Only, NoReply
<1>7. AtWork(r)' /\ AnswerHolds(r)' /\ r \in Placed'
  BY <1>6 DEF AtWork, Following, AnswerHolds, Placed
<1>8. Named'
  BY <1>6 DEF Named, Only
<1> QED BY <1>1, <1>2, <1>4, <1>5, <1>6, <1>7, <1>8, StepKeeps

-----------------------------------------------------------------------------
LEMMA IntentStep == IntentInv /\ [Next]_vars => IntentInv'
<1> SUFFICES ASSUME IntentInv, [Next]_vars PROVE IntentInv'
  OBVIOUS
<1>1. CASE UNCHANGED vars
  <2>1. UNCHANGED <<now, bead, stamp, registry, pc, recent, target, seen, seq, whole, reply>>
    BY <1>1 DEF vars, store, work
  <2>2. BeadsKept /\ bead' = bead
    BY <2>1, StoreUntouched DEF store
  <2>3. TypeOK'
    BY <2>1 DEF IntentInv, TypeOK
  <2> QED BY <2>1, <2>2, <2>3, WorldKeeps DEF work
<1>2. CASE Tick
  BY <1>2, TickKeeps
<1>3. CASE Evict
  BY <1>3, EvictKeeps
<1>4. CASE Restart
  BY <1>4, RestartKeeps
<1>5. ASSUME NEW b \in Bead, Land(b) \/ Close(b) PROVE IntentInv'
  BY <1>5, LandKeeps, CloseKeeps
<1>6. ASSUME NEW r \in Request, Step(r) PROVE IntentInv'
  <2>1. CASE Enter(r) \/ ReadRecent(r) \/ Search(r)
    BY <2>1, EnterKeeps, ReadRecentKeeps, SearchKeeps
  <2>2. CASE Reuse(r) \/ StartCreate(r) \/ Created(r) \/ CreateFails(r)
    BY <2>2, ReuseKeeps, StartCreateKeeps, CreatedKeeps, CreateFailsKeeps
  <2>3. CASE Recover(r) \/ RecoverNothing(r) \/ RecordFirst(r)
    BY <2>3, RecoverKeeps, RecoverNothingKeeps, RecordFirstKeeps
  <2>4. CASE ReadHistory(r) \/ Edit(r) \/ AddLabels(r) \/ RecordRevision(r) \/ Verify(r)
    BY <2>4, ReadHistoryKeeps, EditKeeps, AddLabelsKeeps, RecordRevisionKeeps, VerifyKeeps
  <2> QED BY <1>6, <2>1, <2>2, <2>3, <2>4 DEF Step
<1> QED BY <1>1, <1>2, <1>3, <1>4, <1>5, <1>6 DEF Next

LEMMA IntentInvariant == Spec => []IntentInv
BY IntentInitial, IntentStep, PTL DEF Spec

\* Every state is of the model's types: among others a bead is named for every
\* request that makes one, and a registry names each bead once.
THEOREM TypeCorrect == Spec => []TypeOK
<1>1. IntentInv => TypeOK
  BY DEF IntentInv
<1> QED BY <1>1, IntentInvariant, PTL

\* What a caller was told is complete is on its bead, text, labels and note,
\* whatever fails, restarts or is closed, before or after.
THEOREM CompleteAnswersSafe == Spec => []CompleteAnswerKept
<1>1. IntentInv => CompleteAnswerKept
  BY DEF IntentInv
<1> QED BY <1>1, IntentInvariant, PTL

-----------------------------------------------------------------------------
(* One bead for one request.                                                *)

SearchesTell == {"find", "late"} \cap Faults = {}

LEMMA OneInitial == Init => OneInv
<1> SUFFICES ASSUME Init PROVE OneInv
  OBVIOUS
<1>1. \A b \in Bead : bead[b] = Absent
  BY DEF Init
<1>2. \A b \in Bead : bead[b].state = "absent"
  BY <1>1, AbsentIsTyped
<1>3. \A r \in Request : pc[r] = "idle"
  BY DEF Init
<1> QED BY <1>2, <1>3 DEF OneInv, Awaited, Titled, Landing, Clear

\* A step of r keeps the second invariant if it leaves in flight only what it
\* waits for, blanks no title, and creates only after a search in vain.
LEMMA OneKept ==
  ASSUME IntentInv, OneInv, NEW r \in Request, Only(r), Active(r) \/ LockFree(r),
         \A b \in Bead : bead'[b].state = "inflight" =>
           \/ bead[b].state = "inflight" /\ ~(pc[r] = "creating" /\ target[r] = b)
           \/ pc'[r] = "creating" /\ target'[r] = b,
         \A b \in Bead : Landing(bead'[b]) => bead'[b].title # "",
         r \notin Distinct /\ pc'[r] = "create" => \A b \in Bead : ~Continues(b, r)'
  PROVE  OneInv'
<1>1. Awaited'
  <2> SUFFICES ASSUME NEW b \in Bead, bead'[b].state = "inflight"
               PROVE  \E q \in Request : pc'[q] = "creating" /\ target'[q] = b
    BY DEF Awaited
  <2>1. CASE pc'[r] = "creating" /\ target'[r] = b
    BY <2>1
  <2>2. CASE bead[b].state = "inflight" /\ ~(pc[r] = "creating" /\ target[r] = b)
    <3>1. PICK q \in Request : pc[q] = "creating" /\ target[q] = b
      BY <2>2 DEF OneInv, Awaited
    <3> QED BY <2>2, <3>1 DEF Only
  <2> QED BY <2>1, <2>2
<1>2. Titled'
  BY DEF Titled
<1>3. Clear'
  <2> SUFFICES ASSUME NEW q \in Request \ Distinct, pc'[q] = "create", NEW b \in Bead
               PROVE  ~Continues(b, q)'
    BY DEF Clear
  <2>1. q = r
    <3>1. SUFFICES ASSUME q # r PROVE FALSE
      OBVIOUS
    <3>2. pc[q] = "create" /\ Active(q)
      BY <3>1 DEF Only, Active
    <3>3. ~LockFree(r)
      BY <3>1, <3>2 DEF LockFree
    <3> QED BY <3>1, <3>2, <3>3 DEF IntentInv, OneActive
  <2> QED BY <2>1
<1> QED BY <1>1, <1>2, <1>3 DEF OneInv

LEMMA StepIsOnly ==
  ASSUME TypeOK, NEW r \in Request, Step(r)
  PROVE  Only(r) /\ (Active(r) \/ LockFree(r)) /\ now' = now
<1> USE DEF Only, TypeOK, Goto, Active
<1>1. CASE Enter(r) \/ Search(r) \/ ReadHistory(r)
  BY <1>1 DEF Enter, Search, ReadHistory, store
<1>2. CASE ReadRecent(r)
  BY <1>2 DEF ReadRecent, store
<1>3. CASE Reuse(r) \/ Created(r) \/ Recover(r)
  BY <1>3 DEF Reuse, Created, Recover, Settled, store
<1>4. CASE StartCreate(r) \/ CreateFails(r)
  BY <1>4 DEF StartCreate, CreateFails
<1>5. CASE RecoverNothing(r) \/ RecordFirst(r) \/ Verify(r)
  BY <1>5 DEF RecoverNothing, RecordFirst, Verify, Fail, Answer, store
<1>6. CASE Edit(r) \/ AddLabels(r)
  BY <1>6 DEF Edit, AddLabels, Attempt
<1>7. CASE RecordRevision(r)
  BY <1>7 DEF RecordRevision
<1> QED BY <1>1, <1>2, <1>3, <1>4, <1>5, <1>6, <1>7 DEF Step

\* Without late creates, one that is given up has landed or is lost.
LEMMA LateOrNever ==
  ASSUME IntentInv, SearchesTell, NEW b \in Bead, bead' \in Abandoned(b)
  PROVE  /\ bead'[b].state # "inflight"
         /\ Landing(bead'[b]) => Landing(bead[b]) /\ bead'[b].title = bead[b].title
<1>1. bead \in [Bead -> BeadRecord] /\ bead[b] \in BeadRecord
  BY DEF IntentInv, TypeOK
<1>2. Lost.state = "lost"
  BY DEF Lost, Absent
<1>3. ~Fails("late")
  BY DEF SearchesTell, Fails
<1>4. CASE bead[b].state # "inflight"
  BY <1>4 DEF Abandoned
<1>5. CASE bead[b].state = "inflight"
  <2>1. bead' = [bead EXCEPT ![b] = Lost] \/ bead' = [bead EXCEPT ![b].state = "open"]
    BY <1>3, <1>5 DEF Abandoned
  <2>2. CASE bead' = [bead EXCEPT ![b] = Lost]
    BY <1>1, <1>2, <2>2 DEF Landing
  <2>3. CASE bead' = [bead EXCEPT ![b].state = "open"]
    BY <1>1, <1>5, <2>3 DEF Landing, BeadRecord
  <2> QED BY <2>1, <2>2, <2>3
<1> QED BY <1>4, <1>5

\* A request that is not distinct creates when its search found nothing.
LEMMA CreatesAfterSearching ==
  ASSUME IntentInv, SearchesTell, NEW r \in Request \ Distinct, Step(r), pc'[r] = "create"
  PROVE  pc[r] = "recent" /\ UNCHANGED store /\ Fresh(r) = {}
<1> USE DEF IntentInv, TypeOK, Goto
<1>1. ~Fails("find")
  BY DEF SearchesTell, Fails
<1>2. CASE Search(r)
  BY <1>1, <1>2 DEF Search
<1>3. CASE Enter(r) \/ ReadHistory(r)
  BY <1>3 DEF Enter, ReadHistory
<1>4. CASE ReadRecent(r)
  BY <1>4 DEF ReadRecent
<1>5. CASE Reuse(r) \/ Created(r) \/ Recover(r)
  BY <1>5 DEF Reuse, Created, Recover, Settled
<1>6. CASE StartCreate(r) \/ CreateFails(r)
  BY <1>6 DEF StartCreate, CreateFails
<1>7. CASE RecoverNothing(r) \/ RecordFirst(r) \/ Verify(r)
  BY <1>7 DEF RecoverNothing, RecordFirst, Verify, Fail, Answer
<1>8. CASE Edit(r) \/ AddLabels(r) \/ RecordRevision(r)
  BY <1>8 DEF Edit, AddLabels, Attempt, RecordRevision
<1> QED BY <1>2, <1>3, <1>4, <1>5, <1>6, <1>7, <1>8 DEF Step

\* Titles are written, never blanked; a state changes when a create begins or
\* is given up, and a create that was given up does not stay in flight.
Waits(r, b) == pc[r] = "creating" /\ target[r] = b
StateKept(r, b) ==
  /\ bead'[b].state = bead[b].state
  /\ bead'[b].title = bead[b].title \/ bead'[b].title # ""
  /\ Waits(r, b) => bead[b].state # "inflight"
Given(r, b) ==
  /\ Waits(r, b)
  /\ bead'[b].state # "inflight"
  /\ Landing(bead'[b]) => Landing(bead[b]) /\ bead'[b].title = bead[b].title

LEMMA StatesOfAStep ==
  ASSUME IntentInv, SearchesTell, NEW r \in Request, Step(r), NEW b \in Bead
  PROVE  StateKept(r, b) \/ (Waits(r, b)' /\ bead'[b].title # "") \/ Given(r, b)
<1> USE DEF IntentInv, StateKept, Waits, Given
<1>1. bead \in [Bead -> BeadRecord] /\ bead[b] \in BeadRecord
  BY DEF TypeOK
<1>2. CASE UNCHANGED store /\ ~(pc[r] = "creating" /\ target[r] = b /\ bead[b].state = "inflight")
  BY <1>2 DEF store
<1>3. CASE Enter(r) \/ ReadRecent(r) \/ Search(r) \/ ReadHistory(r) \/ RecoverNothing(r) \/ Verify(r)
  <2>1. UNCHANGED store
    BY <1>3 DEF Enter, ReadRecent, Search, ReadHistory, RecoverNothing, Verify
  <2>2. pc[r] # "creating"
    BY <1>3 DEF Enter, ReadRecent, Search, ReadHistory, RecoverNothing, Verify
  <2> QED BY <1>2, <2>1, <2>2
<1>4. CASE Reuse(r) \/ Created(r) \/ Recover(r)
  <2>1. UNCHANGED store
    BY <1>4 DEF Reuse, Created, Recover, Settled
  <2>2. pc[r] # "creating" \/ bead[target[r]].state # "inflight"
    BY <1>4 DEF Reuse, Created, Recover, Committed
  <2> QED BY <1>2, <2>1, <2>2
<1>5. CASE StartCreate(r)
  <2>1. pc[r] = "create" /\ r \notin Placed
    BY <1>5 DEF StartCreate, Placed
  <2>2. stamp \in Bead
    BY <2>1, NameIsLeft
  <2>3. /\ bead' = [bead EXCEPT ![stamp] = NewBead(r)] /\ target' = [target EXCEPT ![r] = stamp]
        /\ pc' = [pc EXCEPT ![r] = "creating"]
    BY <1>5 DEF StartCreate, Goto
  <2>4. NewBead(r).title # ""
    BY NewBeadIsSound, IntentAssumption
  <2>5. CASE b = stamp
    BY <1>1, <2>2, <2>3, <2>4, <2>5 DEF TypeOK
  <2>6. CASE b # stamp
    BY <1>1, <2>1, <2>3, <2>6
  <2> QED BY <2>5, <2>6
<1>6. CASE CreateFails(r)
  <2>1. pc[r] = "creating" /\ bead' \in Abandoned(target[r]) /\ target[r] \in Bead
    BY <1>6 DEF CreateFails, Working
  <2>2. CASE b # target[r]
    BY <1>1, <2>1, <2>2 DEF Abandoned
  <2>3. CASE b = target[r]
    BY <1>1, <2>1, <2>3, LateOrNever
  <2> QED BY <2>2, <2>3
<1>7. CASE RecordFirst(r) \/ RecordRevision(r)
  <2>1. pc[r] # "creating"
    BY <1>7 DEF RecordFirst, RecordRevision
  <2>2. \/ bead' = bead
        \/ \E n : bead' = [bead EXCEPT ![target[r]].notes = @ \cup {[seq |-> n, by |-> r]}]
    BY <1>7 DEF RecordFirst, RecordRevision, Record
  <2>3. bead'[b].state = bead[b].state /\ bead'[b].title = bead[b].title
    <3>1. CASE bead' = bead
      BY <3>1
    <3>2. ASSUME NEW n, bead' = [bead EXCEPT ![target[r]].notes = @ \cup {[seq |-> n, by |-> r]}]
          PROVE  bead'[b].state = bead[b].state /\ bead'[b].title = bead[b].title
      BY <1>1, <3>2 DEF BeadRecord
    <3> QED BY <2>2, <3>1, <3>2
  <2> QED BY <2>1, <2>3
<1>8. CASE AddLabels(r)
  <2>1. /\ pc[r] = "label"
        /\ bead' = bead \/ bead' = [bead EXCEPT ![target[r]].labels = @ \cup Labels[r]]
    BY <1>8 DEF AddLabels, Attempt
  <2>2. bead'[b].state = bead[b].state /\ bead'[b].title = bead[b].title
    BY <1>1, <2>1 DEF BeadRecord
  <2> QED BY <2>1, <2>2
<1>9. CASE Edit(r)
  <2> DEFINE done == [bead EXCEPT ![target[r]].title = IF TitleChanged(r) THEN Title[r] ELSE @,
                    ![target[r]].body = IF BodyChanged(r) THEN MergedBody(r) ELSE @]
  <2>1. pc[r] = "edit" /\ (bead' = bead \/ bead' = done)
    BY <1>9 DEF Edit, Attempt
  <2>2. /\ done[b].state = bead[b].state
        /\ done[b].title = bead[b].title \/ done[b].title = Title[r]
    BY <1>1 DEF BeadRecord
  <2>3. Title[r] # ""
    BY IntentAssumption
  <2> HIDE DEF done
  <2>4. bead'[b].state = bead[b].state /\ (bead'[b].title = bead[b].title \/ bead'[b].title # "")
    BY <2>1, <2>2, <2>3
  <2>5. ~Waits(r, b)
    BY <2>1
  <2> QED BY <2>4, <2>5, Zenon
<1> QED BY <1>3, <1>4, <1>5, <1>6, <1>7, <1>8, <1>9 DEF Step

LEMMA OneStep ==
  ASSUME IntentInv, OneInv, SearchesTell, NEW r \in Request, Step(r)
  PROVE  OneInv'
<1>1. Only(r) /\ (Active(r) \/ LockFree(r)) /\ now' = now
  BY StepIsOnly DEF IntentInv
<1>2. ASSUME NEW b \in Bead, bead'[b].state = "inflight"
      PROVE  \/ bead[b].state = "inflight" /\ ~(pc[r] = "creating" /\ target[r] = b)
             \/ pc'[r] = "creating" /\ target'[r] = b
  <2>1. StateKept(r, b) \/ Waits(r, b)' \/ Given(r, b)
    BY StatesOfAStep
  <2>2. CASE StateKept(r, b)
    BY <1>2, <2>2 DEF StateKept, Waits
  <2>3. CASE Waits(r, b)'
    BY <2>3 DEF Waits
  <2>4. CASE Given(r, b)
    BY <1>2, <2>4 DEF Given
  <2> QED BY <2>1, <2>2, <2>3, <2>4
<1>3. ASSUME NEW b \in Bead, Landing(bead'[b]) PROVE bead'[b].title # ""
  BY <1>3, StatesOfAStep DEF StateKept, Given, OneInv, Titled, Landing
<1>4. ASSUME r \notin Distinct, pc'[r] = "create", NEW b \in Bead PROVE ~Continues(b, r)'
  <2>1. pc[r] = "recent" /\ UNCHANGED store /\ Fresh(r) = {}
    BY <1>4, CreatesAfterSearching
  <2>2. bead' = bead
    BY <2>1 DEF store
  <2>3. SUFFICES ASSUME Continues(b, r) PROVE FALSE
    BY <1>1, <2>2 DEF Continues, Age
  <2>4. bead[b].state # "inflight"
    BY <2>1 DEF OneInv, Awaited, IntentInv, OneActive, Active
  <2>5. bead[b].state = "open" /\ bead[b].title # ""
    BY <2>3, <2>4 DEF Continues, OneInv, Titled, Landing
  <2>6. Usable(bead[b].state, FieldsOf(b), r)
    BY <2>3, <2>5 DEF Usable, FieldsOf, Continues
  <2>7. b \in Fresh(r)
    BY <2>3, <2>5, <2>6 DEF Fresh, Committed, Continues
  <2> QED BY <2>1, <2>7
<1> QED BY <1>1, <1>2, <1>3, <1>4, OneKept

\* Time passes, and beads open and close: a candidate can only cease to be one.
LEMMA OneWorld ==
  ASSUME IntentInv, OneInv, UNCHANGED <<pc, target>>, now' >= now, now' \in Nat,
         \A b \in Bead : /\ bead'[b].title = bead[b].title /\ bead'[b].body = bead[b].body
                         /\ bead'[b].born = bead[b].born
                         /\ Landing(bead'[b]) => Landing(bead[b])
                         /\ bead'[b].state = "inflight" => bead[b].state = "inflight"
                         /\ bead'[b].state = "open" => bead[b].state \in {"open", "inflight"}
  PROVE  OneInv'
<1>1. Awaited' /\ Titled'
  BY DEF OneInv, Awaited, Titled
<1>2. ASSUME NEW r \in Request \ Distinct, pc'[r] = "create", NEW b \in Bead, Continues(b, r)'
      PROVE  FALSE
  <2>1. now \in Nat /\ bead[b].born \in Nat /\ Window \in Nat
    <3>1. Window \in Nat
      BY IntentAssumption
    <3>2. now \in 0 .. MaxTime /\ bead[b].born \in 0 .. MaxTime
      BY DEF IntentInv, TypeOK, BeadRecord
    <3> QED BY <3>1, <3>2, Names
  <2>2. Age(b)' <= Window => Age(b) <= Window
    BY <2>1 DEF Age
  <2>3. Continues(b, r)
    BY <1>2, <2>2 DEF Continues
  <2> QED BY <1>2, <2>3 DEF OneInv, Clear
<1>3. Clear'
  BY <1>2 DEF Clear
<1> QED BY <1>1, <1>3 DEF OneInv

LEMMA OneWorldSteps ==
  ASSUME IntentInv, OneInv,
         Tick \/ Evict \/ UNCHANGED vars \/ \E b \in Bead : Land(b) \/ Close(b)
  PROVE  OneInv'
<1>1. now \in Nat /\ bead \in [Bead -> BeadRecord]
  BY Names DEF IntentInv, TypeOK
<1>2. CASE Tick
  BY <1>1, <1>2, OneWorld DEF Tick, store, work
<1>3. CASE Evict \/ UNCHANGED vars
  BY <1>1, <1>3, OneWorld DEF Evict, vars, store, work
<1>4. ASSUME NEW b \in Bead, Land(b) \/ Close(b) PROVE OneInv'
  <2>1. UNCHANGED <<now, pc, target>>
    BY <1>4 DEF Land, Close, work
  <2>2. PICK s \in {"open", "closed"} :
          /\ bead' = [bead EXCEPT ![b].state = s] /\ bead[b].state \in {"inflight", "open"}
    BY <1>4 DEF Land, Close
  <2>3. \A c \in Bead : c # b => bead'[c] = bead[c]
    BY <1>1, <2>2
  <2>4. /\ bead'[b].title = bead[b].title /\ bead'[b].body = bead[b].body
        /\ bead'[b].born = bead[b].born /\ bead'[b].state = s
    BY <1>1, <2>2 DEF BeadRecord
  <2> QED BY <1>1, <2>1, <2>2, <2>3, <2>4, OneWorld DEF Landing
<1> QED BY <1>2, <1>3, <1>4

LEMMA OneRestart ==
  ASSUME IntentInv, OneInv, SearchesTell, Restart
  PROVE  OneInv'
<1>1. PICK r \in Request : Active(r) /\ \A q \in Request : Active(q) <=> q = r
  BY DEF Restart, IntentInv, OneActive, Active
<1>2. Only(r) /\ pc'[r] = "done"
  BY <1>1 DEF Restart, Active, Only
<1>3. \/ bead' = bead /\ pc[r] # "creating"
      \/ bead' \in Abandoned(target[r]) /\ pc[r] = "creating"
  BY <1>1 DEF Restart, Active
<1>4. CASE bead' = bead /\ pc[r] # "creating"
  BY <1>1, <1>2, <1>4, OneKept DEF OneInv, Titled
<1>5. CASE bead' \in Abandoned(target[r]) /\ pc[r] = "creating"
  <2>1. PICK t \in Bead : t = target[r]
    BY <1>5 DEF IntentInv, Working
  <2>2. /\ bead'[t].state # "inflight"
        /\ Landing(bead'[t]) => Landing(bead[t]) /\ bead'[t].title = bead[t].title
    BY <1>5, <2>1, LateOrNever
  <2>3. \A b \in Bead : b # t => bead'[b] = bead[b]
    BY <1>5, <2>1 DEF Abandoned, IntentInv, TypeOK
  <2>4. \A b \in Bead : Landing(bead'[b]) => bead'[b].title # ""
    BY <2>2, <2>3 DEF OneInv, Titled
  <2> QED BY <1>1, <1>2, <2>1, <2>2, <2>3, <2>4, OneKept
<1> QED BY <1>3, <1>4, <1>5

LEMMA OneInvariant ==
  ASSUME SearchesTell
  PROVE  Spec => [](IntentInv /\ OneInv)
<1>1. IntentInv /\ OneInv /\ [Next]_vars => OneInv'
  <2> SUFFICES ASSUME IntentInv, OneInv, [Next]_vars PROVE OneInv'
    OBVIOUS
  <2>1. CASE Restart
    BY <2>1, OneRestart
  <2>2. ASSUME NEW r \in Request, Step(r) PROVE OneInv'
    BY <2>2, OneStep
  <2>3. CASE Tick \/ Evict \/ UNCHANGED vars \/ \E b \in Bead : Land(b) \/ Close(b)
    BY <2>3, OneWorldSteps
  <2> QED BY <2>1, <2>2, <2>3 DEF Next
<1> QED BY <1>1, IntentInitial, OneInitial, IntentStep, PTL DEF Spec

\* One request does not become two beads.  However the requests of an intent
\* overlap, fail, are retried, and whatever became of the registry, no bead is
\* created beside an open or unfinished related one of the window -- provided a
\* search that fails is not taken for one that finds nothing, and no create
\* lands after it was given up.
THEOREM NoSecondBeadSafe ==
  ASSUME SearchesTell
  PROVE  Spec => NoSecondBead
<1> DEFINE Alone ==
      stamp' # stamp =>
       \/ \E r \in Distinct : bead'[stamp].ckey = Content(r)
       \/ \A b \in 1 .. stamp - 1 :
            bead[b].state \in {"open", "inflight"} /\ Age(b) <= Window
              => ~BodiesRelated(bead[b].body, bead'[stamp].body)
<1>1. IntentInv /\ OneInv /\ [Next]_vars => Alone
  <2> SUFFICES ASSUME IntentInv, OneInv, [Next]_vars, stamp' # stamp
               PROVE  \/ \E r \in Distinct : bead'[stamp].ckey = Content(r)
                      \/ \A b \in 1 .. stamp - 1 :
                           bead[b].state \in {"open", "inflight"} /\ Age(b) <= Window
                             => ~BodiesRelated(bead[b].body, bead'[stamp].body)
    OBVIOUS
  <2>1. PICK r \in Request : StartCreate(r)
    BY DEF Next, Step, vars, store, Tick, Evict, Restart, Land, Close, Enter, ReadRecent,
      Search, Reuse, Created, Settled, CreateFails, Recover, RecoverNothing, RecordFirst,
      ReadHistory, Edit, AddLabels, Attempt, RecordRevision, Verify
  <2>2. /\ pc[r] = "create" /\ r \notin Placed /\ bead' = [bead EXCEPT ![stamp] = NewBead(r)]
    BY <2>1 DEF StartCreate, Placed
  <2>3. stamp \in Bead
    BY <2>2, NameIsLeft
  <2>4. bead'[stamp] = NewBead(r)
    BY <2>2, <2>3 DEF IntentInv, TypeOK
  <2>5. bead'[stamp].ckey = Content(r) /\ bead'[stamp].body = Body[r]
    BY <2>4, NewBeadIsSound DEF IntentInv
  <2>6. CASE r \in Distinct
    BY <2>5, <2>6
  <2>7. CASE r \notin Distinct
    <3>1. \A b \in Bead : ~Continues(b, r)
      BY <2>2, <2>7 DEF OneInv, Clear
    <3>2. 1 .. stamp - 1 \subseteq Bead
      BY <2>3, Names DEF Bead
    <3> QED BY <2>5, <3>1, <3>2 DEF Continues
  <2> QED BY <2>6, <2>7
<1>2. Spec => [](IntentInv /\ OneInv)
  BY OneInvariant
<1>3. Spec => [][Alone]_vars
  BY <1>1, <1>2, PTL DEF Spec
<1> QED BY <1>3 DEF NoSecondBead
=============================================================================
