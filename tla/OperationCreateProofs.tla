------------------------ MODULE OperationCreateProofs ------------------------
(***************************************************************************)
(* Theorems about OperationCreate for any set of deliveries and processes, *)
(* any contents and any combination of faults.                             *)
(*                                                                         *)
(* CanonicalStaysOpen is not inductive.  What makes it so is that every    *)
(* bead that is not the first one has an ANCHOR before it: a committed     *)
(* bead created for the operation itself, which therefore carries the key  *)
(* for good (only children are ever stripped of it).  A child comes after  *)
(* its anchor (ChildrenFollow), a delivery collapses only beads after the  *)
(* anchor it took for canonical (Worker), so a closed bead has an anchor   *)
(* before it (ClosedFollow) and cannot be the earliest that carries it.    *)
(*                                                                         *)
(* The second half is about one process, where the lock leaves one         *)
(* delivery at a time between its lookup and its answer: LockInv, RootInv, *)
(* NoteInv and TextInv are invariants each of more, and of fewer faults.   *)
(***************************************************************************)
EXTENDS OperationCreate, OperationLock, FiniteSetTheorems, WellFoundedInduction, TLAPS

Anchor(b) == b \in Bead /\ Committed(b) /\ bead[b].parent = NoBead

\* A non-empty history has a highest number, so NextSeq is a number.
HasHighest(notes) == notes # {} => \E r \in notes : \A q \in notes : q.seq <= r.seq
Histories == \A b \in Bead : HasHighest(bead[b].notes)

Stamps ==
  \A b \in Bead : /\ b >= stamp <=> bead[b].state = "absent"
                  /\ bead[b].state = "absent" => bead[b].parent = NoBead

RootsCarry ==
  \A b \in Bead : bead[b].state # "absent" /\ bead[b].parent = NoBead => bead[b].opkey

ChildrenFollow ==
  \A b \in Bead :
    /\ bead[b].parent # NoBead => bead[b].parent < b /\ Anchor(bead[b].parent)
    /\ bead[b].rkey # 0 => bead[b].parent # NoBead

ClosedFollow ==
  \A b \in Bead : bead[b].state = "closed" => \E a \in Bead : a < b /\ Anchor(a)

Worker(d) ==
  /\ pc[d] \in Reconciling \cup Promoting => Anchor(canon[d])
  /\ pc[d] \notin Reconciling \cup Promoting => canon[d] = NoBead
  /\ \A b \in rows[d] : pc[d] = "collapse" /\ canon[d] < b /\ bead[b].state # "absent"
  /\ pc[d] \in (Reconciling \ {"collapse"}) \cup Promoting => seq[d] # 0
  /\ pc[d] \in {"creating", "first", "childCreating", "strip", "childNote"} => target[d] \in Bead
  /\ pc[d] \in {"childCreating", "strip", "childNote"} => bead[target[d]].parent # NoBead

IInv ==
  /\ TypeOK
  /\ Histories
  /\ Stamps
  /\ RootsCarry
  /\ ChildrenFollow
  /\ ClosedFollow
  /\ \A d \in Delivery : Worker(d)

-----------------------------------------------------------------------------
\* Bead names are positive numbers below stamp's bound.
LEMMA BeadNames ==
  /\ Cardinality(Delivery) \in Nat
  /\ Bead \subseteq Nat \ {0}
  /\ IsFiniteSet(Bead)
  /\ NoBead \notin Bead
<1>1. Cardinality(Delivery) \in Nat
  BY ContentAssumption, FS_CardinalityType
<1>2. IsFiniteSet(Bead)
  BY <1>1, FS_Interval DEF Bead
<1> QED BY <1>1, <1>2 DEF Bead, NoBead

\* A finite non-empty set of numbers has a least one: order its elements by
\* the sets of elements below them.
LEMMA LeastExists ==
  ASSUME NEW S, S \subseteq Nat, S # {}, IsFiniteSet(S)
  PROVE  \E m \in S : \A k \in S : m <= k
<1> DEFINE Below(x) == {k \in S : k < x}
           T == {Below(x) : x \in S}
<1>1. IsWellFoundedOn(StrictSubsetOrdering(S), FiniteSubsetsOf(S))
  BY FS_StrictSubsetOrderingWellFounded
<1>2. T \subseteq FiniteSubsetsOf(S) /\ T # {}
  <2>1. \A x \in S : Below(x) \in SUBSET S /\ IsFiniteSet(Below(x))
    BY FS_Subset
  <2> QED BY <2>1 DEF FiniteSubsetsOf
<1> HIDE DEF T
<1>3. PICK X \in T : \A Y \in T : <<Y, X>> \notin StrictSubsetOrdering(S)
  BY <1>1, <1>2, WFMin, Zenon
<1> USE DEF T
<1>4. PICK x \in S : X = Below(x)
  BY <1>3
<1>5. ASSUME NEW y \in S, y < x PROVE FALSE
  <2>1. y \in Below(x) /\ y \notin Below(y)
    BY <1>5
  <2>2. ASSUME NEW k \in Below(y) PROVE k \in Below(x)
    <3>1. k \in Nat /\ x \in Nat /\ y \in Nat /\ k < y
      OBVIOUS
    <3> QED BY <1>5, <3>1
  <2>3. <<Below(y), X>> \in StrictSubsetOrdering(S)
    BY <1>4, <2>1, <2>2 DEF StrictSubsetOrdering
  <2> QED BY <1>3, <2>3
<1> QED BY <1>5

\* canonicalOf picks a member, and nothing found is earlier.
LEMMA CanonicalOfProperty ==
  ASSUME NEW S, S \subseteq Bead, S # {}
  PROVE  CanonicalOf(S) \in S /\ \A b \in S : CanonicalOf(S) <= b
<1>1. \E m \in S : \A k \in S : m <= k
  BY BeadNames, LeastExists, FS_Subset
<1> QED BY <1>1 DEF CanonicalOf

\* nextSeq is a positive number, above every recorded one.
LEMMA NextSeqProperty ==
  ASSUME NEW notes \in SUBSET NoteRecord, HasHighest(notes)
  PROVE  /\ NextSeq(notes) \in Nat \ {0}
         /\ \A q \in notes : q.seq < NextSeq(notes)
<1>1. CASE notes = {}
  BY <1>1 DEF NextSeq
<1>2. CASE notes # {}
  <2> DEFINE top == CHOOSE r \in notes : \A q \in notes : q.seq <= r.seq
  <2>1. top \in notes /\ \A q \in notes : q.seq <= top.seq
    BY <1>2 DEF HasHighest
  <2>2. top.seq \in Nat /\ \A q \in notes : q.seq \in Nat
    BY <2>1 DEF NoteRecord
  <2>3. NextSeq(notes) = top.seq + 1
    BY <1>2 DEF NextSeq
  <2> QED BY <2>1, <2>2, <2>3
<1> QED BY <1>1, <1>2

\* Adding a note keeps a highest one.
LEMMA HighestKept ==
  ASSUME NEW notes \in SUBSET NoteRecord, HasHighest(notes), NEW n \in NoteRecord
  PROVE  HasHighest(notes \cup {n})
<1>1. \A q \in notes \cup {n} : q.seq \in Nat
  BY DEF NoteRecord
<1>2. CASE \A q \in notes : q.seq <= n.seq
  BY <1>1, <1>2 DEF HasHighest
<1>3. CASE ~ \A q \in notes : q.seq <= n.seq
  <2>1. PICK q \in notes : ~(q.seq <= n.seq)
    BY <1>3
  <2>2. PICK r \in notes : \A p \in notes : p.seq <= r.seq
    BY <2>1 DEF HasHighest
  <2>3. n.seq <= r.seq
    BY <1>1, <2>1, <2>2
  <2> QED BY <2>2, <2>3 DEF HasHighest
<1> QED BY <1>2, <1>3

\* What a delivery states has the types the store holds.
LEMMA Contents ==
  /\ Blank \in Fields
  /\ \A d \in Delivery : /\ Title[d] \in Titles
                         /\ Body[d] \subseteq Texts
                         /\ Labels[d] \subseteq LabelNames
<1>1. "" \in Titles /\ \A d \in Delivery : Title[d] \in Titles
  BY DEF Titles
<1>2. \A d \in Delivery : Body[d] \subseteq Texts /\ Labels[d] \subseteq LabelNames
  BY DEF Texts, LabelNames
<1> QED BY <1>1, <1>2 DEF Blank, Fields

LEMMA InitInvariant == Init => IInv
<1> SUFFICES ASSUME Init PROVE IInv
  OBVIOUS
<1>1. TypeOK
  <2>1. "" \in Titles
    BY DEF Titles
  <2>2. Absent \in BeadRecord
    BY <2>1 DEF Absent, BeadRecord
  <2>3. Blank \in Fields
    BY Contents
  <2> QED BY <2>2, <2>3 DEF Init, TypeOK, NoReply, Resting
<1>2. \A b \in Bead : /\ bead[b].state = "absent" /\ bead[b].notes = {}
                      /\ bead[b].parent = NoBead /\ bead[b].rkey = 0
  BY DEF Init, Absent
<1>3. Histories
  BY <1>2 DEF Histories, HasHighest
<1>4. Stamps
  <2>1. stamp = 1 /\ \A b \in Bead : b \in Nat /\ b # 0
    BY BeadNames DEF Init
  <2>2. \A b \in Bead : b >= 1
    BY <2>1
  <2> QED BY <1>2, <2>1, <2>2 DEF Stamps
<1>5. RootsCarry /\ ChildrenFollow /\ ClosedFollow
  BY <1>2 DEF RootsCarry, ChildrenFollow, ClosedFollow
<1>6. \A d \in Delivery : Worker(d)
  BY DEF Init, Worker, Reconciling, Promoting
<1> QED BY <1>1, <1>3, <1>4, <1>5, <1>6 DEF IInv

-----------------------------------------------------------------------------
(* What a step may do to the store, and what follows from it. *)

AnchorsKept == \A b \in Bead : Anchor(b) => Anchor(b)'

\* No bead is unmade or moved to another parent.
ParentsKept ==
  \A b \in Bead : /\ bead[b].parent # NoBead => bead'[b].parent = bead[b].parent
                  /\ bead[b].state # "absent" => bead'[b].state # "absent"

\* Only titles, bodies, labels and notes change.
ShapeKept ==
  \A b \in Bead : /\ bead'[b].state = bead[b].state
                  /\ bead'[b].opkey = bead[b].opkey
                  /\ bead'[b].rkey = bead[b].rkey
                  /\ bead'[b].parent = bead[b].parent

Shaped == Stamps /\ RootsCarry /\ ChildrenFollow /\ ClosedFollow

\* A delivery none of whose own state changes keeps its facts as long as
\* anchors and parents are kept.
LEMMA WorkerKept ==
  ASSUME IInv, AnchorsKept, ParentsKept, NEW e \in Delivery,
         pc'[e] = pc[e], rows'[e] = rows[e], canon'[e] = canon[e],
         seq'[e] = seq[e], target'[e] = target[e]
  PROVE  Worker(e)'
<1>1. Worker(e)
  BY DEF IInv
<1>2. pc[e] \in Reconciling \cup Promoting => Anchor(canon[e])'
  BY <1>1 DEF Worker, AnchorsKept, Anchor
<1>3. /\ pc[e] \in {"childCreating", "strip", "childNote"} => bead'[target[e]].parent # NoBead
      /\ \A b \in rows[e] : bead'[b].state # "absent"
  <2>1. rows[e] \subseteq Bead
    BY DEF IInv, TypeOK
  <2> QED BY <1>1, <2>1 DEF Worker, ParentsKept
<1>4. Anchor(canon[e])' <=> (Anchor(canon[e]))'
  OBVIOUS
<1> QED BY <1>1, <1>2, <1>3 DEF Worker, Reconciling, Promoting, Anchor, Committed

LEMMA ShapeLemma ==
  ASSUME IInv, ShapeKept, stamp' = stamp
  PROVE  Shaped' /\ AnchorsKept /\ ParentsKept
<1>1. \A b \in Bead : Anchor(b)' <=> Anchor(b)
  BY DEF ShapeKept, Anchor, Committed
<1>2. Stamps' /\ RootsCarry'
  BY DEF IInv, ShapeKept, Stamps, RootsCarry
<1>3. ChildrenFollow'
  <2> SUFFICES ASSUME NEW b \in Bead PROVE ChildrenFollow!(b)'
    BY DEF ChildrenFollow
  <2>1. bead[b].parent # NoBead => bead[b].parent \in Bead
    BY DEF IInv, TypeOK, BeadRecord
  <2> QED BY <1>1, <2>1 DEF IInv, ShapeKept, ChildrenFollow
<1>4. ClosedFollow'
  BY <1>1 DEF IInv, ShapeKept, ClosedFollow
<1>5. AnchorsKept /\ ParentsKept
  BY <1>1 DEF AnchorsKept, ParentsKept, ShapeKept
<1> QED BY <1>2, <1>3, <1>4, <1>5 DEF Shaped

LEMMA StoreUnchanged ==
  ASSUME IInv, UNCHANGED store
  PROVE  Shaped' /\ Histories' /\ AnchorsKept /\ ParentsKept
<1>1. ShapeKept
  BY DEF store, ShapeKept
<1>2. Histories'
  BY DEF IInv, Histories, HasHighest, store
<1> QED BY <1>1, <1>2, ShapeLemma DEF store

\* Everything but the acting delivery's own facts.
LEMMA OthersKept ==
  ASSUME IInv, AnchorsKept, ParentsKept, NEW d \in Delivery,
         \A e \in Delivery \ {d} :
           /\ pc'[e] = pc[e] /\ rows'[e] = rows[e] /\ canon'[e] = canon[e]
           /\ seq'[e] = seq[e] /\ target'[e] = target[e],
         Worker(d)'
  PROVE  \A e \in Delivery : Worker(e)'
<1> SUFFICES ASSUME NEW e \in Delivery, e # d PROVE Worker(e)'
  OBVIOUS
<1> QED BY WorkerKept

\* An answered delivery holds nothing.
Replies == {"none", "created", "revision", "duplicate", "promoted", "error", "crashed"}

LEMMA AnswerLemma ==
  ASSUME IInv, NEW d \in Delivery, NEW b \in Bead \cup {NoBead}, NEW as \in Replies,
         Answer(d, b, as)
  PROVE  /\ Worker(d)'
         /\ \A e \in Delivery \ {d} :
              /\ pc'[e] = pc[e] /\ rows'[e] = rows[e] /\ canon'[e] = canon[e]
              /\ seq'[e] = seq[e] /\ target'[e] = target[e]
         /\ bead' \in [Bead -> BeadRecord] /\ stamp' \in Nat \ {0} => TypeOK'
<1>1. pc'[d] = "done" /\ rows'[d] = {} /\ canon'[d] = NoBead
  BY DEF IInv, TypeOK, Answer
<1>2. Worker(d)'
  BY <1>1 DEF Worker, Reconciling, Promoting
<1>3. \A e \in Delivery \ {d} :
        /\ pc'[e] = pc[e] /\ rows'[e] = rows[e] /\ canon'[e] = canon[e]
        /\ seq'[e] = seq[e] /\ target'[e] = target[e]
  BY DEF IInv, TypeOK, Answer
<1>4. ASSUME bead' \in [Bead -> BeadRecord], stamp' \in Nat \ {0} PROVE TypeOK'
  <2>1. pc' \in [Delivery -> Resting \cup Creating \cup Reconciling \cup Promoting]
    BY DEF IInv, TypeOK, Answer, Resting
  <2>2. seen' \in [Delivery -> Fields]
    BY Contents DEF IInv, TypeOK, Answer
  <2>3. /\ rows' \in [Delivery -> SUBSET Bead]
        /\ canon' \in [Delivery -> Bead \cup {NoBead}]
        /\ seq' \in [Delivery -> Nat]
        /\ target' \in [Delivery -> Bead \cup {NoBead}]
    BY DEF IInv, TypeOK, Answer
  <2>4. reply' \in [Delivery -> [bead : Bead \cup {NoBead}, as : Replies]]
    BY DEF IInv, TypeOK, Answer, Replies
  <2> QED BY <1>4, <2>1, <2>2, <2>3, <2>4 DEF TypeOK, Replies
<1> QED BY <1>2, <1>3, <1>4

-----------------------------------------------------------------------------
(* Steps that leave the store alone. *)

\* A step that leaves the store alone needs only types and the actor's facts.
LEMMA QuietStep ==
  ASSUME IInv, UNCHANGED store, NEW d \in Delivery, TypeOK', Worker(d)',
         \A e \in Delivery \ {d} :
           /\ pc'[e] = pc[e] /\ rows'[e] = rows[e] /\ canon'[e] = canon[e]
           /\ seq'[e] = seq[e] /\ target'[e] = target[e]
  PROVE  IInv'
<1>1. Shaped' /\ Histories' /\ AnchorsKept /\ ParentsKept
  BY StoreUnchanged
<1>2. \A e \in Delivery : Worker(e)'
  BY <1>1, OthersKept
<1> QED BY <1>1, <1>2 DEF IInv, Shaped

LEMMA SubmitInvariant ==
  ASSUME IInv, NEW d \in Delivery, Submit(d)
  PROVE  IInv'
<1>1. TypeOK'
  BY DEF IInv, TypeOK, Submit, Goto, store, work, Resting
<1>2. Worker(d)'
  BY DEF IInv, TypeOK, Submit, Goto, store, work, Worker, Reconciling, Promoting, Anchor, Committed
<1> QED BY <1>1, <1>2, QuietStep DEF IInv, TypeOK, Submit, Goto, store, work

LEMMA FindNoneInvariant ==
  ASSUME IInv, NEW d \in Delivery, FindNone(d)
  PROVE  IInv'
<1>1. TypeOK'
  BY DEF IInv, TypeOK, FindNone, Goto, store, work, Creating
<1>2. Worker(d)'
  BY DEF IInv, TypeOK, FindNone, Goto, store, work, Worker, Reconciling, Promoting, Anchor, Committed
<1> QED BY <1>1, <1>2, QuietStep DEF IInv, TypeOK, FindNone, Goto, store, work

\* Everything that carries the key and is not the canonical bead comes after
\* it, and the canonical bead is an anchor.
LEMMA CanonicalIsAnchor ==
  ASSUME IInv, Carrying # {}
  PROVE  /\ Anchor(CanonicalOf(Carrying))
         /\ CanonicalOf(Carrying) \in Carrying
         /\ \A b \in Carrying : CanonicalOf(Carrying) <= b
<1> DEFINE m == CanonicalOf(Carrying)
<1>1. m \in Carrying /\ \A b \in Carrying : m <= b
  BY CanonicalOfProperty DEF Carrying
<1> HIDE DEF m
<1>2. m \in Bead /\ Committed(m)
  BY <1>1 DEF Carrying
<1>3. bead[m].parent = NoBead
  <2> SUFFICES ASSUME bead[m].parent # NoBead PROVE FALSE
    OBVIOUS
  <2> DEFINE p == bead[m].parent
  <2>1. p < m /\ Anchor(p)
    BY <1>2 DEF IInv, ChildrenFollow
  <2>2. p \in Carrying
    BY <2>1 DEF IInv, RootsCarry, Anchor, Carrying, Committed
  <2>3. p \in Nat /\ m \in Nat
    BY <1>2, <2>1, BeadNames DEF Anchor
  <2> QED BY <1>1, <2>1, <2>2, <2>3
<1> QED BY <1>1, <1>2, <1>3 DEF Anchor, m

LEMMA FindSomeInvariant ==
  ASSUME IInv, NEW d \in Delivery, FindSome(d)
  PROVE  IInv'
<1>0. PICK m : m = CanonicalOf(Carrying)
  OBVIOUS
<1>1. /\ Carrying # {}
      /\ canon' = [canon EXCEPT ![d] = m]
      /\ rows' = [rows EXCEPT ![d] = Carrying \ {m}]
      /\ pc' = [pc EXCEPT ![d] = "collapse"]
      /\ UNCHANGED <<store, seq, seen, target, reply>>
  BY <1>0 DEF FindSome, FindByKey, MayFailToFind, Goto
<1>2. Anchor(m) /\ m \in Carrying /\ \A b \in Carrying : m <= b
  BY <1>0, <1>1, CanonicalIsAnchor
<1>3. m \in Bead /\ Carrying \subseteq Bead
  BY <1>2 DEF Carrying
<1>4. TypeOK'
  BY <1>1, <1>3 DEF IInv, TypeOK, store, Reconciling
<1>5. \A b \in Carrying \ {m} : m < b /\ bead'[b].state # "absent"
  BY <1>1, <1>2, <1>3, BeadNames DEF Carrying, Committed, store
<1>6. pc'[d] = "collapse" /\ canon'[d] = m /\ rows'[d] = Carrying \ {m}
  BY <1>1 DEF IInv, TypeOK
<1>7. Anchor(m)'
  BY <1>1, <1>2 DEF Anchor, Committed, store
<1>8. Worker(d)'
  BY <1>5, <1>6, <1>7 DEF Worker, Reconciling, Promoting, Anchor, Committed
<1> QED BY <1>1, <1>4, <1>8, QuietStep DEF IInv, TypeOK

LEMMA CreateReturnsInvariant ==
  ASSUME IInv, NEW d \in Delivery, CreateReturns(d)
  PROVE  IInv'
<1>1. TypeOK'
  BY DEF IInv, TypeOK, CreateReturns, Goto, store, work, Creating, Promoting
<1>2. Worker(d)'
  BY DEF IInv, TypeOK, CreateReturns, Goto, store, work, Worker, Reconciling, Promoting, Anchor, Committed
<1> QED BY <1>1, <1>2, QuietStep DEF IInv, TypeOK, CreateReturns, Goto, store, work

\* What is recovered for a child carries a child key, so it has a parent.
LEMMA RecoverInvariant ==
  ASSUME IInv, NEW d \in Delivery, Recover(d)
  PROVE  IInv'
<1> DEFINE t == CanonicalOf(Recoverable(d))
<1>1. t \in Recoverable(d)
  BY CanonicalOfProperty DEF Recover, Recoverable, Carrying, CarryingChildKey
<1>2. /\ target' = [target EXCEPT ![d] = t]
      /\ pc' = [pc EXCEPT ![d] = IF pc[d] = "recover" THEN "first" ELSE "strip"]
      /\ UNCHANGED <<store, rows, canon, seq, seen, reply>>
      /\ pc[d] \in {"recover", "childRecover"}
  BY DEF Recover, Goto
<1> HIDE DEF t
<1>3. t \in Bead
  BY <1>1 DEF Recoverable, Carrying, CarryingChildKey
<1>4. pc[d] = "childRecover" => bead[t].parent # NoBead
  <2>1. pc[d] = "childRecover" => bead[t].rkey = seq[d] /\ seq[d] # 0
    BY <1>1 DEF IInv, Worker, Recoverable, CarryingChildKey, Promoting
  <2> QED BY <1>3, <2>1 DEF IInv, ChildrenFollow
<1>5. TypeOK'
  BY <1>2, <1>3 DEF IInv, TypeOK, store, Creating, Promoting
<1>6. Worker(d)'
  BY <1>2, <1>3, <1>4 DEF IInv, TypeOK, store, Worker, Reconciling, Promoting, Anchor, Committed
<1> QED BY <1>2, <1>5, <1>6, QuietStep DEF IInv, TypeOK

LEMMA RecoverNothingInvariant ==
  ASSUME IInv, NEW d \in Delivery, RecoverNothing(d)
  PROVE  IInv'
<1>1. Answer(d, NoBead, "error") /\ UNCHANGED store
  BY DEF RecoverNothing, Fail
<1>2. TypeOK' /\ Worker(d)'
  BY <1>1, AnswerLemma DEF Replies, IInv, TypeOK, store
<1> QED BY <1>1, <1>2, AnswerLemma, QuietStep DEF Replies

LEMMA ReadHistoryInvariant ==
  ASSUME IInv, NEW d \in Delivery, ReadHistory(d)
  PROVE  IInv'
<1>1. PICK notes \in {bead[canon[d]].notes} \cup {{}} : seq' = [seq EXCEPT ![d] = NextSeq(notes)]
  BY DEF ReadHistory
<1>2. /\ pc[d] = "collapse" /\ rows[d] = {}
      /\ pc' = [pc EXCEPT ![d] = "state"]
      /\ UNCHANGED <<store, rows, canon, seen, target, reply>>
  BY DEF ReadHistory, Goto
<1>3. canon[d] \in Bead
  BY <1>2 DEF IInv, Worker, Anchor, Reconciling
<1>4. notes \in SUBSET NoteRecord /\ HasHighest(notes)
  BY <1>1, <1>3 DEF IInv, TypeOK, BeadRecord, Histories, HasHighest
<1>5. NextSeq(notes) \in Nat \ {0}
  BY <1>4, NextSeqProperty
<1>6. TypeOK'
  BY <1>1, <1>2, <1>5 DEF IInv, TypeOK, store, Reconciling
<1>7. Worker(d)'
  BY <1>1, <1>2, <1>5 DEF IInv, TypeOK, store, Worker, Reconciling, Promoting, Anchor, Committed
<1> QED BY <1>1, <1>2, <1>6, <1>7, QuietStep DEF IInv, TypeOK

LEMMA ReadStateInvariant ==
  ASSUME IInv, NEW d \in Delivery, ReadState(d)
  PROVE  IInv'
<1>1. PICK s \in {FieldsOf(canon[d])} \cup {Blank} :
        seen' = [seen EXCEPT ![d] = s] /\ pc' = [pc EXCEPT ![d] = AfterRead(s, d)]
  BY DEF ReadState, Goto
<1>2. pc[d] = "state" /\ UNCHANGED <<store, rows, canon, seq, target, reply>>
  BY DEF ReadState
<1>3. canon[d] \in Bead
  BY <1>2 DEF IInv, Worker, Anchor, Reconciling
<1>4. s \in Fields
  <2>1. FieldsOf(canon[d]) \in Fields
    BY <1>3 DEF IInv, TypeOK, BeadRecord, Fields, FieldsOf
  <2> QED BY <1>1, <2>1, Contents
<1>5. AfterRead(s, d) \in {"promote", "edit", "label", "record"}
  BY DEF AfterRead, AfterEdit
<1>6. TypeOK'
  BY <1>1, <1>2, <1>4, <1>5 DEF IInv, TypeOK, store, Reconciling
<1>7. pc'[d] \in {"promote", "edit", "label", "record"}
  BY <1>1, <1>5 DEF IInv, TypeOK
<1>8. Worker(d)'
  BY <1>2, <1>7 DEF IInv, TypeOK, store, Worker, Reconciling, Promoting, Anchor, Committed
<1> QED BY <1>1, <1>2, <1>6, <1>8, QuietStep DEF IInv, TypeOK

LEMMA FindChildInvariant ==
  ASSUME IInv, NEW d \in Delivery, FindChild(d)
  PROVE  IInv'
<1>1. PICK found \in {CarryingChildKey(seq[d])} \cup {{}} :
        IF found = {}
        THEN Goto(d, "child") /\ UNCHANGED target
        ELSE Goto(d, "childNote") /\ target' = [target EXCEPT ![d] = CanonicalOf(found)]
  BY DEF FindChild, FindByChildKey, MayFailToFind
<1>2. pc[d] = "promote" /\ UNCHANGED <<store, rows, canon, seq, seen, reply>>
  BY DEF FindChild
<1>3. CASE found = {}
  <2>1. pc' = [pc EXCEPT ![d] = "child"] /\ UNCHANGED target
    BY <1>1, <1>3 DEF Goto
  <2>2. TypeOK'
    BY <1>2, <2>1 DEF IInv, TypeOK, store, Promoting
  <2>3. Worker(d)'
    BY <1>2, <2>1 DEF IInv, TypeOK, store, Worker, Reconciling, Promoting, Anchor, Committed
  <2> QED BY <1>2, <2>1, <2>2, <2>3, QuietStep DEF IInv, TypeOK
<1>4. CASE found # {}
  <2> DEFINE t == CanonicalOf(found)
  <2>1. t \in CarryingChildKey(seq[d])
    BY <1>1, <1>4, CanonicalOfProperty DEF CarryingChildKey
  <2>2. pc' = [pc EXCEPT ![d] = "childNote"] /\ target' = [target EXCEPT ![d] = t]
    BY <1>1, <1>4 DEF Goto
  <2> HIDE DEF t
  <2>3. t \in Bead /\ bead[t].rkey = seq[d] /\ seq[d] # 0
    BY <1>2, <2>1 DEF IInv, Worker, CarryingChildKey, Reconciling
  <2>4. bead[t].parent # NoBead
    BY <2>3 DEF IInv, ChildrenFollow
  <2>5. TypeOK'
    BY <1>2, <2>2, <2>3 DEF IInv, TypeOK, store, Promoting
  <2>6. Worker(d)'
    BY <1>2, <2>2, <2>3, <2>4 DEF IInv, TypeOK, store, Worker, Reconciling, Promoting, Anchor, Committed
  <2> QED BY <1>2, <2>2, <2>5, <2>6, QuietStep DEF IInv, TypeOK
<1> QED BY <1>3, <1>4

LEMMA CrashInvariant ==
  ASSUME IInv, NEW p \in Process, Crash(p)
  PROVE  IInv'
<1> DEFINE here == {d \in Delivery : Home[d] = p /\ pc[d] \notin {"idle", "done"}}
<1>1. /\ pc' = [d \in Delivery |-> IF d \in here THEN "done" ELSE pc[d]]
      /\ reply' = [d \in Delivery |->
                     IF d \in here THEN [bead |-> NoBead, as |-> "crashed"] ELSE reply[d]]
      /\ rows' = [d \in Delivery |-> IF d \in here THEN {} ELSE rows[d]]
      /\ canon' = [d \in Delivery |-> IF d \in here THEN NoBead ELSE canon[d]]
      /\ seq' = [d \in Delivery |-> IF d \in here THEN 0 ELSE seq[d]]
      /\ seen' = [d \in Delivery |-> IF d \in here THEN Blank ELSE seen[d]]
      /\ target' = [d \in Delivery |-> IF d \in here THEN NoBead ELSE target[d]]
      /\ UNCHANGED store
  BY DEF Crash
<1>2. Shaped' /\ Histories' /\ AnchorsKept /\ ParentsKept
  BY <1>1, StoreUnchanged
<1> HIDE DEF here
<1>3. TypeOK'
  BY <1>1, Contents DEF IInv, TypeOK, store, Resting
<1>4. ASSUME NEW d \in Delivery PROVE Worker(d)'
  <2>1. CASE d \in here
    BY <1>1, <2>1 DEF Worker, Reconciling, Promoting
  <2>2. CASE d \notin here
    BY <1>1, <1>2, <2>2, WorkerKept
  <2> QED BY <2>1, <2>2
<1> QED BY <1>2, <1>3, <1>4 DEF IInv, Shaped

-----------------------------------------------------------------------------
(* Steps that change titles, bodies, labels and notes only. *)

\* An answering step whose store change keeps the shape.
LEMMA AnsweringStep ==
  ASSUME IInv, NEW d \in Delivery, NEW b \in Bead \cup {NoBead}, NEW as \in Replies,
         Answer(d, b, as), UNCHANGED stamp,
         bead' \in [Bead -> BeadRecord], ShapeKept, Histories'
  PROVE  IInv'
<1>1. Shaped' /\ AnchorsKept /\ ParentsKept
  BY ShapeLemma
<1>2. TypeOK'
  BY AnswerLemma DEF IInv, TypeOK
<1>3. \A e \in Delivery : Worker(e)'
  BY <1>1, AnswerLemma, OthersKept
<1> QED BY <1>1, <1>2, <1>3 DEF IInv, Shaped

\* Adding a note, or failing to.
LEMMA RecordLemma ==
  ASSUME IInv, NEW d \in Delivery, NEW b \in Bead, NEW n \in NoteRecord, Record(d, b, n)
  PROVE  bead' \in [Bead -> BeadRecord] /\ ShapeKept /\ Histories'
<1>1. bead \in [Bead -> BeadRecord]
  BY DEF IInv, TypeOK
<1>2. CASE UNCHANGED bead
  BY <1>1, <1>2 DEF ShapeKept, IInv, Histories, HasHighest
<1>3. CASE bead' = [bead EXCEPT ![b].notes = @ \cup {n}]
  <2>1. bead[b].notes \in SUBSET NoteRecord
    BY <1>1 DEF BeadRecord
  <2>2. bead' \in [Bead -> BeadRecord]
    BY <1>1, <1>3, <2>1 DEF BeadRecord
  <2>3. ShapeKept
    BY <1>1, <1>3 DEF ShapeKept, BeadRecord
  <2>4. /\ bead'[b].notes = bead[b].notes \cup {n}
        /\ \A c \in Bead \ {b} : bead'[c].notes = bead[c].notes
    BY <1>1, <1>3 DEF BeadRecord
  <2>5. HasHighest(bead[b].notes \cup {n})
    BY <2>1, HighestKept DEF IInv, Histories
  <2>6. Histories'
    BY <2>4, <2>5 DEF IInv, Histories, HasHighest
  <2> QED BY <2>2, <2>3, <2>6
<1> QED BY <1>2, <1>3 DEF Record

LEMMA RecordFirstInvariant ==
  ASSUME IInv, NEW d \in Delivery, RecordFirst(d)
  PROVE  IInv'
<1>1. target[d] \in Bead
  BY DEF IInv, Worker, RecordFirst
<1>2. Note(d, 1, "create") \in NoteRecord
  BY DEF Note, NoteRecord
<1>3. bead' \in [Bead -> BeadRecord] /\ ShapeKept /\ Histories'
  BY <1>1, <1>2, RecordLemma DEF RecordFirst
<1> QED BY <1>1, <1>3, AnsweringStep DEF RecordFirst, Replies

LEMMA RecordRevisionInvariant ==
  ASSUME IInv, NEW d \in Delivery, RecordRevision(d)
  PROVE  IInv'
<1>1. canon[d] \in Bead /\ seq[d] \in Nat \ {0}
  BY DEF IInv, TypeOK, Worker, RecordRevision, Reconciling, Anchor
<1>2. Mode(d) \in {"revision", "duplicate"}
  BY DEF Mode
<1>3. Note(d, seq[d], Mode(d)) \in NoteRecord
  BY <1>1, <1>2 DEF Note, NoteRecord
<1>4. bead' \in [Bead -> BeadRecord] /\ ShapeKept /\ Histories'
  BY <1>1, <1>3, RecordLemma DEF RecordRevision
<1>5. Mode(d) \in Replies
  BY <1>2 DEF Replies
<1> QED BY <1>1, <1>4, <1>5, AnsweringStep DEF RecordRevision

LEMMA RecordPromotionInvariant ==
  ASSUME IInv, NEW d \in Delivery, RecordPromotion(d)
  PROVE  IInv'
<1>1. canon[d] \in Bead /\ seq[d] \in Nat \ {0}
  BY DEF IInv, TypeOK, Worker, RecordPromotion, Promoting, Anchor
<1>2. Note(d, seq[d], "child") \in NoteRecord
  BY <1>1 DEF Note, NoteRecord
<1>3. bead' \in [Bead -> BeadRecord] /\ ShapeKept /\ Histories'
  BY <1>1, <1>2, RecordLemma DEF RecordPromotion
<1> QED BY <1>1, <1>3, AnsweringStep DEF RecordPromotion, Replies

\* The store after an edit or a label is well typed and has the same shape.
LEMMA EditedLemma ==
  ASSUME IInv, NEW d \in Delivery, canon[d] \in Bead,
         bead' \in {bead, EditedBead(d), LabelledBead(d)}
  PROVE  bead' \in [Bead -> BeadRecord] /\ ShapeKept /\ Histories'
<1>1. bead \in [Bead -> BeadRecord] /\ seen[d] \in Fields
  BY DEF IInv, TypeOK
<1>2. Title[d] \in Titles /\ MergeBody(seen[d], d) \in SUBSET Texts
  BY <1>1, Contents DEF MergeBody, Fields
<1>3. CASE bead' = bead
  BY <1>1, <1>3 DEF ShapeKept, IInv, Histories, HasHighest
<1>4. CASE bead' = EditedBead(d)
  <2>1. bead' \in [Bead -> BeadRecord]
    BY <1>1, <1>2, <1>4 DEF EditedBead, BeadRecord
  <2>2. ShapeKept
    BY <1>1, <1>4 DEF EditedBead, BeadRecord, ShapeKept
  <2>3. \A b \in Bead : bead'[b].notes = bead[b].notes
    BY <1>1, <1>4 DEF EditedBead, BeadRecord
  <2> QED BY <2>1, <2>2, <2>3 DEF IInv, Histories, HasHighest
<1>5. CASE bead' = LabelledBead(d)
  <2>1. Labels[d] \subseteq LabelNames
    BY Contents
  <2>2. bead' \in [Bead -> BeadRecord]
    BY <1>1, <1>5, <2>1 DEF LabelledBead, BeadRecord
  <2>3. ShapeKept
    BY <1>1, <1>5 DEF LabelledBead, BeadRecord, ShapeKept
  <2>4. \A b \in Bead : bead'[b].notes = bead[b].notes
    BY <1>1, <1>5 DEF LabelledBead, BeadRecord
  <2> QED BY <2>2, <2>3, <2>4 DEF IInv, Histories, HasHighest
<1> QED BY <1>3, <1>4, <1>5

LEMMA EditFailsInvariant ==
  ASSUME IInv, NEW d \in Delivery, EditFails(d) \/ AddLabelsFails(d)
  PROVE  IInv'
<1>1. canon[d] \in Bead
  BY DEF IInv, Worker, EditFails, AddLabelsFails, Reconciling, Anchor
<1>2. /\ bead' \in {bead, EditedBead(d), LabelledBead(d)}
      /\ Answer(d, NoBead, "error")
      /\ UNCHANGED stamp
  BY DEF EditFails, AddLabelsFails, Fail
<1>3. bead' \in [Bead -> BeadRecord] /\ ShapeKept /\ Histories'
  BY <1>1, <1>2, EditedLemma
<1> QED BY <1>2, <1>3, AnsweringStep DEF Replies

LEMMA EditInvariant ==
  ASSUME IInv, NEW d \in Delivery, Edit(d) \/ AddLabels(d)
  PROVE  IInv'
<1>1. pc[d] \in {"edit", "label"} /\ canon[d] \in Bead
  BY DEF IInv, Worker, Edit, AddLabels, Reconciling, Anchor
<1>2. PICK next \in {"label", "record"} : pc' = [pc EXCEPT ![d] = next]
  BY DEF Edit, AddLabels, AfterEdit, Goto
<1>3. /\ bead' \in {bead, EditedBead(d), LabelledBead(d)}
      /\ UNCHANGED <<stamp, rows, canon, seq, seen, target, reply>>
  BY DEF Edit, AddLabels, work
<1>4. bead' \in [Bead -> BeadRecord] /\ ShapeKept /\ Histories'
  BY <1>1, <1>3, EditedLemma
<1>5. Shaped' /\ AnchorsKept /\ ParentsKept
  BY <1>3, <1>4, ShapeLemma
<1>6. TypeOK'
  BY <1>2, <1>3, <1>4 DEF IInv, TypeOK, Reconciling
<1>7. pc'[d] \in {"label", "record"}
  BY <1>2 DEF IInv, TypeOK
<1>8. Anchor(canon[d]) /\ seq[d] # 0 /\ rows[d] = {}
  BY <1>1 DEF IInv, Worker, Reconciling
<1>9. Anchor(canon[d])'
  BY <1>3, <1>8, <1>5 DEF AnchorsKept, Anchor, Committed
<1>10. Worker(d)'
  BY <1>3, <1>7, <1>8, <1>9 DEF Worker, Reconciling, Promoting, Anchor, Committed
<1>11. \A e \in Delivery : Worker(e)'
  BY <1>2, <1>3, <1>5, <1>10, OthersKept DEF IInv, TypeOK
<1> QED BY <1>4, <1>5, <1>6, <1>11 DEF IInv, Shaped

-----------------------------------------------------------------------------
(* Steps that create, land, lose, close or strip a bead. *)

\* A new bead takes the next stamp; a child names the anchor it was read under.
LEMMA SpawnInvariant ==
  ASSUME IInv, NEW d \in Delivery, StartCreate(d) \/ StartChild(d)
  PROVE  IInv'
<1>1. PICK child \in BOOLEAN, after \in {"creating", "childCreating"} :
        /\ Spawn(d, child, after)
        /\ child => pc[d] = "child" /\ after = "childCreating"
        /\ ~child => pc[d] = "create" /\ after = "creating"
  BY DEF StartCreate, StartChild
<1>2. /\ stamp \in Bead
      /\ bead' = [bead EXCEPT ![stamp] = NewBead(d, child)]
      /\ stamp' = stamp + 1
      /\ target' = [target EXCEPT ![d] = stamp]
      /\ pc' = [pc EXCEPT ![d] = after]
      /\ UNCHANGED <<rows, canon, seq, seen, reply>>
  BY <1>1 DEF Spawn, Goto
<1>3. /\ child => Anchor(canon[d]) /\ seq[d] # 0
      /\ ~child => canon[d] = NoBead
      /\ rows[d] = {}
  BY <1>1 DEF IInv, Worker, Promoting, Reconciling
<1>4. canon[d] \in Bead \cup {NoBead} /\ seq[d] \in Nat /\ bead \in [Bead -> BeadRecord]
  BY DEF IInv, TypeOK
<1> DEFINE fresh == NewBead(d, child)
<1>5. /\ fresh.state = "inflight" /\ fresh.parent = canon[d] /\ fresh.notes = {}
      /\ fresh.opkey = ~child
      /\ fresh.rkey = IF child THEN seq[d] ELSE 0
  BY DEF NewBead
<1>6. fresh \in BeadRecord
  BY <1>4, Contents DEF NewBead, BeadRecord
<1>7. bead'[stamp] = fresh /\ \A b \in Bead \ {stamp} : bead'[b] = bead[b]
  BY <1>2, <1>4
<1> HIDE DEF fresh
<1>8. stamp \in Nat /\ Bead \subseteq Nat /\ bead[stamp].state = "absent"
  BY <1>2, BeadNames DEF IInv, TypeOK, Stamps
<1>9. \A b \in Bead : Anchor(b) => b # stamp /\ b < stamp
  <2>1. \A b \in Bead : Anchor(b) => bead[b].state # "absent"
    BY DEF Anchor, Committed
  <2>2. \A b \in Bead : bead[b].state # "absent" => ~(b >= stamp)
    BY DEF IInv, Stamps
  <2> QED BY <1>8, <2>1, <2>2
<1>10. AnchorsKept
  BY <1>7, <1>9 DEF AnchorsKept, Anchor, Committed
<1>11. ParentsKept
  BY <1>2, <1>7, <1>8 DEF ParentsKept, IInv, Stamps
<1>12. TypeOK'
  <2>1. bead' \in [Bead -> BeadRecord]
    BY <1>2, <1>4, <1>6, <1>7
  <2>2. pc' \in [Delivery -> Resting \cup Creating \cup Reconciling \cup Promoting]
    BY <1>2 DEF IInv, TypeOK, Creating, Promoting
  <2> QED BY <1>2, <1>8, <2>1, <2>2 DEF IInv, TypeOK
<1>13. Histories'
  BY <1>5, <1>7 DEF IInv, Histories, HasHighest
<1>14. Stamps'
  <2> SUFFICES ASSUME NEW b \in Bead PROVE Stamps!(b)'
    BY DEF Stamps
  <2>1. CASE b = stamp
    BY <1>2, <1>5, <1>7, <1>8, <2>1
  <2>2. CASE b # stamp
    <3>1. b >= stamp <=> b >= stamp + 1
      BY <1>8, <2>2
    <3> QED BY <1>2, <1>7, <2>2, <3>1 DEF IInv, Stamps
  <2> QED BY <2>1, <2>2
<1>15. RootsCarry'
  <2>1. bead'[stamp].parent = NoBead => bead'[stamp].opkey
    BY <1>3, <1>5, <1>7, BeadNames DEF Anchor
  <2> QED BY <1>7, <2>1 DEF IInv, RootsCarry
<1>16. ChildrenFollow'
  <2> SUFFICES ASSUME NEW b \in Bead PROVE ChildrenFollow!(b)'
    BY DEF ChildrenFollow
  <2>1. CASE b = stamp
    <3>1. canon[d] # NoBead => child /\ Anchor(canon[d]) /\ canon[d] < stamp
      BY <1>3, <1>9 DEF Anchor
    <3>2. bead'[b].parent = canon[d]
      BY <1>5, <1>7, <2>1
    <3>3. canon[d] # NoBead => Anchor(canon[d]) /\ canon[d] \in Bead
      BY <3>1 DEF Anchor
    <3>4. bead'[b].rkey # 0 => canon[d] # NoBead
      BY <1>3, <1>5, <1>7, <2>1, BeadNames DEF Anchor
    <3>5. ASSUME NEW a \in Bead, Anchor(a) PROVE Anchor(a)'
      BY <1>10, <3>5 DEF AnchorsKept
    <3> QED BY <2>1, <3>1, <3>2, <3>3, <3>4, <3>5
  <2>2. CASE b # stamp
    <3>1. bead'[b] = bead[b]
      BY <1>7, <2>2
    <3>2. bead[b].parent # NoBead => bead[b].parent < b /\ Anchor(bead[b].parent)
      BY DEF IInv, ChildrenFollow
    <3>3. ASSUME NEW a \in Bead, Anchor(a) PROVE Anchor(a)'
      BY <1>10, <3>3 DEF AnchorsKept
    <3> QED BY <3>1, <3>2, <3>3 DEF IInv, ChildrenFollow, Anchor
  <2> QED BY <2>1, <2>2
<1>17. ClosedFollow'
  <2>1. \A b \in Bead : bead'[b].state = "closed" => bead[b].state = "closed"
    BY <1>5, <1>7
  <2> QED BY <1>10, <2>1 DEF IInv, ClosedFollow, AnchorsKept
<1>18. Worker(d)'
  <2>1. /\ pc'[d] = after /\ rows'[d] = {} /\ canon'[d] = canon[d]
        /\ seq'[d] = seq[d] /\ target'[d] = stamp
    BY <1>2, <1>3 DEF IInv, TypeOK
  <2>2. child => Anchor(canon[d])'
    <3>1. \A a \in Bead : Anchor(a) => Anchor(a)'
      BY <1>10 DEF AnchorsKept
    <3> QED BY <1>2, <1>3, <3>1 DEF Anchor, Committed
  <2>3. child => bead'[stamp].parent # NoBead
    BY <1>3, <1>5, <1>7, BeadNames DEF Anchor
  <2>4. (child <=> after = "childCreating") /\ (~child <=> after = "creating")
    BY <1>1
  <2> QED BY <1>2, <1>3, <2>1, <2>2, <2>3, <2>4 DEF Worker, Reconciling, Promoting, Anchor, Committed
<1>19. \A e \in Delivery : Worker(e)'
  BY <1>2, <1>10, <1>11, <1>18, OthersKept DEF IInv, TypeOK
<1> QED BY <1>12, <1>13, <1>14, <1>15, <1>16, <1>17, <1>19 DEF IInv

\* One bead that had been created keeps its place in the family, its key if it
\* is a root, and stays committed if it was; closing it needs an anchor before.
LEMMA TouchedLemma ==
  ASSUME IInv, stamp' = stamp, NEW b \in Bead, NEW r \in BeadRecord,
         bead' = [bead EXCEPT ![b] = r],
         bead[b].state # "absent", r.state # "absent",
         r.parent = bead[b].parent, r.rkey = bead[b].rkey, r.notes = bead[b].notes,
         Committed(b) => r.state \in {"open", "closed"},
         r.parent = NoBead => r.opkey,
         r.state = "closed" => bead[b].state = "closed" \/ \E a \in Bead : a < b /\ Anchor(a)
  PROVE  /\ bead' \in [Bead -> BeadRecord]
         /\ Shaped' /\ Histories' /\ AnchorsKept /\ ParentsKept
<1>1. bead \in [Bead -> BeadRecord]
  BY DEF IInv, TypeOK
<1>2. bead'[b] = r /\ \A c \in Bead \ {b} : bead'[c] = bead[c]
  BY <1>1
<1>3. bead' \in [Bead -> BeadRecord]
  BY <1>1
<1>4. \A c \in Bead : Anchor(c) => Anchor(c)'
  BY <1>2 DEF Anchor, Committed
<1>5. \A c \in Bead : /\ bead'[c].parent = bead[c].parent
                      /\ bead'[c].rkey = bead[c].rkey
                      /\ bead'[c].notes = bead[c].notes
                      /\ bead'[c].state = "absent" <=> bead[c].state = "absent"
  BY <1>2
<1>6. Histories'
  BY <1>5 DEF IInv, Histories, HasHighest
<1>7. Stamps'
  BY <1>5 DEF IInv, Stamps
<1>8. RootsCarry'
  BY <1>2 DEF IInv, RootsCarry
<1>9. ChildrenFollow'
  <2> SUFFICES ASSUME NEW c \in Bead PROVE ChildrenFollow!(c)'
    BY DEF ChildrenFollow
  <2>1. /\ bead[c].parent # NoBead => bead[c].parent < c /\ Anchor(bead[c].parent)
        /\ bead[c].rkey # 0 => bead[c].parent # NoBead
    BY DEF IInv, ChildrenFollow
  <2>2. bead[c].parent # NoBead => bead[c].parent \in Bead
    BY <2>1 DEF Anchor
  <2>3. bead'[c].parent = bead[c].parent /\ bead'[c].rkey = bead[c].rkey
    BY <1>5
  <2>4. ASSUME NEW a \in Bead, Anchor(a) PROVE Anchor(a)'
    BY <1>4, <2>4
  <2> QED BY <2>1, <2>2, <2>3, <2>4 DEF Anchor
<1>10. ClosedFollow'
  <2> SUFFICES ASSUME NEW c \in Bead, bead'[c].state = "closed"
               PROVE  \E a \in Bead : a < c /\ Anchor(a)'
    BY DEF ClosedFollow
  <2>1. bead[c].state = "closed" \/ \E a \in Bead : a < c /\ Anchor(a)
    BY <1>2
  <2>2. \E a \in Bead : a < c /\ Anchor(a)
    BY <2>1 DEF IInv, ClosedFollow
  <2> QED BY <1>4, <2>2
<1>11. AnchorsKept /\ ParentsKept
  BY <1>4, <1>5 DEF AnchorsKept, ParentsKept
<1> QED BY <1>3, <1>6, <1>7, <1>8, <1>9, <1>10, <1>11 DEF Shaped

\* A bead lands with its own key, and with its parent's.
LEMMA LandInvariant ==
  ASSUME IInv, NEW b \in Bead, Land(b)
  PROVE  IInv'
<1>1. bead \in [Bead -> BeadRecord] /\ bead[b] \in BeadRecord
  BY DEF IInv, TypeOK
<1>2. PICK h : h = Inherited(b)
  OBVIOUS
<1>3. h.opkey \in BOOLEAN /\ h.labels \in SUBSET LabelNames
  <2>1. CASE bead[b].parent = NoBead
    BY <1>2, <2>1 DEF Inherited
  <2>2. CASE bead[b].parent # NoBead
    <3>1. bead[bead[b].parent] \in BeadRecord
      BY <1>1, <2>2 DEF BeadRecord
    <3> QED BY <1>2, <2>2, <3>1 DEF Inherited, BeadRecord
  <2> QED BY <2>1, <2>2
<1>4. PICK r : r = [bead[b] EXCEPT !.state = "open",
                                   !.opkey = @ \/ h.opkey,
                                   !.labels = @ \cup h.labels]
  OBVIOUS
<1>5. /\ bead[b].state = "inflight"
      /\ bead' = [bead EXCEPT ![b] = r]
      /\ UNCHANGED <<stamp, pc, work, reply>>
  BY <1>1, <1>2, <1>4 DEF Land
<1>6. r \in BeadRecord
  <2>1. (bead[b].opkey \/ h.opkey) \in BOOLEAN
    OBVIOUS
  <2>2. (bead[b].labels \cup h.labels) \in SUBSET LabelNames
    BY <1>1, <1>3 DEF BeadRecord
  <2> QED BY <1>1, <1>4, <2>1, <2>2 DEF BeadRecord
<1>7. /\ r.state = "open" /\ r.parent = bead[b].parent /\ r.rkey = bead[b].rkey
      /\ r.notes = bead[b].notes /\ r.opkey = (bead[b].opkey \/ h.opkey)
  BY <1>1, <1>4 DEF BeadRecord
<1>8. r.parent = NoBead => r.opkey
  BY <1>5, <1>7 DEF IInv, RootsCarry
<1>9. /\ bead' \in [Bead -> BeadRecord]
      /\ Shaped' /\ Histories' /\ AnchorsKept /\ ParentsKept
  BY <1>5, <1>6, <1>7, <1>8, TouchedLemma
<1>10. TypeOK'
  BY <1>5, <1>9 DEF IInv, TypeOK, work
<1>11. \A e \in Delivery : Worker(e)'
  BY <1>5, <1>9, WorkerKept DEF work
<1> QED BY <1>9, <1>10, <1>11 DEF IInv, Shaped

\* A failed create loses the bead that had not landed, or leaves it.
LEMMA CreateFailsInvariant ==
  ASSUME IInv, NEW d \in Delivery, CreateFails(d)
  PROVE  IInv'
<1>1. target[d] \in Bead /\ bead \in [Bead -> BeadRecord]
  BY DEF IInv, TypeOK, Worker, CreateFails
<1>2. PICK after \in {"recover", "childRecover"} :
        /\ pc' = [pc EXCEPT ![d] = after]
        /\ after = "recover" => pc[d] = "creating"
        /\ after = "childRecover" => pc[d] = "childCreating"
  BY DEF CreateFails, Goto
<1>3. /\ target' = [target EXCEPT ![d] = NoBead]
      /\ UNCHANGED <<stamp, rows, canon, seq, seen, reply>>
  BY DEF CreateFails
<1>4. /\ bead' \in [Bead -> BeadRecord]
      /\ Shaped' /\ Histories' /\ AnchorsKept /\ ParentsKept
  <2>1. CASE UNCHANGED bead
    BY <1>1, <1>3, <2>1, StoreUnchanged DEF store
  <2>2. CASE /\ bead[target[d]].state = "inflight"
             /\ bead' = [bead EXCEPT ![target[d]].state = "lost"]
    <3>1. PICK b \in Bead : b = target[d]
      BY <1>1
    <3>2. PICK r : r = [bead[b] EXCEPT !.state = "lost"]
      OBVIOUS
    <3>3. bead[b] \in BeadRecord
      BY <1>1
    <3>4. r \in BeadRecord
      BY <3>2, <3>3 DEF BeadRecord
    <3>5. bead' = [bead EXCEPT ![b] = r]
      BY <1>1, <2>2, <3>1, <3>2
    <3>6. /\ r.state = "lost" /\ r.parent = bead[b].parent /\ r.rkey = bead[b].rkey
          /\ r.notes = bead[b].notes /\ r.opkey = bead[b].opkey
      BY <3>2, <3>3 DEF BeadRecord
    <3>7. bead[b].state = "inflight" /\ ~Committed(b)
      BY <2>2, <3>1 DEF Committed
    <3>8. r.parent = NoBead => r.opkey
      BY <3>6, <3>7 DEF IInv, RootsCarry
    <3> QED BY <1>3, <3>4, <3>5, <3>6, <3>7, <3>8, TouchedLemma
  <2> QED BY <2>1, <2>2 DEF CreateFails
<1>5. TypeOK'
  BY <1>2, <1>3, <1>4 DEF IInv, TypeOK, Creating, Promoting
<1>6. pc'[d] = after /\ target'[d] = NoBead
  BY <1>2, <1>3 DEF IInv, TypeOK
<1>7. /\ after = "recover" => canon[d] = NoBead
      /\ after = "childRecover" => Anchor(canon[d]) /\ seq[d] # 0
      /\ rows[d] = {}
  BY <1>2 DEF IInv, Worker, Reconciling, Promoting
<1>8. after = "childRecover" => Anchor(canon[d])'
  <2>1. \A a \in Bead : Anchor(a) => Anchor(a)'
    BY <1>4 DEF AnchorsKept
  <2> QED BY <1>3, <1>7, <2>1 DEF Anchor, Committed
<1>9. Worker(d)'
  BY <1>2, <1>3, <1>6, <1>7, <1>8 DEF Worker, Reconciling, Promoting, Anchor, Committed
<1>10. \A e \in Delivery : Worker(e)'
  BY <1>2, <1>3, <1>4, <1>9, OthersKept DEF IInv, TypeOK
<1> QED BY <1>4, <1>5, <1>10 DEF IInv, Shaped

\* Only beads after the anchor taken for canonical are closed.
LEMMA CollapseInvariant ==
  ASSUME IInv, NEW d \in Delivery, Collapse(d)
  PROVE  IInv'
<1>1. PICK b \in rows[d] :
        /\ rows' = [rows EXCEPT ![d] = @ \ {b}]
        /\ \/ bead' = [bead EXCEPT ![b].state = "closed"]
           \/ UNCHANGED bead
  BY DEF Collapse
<1>2. pc[d] = "collapse" /\ UNCHANGED <<stamp, pc, canon, seq, seen, target, reply>>
  BY DEF Collapse
<1>3. b \in Bead /\ bead \in [Bead -> BeadRecord] /\ rows[d] \subseteq Bead
  BY DEF IInv, TypeOK
<1>4. Anchor(canon[d]) /\ canon[d] < b
  BY <1>2 DEF IInv, Worker, Reconciling
<1>5. /\ bead' \in [Bead -> BeadRecord]
      /\ Shaped' /\ Histories' /\ AnchorsKept /\ ParentsKept
  <2>1. CASE UNCHANGED bead
    BY <1>2, <1>3, <2>1, StoreUnchanged DEF store
  <2>2. CASE bead' = [bead EXCEPT ![b].state = "closed"]
    <3>1. PICK r : r = [bead[b] EXCEPT !.state = "closed"]
      OBVIOUS
    <3>2. bead[b] \in BeadRecord
      BY <1>3
    <3>3. r \in BeadRecord
      BY <3>1, <3>2 DEF BeadRecord
    <3>4. bead' = [bead EXCEPT ![b] = r]
      BY <1>3, <2>2, <3>1
    <3>5. /\ r.state = "closed" /\ r.parent = bead[b].parent /\ r.rkey = bead[b].rkey
          /\ r.notes = bead[b].notes /\ r.opkey = bead[b].opkey
      BY <3>1, <3>2 DEF BeadRecord
    <3>6. bead[b].state # "absent"
      BY DEF IInv, Worker
    <3>7. r.parent = NoBead => r.opkey
      BY <1>3, <3>5, <3>6 DEF IInv, RootsCarry
    <3> QED BY <1>2, <1>3, <1>4, <3>3, <3>4, <3>5, <3>6, <3>7, TouchedLemma DEF Anchor
  <2> QED BY <1>1, <2>1, <2>2
<1>6. rows'[d] = rows[d] \ {b}
  BY <1>1 DEF IInv, TypeOK
<1>7. TypeOK'
  BY <1>1, <1>2, <1>3, <1>5 DEF IInv, TypeOK
<1>8. Anchor(canon[d])'
  <2>1. \A a \in Bead : Anchor(a) => Anchor(a)'
    BY <1>5 DEF AnchorsKept
  <2> QED BY <1>2, <1>4, <2>1 DEF Anchor, Committed
<1>9. Worker(d)'
  BY <1>2, <1>3, <1>5, <1>6, <1>8 DEF IInv, ParentsKept, Worker, Reconciling, Promoting, Anchor, Committed
<1>10. \A e \in Delivery : Worker(e)'
  BY <1>1, <1>2, <1>5, <1>9, OthersKept DEF IInv, TypeOK
<1> QED BY <1>5, <1>7, <1>10 DEF IInv, Shaped

\* Only children are stripped of the key, so roots go on carrying it.
LEMMA StripKeyInvariant ==
  ASSUME IInv, NEW d \in Delivery, StripKey(d)
  PROVE  IInv'
<1>1. PICK b : b = target[d]
  OBVIOUS
<1>2. /\ pc[d] = "strip"
      /\ pc' = [pc EXCEPT ![d] = "childNote"]
      /\ \/ bead' = [bead EXCEPT ![b].opkey = FALSE]
         \/ UNCHANGED bead
      /\ UNCHANGED <<stamp, rows, canon, seq, seen, target, reply>>
  BY <1>1 DEF StripKey, Goto, work
<1>3. b \in Bead /\ bead[b].parent # NoBead /\ bead \in [Bead -> BeadRecord]
  BY <1>1, <1>2 DEF IInv, TypeOK, Worker
<1>4. /\ bead' \in [Bead -> BeadRecord]
      /\ Shaped' /\ Histories' /\ AnchorsKept /\ ParentsKept
  <2>1. CASE UNCHANGED bead
    BY <1>2, <1>3, <2>1, StoreUnchanged DEF store
  <2>2. CASE bead' = [bead EXCEPT ![b].opkey = FALSE]
    <3>1. PICK r : r = [bead[b] EXCEPT !.opkey = FALSE]
      OBVIOUS
    <3>2. bead[b] \in BeadRecord
      BY <1>3
    <3>3. r \in BeadRecord
      BY <3>1, <3>2 DEF BeadRecord
    <3>4. bead' = [bead EXCEPT ![b] = r]
      BY <1>3, <2>2, <3>1
    <3>5. /\ r.state = bead[b].state /\ r.parent = bead[b].parent
          /\ r.rkey = bead[b].rkey /\ r.notes = bead[b].notes
      BY <3>1, <3>2 DEF BeadRecord
    <3>6. bead[b].state # "absent" /\ r.parent # NoBead
      BY <1>3, <3>5 DEF IInv, Stamps
    <3>7. Committed(b) => r.state \in {"open", "closed"}
      BY <3>5 DEF Committed
    <3> QED BY <1>2, <1>3, <3>3, <3>4, <3>5, <3>6, <3>7, TouchedLemma
  <2> QED BY <1>2, <2>1, <2>2
<1>5. TypeOK'
  BY <1>2, <1>4 DEF IInv, TypeOK, Promoting
<1>6. pc'[d] = "childNote"
  BY <1>2 DEF IInv, TypeOK
<1>7. Anchor(canon[d]) /\ seq[d] # 0 /\ rows[d] = {}
  BY <1>2 DEF IInv, Worker, Promoting
<1>8. Anchor(canon[d])'
  <2>1. \A a \in Bead : Anchor(a) => Anchor(a)'
    BY <1>4 DEF AnchorsKept
  <2> QED BY <1>2, <1>7, <2>1 DEF Anchor, Committed
<1>9. target'[d] = b /\ bead'[b].parent # NoBead
  BY <1>1, <1>2, <1>3, <1>4 DEF ParentsKept
<1>10. Worker(d)'
  BY <1>2, <1>3, <1>6, <1>7, <1>8, <1>9 DEF Worker, Reconciling, Promoting, Anchor, Committed
<1>11. \A e \in Delivery : Worker(e)'
  BY <1>2, <1>4, <1>10, OthersKept DEF IInv, TypeOK
<1> QED BY <1>4, <1>5, <1>11 DEF IInv, Shaped

-----------------------------------------------------------------------------
(* The theorems. *)

LEMMA StepInvariant == IInv /\ [Next]_vars => IInv'
<1> SUFFICES ASSUME IInv, [Next]_vars PROVE IInv'
  OBVIOUS
<1>1. CASE UNCHANGED vars
  <2>1. Shaped' /\ Histories' /\ AnchorsKept /\ ParentsKept
    BY <1>1, StoreUnchanged DEF vars
  <2>2. TypeOK'
    BY <1>1 DEF IInv, TypeOK, vars, store, work
  <2>3. \A e \in Delivery : Worker(e)'
    BY <1>1, <2>1, WorkerKept DEF vars, store, work
  <2> QED BY <2>1, <2>2, <2>3 DEF IInv, Shaped
<1>2. ASSUME NEW d \in Delivery, Submit(d) \/ Step(d) PROVE IInv'
  <2>1. CASE Submit(d) \/ FindNone(d) \/ FindSome(d)
    BY <2>1, SubmitInvariant, FindNoneInvariant, FindSomeInvariant
  <2>2. CASE StartCreate(d) \/ StartChild(d) \/ CreateReturns(d) \/ CreateFails(d)
    BY <2>2, SpawnInvariant, CreateReturnsInvariant, CreateFailsInvariant
  <2>3. CASE Recover(d) \/ RecoverNothing(d) \/ RecordFirst(d)
    BY <2>3, RecoverInvariant, RecoverNothingInvariant, RecordFirstInvariant
  <2>4. CASE Collapse(d) \/ ReadHistory(d) \/ ReadState(d)
    BY <2>4, CollapseInvariant, ReadHistoryInvariant, ReadStateInvariant
  <2>5. CASE Edit(d) \/ EditFails(d) \/ AddLabels(d) \/ AddLabelsFails(d)
    BY <2>5, EditInvariant, EditFailsInvariant
  <2>6. CASE RecordRevision(d) \/ FindChild(d) \/ StripKey(d) \/ RecordPromotion(d)
    BY <2>6, RecordRevisionInvariant, FindChildInvariant, StripKeyInvariant,
       RecordPromotionInvariant
  <2> QED BY <1>2, <2>1, <2>2, <2>3, <2>4, <2>5, <2>6 DEF Step
<1>3. ASSUME NEW b \in Bead, Land(b) PROVE IInv'
  BY <1>3, LandInvariant
<1>4. ASSUME NEW p \in Process, Crash(p) PROVE IInv'
  BY <1>4, CrashInvariant
<1> QED BY <1>1, <1>2, <1>3, <1>4 DEF Next

LEMMA Invariance == Spec => []IInv
<1> QED BY InitInvariant, StepInvariant, PTL DEF Spec

\* Every variable of runOperation and of the store keeps its type: revision
\* numbers stay positive, replies name beads of the store.
THEOREM TypeCorrect == Spec => []TypeOK
<1>1. IInv => TypeOK
  BY DEF IInv
<1> QED BY <1>1, Invariance, PTL

\* The earliest bead that carries the operation key is never closed by
\* collapseDuplicate, for any number of deliveries, processes and faults.
THEOREM CanonicalSafe == Spec => []CanonicalStaysOpen
<1>1. IInv => CanonicalStaysOpen
  <2> SUFFICES ASSUME IInv, NEW b \in Carrying, \A c \in Carrying : b <= c,
                      bead[b].state # "open"
               PROVE  FALSE
    BY DEF CanonicalStaysOpen
  <2>1. b \in Bead /\ bead[b].state = "closed"
    BY DEF Carrying, Committed
  <2>2. PICK a \in Bead : a < b /\ Anchor(a)
    BY <2>1 DEF IInv, ClosedFollow
  <2>3. a \in Carrying
    BY <2>2 DEF IInv, RootsCarry, Anchor, Carrying, Committed
  <2>4. a \in Nat /\ b \in Nat
    BY <2>1, BeadNames
  <2> QED BY <2>2, <2>3, <2>4
<1> QED BY <1>1, Invariance, PTL

-----------------------------------------------------------------------------
(* One process.  The lock then leaves one delivery at a time between its    *)
(* lookup and its answer, and what it read stays true until it writes.      *)

OneProcess == \A d, e \in Delivery : Home[d] = Home[e]
Without(kinds) == Faults \cap kinds = {}

Busy(d) == pc[d] \notin Resting
Alone == \A d, e \in Delivery : Busy(d) /\ Busy(e) => d = e

\* A bead that has not landed is somebody's who still waits for it.
Awaited ==
  \A b \in Bead : bead[b].state = "inflight" =>
    \E d \in Delivery : pc[d] \in {"creating", "childCreating"} /\ target[d] = b

OneRoot == \A a, b \in Bead : Root(a) /\ Root(b) => a = b

\* While the operation's bead is being made there are no children and no notes.
Founding(d) ==
  /\ \A b \in Bead : bead[b].parent = NoBead /\ bead[b].notes = {}
  /\ pc[d] = "first" => Anchor(target[d])
Unmade == \A d \in Delivery : pc[d] = "create" => \A b \in Bead : ~Root(b)

NotesOnAnchors == \A b \in Bead : bead[b].notes # {} => Anchor(b)
AnswersAreAnchors == \A d \in Delivery : Acknowledged(d) => Anchor(reply[d].bead)
RowsLanded == \A d \in Delivery : \A b \in rows[d] : Committed(b)

\* What the lock gives, late writes and restarts included.
LockInv ==
  /\ Alone /\ NotesOnAnchors /\ AnswersAreAnchors /\ RowsLanded
  /\ \A d \in Delivery : pc[d] \in Creating => Founding(d)

RootInv == LockInv /\ Awaited /\ OneRoot /\ Unmade

\* Every note has a number and a delivery of its own, and the number a
\* delivery is about to write is above those that are there.
Numbered ==
  \A b \in Bead : \A r, q \in bead[b].notes : r.seq = q.seq \/ r.by = q.by => r = q
NotedOnce ==
  \A d \in Delivery :
    /\ pc[d] # "done" => \A b \in Bead : \A r \in bead[b].notes : r.by # d
    /\ Acknowledged(d) => \E r \in bead[reply[d].bead].notes : r.by = d
Above(d) ==
  pc[d] \in (Reconciling \ {"collapse"}) \cup Promoting =>
    \A r \in bead[canon[d]].notes : r.seq < seq[d]

NoteInv == Numbered /\ NotedOnce /\ \A d \in Delivery : Above(d)

\* A child is made for a revision that is recorded or under way.
Kid(b) == bead[b].parent # NoBead /\ bead[b].state \notin {"absent", "lost"}
KidsAreNoted ==
  \A b \in Bead : Kid(b) =>
    \/ \E r \in bead[bead[b].parent].notes : r.seq = bead[b].rkey
    \/ \E d \in Delivery : pc[d] \in Promoting /\ seq[d] = bead[b].rkey

\* The child of the revision under way is its delivery's.
OwnKids(d) ==
  /\ pc[d] \in Promoting => \A b \in Bead : Kid(b) /\ bead[b].rkey = seq[d] =>
       /\ pc[d] # "child" /\ bead[b].parent = canon[d]
       /\ Body[d] \subseteq bead[b].body /\ bead[b].state # "closed"
  /\ pc[d] \in {"childCreating", "strip", "childNote"} =>
       Kid(target[d]) /\ bead[target[d]].rkey = seq[d]
  /\ pc[d] \in {"strip", "childNote"} => Committed(target[d])
  /\ pc[d] = "childNote" => ~bead[target[d]].opkey

\* What a delivery read of the body is what is there, until it has written its own.
Reading(d) ==
  /\ pc[d] = "edit" => seen[d].body = bead[canon[d]].body
  /\ pc[d] \in {"label", "record"} => Body[d] \subseteq bead[canon[d]].body
  /\ pc[d] \in Creating => \A b \in Bead : Root(b) => Body[d] \subseteq bead[b].body
  /\ \A b \in rows[d] : bead[b].opkey

Captured(d) ==
  Acknowledged(d) =>
    IF reply[d].as = "promoted"
    THEN \E b \in Bead :
           /\ bead[b].parent = reply[d].bead /\ bead[b].state = "open" /\ ~bead[b].opkey
           /\ Body[d] \subseteq bead[b].body
    ELSE Body[d] \subseteq bead[reply[d].bead].body

TextInv == KidsAreNoted /\ \A d \in Delivery : OwnKids(d) /\ Reading(d) /\ Captured(d)

-----------------------------------------------------------------------------
(* What a step changes: the acting delivery's own state, and the beads.     *)

Others(d) ==
  \A e \in Delivery \ {d} :
    /\ pc'[e] = pc[e] /\ rows'[e] = rows[e] /\ canon'[e] = canon[e] /\ seq'[e] = seq[e]
    /\ seen'[e] = seen[e] /\ target'[e] = target[e] /\ reply'[e] = reply[e]

\* What the acting delivery holds besides its place.
Holds(d) ==
  /\ rows'[d] = rows[d] /\ canon'[d] = canon[d] /\ seq'[d] = seq[d]
  /\ seen'[d] = seen[d] /\ reply'[d] = reply[d]

\* It has answered and holds nothing.
Answered(d, b, as) ==
  /\ pc'[d] = "done" /\ rows'[d] = {} /\ canon'[d] = NoBead
  /\ reply'[d] = [bead |-> b, as |-> as]

LEMMA AnswerDoes ==
  ASSUME TypeOK, NEW d \in Delivery, NEW b, NEW as, Answer(d, b, as)
  PROVE  Answered(d, b, as) /\ Others(d)
BY DEF TypeOK, Answer, Answered, Others

LEMMA QuietDoes ==
  ASSUME TypeOK, NEW d \in Delivery
  PROVE  /\ Submit(d) => bead' = bead /\ Others(d) /\ Holds(d)
              /\ pc[d] = "idle" /\ pc'[d] = "waiting"
         /\ FindNone(d) => bead' = bead /\ Others(d) /\ Holds(d)
              /\ pc[d] = "waiting" /\ pc'[d] = "create"
         /\ FindSome(d) => bead' = bead /\ Others(d) /\ reply'[d] = reply[d]
              /\ pc[d] = "waiting" /\ pc'[d] = "collapse" /\ rows'[d] \subseteq Carrying
         /\ CreateReturns(d) => bead' = bead /\ Others(d) /\ Holds(d) /\ target' = target
              /\ Committed(target[d])
              /\ \/ pc[d] = "creating" /\ pc'[d] = "first"
                 \/ pc[d] = "childCreating" /\ pc'[d] = "strip"
         /\ Recover(d) => bead' = bead /\ Others(d) /\ Holds(d)
              /\ target'[d] = CanonicalOf(Recoverable(d)) /\ Recoverable(d) # {}
              /\ \/ pc[d] = "recover" /\ pc'[d] = "first"
                 \/ pc[d] = "childRecover" /\ pc'[d] = "strip"
         /\ RecoverNothing(d) => bead' = bead /\ Others(d) /\ Answered(d, NoBead, "error")
              /\ pc[d] \in {"recover", "childRecover"}
<1>1. Submit(d) => bead' = bead /\ Others(d) /\ Holds(d) /\ pc[d] = "idle" /\ pc'[d] = "waiting"
  BY DEF TypeOK, Submit, Goto, store, work, Others, Holds
<1>2. FindNone(d) => bead' = bead /\ Others(d) /\ Holds(d) /\ pc[d] = "waiting" /\ pc'[d] = "create"
  BY DEF TypeOK, FindNone, Goto, store, work, Others, Holds
<1>3. FindSome(d) => bead' = bead /\ Others(d) /\ reply'[d] = reply[d]
        /\ pc[d] = "waiting" /\ pc'[d] = "collapse" /\ rows'[d] \subseteq Carrying
  BY DEF TypeOK, FindSome, FindByKey, MayFailToFind, Goto, store, Others
<1>4. CreateReturns(d) => bead' = bead /\ Others(d) /\ Holds(d) /\ target' = target
        /\ Committed(target[d])
        /\ \/ pc[d] = "creating" /\ pc'[d] = "first"
           \/ pc[d] = "childCreating" /\ pc'[d] = "strip"
  BY DEF TypeOK, CreateReturns, Goto, store, work, Others, Holds
<1>5. Recover(d) => bead' = bead /\ Others(d) /\ Holds(d)
        /\ target'[d] = CanonicalOf(Recoverable(d)) /\ Recoverable(d) # {}
        /\ \/ pc[d] = "recover" /\ pc'[d] = "first"
           \/ pc[d] = "childRecover" /\ pc'[d] = "strip"
  BY DEF TypeOK, Recover, Goto, store, Others, Holds
<1>6. RecoverNothing(d) => bead' = bead /\ Others(d) /\ Answered(d, NoBead, "error")
        /\ pc[d] \in {"recover", "childRecover"}
  BY AnswerDoes DEF RecoverNothing, Fail, store
<1> QED BY <1>1, <1>2, <1>3, <1>4, <1>5, <1>6, Zenon

LEMMA ReadDoes ==
  ASSUME TypeOK, NEW d \in Delivery
  PROVE  /\ ReadHistory(d) => bead' = bead /\ Others(d) /\ reply'[d] = reply[d] /\ canon'[d] = canon[d]
              /\ rows'[d] = {} /\ pc[d] = "collapse" /\ pc'[d] = "state"
         /\ ReadState(d) => bead' = bead /\ Others(d) /\ reply'[d] = reply[d] /\ canon'[d] = canon[d]
              /\ rows'[d] = rows[d] /\ seq'[d] = seq[d] /\ pc[d] = "state"
              /\ pc'[d] = AfterRead(seen'[d], d)
         /\ FindChild(d) => bead' = bead /\ Others(d) /\ Holds(d) /\ pc[d] = "promote"
              /\ \/ pc'[d] = "child"
                 \/ \E found \in FindByChildKey(seq[d]) \ {{}} :
                      pc'[d] = "childNote" /\ target'[d] = CanonicalOf(found)
<1>1. ReadHistory(d) => bead' = bead /\ Others(d) /\ reply'[d] = reply[d] /\ canon'[d] = canon[d]
        /\ rows'[d] = {} /\ pc[d] = "collapse" /\ pc'[d] = "state"
  BY DEF TypeOK, ReadHistory, Goto, store, Others
<1>2. ReadState(d) => bead' = bead /\ Others(d) /\ reply'[d] = reply[d] /\ canon'[d] = canon[d]
        /\ rows'[d] = rows[d] /\ seq'[d] = seq[d] /\ pc[d] = "state"
        /\ pc'[d] = AfterRead(seen'[d], d)
  BY DEF TypeOK, ReadState, Goto, store, Others
<1>3. FindChild(d) => bead' = bead /\ Others(d) /\ Holds(d) /\ pc[d] = "promote"
        /\ \/ pc'[d] = "child"
           \/ \E found \in FindByChildKey(seq[d]) \ {{}} :
                pc'[d] = "childNote" /\ target'[d] = CanonicalOf(found)
  BY DEF TypeOK, FindChild, Goto, store, Others, Holds
<1> QED BY <1>1, <1>2, <1>3, Zenon

LEMMA SpawnDoes ==
  ASSUME IInv, NEW d \in Delivery, StartCreate(d) \/ StartChild(d)
  PROVE  /\ Others(d) /\ Holds(d) /\ stamp \in Bead /\ target'[d] = stamp
         /\ bead[stamp].state = "absent"
         /\ \A b \in Bead : bead'[b] = IF b = stamp THEN NewBead(d, pc[d] = "child") ELSE bead[b]
         /\ \/ pc[d] = "create" /\ pc'[d] = "creating"
            \/ pc[d] = "child" /\ pc'[d] = "childCreating"
<1>1. stamp \in Bead
  BY DEF StartCreate, StartChild, Spawn
<1>2. bead[stamp].state = "absent"
  <2>1. stamp >= stamp
    BY <1>1, BeadNames
  <2> QED BY <1>1, <2>1 DEF IInv, Stamps
<1>3. CASE StartCreate(d)
  BY <1>1, <1>2, <1>3 DEF IInv, TypeOK, StartCreate, Spawn, Goto, Others, Holds
<1>4. CASE StartChild(d)
  BY <1>1, <1>2, <1>4 DEF IInv, TypeOK, StartChild, Spawn, Goto, Others, Holds
<1> QED BY <1>3, <1>4

LEMMA LandDoes ==
  ASSUME IInv, NEW b \in Bead, Land(b)
  PROVE  /\ UNCHANGED <<pc, rows, canon, seq, seen, target, reply>>
         /\ \A c \in Bead \ {b} : bead'[c] = bead[c]
         /\ bead[b].state = "inflight" /\ bead'[b].state = "open"
         /\ bead'[b].parent = bead[b].parent /\ bead'[b].rkey = bead[b].rkey
         /\ bead'[b].body = bead[b].body /\ bead'[b].notes = bead[b].notes
<1>1. bead \in [Bead -> BeadRecord] /\ bead[b] \in BeadRecord
  BY DEF IInv, TypeOK
<1>2. PICK h : h = Inherited(b)
  OBVIOUS
<1>3. PICK r : r = [bead[b] EXCEPT !.state = "open",
                                   !.opkey = @ \/ h.opkey,
                                   !.labels = @ \cup h.labels]
  OBVIOUS
<1>4. /\ bead[b].state = "inflight"
      /\ bead' = [bead EXCEPT ![b] = r]
      /\ UNCHANGED <<pc, rows, canon, seq, seen, target, reply>>
  BY <1>1, <1>2, <1>3 DEF Land, work
<1>5. /\ r.state = "open" /\ r.parent = bead[b].parent /\ r.rkey = bead[b].rkey
      /\ r.body = bead[b].body /\ r.notes = bead[b].notes
  BY <1>1, <1>3 DEF BeadRecord
<1> QED BY <1>1, <1>4, <1>5

LEMMA CreateFailsDoes ==
  ASSUME IInv, NEW d \in Delivery, CreateFails(d)
  PROVE  /\ Others(d) /\ Holds(d) /\ target[d] \in Bead
         /\ \A b \in Bead \ {target[d]} : bead'[b] = bead[b]
         /\ bead'[target[d]].parent = bead[target[d]].parent
         /\ bead'[target[d]].rkey = bead[target[d]].rkey
         /\ bead'[target[d]].body = bead[target[d]].body
         /\ bead'[target[d]].notes = bead[target[d]].notes
         /\ \/ bead'[target[d]] = bead[target[d]]
            \/ bead[target[d]].state = "inflight" /\ bead'[target[d]].state = "lost"
         /\ Fails("late") \/ bead'[target[d]].state # "inflight"
         /\ \/ pc[d] = "creating" /\ pc'[d] = "recover"
            \/ pc[d] = "childCreating" /\ pc'[d] = "childRecover"
<1>1. target[d] \in Bead /\ bead \in [Bead -> BeadRecord] /\ bead[target[d]] \in BeadRecord
  BY DEF IInv, TypeOK, Worker, CreateFails
<1>2. /\ Others(d) /\ Holds(d)
      /\ \/ pc[d] = "creating" /\ pc'[d] = "recover"
         \/ pc[d] = "childCreating" /\ pc'[d] = "childRecover"
  BY DEF IInv, TypeOK, CreateFails, Goto, Others, Holds
<1>3. CASE Committed(target[d]) /\ UNCHANGED bead
  BY <1>1, <1>2, <1>3 DEF Committed
<1>4. CASE bead[target[d]].state = "inflight" /\ bead' = [bead EXCEPT ![target[d]].state = "lost"]
  BY <1>1, <1>2, <1>4 DEF BeadRecord
<1>5. CASE bead[target[d]].state = "inflight" /\ Fails("late") /\ UNCHANGED bead
  BY <1>1, <1>2, <1>5
<1> QED BY <1>3, <1>4, <1>5 DEF CreateFails

\* A note is written, or fails.
Noted(d, c, n) ==
  /\ \A b \in Bead \ {c} : bead'[b] = bead[b]
  /\ bead'[c].state = bead[c].state /\ bead'[c].parent = bead[c].parent
  /\ bead'[c].rkey = bead[c].rkey /\ bead'[c].opkey = bead[c].opkey
  /\ bead'[c].body = bead[c].body
  /\ bead'[c].notes = bead[c].notes \cup {n} \/ (Fails("note") /\ bead'[c].notes = bead[c].notes)

LEMMA RecordDoes ==
  ASSUME TypeOK, NEW d \in Delivery, NEW c \in Bead, NEW n, Record(d, c, n)
  PROVE  Noted(d, c, n)
<1>1. bead \in [Bead -> BeadRecord] /\ bead[c] \in BeadRecord
  BY DEF TypeOK
<1> QED BY <1>1 DEF Record, Noted, BeadRecord

LEMMA NotesDo ==
  ASSUME IInv, NEW d \in Delivery
  PROVE  /\ RecordFirst(d) =>
              /\ pc[d] = "first" /\ target[d] \in Bead /\ Others(d)
              /\ Answered(d, target[d], "created")
              /\ Noted(d, target[d], Note(d, 1, "create"))
         /\ RecordRevision(d) =>
              /\ pc[d] = "record" /\ canon[d] \in Bead /\ Anchor(canon[d]) /\ Others(d)
              /\ Answered(d, canon[d], Mode(d)) /\ Mode(d) \in {"revision", "duplicate"}
              /\ Noted(d, canon[d], Note(d, seq[d], Mode(d)))
         /\ RecordPromotion(d) =>
              /\ pc[d] = "childNote" /\ canon[d] \in Bead /\ Anchor(canon[d]) /\ Others(d)
              /\ Answered(d, canon[d], "promoted")
              /\ Noted(d, canon[d], Note(d, seq[d], "child"))
<1>1. TypeOK /\ Worker(d)
  BY DEF IInv
<1>2. /\ pc[d] = "first" => target[d] \in Bead
      /\ pc[d] \in {"record", "childNote"} => canon[d] \in Bead /\ Anchor(canon[d])
  BY <1>1 DEF Worker, Reconciling, Promoting, Anchor
<1>3. RecordFirst(d) => pc[d] = "first" /\ Answer(d, target[d], "created")
                        /\ Record(d, target[d], Note(d, 1, "create"))
  BY DEF RecordFirst
<1>4. RecordRevision(d) => pc[d] = "record" /\ Answer(d, canon[d], Mode(d))
                           /\ Record(d, canon[d], Note(d, seq[d], Mode(d)))
  BY DEF RecordRevision
<1>5. RecordPromotion(d) => pc[d] = "childNote" /\ Answer(d, canon[d], "promoted")
                            /\ Record(d, canon[d], Note(d, seq[d], "child"))
  BY DEF RecordPromotion
<1>6. Mode(d) \in {"revision", "duplicate"}
  BY DEF Mode
<1> QED BY <1>1, <1>2, <1>3, <1>4, <1>5, <1>6, RecordDoes, AnswerDoes

LEMMA CollapseDoes ==
  ASSUME IInv, NEW d \in Delivery, Collapse(d)
  PROVE  /\ pc[d] = "collapse" /\ pc' = pc /\ Others(d) /\ reply'[d] = reply[d]
         /\ \E b \in rows[d] :
              /\ b \in Bead /\ rows'[d] = rows[d] \ {b}
              /\ \A c \in Bead \ {b} : bead'[c] = bead[c]
              /\ bead'[b].parent = bead[b].parent /\ bead'[b].rkey = bead[b].rkey
              /\ bead'[b].opkey = bead[b].opkey /\ bead[b].state # "absent"
              /\ bead'[b].body = bead[b].body /\ bead'[b].notes = bead[b].notes
              /\ bead'[b].state \in {bead[b].state, "closed"}
<1>1. PICK b \in rows[d] : /\ rows' = [rows EXCEPT ![d] = @ \ {b}]
                           /\ bead' = [bead EXCEPT ![b].state = "closed"] \/ bead' = bead
  BY DEF Collapse
<1>2. b \in Bead /\ bead \in [Bead -> BeadRecord] /\ bead[b] \in BeadRecord
  BY DEF IInv, TypeOK
<1>3. bead[b].state # "absent"
  BY DEF IInv, Worker
<1>4. pc[d] = "collapse" /\ pc' = pc /\ Others(d) /\ reply'[d] = reply[d] /\ rows'[d] = rows[d] \ {b}
  BY <1>1 DEF IInv, TypeOK, Collapse, Others
<1>5. /\ \A c \in Bead \ {b} : bead'[c] = bead[c]
      /\ bead'[b].parent = bead[b].parent /\ bead'[b].rkey = bead[b].rkey
      /\ bead'[b].opkey = bead[b].opkey
      /\ bead'[b].body = bead[b].body /\ bead'[b].notes = bead[b].notes
      /\ bead'[b].state \in {bead[b].state, "closed"}
  BY <1>1, <1>2 DEF BeadRecord
<1> QED BY <1>2, <1>3, <1>4, <1>5

\* Only the canonical bead's title, body and labels are written.
Written(d) ==
  \A b \in Bead :
    /\ bead'[b].state = bead[b].state /\ bead'[b].parent = bead[b].parent
    /\ bead'[b].rkey = bead[b].rkey /\ bead'[b].opkey = bead[b].opkey
    /\ bead'[b].notes = bead[b].notes
    /\ b # canon[d] => bead'[b].body = bead[b].body

LEMMA EditDoes ==
  ASSUME IInv, NEW d \in Delivery
  PROVE  /\ Edit(d) => /\ pc[d] = "edit" /\ Others(d) /\ Holds(d) /\ Written(d)
                       /\ pc'[d] \in {"label", "record"}
                       /\ bead'[canon[d]].body = IF BodyChanged(seen[d], d)
                                                 THEN MergeBody(seen[d], d) ELSE bead[canon[d]].body
         /\ AddLabels(d) => /\ pc[d] = "label" /\ pc'[d] = "record" /\ Others(d) /\ Holds(d)
                            /\ Written(d) /\ bead'[canon[d]].body = bead[canon[d]].body
         /\ EditFails(d) =>
              /\ pc[d] = "edit" /\ Others(d) /\ Answered(d, NoBead, "error") /\ Written(d)
              /\ \/ bead'[canon[d]].body = bead[canon[d]].body
                 \/ bead'[canon[d]].body = IF BodyChanged(seen[d], d)
                                           THEN MergeBody(seen[d], d) ELSE bead[canon[d]].body
         /\ AddLabelsFails(d) =>
              /\ pc[d] = "label" /\ Others(d) /\ Answered(d, NoBead, "error") /\ Written(d)
              /\ bead'[canon[d]].body = bead[canon[d]].body
<1>1. TypeOK /\ bead \in [Bead -> BeadRecord]
  BY DEF IInv, TypeOK
<1>2. pc[d] \in {"edit", "label"} => canon[d] \in Bead /\ bead[canon[d]] \in BeadRecord
  BY <1>1 DEF IInv, Worker, Reconciling, Anchor
<1>3. ASSUME canon[d] \in Bead, bead[canon[d]] \in BeadRecord
      PROVE  /\ bead' = bead => Written(d)
             /\ bead' = LabelledBead(d) => Written(d) /\ bead'[canon[d]].body = bead[canon[d]].body
             /\ bead' = EditedBead(d) => Written(d) /\
                  bead'[canon[d]].body = IF BodyChanged(seen[d], d)
                                         THEN MergeBody(seen[d], d) ELSE bead[canon[d]].body
  <2>1. bead' = bead => Written(d)
    BY DEF Written
  <2>2. bead' = LabelledBead(d) => Written(d) /\ bead'[canon[d]].body = bead[canon[d]].body
    BY <1>1, <1>3 DEF Written, LabelledBead, BeadRecord
  <2>3. ASSUME bead' = EditedBead(d)
        PROVE Written(d) /\ bead'[canon[d]].body = IF BodyChanged(seen[d], d)
                                         THEN MergeBody(seen[d], d) ELSE bead[canon[d]].body
    BY <1>1, <1>3, <2>3 DEF Written, EditedBead, BeadRecord
  <2> QED BY <2>1, <2>2, <2>3
<1>4. Edit(d) => pc[d] = "edit" /\ Others(d) /\ Holds(d) /\ bead' = EditedBead(d)
                 /\ pc'[d] \in {"label", "record"}
  BY <1>1 DEF TypeOK, Edit, Goto, AfterEdit, work, Others, Holds
<1>5. AddLabels(d) => pc[d] = "label" /\ pc'[d] = "record" /\ Others(d) /\ Holds(d)
                      /\ bead' = LabelledBead(d)
  BY <1>1 DEF TypeOK, AddLabels, Goto, work, Others, Holds
<1>6. EditFails(d) => pc[d] = "edit" /\ Others(d) /\ Answered(d, NoBead, "error")
                      /\ (bead' = bead \/ bead' = EditedBead(d))
  BY <1>1, AnswerDoes DEF EditFails, Fail
<1>7. AddLabelsFails(d) => pc[d] = "label" /\ Others(d) /\ Answered(d, NoBead, "error")
                           /\ (bead' = bead \/ bead' = LabelledBead(d))
  BY <1>1, AnswerDoes DEF AddLabelsFails, Fail
<1>8. Edit(d) => /\ pc[d] = "edit" /\ Others(d) /\ Holds(d) /\ Written(d)
                 /\ pc'[d] \in {"label", "record"}
                 /\ bead'[canon[d]].body = IF BodyChanged(seen[d], d)
                                           THEN MergeBody(seen[d], d) ELSE bead[canon[d]].body
  BY <1>2, <1>3, <1>4
<1>9. AddLabels(d) => /\ pc[d] = "label" /\ pc'[d] = "record" /\ Others(d) /\ Holds(d)
                      /\ Written(d) /\ bead'[canon[d]].body = bead[canon[d]].body
  BY <1>2, <1>3, <1>5
<1>10. EditFails(d) =>
         /\ pc[d] = "edit" /\ Others(d) /\ Answered(d, NoBead, "error") /\ Written(d)
         /\ \/ bead'[canon[d]].body = bead[canon[d]].body
            \/ bead'[canon[d]].body = IF BodyChanged(seen[d], d)
                                      THEN MergeBody(seen[d], d) ELSE bead[canon[d]].body
  BY <1>2, <1>3, <1>6
<1>11. AddLabelsFails(d) =>
         /\ pc[d] = "label" /\ Others(d) /\ Answered(d, NoBead, "error") /\ Written(d)
         /\ bead'[canon[d]].body = bead[canon[d]].body
  BY <1>2, <1>3, <1>7
<1> QED BY <1>8, <1>9, <1>10, <1>11, Zenon

LEMMA StripDoes ==
  ASSUME IInv, NEW d \in Delivery, StripKey(d)
  PROVE  /\ pc[d] = "strip" /\ pc'[d] = "childNote" /\ Others(d) /\ Holds(d) /\ target' = target
         /\ target[d] \in Bead
         /\ \A b \in Bead \ {target[d]} : bead'[b] = bead[b]
         /\ bead'[target[d]].state = bead[target[d]].state
         /\ bead'[target[d]].parent = bead[target[d]].parent
         /\ bead'[target[d]].rkey = bead[target[d]].rkey
         /\ bead'[target[d]].body = bead[target[d]].body
         /\ bead'[target[d]].notes = bead[target[d]].notes
         /\ ~bead'[target[d]].opkey \/ Fails("strip")
<1>1. target[d] \in Bead /\ bead \in [Bead -> BeadRecord] /\ bead[target[d]] \in BeadRecord
  BY DEF IInv, TypeOK, Worker, StripKey
<1>2. pc[d] = "strip" /\ pc'[d] = "childNote" /\ Others(d) /\ Holds(d) /\ target' = target
  BY DEF IInv, TypeOK, StripKey, Goto, work, Others, Holds
<1>3. CASE bead' = [bead EXCEPT ![target[d]].opkey = FALSE]
  BY <1>1, <1>2, <1>3 DEF BeadRecord
<1>4. CASE Fails("strip") /\ UNCHANGED bead
  BY <1>1, <1>2, <1>4
<1> QED BY <1>3, <1>4 DEF StripKey

\* What stays of a bead once it has been created.
Stays ==
  \A b \in Bead : bead[b].state # "absent" =>
    /\ bead'[b].parent = bead[b].parent /\ bead'[b].rkey = bead[b].rkey
    /\ bead'[b].state # "absent" /\ (Committed(b) => Committed(b)')

LEMMA StepStays ==
  ASSUME IInv, NEW d \in Delivery, Step(d)
  PROVE  Stays /\ Others(d)
<1>t. TypeOK
  BY DEF IInv
<1>1. CASE FindNone(d) \/ FindSome(d) \/ CreateReturns(d) \/ Recover(d) \/ RecoverNothing(d)
  BY <1>1, <1>t, QuietDoes DEF Stays, Committed
<1>2. CASE ReadHistory(d) \/ ReadState(d) \/ FindChild(d)
  BY <1>2, <1>t, ReadDoes DEF Stays, Committed
<1>3. CASE StartCreate(d) \/ StartChild(d)
  BY <1>3, SpawnDoes DEF Stays, Committed
<1>4. CASE CreateFails(d)
  BY <1>4, CreateFailsDoes DEF Stays, Committed
<1>5. CASE RecordFirst(d) \/ RecordRevision(d) \/ RecordPromotion(d)
  BY <1>5, NotesDo DEF Stays, Committed, Noted
<1>6. CASE Collapse(d)
  BY <1>6, CollapseDoes DEF Stays, Committed
<1>7. CASE Edit(d) \/ EditFails(d) \/ AddLabels(d) \/ AddLabelsFails(d)
  BY <1>7, EditDoes DEF Stays, Committed, Written
<1>8. CASE StripKey(d)
  BY <1>8, StripDoes DEF Stays, Committed
<1> QED BY <1>1, <1>2, <1>3, <1>4, <1>5, <1>6, <1>7, <1>8 DEF Step

\* The lock: whoever takes a step, nobody else is past the lookup.
LEMMA OnlyOne ==
  ASSUME OneProcess, TypeOK, Alone, NEW d \in Delivery, Step(d)
  PROVE  \A e \in Delivery \ {d} : pc[e] \in Resting
<1>1. CASE FindNone(d) \/ FindSome(d)
  BY <1>1 DEF FindNone, FindSome, LockFree, OneProcess, Resting
<1>2. CASE Busy(d)
  BY <1>2 DEF Alone, Busy
<1>3. Busy(d) \/ FindNone(d) \/ FindSome(d)
  BY DEF Step, StartCreate, StartChild, CreateReturns, CreateFails, Recover, RecoverNothing,
         RecordFirst, Collapse, ReadHistory, ReadState, Edit, EditFails, AddLabels,
         AddLabelsFails, RecordRevision, FindChild, StripKey, RecordPromotion, Busy, Resting
<1> QED BY <1>1, <1>2, <1>3

LEMMA AnchorStays ==
  ASSUME Stays, NEW b, Anchor(b)
  PROVE  Anchor(b)'
BY DEF Stays, Anchor, Committed

\* One step of a delivery, in what LockInv speaks of.
LEMMA LockFrame ==
  ASSUME IInv, LockInv, NEW d \in Delivery, Others(d), Stays,
         \A e \in Delivery \ {d} : pc[e] \in Resting,
         \A b \in Bead : bead'[b].notes # {} => bead[b].notes # {} \/ Anchor(b),
         pc'[d] \in Creating => Founding(d)',
         \A b \in rows'[d] : b \in rows[d] \/ Committed(b)',
         Acknowledged(d)' => Anchor(reply[d].bead)'
  PROVE  LockInv'
<1>1. \A e \in Delivery \ {d} : pc'[e] \in Resting /\ reply'[e] = reply[e]
  BY DEF Others
<1>2. Alone'
  BY <1>1 DEF Alone, Busy
<1>3. NotesOnAnchors'
  <2> SUFFICES ASSUME NEW b \in Bead, bead'[b].notes # {} PROVE Anchor(b)'
    BY DEF NotesOnAnchors
  <2>1. Anchor(b)
    BY DEF LockInv, NotesOnAnchors
  <2> QED BY <2>1, AnchorStays
<1>4. AnswersAreAnchors'
  <2> SUFFICES ASSUME NEW e \in Delivery, Acknowledged(e)' PROVE Anchor(reply[e].bead)'
    BY DEF AnswersAreAnchors
  <2>1. CASE e # d
    <3>1. PICK r : r = reply[e].bead
      OBVIOUS
    <3>2. Anchor(r) /\ reply'[e].bead = r
      BY <1>1, <2>1, <3>1 DEF LockInv, AnswersAreAnchors, Acknowledged
    <3>3. Anchor(r)'
      BY <3>2, AnchorStays
    <3> QED BY <3>2, <3>3 DEF Anchor, Committed
  <2> QED BY <2>1
<1>5. \A e \in Delivery : pc'[e] \in Creating => Founding(e)'
  <2> SUFFICES ASSUME NEW e \in Delivery, e # d, pc'[e] \in Creating PROVE FALSE
    OBVIOUS
  <2> QED BY <1>1 DEF Creating, Resting
<1>6. RowsLanded'
  <2> SUFFICES ASSUME NEW e \in Delivery, NEW b \in rows'[e] PROVE Committed(b)'
    BY DEF RowsLanded
  <2>1. b \in rows[e] \/ Committed(b)'
    BY DEF Others
  <2>2. CASE b \in rows[e]
    <3>1. Committed(b) /\ b \in Bead
      BY <2>2 DEF LockInv, RowsLanded, IInv, TypeOK
    <3> QED BY <3>1 DEF Stays, Committed
  <2> QED BY <2>1, <2>2
<1> QED BY <1>2, <1>3, <1>4, <1>5, <1>6 DEF LockInv

\* The same answer is about a bead that is still there.
LEMMA SameAnswer ==
  ASSUME LockInv, Stays, NEW d \in Delivery, reply'[d] = reply[d], Acknowledged(d)'
  PROVE  Anchor(reply[d].bead)'
<1>1. PICK r : r = reply[d].bead
  OBVIOUS
<1>2. Anchor(r) /\ reply'[d].bead = r
  BY <1>1 DEF LockInv, AnswersAreAnchors, Acknowledged
<1>3. Anchor(r)'
  BY <1>2, AnchorStays
<1> QED BY <1>2, <1>3 DEF Anchor, Committed

\* A lookup that finds nothing found that there is nothing.
LEMMA FindNoneLock ==
  ASSUME Without({"find"}), IInv, LockInv, NEW d \in Delivery, FindNone(d),
         \A e \in Delivery \ {d} : pc[e] \in Resting
  PROVE  LockInv' /\ \A b \in Bead : ~Anchor(b) /\ bead[b].parent = NoBead
<1>1. /\ bead' = bead /\ Others(d) /\ Holds(d) /\ Stays /\ pc'[d] = "create"
  BY QuietDoes, StepStays DEF IInv, Step
<1>2. Carrying = {}
  BY DEF FindNone, FindByKey, MayFailToFind, Fails, Without
<1>3. \A b \in Bead : ~Anchor(b)
  BY <1>2 DEF IInv, RootsCarry, Anchor, Committed, Carrying
<1>4. \A b \in Bead : bead[b].parent = NoBead
  BY <1>3 DEF IInv, ChildrenFollow, Anchor
<1>5. \A b \in Bead : bead[b].notes = {}
  BY <1>3 DEF LockInv, NotesOnAnchors
<1>6. Founding(d)'
  BY <1>1, <1>4, <1>5 DEF Founding
<1>7. Acknowledged(d)' => Anchor(reply[d].bead)'
  BY <1>1, SameAnswer DEF Holds
<1>8. LockInv'
  BY <1>1, <1>5, <1>6, <1>7, LockFrame DEF Holds
<1> QED BY <1>3, <1>4, <1>8

\* A step that leaves the store alone and goes on with the same answer.
LEMMA QuietLock ==
  ASSUME IInv, LockInv, NEW d \in Delivery, bead' = bead, Others(d), reply'[d] = reply[d],
         \A e \in Delivery \ {d} : pc[e] \in Resting,
         \A b \in rows'[d] : b \in rows[d] \/ Committed(b)',
         pc'[d] \in Creating => pc[d] \in Creating /\ pc'[d] = "first" /\ Anchor(target[d])'
  PROVE  LockInv'
<1>1. Stays
  BY DEF Stays, Committed
<1>2. Acknowledged(d)' => Anchor(reply[d].bead)'
  BY <1>1, SameAnswer
<1>3. pc'[d] \in Creating => Founding(d)'
  BY DEF LockInv, Founding
<1> QED BY <1>1, <1>2, <1>3, LockFrame

\* What is recovered for the operation is made for it: there are no children.
LEMMA RecoveredRoot ==
  ASSUME IInv, LockInv, NEW d \in Delivery, pc[d] = "recover", Recoverable(d) # {}
  PROVE  Anchor(CanonicalOf(Recoverable(d)))
<1>1. CanonicalOf(Recoverable(d)) \in Recoverable(d)
  BY CanonicalOfProperty DEF Recoverable, Carrying, CarryingChildKey
<1>2. Founding(d)
  BY DEF LockInv, Creating
<1> QED BY <1>1, <1>2 DEF Recoverable, Carrying, Anchor, Founding

LEMMA ReadLock ==
  ASSUME IInv, LockInv, NEW d \in Delivery,
         FindSome(d) \/ CreateReturns(d) \/ Recover(d) \/ ReadHistory(d) \/ ReadState(d) \/ FindChild(d),
         \A e \in Delivery \ {d} : pc[e] \in Resting
  PROVE  LockInv'
<1>t. TypeOK
  BY DEF IInv
<1>1. CASE FindSome(d)
  BY <1>1, <1>t, QuietDoes, QuietLock DEF Creating, Carrying, Committed
<1>2. CASE CreateReturns(d)
  <2>1. bead' = bead /\ Others(d) /\ Holds(d) /\ target' = target /\ Committed(target[d])
        /\ \/ pc[d] = "creating" /\ pc'[d] = "first"
           \/ pc[d] = "childCreating" /\ pc'[d] = "strip"
    BY <1>2, <1>t, QuietDoes
  <2>2. pc'[d] = "first" => Anchor(target[d])'
    <3> SUFFICES ASSUME pc'[d] = "first" PROVE Anchor(target[d])'
      OBVIOUS
    <3>1. Founding(d) /\ target[d] \in Bead
      BY <2>1 DEF LockInv, Creating, IInv, Worker
    <3> QED BY <2>1, <3>1 DEF Founding, Anchor, Committed
  <2> QED BY <2>1, <2>2, QuietLock DEF Creating, Holds
<1>3. CASE Recover(d)
  <2>1. bead' = bead /\ Others(d) /\ Holds(d)
        /\ target'[d] = CanonicalOf(Recoverable(d)) /\ Recoverable(d) # {}
        /\ \/ pc[d] = "recover" /\ pc'[d] = "first"
           \/ pc[d] = "childRecover" /\ pc'[d] = "strip"
    BY <1>3, <1>t, QuietDoes
  <2>2. pc'[d] = "first" => Anchor(target[d])'
    <3>1. PICK r : r = CanonicalOf(Recoverable(d))
      OBVIOUS
    <3> SUFFICES ASSUME pc'[d] = "first" PROVE Anchor(target[d])'
      OBVIOUS
    <3>2. Anchor(r) /\ target'[d] = r
      BY <2>1, <3>1, RecoveredRoot
    <3> QED BY <2>1, <3>2 DEF Anchor, Committed
  <2> QED BY <2>1, <2>2, QuietLock DEF Creating, Holds
<1>4. CASE ReadHistory(d)
  BY <1>4, <1>t, ReadDoes, QuietLock DEF Creating
<1>5. CASE ReadState(d)
  <2>1. pc'[d] \notin Creating
    BY <1>5, <1>t, ReadDoes DEF Creating, AfterRead, AfterEdit
  <2> QED BY <1>5, <1>t, <2>1, ReadDoes, QuietLock
<1>6. CASE FindChild(d)
  BY <1>6, <1>t, ReadDoes, QuietLock DEF Creating, Holds
<1> QED BY <1>1, <1>2, <1>3, <1>4, <1>5, <1>6

\* A new bead has no notes, and no parent when it is the operation's.
LEMMA SpawnLock ==
  ASSUME IInv, LockInv, NEW d \in Delivery, StartCreate(d) \/ StartChild(d),
         \A e \in Delivery \ {d} : pc[e] \in Resting
  PROVE  /\ LockInv'
         /\ stamp \in Bead /\ target'[d] = stamp /\ \A b \in Bead \ {stamp} : bead'[b] = bead[b]
         /\ \/ pc[d] = "create" /\ pc'[d] = "creating"
            \/ pc[d] = "child" /\ pc'[d] = "childCreating" /\ bead'[stamp].parent # NoBead
<1>1. /\ Others(d) /\ Holds(d) /\ stamp \in Bead /\ target'[d] = stamp
      /\ \A b \in Bead : bead'[b] = IF b = stamp THEN NewBead(d, pc[d] = "child") ELSE bead[b]
      /\ \/ pc[d] = "create" /\ pc'[d] = "creating"
         \/ pc[d] = "child" /\ pc'[d] = "childCreating"
  BY SpawnDoes
<1>2. Stays
  BY StepStays DEF Step
<1>3. /\ bead'[stamp].parent = canon[d] /\ bead'[stamp].notes = {}
      /\ \A b \in Bead \ {stamp} : bead'[b] = bead[b]
  BY <1>1 DEF NewBead
<1>4. /\ pc[d] = "create" => canon[d] = NoBead
      /\ pc[d] = "child" => canon[d] # NoBead
  BY BeadNames DEF IInv, Worker, Anchor, Reconciling, Promoting
<1>5. pc'[d] \in Creating => Founding(d)'
  <2> SUFFICES ASSUME pc'[d] \in Creating PROVE Founding(d)'
    OBVIOUS
  <2>1. pc[d] = "create" /\ pc'[d] = "creating"
    BY <1>1 DEF Creating
  <2>2. Founding(d)
    BY <2>1 DEF LockInv, Creating
  <2> QED BY <1>3, <1>4, <2>1, <2>2 DEF Founding
<1>6. Acknowledged(d)' => Anchor(reply[d].bead)'
  BY <1>1, <1>2, SameAnswer DEF Holds
<1>7. LockInv'
  BY <1>1, <1>2, <1>3, <1>5, <1>6, LockFrame DEF Holds
<1> QED BY <1>1, <1>3, <1>4, <1>7

\* A step that makes no bead.
LEMMA WriteLock ==
  ASSUME IInv, LockInv, NEW d \in Delivery, Others(d), Stays, rows'[d] \subseteq rows[d],
         \A e \in Delivery \ {d} : pc[e] \in Resting,
         \A b \in Bead : /\ bead'[b].parent = bead[b].parent
                         /\ bead'[b].notes # {} => bead[b].notes # {} \/ Anchor(b),
         pc'[d] \in Creating => /\ pc[d] \in Creating /\ pc'[d] = "recover"
                                /\ \A b \in Bead : bead'[b].notes = bead[b].notes,
         Acknowledged(d)' => Anchor(reply[d].bead)'
  PROVE  LockInv'
<1>1. pc'[d] \in Creating => Founding(d)'
  BY DEF LockInv, Founding
<1> QED BY <1>1, LockFrame

LEMMA FailedLock ==
  ASSUME IInv, LockInv, NEW d \in Delivery, CreateFails(d) \/ RecoverNothing(d),
         \A e \in Delivery \ {d} : pc[e] \in Resting
  PROVE  LockInv'
<1>1. Stays
  BY StepStays DEF Step
<1>2. CASE CreateFails(d)
  <2>1. PICK t : t = target[d]
    OBVIOUS
  <2>2. /\ Others(d) /\ Holds(d) /\ t \in Bead
        /\ \A b \in Bead \ {t} : bead'[b] = bead[b]
        /\ bead'[t].parent = bead[t].parent /\ bead'[t].notes = bead[t].notes
        /\ \/ pc[d] = "creating" /\ pc'[d] = "recover"
           \/ pc[d] = "childCreating" /\ pc'[d] = "childRecover"
    BY <1>2, <2>1, CreateFailsDoes
  <2>3. Acknowledged(d)' => Anchor(reply[d].bead)'
    BY <1>1, <2>2, SameAnswer DEF Holds
  <2>4. \A b \in Bead : bead'[b].parent = bead[b].parent /\ bead'[b].notes = bead[b].notes
    BY <2>2
  <2> QED BY <1>1, <2>2, <2>3, <2>4, WriteLock DEF Creating, Holds
<1>3. CASE RecoverNothing(d)
  <2>1. bead' = bead /\ Others(d) /\ Answered(d, NoBead, "error")
    BY <1>3, QuietDoes DEF IInv
  <2> QED BY <1>1, <2>1, WriteLock DEF Answered, Acknowledged, Successful, Creating
<1> QED BY <1>2, <1>3

LEMMA NotedLock ==
  ASSUME IInv, LockInv, NEW d \in Delivery,
         RecordFirst(d) \/ RecordRevision(d) \/ RecordPromotion(d),
         \A e \in Delivery \ {d} : pc[e] \in Resting
  PROVE  LockInv'
<1>1. Stays
  BY StepStays DEF Step
<1>2. PICK c, n, as :
        /\ c \in Bead /\ Noted(d, c, n) /\ Answered(d, c, as) /\ Others(d) /\ Anchor(c)
  <2>1. pc[d] = "first" => Anchor(target[d])
    BY DEF LockInv, Creating, Founding
  <2>2. CASE RecordFirst(d)
    BY <2>1, <2>2, NotesDo
  <2>3. CASE RecordRevision(d) \/ RecordPromotion(d)
    BY <2>3, NotesDo
  <2> QED BY <2>2, <2>3
<1>3. \A b \in Bead : /\ bead'[b].parent = bead[b].parent
                      /\ b # c => bead'[b].notes = bead[b].notes
  BY <1>2 DEF Noted
<1>4. Anchor(c)'
  BY <1>1, <1>2, AnchorStays
<1>5. reply'[d].bead = c /\ pc'[d] \notin Creating /\ rows'[d] = {}
  BY <1>2 DEF Answered, Creating
<1>6. Acknowledged(d)' => Anchor(reply[d].bead)'
  BY <1>4, <1>5 DEF Anchor, Committed
<1> QED BY <1>1, <1>2, <1>3, <1>5, <1>6, WriteLock

LEMMA WrittenLock ==
  ASSUME IInv, LockInv, NEW d \in Delivery,
         Collapse(d) \/ Edit(d) \/ EditFails(d) \/ AddLabels(d) \/ AddLabelsFails(d) \/ StripKey(d),
         \A e \in Delivery \ {d} : pc[e] \in Resting
  PROVE  LockInv'
<1>1. Stays
  BY StepStays DEF Step
<1>2. CASE Collapse(d)
  <2>1. PICK c \in rows[d] :
          /\ c \in Bead /\ rows'[d] = rows[d] \ {c}
          /\ \A b \in Bead \ {c} : bead'[b] = bead[b]
          /\ bead'[c].parent = bead[c].parent /\ bead'[c].notes = bead[c].notes
    BY <1>2, CollapseDoes
  <2>2. pc[d] = "collapse" /\ pc' = pc /\ Others(d) /\ reply'[d] = reply[d]
    BY <1>2, CollapseDoes
  <2>3. Acknowledged(d)' => Anchor(reply[d].bead)'
    BY <1>1, <2>2, SameAnswer
  <2>4. \A b \in Bead : bead'[b].parent = bead[b].parent /\ bead'[b].notes = bead[b].notes
    BY <2>1
  <2> QED BY <1>1, <2>1, <2>2, <2>3, <2>4, WriteLock DEF Creating
<1>3. CASE Edit(d) \/ EditFails(d) \/ AddLabels(d) \/ AddLabelsFails(d)
  <2>1. /\ Others(d) /\ Written(d)
        /\ \/ Holds(d) /\ pc'[d] \in {"label", "record"}
           \/ Answered(d, NoBead, "error")
    BY <1>3, EditDoes
  <2>2. Acknowledged(d)' => Anchor(reply[d].bead)'
    BY <1>1, <2>1, SameAnswer DEF Holds, Answered, Acknowledged, Successful
  <2>3. \A b \in Bead : bead'[b].parent = bead[b].parent /\ bead'[b].notes = bead[b].notes
    BY <2>1 DEF Written
  <2>4. pc'[d] \notin Creating /\ rows'[d] \subseteq rows[d]
    BY <2>1 DEF Holds, Answered, Creating
  <2> QED BY <1>1, <2>1, <2>2, <2>3, <2>4, WriteLock
<1>4. CASE StripKey(d)
  <2>1. PICK t : t = target[d]
    OBVIOUS
  <2>2. /\ pc'[d] = "childNote" /\ Others(d) /\ Holds(d) /\ t \in Bead
        /\ \A b \in Bead \ {t} : bead'[b] = bead[b]
        /\ bead'[t].parent = bead[t].parent /\ bead'[t].notes = bead[t].notes
    BY <1>4, <2>1, StripDoes
  <2>3. Acknowledged(d)' => Anchor(reply[d].bead)'
    BY <1>1, <2>2, SameAnswer DEF Holds
  <2>4. \A b \in Bead : bead'[b].parent = bead[b].parent /\ bead'[b].notes = bead[b].notes
    BY <2>2
  <2> QED BY <1>1, <2>2, <2>3, <2>4, WriteLock DEF Creating, Holds
<1> QED BY <1>2, <1>3, <1>4

\* Arrivals, landings, restarts and stuttering: a delivery goes on as it was
\* or ends with an error.
Passive(e) ==
  \/ /\ pc'[e] = pc[e] \/ (pc[e] = "idle" /\ pc'[e] = "waiting")
     /\ rows'[e] = rows[e] /\ canon'[e] = canon[e] /\ seq'[e] = seq[e]
     /\ target'[e] = target[e] /\ reply'[e] = reply[e]
  \/ pc'[e] = "done" /\ rows'[e] = {} /\ ~Acknowledged(e)'

NoDelivery ==
  \/ \E d \in Delivery : Submit(d)
  \/ \E b \in Bead : Land(b)
  \/ \E p \in Process : Crash(p)
  \/ UNCHANGED vars

LEMMA PassiveDoes ==
  ASSUME IInv, NoDelivery
  PROVE  /\ Stays /\ \A e \in Delivery : Passive(e)
         /\ \A b \in Bead : bead'[b].parent = bead[b].parent /\ bead'[b].notes = bead[b].notes
<1>1. ASSUME NEW d \in Delivery, Submit(d)
      PROVE  bead' = bead /\ \A e \in Delivery : Passive(e)
  BY <1>1 DEF IInv, TypeOK, Submit, Goto, store, work, Passive
<1>2. ASSUME NEW b \in Bead, Land(b)
      PROVE  /\ Stays /\ \A e \in Delivery : Passive(e)
             /\ \A c \in Bead : bead'[c].parent = bead[c].parent /\ bead'[c].notes = bead[c].notes
  BY <1>2, LandDoes DEF Stays, Committed, Passive
<1>3. ASSUME NEW p \in Process, Crash(p)
      PROVE  bead' = bead /\ \A e \in Delivery : Passive(e)
  <2> DEFINE here == {d \in Delivery : Home[d] = p /\ pc[d] \notin {"idle", "done"}}
  <2>1. /\ pc' = [d \in Delivery |-> IF d \in here THEN "done" ELSE pc[d]]
        /\ reply' = [d \in Delivery |->
                       IF d \in here THEN [bead |-> NoBead, as |-> "crashed"] ELSE reply[d]]
        /\ rows' = [d \in Delivery |-> IF d \in here THEN {} ELSE rows[d]]
        /\ canon' = [d \in Delivery |-> IF d \in here THEN NoBead ELSE canon[d]]
        /\ seq' = [d \in Delivery |-> IF d \in here THEN 0 ELSE seq[d]]
        /\ target' = [d \in Delivery |-> IF d \in here THEN NoBead ELSE target[d]]
        /\ bead' = bead
    BY <1>3 DEF Crash, store
  <2> HIDE DEF here
  <2> QED BY <2>1 DEF Passive, Acknowledged, Successful
<1>4. CASE UNCHANGED vars
  BY <1>4 DEF Stays, Committed, Passive, vars, store, work
<1>5. bead' = bead => Stays
  BY DEF Stays, Committed
<1> QED BY <1>1, <1>2, <1>3, <1>4, <1>5 DEF NoDelivery, vars, store

LEMMA PassiveLock ==
  ASSUME IInv, LockInv, NoDelivery
  PROVE  LockInv'
<1>1. /\ Stays /\ \A e \in Delivery : Passive(e)
      /\ \A b \in Bead : bead'[b].parent = bead[b].parent /\ bead'[b].notes = bead[b].notes
  BY PassiveDoes
<1>2. Alone'
  BY <1>1 DEF LockInv, Alone, Busy, Resting, Passive
<1>3. NotesOnAnchors'
  <2> SUFFICES ASSUME NEW b \in Bead, bead'[b].notes # {} PROVE Anchor(b)'
    BY DEF NotesOnAnchors
  <2>1. Anchor(b)
    BY <1>1 DEF LockInv, NotesOnAnchors
  <2> QED BY <1>1, <2>1, AnchorStays
<1>4. AnswersAreAnchors'
  <2> SUFFICES ASSUME NEW e \in Delivery, Acknowledged(e)' PROVE Anchor(reply[e].bead)'
    BY DEF AnswersAreAnchors
  <2> QED BY <1>1, SameAnswer DEF Passive
<1>5. RowsLanded'
  <2> SUFFICES ASSUME NEW e \in Delivery, NEW b \in rows'[e] PROVE Committed(b)'
    BY DEF RowsLanded
  <2>1. b \in rows[e]
    BY <1>1 DEF Passive
  <2>2. b \in Bead /\ Committed(b)
    BY <2>1 DEF IInv, TypeOK, LockInv, RowsLanded
  <2> QED BY <1>1, <2>2 DEF Stays, Committed
<1>6. ASSUME NEW e \in Delivery, pc'[e] \in Creating PROVE Founding(e)'
  <2>1. pc'[e] = pc[e] /\ target'[e] = target[e]
    BY <1>1, <1>6 DEF Passive, Creating
  <2>2. Founding(e)
    BY <1>6, <2>1 DEF LockInv
  <2>3. pc'[e] = "first" => Anchor(target[e])'
    <3> SUFFICES ASSUME pc'[e] = "first" PROVE Anchor(target[e])'
      OBVIOUS
    <3>1. PICK t : t = target[e]
      OBVIOUS
    <3>2. Anchor(t) /\ target'[e] = t
      BY <2>1, <2>2, <3>1 DEF Founding
    <3>3. Anchor(t)'
      BY <1>1, <3>2, AnchorStays
    <3> QED BY <3>2, <3>3 DEF Anchor, Committed
  <2> QED BY <1>1, <2>1, <2>2, <2>3 DEF Founding
<1> QED BY <1>2, <1>3, <1>4, <1>5, <1>6 DEF LockInv

LEMMA LockInit == Init => LockInv
<1> SUFFICES ASSUME Init PROVE LockInv
  OBVIOUS
<1>1. \A b \in Bead : bead[b].notes = {}
  BY DEF Init, Absent
<1>2. \A d \in Delivery : pc[d] = "idle" /\ rows[d] = {} /\ ~Acknowledged(d)
  BY DEF Init, NoReply, Acknowledged, Successful
<1> QED BY <1>1, <1>2 DEF LockInv, Alone, Busy, Resting, NotesOnAnchors, AnswersAreAnchors,
                          RowsLanded, Creating

LEMMA LockStep ==
  OneProcess /\ Without({"find"}) /\ IInv /\ LockInv /\ [Next]_vars => LockInv'
<1> SUFFICES ASSUME OneProcess, Without({"find"}), IInv, LockInv, [Next]_vars
             PROVE  LockInv'
  OBVIOUS
<1>1. ASSUME NEW d \in Delivery, Step(d) PROVE LockInv'
  <2>1. \A e \in Delivery \ {d} : pc[e] \in Resting
    BY <1>1, OnlyOne DEF IInv, LockInv
  <2> QED BY <1>1, <2>1, FindNoneLock, ReadLock, SpawnLock, FailedLock, NotedLock, WrittenLock DEF Step
<1>2. CASE NoDelivery
  BY <1>2, PassiveLock
<1> QED BY <1>1, <1>2 DEF Next, NoDelivery

-----------------------------------------------------------------------------
(* One bead. *)

\* Only the acting delivery can be waiting for a bead.
LEMMA AwaitedHere ==
  ASSUME RootInv, NEW d \in Delivery, \A e \in Delivery \ {d} : pc[e] \in Resting,
         NEW b \in Bead, bead[b].state = "inflight"
  PROVE  pc[d] \in {"creating", "childCreating"} /\ target[d] = b
BY DEF RootInv, Awaited, Resting

\* A step that makes no bead and leaves none under way.
LEMMA RootFrame ==
  ASSUME RootInv, LockInv', NEW d \in Delivery, Others(d), pc'[d] # "create",
         \A e \in Delivery \ {d} : pc[e] \in Resting,
         \A b \in Bead : bead'[b].state # "inflight" /\ (Root(b)' => Root(b))
  PROVE  RootInv'
<1>1. \A e \in Delivery : pc'[e] # "create"
  BY DEF Others, Resting
<1> QED BY <1>1 DEF RootInv, Awaited, OneRoot, Unmade

LEMMA FindNoneRoots ==
  ASSUME Without({"find"}), IInv, RootInv, LockInv', NEW d \in Delivery, FindNone(d),
         \A e \in Delivery \ {d} : pc[e] \in Resting
  PROVE  RootInv'
<1>1. bead' = bead /\ pc[d] = "waiting"
  BY QuietDoes DEF IInv
<1>2. \A b \in Bead : bead[b].state # "inflight"
  BY <1>1, AwaitedHere
<1>3. \A b \in Bead : ~Anchor(b) /\ bead[b].parent = NoBead
  BY FindNoneLock DEF RootInv
<1>4. \A b \in Bead : ~Root(b)
  <2> SUFFICES ASSUME NEW b \in Bead, Root(b) PROVE FALSE
    OBVIOUS
  <2>1. bead[b].state \in {"open", "closed"}
    BY <1>2 DEF IInv, TypeOK, BeadRecord, Root
  <2> QED BY <1>3, <2>1 DEF Anchor, Committed
<1> QED BY <1>1, <1>2, <1>4 DEF RootInv, Awaited, OneRoot, Unmade, Root

\* A new bead is the operation's only when there was none.
LEMMA SpawnRoots ==
  ASSUME IInv, RootInv, LockInv', NEW d \in Delivery, StartCreate(d) \/ StartChild(d),
         \A e \in Delivery \ {d} : pc[e] \in Resting
  PROVE  RootInv'
<1>1. /\ stamp \in Bead /\ target'[d] = stamp /\ \A b \in Bead \ {stamp} : bead'[b] = bead[b]
      /\ \/ pc[d] = "create" /\ pc'[d] = "creating"
         \/ pc[d] = "child" /\ pc'[d] = "childCreating" /\ bead'[stamp].parent # NoBead
  BY SpawnLock DEF RootInv
<1>2. \A b \in Bead : bead[b].state # "inflight"
  BY <1>1, AwaitedHere
<1>3. Awaited'
  BY <1>1, <1>2 DEF Awaited
<1>4. OneRoot'
  BY <1>1 DEF RootInv, OneRoot, Unmade, Root
<1>5. Unmade'
  <2>1. Others(d)
    BY SpawnDoes
  <2> QED BY <1>1, <2>1 DEF Unmade, Others, Resting
<1> QED BY <1>3, <1>4, <1>5 DEF RootInv

\* Without late writes, a failed create leaves nothing under way.
LEMMA OtherRoots ==
  ASSUME Without({"late"}), IInv, RootInv, LockInv', NEW d \in Delivery, Step(d),
         ~FindNone(d), ~StartCreate(d), ~StartChild(d),
         \A e \in Delivery \ {d} : pc[e] \in Resting
  PROVE  RootInv'
<1>t. TypeOK /\ Others(d)
  BY StepStays DEF IInv
<1>1. \A b \in Bead : bead[b].state = "inflight" =>
        pc[d] \in {"creating", "childCreating"} /\ target[d] = b
  BY AwaitedHere
<1>2. CASE FindSome(d) \/ CreateReturns(d) \/ Recover(d) \/ RecoverNothing(d)
  <2>1. /\ bead' = bead /\ pc'[d] # "create"
        /\ pc[d] \in {"creating", "childCreating"} => Committed(target[d])
    BY <1>t, <1>2, QuietDoes DEF Answered
  <2> QED BY <1>t, <1>1, <2>1, RootFrame DEF Root, Committed
<1>3. CASE ReadHistory(d) \/ ReadState(d) \/ FindChild(d)
  <2>1. bead' = bead /\ pc'[d] # "create" /\ pc[d] \notin {"creating", "childCreating"}
    BY <1>t, <1>3, ReadDoes DEF AfterRead, AfterEdit
  <2> QED BY <1>t, <1>1, <2>1, RootFrame DEF Root
<1>4. CASE CreateFails(d)
  <2>1. PICK t : t = target[d]
    OBVIOUS
  <2>2. /\ t \in Bead /\ \A b \in Bead \ {t} : bead'[b] = bead[b]
        /\ bead'[t].parent = bead[t].parent
        /\ bead'[t] = bead[t] \/ (bead[t].state = "inflight" /\ bead'[t].state = "lost")
        /\ bead'[t].state # "inflight" /\ pc'[d] # "create"
    BY <1>4, <2>1, CreateFailsDoes DEF Fails, Without
  <2>3. \A b \in Bead : bead'[b].state # "inflight" /\ (Root(b)' => Root(b))
    BY <1>1, <2>1, <2>2 DEF Root
  <2> QED BY <1>t, <2>2, <2>3, RootFrame
<1>5. CASE RecordFirst(d) \/ RecordRevision(d) \/ RecordPromotion(d)
  <2>1. /\ \A b \in Bead : bead'[b].state = bead[b].state /\ bead'[b].parent = bead[b].parent
        /\ pc'[d] # "create" /\ pc[d] \notin {"creating", "childCreating"}
    BY <1>5, NotesDo DEF Noted, Answered
  <2> QED BY <1>t, <1>1, <2>1, RootFrame DEF Root
<1>6. CASE Collapse(d)
  <2>1. PICK c \in rows[d] :
          /\ c \in Bead /\ \A b \in Bead \ {c} : bead'[b] = bead[b]
          /\ bead'[c].parent = bead[c].parent /\ bead'[c].state \in {bead[c].state, "closed"}
    BY <1>6, CollapseDoes
  <2>2. pc[d] = "collapse" /\ pc' = pc
    BY <1>6, CollapseDoes
  <2>3. Committed(c)
    BY <2>1 DEF RootInv, LockInv, RowsLanded
  <2>4. \A b \in Bead : bead'[b].state # "inflight" /\ (Root(b)' => Root(b))
    BY <1>1, <2>1, <2>2, <2>3 DEF Root, Committed
  <2> QED BY <1>t, <2>2, <2>4, RootFrame
<1>7. CASE Edit(d) \/ EditFails(d) \/ AddLabels(d) \/ AddLabelsFails(d)
  <2>1. /\ \A b \in Bead : bead'[b].state = bead[b].state /\ bead'[b].parent = bead[b].parent
        /\ pc'[d] # "create" /\ pc[d] \notin {"creating", "childCreating"}
    BY <1>7, EditDoes DEF Written, Answered
  <2> QED BY <1>t, <1>1, <2>1, RootFrame DEF Root
<1>8. CASE StripKey(d)
  <2>1. /\ \A b \in Bead : bead'[b].state = bead[b].state /\ bead'[b].parent = bead[b].parent
        /\ pc'[d] # "create" /\ pc[d] \notin {"creating", "childCreating"}
    BY <1>8, StripDoes
  <2> QED BY <1>t, <1>1, <2>1, RootFrame DEF Root
<1> QED BY <1>2, <1>3, <1>4, <1>5, <1>6, <1>7, <1>8 DEF Step

\* Arrivals and landings make no bead and end no wait.
LEMMA PassiveRoots ==
  ASSUME IInv, RootInv, LockInv',
         (\E d \in Delivery : Submit(d)) \/ (\E b \in Bead : Land(b)) \/ UNCHANGED vars
  PROVE  RootInv'
<1>1. /\ \A b \in Bead : /\ Root(b)' => Root(b)
                         /\ bead'[b].state = "inflight" => bead[b].state = "inflight"
      /\ target' = target
      /\ \A e \in Delivery : pc'[e] = pc[e] \/ (pc[e] = "idle" /\ pc'[e] = "waiting")
  <2>1. ASSUME NEW d \in Delivery, Submit(d)
        PROVE  /\ bead' = bead /\ target' = target
               /\ \A e \in Delivery : pc'[e] = pc[e] \/ (pc[e] = "idle" /\ pc'[e] = "waiting")
    BY <2>1 DEF IInv, TypeOK, Submit, Goto, store, work
  <2>2. ASSUME NEW b \in Bead, Land(b)
        PROVE  /\ \A c \in Bead : /\ Root(c)' => Root(c)
                                  /\ bead'[c].state = "inflight" => bead[c].state = "inflight"
               /\ target' = target /\ pc' = pc
    BY <2>2, LandDoes DEF Root
  <2>3. CASE UNCHANGED vars
    BY <2>3 DEF vars, store, work, Root
  <2> QED BY <2>1, <2>2, <2>3 DEF Root
<1>2. Awaited'
  <2> SUFFICES ASSUME NEW b \in Bead, bead'[b].state = "inflight"
               PROVE  \E d \in Delivery : pc'[d] \in {"creating", "childCreating"} /\ target'[d] = b
    BY DEF Awaited
  <2>1. PICK d \in Delivery : pc[d] \in {"creating", "childCreating"} /\ target[d] = b
    BY <1>1 DEF RootInv, Awaited
  <2> QED BY <1>1, <2>1
<1>3. OneRoot' /\ Unmade'
  BY <1>1 DEF RootInv, OneRoot, Unmade
<1> QED BY <1>2, <1>3 DEF RootInv

LEMMA RootInit == Init => RootInv
<1> SUFFICES ASSUME Init PROVE RootInv
  OBVIOUS
<1>1. \A b \in Bead : bead[b].state = "absent"
  BY DEF Init, Absent
<1> QED BY <1>1, LockInit DEF RootInv, Awaited, OneRoot, Unmade, Root

LEMMA RootStep ==
  OneProcess /\ Without({"find", "late", "crash"}) /\ IInv /\ RootInv /\ [Next]_vars => RootInv'
<1> SUFFICES ASSUME OneProcess, Without({"find", "late", "crash"}), IInv, RootInv, [Next]_vars
             PROVE  RootInv'
  OBVIOUS
<1>1. Without({"find"}) /\ Without({"late"}) /\ ~Fails("crash") /\ LockInv
  BY DEF Without, Fails, RootInv
<1>2. LockInv'
  BY <1>1, LockStep
<1>3. ASSUME NEW d \in Delivery, Step(d) PROVE RootInv'
  <2>1. \A e \in Delivery \ {d} : pc[e] \in Resting
    BY <1>1, <1>3, OnlyOne DEF IInv, LockInv
  <2> QED BY <1>1, <1>2, <1>3, <2>1, FindNoneRoots, SpawnRoots, OtherRoots
<1> QED BY <1>1, <1>2, <1>3, PassiveRoots DEF Next, Crash

\* OneBead: with one process, however its deliveries interleave and whatever
\* reads and writes fail, createOperationBead makes one bead for an operation
\* id and answers every caller with it.  What is ruled out are a lookup that
\* fails silently, a create that commits after its caller gave up, and a
\* restart while a create is under way: each of the three breaks it.
THEOREM OneBeadSafe ==
  ASSUME OneProcess, Without({"find", "late", "crash"})
  PROVE  Spec => []OneBead
<1>1. IInv /\ RootInv => OneBead
  <2> SUFFICES ASSUME IInv, RootInv PROVE OneBead
    OBVIOUS
  <2>1. \A b \in Bead : Anchor(b) => Root(b)
    BY DEF Anchor, Root, Committed
  <2>2. ASSUME NEW d \in Delivery, NEW e \in Delivery, Acknowledged(d), Acknowledged(e)
        PROVE  reply[d].bead = reply[e].bead
    <3>1. Anchor(reply[d].bead) /\ Anchor(reply[e].bead)
      BY <2>2 DEF RootInv, LockInv, AnswersAreAnchors
    <3> QED BY <2>1, <3>1 DEF Anchor, RootInv, OneRoot
  <2> QED BY <2>2 DEF OneBead, RootInv, OneRoot
<1>2. RootInv /\ IInv /\ [Next]_vars => RootInv'
  BY RootStep
<1> QED BY <1>1, <1>2, RootInit, Invariance, PTL DEF Spec

-----------------------------------------------------------------------------
(* One note a delivery. *)

\* The places at which a revision's number has been chosen.
Numbering == (Reconciling \ {"collapse"}) \cup Promoting

\* One step of a delivery that writes no note.
LEMMA NoteFrame ==
  ASSUME IInv, LockInv, NoteInv, NEW d \in Delivery, Others(d),
         \A e \in Delivery \ {d} : pc[e] \in Resting,
         \A b \in Bead : bead'[b].notes = bead[b].notes,
         pc[d] # "done",
         Acknowledged(d)' => Acknowledged(d) /\ reply'[d] = reply[d],
         \/ pc'[d] \notin Numbering
         \/ pc[d] \in Numbering /\ canon'[d] = canon[d] /\ seq'[d] = seq[d]
         \/ Above(d)'
  PROVE  NoteInv'
<1>1. Numbered'
  BY DEF NoteInv, Numbered
<1>2. \A e \in Delivery : Acknowledged(e)' => Acknowledged(e) /\ reply'[e] = reply[e]
  BY DEF Others, Acknowledged
<1>3. \A e \in Delivery : pc'[e] # "done" => pc[e] # "done"
  BY DEF Others
<1>4. NotedOnce'
  <2> SUFFICES ASSUME NEW e \in Delivery
               PROVE  /\ pc'[e] # "done" => \A b \in Bead : \A r \in bead'[b].notes : r.by # e
                      /\ Acknowledged(e)' => \E r \in bead'[reply'[e].bead].notes : r.by = e
    BY DEF NotedOnce
  <2>1. pc'[e] # "done" => \A b \in Bead : \A r \in bead'[b].notes : r.by # e
    BY <1>3 DEF NoteInv, NotedOnce
  <2>2. ASSUME Acknowledged(e)' PROVE \E r \in bead'[reply'[e].bead].notes : r.by = e
    <3>1. Acknowledged(e) /\ reply'[e] = reply[e]
      BY <1>2, <2>2
    <3>2. reply[e].bead \in Bead
      BY <3>1 DEF LockInv, AnswersAreAnchors, Anchor
    <3> QED BY <3>1, <3>2 DEF NoteInv, NotedOnce
  <2> QED BY <2>1, <2>2
<1>5. \A e \in Delivery \ {d} : Above(e)'
  BY DEF Others, Above, Resting, Reconciling, Promoting
<1>6. Above(d)'
  <2> SUFFICES ASSUME pc[d] \in Numbering, pc'[d] \in Numbering,
                      canon'[d] = canon[d], seq'[d] = seq[d]
               PROVE  Above(d)'
    BY DEF Above, Numbering
  <2>1. canon[d] \in Bead
    BY DEF IInv, Worker, Anchor, Numbering
  <2> QED BY <2>1 DEF NoteInv, Above, Numbering
<1> QED BY <1>1, <1>4, <1>5, <1>6 DEF NoteInv

\* The note of an answered delivery, above all others and its first.
LEMMA NoteAdded ==
  ASSUME Without({"note"}), IInv, LockInv, NoteInv, NEW d \in Delivery, Others(d),
         \A e \in Delivery \ {d} : pc[e] \in Resting,
         NEW c \in Bead, NEW n, NEW as, Noted(d, c, n), Answered(d, c, as),
         pc[d] # "done", n.by = d, n.seq \in Nat,
         \A r \in bead[c].notes : r.seq < n.seq
  PROVE  NoteInv'
<1>1. /\ bead'[c].notes = bead[c].notes \cup {n}
      /\ \A b \in Bead \ {c} : bead'[b].notes = bead[b].notes
  BY DEF Noted, Fails, Without
<1>2. \A b \in Bead : \A r \in bead[b].notes : r.by # d
  BY DEF NoteInv, NotedOnce
<1>3. \A r \in bead[c].notes : r.seq # n.seq /\ r.by # n.by
  <2> SUFFICES ASSUME NEW r \in bead[c].notes PROVE r.seq # n.seq /\ r.by # n.by
    OBVIOUS
  <2>1. r.seq \in Nat
    BY DEF IInv, TypeOK, BeadRecord, NoteRecord
  <2> QED BY <1>2, <2>1
<1>4. Numbered'
  <2>1. \A r, q \in bead'[c].notes : r.seq = q.seq \/ r.by = q.by => r = q
    BY <1>1, <1>3 DEF NoteInv, Numbered
  <2> QED BY <1>1, <2>1 DEF NoteInv, Numbered
<1>5. NotedOnce'
  <2> SUFFICES ASSUME NEW e \in Delivery
               PROVE  /\ pc'[e] # "done" => \A b \in Bead : \A r \in bead'[b].notes : r.by # e
                      /\ Acknowledged(e)' => \E r \in bead'[reply'[e].bead].notes : r.by = e
    BY DEF NotedOnce
  <2>1. CASE e = d
    BY <1>1, <2>1 DEF Answered
  <2>2. CASE e # d
    <3>1. pc'[e] = pc[e] /\ reply'[e] = reply[e]
      BY <2>2 DEF Others
    <3>2. pc'[e] # "done" => \A b \in Bead : \A r \in bead'[b].notes : r.by # e
      BY <1>1, <2>2, <3>1 DEF NoteInv, NotedOnce
    <3>3. ASSUME Acknowledged(e)' PROVE \E r \in bead'[reply'[e].bead].notes : r.by = e
      <4>1. Acknowledged(e) /\ reply[e].bead \in Bead
        BY <3>1, <3>3 DEF Acknowledged, LockInv, AnswersAreAnchors, Anchor
      <4>2. PICK r \in bead[reply[e].bead].notes : r.by = e
        BY <4>1 DEF NoteInv, NotedOnce
      <4>3. r \in bead'[reply[e].bead].notes
        BY <1>1, <4>1, <4>2
      <4> QED BY <3>1, <4>2, <4>3
    <3> QED BY <3>2, <3>3
  <2> QED BY <2>1, <2>2
<1>6. \A e \in Delivery : Above(e)'
  BY DEF Others, Answered, Above, Resting, Reconciling, Promoting
<1> QED BY <1>4, <1>5, <1>6 DEF NoteInv

LEMMA NotedNotes ==
  ASSUME Without({"note"}), IInv, LockInv, NoteInv, NEW d \in Delivery,
         RecordFirst(d) \/ RecordRevision(d) \/ RecordPromotion(d),
         \A e \in Delivery \ {d} : pc[e] \in Resting
  PROVE  NoteInv'
<1>1. /\ seq[d] \in Nat
      /\ pc[d] \in {"record", "childNote"} => \A r \in bead[canon[d]].notes : r.seq < seq[d]
      /\ pc[d] = "first" => bead[target[d]].notes = {}
  <2>1. seq[d] \in Nat
    BY DEF IInv, TypeOK
  <2>2. pc[d] \in {"record", "childNote"} => \A r \in bead[canon[d]].notes : r.seq < seq[d]
    BY DEF NoteInv, Above, Reconciling, Promoting
  <2>3. pc[d] = "first" => bead[target[d]].notes = {}
    BY DEF LockInv, Founding, Creating, Anchor
  <2> QED BY <2>1, <2>2, <2>3
<1>2. \A k, mode : Note(d, k, mode).by = d /\ Note(d, k, mode).seq = k
  BY DEF Note
<1>3. CASE RecordFirst(d)
  <2>1. /\ pc[d] = "first" /\ target[d] \in Bead /\ Others(d) /\ Answered(d, target[d], "created")
        /\ Noted(d, target[d], Note(d, 1, "create"))
    BY <1>3, NotesDo
  <2> QED BY <1>1, <1>2, <2>1, NoteAdded
<1>4. CASE RecordRevision(d)
  <2>1. /\ pc[d] = "record" /\ canon[d] \in Bead /\ Others(d) /\ Answered(d, canon[d], Mode(d))
        /\ Noted(d, canon[d], Note(d, seq[d], Mode(d)))
    BY <1>4, NotesDo
  <2> QED BY <1>1, <1>2, <2>1, NoteAdded
<1>5. CASE RecordPromotion(d)
  <2>1. /\ pc[d] = "childNote" /\ canon[d] \in Bead /\ Others(d) /\ Answered(d, canon[d], "promoted")
        /\ Noted(d, canon[d], Note(d, seq[d], "child"))
    BY <1>5, NotesDo
  <2> QED BY <1>1, <1>2, <2>1, NoteAdded
<1> QED BY <1>3, <1>4, <1>5

\* The history that was read is the one that is there.
LEMMA ReadHistoryNotes ==
  ASSUME Without({"show"}), IInv, LockInv, NoteInv, NEW d \in Delivery, ReadHistory(d),
         \A e \in Delivery \ {d} : pc[e] \in Resting
  PROVE  NoteInv'
<1>1. bead' = bead /\ Others(d) /\ reply'[d] = reply[d] /\ canon'[d] = canon[d]
      /\ pc[d] = "collapse" /\ pc'[d] = "state"
  BY ReadDoes DEF IInv
<1>2. canon[d] \in Bead
  BY <1>1 DEF IInv, Worker, Anchor, Reconciling
<1>3. seq'[d] = NextSeq(bead[canon[d]].notes)
  BY DEF ReadHistory, Fails, Without, IInv, TypeOK
<1>4. bead[canon[d]].notes \in SUBSET NoteRecord /\ HasHighest(bead[canon[d]].notes)
  BY <1>2 DEF IInv, TypeOK, BeadRecord, Histories
<1>5. Above(d)'
  BY <1>1, <1>3, <1>4, NextSeqProperty DEF Above
<1> QED BY <1>1, <1>5, NoteFrame DEF Acknowledged

LEMMA OtherNotes ==
  ASSUME IInv, LockInv, NoteInv, NEW d \in Delivery,
         \/ FindNone(d) \/ FindSome(d) \/ CreateReturns(d) \/ Recover(d) \/ RecoverNothing(d)
         \/ ReadState(d) \/ FindChild(d) \/ StartCreate(d) \/ StartChild(d) \/ CreateFails(d)
         \/ Collapse(d) \/ Edit(d) \/ EditFails(d) \/ AddLabels(d) \/ AddLabelsFails(d) \/ StripKey(d),
         \A e \in Delivery \ {d} : pc[e] \in Resting
  PROVE  NoteInv'
<1>t. TypeOK
  BY DEF IInv
<1>1. CASE FindNone(d) \/ FindSome(d) \/ CreateReturns(d) \/ Recover(d) \/ RecoverNothing(d)
  BY <1>1, <1>t, QuietDoes, NoteFrame
     DEF Numbering, Reconciling, Promoting, Holds, Answered, Acknowledged, Successful
<1>2. CASE ReadState(d) \/ FindChild(d)
  BY <1>2, <1>t, ReadDoes, NoteFrame DEF Numbering, Reconciling, Promoting, Holds, Acknowledged
<1>3. CASE StartCreate(d) \/ StartChild(d)
  <2>1. /\ Others(d) /\ Holds(d) /\ stamp \in Bead /\ bead[stamp].state = "absent"
        /\ \A b \in Bead : bead'[b] = IF b = stamp THEN NewBead(d, pc[d] = "child") ELSE bead[b]
        /\ \/ pc[d] = "create" /\ pc'[d] = "creating"
           \/ pc[d] = "child" /\ pc'[d] = "childCreating"
    BY <1>3, SpawnDoes
  <2>2. bead[stamp].notes = {}
    BY <2>1 DEF LockInv, NotesOnAnchors, Anchor, Committed
  <2>3. bead'[stamp].notes = {} /\ \A b \in Bead \ {stamp} : bead'[b] = bead[b]
    BY <2>1 DEF NewBead
  <2> QED BY <2>1, <2>2, <2>3, NoteFrame DEF Numbering, Reconciling, Promoting, Holds, Acknowledged
<1>4. CASE CreateFails(d)
  BY <1>4, CreateFailsDoes, NoteFrame DEF Numbering, Reconciling, Promoting, Holds, Acknowledged
<1>5. CASE Collapse(d)
  <2>1. PICK c \in rows[d] :
          /\ \A b \in Bead \ {c} : bead'[b] = bead[b]
          /\ bead'[c].notes = bead[c].notes
    BY <1>5, CollapseDoes
  <2>2. pc[d] = "collapse" /\ pc' = pc /\ Others(d) /\ reply'[d] = reply[d]
    BY <1>5, CollapseDoes
  <2> QED BY <2>1, <2>2, NoteFrame DEF Numbering, Reconciling, Promoting, Acknowledged
<1>6. CASE Edit(d) \/ EditFails(d) \/ AddLabels(d) \/ AddLabelsFails(d)
  BY <1>6, EditDoes, NoteFrame
     DEF Numbering, Reconciling, Promoting, Written, Holds, Answered, Acknowledged, Successful
<1>7. CASE StripKey(d)
  BY <1>7, StripDoes, NoteFrame DEF Numbering, Reconciling, Promoting, Holds, Acknowledged
<1> QED BY <1>1, <1>2, <1>3, <1>4, <1>5, <1>6, <1>7

\* Arrivals, landings and restarts leave notes, answers and numbers alone.
LEMMA PassiveNotes ==
  ASSUME IInv, LockInv, NoteInv, NoDelivery
  PROVE  NoteInv'
<1>1. \A e \in Delivery : Passive(e)
  BY PassiveDoes
<1>2. \A b \in Bead : bead'[b].notes = bead[b].notes
  BY PassiveDoes
<1>3. \A e \in Delivery : Acknowledged(e)' =>
        Acknowledged(e) /\ reply'[e] = reply[e] /\ reply[e].bead \in Bead
  BY <1>1 DEF LockInv, AnswersAreAnchors, Anchor, Acknowledged, Passive
<1>4. \A e \in Delivery : pc'[e] # "done" => pc[e] # "done"
  BY <1>1 DEF Passive
<1>5. Numbered' /\ NotedOnce'
  BY <1>2, <1>3, <1>4 DEF NoteInv, Numbered, NotedOnce
<1>6. \A e \in Delivery : pc[e] \in Numbering => canon[e] \in Bead
  BY DEF IInv, Worker, Anchor, Numbering
<1>7. \A e \in Delivery : Above(e)'
  BY <1>1, <1>2, <1>6 DEF NoteInv, Above, Numbering, Reconciling, Promoting, Passive
<1> QED BY <1>5, <1>7 DEF NoteInv

LEMMA NoteInit == Init => NoteInv
<1> SUFFICES ASSUME Init PROVE NoteInv
  OBVIOUS
<1>1. \A b \in Bead : bead[b].notes = {}
  BY DEF Init, Absent
<1>2. \A d \in Delivery : pc[d] = "idle" /\ ~Acknowledged(d)
  BY DEF Init, NoReply, Acknowledged, Successful
<1> QED BY <1>1, <1>2 DEF NoteInv, Numbered, NotedOnce, Above, Reconciling, Promoting

LEMMA NoteStep ==
  OneProcess /\ Without({"note", "show"}) /\ IInv /\ LockInv /\ NoteInv /\ [Next]_vars => NoteInv'
<1> SUFFICES ASSUME OneProcess, Without({"note", "show"}), IInv, LockInv, NoteInv, [Next]_vars
             PROVE  NoteInv'
  OBVIOUS
<1>1. ASSUME NEW d \in Delivery, Step(d) PROVE NoteInv'
  <2>1. \A e \in Delivery \ {d} : pc[e] \in Resting
    BY <1>1, OnlyOne DEF IInv, LockInv
  <2>2. Without({"note"}) /\ Without({"show"})
    BY DEF Without
  <2> QED BY <1>1, <2>1, <2>2, NotedNotes, ReadHistoryNotes, OtherNotes DEF Step
<1>2. CASE NoDelivery
  BY <1>2, PassiveNotes
<1> QED BY <1>1, <1>2 DEF Next, NoDelivery

\* EveryDeliveryRecorded: with one process and lookups, histories and notes
\* that work, every caller that was told of success has exactly one note on
\* the bead it was told of and numbers never repeat -- although creates land
\* late and the process restarts, so that there may be several beads.
THEOREM DeliveriesAreRecorded ==
  ASSUME OneProcess, Without({"find", "note", "show"})
  PROVE  Spec => []EveryDeliveryRecorded
<1>1. LockInv /\ NoteInv => EveryDeliveryRecorded
  BY DEF LockInv, AnswersAreAnchors, Anchor, NoteInv, Numbered, NotedOnce, EveryDeliveryRecorded
<1>2. LockInv /\ IInv /\ [Next]_vars => LockInv'
  BY LockStep DEF Without
<1>3. NoteInv /\ LockInv /\ IInv /\ [Next]_vars => NoteInv'
  BY NoteStep DEF Without
<1> QED BY <1>1, <1>2, <1>3, LockInit, NoteInit, Invariance, PTL DEF Spec

-----------------------------------------------------------------------------
(* The text a caller was told is kept. *)

\* Reads and recovery work, a failed create is done, and every note and
\* every removed key is written.
WritesAlone == Faults \subseteq {"create", "edit", "label", "close"}

\* What is never taken back: text, notes, and a child kept apart from the operation.
Kept ==
  \A b \in Bead :
    /\ bead[b].state # "absent" => bead[b].body \subseteq bead'[b].body
    /\ bead[b].notes \subseteq bead'[b].notes
    /\ bead[b].state = "open" /\ ~bead[b].opkey => bead'[b].state = "open" /\ ~bead'[b].opkey

LEMMA StepKept ==
  ASSUME WritesAlone, IInv, RootInv, TextInv, NEW d \in Delivery, Step(d)
  PROVE  Kept
<1>t. TypeOK
  BY DEF IInv
<1>1. CASE FindNone(d) \/ FindSome(d) \/ CreateReturns(d) \/ Recover(d) \/ RecoverNothing(d)
  BY <1>1, <1>t, QuietDoes DEF Kept
<1>2. CASE ReadHistory(d) \/ ReadState(d) \/ FindChild(d)
  BY <1>2, <1>t, ReadDoes DEF Kept
<1>3. CASE StartCreate(d) \/ StartChild(d)
  <2>1. /\ stamp \in Bead /\ bead[stamp].state = "absent"
        /\ \A b \in Bead : bead'[b] = IF b = stamp THEN NewBead(d, pc[d] = "child") ELSE bead[b]
    BY <1>3, SpawnDoes
  <2>2. bead[stamp].notes = {}
    BY <2>1 DEF RootInv, LockInv, NotesOnAnchors, Anchor, Committed
  <2> QED BY <2>1, <2>2 DEF Kept
<1>4. CASE CreateFails(d)
  BY <1>4, CreateFailsDoes DEF Kept
<1>5. CASE RecordFirst(d) \/ RecordRevision(d) \/ RecordPromotion(d)
  BY <1>5, NotesDo DEF Kept, Noted
<1>6. CASE Collapse(d)
  <2>1. PICK c \in rows[d] :
          /\ c \in Bead /\ \A b \in Bead \ {c} : bead'[b] = bead[b]
          /\ bead'[c].body = bead[c].body /\ bead'[c].notes = bead[c].notes
    BY <1>6, CollapseDoes
  <2>2. bead[c].opkey
    BY <2>1 DEF TextInv, Reading
  <2> QED BY <2>1, <2>2 DEF Kept
<1>7. CASE Edit(d) \/ EditFails(d) \/ AddLabels(d) \/ AddLabelsFails(d)
  <2>1. /\ Written(d)
        /\ \/ bead'[canon[d]].body = bead[canon[d]].body
           \/ /\ pc[d] = "edit"
              /\ bead'[canon[d]].body = IF BodyChanged(seen[d], d)
                                        THEN MergeBody(seen[d], d) ELSE bead[canon[d]].body
    BY <1>7, EditDoes
  <2>2. bead[canon[d]].body \subseteq bead'[canon[d]].body
    BY <2>1 DEF TextInv, Reading, MergeBody
  <2> QED BY <2>1, <2>2 DEF Kept, Written
<1>8. CASE StripKey(d)
  BY <1>8, StripDoes DEF Kept, WritesAlone, Fails
<1> QED BY <1>1, <1>2, <1>3, <1>4, <1>5, <1>6, <1>7, <1>8 DEF Step

LEMMA CapturedStays ==
  ASSUME IInv, RootInv, TextInv, Stays, Kept, NEW e \in Delivery, reply'[e] = reply[e]
  PROVE  Captured(e)'
<1> SUFFICES ASSUME Acknowledged(e) PROVE Captured(e)'
  BY DEF Captured, Acknowledged
<1>1. reply[e].bead \in Bead /\ bead[reply[e].bead].state # "absent"
  BY DEF RootInv, LockInv, AnswersAreAnchors, Anchor, Committed
<1>2. CASE reply[e].as = "promoted"
  <2>1. PICK b \in Bead :
          /\ bead[b].parent = reply[e].bead /\ bead[b].state = "open" /\ ~bead[b].opkey
          /\ Body[e] \subseteq bead[b].body
    BY <1>2 DEF TextInv, Captured
  <2>2. /\ bead'[b].parent = reply[e].bead /\ bead'[b].state = "open" /\ ~bead'[b].opkey
        /\ Body[e] \subseteq bead'[b].body
    BY <2>1 DEF Stays, Kept
  <2> QED BY <1>2, <2>2 DEF Captured
<1>3. CASE reply[e].as # "promoted"
  <2>1. Body[e] \subseteq bead[reply[e].bead].body
    BY <1>3 DEF TextInv, Captured
  <2>2. Body[e] \subseteq bead'[reply[e].bead].body
    BY <1>1, <2>1 DEF Kept
  <2> QED BY <1>3, <2>2 DEF Captured
<1> QED BY <1>2, <1>3

LEMMA TextFrame ==
  ASSUME IInv, RootInv, TextInv, NEW d \in Delivery, Others(d), Stays, Kept,
         \A e \in Delivery \ {d} : pc[e] \in Resting,
         KidsAreNoted', OwnKids(d)', Reading(d)', Captured(d)'
  PROVE  TextInv'
<1> SUFFICES ASSUME NEW e \in Delivery, e # d PROVE (OwnKids(e) /\ Reading(e) /\ Captured(e))'
  BY DEF TextInv
<1>1. pc'[e] \in Resting /\ rows'[e] = rows[e] /\ reply'[e] = reply[e]
  BY DEF Others
<1>2. OwnKids(e)'
  BY <1>1 DEF OwnKids, Resting, Promoting
<1>3. rows[e] = {}
  BY DEF IInv, Worker, Resting
<1>4. Reading(e)'
  BY <1>1, <1>3 DEF Reading, Resting, Creating
<1>5. Captured(e)'
  BY <1>1, CapturedStays
<1> QED BY <1>2, <1>4, <1>5

\* Who was noted stays noted, and who is on its way goes on.
LEMMA KidsFrame ==
  ASSUME IInv, TextInv, NEW d \in Delivery, Others(d), Stays, Kept,
         \A e \in Delivery \ {d} : pc[e] \in Resting,
         \A b \in Bead : Kid(b)' => Kid(b),
         pc[d] \in Promoting => pc'[d] \in Promoting /\ seq'[d] = seq[d]
  PROVE  KidsAreNoted'
<1> SUFFICES ASSUME NEW b \in Bead, Kid(b)'
             PROVE  \/ \E r \in bead'[bead'[b].parent].notes : r.seq = bead'[b].rkey
                    \/ \E e \in Delivery : pc'[e] \in Promoting /\ seq'[e] = bead'[b].rkey
  BY DEF KidsAreNoted
<1>1. Kid(b) /\ bead'[b].parent = bead[b].parent /\ bead'[b].rkey = bead[b].rkey
  BY DEF Kid, Stays
<1>2. bead[b].parent \in Bead
  BY <1>1 DEF IInv, ChildrenFollow, Anchor, Kid
<1>3. CASE \E r \in bead[bead[b].parent].notes : r.seq = bead[b].rkey
  BY <1>1, <1>2, <1>3 DEF Kept
<1>4. CASE \E e \in Delivery : pc[e] \in Promoting /\ seq[e] = bead[b].rkey
  <2>1. pc[d] \in Promoting /\ seq[d] = bead[b].rkey
    BY <1>4 DEF Resting, Promoting
  <2> QED BY <1>1, <2>1
<1> QED BY <1>1, <1>3, <1>4 DEF TextInv, KidsAreNoted

\* A step that neither begins nor continues a promotion.
LEMMA OutsideText ==
  ASSUME IInv, RootInv, TextInv, NEW d \in Delivery, Others(d), Stays, Kept,
         \A e \in Delivery \ {d} : pc[e] \in Resting,
         \A b \in Bead : Kid(b)' => Kid(b),
         pc[d] \notin Promoting, pc'[d] \notin Promoting, Reading(d)', Captured(d)'
  PROVE  TextInv'
<1>1. KidsAreNoted'
  BY KidsFrame
<1>2. OwnKids(d)'
  BY DEF OwnKids, Promoting
<1> QED BY <1>1, <1>2, TextFrame

LEMMA ReadStateText ==
  ASSUME WritesAlone, IInv, RootInv, TextInv, NEW d \in Delivery, ReadState(d)
  PROVE  Reading(d)'
<1>1. /\ bead' = bead /\ canon'[d] = canon[d] /\ rows'[d] = rows[d] /\ pc[d] = "state"
      /\ pc'[d] = AfterRead(seen'[d], d)
  BY ReadDoes DEF IInv
<1>2. seen'[d].body = bead[canon[d]].body
  BY DEF ReadState, FieldsOf, WritesAlone, Fails, IInv, TypeOK
<1>3. \/ pc'[d] = "promote"
      \/ pc'[d] = "edit"
      \/ pc'[d] \in {"label", "record"} /\ MergeBody(seen'[d], d) = seen'[d].body
  BY <1>1 DEF AfterRead, AfterEdit, BodyChanged
<1>4. \A b \in rows'[d] : bead'[b].opkey
  BY <1>1 DEF TextInv, Reading
<1>5. pc'[d] \in {"label", "record"} => Body[d] \subseteq bead'[canon'[d]].body
  BY <1>1, <1>2, <1>3 DEF MergeBody
<1> QED BY <1>1, <1>2, <1>3, <1>4, <1>5 DEF Reading, Creating

LEMMA QuietText ==
  ASSUME WritesAlone, IInv, RootInv, RootInv', TextInv, NEW d \in Delivery,
         \A e \in Delivery \ {d} : pc[e] \in Resting,
         \/ FindNone(d) \/ FindSome(d) \/ ReadHistory(d) \/ ReadState(d)
         \/ pc[d] \in Creating /\ (CreateReturns(d) \/ Recover(d) \/ RecoverNothing(d))
  PROVE  TextInv'
<1>t. TypeOK
  BY DEF IInv
<1>1. Stays /\ Others(d) /\ Kept
  BY StepStays, StepKept DEF Step
<1>2. bead' = bead /\ pc[d] \notin Promoting /\ pc'[d] \notin Promoting
  <2>1. CASE FindNone(d) \/ FindSome(d)
    BY <1>t, <2>1, QuietDoes DEF Promoting
  <2>2. CASE ReadHistory(d)
    BY <1>t, <2>2, ReadDoes DEF Promoting
  <2>3. CASE ReadState(d)
    BY <1>t, <2>3, ReadDoes DEF Promoting, AfterRead, AfterEdit
  <2>4. CASE pc[d] \in Creating /\ (CreateReturns(d) \/ Recover(d) \/ RecoverNothing(d))
    BY <1>t, <2>4, QuietDoes DEF Promoting, Creating, Answered
  <2> QED BY <2>1, <2>2, <2>3, <2>4
<1>3. pc[d] # "collapse" => rows[d] = {}
  BY DEF IInv, Worker
<1>4. Reading(d)'
  <2>1. CASE FindNone(d)
    <3>1. pc'[d] = "create" /\ rows'[d] = {}
      BY <1>t, <1>3, <2>1, QuietDoes DEF Holds
    <3>2. \A b \in Bead : ~Root(b)'
      BY <3>1 DEF RootInv, Unmade
    <3> QED BY <3>1, <3>2 DEF Reading
  <2>2. CASE FindSome(d)
    BY <1>t, <1>2, <2>2, QuietDoes DEF Reading, Carrying, Creating
  <2>3. CASE ReadHistory(d)
    BY <1>t, <2>3, ReadDoes DEF Reading, Creating
  <2>4. CASE ReadState(d)
    BY <2>4, ReadStateText
  <2>5. CASE pc[d] \in Creating /\ (CreateReturns(d) \/ Recover(d))
    <3>1. pc'[d] = "first" /\ rows'[d] = {}
      BY <1>t, <1>3, <2>5, QuietDoes DEF Holds, Creating
    <3> QED BY <1>2, <2>5, <3>1 DEF TextInv, Reading, Root
  <2>6. CASE RecoverNothing(d)
    BY <1>t, <2>6, QuietDoes DEF Reading, Creating, Answered
  <2> QED BY <2>1, <2>2, <2>3, <2>4, <2>5, <2>6
<1>5. Captured(d)'
  <2>1. CASE RecoverNothing(d)
    BY <1>t, <2>1, QuietDoes DEF Captured, Acknowledged, Successful, Answered
  <2>2. CASE ~RecoverNothing(d)
    <3>1. reply'[d] = reply[d]
      BY <1>t, <2>2, QuietDoes, ReadDoes DEF Holds
    <3> QED BY <1>1, <3>1, CapturedStays
  <2> QED BY <2>1, <2>2
<1>6. \A b \in Bead : Kid(b)' => Kid(b)
  BY <1>2 DEF Kid
<1> QED BY <1>1, <1>2, <1>4, <1>5, <1>6, OutsideText

\* Beads and text of the operation itself.
LEMMA WriteText ==
  ASSUME WritesAlone, IInv, RootInv, TextInv, NEW d \in Delivery,
         \A e \in Delivery \ {d} : pc[e] \in Resting,
         \/ StartCreate(d) \/ (pc[d] \in Creating /\ CreateFails(d)) \/ RecordFirst(d)
         \/ Collapse(d) \/ Edit(d) \/ EditFails(d) \/ AddLabels(d) \/ AddLabelsFails(d)
         \/ RecordRevision(d)
  PROVE  TextInv'
<1>1. Stays /\ Others(d) /\ Kept
  BY StepStays, StepKept DEF Step
<1>2. pc[d] # "collapse" => rows[d] = {}
  BY DEF IInv, Worker
<1>3. CASE StartCreate(d)
  <2>1. /\ Holds(d) /\ stamp \in Bead /\ pc[d] = "create" /\ pc'[d] = "creating"
        /\ \A b \in Bead : bead'[b] = IF b = stamp THEN NewBead(d, pc[d] = "child") ELSE bead[b]
    BY <1>3, SpawnDoes DEF StartCreate
  <2>2. canon[d] = NoBead
    BY <2>1 DEF IInv, Worker, Reconciling, Promoting
  <2>3. /\ bead'[stamp].parent = NoBead /\ bead'[stamp].body = Body[d]
        /\ \A b \in Bead \ {stamp} : bead'[b] = bead[b]
    BY <2>1, <2>2 DEF NewBead
  <2>4. Reading(d)'
    BY <1>2, <2>1, <2>3 DEF TextInv, Reading, Creating, Root, Holds
  <2>5. Captured(d)'
    BY <1>1, <2>1, CapturedStays DEF Holds
  <2>6. \A b \in Bead : Kid(b)' => Kid(b)
    BY <2>3 DEF Kid
  <2> QED BY <1>1, <2>1, <2>4, <2>5, <2>6, OutsideText DEF Promoting
<1>4. CASE pc[d] \in Creating /\ CreateFails(d)
  <2>1. PICK t : t = target[d]
    OBVIOUS
  <2>2. /\ Holds(d) /\ t \in Bead /\ \A b \in Bead \ {t} : bead'[b] = bead[b]
        /\ bead'[t].parent = bead[t].parent /\ bead'[t].body = bead[t].body
        /\ bead'[t] = bead[t] \/ (bead[t].state = "inflight" /\ bead'[t].state = "lost")
        /\ pc[d] = "creating" /\ pc'[d] = "recover"
    BY <1>4, <2>1, CreateFailsDoes DEF Creating
  <2>3. \A b \in Bead : (Kid(b)' => Kid(b)) /\ (Root(b)' => Root(b)) /\ bead'[b].body = bead[b].body
    BY <2>2 DEF Kid, Root
  <2>4. Reading(d)'
    BY <1>2, <2>2, <2>3 DEF TextInv, Reading, Creating, Holds
  <2>5. Captured(d)'
    BY <1>1, <2>2, CapturedStays DEF Holds
  <2> QED BY <1>1, <2>2, <2>3, <2>4, <2>5, OutsideText DEF Promoting
<1>5. CASE RecordFirst(d)
  <2>1. PICK t : t = target[d]
    OBVIOUS
  <2>2. /\ pc[d] = "first" /\ t \in Bead /\ Answered(d, t, "created")
        /\ Noted(d, t, Note(d, 1, "create"))
    BY <1>5, <2>1, NotesDo
  <2>3. Root(t)
    BY <2>1, <2>2 DEF RootInv, LockInv, Creating, Founding, Anchor, Root, Committed
  <2>4. Body[d] \subseteq bead[t].body
    BY <2>2, <2>3 DEF TextInv, Reading, Creating
  <2>5. Captured(d)'
    BY <2>2, <2>4 DEF Captured, Answered, Noted
  <2>6. Reading(d)'
    BY <2>2 DEF Reading, Creating, Answered
  <2>7. \A b \in Bead : Kid(b)' => Kid(b)
    BY <2>2 DEF Kid, Noted
  <2> QED BY <1>1, <2>2, <2>5, <2>6, <2>7, OutsideText DEF Promoting, Answered
<1>6. CASE Collapse(d)
  <2>1. PICK c \in rows[d] :
          /\ c \in Bead /\ rows'[d] = rows[d] \ {c}
          /\ \A b \in Bead \ {c} : bead'[b] = bead[b]
          /\ bead'[c].parent = bead[c].parent /\ bead'[c].opkey = bead[c].opkey
    BY <1>6, CollapseDoes
  <2>2. pc[d] = "collapse" /\ pc' = pc /\ reply'[d] = reply[d]
    BY <1>6, CollapseDoes
  <2>3. Committed(c)
    BY <2>1 DEF RootInv, LockInv, RowsLanded
  <2>4. Reading(d)'
    <3>1. rows[d] \subseteq Bead
      BY DEF IInv, TypeOK
    <3> QED BY <2>1, <2>2, <3>1 DEF TextInv, Reading, Creating
  <2>5. Captured(d)'
    BY <1>1, <2>2, CapturedStays
  <2>6. \A b \in Bead : Kid(b)' => Kid(b)
    BY <2>1, <2>3 DEF Kid, Committed
  <2> QED BY <1>1, <2>2, <2>4, <2>5, <2>6, OutsideText DEF Promoting
<1>7. CASE Edit(d) \/ EditFails(d) \/ AddLabels(d) \/ AddLabelsFails(d)
  <2>1. /\ Written(d) /\ pc[d] \in {"edit", "label"}
        /\ \/ Holds(d) /\ pc'[d] \in {"label", "record"}
           \/ Answered(d, NoBead, "error")
    BY <1>7, EditDoes
  <2>2. Holds(d) => Body[d] \subseteq bead'[canon[d]].body
    <3>1. CASE Edit(d)
      <4>1. pc[d] = "edit" /\ bead'[canon[d]].body = IF BodyChanged(seen[d], d)
                                  THEN MergeBody(seen[d], d) ELSE bead[canon[d]].body
        BY <3>1, EditDoes
      <4>2. seen[d].body = bead[canon[d]].body
        BY <4>1 DEF TextInv, Reading
      <4> QED BY <4>1, <4>2 DEF BodyChanged, MergeBody
    <3>2. CASE AddLabels(d)
      BY <3>2, EditDoes DEF TextInv, Reading
    <3>3. CASE EditFails(d) \/ AddLabelsFails(d)
      <4>1. Answered(d, NoBead, "error") /\ canon[d] # NoBead
        BY <2>1, <3>3, EditDoes, BeadNames DEF IInv, Worker, Anchor, Reconciling
      <4> QED BY <4>1 DEF Holds, Answered
    <3> QED BY <1>7, <3>1, <3>2, <3>3
  <2>3. Reading(d)'
    BY <1>2, <2>1, <2>2 DEF Reading, Creating, Holds, Answered
  <2>4. Captured(d)'
    <3>1. CASE Holds(d)
      BY <1>1, <3>1, CapturedStays DEF Holds
    <3>2. CASE Answered(d, NoBead, "error")
      BY <3>2 DEF Captured, Acknowledged, Successful, Answered
    <3> QED BY <2>1, <3>1, <3>2
  <2>5. \A b \in Bead : Kid(b)' => Kid(b)
    BY <2>1 DEF Kid, Written
  <2> QED BY <1>1, <2>1, <2>3, <2>4, <2>5, OutsideText DEF Promoting, Answered
<1>8. CASE RecordRevision(d)
  <2>1. PICK c : c = canon[d]
    OBVIOUS
  <2>2. /\ pc[d] = "record" /\ c \in Bead /\ Answered(d, c, Mode(d))
        /\ Mode(d) \in {"revision", "duplicate"}
        /\ Noted(d, c, Note(d, seq[d], Mode(d)))
    BY <1>8, <2>1, NotesDo
  <2>3. Body[d] \subseteq bead[c].body
    BY <2>1, <2>2 DEF TextInv, Reading
  <2>4. Captured(d)'
    BY <2>2, <2>3 DEF Captured, Answered, Noted
  <2>5. Reading(d)'
    BY <2>2 DEF Reading, Creating, Answered
  <2>6. \A b \in Bead : Kid(b)' => Kid(b)
    BY <2>2 DEF Kid, Noted
  <2> QED BY <1>1, <2>2, <2>4, <2>5, <2>6, OutsideText DEF Promoting, Answered
<1> QED BY <1>3, <1>4, <1>5, <1>6, <1>7, <1>8

\* The number of a revision is new, so no child carries it yet.
LEMMA NoKidYet ==
  ASSUME IInv, RootInv, NoteInv, TextInv, NEW d \in Delivery, pc[d] = "promote",
         \A e \in Delivery \ {d} : pc[e] \in Resting,
         NEW b \in Bead, Kid(b)
  PROVE  bead[b].rkey # seq[d]
<1>1. Anchor(canon[d]) /\ Anchor(bead[b].parent)
  BY DEF IInv, Worker, ChildrenFollow, Kid, Reconciling
<1>2. canon[d] = bead[b].parent
  BY <1>1 DEF RootInv, LockInv, OneRoot, Root, Anchor, Committed
<1>3. \A r \in bead[canon[d]].notes : r.seq < seq[d] /\ r.seq \in Nat
  <2>1. canon[d] \in Bead
    BY <1>1 DEF Anchor
  <2> QED BY <2>1 DEF NoteInv, Above, Reconciling, IInv, TypeOK, BeadRecord, NoteRecord
<1>4. ~ \E e \in Delivery : pc[e] \in Promoting
  BY DEF Resting, Promoting
<1>5. seq[d] \in Nat
  BY DEF IInv, TypeOK
<1>6. PICK r \in bead[canon[d]].notes : r.seq = bead[b].rkey
  BY <1>2, <1>4 DEF TextInv, KidsAreNoted
<1> QED BY <1>3, <1>5, <1>6

LEMMA FindChildText ==
  ASSUME WritesAlone, IInv, RootInv, NoteInv, TextInv, NEW d \in Delivery, FindChild(d),
         \A e \in Delivery \ {d} : pc[e] \in Resting
  PROVE  TextInv'
<1>1. Stays /\ Others(d) /\ Kept
  BY StepStays, StepKept DEF Step
<1>2. bead' = bead /\ Holds(d) /\ pc[d] = "promote"
  BY ReadDoes DEF IInv
<1>3. \A b \in Bead : Kid(b) => bead[b].rkey # seq[d]
  BY <1>2, NoKidYet
<1>4. pc'[d] = "child"
  <2>1. seq[d] # 0
    BY <1>2 DEF IInv, Worker, Reconciling
  <2>2. CarryingChildKey(seq[d]) = {}
    <3> SUFFICES ASSUME NEW b \in Bead, Committed(b), bead[b].rkey = seq[d] PROVE FALSE
      BY DEF CarryingChildKey
    <3>1. Kid(b)
      BY <2>1 DEF IInv, ChildrenFollow, Kid, Committed
    <3> QED BY <1>3, <3>1
  <2>3. FindByChildKey(seq[d]) \ {{}} = {}
    BY <2>2 DEF FindByChildKey, MayFailToFind, WritesAlone, Fails
  <2> QED BY <2>3, ReadDoes DEF IInv
<1>5. OwnKids(d)'
  BY <1>2, <1>3, <1>4 DEF OwnKids, Kid, Holds
<1>6. Reading(d)'
  BY <1>2, <1>4 DEF IInv, Worker, Reading, Creating, Holds
<1>7. Captured(d)'
  BY <1>1, <1>2, CapturedStays DEF Holds
<1>8. KidsAreNoted'
  BY <1>1, <1>2, KidsFrame DEF Kid, Promoting
<1> QED BY <1>1, <1>5, <1>6, <1>7, <1>8, TextFrame

LEMMA StartChildText ==
  ASSUME WritesAlone, IInv, RootInv, TextInv, NEW d \in Delivery, StartChild(d),
         \A e \in Delivery \ {d} : pc[e] \in Resting
  PROVE  TextInv'
<1>1. Stays /\ Others(d) /\ Kept
  BY StepStays, StepKept DEF Step
<1>2. /\ Holds(d) /\ stamp \in Bead /\ target'[d] = stamp /\ bead[stamp].state = "absent"
      /\ \A b \in Bead : bead'[b] = IF b = stamp THEN NewBead(d, pc[d] = "child") ELSE bead[b]
      /\ pc[d] = "child" /\ pc'[d] = "childCreating"
  BY SpawnDoes DEF StartChild
<1>3. /\ bead'[stamp].state = "inflight" /\ bead'[stamp].parent = canon[d]
      /\ bead'[stamp].rkey = seq[d] /\ bead'[stamp].body = Body[d]
      /\ \A b \in Bead \ {stamp} : bead'[b] = bead[b]
  BY <1>2 DEF NewBead
<1>4. canon[d] # NoBead
  BY <1>2, BeadNames DEF IInv, Worker, Anchor, Promoting
<1>5. \A b \in Bead \ {stamp} : Kid(b) => bead[b].rkey # seq[d]
  BY <1>2 DEF TextInv, OwnKids, Promoting
<1>6. OwnKids(d)'
  BY <1>2, <1>3, <1>4, <1>5 DEF OwnKids, Kid, Holds
<1>7. Reading(d)'
  BY <1>2 DEF IInv, Worker, Reading, Creating, Holds
<1>8. Captured(d)'
  BY <1>1, <1>2, CapturedStays DEF Holds
<1>9. KidsAreNoted'
  <2> SUFFICES ASSUME NEW b \in Bead, Kid(b)'
               PROVE  \/ \E r \in bead'[bead'[b].parent].notes : r.seq = bead'[b].rkey
                      \/ \E e \in Delivery : pc'[e] \in Promoting /\ seq'[e] = bead'[b].rkey
    BY DEF KidsAreNoted
  <2>1. CASE b = stamp
    BY <1>2, <1>3, <2>1 DEF Promoting, Holds
  <2>2. CASE b # stamp
    <3>1. Kid(b) /\ bead'[b] = bead[b] /\ bead[b].parent \in Bead
      BY <1>3, <2>2 DEF Kid, IInv, ChildrenFollow, Anchor
    <3>2. CASE \E r \in bead[bead[b].parent].notes : r.seq = bead[b].rkey
      BY <1>1, <3>1, <3>2 DEF Kept
    <3>3. CASE \E e \in Delivery : pc[e] \in Promoting /\ seq[e] = bead[b].rkey
      <4>1. pc[d] \in Promoting /\ seq[d] = bead[b].rkey
        BY <3>3 DEF Resting, Promoting
      <4> QED BY <1>5, <2>2, <3>1, <4>1
    <3> QED BY <3>1, <3>2, <3>3 DEF TextInv, KidsAreNoted
  <2> QED BY <2>1, <2>2
<1> QED BY <1>1, <1>6, <1>7, <1>8, <1>9, TextFrame

\* The child is there, or was lost, or is found again.
LEMMA ChildMadeText ==
  ASSUME WritesAlone, IInv, RootInv, TextInv, NEW d \in Delivery, pc[d] \in Promoting,
         CreateReturns(d) \/ CreateFails(d) \/ Recover(d) \/ StripKey(d),
         \A e \in Delivery \ {d} : pc[e] \in Resting
  PROVE  TextInv'
<1>t. TypeOK
  BY DEF IInv
<1>1. Stays /\ Others(d) /\ Kept
  BY StepStays, StepKept DEF Step
<1>2. Holds(d) /\ pc'[d] \in {"strip", "childRecover", "childNote"}
  BY <1>t, QuietDoes, CreateFailsDoes, StripDoes DEF Promoting
<1>3. rows[d] = {}
  BY DEF IInv, Worker, Promoting
<1>4. Reading(d)'
  BY <1>2, <1>3 DEF Reading, Creating, Holds
<1>5. Captured(d)'
  BY <1>1, <1>2, CapturedStays DEF Holds
<1>6. OwnKids(d)' /\ \A b \in Bead : Kid(b)' => Kid(b)
  <2>1. \A b \in Bead : Kid(b) /\ bead[b].rkey = seq[d] =>
          /\ bead[b].parent = canon[d] /\ Body[d] \subseteq bead[b].body /\ bead[b].state # "closed"
    BY DEF TextInv, OwnKids
  <2>2. CASE CreateReturns(d)
    <3>1. /\ bead' = bead /\ target' = target /\ Committed(target[d])
          /\ pc[d] = "childCreating" /\ pc'[d] = "strip"
      BY <1>t, <2>2, QuietDoes DEF Promoting
    <3> QED BY <1>2, <2>1, <3>1 DEF TextInv, OwnKids, Kid, Holds, Committed
  <2>3. CASE Recover(d)
    <3>1. PICK t : t = CanonicalOf(Recoverable(d))
      OBVIOUS
    <3>2. /\ bead' = bead /\ target'[d] = t /\ Recoverable(d) # {}
          /\ pc[d] = "childRecover" /\ pc'[d] = "strip"
      BY <1>t, <2>3, <3>1, QuietDoes DEF Promoting
    <3>3. t \in Recoverable(d)
      BY <3>1, <3>2, CanonicalOfProperty DEF Recoverable, Carrying, CarryingChildKey
    <3>4. t \in Bead /\ Committed(t) /\ bead[t].rkey = seq[d] /\ seq[d] # 0
      BY <3>2, <3>3 DEF Recoverable, CarryingChildKey, IInv, Worker, Promoting
    <3>5. Kid(t)
      BY <3>4 DEF Kid, Committed, IInv, ChildrenFollow
    <3> QED BY <1>2, <2>1, <3>2, <3>4, <3>5 DEF OwnKids, Kid, Holds, Committed
  <2>4. CASE CreateFails(d)
    <3>1. PICK t : t = target[d]
      OBVIOUS
    <3>2. /\ t \in Bead /\ \A b \in Bead \ {t} : bead'[b] = bead[b]
          /\ bead'[t].parent = bead[t].parent /\ bead'[t].rkey = bead[t].rkey
          /\ bead'[t].body = bead[t].body
          /\ bead'[t] = bead[t] \/ (bead[t].state = "inflight" /\ bead'[t].state = "lost")
          /\ pc'[d] = "childRecover"
      BY <2>4, <3>1, CreateFailsDoes DEF Promoting
    <3>3. \A b \in Bead : Kid(b)' => Kid(b) /\ bead'[b] = bead[b]
      BY <3>2 DEF Kid
    <3> QED BY <1>2, <2>1, <3>2, <3>3 DEF OwnKids, Holds
  <2>5. CASE StripKey(d)
    <3>1. PICK t : t = target[d]
      OBVIOUS
    <3>2. /\ pc[d] = "strip" /\ pc'[d] = "childNote" /\ target'[d] = t /\ t \in Bead
          /\ \A b \in Bead \ {t} : bead'[b] = bead[b]
          /\ bead'[t].state = bead[t].state /\ bead'[t].parent = bead[t].parent
          /\ bead'[t].rkey = bead[t].rkey /\ bead'[t].body = bead[t].body
          /\ ~bead'[t].opkey
      BY <2>5, <3>1, StripDoes DEF WritesAlone, Fails
    <3>3. Kid(t) /\ bead[t].rkey = seq[d] /\ Committed(t)
      BY <3>1, <3>2 DEF TextInv, OwnKids
    <3>4. \A b \in Bead : /\ Kid(b)' <=> Kid(b)
                          /\ bead'[b].parent = bead[b].parent /\ bead'[b].rkey = bead[b].rkey
                          /\ bead'[b].body = bead[b].body /\ bead'[b].state = bead[b].state
      BY <3>2 DEF Kid
    <3> QED BY <1>2, <2>1, <3>2, <3>3, <3>4 DEF OwnKids, Holds, Committed
  <2> QED BY <2>2, <2>3, <2>4, <2>5
<1>7. KidsAreNoted'
  BY <1>1, <1>2, <1>6, KidsFrame DEF Promoting, Holds
<1> QED BY <1>1, <1>4, <1>5, <1>6, <1>7, TextFrame

LEMMA PromotionEndsText ==
  ASSUME WritesAlone, IInv, RootInv, TextInv, NEW d \in Delivery,
         (pc[d] \in Promoting /\ RecoverNothing(d)) \/ RecordPromotion(d),
         \A e \in Delivery \ {d} : pc[e] \in Resting
  PROVE  TextInv'
<1>1. Stays /\ Others(d) /\ Kept
  BY StepStays, StepKept DEF Step
<1>2. pc'[d] = "done" /\ rows'[d] = {}
  BY NotesDo, QuietDoes DEF IInv, Answered
<1>3. Reading(d)' /\ OwnKids(d)'
  BY <1>2 DEF Reading, OwnKids, Creating, Promoting
\* The child being made is dropped, or noted.
<1>4. SUFFICES
        /\ Captured(d)'
        /\ \A b \in Bead : Kid(b)' => Kid(b)
        /\ \A b \in Bead : Kid(b) /\ bead[b].rkey = seq[d] =>
             \E r \in bead'[bead[b].parent].notes : r.seq = bead[b].rkey
  <2> SUFFICES ASSUME NEW b \in Bead, Kid(b)'
               PROVE  \/ \E r \in bead'[bead'[b].parent].notes : r.seq = bead'[b].rkey
                      \/ \E e \in Delivery : pc'[e] \in Promoting /\ seq'[e] = bead'[b].rkey
    BY <1>1, <1>3, TextFrame DEF KidsAreNoted
  <2>1. Kid(b) /\ bead'[b].parent = bead[b].parent /\ bead'[b].rkey = bead[b].rkey
    BY <1>1, <1>4 DEF Kid, Stays
  <2>2. bead[b].parent \in Bead
    BY <2>1 DEF IInv, ChildrenFollow, Anchor, Kid
  <2>3. CASE \E r \in bead[bead[b].parent].notes : r.seq = bead[b].rkey
    BY <1>1, <2>1, <2>2, <2>3 DEF Kept
  <2>4. CASE \E e \in Delivery : pc[e] \in Promoting /\ seq[e] = bead[b].rkey
    <3>1. seq[d] = bead[b].rkey
      BY <2>4 DEF Resting, Promoting
    <3> QED BY <1>4, <2>1, <3>1
  <2> QED BY <2>1, <2>3, <2>4 DEF TextInv, KidsAreNoted
<1>5. CASE pc[d] \in Promoting /\ RecoverNothing(d)
  <2>1. bead' = bead /\ Answered(d, NoBead, "error") /\ pc[d] = "childRecover"
    BY <1>5, QuietDoes DEF IInv, Promoting
  <2>2. ASSUME NEW b \in Bead, Kid(b), bead[b].rkey = seq[d] PROVE FALSE
    <3>1. bead[b].state # "closed" /\ bead[b].state # "inflight"
      BY <2>1, <2>2, AwaitedHere DEF TextInv, OwnKids, Promoting
    <3>2. bead[b].state = "open"
      BY <2>2, <3>1 DEF Kid, IInv, TypeOK, BeadRecord
    <3>3. b \in Recoverable(d)
      BY <2>1, <2>2, <3>2 DEF Recoverable, CarryingChildKey, Committed
    <3> QED BY <1>5, <3>3 DEF RecoverNothing, WritesAlone, Fails
  <2>3. Captured(d)'
    BY <2>1 DEF Captured, Acknowledged, Successful, Answered
  <2> QED BY <2>1, <2>2, <2>3 DEF Kid
<1>6. CASE RecordPromotion(d)
  <2>1. PICK c : c = canon[d]
    OBVIOUS
  <2>2. PICK n : n = Note(d, seq[d], "child")
    OBVIOUS
  <2>3. pc[d] = "childNote" /\ c \in Bead /\ Answered(d, c, "promoted") /\ Noted(d, c, n)
    BY <1>6, <2>1, <2>2, NotesDo
  <2>4. /\ bead'[c].notes = bead[c].notes \cup {n} /\ n.seq = seq[d]
        /\ \A b \in Bead : /\ bead'[b].state = bead[b].state /\ bead'[b].parent = bead[b].parent
                           /\ bead'[b].opkey = bead[b].opkey /\ bead'[b].body = bead[b].body
    BY <2>2, <2>3 DEF Noted, Note, WritesAlone, Fails
  <2>5. \A b \in Bead : Kid(b) /\ bead[b].rkey = seq[d] => bead[b].parent = c
    BY <2>1, <2>3 DEF TextInv, OwnKids, Promoting
  <2>6. PICK t : t = target[d]
    OBVIOUS
  <2>7. /\ t \in Bead /\ bead[t].parent = c /\ bead[t].state = "open" /\ ~bead[t].opkey
        /\ Body[d] \subseteq bead[t].body
    <3>1. t \in Bead /\ Kid(t) /\ bead[t].rkey = seq[d] /\ Committed(t) /\ ~bead[t].opkey
      BY <2>3, <2>6 DEF TextInv, OwnKids, IInv, Worker
    <3>2. bead[t].state # "closed" /\ Body[d] \subseteq bead[t].body
      BY <2>3, <3>1 DEF TextInv, OwnKids, Promoting
    <3> QED BY <2>5, <3>1, <3>2 DEF Committed
  <2>8. Captured(d)'
    BY <2>3, <2>4, <2>7 DEF Captured, Answered
  <2>9. \A b \in Bead : Kid(b)' => Kid(b)
    BY <2>4 DEF Kid
  <2>10. \A b \in Bead : Kid(b) /\ bead[b].rkey = seq[d] =>
           \E r \in bead'[bead[b].parent].notes : r.seq = bead[b].rkey
    BY <2>4, <2>5
  <2> QED BY <2>8, <2>9, <2>10
<1> QED BY <1>5, <1>6

\* A bead that lands was nobody's witness yet, and is its maker's still.
LEMMA LandText ==
  ASSUME IInv, RootInv, TextInv, NEW b \in Bead, Land(b)
  PROVE  TextInv'
<1>1. /\ UNCHANGED <<pc, rows, canon, seq, seen, target, reply>>
      /\ \A c \in Bead \ {b} : bead'[c] = bead[c]
      /\ bead[b].state = "inflight" /\ bead'[b].state = "open"
      /\ bead'[b].parent = bead[b].parent /\ bead'[b].rkey = bead[b].rkey
      /\ bead'[b].body = bead[b].body /\ bead'[b].notes = bead[b].notes
  BY LandDoes
<1>2. PICK d \in Delivery : pc[d] \in {"creating", "childCreating"} /\ target[d] = b
  BY <1>1 DEF RootInv, LockInv, Awaited
<1>3. \A e \in Delivery \ {d} : pc[e] \in Resting
  BY <1>2 DEF RootInv, LockInv, Alone, Busy, Resting
<1>4. Stays /\ Others(d) /\ Kept
  BY <1>1 DEF Stays, Others, Kept, Committed
<1>5. \A c \in Bead : /\ Kid(c)' <=> Kid(c)
                      /\ Root(c)' <=> Root(c)
                      /\ bead'[c].parent = bead[c].parent /\ bead'[c].rkey = bead[c].rkey
                      /\ bead'[c].body = bead[c].body
                      /\ bead'[c].state = "closed" => bead[c].state = "closed"
  BY <1>1 DEF Kid, Root
<1>6. OwnKids(d)'
  BY <1>1, <1>2, <1>5 DEF TextInv, OwnKids
<1>7. Reading(d)'
  BY <1>1, <1>2, <1>5 DEF TextInv, Reading, IInv, Worker
<1>8. Captured(d)'
  BY <1>1, <1>4, CapturedStays
<1>9. KidsAreNoted'
  BY <1>1, <1>3, <1>4, <1>5, KidsFrame
<1> QED BY <1>3, <1>4, <1>6, <1>7, <1>8, <1>9, TextFrame

LEMMA ArrivalText ==
  ASSUME IInv, RootInv, TextInv, bead' = bead, rows' = rows, canon' = canon, seq' = seq,
         seen' = seen, target' = target, reply' = reply,
         \A e \in Delivery : pc'[e] = pc[e] \/ (pc[e] = "idle" /\ pc'[e] = "waiting")
  PROVE  TextInv'
<1>1. \A e \in Delivery : pc'[e] \in Promoting <=> pc[e] \in Promoting
  BY DEF Promoting
<1>2. KidsAreNoted'
  BY <1>1 DEF TextInv, KidsAreNoted, Kid
<1> SUFFICES ASSUME NEW e \in Delivery PROVE (OwnKids(e) /\ Reading(e) /\ Captured(e))'
  BY <1>2 DEF TextInv
<1>3. OwnKids(e)'
  BY <1>1 DEF TextInv, OwnKids, Kid, Committed, Promoting
<1>4. Reading(e)'
  BY DEF TextInv, Reading, Root, Creating
<1>5. Captured(e)'
  BY CapturedStays DEF Stays, Kept, Committed
<1> QED BY <1>3, <1>4, <1>5

LEMMA TextInit == Init => TextInv
<1> SUFFICES ASSUME Init PROVE TextInv
  OBVIOUS
<1>1. \A b \in Bead : ~Kid(b)
  BY DEF Init, Absent, Kid
<1>2. \A d \in Delivery : pc[d] = "idle" /\ rows[d] = {} /\ ~Acknowledged(d)
  BY DEF Init, NoReply, Acknowledged, Successful
<1> QED BY <1>1, <1>2 DEF TextInv, KidsAreNoted, OwnKids, Reading, Captured, Promoting, Creating

LEMMA TextStep ==
  OneProcess /\ WritesAlone /\ IInv /\ RootInv /\ RootInv' /\ NoteInv /\ TextInv /\ [Next]_vars
    => TextInv'
<1> SUFFICES ASSUME OneProcess, WritesAlone, IInv, RootInv, RootInv', NoteInv, TextInv, [Next]_vars
             PROVE  TextInv'
  OBVIOUS
<1>t. TypeOK /\ ~Fails("crash") /\ Alone
  BY DEF IInv, WritesAlone, Fails, RootInv, LockInv
<1>1. ASSUME NEW d \in Delivery, Submit(d) PROVE TextInv'
  BY <1>1, ArrivalText DEF Submit, Goto, store, work, IInv, TypeOK
<1>2. ASSUME NEW d \in Delivery, Step(d) PROVE TextInv'
  <2>1. \A e \in Delivery \ {d} : pc[e] \in Resting
    BY <1>t, <1>2, OnlyOne
  <2>2. CASE CreateReturns(d) \/ CreateFails(d) \/ Recover(d) \/ RecoverNothing(d)
    <3>1. pc[d] \in Creating \/ pc[d] \in Promoting
      BY <2>2 DEF CreateReturns, CreateFails, Recover, RecoverNothing, Creating, Promoting
    <3> QED BY <2>1, <2>2, <3>1, QuietText, WriteText, ChildMadeText, PromotionEndsText
  <2>3. CASE FindNone(d) \/ FindSome(d) \/ ReadHistory(d) \/ ReadState(d)
    BY <2>1, <2>3, QuietText
  <2>4. CASE FindChild(d) \/ StartChild(d) \/ StripKey(d) \/ RecordPromotion(d)
    <3>1. StripKey(d) => pc[d] \in Promoting
      BY DEF StripKey, Promoting
    <3> QED BY <2>1, <2>4, <3>1, FindChildText, StartChildText, ChildMadeText, PromotionEndsText
  <2>5. CASE StartCreate(d) \/ RecordFirst(d) \/ Collapse(d) \/ RecordRevision(d)
             \/ Edit(d) \/ EditFails(d) \/ AddLabels(d) \/ AddLabelsFails(d)
    BY <2>1, <2>5, WriteText
  <2> QED BY <1>2, <2>2, <2>3, <2>4, <2>5 DEF Step
<1>3. ASSUME NEW b \in Bead, Land(b) PROVE TextInv'
  BY <1>3, LandText
<1>4. CASE UNCHANGED vars
  BY <1>4, ArrivalText DEF vars, store, work
<1> QED BY <1>t, <1>1, <1>2, <1>3, <1>4 DEF Next, Crash

\* CapturedTextIsKept: with one process whose reads, notes and recovery
\* work, text a caller was told is captured stays on the answered bead or on
\* an open child of it, even when creates, edits, labels and closes fail.
\* The number of a revision is above all that were noted and every child
\* made is noted (KidsAreNoted), so a promotion never takes another's child
\* for its own; and only beads that carry the key are closed, which a
\* promoted child no longer does.
THEOREM CapturedTextSafe ==
  ASSUME OneProcess, WritesAlone
  PROVE  Spec => []CapturedTextIsKept
<1>1. TextInv => CapturedTextIsKept
  BY DEF TextInv, Captured, CapturedTextIsKept
<1>2. RootInv /\ IInv /\ [Next]_vars => RootInv'
  BY RootStep DEF Without, WritesAlone
<1>3. NoteInv /\ RootInv /\ IInv /\ [Next]_vars => NoteInv'
  BY NoteStep DEF Without, WritesAlone, RootInv
<1>4. TextInv /\ NoteInv /\ RootInv /\ RootInv' /\ IInv /\ [Next]_vars => TextInv'
  BY TextStep
<1> QED BY <1>1, <1>2, <1>3, <1>4, RootInit, NoteInit, TextInit, Invariance, PTL DEF Spec
---------------------------------------------------------------------------
(***************************************************************************)
(* The lock itself.  For any number of calls and keys, the promise chain   *)
(* of OperationLock serves each key in arrival order, keeps no entry       *)
(* nobody needs, and implements the safety part of KeyedMutex.             *)
(*                                                                         *)
(* ServedInOrder is not inductive: a late arrival could overtake if the    *)
(* map's entry were not the last arrival on its key (EntryIsLast), or if a *)
(* call were chained behind anything but the last unfinished call before   *)
(* it (ChainedBehindLast).                                                 *)
(***************************************************************************)

Arrived(c) == lockPc[c] # "idle"

Tickets ==
  /\ \A c \in Call : ticket[c] <= arrivals
  /\ \A c, d \in Call : Arrived(c) /\ Arrived(d) /\ ticket[c] = ticket[d] => c = d

EntryIsLast ==
  \A k \in Key :
    /\ locks[k] = NoCall =>
         \A c \in Call : KeyOf[c] = k /\ Arrived(c) => Settled(c)
    /\ locks[k] # NoCall =>
         /\ KeyOf[locks[k]] = k
         /\ lockPc[locks[k]] \in {"waiting", "running", "settled"}
         /\ \A c \in Call : KeyOf[c] = k /\ Arrived(c) => ticket[c] <= ticket[locks[k]]

ChainedBehindLast ==
  \A c \in Call :
    /\ prior[c] # NoCall =>
         /\ SameKey(prior[c], c)
         /\ Arrived(prior[c])
         /\ ticket[prior[c]] < ticket[c]
    /\ \A d \in Call :
         /\ Arrived(c) /\ Arrived(d) /\ SameKey(c, d)
         /\ ticket[d] < ticket[c]
         => Settled(d) \/ (prior[c] # NoCall /\ ticket[d] <= ticket[prior[c]])

LockingIInv ==
  /\ LockingTypeOK
  /\ Tickets
  /\ EntryIsLast
  /\ ChainedBehindLast
  /\ ServedInOrder

LEMMA LockingInitInvariant == LockingInit => LockingIInv
  BY KeyOfAssumption, NoCallAssumption
     DEF LockingInit, LockingIInv, LockingTypeOK, Tickets, EntryIsLast, ChainedBehindLast, ServedInOrder,
         Arrived, Started, Settled, SameKey

\* An arrival is last on its key, and is chained behind whoever was.
LEMMA ArriveInvariant ==
  ASSUME LockingIInv, NEW c \in Call, Arrive(c)
  PROVE  LockingIInv'
<1> USE KeyOfAssumption, NoCallAssumption
<1>1. LockingTypeOK'
  <2>1. arrivals' \in Nat
    BY DEF LockingIInv, LockingTypeOK, Arrive
  <2>2. KeyOf[c] \in Key /\ locks[KeyOf[c]] \in Call \cup {NoCall}
    BY DEF LockingIInv, LockingTypeOK
  <2>3. ticket' \in [Call -> Nat]
    BY <2>1 DEF LockingIInv, LockingTypeOK, Arrive
  <2> QED BY <2>1, <2>2, <2>3 DEF LockingIInv, LockingTypeOK, Arrive
<1>2. /\ ticket'[c] = arrivals + 1
      /\ lockPc'[c] = "waiting"
      /\ prior'[c] = locks[KeyOf[c]]
      /\ locks'[KeyOf[c]] = c
  BY DEF LockingIInv, LockingTypeOK, Arrive
<1>3. \A d \in Call \ {c} : ticket'[d] = ticket[d] /\ lockPc'[d] = lockPc[d] /\ prior'[d] = prior[d]
  BY DEF LockingIInv, LockingTypeOK, Arrive
<1>4. \A k \in Key \ {KeyOf[c]} : locks'[k] = locks[k]
  BY DEF LockingIInv, LockingTypeOK, Arrive
<1>5. lockPc[c] = "idle" /\ arrivals' = arrivals + 1 /\ arrivals \in Nat
      /\ \A d \in Call : ticket[d] \in Nat /\ ticket[d] <= arrivals
  BY DEF LockingIInv, LockingTypeOK, Tickets, Arrive
<1>6. Tickets'
  BY <1>2, <1>3, <1>5 DEF LockingIInv, Tickets, Arrived
<1>7. EntryIsLast'
  <2> SUFFICES ASSUME NEW k \in Key PROVE EntryIsLast!(k)'
    BY DEF EntryIsLast
  <2>1. CASE k = KeyOf[c]
    BY <1>2, <1>3, <1>5, <2>1 DEF LockingIInv, LockingTypeOK, Arrived, Settled
  <2>2. CASE k # KeyOf[c]
    BY <1>3, <1>4, <1>5, <2>2 DEF LockingIInv, LockingTypeOK, EntryIsLast, Arrived, Settled
  <2> QED BY <2>1, <2>2
<1>8. ChainedBehindLast'
  <2> SUFFICES ASSUME NEW a \in Call PROVE ChainedBehindLast!(a)'
    BY DEF ChainedBehindLast
  <2>1. CASE a = c
    <3>1. locks[KeyOf[c]] # NoCall => locks[KeyOf[c]] \in Call \ {c}
      BY <1>5 DEF LockingIInv, LockingTypeOK, EntryIsLast
    <3>2. prior'[c] # NoCall => /\ SameKey(prior'[c], c)
                                /\ lockPc'[prior'[c]] # "idle"
                                /\ ticket'[prior'[c]] < ticket'[c]
      BY <1>2, <1>3, <1>5, <3>1 DEF LockingIInv, LockingTypeOK, EntryIsLast, SameKey
    <3>3. ASSUME NEW d \in Call, lockPc'[d] # "idle", SameKey(c, d), ticket'[d] < ticket'[c]
          PROVE  \/ lockPc'[d] \in {"settled", "returned"}
                 \/ prior'[c] # NoCall /\ ticket'[d] <= ticket'[prior'[c]]
      BY <1>2, <1>3, <1>5, <3>1, <3>3 DEF LockingIInv, LockingTypeOK, EntryIsLast, SameKey, Arrived, Settled
    <3> QED BY <2>1, <3>2, <3>3 DEF Arrived, Settled, SameKey
  <2>2. CASE a # c
    <3>1. prior[a] # NoCall => prior[a] \in Call \ {c}
      BY <1>5 DEF LockingIInv, LockingTypeOK, ChainedBehindLast, Arrived
    <3> QED BY <1>2, <1>3, <1>5, <2>2, <3>1
            DEF LockingIInv, LockingTypeOK, ChainedBehindLast, Arrived, Settled, SameKey
  <2> QED BY <2>1, <2>2
<1>9. ServedInOrder'
  BY <1>2, <1>3, <1>5 DEF LockingIInv, LockingTypeOK, ServedInOrder, Started, Settled, SameKey
<1> QED BY <1>1, <1>6, <1>7, <1>8, <1>9 DEF LockingIInv

\* A body starts only behind a settled one, behind which everything is settled.
LEMMA StartInvariant ==
  ASSUME LockingIInv, NEW c \in Call, Start(c)
  PROVE  LockingIInv'
<1> USE KeyOfAssumption, NoCallAssumption
<1>1. LockingTypeOK'
  BY DEF LockingIInv, LockingTypeOK, Start
<1>2. /\ lockPc[c] = "waiting" /\ lockPc'[c] = "running"
      /\ \A d \in Call \ {c} : lockPc'[d] = lockPc[d]
      /\ UNCHANGED <<locks, prior, ticket, arrivals>>
  BY DEF LockingIInv, LockingTypeOK, Start
<1>3. Tickets'
  BY <1>2 DEF LockingIInv, Tickets, Arrived
<1>4. EntryIsLast'
  BY <1>2 DEF LockingIInv, LockingTypeOK, EntryIsLast, Arrived, Settled
<1>5. ChainedBehindLast'
  BY <1>2 DEF LockingIInv, LockingTypeOK, ChainedBehindLast, Arrived, Settled, SameKey
<1>6. ASSUME NEW d \in Call, SameKey(d, c), lockPc[d] # "idle", ticket[d] < ticket[c]
      PROVE  Settled(d)
  <2>1. CASE prior[c] = NoCall
    BY <1>2, <1>6, <2>1 DEF LockingIInv, ChainedBehindLast, Arrived, SameKey
  <2>2. CASE prior[c] # NoCall
    <3> DEFINE p == prior[c]
    <3>1. p \in Call /\ Settled(p) /\ SameKey(p, d) /\ Arrived(p)
      BY <1>6, <2>2 DEF LockingIInv, LockingTypeOK, Start, ReleasedAhead, ChainedBehindLast, SameKey
    <3>2. Settled(d) \/ ticket[d] <= ticket[p]
      BY <1>2, <1>6, <2>2 DEF LockingIInv, ChainedBehindLast, Arrived, SameKey
    <3>3. CASE ticket[d] = ticket[p]
      BY <1>6, <3>1, <3>3 DEF LockingIInv, Tickets, Arrived
    <3>4. CASE ticket[d] < ticket[p]
      BY <1>6, <3>1, <3>4 DEF LockingIInv, ServedInOrder, Started, Settled, SameKey
    <3> QED BY <3>1, <3>2, <3>3, <3>4 DEF LockingIInv, LockingTypeOK
  <2> QED BY <2>1, <2>2
<1>7. ServedInOrder'
  BY <1>2, <1>6 DEF LockingIInv, LockingTypeOK, ServedInOrder, Started, Settled, SameKey
<1> QED BY <1>1, <1>3, <1>4, <1>5, <1>7 DEF LockingIInv

LEMMA FinishInvariant ==
  ASSUME LockingIInv, NEW c \in Call, Finish(c)
  PROVE  LockingIInv'
<1> USE KeyOfAssumption, NoCallAssumption
<1>1. LockingTypeOK'
  BY DEF LockingIInv, LockingTypeOK, Finish
<1>2. /\ lockPc[c] = "running" /\ lockPc'[c] = "settled"
      /\ \A d \in Call \ {c} : lockPc'[d] = lockPc[d]
      /\ UNCHANGED <<locks, prior, ticket, arrivals>>
  BY DEF LockingIInv, LockingTypeOK, Finish
<1>3. Tickets'
  BY <1>2 DEF LockingIInv, Tickets, Arrived
<1>4. EntryIsLast'
  BY <1>2 DEF LockingIInv, LockingTypeOK, EntryIsLast, Arrived, Settled
<1>5. ChainedBehindLast'
  BY <1>2 DEF LockingIInv, LockingTypeOK, ChainedBehindLast, Arrived, Settled, SameKey
<1>6. ServedInOrder'
  BY <1>2 DEF LockingIInv, LockingTypeOK, ServedInOrder, Started, Settled, SameKey
<1> QED BY <1>1, <1>3, <1>4, <1>5, <1>6 DEF LockingIInv

\* Deleting one's own entry loses nobody: everyone on the key came earlier.
LEMMA ReleaseInvariant ==
  ASSUME LockingIInv, NEW c \in Call, Release(c)
  PROVE  LockingIInv'
<1> USE KeyOfAssumption, NoCallAssumption
<1>1. LockingTypeOK'
  BY DEF LockingIInv, LockingTypeOK, Release, EntryAfter
<1>2. /\ lockPc[c] = "settled" /\ lockPc'[c] = "returned"
      /\ \A d \in Call \ {c} : lockPc'[d] = lockPc[d]
      /\ \A d \in Call : Settled(d)' <=> Settled(d)
      /\ UNCHANGED <<prior, ticket, arrivals>>
  BY DEF LockingIInv, LockingTypeOK, Release, Settled
<1>3. Tickets'
  BY <1>2 DEF LockingIInv, Tickets, Arrived
<1>4. EntryIsLast'
  <2> SUFFICES ASSUME NEW k \in Key PROVE EntryIsLast!(k)'
    BY DEF EntryIsLast
  <2>1. CASE k = KeyOf[c] /\ locks[k] = c
    <3>1. locks'[k] = NoCall
      BY <2>1 DEF LockingIInv, LockingTypeOK, Release, EntryAfter
    <3>2. ASSUME NEW d \in Call, KeyOf[d] = k, Arrived(d) PROVE Settled(d)
      <4>1. ticket[d] <= ticket[c]
        BY <2>1, <3>2 DEF LockingIInv, EntryIsLast
      <4>2. CASE ticket[d] = ticket[c]
        BY <1>2, <3>2, <4>2 DEF LockingIInv, Tickets, Arrived, Settled
      <4>3. CASE ticket[d] < ticket[c]
        BY <1>2, <2>1, <3>2, <4>3 DEF LockingIInv, ServedInOrder, Started, Settled, SameKey, Arrived
      <4> QED BY <4>1, <4>2, <4>3 DEF LockingIInv, LockingTypeOK
    <3> QED BY <1>2, <3>1, <3>2 DEF Arrived
  <2>2. CASE ~(k = KeyOf[c] /\ locks[k] = c)
    <3>1. locks'[k] = locks[k]
      BY <2>2 DEF LockingIInv, LockingTypeOK, Release, EntryAfter
    <3>2. locks[k] # NoCall => locks[k] # c
      BY <2>2 DEF LockingIInv, EntryIsLast
    <3> QED BY <1>2, <3>1, <3>2 DEF LockingIInv, LockingTypeOK, EntryIsLast, Arrived
  <2> QED BY <2>1, <2>2
<1>5. ChainedBehindLast'
  BY <1>2 DEF LockingIInv, LockingTypeOK, ChainedBehindLast, Arrived, SameKey
<1>6. ServedInOrder'
  BY <1>2 DEF LockingIInv, LockingTypeOK, ServedInOrder, Started, Settled, SameKey
<1> QED BY <1>1, <1>3, <1>4, <1>5, <1>6 DEF LockingIInv

LEMMA LockingStepInvariant == LockingIInv /\ [LockingNext]_lockingVars => LockingIInv'
<1> SUFFICES ASSUME LockingIInv, [LockingNext]_lockingVars PROVE LockingIInv'
  OBVIOUS
<1>1. ASSUME NEW c \in Call, Arrive(c) PROVE LockingIInv'
  BY <1>1, ArriveInvariant
<1>2. ASSUME NEW c \in Call, Start(c) PROVE LockingIInv'
  BY <1>2, StartInvariant
<1>3. ASSUME NEW c \in Call, Finish(c) PROVE LockingIInv'
  BY <1>3, FinishInvariant
<1>4. ASSUME NEW c \in Call, Release(c) PROVE LockingIInv'
  BY <1>4, ReleaseInvariant
<1>5. CASE UNCHANGED lockingVars
  BY <1>5 DEF lockingVars, LockingIInv, LockingTypeOK, Tickets, EntryIsLast, ChainedBehindLast, ServedInOrder,
              Arrived, Started, Settled, SameKey
<1> QED BY <1>1, <1>2, <1>3, <1>4, <1>5 DEF LockingNext

LEMMA LockingInvariance == LockingSpec => []LockingIInv
  BY LockingInitInvariant, LockingStepInvariant, PTL DEF LockingSpec

\* Every reachable state of the lock is well typed.
THEOREM LockingTypeCorrect == LockingSpec => []LockingTypeOK
  BY LockingInvariance, PTL DEF LockingIInv

\* Bodies on one key run in arrival order, one at a time, however many calls
\* and keys there are and however the bodies end.
THEOREM Serialized == LockingSpec => []ServedInOrder
  BY LockingInvariance, PTL DEF LockingIInv

\* The map holds no entry for a key nobody is using.
THEOREM Drains == LockingSpec => []MapDrains
<1>1. LockingIInv => MapDrains
  BY NoCallAssumption, KeyOfAssumption DEF LockingIInv, LockingTypeOK, EntryIsLast, MapDrains
<1> QED BY <1>1, LockingInvariance, PTL

\* Every step of the promise chain is a step of the abstract mutex or leaves
\* it where it was.
THEOREM RefinesMutex == LockingSpec => Mutex!Safe
<1> USE KeyOfAssumption, NoCallAssumption
<1>1. LockingInit => Mutex!Init
  BY DEF LockingInit, Mutex!Init, Phase, Settled
<1>2. LockingIInv /\ [LockingNext]_lockingVars => [Mutex!Next]_Phase
  <2> SUFFICES ASSUME LockingIInv, [LockingNext]_lockingVars PROVE [Mutex!Next]_Phase
    OBVIOUS
  <2>1. ASSUME NEW c \in Call, Arrive(c) PROVE Mutex!Request(c)
    BY <2>1 DEF Arrive, Mutex!Request, Phase, Settled, LockingIInv, LockingTypeOK
  <2>2. ASSUME NEW c \in Call, Start(c) PROVE Mutex!Enter(c)
    <3>1. Phase[c] = "waiting" /\ Phase' = [Phase EXCEPT ![c] = "running"]
      BY <2>2 DEF Start, Phase, Settled, LockingIInv, LockingTypeOK
    <3>2. LockingIInv'
      BY <2>2, StartInvariant
    <3>3. ASSUME NEW d \in Mutex!Rivals(c) PROVE Phase[d] # "running"
      <4> SUFFICES ASSUME lockPc[d] = "running" PROVE FALSE
        BY DEF Phase, Settled, Mutex!Rivals
      <4>1. d \in Call /\ d # c /\ SameKey(c, d)
        BY DEF Mutex!Rivals, SameKey
      <4>2. lockPc'[c] = "running" /\ lockPc'[d] = "running"
        BY <2>2, <4>1 DEF Start, LockingIInv, LockingTypeOK
      <4>3. ticket'[c] < ticket'[d] \/ ticket'[d] < ticket'[c] \/ ticket'[c] = ticket'[d]
        BY <3>2, <4>1 DEF LockingIInv, LockingTypeOK
      <4>4. ticket'[c] # ticket'[d]
        BY <3>2, <4>1, <4>2 DEF LockingIInv, Tickets, Arrived
      <4> QED BY <3>2, <4>1, <4>2, <4>3, <4>4 DEF LockingIInv, ServedInOrder, Started, Settled, SameKey
    <3> QED BY <3>1, <3>3 DEF Mutex!Enter
  <2>3. ASSUME NEW c \in Call, Finish(c) PROVE Mutex!Leave(c)
    BY <2>3 DEF Finish, Mutex!Leave, Phase, Settled, LockingIInv, LockingTypeOK
  <2>4. ASSUME NEW c \in Call, Release(c) PROVE UNCHANGED Phase
    BY <2>4 DEF Release, Phase, Settled, LockingIInv, LockingTypeOK
  <2>5. CASE UNCHANGED lockingVars
    BY <2>5 DEF lockingVars, Phase, Settled
  <2> QED BY <2>1, <2>2, <2>3, <2>4, <2>5 DEF LockingNext, Mutex!Next
<1> QED BY <1>1, <1>2, LockingInvariance, PTL DEF LockingSpec, Mutex!Safe
=============================================================================
