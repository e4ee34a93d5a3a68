--------------------------- MODULE RelayToolsProofs ---------------------------
(***************************************************************************)
(* What the tools that write several beads keep, for any number of         *)
(* clients, requests, calls and failures.                                  *)
(*                                                                         *)
(* Every fact a call has about the stores is one that only gets truer:     *)
(* beads keep their key, their slug and their texts, projects their names, *)
(* their texts and their place in the foreground.  So the facts are stated *)
(* of a state of the stores given as parameters, and a step of one client  *)
(* keeps those of all the others because it lets the stores grow.          *)
(***************************************************************************)
EXTENDS RelayTools, WellFoundedInduction, NaturalsInduction, TLAPS

BeadFields == {"store", "title", "body", "slug", "prio", "parent", "key", "closed", "old", "texts", "by"}
ProjectFields == {"title", "titles", "foreground", "deprecated", "texts"}
CallFields == {"tool", "arg", "stage", "ref", "pc", "p", "slug", "backlog", "id", "verified", "then", "make",
               "saw", "task", "dispatch", "promoted", "bad", "outcome"}
BatchFields == {"tool", "arg", "pc", "ids", "failures", "wire", "link", "make", "then", "id", "verified", "saw",
                "before", "outcome"}

Listed(B) == B \in Seq({B[i] : i \in DOMAIN B})

\* The stores only grow: B2 after B, P2 after P.
Grown(B, B2) ==
  \A i \in DOMAIN B :
    /\ i \in DOMAIN B2
    /\ B2[i].key = B[i].key /\ B2[i].by = B[i].by
    /\ B2[i].store = B[i].store /\ B2[i].title = B[i].title /\ B2[i].slug = B[i].slug
    /\ B[i].texts \subseteq B2[i].texts /\ (B[i].prio => B2[i].prio) /\ (B[i].old => B2[i].old)

Raised(P, P2) ==
  \A p \in Project :
    /\ P[p].titles \subseteq P2[p].titles /\ P[p].texts \subseteq P2[p].texts
    /\ P[p].foreground => P2[p].foreground

---------------------------------------------------------------------------
(* The stores. *)

\* No bead in saw is a task with the title and project of the task key.
NoTwin(B, saw, key) ==
  \A i \in saw :
    B[i].store = "task" /\ key.title.kind = "task" =>
      <<B[i].key.store, B[i].key.title, B[i].key.slug>> # <<key.store, key.title, key.slug>>

\* A bead, there or still to land, has what its key says.
Filed(B, b) ==
  /\ DOMAIN b = BeadFields
  /\ b.store = b.key.store /\ b.title = b.key.title /\ b.slug = b.key.slug /\ b.parent = b.key.parent
  /\ b.key.body \in b.texts /\ (b.key.prio => b.prio)
  /\ b.by.saw \subseteq DOMAIN B /\ NoTwin(B, b.by.saw, b.key)

BeadsSound(B, L) == Listed(B) /\ (\A i \in DOMAIN B : Filed(B, B[i])) /\ \A b \in L : Filed(B, b)

\* The names a project's slug has been.
Names(P, p) == IF Label[p] = None THEN P[p].titles ELSE {Label[p]}

ProjectsSound(B, P) ==
  /\ P = [p \in Project |-> P[p]]
  /\ \A p \in Project :
       /\ DOMAIN P[p] = ProjectFields /\ P[p].title \in P[p].titles /\ None \notin P[p].titles
       /\ p \notin Foreground /\ P[p].foreground => \E i \in DOMAIN B : B[i].slug \in Names(P, p)

---------------------------------------------------------------------------
(* A call of the relay. *)

Makes == {"capture", "upsert", "dispatch"}
MakingPlaces == {"twin", "create", "recover", "read", "made"}
HeldPlaces == {"edit", "comment", "reread", "label", "note", "return"}
EditPlaces == {"text", "comment on it", "lifecycle"}
RelayPlaces ==
  {"lookup", "looked", "dups", "attach", "failed", "relist", "next", "done"}
    \union MakingPlaces \union HeldPlaces \union EditPlaces

\* Which tool, in which of its functions, may be where.
Placed(r) ==
  /\ DOMAIN r = CallFields /\ r.arg \in Request /\ r.tool = r.arg.tool /\ r.tool # "batch"
  /\ r.arg.allow \/ r.saw = {}
  /\ r.stage = IF r.tool = "flow" THEN r.stage ELSE r.tool
  /\ r.tool = "flow" => r.stage \in {"resolve", "upsert", "dispatch"}
  /\ r.pc \in RelayPlaces /\ (r.tool = "edit" /\ r.pc = "looked" => r.p # None)
  /\ r.stage = "resolve" => r.pc \in {"lookup", "looked"}
  /\ r.pc = "dups" => r.stage = "upsert"
  /\ r.pc = "attach" => r.stage = "dispatch"
  /\ r.pc = "failed" => r.stage \in Makes
  /\ r.pc \in {"relist", "next"} => r.tool = "flow" /\ r.stage = "upsert"
  /\ r.pc \in EditPlaces => r.tool = "edit"
  /\ r.tool = "edit" => r.pc \in EditPlaces \union {"lookup", "looked", "done"}

\* The project found has or had the slug the call writes under.
Homed(P, r) == r.p # None => r.p \in Project /\ r.slug # None /\ r.slug \in Names(P, r.p)

\* What is being made is what was asked for, in the project's name; no task
\* like it was there when the call began; once made it is what is read back.
Asks(r, content) ==
  /\ r.stage = "capture" => content = Content("brain", Task(r.arg.title), r.arg.body, r.slug, FALSE, 0)
  /\ r.stage = "upsert" => content = Content("task", Task(r.arg.title), r.arg.body, r.slug, r.arg.prio, 0)
  /\ r.stage = "dispatch" =>
       /\ content.title.kind = "dispatch"
       /\ r.task # 0 => content.title = DispatchFor(None, r.task)

InMaking(B, r) ==
  r.pc \in MakingPlaces =>
    /\ r.stage \in Makes /\ r.then = "made" /\ Asks(r, r.make) /\ NoTwin(B, r.saw, r.make)
    /\ r.pc \in {"read", "made"} => r.id \in DOMAIN B /\ B[r.id].key = r.make

\* Holding, in any stores.
HoldingIn(B, i, arg, slug) ==
  /\ i \in DOMAIN B /\ (slug # None => B[i].slug = slug)
  /\ arg.body \in B[i].texts \union {None} /\ (arg.prio => B[i].prio)

\* A bead that was made or updated holds what was asked; a duplicate that is
\* still to be updated is in the project at least.
InHand(B, r) ==
  r.pc \in HeldPlaces =>
    /\ r.stage \in {"capture", "upsert"}
    /\ r.id \in DOMAIN B /\ (r.slug # None => B[r.id].slug = r.slug)
    /\ r.pc \notin {"edit", "comment"} => HoldingIn(B, r.id, r.arg, r.slug)
    /\ r.pc \in {"edit", "comment"} => r.stage = "upsert"
    /\ r.pc = "comment" => ~r.arg.prio
    /\ r.pc \in {"label", "note"} => r.then \in {"reread", "return"}

\* The flow's task is there, and then its dispatch.
Flowing(B, r) ==
  r.tool = "flow" =>
    /\ r.pc \in {"relist", "next"} \/ r.stage = "dispatch" \/ (r.pc = "done" /\ r.outcome = "ok") =>
         r.task \in DOMAIN B /\ (r.arg.prio => B[r.task].prio)
    /\ r.pc = "done" /\ r.outcome = "ok" /\ r.arg.dispatch =>
         r.dispatch \in DOMAIN B /\ B[r.dispatch].title = DispatchFor(None, r.task)

\* The steps of an edit before the one it is at, if none failed, are written.
Before(pc) ==
  CASE pc = "comment on it" -> {"text"}
    [] pc = "lifecycle" -> {"text", "comment on it"}
    [] pc = "done" -> EditPlaces
    [] OTHER -> {}

Editing(P, r) ==
  r.tool = "edit" /\ (r.pc \in EditPlaces \/ (r.pc = "done" /\ r.outcome = "ok")) =>
    /\ r.p # None
    /\ r.bad \/ \A e \in r.arg.edits : e.step \in Before(r.pc) => <<e.step, e.to>> \in P[r.p].texts
    /\ r.pc = "done" => ~r.bad

Promoting(P, c, r) ==
  r.tool \in {"capture", "upsert"} /\ r.promoted =>
    r.pc # "lookup" /\ r.p # None /\ P[r.p].foreground /\ (r.pc = "note" \/ <<"promoted", c>> \in P[r.p].texts)

Answering(B, r) ==
  r.tool \in {"capture", "upsert"} /\ r.pc = "done" /\ r.outcome = "ok" => HoldingIn(B, r.id, r.arg, r.slug)

RelayCall(B, P, c, r) ==
  /\ Placed(r) /\ r.saw \subseteq DOMAIN B
  /\ Homed(P, r) /\ InMaking(B, r) /\ InHand(B, r) /\ Flowing(B, r) /\ Editing(P, r)
  /\ Promoting(P, c, r) /\ Answering(B, r)

\* A batch looked for no duplicates and makes beads of its own.
BatchPlaces == {"next bead", "twin", "create", "recover", "read", "landed", "failed", "wire", "check", "done"}
BatchCall(r) ==
  /\ DOMAIN r = BatchFields /\ r.tool = "batch" /\ r.pc \in BatchPlaces
  /\ r.then = "landed" /\ r.saw = {}

Called(B, P, c, r) == r = Idle \/ RelayCall(B, P, c, r) \/ BatchCall(r)

RelayInv ==
  /\ call = [c \in Caller |-> call[c]]
  /\ \A c \in Caller : Called(bead, project, c, call[c])
  /\ BeadsSound(bead, late) /\ ProjectsSound(bead, project)

---------------------------------------------------------------------------
(* Numbers, and the three steps of an edit. *)

LEMMA NatMin ==
  ASSUME NEW T \in SUBSET Nat, T # {}
  PROVE  \E x \in T : \A y \in T : x <= y
  <1>1. \E x \in T : \A y \in T : ~(<<y, x>> \in OpToRel(<, Nat))
    BY NatLessThanWellFounded, WFMin
  <1>2. \A x, y \in Nat : y < x => <<y, x>> \in OpToRel(<, Nat)
    BY DEF OpToRel
  <1>3. \E x \in T : \A y \in T : ~(y < x)
    BY <1>1, <1>2, Zenon
  <1> QED BY <1>3

LEMMA MinIsIn ==
  ASSUME NEW T \in SUBSET Nat, T # {}
  PROVE  Min(T) \in T
  BY NatMin DEF Min

LEMMA MinIsLeast ==
  ASSUME NEW T \in SUBSET Nat, T # {}
  PROVE  \A y \in T : Min(T) <= y
  BY NatMin DEF Min

LEMMA StepsAre ==
  /\ DOMAIN Steps = {1, 2, 3} /\ Len(Steps) = 3
  /\ Steps[1] = "text" /\ Steps[2] = "comment on it" /\ Steps[3] = "lifecycle"
  <1>1. DOMAIN Steps = 1 .. 3 /\ Len(Steps) = 3 BY DEF Steps
  <1>2. 1 .. 3 = {1, 2, 3} OBVIOUS
  <1> QED BY <1>1, <1>2 DEF Steps

LEMMA StepNames == ToSet(Steps) = EditPlaces
  BY StepsAre DEF ToSet, EditPlaces

\* The step that follows each step of an edit.
LEMMA StepAfter ==
  ASSUME NEW r
  PROVE  /\ r.pc = "text" => AfterStep(r) = [r EXCEPT !.pc = "comment on it"]
         /\ r.pc = "comment on it" => AfterStep(r) = [r EXCEPT !.pc = "lifecycle"]
         /\ r.pc = "lifecycle" => AfterStep(r) = Returned(r)
  <1> DEFINE i == CHOOSE n \in DOMAIN Steps : Steps[n] = r.pc
  <1>1. AfterStep(r) = IF i = Len(Steps) THEN Returned(r) ELSE [r EXCEPT !.pc = Steps[i + 1]]
    BY DEF AfterStep
  <1>2. ASSUME NEW k \in {1, 2, 3}, r.pc = Steps[k] PROVE i = k
    <2>1. \A m, n \in {1, 2, 3} : Steps[m] = Steps[n] => m = n BY StepsAre
    <2>2. \A n \in DOMAIN Steps : Steps[n] = r.pc <=> n = k BY <1>2, <2>1, StepsAre
    <2> QED BY <1>2, <2>2, StepsAre
  <1> HIDE DEF i
  <1>3. CASE r.pc = "text"
    <2>1. i = 1 BY <1>2, <1>3, StepsAre
    <2>2. i + 1 = 2 BY <2>1
    <2>3. Steps[i + 1] = "comment on it" BY <2>2, StepsAre
    <2>4. i # Len(Steps) BY <2>1, StepsAre
    <2> QED BY <1>1, <1>3, <2>3, <2>4
  <1>4. CASE r.pc = "comment on it"
    <2>1. i = 2 BY <1>2, <1>4, StepsAre
    <2>2. i + 1 = 3 BY <2>1
    <2>3. Steps[i + 1] = "lifecycle" BY <2>2, StepsAre
    <2>4. i # Len(Steps) BY <2>1, StepsAre
    <2> QED BY <1>1, <1>4, <2>3, <2>4
  <1>5. CASE r.pc = "lifecycle"
    <2>1. i = 3 BY <1>2, <1>5, StepsAre
    <2> QED BY <1>1, <1>5, <2>1, StepsAre
  <1> QED BY <1>3, <1>4, <1>5

---------------------------------------------------------------------------
(* The stores grow. *)

LEMMA ListedBy ==
  ASSUME NEW S, NEW B \in Seq(S)
  PROVE  Listed(B)
  <1>1. Len(B) \in Nat /\ DOMAIN B = 1 .. Len(B) OBVIOUS
  <1>2. \A i \in 1 .. Len(B) : B[i] \in {B[j] : j \in DOMAIN B} BY <1>1
  <1> QED BY <1>1, <1>2 DEF Listed

LEMMA ListedPlaces ==
  ASSUME NEW B, Listed(B)
  PROVE  Len(B) \in Nat /\ DOMAIN B = 1 .. Len(B) /\ DOMAIN B \subseteq Nat \ {0}
  BY DEF Listed

\* The oldest open twin is a bead of that content.
LEMMA TwinFound ==
  ASSUME NEW content, Listed(bead), Twins(content) # {}
  PROVE  Min(Twins(content)) \in Id /\ bead[Min(Twins(content))].key = content
  <1>1. Twins(content) \in SUBSET Nat BY ListedPlaces DEF Twins, Id
  <1>2. Min(Twins(content)) \in Twins(content) BY <1>1, MinIsIn
  <1> HIDE DEF Min
  <1> QED BY <1>2 DEF Twins

LEMMA FiledStays ==
  ASSUME NEW B, NEW B2, Grown(B, B2), NEW b, Filed(B, b)
  PROVE  Filed(B2, b)
  <1>1. \A i \in b.by.saw : i \in DOMAIN B BY DEF Filed
  <1>2. b.by.saw \subseteq DOMAIN B2 BY <1>1 DEF Grown
  <1>3. NoTwin(B2, b.by.saw, b.key) BY <1>1 DEF Filed, NoTwin, Grown
  <1> QED BY <1>2, <1>3 DEF Filed

LEMMA GrownSame == \A B : Grown(B, B)
  BY DEF Grown

LEMMA RaisedSame == \A P : Raised(P, P)
  BY DEF Raised

\* A bead is added at the end.
LEMMA AppendGrows ==
  ASSUME NEW B, NEW L, BeadsSound(B, L), NEW b, Filed(B, b), NEW B2, B2 = Append(B, b)
  PROVE  /\ Grown(B, B2) /\ BeadsSound(B2, L)
         /\ Len(B) + 1 \in DOMAIN B2 /\ B2[Len(B) + 1] = b
  <1>1. Len(B) \in Nat /\ DOMAIN B = 1 .. Len(B) BY ListedPlaces DEF BeadsSound
  <1> DEFINE S == {B[i] : i \in DOMAIN B} \union {b}
  <1>2. B \in Seq(S)
    <2>1. B \in Seq({B[i] : i \in DOMAIN B}) BY DEF BeadsSound, Listed
    <2> QED BY <1>1, <2>1
  <1>3. /\ DOMAIN B2 = 1 .. Len(B) + 1 /\ B2[Len(B) + 1] = b
        /\ \A i \in 1 .. Len(B) : B2[i] = B[i]
        /\ B2 \in Seq(S) /\ Len(B2) = Len(B) + 1
    <2> HIDE DEF S
    <2>1. b \in S BY DEF S
    <2> QED BY <1>1, <1>2, <2>1
  <1>4. Grown(B, B2) BY <1>1, <1>3 DEF Grown
  <1>5. Listed(B2) BY <1>3, ListedBy
  <1>6. \A i \in DOMAIN B2 : i \in DOMAIN B \/ i = Len(B) + 1 BY <1>1, <1>3
  <1>7. \A i \in DOMAIN B : B2[i] = B[i] BY <1>1, <1>3
  <1>8. \A i \in DOMAIN B2 : Filed(B2, B2[i])
    <2>1. \A i \in DOMAIN B2 : Filed(B, B2[i]) BY <1>3, <1>6, <1>7 DEF BeadsSound
    <2> QED BY <1>4, <2>1, FiledStays
  <1>9. \A x \in L : Filed(B2, x) BY <1>4, FiledStays DEF BeadsSound
  <1> QED BY <1>1, <1>3, <1>4, <1>5, <1>8, <1>9 DEF BeadsSound

\* A bead is written to: nothing that others rely on changes.
Rewritten(b, d) ==
  /\ DOMAIN d = BeadFields
  /\ d.key = b.key /\ d.by = b.by /\ d.store = b.store /\ d.title = b.title /\ d.slug = b.slug
  /\ d.parent = b.parent
  /\ b.texts \subseteq d.texts /\ (b.prio => d.prio) /\ (b.old => d.old)

LEMMA RewriteGrows ==
  ASSUME NEW B, NEW L, BeadsSound(B, L), NEW i \in DOMAIN B, NEW d, Rewritten(B[i], d),
         NEW B2, B2 = [B EXCEPT ![i] = d]
  PROVE  Grown(B, B2) /\ BeadsSound(B2, L)
  <1>1. DOMAIN B2 = DOMAIN B /\ B2[i] = d /\ \A j \in DOMAIN B : j # i => B2[j] = B[j] OBVIOUS
  <1>2. Grown(B, B2) BY <1>1 DEF Grown, Rewritten
  <1>3. Listed(B2)
    <2>1. Len(B) \in Nat /\ DOMAIN B = 1 .. Len(B) BY ListedPlaces DEF BeadsSound
    <2> DEFINE S == {B[j] : j \in DOMAIN B} \union {d}
    <2>2. B \in Seq(S)
      <3>1. B \in Seq({B[j] : j \in DOMAIN B}) BY DEF BeadsSound, Listed
      <3> QED BY <2>1, <3>1
    <2>3. B2 \in Seq(S) /\ Len(B2) = Len(B)
      <3>1. d \in S OBVIOUS
      <3> HIDE DEF S
      <3> QED BY <2>1, <2>2, <3>1
    <2> QED BY <2>3, ListedBy
  <1>4. \A j \in DOMAIN B2 : Filed(B, B2[j])
    <2>1. Filed(B, B[i]) BY DEF BeadsSound
    <2>2. Filed(B, d) BY <2>1 DEF Filed, Rewritten
    <2> QED BY <1>1, <2>2 DEF BeadsSound
  <1> QED BY <1>2, <1>3, <1>4, FiledStays DEF BeadsSound

\* The projects are as sound as before when the beads grow.
LEMMA ProjectsStay ==
  ASSUME NEW B, NEW B2, Grown(B, B2), NEW P, ProjectsSound(B, P)
  PROVE  ProjectsSound(B2, P)
  <1>1. \A p \in Project : (\E i \in DOMAIN B : B[i].slug \in Names(P, p)) =>
                           \E i \in DOMAIN B2 : B2[i].slug \in Names(P, p)
    BY DEF Grown
  <1> QED BY <1>1 DEF ProjectsSound

\* A project is written to.
Amended(q, d) ==
  /\ DOMAIN d = ProjectFields /\ d.title \in d.titles /\ None \notin d.titles
  /\ q.titles \subseteq d.titles /\ q.texts \subseteq d.texts /\ (q.foreground => d.foreground)

LEMMA AmendRaises ==
  ASSUME NEW B, NEW P, ProjectsSound(B, P), NEW p \in Project, NEW d, Amended(P[p], d),
         NEW P2, P2 = [P EXCEPT ![p] = d],
         d.foreground => P[p].foreground \/ \E i \in DOMAIN B : B[i].slug \in Names(P, p)
  PROVE  Raised(P, P2) /\ ProjectsSound(B, P2)
  <1>1. P2 = [q \in Project |-> P2[q]] /\ P2[p] = d /\ \A q \in Project : q # p => P2[q] = P[q]
    BY DEF ProjectsSound
  <1>2. Raised(P, P2) BY <1>1 DEF Raised, Amended
  <1>3. \A q \in Project : Names(P, q) \subseteq Names(P2, q) BY <1>2 DEF Names, Raised
  <1>4. \A q \in Project : q \notin Foreground /\ P2[q].foreground => \E i \in DOMAIN B : B[i].slug \in Names(P2, q)
    <2> TAKE q \in Project
    <2> HAVE q \notin Foreground /\ P2[q].foreground
    <2>1. \E i \in DOMAIN B : B[i].slug \in Names(P, q) BY <1>1 DEF ProjectsSound
    <2> QED BY <1>3, <2>1
  <1> QED BY <1>1, <1>2, <1>4 DEF ProjectsSound, Amended

---------------------------------------------------------------------------
(* What a call has about the stores stays as they grow. *)

LEMMA CallStays ==
  ASSUME NEW B, NEW P, NEW B2, NEW P2, Grown(B, B2), Raised(P, P2),
         NEW c, NEW r, RelayCall(B, P, c, r)
  PROVE  RelayCall(B2, P2, c, r)
  <1> USE DEF RelayCall
  <1>1. r.saw \subseteq DOMAIN B2 BY DEF Grown
  <1>2. Homed(P2, r) BY DEF Homed, Names, Raised
  <1>3. InMaking(B2, r)
    <2>1. NoTwin(B, r.saw, r.make) => NoTwin(B2, r.saw, r.make)
      <3>1. \A i \in r.saw : i \in DOMAIN B OBVIOUS
      <3> QED BY <3>1 DEF NoTwin, Grown
    <2> QED BY <2>1 DEF InMaking, Grown
  <1>4. \A i, arg, slug : HoldingIn(B, i, arg, slug) => HoldingIn(B2, i, arg, slug)
    BY DEF HoldingIn, Grown
  <1>5. InHand(B2, r) BY <1>4 DEF InHand, Grown
  <1>6. Flowing(B2, r) BY DEF Flowing, Grown
  <1>7. Editing(P2, r)
    <2>1. r.p # None => r.p \in Project BY DEF Homed
    <2> QED BY <2>1 DEF Editing, Raised
  <1>8. Promoting(P2, c, r)
    <2>1. r.p # None => r.p \in Project BY DEF Homed
    <2> QED BY <2>1 DEF Promoting, Raised
  <1>9. Answering(B2, r) BY <1>4 DEF Answering
  <1> QED BY <1>1, <1>2, <1>3, <1>5, <1>6, <1>7, <1>8, <1>9

LEMMA CalledStays ==
  ASSUME NEW B, NEW P, NEW B2, NEW P2, Grown(B, B2), Raised(P, P2),
         NEW c, NEW r, Called(B, P, c, r)
  PROVE  Called(B2, P2, c, r)
  BY CallStays DEF Called

---------------------------------------------------------------------------
(* How a call goes on. *)

\* What an answer of success has to have behind it.
Owed(B, P, r) ==
  /\ r.tool \in {"capture", "upsert"} => HoldingIn(B, r.id, r.arg, r.slug)
  /\ r.tool = "flow" =>
       /\ r.task \in DOMAIN B /\ (r.arg.prio => B[r.task].prio)
       /\ r.arg.dispatch => r.dispatch \in DOMAIN B /\ B[r.dispatch].title = DispatchFor(None, r.task)
  /\ r.tool = "edit" =>
       r.p # None /\ ~r.bad /\ \A e \in r.arg.edits : <<e.step, e.to>> \in P[r.p].texts

LEMMA AnsweredCall ==
  ASSUME NEW B, NEW P, NEW c, NEW r, RelayCall(B, P, c, r), r.pc # "note", r.stage # "resolve",
         NEW outcome, outcome = "ok" => Owed(B, P, r)
  PROVE  RelayCall(B, P, c, Answered(r, outcome))
  <1> DEFINE q == Answered(r, outcome)
  <1> USE DEF RelayCall
  <1>1. /\ DOMAIN q = CallFields /\ q.pc = "done" /\ q.outcome = outcome
        /\ q.tool = r.tool /\ q.arg = r.arg /\ q.stage = r.stage /\ q.p = r.p /\ q.slug = r.slug
        /\ q.id = r.id /\ q.then = r.then /\ q.make = r.make /\ q.saw = r.saw /\ q.task = r.task
        /\ q.dispatch = r.dispatch /\ q.promoted = r.promoted /\ q.bad = r.bad
    BY DEF Answered, Placed, CallFields
  <1> HIDE DEF q
  <1>2. Placed(q)
    BY <1>1 DEF Placed, RelayPlaces, MakingPlaces, HeldPlaces, EditPlaces
  <1>3. Homed(P, q) BY <1>1 DEF Homed
  <1>4. InMaking(B, q) /\ InHand(B, q) BY <1>1 DEF InMaking, InHand, MakingPlaces, HeldPlaces
  <1>5. Flowing(B, q) BY <1>1 DEF Flowing, Owed
  <1>6. Editing(P, q)
    <2>1. q.pc \notin EditPlaces BY <1>1 DEF EditPlaces
    <2> QED BY <1>1, <2>1 DEF Editing, Owed
  <1>7. Promoting(P, c, q) BY <1>1 DEF Promoting
  <1>8. Answering(B, q) BY <1>1 DEF Answering, Owed
  <1> QED BY <1>1, <1>2, <1>3, <1>4, <1>5, <1>6, <1>7, <1>8 DEF q

\* A call at a place where nothing is in hand owes nothing.
LEMMA OnwardCall ==
  ASSUME NEW B, NEW P, NEW c, NEW r, RelayCall(B, P, c, r), r.pc # "note",
         NEW q, Placed(q), Homed(P, q), q.saw \subseteq r.saw,
         q.tool = r.tool, q.arg = r.arg, q.promoted = r.promoted,
         q.tool # "flow" => (q.p = r.p \/ r.pc = "lookup") /\ q.pc # "lookup",
         q.pc \in {"lookup", "looked", "dups", "attach", "failed", "text"},
         q.pc = "text" => q.p # None,
         q.stage = "dispatch" => q.tool # "flow" \/ (q.task \in DOMAIN B /\ (q.arg.prio => B[q.task].prio))
  PROVE  RelayCall(B, P, c, q)
  <1> USE DEF RelayCall
  <1>1. InMaking(B, q) /\ InHand(B, q)
    BY DEF InMaking, InHand, MakingPlaces, HeldPlaces
  <1>2. Flowing(B, q) BY DEF Flowing
  <1>3. Editing(P, q)
    <2>1. q.pc \in EditPlaces => q.pc = "text" BY DEF EditPlaces
    <2>2. Before("text") = {} BY DEF Before
    <2> QED BY <2>1, <2>2 DEF Editing
  <1>4. Promoting(P, c, q)
    <2>1. q.tool \in {"capture", "upsert"} => q.tool # "flow" OBVIOUS
    <2> QED BY <2>1 DEF Promoting
  <1>5. Answering(B, q) BY DEF Answering
  <1> QED BY <1>1, <1>2, <1>3, <1>4, <1>5

LEMMA Tools ==
  ASSUME NEW r, Placed(r)
  PROVE  r.tool \in {"capture", "upsert", "dispatch", "flow", "edit"} /\ (r.tool = "capture" => ~r.arg.prio)
  BY RequestAssumption DEF Placed

\* A function of a tool throws.
LEMMA ThrewCall ==
  ASSUME NEW B, NEW P, NEW c, NEW r, RelayCall(B, P, c, r), r.pc # "note"
  PROVE  RelayCall(B, P, c, Threw(r))
  <1>1. Placed(r) BY DEF RelayCall
  <1>2. CASE r.tool # "flow"
    <2>1. r.stage # "resolve" BY <1>1, <1>2, Tools DEF Placed
    <2>2. Threw(r) = Answered(r, "error") BY <1>2 DEF Threw
    <2> QED BY <2>1, <2>2, AnsweredCall
  <1>3. CASE r.tool = "flow" /\ r.stage # "resolve"
    <2>1. Threw(r) = Answered(r, "partial") BY <1>3 DEF Threw
    <2> QED BY <1>3, <2>1, AnsweredCall
  <1>4. CASE r.tool = "flow" /\ r.stage = "resolve"
    <2> DEFINE q == [r EXCEPT !.bad = TRUE, !.stage = "upsert", !.pc = "lookup"]
    <2>1. Threw(r) = q BY <1>4 DEF Threw
    <2>2. /\ DOMAIN q = CallFields /\ q.pc = "lookup" /\ q.stage = "upsert" /\ q.tool = r.tool
          /\ q.arg = r.arg /\ q.p = r.p /\ q.slug = r.slug /\ q.saw = r.saw /\ q.promoted = r.promoted
      BY <1>1 DEF Placed, CallFields
    <2> HIDE DEF q
    <2>3. Placed(q) BY <1>1, <1>4, <2>2 DEF Placed, RelayPlaces, EditPlaces
    <2>4. Homed(P, q) BY <2>2 DEF RelayCall, Homed
    <2>5. RelayCall(B, P, c, q) BY <1>4, <2>2, <2>3, <2>4, OnwardCall
    <2> QED BY <2>1, <2>5
  <1> QED BY <1>2, <1>3, <1>4

\* It returns, with what it was called for.
LEMMA ReturnedCall ==
  ASSUME NEW B, NEW P, NEW c, NEW r, RelayCall(B, P, c, r), r.pc # "note",
         r.stage \in {"capture", "upsert"} => HoldingIn(B, r.id, r.arg, r.slug),
         r.stage = "dispatch" /\ r.tool = "flow" =>
           r.id \in DOMAIN B /\ B[r.id].title = DispatchFor(None, r.task),
         r.tool = "edit" => r.p # None /\ (r.bad \/ \A e \in r.arg.edits : <<e.step, e.to>> \in P[r.p].texts)
  PROVE  RelayCall(B, P, c, Returned(r))
  <1>1. Placed(r) BY DEF RelayCall
  <1>2. CASE r.tool # "flow"
    <2>1. r.stage = r.tool /\ r.stage # "resolve" BY <1>1, <1>2, Tools DEF Placed
    <2>2. Returned(r) = Answered(r, IF r.bad THEN "partial" ELSE "ok") BY <1>2 DEF Returned
    <2>3. ~r.bad => Owed(B, P, r) BY <1>2, <2>1 DEF Owed
    <2> QED BY <2>1, <2>2, <2>3, AnsweredCall
  <1>3. CASE r.tool = "flow" /\ r.stage = "resolve"
    <2> DEFINE q == [r EXCEPT !.stage = "upsert", !.ref = IF r.p = None THEN r.arg.ref ELSE r.p,
                              !.pc = IF r.p = None THEN "looked" ELSE "lookup"]
    <2>1. Returned(r) = q BY <1>3 DEF Returned
    <2>2. /\ DOMAIN q = CallFields /\ q.pc \in {"looked", "lookup"} /\ q.stage = "upsert" /\ q.tool = r.tool
          /\ q.arg = r.arg /\ q.p = r.p /\ q.slug = r.slug /\ q.saw = r.saw /\ q.promoted = r.promoted
      BY <1>1 DEF Placed, CallFields
    <2> HIDE DEF q
    <2>3. Placed(q) BY <1>1, <1>3, <2>2 DEF Placed, RelayPlaces, EditPlaces
    <2>4. Homed(P, q) BY <2>2 DEF RelayCall, Homed
    <2>5. RelayCall(B, P, c, q) BY <1>3, <2>2, <2>3, <2>4, OnwardCall
    <2> QED BY <2>1, <2>5
  <1>4. CASE r.tool = "flow" /\ r.stage = "upsert"
    <2> DEFINE q == [r EXCEPT !.task = r.id, !.pc = IF r.bad /\ r.slug # None THEN "relist" ELSE "next"]
    <2>1. Returned(r) = q BY <1>4 DEF Returned
    <2>2. /\ DOMAIN q = CallFields /\ q.pc \in {"relist", "next"} /\ q.stage = r.stage /\ q.tool = r.tool
          /\ q.arg = r.arg /\ q.p = r.p /\ q.slug = r.slug /\ q.saw = r.saw /\ q.task = r.id
      BY <1>1 DEF Placed, CallFields
    <2> HIDE DEF q
    <2>3. Placed(q)
      BY <1>1, <1>4, <2>2 DEF Placed, RelayPlaces, EditPlaces
    <2>4. Homed(P, q) BY <2>2 DEF RelayCall, Homed
    <2>5. InMaking(B, q) /\ InHand(B, q) BY <2>2 DEF InMaking, InHand, MakingPlaces, HeldPlaces
    <2>6. Flowing(B, q) BY <1>4, <2>2 DEF Flowing, HoldingIn
    <2>7. Editing(P, q) /\ Promoting(P, c, q) /\ Answering(B, q)
      BY <1>4, <2>2 DEF Editing, Promoting, Answering
    <2>8. q.saw \subseteq DOMAIN B BY <2>2 DEF RelayCall
    <2> QED BY <2>1, <2>3, <2>4, <2>5, <2>6, <2>7, <2>8 DEF RelayCall
  <1>5. CASE r.tool = "flow" /\ r.stage = "dispatch"
    <2> DEFINE q == [r EXCEPT !.dispatch = r.id]
    <2>1. Returned(r) = Answered(q, IF q.bad THEN "partial" ELSE "ok")
      <3>1. q.bad = r.bad BY <1>1 DEF Placed, CallFields
      <3> QED BY <1>5, <3>1 DEF Returned
    <2>2. /\ DOMAIN q = CallFields /\ q.pc = r.pc /\ q.stage = r.stage /\ q.tool = r.tool /\ q.outcome = r.outcome
          /\ q.arg = r.arg /\ q.p = r.p /\ q.slug = r.slug /\ q.saw = r.saw /\ q.task = r.task /\ q.id = r.id
          /\ q.make = r.make /\ q.then = r.then /\ q.dispatch = r.id
      BY <1>1 DEF Placed, CallFields
    <2> HIDE DEF q
    <2>3. Placed(q) BY <1>1, <2>2 DEF Placed
    <2>4. Homed(P, q) /\ q.saw \subseteq DOMAIN B BY <2>2 DEF RelayCall, Homed
    <2>5. InMaking(B, q) BY <2>2 DEF RelayCall, InMaking, Asks
    <2>6. InHand(B, q) BY <2>2 DEF RelayCall, InHand
    <2>7. Flowing(B, q) BY <1>5, <2>2 DEF RelayCall, Flowing
    <2>8. Editing(P, q) /\ Promoting(P, c, q) /\ Answering(B, q)
      BY <1>5, <2>2 DEF Editing, Promoting, Answering
    <2>9. RelayCall(B, P, c, q) BY <2>3, <2>4, <2>5, <2>6, <2>7, <2>8 DEF RelayCall
    <2>10. Owed(B, P, q) BY <1>5, <2>2 DEF Owed, RelayCall, Flowing
    <2> QED BY <1>5, <2>1, <2>2, <2>9, <2>10, AnsweredCall
  <1> QED BY <1>1, <1>2, <1>3, <1>4, <1>5 DEF Placed

---------------------------------------------------------------------------
(* One client's step keeps what the others have. *)

LEMMA TurnKeeps ==
  ASSUME RelayInv, NEW c \in Caller, NEW q, Turn(c, q),
         Grown(bead, bead'), Raised(project, project'),
         BeadsSound(bead', late'), ProjectsSound(bead', project'),
         Called(bead', project', c, q)
  PROVE  RelayInv'
  <1>1. call' = [d \in Caller |-> call'[d]] /\ call'[c] = q /\ \A d \in Caller : d # c => call'[d] = call[d]
    BY DEF RelayInv, Turn
  <1>2. \A d \in Caller : Called(bead', project', d, call'[d])
    BY <1>1, CalledStays DEF RelayInv
  <1> QED BY <1>1, <1>2 DEF RelayInv

LEMMA ReadKeeps ==
  ASSUME RelayInv, NEW c \in Caller, NEW q, Turn(c, q), Reads, Called(bead, project, c, q)
  PROVE  RelayInv'
  <1>1. bead' = bead /\ late' = late /\ project' = project BY DEF Reads
  <1> QED BY <1>1, TurnKeeps, GrownSame, RaisedSame DEF RelayInv

LEMMA BeadTurnKeeps ==
  ASSUME RelayInv, NEW c \in Caller, NEW q, Turn(c, q), UNCHANGED <<late, project>>,
         NEW i \in Id, NEW d, Rewritten(bead[i], d), bead' = [bead EXCEPT ![i] = d],
         Called(bead', project, c, q)
  PROVE  RelayInv'
  <1>1. late' = late /\ project' = project OBVIOUS
  <1>2. Grown(bead, bead') /\ BeadsSound(bead', late) BY RewriteGrows DEF RelayInv, Id
  <1>3. ProjectsSound(bead', project) BY <1>2, ProjectsStay DEF RelayInv
  <1> QED BY <1>1, <1>2, <1>3, TurnKeeps, RaisedSame

LEMMA ProjectTurnKeeps ==
  ASSUME RelayInv, NEW c \in Caller, NEW q, Turn(c, q), UNCHANGED <<bead, late>>,
         NEW p \in Project, NEW d, Amended(project[p], d), project' = [project EXCEPT ![p] = d],
         d.foreground => project[p].foreground \/ \E i \in Id : bead[i].slug \in Names(project, p),
         Called(bead, project', c, q)
  PROVE  RelayInv'
  <1>1. bead' = bead /\ late' = late OBVIOUS
  <1>2. Raised(project, project') /\ ProjectsSound(bead, project') BY AmendRaises DEF RelayInv, Id
  <1> QED BY <1>1, <1>2, TurnKeeps, GrownSame DEF RelayInv

\* A call at one of the relay's own places is the relay's.
LEMMA AtRelay ==
  ASSUME RelayInv, NEW c \in Caller, call[c].pc \in RelayPlaces \ BatchPlaces
  PROVE  RelayCall(bead, project, c, call[c])
  <1>1. "idle" \notin RelayPlaces BY DEF RelayPlaces, MakingPlaces, HeldPlaces, EditPlaces
  <1>2. Idle.pc = "idle" BY DEF Idle
  <1> QED BY <1>1, <1>2 DEF RelayInv, Called, BatchCall

---------------------------------------------------------------------------
(* The look-up of a project. *)

LEMMA MatchesAreProjects == \A ref : Matches(ref) \subseteq Project
  <1> TAKE ref
  <1> DEFINE tiers == << {p \in Project : p = ref}, {p \in Project : Slug(p) = ref},
                         {p \in Project : project[p].title = ref}, {p \in Project : ref \in Alias[p]} >>
             hit == {i \in DOMAIN tiers : tiers[i] # {}}
  <1>1. Matches(ref) = IF hit = {} \/ Cardinality(tiers[Min(hit)]) > 1 THEN {} ELSE tiers[Min(hit)]
    BY DEF Matches
  <1>2. DOMAIN tiers = 1 .. 4 OBVIOUS
  <1>3. \A i \in 1 .. 4 : tiers[i] \subseteq Project
    <2>1. \A i \in 1 .. 4 : i = 1 \/ i = 2 \/ i = 3 \/ i = 4 OBVIOUS
    <2> QED BY <2>1
  <1>4. hit # {} => Min(hit) \in hit
    <2>1. hit \in SUBSET Nat BY <1>2
    <2> HIDE DEF hit
    <2> QED BY <2>1, MinIsIn
  <1>5. hit \subseteq 1 .. 4 BY <1>2
  <1> HIDE DEF tiers, hit
  <1> QED BY <1>1, <1>3, <1>4, <1>5

LEMMA LookupKeeps ==
  ASSUME RelayInv, NEW c \in Caller, Lookup(c)
  PROVE  RelayInv'
  <1> DEFINE r == call[c] ms == Matches(r.ref)
  <1>1. r.pc = "lookup" /\ Reads BY DEF Lookup, At
  <1>2. RelayCall(bead, project, c, r) BY <1>1, AtRelay DEF RelayPlaces, BatchPlaces
  <1>3. RelayCall(bead, project, c, Threw(r)) BY <1>1, <1>2, ThrewCall
  <1>4. CASE Turn(c, Threw(r)) BY <1>1, <1>3, <1>4, ReadKeeps DEF Called
  <1>5. CASE ms # {} /\ \E p \in ms : Turn(c, [r EXCEPT !.pc = "looked", !.p = p, !.slug = Slug(p),
                                                        !.backlog = ~project[p].foreground])
    <2>1. PICK p \in ms : Turn(c, [r EXCEPT !.pc = "looked", !.p = p, !.slug = Slug(p),
                                            !.backlog = ~project[p].foreground])
      BY <1>5
    <2>2. p \in Project /\ p # None BY MatchesAreProjects, RelayAssumption
    <2>3. Slug(p) \in Names(project, p) /\ Slug(p) # None
      BY <2>2 DEF Slug, Names, RelayInv, ProjectsSound
    <2> DEFINE q == [r EXCEPT !.pc = "looked", !.p = p, !.slug = Slug(p), !.backlog = ~project[p].foreground]
    <2>4. Placed(r) BY <1>2 DEF RelayCall
    <2>5. /\ DOMAIN q = CallFields /\ q.pc = "looked" /\ q.stage = r.stage /\ q.tool = r.tool /\ q.task = r.task
          /\ q.arg = r.arg /\ q.p = p /\ q.slug = Slug(p) /\ q.saw = r.saw /\ q.promoted = r.promoted
      BY <2>4 DEF Placed, CallFields
    <2> HIDE DEF q
    <2>6. Placed(q) BY <1>1, <2>2, <2>4, <2>5 DEF Placed, RelayPlaces, EditPlaces
    <2>7. Homed(project, q) BY <2>2, <2>3, <2>5 DEF Homed
    <2>8. q.stage = "dispatch" => q.tool # "flow" \/ (q.task \in DOMAIN bead /\ (q.arg.prio => bead[q.task].prio))
      BY <1>2, <2>5 DEF RelayCall, Flowing
    <2>9. RelayCall(bead, project, c, q) BY <1>1, <1>2, <2>5, <2>6, <2>7, <2>8, OnwardCall
    <2> QED BY <1>1, <2>1, <2>9, ReadKeeps DEF Called, q
  <1> QED BY <1>4, <1>5 DEF Lookup

---------------------------------------------------------------------------
(* A call goes off to make a bead. *)

LEMMA MakingCall ==
  ASSUME NEW c, NEW r, RelayCall(bead, project, c, r), r.pc \in {"looked", "dups", "attach"}, r.stage \in Makes,
         NEW content, Asks(r, content), NEW saw, saw \subseteq r.saw, NoTwin(bead, saw, content),
         NEW q, \/ q = Making(r, content, "made") /\ saw = r.saw
                \/ q = Making([r EXCEPT !.saw = saw], content, "made")
  PROVE  RelayCall(bead, project, c, q)
  <1>1. Placed(r) BY DEF RelayCall
  <1>2. /\ DOMAIN q = CallFields /\ q.pc = "twin" /\ q.make = content /\ q.then = "made" /\ q.saw = saw
        /\ q.tool = r.tool /\ q.arg = r.arg /\ q.stage = r.stage /\ q.p = r.p /\ q.slug = r.slug
        /\ q.task = r.task /\ q.promoted = r.promoted
    <2>1. CASE q = Making(r, content, "made") /\ saw = r.saw
      BY <1>1, <2>1 DEF Placed, CallFields, Making
    <2>2. CASE q = Making([r EXCEPT !.saw = saw], content, "made")
      BY <1>1, <2>2 DEF Placed, CallFields, Making
    <2> QED BY <2>1, <2>2
  <1>3. Placed(q)
    <2>1. r.tool # "edit" BY <1>1 DEF Placed, Makes
    <2> QED BY <1>1, <1>2, <2>1 DEF Placed, RelayPlaces, MakingPlaces, EditPlaces, Makes
  <1>4. Homed(project, q) BY <1>2 DEF RelayCall, Homed
  <1>5. InMaking(bead, q)
    <2>1. Asks(q, content) BY <1>2 DEF Asks
    <2> QED BY <1>2, <2>1 DEF InMaking
  <1>6. InHand(bead, q) /\ Answering(bead, q) BY <1>2 DEF InHand, Answering, HeldPlaces
  <1>7. Flowing(bead, q) BY <1>2 DEF RelayCall, Flowing
  <1>8. Editing(project, q) BY <1>2 DEF Editing, EditPlaces
  <1>9. Promoting(project, c, q) BY <1>2 DEF RelayCall, Promoting
  <1>10. q.saw \subseteq DOMAIN bead BY <1>2 DEF RelayCall
  <1> QED BY <1>3, <1>4, <1>5, <1>6, <1>7, <1>8, <1>9, <1>10 DEF RelayCall

LEMMA TaskIsOne == \A t, u, n, m :
    /\ Task(t).kind = "task" /\ Task(t).of = t /\ DispatchFor(t, n).kind = "dispatch"
    /\ n # 0 => DispatchFor(t, n) = DispatchFor(None, n)
  BY DEF Task, DispatchFor

LEMMA LookedKeeps ==
  ASSUME RelayInv, NEW c \in Caller, Looked(c)
  PROVE  RelayInv'
  <1> DEFINE r == call[c]
  <1>1. r.pc = "looked" /\ Reads BY DEF Looked, At
  <1>2. RelayCall(bead, project, c, r) BY <1>1, AtRelay DEF RelayPlaces, BatchPlaces
  <1>3. Placed(r) BY <1>2 DEF RelayCall
  <1>4. r.stage \in {"resolve", "capture", "upsert", "dispatch", "edit"} BY <1>3, Tools DEF Placed
  <1> DEFINE Onto(pc) == [r EXCEPT !.pc = pc]
  <1>5. \A pc : /\ DOMAIN Onto(pc) = CallFields /\ Onto(pc).pc = pc /\ Onto(pc).stage = r.stage
                /\ Onto(pc).tool = r.tool /\ Onto(pc).task = r.task /\ Onto(pc).arg = r.arg
                /\ Onto(pc).p = r.p /\ Onto(pc).slug = r.slug /\ Onto(pc).saw = r.saw
                /\ Onto(pc).promoted = r.promoted
    BY <1>3 DEF Placed, CallFields
  <1>6. ASSUME NEW pc, \/ pc = "dups" /\ r.stage = "upsert"
                       \/ pc = "attach" /\ r.stage = "dispatch"
                       \/ pc = "text" /\ r.stage = "edit",
               Turn(c, Onto(pc))
        PROVE  RelayInv'
    <2> DEFINE q == Onto(pc)
    <2>1. /\ DOMAIN q = CallFields /\ q.pc = pc /\ q.stage = r.stage /\ q.tool = r.tool /\ q.task = r.task
          /\ q.arg = r.arg /\ q.p = r.p /\ q.slug = r.slug /\ q.saw = r.saw /\ q.promoted = r.promoted
      BY <1>5
    <2> HIDE DEF q
    <2>2. Placed(q) BY <1>1, <1>3, <1>6, <2>1 DEF Placed, RelayPlaces, EditPlaces
    <2>3. Homed(project, q) BY <1>2, <2>1 DEF RelayCall, Homed
    <2>4. q.pc = "text" => q.p # None BY <1>1, <1>3, <1>6, <2>1 DEF Placed
    <2>5. q.stage = "dispatch" => q.tool # "flow" \/ (q.task \in DOMAIN bead /\ (q.arg.prio => bead[q.task].prio))
      BY <1>2, <2>1 DEF RelayCall, Flowing
    <2>6. RelayCall(bead, project, c, q) BY <1>1, <1>2, <1>6, <2>1, <2>2, <2>3, <2>4, <2>5, OnwardCall
    <2> QED BY <1>1, <1>6, <2>6, ReadKeeps DEF Called, q
  <1>7. CASE r.stage = "resolve"
    <2>1. Turn(c, Returned(r)) BY <1>7 DEF Looked
    <2>2. r.tool = "flow" BY <1>3, <1>7, Tools DEF Placed
    <2>3. RelayCall(bead, project, c, Returned(r)) BY <1>1, <1>2, <1>7, <2>2, ReturnedCall
    <2> QED BY <1>1, <2>1, <2>3, ReadKeeps DEF Called
  <1>8. CASE r.stage = "capture"
    <2> DEFINE content == Content("brain", Task(r.arg.title), r.arg.body, r.slug, FALSE, 0)
    <2>1. Turn(c, Making(r, content, "made")) BY <1>8 DEF Looked
    <2>2. Asks(r, content) BY <1>8 DEF Asks
    <2>3. NoTwin(bead, r.saw, content)
      <3>1. content.store = "brain" BY DEF Content
      <3>2. \A i \in r.saw : bead[i].key.store = bead[i].store
        BY <1>2 DEF RelayCall, RelayInv, BeadsSound, Filed
      <3> HIDE DEF content
      <3> QED BY <3>1, <3>2 DEF NoTwin
    <2>4. RelayCall(bead, project, c, Making(r, content, "made"))
      BY <1>1, <1>2, <1>8, <2>2, <2>3, MakingCall DEF Makes
    <2> QED BY <1>1, <2>1, <2>4, ReadKeeps DEF Called
  <1>9. CASE r.stage = "upsert"
    <2>1. Turn(c, Onto("dups")) BY <1>9 DEF Looked
    <2> QED BY <1>6, <1>9, <2>1
  <1>10. CASE r.stage = "dispatch"
    <2>1. Turn(c, Onto("attach")) BY <1>10 DEF Looked
    <2> QED BY <1>6, <1>10, <2>1
  <1>11. CASE r.stage = "edit"
    <2>1. Turn(c, Onto("text")) BY <1>11 DEF Looked
    <2> QED BY <1>6, <1>11, <2>1
  <1> QED BY <1>4, <1>7, <1>8, <1>9, <1>10, <1>11

---------------------------------------------------------------------------
(* The search for duplicates. *)

LEMMA ScoresAreSmall ==
  /\ \A t, u : Score(t, u) \in 0 .. 3 /\ Score(t, t) = 3
  /\ \A i, t : Likeness(i, t) \in 0 .. 3
  <1>1. \A t, u : Score(t, u) \in 0 .. 3 /\ Score(t, t) = 3 BY DEF Score
  <1>2. \A n \in 0 .. 3 : Min({2, n}) \in 0 .. 3
    <2> TAKE n \in 0 .. 3
    <2>1. {2, n} \in SUBSET Nat /\ {2, n} # {} /\ {2, n} \subseteq 0 .. 3 OBVIOUS
    <2>2. Min({2, n}) \in {2, n} BY <2>1, MinIsIn
    <2> HIDE DEF Min
    <2> QED BY <2>1, <2>2
  <1> HIDE DEF Min, Score
  <1>3. \A i, t : Likeness(i, t) \in 0 .. 3 BY <1>1, <1>2 DEF Likeness
  <1> QED BY <1>1, <1>3

\* The search tells if a task of that very title is there.
LEMMA DuplicateTells ==
  ASSUME RelayInv, NEW t, NEW slug, NEW i \in Id, bead[i].key.store = "task",
         bead[i].key.title = Task(t), bead[i].key.slug = slug
  PROVE  Duplicate(t, Scoped(t, slug)) # 0
  <1>1. bead[i].store = "task" /\ bead[i].title = Task(t) /\ bead[i].slug = slug
    BY DEF RelayInv, BeadsSound, Filed, Id
  <1>2. Task(t).kind = "task" /\ Task(t).of = t BY TaskIsOne
  <1>3. i \in TaskRows(t, slug) BY <1>1, <1>2 DEF TaskRows
  <1> DEFINE rows == Scoped(t, slug)
             best == {k \in rows : Likeness(k, t) > 0 /\ \A j \in rows : Likeness(j, t) <= Likeness(k, t)}
  <1>4. i \in rows BY <1>3 DEF Scoped
  <1>5. Likeness(i, t) = 3
    <2>1. "task" # "dispatch" OBVIOUS
    <2> QED BY <1>1, <1>2, <2>1, ScoresAreSmall DEF Likeness
  <1>6. i \in best
    <2>1. \A j \in rows : Likeness(j, t) <= 3 BY ScoresAreSmall
    <2> QED BY <1>4, <1>5, <2>1
  <1>7. rows \subseteq Id BY DEF Scoped, TaskRows
  <1>8. best \in SUBSET (Nat \ {0}) BY <1>7, ListedPlaces DEF RelayInv, BeadsSound, Id
  <1>9. Duplicate(t, rows) = IF best = {} THEN 0 ELSE Min(best) BY DEF Duplicate
  <1> HIDE DEF best, rows
  <1>10. Min(best) \in best BY <1>6, <1>8, MinIsIn
  <1> HIDE DEF Min
  <1> QED BY <1>6, <1>8, <1>9, <1>10 DEF rows

\* What it finds is there, and in the project.
LEMMA DuplicateIsThere ==
  ASSUME RelayInv, NEW t, NEW rows, rows \subseteq Id, Duplicate(t, rows) # 0
  PROVE  Duplicate(t, rows) \in rows
  <1> DEFINE best == {k \in rows : Likeness(k, t) > 0 /\ \A j \in rows : Likeness(j, t) <= Likeness(k, t)}
  <1>1. Duplicate(t, rows) = IF best = {} THEN 0 ELSE Min(best) BY DEF Duplicate
  <1>2. best \in SUBSET Nat /\ best \subseteq rows
    BY ListedPlaces DEF RelayInv, BeadsSound, Id
  <1> HIDE DEF best
  <1>3. best # {} => Min(best) \in best BY <1>2, MinIsIn
  <1> HIDE DEF Min
  <1> QED BY <1>1, <1>2, <1>3

LEMMA ScopedRows == \A t, slug :
    /\ Scoped(t, slug) \subseteq Id
    /\ slug # None => \A i \in Scoped(t, slug) : bead[i].slug = slug
  BY DEF Scoped, TaskRows

---------------------------------------------------------------------------
(* A bead in hand. *)

LEMMA HandCall ==
  ASSUME NEW B, NEW P, NEW c, NEW q, Placed(q), q.saw \subseteq DOMAIN B, Homed(P, q),
         q.pc \in HeldPlaces, q.stage \in {"capture", "upsert"}, InHand(B, q), Promoting(P, c, q)
  PROVE  RelayCall(B, P, c, q)
  <1>1. q.pc \notin MakingPlaces \union EditPlaces \union {"relist", "next", "done"}
    BY DEF HeldPlaces, MakingPlaces, EditPlaces
  <1> QED BY <1>1 DEF RelayCall, InMaking, Flowing, Editing, Answering

LEMMA DupCheckKeeps ==
  ASSUME RelayInv, NEW c \in Caller, DupCheck(c)
  PROVE  RelayInv'
  <1> DEFINE r == call[c]
             new == Content("task", Task(r.arg.title), r.arg.body, r.slug, r.arg.prio, 0)
             rows == Scoped(r.arg.title, r.slug)
             dup == IF r.arg.allow THEN Duplicate(r.arg.title, rows) ELSE 0
             pc == IF r.arg.body # None \/ r.arg.prio THEN "edit" ELSE "comment"
  <1>1. r.pc = "dups" /\ Reads BY DEF DupCheck, At
  <1>2. RelayCall(bead, project, c, r) BY <1>1, AtRelay DEF RelayPlaces, BatchPlaces
  <1>3. Placed(r) /\ r.stage = "upsert" BY <1>1, <1>2 DEF RelayCall, Placed
  <1>4. Asks(r, new) BY <1>3 DEF Asks
  <1>5. CASE dup = 0 /\ Turn(c, Making(r, new, "made"))
    <2>1. NoTwin(bead, r.saw, new)
      <3> SUFFICES ASSUME NEW i \in r.saw, bead[i].store = "task",
                          <<bead[i].key.store, bead[i].key.title, bead[i].key.slug>>
                            = <<new.store, new.title, new.slug>>
                   PROVE FALSE
        BY DEF NoTwin
      <3>1. bead[i].key.store = "task" /\ bead[i].key.title = Task(r.arg.title) /\ bead[i].key.slug = r.slug
        BY DEF Content
      <3>2. i \in Id BY <1>2 DEF RelayCall, Id
      <3>3. Duplicate(r.arg.title, rows) # 0 BY <3>1, <3>2, DuplicateTells
      <3>4. ~r.arg.allow BY <1>5, <3>3
      <3> QED BY <1>3, <3>4 DEF Placed
    <2>2. RelayCall(bead, project, c, Making(r, new, "made"))
      BY <1>1, <1>2, <1>3, <1>4, <2>1, MakingCall DEF Makes
    <2> QED BY <1>1, <1>5, <2>2, ReadKeeps DEF Called
  <1>6. CASE dup # 0 /\ Turn(c, [r EXCEPT !.id = dup, !.pc = pc])
    <2>1. dup \in rows BY <1>6, ScopedRows, DuplicateIsThere
    <2>2. dup \in Id /\ (r.slug # None => bead[dup].slug = r.slug) BY <2>1, ScopedRows
    <2> DEFINE q == [r EXCEPT !.id = dup, !.pc = pc]
    <2>3. /\ DOMAIN q = CallFields /\ q.pc = pc /\ q.stage = r.stage /\ q.tool = r.tool /\ q.id = dup
          /\ q.arg = r.arg /\ q.p = r.p /\ q.slug = r.slug /\ q.saw = r.saw /\ q.promoted = r.promoted
      BY <1>3 DEF Placed, CallFields
    <2>4. pc \in {"edit", "comment"} /\ (pc = "comment" => ~r.arg.prio) OBVIOUS
    <2> HIDE DEF q, dup, pc
    <2>5. Placed(q)
      BY <1>3, <2>3, <2>4 DEF Placed, RelayPlaces, HeldPlaces, EditPlaces
    <2>6. Homed(project, q) /\ q.saw \subseteq DOMAIN bead BY <1>2, <2>3 DEF RelayCall, Homed
    <2>7. InHand(bead, q) BY <1>3, <2>2, <2>3, <2>4 DEF InHand, Id
    <2>8. Promoting(project, c, q) BY <1>1, <1>2, <2>3, <2>4 DEF RelayCall, Promoting
    <2>9. q.pc \in HeldPlaces BY <2>3, <2>4 DEF HeldPlaces
    <2>10. RelayCall(bead, project, c, q) BY <1>3, <2>3, <2>5, <2>6, <2>7, <2>8, <2>9, HandCall
    <2> QED BY <1>1, <1>6, <2>10, ReadKeeps DEF Called, q
  <1>7. CASE Turn(c, Making([r EXCEPT !.saw = {}], new, "made"))
    <2>1. NoTwin(bead, {}, new) BY DEF NoTwin
    <2>2. RelayCall(bead, project, c, Making([r EXCEPT !.saw = {}], new, "made"))
      BY <1>1, <1>2, <1>3, <1>4, <2>1, MakingCall DEF Makes
    <2> QED BY <1>1, <1>7, <2>2, ReadKeeps DEF Called
  <1> QED BY <1>5, <1>6, <1>7 DEF DupCheck

\* The duplicate in hand was written to as asked, or the write ended otherwise.
LEMMA WriteDupKeeps ==
  ASSUME RelayInv, NEW c \in Caller, call[c].pc \in {"edit", "comment"},
         NEW d, Rewritten(bead[call[c].id], d),
         call[c].arg.body \in d.texts \union {None}, call[c].arg.prio => d.prio,
         bead' = [bead EXCEPT ![call[c].id] = d], UNCHANGED <<late, project>>,
         NEW q, Turn(c, q),
         \/ q = Threw(call[c])
         \/ q = [call[c] EXCEPT !.pc = "comment"] /\ ~call[c].arg.prio
         \/ q = [call[c] EXCEPT !.pc = "label", !.then = "reread"]
  PROVE  RelayInv'
  <1> DEFINE r == call[c]
  <1>1. RelayCall(bead, project, c, r)
    BY AtRelay DEF RelayPlaces, HeldPlaces, BatchPlaces
  <1>2. Placed(r) /\ r.stage = "upsert" /\ r.id \in Id /\ (r.slug # None => bead[r.id].slug = r.slug)
    BY <1>1 DEF RelayCall, InHand, HeldPlaces, Id
  <1>3. Grown(bead, bead') /\ BeadsSound(bead', late) BY <1>2, RewriteGrows DEF RelayInv, Id
  <1>4. RelayCall(bead', project, c, r) BY <1>1, <1>3, CallStays, RaisedSame
  <1>5. CASE q = Threw(r)
    <2>1. RelayCall(bead', project, c, q) BY <1>4, <1>5, ThrewCall
    <2> QED BY <1>2, <2>1, BeadTurnKeeps DEF Called
  <1>6. CASE q # Threw(r)
    <2>1. /\ DOMAIN q = CallFields /\ q.stage = r.stage /\ q.tool = r.tool /\ q.id = r.id
          /\ q.arg = r.arg /\ q.p = r.p /\ q.slug = r.slug /\ q.saw = r.saw /\ q.promoted = r.promoted
          /\ \/ q.pc = "comment" /\ ~q.arg.prio
             \/ q.pc = "label" /\ q.then = "reread"
      <3>1. DOMAIN r = CallFields BY <1>2 DEF Placed
      <3>2. \/ q = [r EXCEPT !.pc = "comment"] /\ ~r.arg.prio
            \/ q = [r EXCEPT !.pc = "label", !.then = "reread"]
        BY <1>6
      <3> HIDE DEF r
      <3>3. CASE q = [r EXCEPT !.pc = "comment"] /\ ~r.arg.prio BY <3>1, <3>3 DEF CallFields
      <3>4. CASE q = [r EXCEPT !.pc = "label", !.then = "reread"] BY <3>1, <3>4 DEF CallFields
      <3> QED BY <3>2, <3>3, <3>4
    <2>2. Placed(q)
      BY <1>2, <2>1 DEF Placed, RelayPlaces, HeldPlaces, EditPlaces
    <2>3. Homed(project, q) /\ q.saw \subseteq DOMAIN bead' BY <1>4, <2>1 DEF RelayCall, Homed
    <2>4. HoldingIn(bead', r.id, r.arg, r.slug)
      <3>1. bead'[r.id] = d /\ r.id \in DOMAIN bead' BY <1>2 DEF Id
      <3> QED BY <1>2, <3>1 DEF HoldingIn, Rewritten
    <2>5. InHand(bead', q) BY <1>2, <2>1, <2>4 DEF InHand, HoldingIn
    <2>6. Promoting(project, c, q) BY <1>4, <2>1 DEF RelayCall, Promoting
    <2>7. q.pc \in HeldPlaces BY <2>1 DEF HeldPlaces
    <2>8. RelayCall(bead', project, c, q) BY <1>2, <2>1, <2>2, <2>3, <2>5, <2>6, <2>7, HandCall
    <2> QED BY <1>2, <2>8, BeadTurnKeeps DEF Called
  <1> QED BY <1>5, <1>6

\* Nothing was written.
LEMMA LeftDupKeeps ==
  ASSUME RelayInv, NEW c \in Caller, call[c].pc \in {"edit", "comment"}, UNCHANGED <<bead, late, project>>,
         NEW q, Turn(c, q),
         \/ q = Threw(call[c])
         \/ q = [call[c] EXCEPT !.pc = "comment"] /\ ~call[c].arg.prio
  PROVE  RelayInv'
  <1> DEFINE r == call[c]
  <1>0. bead' = bead /\ late' = late /\ project' = project OBVIOUS
  <1>1. RelayCall(bead, project, c, r)
    BY AtRelay DEF RelayPlaces, HeldPlaces, BatchPlaces
  <1>2. Placed(r) /\ r.stage = "upsert" /\ r.id \in Id /\ (r.slug # None => bead[r.id].slug = r.slug)
    BY <1>1 DEF RelayCall, InHand, HeldPlaces, Id
  <1>3. RelayCall(bead, project, c, q)
    <2>1. CASE q = Threw(r) BY <1>1, <2>1, ThrewCall
    <2>2. CASE q = [r EXCEPT !.pc = "comment"] /\ ~r.arg.prio
      <3>1. /\ DOMAIN q = CallFields /\ q.stage = r.stage /\ q.tool = r.tool /\ q.id = r.id /\ q.pc = "comment"
            /\ q.arg = r.arg /\ q.p = r.p /\ q.slug = r.slug /\ q.saw = r.saw /\ q.promoted = r.promoted
        BY <1>2, <2>2 DEF Placed, CallFields
      <3>2. Placed(q)
        BY <1>2, <3>1 DEF Placed, RelayPlaces, HeldPlaces, EditPlaces
      <3>3. Homed(project, q) /\ q.saw \subseteq DOMAIN bead BY <1>1, <3>1 DEF RelayCall, Homed
      <3>4. InHand(bead, q) BY <1>2, <2>2, <3>1 DEF InHand, Id
      <3>5. Promoting(project, c, q) BY <1>1, <3>1 DEF RelayCall, Promoting
      <3>6. q.pc \in HeldPlaces BY <3>1 DEF HeldPlaces
      <3> QED BY <1>2, <3>1, <3>2, <3>3, <3>4, <3>5, <3>6, HandCall
    <2> QED BY <2>1, <2>2
  <1> QED BY <1>0, <1>3, TurnKeeps, GrownSame, RaisedSame DEF Called, RelayInv

LEMMA EditDupKeeps ==
  ASSUME RelayInv, NEW c \in Caller, EditDup(c)
  PROVE  RelayInv'
  <1> DEFINE r == call[c]
             d == Written(bead[r.id], r.arg)
             commented == [r EXCEPT !.pc = "comment"]
             updated == [r EXCEPT !.pc = "label", !.then = "reread"]
  <1>1. r.pc = "edit" /\ UNCHANGED <<late, project>> BY DEF EditDup, At
  <1>2. RelayCall(bead, project, c, r) BY <1>1, AtRelay DEF RelayPlaces, HeldPlaces, BatchPlaces
  <1>3. r.id \in Id BY <1>1, <1>2 DEF RelayCall, InHand, HeldPlaces, Id
  <1>4. DOMAIN bead[r.id] = BeadFields BY <1>3 DEF RelayInv, BeadsSound, Filed, Id
  <1>5. Rewritten(bead[r.id], d) /\ r.arg.body \in d.texts /\ (r.arg.prio => d.prio)
    BY <1>4 DEF Written, Rewritten, BeadFields
  <1>6. PICK q : /\ Turn(c, q)
                 /\ \/ q = Threw(r)
                    \/ q = commented /\ ~r.arg.prio
                    \/ q = updated /\ bead' = [bead EXCEPT ![r.id] = d]
                 /\ bead' = [bead EXCEPT ![r.id] = d] \/ bead' = bead
    <2>1. CASE bead' = [bead EXCEPT ![r.id] = d] /\ Turn(c, updated) BY <2>1
    <2>2. CASE /\ bead' = [bead EXCEPT ![r.id] = d] \/ bead' = bead
               /\ Turn(c, Threw(r))
      BY <2>2
    <2>3. CASE /\ bead' = [bead EXCEPT ![r.id] = d] \/ bead' = bead
               /\ Turn(c, commented) /\ ~r.arg.prio
      BY <2>3
    <2> QED BY <2>1, <2>2, <2>3 DEF EditDup, FallsBack
  <1> HIDE DEF d
  <1>7. CASE bead' = [bead EXCEPT ![r.id] = d]
    BY <1>1, <1>5, <1>6, <1>7, WriteDupKeeps
  <1>8. CASE bead' = bead /\ bead' # [bead EXCEPT ![r.id] = d]
    BY <1>1, <1>6, <1>8, LeftDupKeeps
  <1> QED BY <1>6, <1>7, <1>8

LEMMA CommentDupKeeps ==
  ASSUME RelayInv, NEW c \in Caller, CommentDup(c)
  PROVE  RelayInv'
  <1> DEFINE r == call[c]
             d == [bead[r.id] EXCEPT !.texts = @ \union {r.arg.body}]
             updated == [r EXCEPT !.pc = "label", !.then = "reread"]
  <1>1. r.pc = "comment" /\ UNCHANGED <<late, project>> BY DEF CommentDup, At
  <1>2. RelayCall(bead, project, c, r) BY <1>1, AtRelay DEF RelayPlaces, HeldPlaces, BatchPlaces
  <1>3. r.id \in Id /\ ~r.arg.prio BY <1>1, <1>2 DEF RelayCall, InHand, HeldPlaces, Id
  <1>4. DOMAIN bead[r.id] = BeadFields BY <1>3 DEF RelayInv, BeadsSound, Filed, Id
  <1>5. Rewritten(bead[r.id], d) /\ r.arg.body \in d.texts
    BY <1>4 DEF Rewritten, BeadFields
  <1>6. [bead EXCEPT ![r.id].texts = @ \union {r.arg.body}] = [bead EXCEPT ![r.id] = d]
    OBVIOUS
  <1>7. PICK q : /\ Turn(c, q)
                 /\ \/ q = Threw(r)
                    \/ q = updated /\ bead' = [bead EXCEPT ![r.id] = d]
                 /\ bead' = [bead EXCEPT ![r.id] = d] \/ bead' = bead
    BY <1>6 DEF CommentDup
  <1> HIDE DEF d
  <1>8. CASE bead' = [bead EXCEPT ![r.id] = d]
    BY <1>1, <1>3, <1>5, <1>7, <1>8, WriteDupKeeps
  <1>9. CASE bead' = bead /\ bead' # [bead EXCEPT ![r.id] = d]
    BY <1>1, <1>7, <1>9, LeftDupKeeps
  <1> QED BY <1>7, <1>8, <1>9

---------------------------------------------------------------------------
(* The bead is made, or not; the project is promoted; the call returns. *)

LEMMA CreateThrewKeeps ==
  ASSUME RelayInv, NEW c \in Caller, CreateThrew(c)
  PROVE  RelayInv'
  <1>1. call[c].pc = "failed" /\ call[c].tool # "batch" /\ Turn(c, Threw(call[c])) /\ Reads
    BY DEF CreateThrew, At
  <1>2. RelayCall(bead, project, c, call[c])
    BY <1>1 DEF RelayInv, Called, BatchCall, Idle
  <1> QED BY <1>1, <1>2, ThrewCall, ReadKeeps DEF Called

LEMMA MadeKeeps ==
  ASSUME RelayInv, NEW c \in Caller, Made(c)
  PROVE  RelayInv'
  <1> DEFINE r == call[c]
             q == [r EXCEPT !.pc = "label", !.then = "return"]
  <1>1. /\ r.pc = "made" /\ Reads
        /\ Turn(c, IF ~r.verified THEN Threw(r) ELSE IF r.stage = "dispatch" THEN Returned(r) ELSE q)
    BY DEF Made, At
  <1>2. RelayCall(bead, project, c, r)
    BY <1>1, AtRelay DEF RelayPlaces, MakingPlaces, BatchPlaces
  <1>3. Placed(r) BY <1>2 DEF RelayCall
  <1>4. r.stage \in Makes /\ Asks(r, r.make) /\ r.id \in Id /\ bead[r.id].key = r.make
    BY <1>1, <1>2 DEF RelayCall, InMaking, MakingPlaces, Id
  <1>5. /\ bead[r.id].title = r.make.title /\ bead[r.id].slug = r.make.slug
        /\ r.make.body \in bead[r.id].texts /\ (r.make.prio => bead[r.id].prio)
    BY <1>4 DEF RelayInv, BeadsSound, Filed, Id
  <1>6. CASE Turn(c, Threw(r)) BY <1>1, <1>2, <1>6, ThrewCall, ReadKeeps DEF Called
  <1>7. CASE r.stage = "dispatch" /\ Turn(c, Returned(r))
    <2>1. r.tool = "flow" => r.id \in DOMAIN bead /\ bead[r.id].title = DispatchFor(None, r.task)
      <3>1. r.tool = "flow" => r.task \in DOMAIN bead BY <1>2, <1>7 DEF RelayCall, Flowing
      <3>2. r.tool = "flow" => r.task # 0 BY <3>1, ListedPlaces DEF RelayInv, BeadsSound
      <3> QED BY <1>4, <1>5, <1>7, <3>2 DEF Asks, Id
    <2>2. r.tool # "edit" BY <1>3, <1>7 DEF Placed
    <2>3. RelayCall(bead, project, c, Returned(r)) BY <1>1, <1>2, <1>7, <2>1, <2>2, ReturnedCall
    <2> QED BY <1>1, <1>7, <2>3, ReadKeeps DEF Called
  <1>8. CASE r.stage # "dispatch" /\ Turn(c, q)
    <2>1. r.stage \in {"capture", "upsert"} BY <1>4, <1>8 DEF Makes
    <2>2. HoldingIn(bead, r.id, r.arg, r.slug)
      <3>1. r.make.slug = r.slug /\ r.make.body = r.arg.body /\ (r.stage = "upsert" => r.make.prio = r.arg.prio)
        BY <1>4, <2>1 DEF Asks, Content
      <3>2. r.stage = "capture" => ~r.arg.prio BY <1>3, Tools DEF Placed
      <3>3. r.arg.prio => bead[r.id].prio BY <1>5, <2>1, <3>1, <3>2
      <3> QED BY <1>4, <1>5, <3>1, <3>3 DEF HoldingIn, Id
    <2>3. /\ DOMAIN q = CallFields /\ q.pc = "label" /\ q.then = "return" /\ q.stage = r.stage /\ q.tool = r.tool
          /\ q.id = r.id /\ q.arg = r.arg /\ q.p = r.p /\ q.slug = r.slug /\ q.saw = r.saw /\ q.promoted = r.promoted
      BY <1>3 DEF Placed, CallFields
    <2> HIDE DEF q
    <2>4. Placed(q)
      <3>1. r.tool # "edit" BY <1>3, <2>1 DEF Placed
      <3> QED BY <1>3, <2>1, <2>3, <3>1 DEF Placed, RelayPlaces, HeldPlaces, EditPlaces
    <2>5. Homed(project, q) /\ q.saw \subseteq DOMAIN bead BY <1>2, <2>3 DEF RelayCall, Homed
    <2>6. InHand(bead, q) BY <2>1, <2>2, <2>3 DEF InHand, HoldingIn
    <2>7. Promoting(project, c, q) BY <1>1, <1>2, <2>3 DEF RelayCall, Promoting
    <2>8. q.pc \in HeldPlaces BY <2>3 DEF HeldPlaces
    <2>9. RelayCall(bead, project, c, q) BY <2>1, <2>3, <2>4, <2>5, <2>6, <2>7, <2>8, HandCall
    <2> QED BY <1>1, <1>8, <2>9, ReadKeeps DEF Called, q
  <1> QED BY <1>1, <1>6, <1>7, <1>8

\* A call that holds its bead goes on at the next of its places.
LEMMA HandOn ==
  ASSUME RelayInv, NEW c \in Caller, call[c].pc \in {"label", "note"}, NEW P, Raised(project, P),
         NEW q, DOMAIN q = CallFields, q.stage = call[c].stage, q.tool = call[c].tool, q.id = call[c].id,
         q.arg = call[c].arg, q.p = call[c].p, q.slug = call[c].slug, q.saw = call[c].saw,
         q.then = call[c].then, q.pc \in {"note", call[c].then}, Promoting(P, c, q)
  PROVE  RelayCall(bead, P, c, q)
  <1> DEFINE r == call[c]
  <1>1. RelayCall(bead, project, c, r) BY AtRelay DEF RelayPlaces, HeldPlaces, BatchPlaces
  <1>2. /\ Placed(r) /\ r.stage \in {"capture", "upsert"} /\ r.then \in {"reread", "return"}
        /\ r.id \in DOMAIN bead /\ (r.slug # None => bead[r.id].slug = r.slug)
        /\ HoldingIn(bead, r.id, r.arg, r.slug)
    BY <1>1 DEF RelayCall, InHand, HeldPlaces
  <1>3. Placed(q)
    <2>1. r.tool # "edit" BY <1>2 DEF Placed
    <2> QED BY <1>2, <2>1 DEF Placed, RelayPlaces, HeldPlaces, EditPlaces
  <1>4. Homed(P, q) /\ q.saw \subseteq DOMAIN bead
    <2>1. RelayCall(bead, P, c, r) BY <1>1, CallStays, GrownSame
    <2> QED BY <2>1 DEF RelayCall, Homed
  <1>5. q.pc \in {"note", "reread", "return"} BY <1>2
  <1>6. InHand(bead, q) BY <1>2, <1>5 DEF InHand
  <1>7. q.pc \in HeldPlaces BY <1>5 DEF HeldPlaces
  <1> QED BY <1>2, <1>3, <1>4, <1>6, <1>7, HandCall

\* A bead in the project's name is there by the time the project is promoted.
LEMMA InItsName ==
  ASSUME RelayInv, NEW c \in Caller, call[c].pc \in {"label", "note"}, call[c].p # None
  PROVE  call[c].p \in Project /\ \E i \in Id : bead[i].slug \in Names(project, call[c].p)
  <1> DEFINE r == call[c]
  <1>1. RelayCall(bead, project, c, r) BY AtRelay DEF RelayPlaces, HeldPlaces, BatchPlaces
  <1>2. r.p \in Project /\ r.slug # None /\ r.slug \in Names(project, r.p) BY <1>1 DEF RelayCall, Homed
  <1>3. r.id \in Id /\ (r.slug # None => bead[r.id].slug = r.slug)
    BY <1>1 DEF RelayCall, InHand, HeldPlaces, Id
  <1> QED BY <1>2, <1>3

LEMMA PromoteLabelKeeps ==
  ASSUME RelayInv, NEW c \in Caller, PromoteLabel(c)
  PROVE  RelayInv'
  <1> DEFINE r == call[c]
             d == [project[r.p] EXCEPT !.foreground = TRUE]
  <1>1. r.pc = "label" /\ UNCHANGED <<bead, late>> BY DEF PromoteLabel, At
  <1>2. RelayCall(bead, project, c, r) BY <1>1, AtRelay DEF RelayPlaces, HeldPlaces, BatchPlaces
  <1>3. Placed(r) /\ r.then \in {"reread", "return"} BY <1>1, <1>2 DEF RelayCall, InHand, HeldPlaces
  <1>4. PICK q : /\ Turn(c, q)
                 /\ \/ q = [r EXCEPT !.pc = r.then] /\ project' = project
                    \/ /\ r.p # None /\ project' = [project EXCEPT ![r.p] = d]
                       /\ \/ q = [r EXCEPT !.pc = r.then]
                          \/ q = [r EXCEPT !.pc = "note"]
                          \/ q = [r EXCEPT !.pc = "note", !.promoted = TRUE]
    <2> DEFINE went(pc) == [call EXCEPT ![c].pc = pc]
    <2>1. \A pc : went(pc) = [call EXCEPT ![c] = [r EXCEPT !.pc = pc]] OBVIOUS
    <2>2. [project EXCEPT ![r.p].foreground = TRUE] = [project EXCEPT ![r.p] = d] OBVIOUS
    <2> HIDE DEF d
    <2> QED BY <2>1, <2>2 DEF PromoteLabel, Go, Turn
  <1>5. /\ DOMAIN q = CallFields /\ q.stage = r.stage /\ q.tool = r.tool /\ q.id = r.id
        /\ q.arg = r.arg /\ q.p = r.p /\ q.slug = r.slug /\ q.saw = r.saw /\ q.then = r.then
        /\ q.pc \in {"note", r.then} /\ (q.pc = "note" \/ q.promoted = r.promoted)
    BY <1>3, <1>4 DEF Placed, CallFields
  <1>6. CASE q = [r EXCEPT !.pc = r.then] /\ project' = project
    <2>1. q.promoted = r.promoted BY <1>3, <1>6 DEF Placed, CallFields
    <2>2. Promoting(project, c, q) BY <1>1, <1>2, <1>3, <1>5, <2>1 DEF RelayCall, Promoting
    <2>3. RelayCall(bead, project, c, q) BY <1>1, <1>5, <2>2, HandOn, RaisedSame
    <2> QED BY <1>1, <1>4, <1>6, <2>3, TurnKeeps, GrownSame, RaisedSame DEF Called, RelayInv
  <1>7. CASE r.p # None /\ project' = [project EXCEPT ![r.p] = d]
    <2>1. r.p \in Project /\ \E i \in Id : bead[i].slug \in Names(project, r.p) BY <1>1, <1>7, InItsName
    <2>2. Amended(project[r.p], d) /\ d.foreground
      BY <2>1 DEF RelayInv, ProjectsSound, Amended, ProjectFields
    <2>3. project'[r.p] = d /\ d.texts = project[r.p].texts
      BY <1>7, <2>1 DEF RelayInv, ProjectsSound, ProjectFields
    <2> HIDE DEF d
    <2>4. Raised(project, project') BY <1>7, <2>1, <2>2, AmendRaises DEF RelayInv, Id
    <2>5. Promoting(project', c, q)
      BY <1>1, <1>2, <1>3, <1>5, <1>7, <2>2, <2>3 DEF RelayCall, Promoting
    <2>6. RelayCall(bead, project', c, q) BY <1>1, <1>5, <2>4, <2>5, HandOn
    <2> QED BY <1>1, <1>4, <1>7, <2>1, <2>2, <2>6, ProjectTurnKeeps DEF Called
  <1> QED BY <1>4, <1>6, <1>7

LEMMA PromoteNoteKeeps ==
  ASSUME RelayInv, NEW c \in Caller, PromoteNote(c)
  PROVE  RelayInv'
  <1> DEFINE r == call[c]
             d == [project[r.p] EXCEPT !.texts = @ \union {<<"promoted", c>>}]
  <1>1. r.pc = "note" /\ UNCHANGED <<bead, late>> BY DEF PromoteNote, At
  <1>2. RelayCall(bead, project, c, r) BY <1>1, AtRelay DEF RelayPlaces, HeldPlaces, BatchPlaces
  <1>3. Placed(r) /\ r.then \in {"reread", "return"} BY <1>1, <1>2 DEF RelayCall, InHand, HeldPlaces
  <1>4. PICK q : /\ Turn(c, q)
                 /\ \/ q = [r EXCEPT !.pc = r.then] /\ project' = [project EXCEPT ![r.p] = d]
                    \/ /\ q = [r EXCEPT !.pc = r.then, !.promoted = FALSE]
                       /\ project' = project \/ project' = [project EXCEPT ![r.p] = d]
    <2>1. [call EXCEPT ![c].pc = r.then] = [call EXCEPT ![c] = [r EXCEPT !.pc = r.then]] OBVIOUS
    <2>2. [project EXCEPT ![r.p].texts = @ \union {<<"promoted", c>>}] = [project EXCEPT ![r.p] = d] OBVIOUS
    <2> HIDE DEF d
    <2> QED BY <2>1, <2>2 DEF PromoteNote, Go, Turn
  <1>5. /\ DOMAIN q = CallFields /\ q.stage = r.stage /\ q.tool = r.tool /\ q.id = r.id
        /\ q.arg = r.arg /\ q.p = r.p /\ q.slug = r.slug /\ q.saw = r.saw /\ q.then = r.then
        /\ q.pc \in {"note", r.then}
        /\ ~q.promoted \/ (q.promoted = r.promoted /\ project' = [project EXCEPT ![r.p] = d])
    BY <1>3, <1>4 DEF Placed, CallFields
  <1>6. CASE project' = project
    <2>1. Promoting(project, c, q)
      <3>1. CASE ~q.promoted BY <3>1 DEF Promoting
      <3>2. CASE r.p \in Project /\ q.promoted
        <4>1. project[r.p] = d BY <1>5, <1>6, <3>2 DEF RelayInv, ProjectsSound
        <4>2. d.texts = project[r.p].texts \union {<<"promoted", c>>}
          BY <3>2 DEF RelayInv, ProjectsSound, ProjectFields
        <4> HIDE DEF d
        <4>3. <<"promoted", c>> \in project[r.p].texts BY <4>1, <4>2
        <4> QED BY <1>2, <1>3, <1>5, <3>2, <4>3 DEF RelayCall, Promoting
      <3>3. CASE r.p = None /\ q.promoted
        BY <1>2, <1>5, <3>3 DEF RelayCall, Promoting
      <3> QED BY <1>2, <3>1, <3>2, <3>3 DEF RelayCall, Homed
    <2>2. RelayCall(bead, project, c, q) BY <1>1, <1>5, <2>1, HandOn, RaisedSame
    <2> QED BY <1>1, <1>4, <1>6, <2>2, TurnKeeps, GrownSame, RaisedSame DEF Called, RelayInv
  <1>7. CASE r.p \in Project /\ project' = [project EXCEPT ![r.p] = d]
    <2>1. Amended(project[r.p], d) /\ (d.foreground => project[r.p].foreground)
      BY <1>7 DEF RelayInv, ProjectsSound, Amended, ProjectFields
    <2>2. project'[r.p] = d /\ <<"promoted", c>> \in d.texts
      BY <1>7 DEF RelayInv, ProjectsSound, ProjectFields
    <2> HIDE DEF d
    <2>3. Raised(project, project') BY <1>7, <2>1, AmendRaises DEF RelayInv, Id
    <2>4. Promoting(project', c, q)
      BY <1>2, <1>3, <1>5, <1>7, <2>1, <2>2 DEF RelayCall, Promoting, Amended
    <2>5. RelayCall(bead, project', c, q) BY <1>1, <1>5, <2>3, <2>4, HandOn
    <2> QED BY <1>1, <1>4, <1>7, <2>1, <2>5, ProjectTurnKeeps DEF Called
  <1>8. CASE r.p = None /\ project' = [project EXCEPT ![r.p] = d]
    <2>1. project' = project
      <3>1. None \notin Project BY RelayAssumption
      <3>2. project = [p \in Project |-> project[p]] BY DEF RelayInv, ProjectsSound
      <3> QED BY <1>8, <3>1, <3>2
    <2> QED BY <1>6, <2>1
  <1> QED BY <1>2, <1>4, <1>6, <1>7, <1>8 DEF RelayCall, Homed

LEMMA ReturnKeeps ==
  ASSUME RelayInv, NEW c \in Caller, Return(c) \/ Reread(c)
  PROVE  RelayInv'
  <1> DEFINE r == call[c]
  <1>1. r.pc \in {"return", "reread"} /\ Reads /\ (Turn(c, Returned(r)) \/ Turn(c, Threw(r)))
    BY DEF Return, Reread, At
  <1>2. RelayCall(bead, project, c, r) BY <1>1, AtRelay DEF RelayPlaces, HeldPlaces, BatchPlaces
  <1>3. r.stage \in {"capture", "upsert"} /\ HoldingIn(bead, r.id, r.arg, r.slug)
    BY <1>1, <1>2 DEF RelayCall, InHand, HeldPlaces
  <1>4. r.tool # "edit" BY <1>2, <1>3 DEF RelayCall, Placed
  <1>5. RelayCall(bead, project, c, Returned(r)) BY <1>1, <1>2, <1>3, <1>4, ReturnedCall
  <1>6. RelayCall(bead, project, c, Threw(r)) BY <1>1, <1>2, ThrewCall
  <1> QED BY <1>1, <1>5, <1>6, ReadKeeps DEF Called

---------------------------------------------------------------------------
(* The flow. *)

LEMMA RelistKeeps ==
  ASSUME RelayInv, NEW c \in Caller, Relist(c)
  PROVE  RelayInv'
  <1> DEFINE r == call[c]
  <1>1. r.pc = "relist" /\ Reads BY DEF Relist, At
  <1>2. RelayCall(bead, project, c, r) BY <1>1, AtRelay DEF RelayPlaces, BatchPlaces
  <1>3. Placed(r) /\ r.tool = "flow" /\ r.stage = "upsert" BY <1>1, <1>2 DEF RelayCall, Placed
  <1>4. CASE Turn(c, Threw(r)) BY <1>1, <1>2, <1>4, ThrewCall, ReadKeeps DEF Called
  <1>5. ASSUME NEW p, p = None \/ (p \in Project /\ Slug(p) = r.slug), Turn(c, [r EXCEPT !.p = p, !.pc = "next"])
        PROVE  RelayInv'
    <2> DEFINE q == [r EXCEPT !.p = p, !.pc = "next"]
    <2>1. /\ DOMAIN q = CallFields /\ q.pc = "next" /\ q.p = p /\ q.stage = r.stage /\ q.tool = r.tool
          /\ q.arg = r.arg /\ q.slug = r.slug /\ q.saw = r.saw /\ q.task = r.task
      BY <1>3 DEF Placed, CallFields
    <2> HIDE DEF q
    <2>2. Placed(q) BY <1>3, <2>1 DEF Placed, RelayPlaces, EditPlaces
    <2>3. Homed(project, q)
      <3>1. p \in Project => Slug(p) \in Names(project, p) /\ Slug(p) # None
        BY DEF Slug, Names, RelayInv, ProjectsSound
      <3> QED BY <1>5, <2>1, <3>1 DEF Homed
    <2>4. InMaking(bead, q) /\ InHand(bead, q) BY <2>1 DEF InMaking, InHand, MakingPlaces, HeldPlaces
    <2>5. Flowing(bead, q) BY <1>1, <1>2, <1>3, <2>1 DEF RelayCall, Flowing
    <2>6. Editing(project, q) /\ Promoting(project, c, q) /\ Answering(bead, q)
      BY <1>3, <2>1 DEF Editing, Promoting, Answering
    <2>7. q.saw \subseteq DOMAIN bead BY <1>2, <2>1 DEF RelayCall
    <2>8. RelayCall(bead, project, c, q) BY <2>2, <2>3, <2>4, <2>5, <2>6, <2>7 DEF RelayCall
    <2> QED BY <1>1, <1>5, <2>8, ReadKeeps DEF Called, q
  <1>6. \/ Turn(c, Threw(r))
        \/ \E p : (p = None \/ (p \in Project /\ Slug(p) = r.slug)) /\ Turn(c, [r EXCEPT !.p = p, !.pc = "next"])
    BY DEF Relist
  <1> QED BY <1>4, <1>5, <1>6

LEMMA FlowDispatchesKeeps ==
  ASSUME RelayInv, NEW c \in Caller, FlowDispatches(c)
  PROVE  RelayInv'
  <1> DEFINE r == call[c]
             outcome == IF r.bad THEN "partial" ELSE "ok"
             q == [r EXCEPT !.stage = "dispatch", !.ref = r.p, !.p = None, !.slug = None,
                            !.pc = IF r.p = None THEN "looked" ELSE "lookup"]
  <1>1. r.pc = "next" /\ Reads /\ Turn(c, IF ~r.arg.dispatch THEN Answered(r, outcome) ELSE q)
    BY DEF FlowDispatches, At
  <1>2. RelayCall(bead, project, c, r) BY <1>1, AtRelay DEF RelayPlaces, BatchPlaces
  <1>3. /\ Placed(r) /\ r.tool = "flow" /\ r.stage = "upsert"
        /\ r.task \in DOMAIN bead /\ (r.arg.prio => bead[r.task].prio)
    BY <1>1, <1>2 DEF RelayCall, Placed, Flowing
  <1>4. CASE ~r.arg.dispatch
    <2>1. Owed(bead, project, r) BY <1>3, <1>4 DEF Owed
    <2>2. RelayCall(bead, project, c, Answered(r, outcome)) BY <1>1, <1>2, <1>3, <2>1, AnsweredCall
    <2> QED BY <1>1, <1>4, <2>2, ReadKeeps DEF Called
  <1>5. CASE r.arg.dispatch
    <2>1. /\ DOMAIN q = CallFields /\ q.pc \in {"looked", "lookup"} /\ q.p = None /\ q.stage = "dispatch"
          /\ q.tool = r.tool /\ q.arg = r.arg /\ q.saw = r.saw /\ q.task = r.task /\ q.promoted = r.promoted
      BY <1>3 DEF Placed, CallFields
    <2> HIDE DEF q
    <2>2. Placed(q) BY <1>3, <2>1 DEF Placed, RelayPlaces, EditPlaces
    <2>3. Homed(project, q) BY <2>1 DEF Homed
    <2>4. RelayCall(bead, project, c, q) BY <1>1, <1>2, <1>3, <2>1, <2>2, <2>3, OnwardCall
    <2> QED BY <1>1, <1>5, <2>4, ReadKeeps DEF Called
  <1> QED BY <1>4, <1>5

LEMMA AttachKeeps ==
  ASSUME RelayInv, NEW c \in Caller, Attach(c)
  PROVE  RelayInv'
  <1> DEFINE r == call[c]
             content(id, slug) == Content("task", DispatchFor(r.arg.title, id), r.arg.body, slug, FALSE, 0)
  <1>1. r.pc = "attach" /\ Reads BY DEF Attach, At
  <1>2. RelayCall(bead, project, c, r) BY <1>1, AtRelay DEF RelayPlaces, BatchPlaces
  <1>3. r.stage = "dispatch" BY <1>1, <1>2 DEF RelayCall, Placed
  <1>4. CASE Turn(c, Threw(r)) BY <1>1, <1>2, <1>4, ThrewCall, ReadKeeps DEF Called
  <1>5. ASSUME NEW id, NEW slug, r.task # 0 => id = r.task, Turn(c, Making(r, content(id, slug), "made"))
        PROVE  RelayInv'
    <2>1. content(id, slug).title = DispatchFor(r.arg.title, id) BY DEF Content
    <2> HIDE DEF content
    <2>2. Asks(r, content(id, slug)) BY <1>3, <1>5, <2>1, TaskIsOne DEF Asks
    <2>3. NoTwin(bead, r.saw, content(id, slug))
      <3>1. content(id, slug).title.kind # "task" BY <2>1, TaskIsOne
      <3> QED BY <3>1 DEF NoTwin
    <2>4. RelayCall(bead, project, c, Making(r, content(id, slug), "made"))
      BY <1>1, <1>2, <1>3, <2>2, <2>3, MakingCall DEF Makes
    <2> QED BY <1>1, <1>5, <2>4, ReadKeeps DEF Called
  <1>6. \/ Turn(c, Threw(r))
        \/ \E id, slug : (r.task # 0 => id = r.task) /\ Turn(c, Making(r, content(id, slug), "made"))
    BY DEF Attach
  <1> QED BY <1>4, <1>5, <1>6

---------------------------------------------------------------------------
(* The steps of an edit. *)

LEMMA AfterEdit ==
  ASSUME NEW B, NEW P, NEW c, NEW r, RelayCall(B, P, c, r), r.tool = "edit", r.pc \in EditPlaces,
         r.bad \/ \A e \in Asked(r.arg, r.pc) : <<e.step, e.to>> \in P[r.p].texts
  PROVE  RelayCall(B, P, c, AfterStep(r))
  <1>1. Placed(r) /\ r.stage = "edit" /\ r.pc # "note" /\ r.p # None
    BY DEF RelayCall, Placed, EditPlaces, Editing
  <1>2. r.bad \/ \A e \in r.arg.edits : e.step \in Before(r.pc) \union {r.pc} => <<e.step, e.to>> \in P[r.p].texts
    BY DEF RelayCall, Editing, Asked
  <1>3. ASSUME NEW pc \in {"comment on it", "lifecycle"}, Before(pc) \subseteq Before(r.pc) \union {r.pc},
               AfterStep(r) = [r EXCEPT !.pc = pc]
        PROVE  RelayCall(B, P, c, AfterStep(r))
    <2> DEFINE q == [r EXCEPT !.pc = pc]
    <2>1. /\ DOMAIN q = CallFields /\ q.pc = pc /\ q.stage = r.stage /\ q.tool = r.tool /\ q.bad = r.bad
          /\ q.arg = r.arg /\ q.p = r.p /\ q.slug = r.slug /\ q.saw = r.saw /\ q.promoted = r.promoted
      BY <1>1 DEF Placed, CallFields
    <2> HIDE DEF q
    <2>2. Placed(q) BY <1>1, <2>1 DEF Placed, RelayPlaces, EditPlaces
    <2>3. Homed(P, q) /\ q.saw \subseteq DOMAIN B BY <2>1 DEF RelayCall, Homed
    <2>4. InMaking(B, q) /\ InHand(B, q) BY <2>1 DEF InMaking, InHand, MakingPlaces, HeldPlaces
    <2>5. Flowing(B, q) /\ Promoting(P, c, q) /\ Answering(B, q)
      BY <2>1 DEF Flowing, Promoting, Answering
    <2>6. Editing(P, q)
      <3>1. q.bad \/ \A e \in q.arg.edits : e.step \in Before(q.pc) => <<e.step, e.to>> \in P[q.p].texts
        BY <1>2, <1>3, <2>1
      <3> QED BY <1>1, <2>1, <3>1 DEF Editing
    <2> QED BY <1>3, <2>2, <2>3, <2>4, <2>5, <2>6 DEF RelayCall, q
  <1>4. CASE r.pc = "text"
    <2>1. Before("comment on it") \subseteq Before(r.pc) \union {r.pc} BY <1>4 DEF Before
    <2> QED BY <1>3, <1>4, <2>1, StepAfter
  <1>5. CASE r.pc = "comment on it"
    <2>1. Before("lifecycle") \subseteq Before(r.pc) \union {r.pc} BY <1>5 DEF Before
    <2> QED BY <1>3, <1>5, <2>1, StepAfter
  <1>6. CASE r.pc = "lifecycle"
    <2>1. Before(r.pc) \union {r.pc} = EditPlaces BY <1>6 DEF Before, EditPlaces
    <2>2. \A e \in r.arg.edits : e.step \in EditPlaces
      BY <1>1, RequestAssumption, StepNames DEF Placed
    <2>3. r.bad \/ \A e \in r.arg.edits : <<e.step, e.to>> \in P[r.p].texts BY <1>2, <2>1, <2>2
    <2>4. RelayCall(B, P, c, Returned(r)) BY <1>1, <2>3, ReturnedCall
    <2> QED BY <1>6, <2>4, StepAfter
  <1> QED BY <1>4, <1>5, <1>6 DEF EditPlaces

LEMMA FailedEdit ==
  ASSUME NEW B, NEW P, NEW c, NEW r, RelayCall(B, P, c, r), r.tool = "edit", r.pc \in EditPlaces
  PROVE  RelayCall(B, P, c, FailedStep(r))
  <1> DEFINE q == [r EXCEPT !.bad = TRUE]
  <1>1. Placed(r) /\ r.p # None BY DEF RelayCall, Editing
  <1>2. /\ DOMAIN q = CallFields /\ q.pc = r.pc /\ q.stage = r.stage /\ q.tool = r.tool /\ q.bad = TRUE
        /\ q.arg = r.arg /\ q.p = r.p /\ q.slug = r.slug /\ q.saw = r.saw /\ q.promoted = r.promoted
    BY <1>1 DEF Placed, CallFields
  <1>3. FailedStep(r) = AfterStep(q) BY DEF FailedStep
  <1> HIDE DEF q
  <1>4. Placed(q) BY <1>1, <1>2 DEF Placed
  <1>5. Homed(P, q) /\ q.saw \subseteq DOMAIN B BY <1>2 DEF RelayCall, Homed
  <1>6. InMaking(B, q) /\ InHand(B, q) BY <1>2 DEF InMaking, InHand, MakingPlaces, HeldPlaces, EditPlaces
  <1>7. Flowing(B, q) /\ Promoting(P, c, q) /\ Answering(B, q)
    BY <1>2 DEF Flowing, Promoting, Answering
  <1>8. Editing(P, q) BY <1>1, <1>2 DEF Editing, EditPlaces
  <1>9. RelayCall(B, P, c, q) BY <1>4, <1>5, <1>6, <1>7, <1>8 DEF RelayCall
  <1> QED BY <1>2, <1>3, <1>9, AfterEdit

LEMMA EditStepKeeps ==
  ASSUME RelayInv, NEW c \in Caller, EditStep(c)
  PROVE  RelayInv'
  <1> DEFINE r == call[c]
             d(e) == Applied(project[r.p], e)
             wrote(e) == project' = [project EXCEPT ![r.p] = d(e)]
  <1>1. r.tool = "edit" /\ r.pc \in EditPlaces /\ UNCHANGED <<bead, late>> BY StepNames DEF EditStep
  <1>2. RelayCall(bead, project, c, r) BY <1>1 DEF RelayInv, Called, BatchCall, Idle
  <1>3. Placed(r) /\ r.p \in Project /\ r.pc # "note"
    BY <1>1, <1>2 DEF RelayCall, Homed, Editing, EditPlaces
  <1>4. ASSUME NEW q, Turn(c, q), project' = project, RelayCall(bead, project, c, q) PROVE RelayInv'
    BY <1>1, <1>4, TurnKeeps, GrownSame, RaisedSame DEF Called, RelayInv
  <1>5. ASSUME NEW e \in Asked(r.arg, r.pc), wrote(e),
               Turn(c, AfterStep(r)) \/ Turn(c, Threw(r)) \/ Turn(c, FailedStep(r))
        PROVE  RelayInv'
    <2>1. e \in r.arg.edits /\ e.step = r.pc /\ (e.step = "text" => e.to # None)
          /\ \A f \in Asked(r.arg, r.pc) : f = e
      BY <1>1, <1>3, RequestAssumption DEF Asked, Placed
    <2>2. /\ Amended(project[r.p], d(e)) /\ (d(e).foreground => project[r.p].foreground)
          /\ <<e.step, e.to>> \in d(e).texts
      BY <1>3, <2>1 DEF Applied, Amended, RelayInv, ProjectsSound, ProjectFields
    <2> HIDE DEF d
    <2>3. Raised(project, project') /\ project'[r.p] = d(e)
      <3>1. Raised(project, project') BY <1>3, <1>5, <2>2, AmendRaises DEF RelayInv
      <3>2. project'[r.p] = d(e) BY <1>3, <1>5 DEF RelayInv, ProjectsSound
      <3> QED BY <3>1, <3>2
    <2>4. RelayCall(bead, project', c, r) BY <1>2, <2>3, CallStays, GrownSame
    <2>5. RelayCall(bead, project', c, AfterStep(r)) BY <1>1, <2>1, <2>2, <2>3, <2>4, AfterEdit
    <2>6. RelayCall(bead, project', c, Threw(r)) BY <1>3, <2>4, ThrewCall
    <2>7. RelayCall(bead, project', c, FailedStep(r)) BY <1>1, <2>4, FailedEdit
    <2>8. ASSUME NEW q, Turn(c, q), RelayCall(bead, project', c, q) PROVE RelayInv'
      BY <1>1, <1>3, <1>5, <2>2, <2>8, ProjectTurnKeeps DEF Called
    <2> QED BY <1>5, <2>5, <2>6, <2>7, <2>8
  <1>6. CASE Asked(r.arg, r.pc) = {} /\ Turn(c, AfterStep(r)) /\ project' = project
    <2>1. RelayCall(bead, project, c, AfterStep(r)) BY <1>1, <1>2, <1>6, AfterEdit
    <2> QED BY <1>4, <1>6, <2>1
  <1>7. CASE Turn(c, FailedStep(r)) /\ project' = project
    <2>1. RelayCall(bead, project, c, FailedStep(r)) BY <1>1, <1>2, FailedEdit
    <2> QED BY <1>4, <1>7, <2>1
  <1>8. \/ Asked(r.arg, r.pc) = {} /\ Turn(c, AfterStep(r)) /\ project' = project
        \/ Turn(c, FailedStep(r)) /\ project' = project
        \/ \E e \in Asked(r.arg, r.pc) :
             wrote(e) /\ (Turn(c, AfterStep(r)) \/ Turn(c, Threw(r)) \/ Turn(c, FailedStep(r)))
    BY DEF EditStep
  <1> QED BY <1>5, <1>6, <1>7, <1>8

---------------------------------------------------------------------------
(* A bead is made, for either kind of call. *)

LEMMA MakerMoves ==
  ASSUME RelayInv, NEW c \in Caller, call[c].pc \in {"twin", "create", "recover", "read"},
         NEW B, Grown(bead, B), NEW pc, NEW id, NEW verified, NEW q,
         \/ q = [call[c] EXCEPT !.pc = pc] /\ pc \in {"create", "recover", "failed"}
         \/ /\ q = [call[c] EXCEPT !.pc = pc, !.id = id] /\ pc = "read"
            /\ id \in DOMAIN B /\ B[id].key = call[c].make
         \/ /\ q = [call[c] EXCEPT !.pc = pc, !.verified = verified]
            /\ call[c].pc = "read" /\ pc = call[c].then
  PROVE  Called(B, project, c, q)
  <1> DEFINE r == call[c]
  <1>1. CASE RelayCall(bead, project, c, r)
    <2>1. RelayCall(B, project, c, r) BY <1>1, CallStays, RaisedSame
    <2>2. /\ Placed(r) /\ r.stage \in Makes /\ r.then = "made" /\ Asks(r, r.make) /\ NoTwin(B, r.saw, r.make)
          /\ r.pc \in {"read", "made"} => r.id \in DOMAIN B /\ B[r.id].key = r.make
      BY <2>1 DEF RelayCall, InMaking, MakingPlaces
    <2>3. /\ DOMAIN q = CallFields /\ q.pc = pc /\ q.stage = r.stage /\ q.tool = r.tool /\ q.then = r.then
          /\ q.arg = r.arg /\ q.p = r.p /\ q.slug = r.slug /\ q.saw = r.saw /\ q.promoted = r.promoted
          /\ q.make = r.make /\ q.task = r.task
          /\ q.id = r.id \/ (pc = "read" /\ q.id \in DOMAIN B /\ B[q.id].key = r.make)
      BY <2>2 DEF Placed, CallFields
    <2>4. pc \in {"create", "recover", "failed", "read", "made"} /\ (pc = "made" => r.pc = "read")
          /\ (pc = "read" => q.id \in DOMAIN B /\ B[q.id].key = r.make)
      BY <2>2, <2>3 DEF Placed, CallFields
    <2>5. Placed(q)
      <3>1. r.tool # "edit" BY <2>2 DEF Placed, Makes
      <3> QED BY <2>2, <2>3, <2>4, <3>1 DEF Placed, RelayPlaces, MakingPlaces, EditPlaces, Makes
    <2>6. Homed(project, q) /\ q.saw \subseteq DOMAIN B BY <2>1, <2>3 DEF RelayCall, Homed
    <2>7. InMaking(B, q)
      <3>1. Asks(q, q.make) BY <2>2, <2>3 DEF Asks
      <3> QED BY <2>2, <2>3, <2>4, <3>1 DEF InMaking
    <2>8. InHand(B, q) BY <2>3, <2>4 DEF InHand, HeldPlaces
    <2>9. Flowing(B, q) BY <2>1, <2>3, <2>4 DEF RelayCall, Flowing
    <2>10. Editing(project, q) /\ Answering(B, q) BY <2>3, <2>4 DEF Editing, Answering, EditPlaces
    <2>11. Promoting(project, c, q) BY <2>1, <2>3, <2>4 DEF RelayCall, Promoting
    <2>12. RelayCall(B, project, c, q) BY <2>5, <2>6, <2>7, <2>8, <2>9, <2>10, <2>11 DEF RelayCall
    <2> QED BY <2>12 DEF Called
  <1>2. CASE BatchCall(r)
    <2>1. /\ DOMAIN q = BatchFields /\ q.tool = "batch" /\ q.then = "landed" /\ q.saw = {} /\ q.pc = pc
      BY <1>2 DEF BatchCall, BatchFields
    <2>2. pc \in BatchPlaces BY <1>2 DEF BatchCall, BatchPlaces
    <2> QED BY <2>1, <2>2 DEF BatchCall, Called
  <1>3. r # Idle BY DEF Idle
  <1> QED BY <1>1, <1>2, <1>3 DEF RelayInv, Called

\* What is about to be made will be well filed.
LEMMA MakesWell ==
  ASSUME RelayInv, NEW c \in Caller, call[c].pc = "create"
  PROVE  LET b == Bead(call[c].make, [who |-> c, saw |-> call[c].saw])
         IN Filed(bead, b) /\ b.key = call[c].make
  <1> DEFINE r == call[c]
             b == Bead(r.make, [who |-> c, saw |-> r.saw])
  <1>1. r.saw \subseteq DOMAIN bead /\ NoTwin(bead, r.saw, r.make)
    <2>1. CASE RelayCall(bead, project, c, r) BY <2>1 DEF RelayCall, InMaking, MakingPlaces
    <2>2. CASE BatchCall(r) BY <2>2 DEF BatchCall, NoTwin
    <2>3. r # Idle BY DEF Idle
    <2> QED BY <2>1, <2>2, <2>3 DEF RelayInv, Called
  <1>2. /\ DOMAIN b = BeadFields /\ b.key = r.make /\ b.by.saw = r.saw
        /\ b.store = r.make.store /\ b.title = r.make.title /\ b.slug = r.make.slug
        /\ b.parent = r.make.parent /\ b.prio = r.make.prio /\ r.make.body \in b.texts
    BY DEF Bead, BeadFields
  <1> HIDE DEF b
  <1>3. Filed(bead, b) BY <1>1, <1>2 DEF Filed
  <1> QED BY <1>2, <1>3 DEF b

LEMMA FindTwinKeeps ==
  ASSUME RelayInv, NEW c \in Caller, FindTwin(c) \/ Recover(c)
  PROVE  RelayInv'
  <1> DEFINE r == call[c]
             twins == Twins(r.make)
  <1>1. r.pc \in {"twin", "recover"} /\ Reads
        /\ \/ \E pc \in {"create", "failed"} : Turn(c, [r EXCEPT !.pc = pc])
           \/ twins # {} /\ Turn(c, [r EXCEPT !.pc = "read", !.id = Min(twins)])
    <2>1. \A pc : Go(c, pc) => Turn(c, [r EXCEPT !.pc = pc]) BY DEF Go, Turn
    <2>2. \A id : Found(c, id) => Turn(c, [r EXCEPT !.pc = "read", !.id = id]) BY DEF Found, Turn
    <2> HIDE DEF twins
    <2> QED BY <2>1, <2>2 DEF FindTwin, Recover, At, twins
  <1>2. ASSUME NEW pc \in {"create", "failed"}, Turn(c, [r EXCEPT !.pc = pc]) PROVE RelayInv'
    <2>1. Called(bead, project, c, [r EXCEPT !.pc = pc]) BY <1>1, MakerMoves, GrownSame
    <2> QED BY <1>1, <1>2, <2>1, ReadKeeps
  <1>3. CASE twins # {} /\ Turn(c, [r EXCEPT !.pc = "read", !.id = Min(twins)])
    <2>1. Min(twins) \in DOMAIN bead /\ bead[Min(twins)].key = r.make
      BY <1>3, TwinFound DEF RelayInv, BeadsSound, Id
    <2> HIDE DEF Min, twins
    <2>2. Called(bead, project, c, [r EXCEPT !.pc = "read", !.id = Min(twins)])
      BY <1>1, <2>1, MakerMoves, GrownSame
    <2> QED BY <1>1, <1>3, <2>2, ReadKeeps
  <1> QED BY <1>1, <1>2, <1>3

LEMMA ReadBackKeeps ==
  ASSUME RelayInv, NEW c \in Caller, ReadBack(c)
  PROVE  RelayInv'
  <1> DEFINE r == call[c]
  <1>1. r.pc = "read" /\ Reads /\ \E verified : Turn(c, [r EXCEPT !.pc = r.then, !.verified = verified])
    BY DEF ReadBack, At, Turn
  <1>2. PICK verified : Turn(c, [r EXCEPT !.pc = r.then, !.verified = verified]) BY <1>1
  <1>3. Called(bead, project, c, [r EXCEPT !.pc = r.then, !.verified = verified])
    BY <1>1, MakerMoves, GrownSame
  <1> QED BY <1>1, <1>2, <1>3, ReadKeeps

\* The bead is added, and the call goes on.
LEMMA CreatedKeeps ==
  ASSUME RelayInv, NEW c \in Caller, call[c].pc = "create", Appended(c), UNCHANGED <<late, project>>,
         \/ Found(c, Len(bead) + 1)
         \/ Go(c, "recover")
  PROVE  RelayInv'
  <1> DEFINE r == call[c]
             b == Bead(r.make, [who |-> c, saw |-> r.saw])
  <1>1. Filed(bead, b) /\ b.key = r.make BY MakesWell
  <1>2. bead' = Append(bead, b) BY DEF Appended
  <1> HIDE DEF b
  <1>3. Grown(bead, bead') /\ BeadsSound(bead', late) /\ Len(bead) + 1 \in DOMAIN bead' /\ bead'[Len(bead) + 1] = b
    BY <1>1, <1>2, AppendGrows DEF RelayInv
  <1>4. ProjectsSound(bead', project) BY <1>3, ProjectsStay DEF RelayInv
  <1>5. PICK q : Turn(c, q) /\ (\/ q = [r EXCEPT !.pc = "read", !.id = Len(bead) + 1]
                                \/ q = [r EXCEPT !.pc = "recover"])
    BY DEF Found, Go, Turn
  <1>6. Called(bead', project, c, q)
    <2>1. CASE q = [r EXCEPT !.pc = "read", !.id = Len(bead) + 1]
      BY <1>1, <1>3, <2>1, MakerMoves
    <2>2. CASE q = [r EXCEPT !.pc = "recover"] BY <1>3, <2>2, MakerMoves
    <2> QED BY <1>5, <2>1, <2>2
  <1>7. late' = late /\ project' = project OBVIOUS
  <1> QED BY <1>3, <1>4, <1>5, <1>6, <1>7, TurnKeeps, RaisedSame

LEMMA CreateKeeps ==
  ASSUME RelayInv, NEW c \in Caller, Create(c)
  PROVE  RelayInv'
  BY CreatedKeeps DEF Create, At

LEMMA CreateFailsKeeps ==
  ASSUME RelayInv, NEW c \in Caller, CreateFails(c)
  PROVE  RelayInv'
  <1> DEFINE r == call[c]
             b == Bead(r.make, [who |-> c, saw |-> r.saw])
  <1>1. r.pc = "create" /\ project' = project BY DEF CreateFails, At
  <1>2. CASE Appended(c) /\ Go(c, "recover") /\ late' = late BY <1>1, <1>2, CreatedKeeps
  <1>3. ASSUME NEW pc \in {"failed", "recover"}, Go(c, pc), bead' = bead,
               late' = late \/ late' = late \union {b}
        PROVE  RelayInv'
    <2>1. Turn(c, [r EXCEPT !.pc = pc]) BY <1>3 DEF Go, Turn
    <2>2. Called(bead, project, c, [r EXCEPT !.pc = pc]) BY <1>1, MakerMoves, GrownSame
    <2>3. Filed(bead, b) BY <1>1, MakesWell
    <2> HIDE DEF b
    <2>4. BeadsSound(bead, late') BY <1>3, <2>3 DEF RelayInv, BeadsSound
    <2> QED BY <1>1, <1>3, <2>1, <2>2, <2>4, TurnKeeps, GrownSame, RaisedSame DEF RelayInv
  <1>4. \/ Appended(c) /\ Go(c, "recover") /\ late' = late
        \/ \E pc \in {"failed", "recover"} : Go(c, pc) /\ bead' = bead /\ (late' = late \/ late' = late \union {b})
    BY DEF CreateFails
  <1> QED BY <1>2, <1>3, <1>4

---------------------------------------------------------------------------
(* What happens to the beads outside any call. *)

LEMMA WorldKeeps ==
  ASSUME RelayInv, UNCHANGED <<call, project>>, Grown(bead, bead'), BeadsSound(bead', late')
  PROVE  RelayInv'
  <1>1. call' = call /\ project' = project OBVIOUS
  <1>2. ProjectsSound(bead', project') BY <1>1, ProjectsStay DEF RelayInv
  <1>3. \A c \in Caller : Called(bead', project', c, call'[c])
    BY <1>1, CalledStays, RaisedSame DEF RelayInv
  <1> QED BY <1>1, <1>2, <1>3 DEF RelayInv

LEMMA LandKeeps ==
  ASSUME RelayInv, Land
  PROVE  RelayInv'
  <1>1. PICK b \in late : bead' = Append(bead, b) /\ late' = late \ {b} BY DEF Land
  <1>2. Grown(bead, bead') /\ BeadsSound(bead', late)
    <2>1. Filed(bead, b) BY DEF RelayInv, BeadsSound
    <2> QED BY <1>1, <2>1, AppendGrows DEF RelayInv
  <1>3. BeadsSound(bead', late') BY <1>1, <1>2 DEF BeadsSound
  <1> QED BY <1>2, <1>3, WorldKeeps DEF Land

LEMMA CloseBeadKeeps ==
  ASSUME RelayInv, CloseBead
  PROVE  RelayInv'
  <1>1. PICK i \in Id : bead' = [bead EXCEPT ![i].closed = TRUE] BY DEF CloseBead
  <1> DEFINE d == [bead[i] EXCEPT !.closed = TRUE]
  <1>2. bead' = [bead EXCEPT ![i] = d] BY <1>1
  <1>3. DOMAIN bead[i] = BeadFields BY DEF RelayInv, BeadsSound, Filed, Id
  <1>4. Rewritten(bead[i], d) BY <1>3 DEF Rewritten, BeadFields
  <1> HIDE DEF d
  <1>5. Grown(bead, bead') /\ BeadsSound(bead', late) BY <1>2, <1>4, RewriteGrows DEF RelayInv, Id
  <1> QED BY <1>5, WorldKeeps DEF CloseBead

LEMMA HourPassesKeeps ==
  ASSUME RelayInv, HourPasses
  PROVE  RelayInv'
  <1>1. PICK i \in Id : bead' = [bead EXCEPT ![i].old = TRUE] BY DEF HourPasses
  <1> DEFINE d == [bead[i] EXCEPT !.old = TRUE]
  <1>2. bead' = [bead EXCEPT ![i] = d] BY <1>1
  <1>3. DOMAIN bead[i] = BeadFields BY DEF RelayInv, BeadsSound, Filed, Id
  <1>4. Rewritten(bead[i], d) BY <1>3 DEF Rewritten, BeadFields
  <1> HIDE DEF d
  <1>5. Grown(bead, bead') /\ BeadsSound(bead', late) BY <1>2, <1>4, RewriteGrows DEF RelayInv, Id
  <1> QED BY <1>5, WorldKeeps DEF HourPasses

---------------------------------------------------------------------------
(* Calls begin. *)

LEMMA AskRelayKeeps ==
  ASSUME RelayInv, NEW c \in Caller, AskRelay(c)
  PROVE  RelayInv'
  <1>1. PICK arg \in Request :
          arg.tool # "batch" /\ Turn(c, Begun(arg, IF arg.allow THEN Id ELSE {}))
    BY DEF AskRelay
  <1> DEFINE saw == IF arg.allow THEN Id ELSE {}
             q == Begun(arg, saw)
  <1>2. /\ DOMAIN q = CallFields /\ q.tool = arg.tool /\ q.arg = arg /\ q.saw = saw
        /\ q.stage = (IF arg.tool = "flow" THEN "resolve" ELSE arg.tool)
        /\ q.pc = (IF arg.ref = None THEN "looked" ELSE "lookup")
        /\ q.p = None /\ q.slug = None /\ q.promoted = FALSE
    BY DEF Begun, CallFields
  <1>3. saw \subseteq Id /\ (arg.allow \/ saw = {}) OBVIOUS
  <1> HIDE DEF q, saw
  <1>4. arg.tool \in {"capture", "upsert", "dispatch", "flow", "edit"} /\ (arg.tool = "edit" => arg.ref # None)
    BY <1>1, RequestAssumption
  <1>5. Placed(q) BY <1>1, <1>2, <1>3, <1>4 DEF Placed, RelayPlaces, EditPlaces
  <1>6. q.pc \in {"looked", "lookup"} BY <1>2
  <1>7. Homed(project, q) /\ q.saw \subseteq DOMAIN bead BY <1>2, <1>3 DEF Homed, Id
  <1>8. InMaking(bead, q) /\ InHand(bead, q) BY <1>6 DEF InMaking, InHand, MakingPlaces, HeldPlaces
  <1>9. Flowing(bead, q) BY <1>2, <1>4, <1>6 DEF Flowing
  <1>10. Editing(project, q) /\ Promoting(project, c, q) /\ Answering(bead, q)
    BY <1>2, <1>6 DEF Editing, Promoting, Answering, EditPlaces
  <1>11. RelayCall(bead, project, c, q) BY <1>5, <1>7, <1>8, <1>9, <1>10 DEF RelayCall
  <1>12. bead' = bead /\ late' = late /\ project' = project BY DEF AskRelay
  <1> QED BY <1>1, <1>11, <1>12, TurnKeeps, GrownSame, RaisedSame DEF RelayInv, Called, q, saw

---------------------------------------------------------------------------
(* A batch touches nothing the relay's calls rely on. *)

LEMMA BatchKeeps ==
  ASSUME RelayInv, NEW c \in Caller, NEW q, Turn(c, q), BatchCall(q), UNCHANGED <<bead, late, project>>
  PROVE  RelayInv'
  <1>1. bead' = bead /\ late' = late /\ project' = project OBVIOUS
  <1> QED BY <1>1, TurnKeeps, GrownSame, RaisedSame DEF RelayInv, Called

LEMMA AskBatchKeeps ==
  ASSUME RelayInv, NEW c \in Caller, AskBatch(c)
  PROVE  RelayInv'
  <1>1. PICK arg \in Request :
          Turn(c, IF Valid(arg) THEN BatchBegun(arg)
                  ELSE [BatchBegun(arg) EXCEPT !.pc = "done", !.outcome = "rejected"])
    BY DEF AskBatch
  <1>2. BatchCall(BatchBegun(arg))
    BY DEF BatchCall, BatchBegun, BatchFields, BatchPlaces
  <1>3. BatchCall([BatchBegun(arg) EXCEPT !.pc = "done", !.outcome = "rejected"])
    BY DEF BatchCall, BatchBegun, BatchFields, BatchPlaces
  <1> HIDE DEF BatchCall
  <1> QED BY <1>1, <1>2, <1>3, BatchKeeps DEF AskBatch

LEMMA BatchStepKeeps ==
  ASSUME RelayInv, NEW c \in Caller, BatchStep(c)
  PROVE  RelayInv'
  <1> DEFINE r == call[c]
  <1>1. BatchCall(r) /\ UNCHANGED <<bead, late, project>>
    <2>1. UNCHANGED <<bead, late, project>>
      BY DEF BatchStep, BatchNext, BatchLanded, BatchFailed, Wire, CheckLink, BatchDone, Reads
    <2>2. r.pc \in {"next bead", "landed", "wire", "check"} \/ (r.pc = "failed" /\ r.tool = "batch")
      BY DEF BatchStep, BatchNext, BatchLanded, BatchFailed, Wire, CheckLink, BatchDone, At
    <2>3. ~RelayCall(bead, project, c, r)
      BY <2>2 DEF RelayCall, Placed, RelayPlaces, MakingPlaces, HeldPlaces, EditPlaces
    <2>4. Idle.pc = "idle" BY DEF Idle
    <2>5. r # Idle BY <2>2, <2>4
    <2> QED BY <2>1, <2>3, <2>5 DEF RelayInv, Called
  <1>2. ASSUME NEW pc \in BatchPlaces, NEW q, Turn(c, q), DOMAIN q = DOMAIN r, q.pc = pc, q.tool = r.tool,
               q.then = r.then, q.saw = r.saw
        PROVE  RelayInv'
    <2>1. BatchCall(q) BY <1>1, <1>2 DEF BatchCall
    <2> QED BY <1>1, <1>2, <2>1, BatchKeeps
  <1>3. DOMAIN r = BatchFields /\ r.then = "landed" BY <1>1 DEF BatchCall
  <1>5. CASE BatchNext(c)
    <2> DEFINE n == Len(r.ids) + 1
               b == r.arg.beads[n]
               content == Content(b.store, b.title, b.body, None, FALSE, IF b.parent = 0 THEN 0 ELSE r.ids[b.parent])
    <2>1. PICK q : /\ Turn(c, q)
                   /\ \/ q = [r EXCEPT !.pc = "wire", !.wire = Links(r.arg, r.ids)]
                      \/ q = [r EXCEPT !.ids = Append(@, 0), !.failures = @ \union {<<n>>}]
                      \/ q = Making(r, content, "landed")
      BY <1>5 DEF BatchNext
    <2> HIDE DEF content, n
    <2>2. /\ DOMAIN q = DOMAIN r /\ q.pc \in {"wire", "twin", r.pc} /\ q.tool = r.tool
          /\ q.then = r.then /\ q.saw = r.saw
      <3>1. CASE q = [r EXCEPT !.pc = "wire", !.wire = Links(r.arg, r.ids)] BY <1>3, <3>1 DEF BatchFields
      <3>2. CASE q = [r EXCEPT !.ids = Append(@, 0), !.failures = @ \union {<<n>>}]
        BY <1>3, <3>2 DEF BatchFields
      <3>3. CASE q = Making(r, content, "landed") BY <1>3, <3>3 DEF BatchFields, Making
      <3> QED BY <2>1, <3>1, <3>2, <3>3
    <2>3. q.pc \in BatchPlaces BY <1>1, <2>2 DEF BatchCall, BatchPlaces
    <2> QED BY <1>2, <2>1, <2>2, <2>3
  <1>6. CASE BatchLanded(c)
    <2> DEFINE failures == IF r.verified THEN r.failures ELSE r.failures \union {<<Len(r.ids) + 1>>}
               q == [r EXCEPT !.pc = "next bead", !.ids = Append(@, r.id), !.failures = failures]
    <2>1. Turn(c, q) BY <1>6 DEF BatchLanded
    <2> HIDE DEF failures
    <2>2. DOMAIN q = DOMAIN r /\ q.pc = "next bead" /\ q.tool = r.tool /\ q.then = r.then /\ q.saw = r.saw
      BY <1>3 DEF BatchFields
    <2> HIDE DEF q
    <2> QED BY <1>2, <2>1, <2>2 DEF BatchPlaces
  <1>7. CASE BatchFailed(c)
    <2> DEFINE q == [r EXCEPT !.pc = "next bead", !.ids = Append(@, 0),
                              !.failures = @ \union {<<Len(r.ids) + 1>>}]
    <2>1. Turn(c, q) BY <1>7 DEF BatchFailed
    <2>2. DOMAIN q = DOMAIN r /\ q.pc = "next bead" /\ q.tool = r.tool /\ q.then = r.then /\ q.saw = r.saw
      BY <1>3 DEF BatchFields
    <2> HIDE DEF q
    <2> QED BY <1>2, <2>1, <2>2 DEF BatchPlaces
  <1>8. ASSUME NEW l, Turn(c, LinkFailed(r, l)) PROVE RelayInv'
    <2> DEFINE q == LinkFailed(r, l)
    <2>1. DOMAIN q = DOMAIN r /\ q.pc = "wire" /\ q.tool = r.tool /\ q.then = r.then /\ q.saw = r.saw
      BY <1>3 DEF BatchFields, LinkFailed
    <2> HIDE DEF q
    <2> QED BY <1>2, <1>8, <2>1 DEF BatchPlaces, q
  <1>9. ASSUME NEW l, Turn(c, [r EXCEPT !.pc = "check", !.link = l]) PROVE RelayInv'
    <2> DEFINE q == [r EXCEPT !.pc = "check", !.link = l]
    <2>1. DOMAIN q = DOMAIN r /\ q.pc = "check" /\ q.tool = r.tool /\ q.then = r.then /\ q.saw = r.saw
      BY <1>3 DEF BatchFields
    <2> QED BY <1>2, <1>9, <2>1 DEF BatchPlaces
  <1>10. CASE Turn(c, [r EXCEPT !.pc = "wire", !.wire = @ \ {r.link}])
    <2> DEFINE q == [r EXCEPT !.pc = "wire", !.wire = @ \ {r.link}]
    <2>1. DOMAIN q = DOMAIN r /\ q.pc = "wire" /\ q.tool = r.tool /\ q.then = r.then /\ q.saw = r.saw
      BY <1>3 DEF BatchFields
    <2> QED BY <1>2, <1>10, <2>1 DEF BatchPlaces
  <1>11. CASE BatchDone(c)
    <2> DEFINE outcome == IF r.failures = {} THEN "complete" ELSE "partial"
               q == [r EXCEPT !.pc = "done", !.outcome = outcome]
    <2>1. Turn(c, q) BY <1>11 DEF BatchDone
    <2>2. DOMAIN q = DOMAIN r /\ q.pc = "done" /\ q.tool = r.tool /\ q.then = r.then /\ q.saw = r.saw
      BY <1>3 DEF BatchFields
    <2> HIDE DEF q
    <2> QED BY <1>2, <2>1, <2>2 DEF BatchPlaces
  <1>12. Wire(c) => \E l : Turn(c, LinkFailed(r, l)) \/ Turn(c, [r EXCEPT !.pc = "check", !.link = l])
    BY DEF Wire
  <1>13. CheckLink(c) => Turn(c, LinkFailed(r, r.link)) \/ Turn(c, [r EXCEPT !.pc = "wire", !.wire = @ \ {r.link}])
    BY DEF CheckLink
  <1> QED BY <1>5, <1>6, <1>7, <1>8, <1>9, <1>10, <1>11, <1>12, <1>13 DEF BatchStep

---------------------------------------------------------------------------
(* The invariant, and what it gives. *)

LEMMA RelayInitial == Init => RelayInv
  <1> SUFFICES ASSUME Init PROVE RelayInv OBVIOUS
  <1>1. call = [c \in Caller |-> Idle] BY DEF Init
  <1>2. call = [c \in Caller |-> call[c]] /\ \A c \in Caller : Called(bead, project, c, call[c])
    BY <1>1 DEF Called
  <1>3. BeadsSound(bead, late)
    <2>1. bead = << >> /\ late = {} BY DEF Init
    <2>2. DOMAIN bead = {} BY <2>1
    <2>3. Listed(bead) BY <2>1 DEF Listed
    <2> QED BY <2>1, <2>2, <2>3 DEF BeadsSound
  <1>4. ProjectsSound(bead, project)
    <2> DEFINE blank(p) == [title |-> p, titles |-> {p}, foreground |-> p \in Foreground,
                            deprecated |-> FALSE, texts |-> {}]
    <2>1. project = [p \in Project |-> blank(p)] BY DEF Init
    <2>2. \A p \in Project : /\ DOMAIN blank(p) = ProjectFields /\ blank(p).title = p /\ blank(p).titles = {p}
                             /\ blank(p).foreground <=> p \in Foreground
      BY DEF ProjectFields
    <2> HIDE DEF blank
    <2>3. \A p \in Project : p # None BY RelayAssumption
    <2> QED BY <2>1, <2>2, <2>3 DEF ProjectsSound
  <1> QED BY <1>2, <1>3, <1>4 DEF RelayInv

LEMMA RelayInductive ==
  ASSUME RelayInv, [Next]_vars
  PROVE  RelayInv'
  <1>1. CASE UNCHANGED vars
    <2>1. bead' = bead /\ late' = late /\ project' = project /\ call' = call BY <1>1 DEF vars
    <2> QED BY <2>1 DEF RelayInv
  <1>2. ASSUME NEW c \in Caller, AskRelay(c) \/ AskBatch(c) \/ BatchStep(c) PROVE RelayInv'
    BY <1>2, AskRelayKeeps, AskBatchKeeps, BatchStepKeeps
  <1>3. ASSUME NEW c \in Caller, CreateStep(c) PROVE RelayInv'
    BY <1>3, FindTwinKeeps, CreateKeeps, CreateFailsKeeps, ReadBackKeeps DEF CreateStep
  <1>4. ASSUME NEW c \in Caller, RelayStep(c) PROVE RelayInv'
    <2>1. CASE Lookup(c) \/ Looked(c) \/ DupCheck(c) \/ EditDup(c) \/ CommentDup(c)
      BY <2>1, LookupKeeps, LookedKeeps, DupCheckKeeps, EditDupKeeps, CommentDupKeeps
    <2>2. CASE CreateThrew(c) \/ Made(c) \/ PromoteLabel(c) \/ PromoteNote(c) \/ Return(c) \/ Reread(c)
      BY <2>2, CreateThrewKeeps, MadeKeeps, PromoteLabelKeeps, PromoteNoteKeeps, ReturnKeeps
    <2>3. CASE Relist(c) \/ FlowDispatches(c) \/ Attach(c) \/ EditStep(c)
      BY <2>3, RelistKeeps, FlowDispatchesKeeps, AttachKeeps, EditStepKeeps
    <2> QED BY <1>4, <2>1, <2>2, <2>3 DEF RelayStep
  <1> QED BY <1>1, <1>2, <1>3, <1>4, LandKeeps, CloseBeadKeeps, HourPassesKeeps DEF Next

\* What the invariant says of answers, promotions and twins.
LEMMA RelayGives ==
  ASSUME RelayInv
  PROVE  OkMeansDone /\ PromotedByAWrite /\ TwinsHaveAReason
  <1>1. OkMeansDone
    <2> SUFFICES ASSUME NEW c \in Caller
                 PROVE  LET r == call[c]
                        IN /\ Done(c, "capture", "ok") \/ Done(c, "upsert", "ok") => Holding(r.id, r.arg, r.slug)
                           /\ Done(c, "flow", "ok") =>
                                /\ r.task \in Id /\ (r.arg.prio => bead[r.task].prio)
                                /\ r.arg.dispatch =>
                                     r.dispatch \in Id /\ bead[r.dispatch].title = DispatchFor(None, r.task)
                           /\ Done(c, "edit", "ok") =>
                                \A e \in r.arg.edits : <<e.step, e.to>> \in project[r.p].texts
                           /\ r.pc = "done" /\ r.tool \in {"capture", "upsert"} /\ r.promoted =>
                                project[r.p].foreground /\ <<"promoted", c>> \in project[r.p].texts
      BY DEF OkMeansDone
    <2> DEFINE r == call[c]
    <2>1. CASE r = Idle \/ BatchCall(r) BY <2>1 DEF Done, Idle, BatchCall
    <2>2. CASE RelayCall(bead, project, c, r)
      <3>1. Placed(r) BY <2>2 DEF RelayCall
      <3>2. Done(c, "capture", "ok") \/ Done(c, "upsert", "ok") => Holding(r.id, r.arg, r.slug)
        BY <2>2 DEF RelayCall, Answering, Done, Holding, HoldingIn, Id
      <3>3. Done(c, "flow", "ok") =>
              /\ r.task \in Id /\ (r.arg.prio => bead[r.task].prio)
              /\ r.arg.dispatch => r.dispatch \in Id /\ bead[r.dispatch].title = DispatchFor(None, r.task)
        BY <2>2 DEF RelayCall, Flowing, Done, Id
      <3>4. Done(c, "edit", "ok") => \A e \in r.arg.edits : <<e.step, e.to>> \in project[r.p].texts
        <4> SUFFICES ASSUME Done(c, "edit", "ok"), NEW e \in r.arg.edits
                     PROVE  <<e.step, e.to>> \in project[r.p].texts
          OBVIOUS
        <4>1. r.tool = "edit" /\ r.pc = "done" /\ r.outcome = "ok" BY DEF Done
        <4>2. e.step \in EditPlaces BY <3>1, <4>1, RequestAssumption, StepNames DEF Placed
        <4>3. Before(r.pc) = EditPlaces BY <4>1 DEF Before
        <4> QED BY <2>2, <4>1, <4>2, <4>3 DEF RelayCall, Editing
      <3>5. r.pc = "done" /\ r.tool \in {"capture", "upsert"} /\ r.promoted =>
              project[r.p].foreground /\ <<"promoted", c>> \in project[r.p].texts
        BY <2>2 DEF RelayCall, Promoting
      <3> QED BY <3>2, <3>3, <3>4, <3>5
    <2> QED BY <2>1, <2>2 DEF RelayInv, Called
  <1>2. PromotedByAWrite
    BY DEF RelayInv, ProjectsSound, PromotedByAWrite, Names, Id
  <1>3. TwinsHaveAReason
    <2> SUFFICES ASSUME NEW j \in Id, NEW i \in bead[j].by.saw,
                        bead[i].store = "task" /\ bead[j].title.kind = "task"
                 PROVE  <<bead[i].key.store, bead[i].key.title, bead[i].key.slug>>
                          # <<bead[j].key.store, bead[j].key.title, bead[j].key.slug>>
      BY DEF TwinsHaveAReason
    <2>1. Filed(bead, bead[j]) BY DEF RelayInv, BeadsSound, Id
    <2> QED BY <2>1 DEF Filed, NoTwin
  <1> QED BY <1>1, <1>2, <1>3

\* What a tool of the relay answers for a success has been done, however the
\* calls of several clients interleave and whichever commands fail.
THEOREM AnswersAreTrue == Spec => []OkMeansDone
  <1>1. Spec => []RelayInv BY RelayInitial, RelayInductive, PTL DEF Spec
  <1> QED BY <1>1, RelayGives, PTL

\* A backlog project comes to the foreground only by a bead in its name.
THEOREM PromotionsAreEarned == Spec => []PromotedByAWrite
  <1>1. Spec => []RelayInv BY RelayInitial, RelayInductive, PTL DEF Spec
  <1> QED BY <1>1, RelayGives, PTL

\* No task is made beside one like it that was there when the call began, unless
\* the call was told to or its search failed.
THEOREM TwinsAreExplained == Spec => []TwinsHaveAReason
  <1>1. Spec => []RelayInv BY RelayInitial, RelayInductive, PTL DEF Spec
  <1> QED BY <1>1, RelayGives, PTL


---------------------------------------------------------------------------
(* What a batch has landed, is making and has still to link.  Like the rest,*)
(* it only gets truer as the stores grow.                                   *)

Replied(r) == r.pc = "done"
Rejected(r) == Replied(r) /\ r.outcome = "rejected"

\* The content of the n-th bead, under the parent that landed.
Part(r, n) ==
  LET b == r.arg.beads[n]
  IN Content(b.store, b.title, b.body, None, FALSE, IF b.parent = 0 THEN 0 ELSE r.ids[b.parent])

Posed(r) ==
  /\ r.arg \in Request /\ r.arg.tool = "batch" /\ (Rejected(r) \/ Valid(r.arg))
  /\ r.ids \in Seq(Nat) /\ Len(r.ids) <= Len(r.arg.beads)

\* Each bead so far has landed, with all it refers to, or is among the failures.
Tallied(B, r) ==
  \A n \in DOMAIN r.ids :
    IF r.ids[n] = 0 THEN <<n>> \in r.failures
    ELSE r.ids[n] \in DOMAIN B /\ B[r.ids[n]].key = Part(r, n) /\ Missing(r, r.arg.beads[n]) = {}

AtBead(B, r) ==
  r.pc \in {"twin", "create", "recover", "read", "landed", "failed"} =>
    LET n == Len(r.ids) + 1
    IN /\ n <= Len(r.arg.beads) /\ r.make = Part(r, n) /\ Missing(r, r.arg.beads[n]) = {}
       /\ r.pc \in {"read", "landed"} => r.id \in DOMAIN B /\ B[r.id].key = r.make

\* Each link has been made, is still to be made or is among the failures.
Wiring(E, r) ==
  r.pc \in {"wire", "check"} \/ (Replied(r) /\ ~Rejected(r)) =>
    /\ Len(r.ids) = Len(r.arg.beads)
    /\ \A l \in Links(r.arg, r.ids) :
         \/ l \in r.wire \/ <<l.from, l.to>> \in r.failures
         \/ <<r.ids[l.from], r.ids[l.to]>> \in E
    /\ r.pc = "check" => <<r.ids[r.link.from], r.ids[r.link.to]>> \in E
    /\ Replied(r) => r.wire = {} /\ (r.outcome = "complete" => r.failures = {})

BatchSound(B, E, r) == Posed(r) /\ Tallied(B, r) /\ AtBead(B, r) /\ Wiring(E, r)

\* If a bead of the same content that is not old was there before the call, the
\* bead was too and is the oldest such.
Oldest(B, before, i) ==
  (\E k \in before : B[k].key = B[i].key /\ ~B[k].old) =>
    i \in before /\ \A j \in DOMAIN B : B[j].key = B[i].key /\ ~B[j].old => i <= j

\* A batch nothing fails for finds what is there.
Replaying(B, r) ==
  /\ r.before \subseteq DOMAIN B /\ r.pc \notin {"recover", "failed"}
  /\ \A k \in r.before, i \in DOMAIN B : i <= k /\ ~B[i].old => i \in r.before
  /\ \A n \in DOMAIN r.ids : r.ids[n] # 0 => Oldest(B, r.before, r.ids[n])
  /\ r.pc = "create" => \A k \in r.before : B[k].key = r.make => B[k].old
  /\ r.pc \in {"read", "landed"} => Oldest(B, r.before, r.id)

Batches == {c \in Caller : call[c].tool = "batch"}

BatchInv == \A c \in Batches : BatchSound(bead, edge, call[c])

\* As long as nothing has failed.
ReplayInv ==
  /\ faults \in Nat
  /\ faults = 0 =>
       /\ late = {} /\ \A i \in Id : ~bead[i].closed
       /\ \A c \in Batches : Replaying(bead, call[c])

LEMMA SoundStays ==
  ASSUME NEW B, NEW B2, Grown(B, B2), NEW E, NEW E2, E \subseteq E2, NEW r, BatchSound(B, E, r)
  PROVE  BatchSound(B2, E2, r)
  <1>1. Posed(r) BY DEF BatchSound
  <1>2. Tallied(B2, r) BY DEF BatchSound, Tallied, Grown
  <1>3. AtBead(B2, r) BY DEF BatchSound, AtBead, Grown
  <1>4. Wiring(E2, r) BY DEF BatchSound, Wiring
  <1> QED BY <1>1, <1>2, <1>3, <1>4 DEF BatchSound

\* A bead that is added is the youngest.
LEMMA OldestStays ==
  ASSUME NEW B, Listed(B), NEW B2, Listed(B2), Grown(B, B2),
         NEW before, before \subseteq DOMAIN B, NEW i \in DOMAIN B, Oldest(B, before, i)
  PROVE  Oldest(B2, before, i)
  <1> SUFFICES ASSUME \E k \in before : B2[k].key = B2[i].key /\ ~B2[k].old
               PROVE  i \in before /\ \A j \in DOMAIN B2 : B2[j].key = B2[i].key /\ ~B2[j].old => i <= j
    BY DEF Oldest
  <1>1. \A k \in DOMAIN B : B2[k].key = B[k].key /\ (~B2[k].old => ~B[k].old) BY DEF Grown
  <1>2. i \in before /\ \A j \in DOMAIN B : B[j].key = B[i].key /\ ~B[j].old => i <= j BY <1>1 DEF Oldest
  <1>3. ASSUME NEW j \in DOMAIN B2, B2[j].key = B2[i].key, ~B2[j].old PROVE i <= j
    <2>1. CASE j \in DOMAIN B BY <1>1, <1>2, <1>3, <2>1
    <2>2. CASE j \notin DOMAIN B
      <3>1. j \in 1 .. Len(B2) /\ i \in 1 .. Len(B) /\ DOMAIN B = 1 .. Len(B) /\ Len(B) \in Nat /\ Len(B2) \in Nat
        BY ListedPlaces
      <3> QED BY <2>2, <3>1
    <2> QED BY <2>1, <2>2
  <1> QED BY <1>2, <1>3

LEMMA ReplayStays ==
  ASSUME NEW B, Listed(B), NEW B2, Listed(B2), Grown(B, B2), NEW E, NEW r, BatchSound(B, E, r), Replaying(B, r)
  PROVE  Replaying(B2, r)
  <1>1. r.before \subseteq DOMAIN B /\ r.pc \notin {"recover", "failed"} BY DEF Replaying
  <1>2. r.before \subseteq DOMAIN B2 BY <1>1 DEF Grown
  <1>3. \A n \in DOMAIN r.ids : r.ids[n] # 0 => Oldest(B2, r.before, r.ids[n])
    <2> SUFFICES ASSUME NEW n \in DOMAIN r.ids, r.ids[n] # 0 PROVE Oldest(B2, r.before, r.ids[n])
      OBVIOUS
    <2>1. r.ids[n] \in DOMAIN B BY DEF BatchSound, Tallied
    <2>2. Oldest(B, r.before, r.ids[n]) BY DEF Replaying
    <2> QED BY <1>1, <2>1, <2>2, OldestStays
  <1>4. r.pc = "create" => \A k \in r.before : B2[k].key = r.make => B2[k].old BY <1>1 DEF Replaying, Grown
  <1>6. ASSUME NEW k \in r.before, NEW i \in DOMAIN B2, i <= k, ~B2[i].old PROVE i \in r.before
    <2>1. i \in DOMAIN B BY <1>1, <1>6, ListedPlaces
    <2> QED BY <1>6, <2>1 DEF Replaying, Grown
  <1>5. r.pc \in {"read", "landed"} => Oldest(B2, r.before, r.id)
    <2> SUFFICES ASSUME r.pc \in {"read", "landed"} PROVE Oldest(B2, r.before, r.id)
      OBVIOUS
    <2>1. r.id \in DOMAIN B BY DEF BatchSound, AtBead
    <2>2. Oldest(B, r.before, r.id) BY DEF Replaying
    <2> QED BY <1>1, <2>1, <2>2, OldestStays
  <1> QED BY <1>1, <1>2, <1>3, <1>4, <1>5, <1>6 DEF Replaying

---------------------------------------------------------------------------
(* Who moves, and what moves with it. *)

LEMMA BatchesAreCalls ==
  ASSUME RelayInv, NEW c \in Caller
  PROVE  c \in Batches <=> BatchCall(call[c])
  <1>1. Idle.tool = "none" BY DEF Idle
  <1> QED BY <1>1 DEF Batches, RelayInv, Called, RelayCall, Placed, BatchCall

LEMMA RelayCallsAre ==
  ASSUME RelayInv, NEW c \in Caller, call[c].pc # "idle", c \notin Batches
  PROVE  DOMAIN call[c] = CallFields
  <1>1. call[c] # Idle BY DEF Idle
  <1> QED BY <1>1 DEF Batches, RelayInv, Called, RelayCall, Placed, BatchCall

\* Answers leave the tool and the arguments of a call.
LEMMA ToolStays ==
  ASSUME NEW r, DOMAIN r = CallFields
  PROVE  /\ \A outcome : Answered(r, outcome).tool = r.tool
         /\ Threw(r).tool = r.tool /\ Returned(r).tool = r.tool
         /\ \A content, then : Making(r, content, then).tool = r.tool
  <1>1. \A outcome : Answered(r, outcome).tool = r.tool BY DEF Answered, CallFields
  <1>2. Threw(r).tool = r.tool BY <1>1 DEF Threw, CallFields
  <1>3. Returned(r).tool = r.tool
    <2> DEFINE q == [r EXCEPT !.dispatch = r.id]
    <2>1. q.tool = r.tool /\ DOMAIN q = CallFields BY DEF CallFields
    <2>2. \A outcome : Answered(q, outcome).tool = q.tool
      <3> HIDE DEF q
      <3> QED BY <2>1 DEF Answered, CallFields
    <2> QED BY <1>1, <2>1, <2>2 DEF Returned, CallFields
  <1>4. \A content, then : Making(r, content, then).tool = r.tool BY DEF Making, CallFields
  <1> QED BY <1>1, <1>2, <1>3, <1>4

LEMMA RelayStepsStay ==
  ASSUME RelayInv, NEW c \in Caller, RelayStep(c), c \notin Batches
  PROVE  call'[c].tool = call[c].tool /\ \A d \in Caller : d # c => call'[d] = call[d]
  <1> DEFINE r == call[c]
  <1>0. \A q : Turn(c, q) => call'[c] = q /\ \A d \in Caller : d # c => call'[d] = call[d]
    BY DEF Turn, RelayInv
  <1>1. DOMAIN r = CallFields
    <2>1. r.pc # "idle"
      BY StepNames DEF RelayStep, Lookup, Looked, DupCheck, EditDup, CommentDup, CreateThrew, Made, PromoteLabel,
                       PromoteNote, Return, Reread, Relist, FlowDispatches, Attach, EditStep, At, EditPlaces
    <2> QED BY <2>1, RelayCallsAre
  <1>2. /\ \A outcome : Answered(r, outcome).tool = r.tool
        /\ Threw(r).tool = r.tool /\ Returned(r).tool = r.tool
        /\ \A content, then : Making(r, content, then).tool = r.tool
    BY <1>1, ToolStays
  <1>3. CASE Lookup(c)
    <2> DEFINE p == CHOOSE m \in Matches(r.ref) : TRUE
               s == [r EXCEPT !.pc = "looked", !.p = p, !.slug = Slug(p), !.backlog = ~project[p].foreground]
    <2>1. s.tool = r.tool BY <1>1 DEF CallFields
    <2>2. Turn(c, Threw(r)) \/ Turn(c, s) BY <1>3 DEF Lookup
    <2> QED BY <1>0, <1>2, <2>1, <2>2
  <1>4. CASE Looked(c)
    <2> DEFINE s == [r EXCEPT !.pc = "dups"]
               t == [r EXCEPT !.pc = "attach"]
               u == [r EXCEPT !.pc = "text"]
    <2>1. s.tool = r.tool /\ t.tool = r.tool /\ u.tool = r.tool BY <1>1 DEF CallFields
    <2>2. r.stage \in {"resolve", "capture", "upsert", "dispatch", "edit"}
      <3>1. r.pc = "looked" BY <1>4 DEF Looked, At
      <3>2. Placed(r) BY <3>1, AtRelay DEF RelayPlaces, BatchPlaces, RelayCall
      <3> QED BY <3>2, Tools DEF Placed
    <2>3. \/ Turn(c, Returned(r)) \/ \E content : Turn(c, Making(r, content, "made"))
          \/ Turn(c, s) \/ Turn(c, t) \/ Turn(c, u)
      BY <1>4, <2>2 DEF Looked
    <2> HIDE DEF s, t, u
    <2> QED BY <1>0, <1>2, <2>1, <2>3
  <1>5. CASE DupCheck(c)
    <2> DEFINE s == [r EXCEPT !.saw = {}]
    <2>1. DOMAIN s = CallFields /\ s.tool = r.tool BY <1>1 DEF CallFields
    <2> HIDE DEF s
    <2>2. \A content, then : Making(s, content, then).tool = r.tool BY <2>1, ToolStays
    <2> DEFINE dup == IF r.arg.allow THEN Duplicate(r.arg.title, Scoped(r.arg.title, r.slug)) ELSE 0
               e == [r EXCEPT !.id = dup, !.pc = IF r.arg.body # None \/ r.arg.prio THEN "edit" ELSE "comment"]
    <2>3. e.tool = r.tool BY <1>1 DEF CallFields
    <2>4. \/ Turn(c, e) \/ \E content : Turn(c, Making(r, content, "made"))
          \/ \E content : Turn(c, Making(s, content, "made"))
      BY <1>5 DEF DupCheck, s
    <2> HIDE DEF e, dup
    <2> QED BY <1>0, <1>2, <2>2, <2>3, <2>4
  <1>6. CASE EditDup(c) \/ CommentDup(c)
    <2> DEFINE s == [r EXCEPT !.pc = "label", !.then = "reread"]
               f == [r EXCEPT !.pc = "comment"]
    <2>1. s.tool = r.tool /\ f.tool = r.tool BY <1>1 DEF CallFields
    <2>2. Turn(c, s) \/ Turn(c, f) \/ Turn(c, Threw(r)) BY <1>6 DEF EditDup, CommentDup
    <2> QED BY <1>0, <1>2, <2>1, <2>2
  <1>7. CASE CreateThrew(c) \/ Made(c) \/ Return(c) \/ Reread(c)
    <2> DEFINE s == [r EXCEPT !.pc = "label", !.then = "return"]
    <2>1. s.tool = r.tool BY <1>1 DEF CallFields
    <2>2. Turn(c, s) \/ Turn(c, Returned(r)) \/ Turn(c, Threw(r))
      BY <1>7 DEF CreateThrew, Made, Return, Reread
    <2> QED BY <1>0, <1>2, <2>1, <2>2
  <1>8. CASE PromoteLabel(c) \/ PromoteNote(c)
    <2> DEFINE s == [r EXCEPT !.pc = "note", !.promoted = TRUE]
               t == [r EXCEPT !.pc = r.then]
               n == [r EXCEPT !.pc = "note"]
               u == [r EXCEPT !.pc = r.then, !.promoted = FALSE]
    <2>1. s.tool = r.tool /\ t.tool = r.tool /\ n.tool = r.tool /\ u.tool = r.tool BY <1>1 DEF CallFields
    <2>2. (Go(c, r.then) => Turn(c, t)) /\ (Go(c, "note") => Turn(c, n)) BY DEF Go, Turn
    <2>3. Turn(c, s) \/ Turn(c, t) \/ Turn(c, n) \/ Turn(c, u)
      BY <1>8, <2>2 DEF PromoteLabel, PromoteNote
    <2> QED BY <1>0, <2>1, <2>3
  <1>9. CASE Relist(c)
    <2>1. PICK p : Turn(c, [r EXCEPT !.p = p, !.pc = "next"]) \/ Turn(c, Threw(r)) BY <1>9 DEF Relist
    <2>2. [r EXCEPT !.p = p, !.pc = "next"].tool = r.tool BY <1>1 DEF CallFields
    <2> QED BY <1>0, <1>2, <2>1, <2>2
  <1>10. CASE FlowDispatches(c)
    <2> DEFINE s == [r EXCEPT !.stage = "dispatch", !.ref = r.p, !.p = None, !.slug = None,
                              !.pc = IF r.p = None THEN "looked" ELSE "lookup"]
    <2>1. s.tool = r.tool BY <1>1 DEF CallFields
    <2>2. Turn(c, s) \/ \E outcome : Turn(c, Answered(r, outcome)) BY <1>10 DEF FlowDispatches
    <2> QED BY <1>0, <1>2, <2>1, <2>2
  <1>11. CASE Attach(c)
    <2>1. Turn(c, Threw(r)) \/ \E content : Turn(c, Making(r, content, "made")) BY <1>11 DEF Attach
    <2> QED BY <1>0, <1>2, <2>1
  <1>12. CASE EditStep(c)
    <2> DEFINE s == [r EXCEPT !.bad = TRUE]
    <2>1. DOMAIN s = CallFields /\ s.tool = r.tool /\ s.pc = r.pc BY <1>1 DEF CallFields
    <2>2. r.pc \in EditPlaces BY <1>12, StepNames DEF EditStep
    <2>3. ASSUME NEW t, DOMAIN t = CallFields, t.tool = r.tool, t.pc = r.pc PROVE AfterStep(t).tool = r.tool
      <3>1. Returned(t).tool = r.tool BY <2>3, ToolStays
      <3>2. [t EXCEPT !.pc = "comment on it"].tool = r.tool /\ [t EXCEPT !.pc = "lifecycle"].tool = r.tool
        BY <2>3 DEF CallFields
      <3> QED BY <2>2, <2>3, <3>1, <3>2, StepAfter DEF EditPlaces
    <2>4. AfterStep(r).tool = r.tool BY <1>1, <2>3
    <2>5. FailedStep(r).tool = r.tool BY <2>1, <2>3 DEF FailedStep
    <2>6. Turn(c, AfterStep(r)) \/ Turn(c, FailedStep(r)) \/ Turn(c, Threw(r)) BY <1>12 DEF EditStep
    <2> QED BY <1>0, <1>2, <2>4, <2>5, <2>6
  <1> QED BY <1>3, <1>4, <1>5, <1>6, <1>7, <1>8, <1>9, <1>10, <1>11, <1>12 DEF RelayStep

LEMMA CreateStepsStay ==
  ASSUME RelayInv, NEW c \in Caller, CreateStep(c), c \notin Batches
  PROVE  call'[c].tool = call[c].tool /\ \A d \in Caller : d # c => call'[d] = call[d]
  <1> DEFINE r == call[c]
  <1>0. \A q : Turn(c, q) => call'[c] = q /\ \A d \in Caller : d # c => call'[d] = call[d]
    BY DEF Turn, RelayInv
  <1>1. DOMAIN r = CallFields
    <2>1. r.pc # "idle" BY DEF CreateStep, FindTwin, Create, CreateFails, Recover, ReadBack, At
    <2> QED BY <2>1, RelayCallsAre
  <1>2. \/ \E pc : Turn(c, [r EXCEPT !.pc = pc])
        \/ \E id : Turn(c, [r EXCEPT !.pc = "read", !.id = id])
        \/ \E verified : Turn(c, [r EXCEPT !.pc = r.then, !.verified = verified])
    <2>1. \A pc : Go(c, pc) => Turn(c, [r EXCEPT !.pc = pc]) BY DEF Go, Turn
    <2>2. \A id : Found(c, id) => Turn(c, [r EXCEPT !.pc = "read", !.id = id]) BY DEF Found, Turn
    <2>3. \/ \E pc : Go(c, pc)
          \/ \E id : Found(c, id)
          \/ \E verified : Turn(c, [r EXCEPT !.pc = r.then, !.verified = verified])
      BY DEF CreateStep, FindTwin, Create, CreateFails, Recover, ReadBack, Turn
    <2> QED BY <2>1, <2>2, <2>3
  <1>3. ASSUME NEW pc, Turn(c, [r EXCEPT !.pc = pc]) PROVE call'[c].tool = r.tool
    BY <1>0, <1>1, <1>3 DEF CallFields
  <1>4. ASSUME NEW id, Turn(c, [r EXCEPT !.pc = "read", !.id = id]) PROVE call'[c].tool = r.tool
    <2> DEFINE q == [r EXCEPT !.pc = "read", !.id = id]
    <2>1. q.tool = r.tool BY <1>1 DEF CallFields
    <2> QED BY <1>0, <1>4, <2>1
  <1>5. ASSUME NEW verified, Turn(c, [r EXCEPT !.pc = r.then, !.verified = verified]) PROVE call'[c].tool = r.tool
    <2> DEFINE q == [r EXCEPT !.pc = r.then, !.verified = verified]
    <2>1. q.tool = r.tool BY <1>1 DEF CallFields
    <2> QED BY <1>0, <1>5, <2>1
  <1> QED BY <1>0, <1>2, <1>3, <1>4, <1>5

\* The stores grow; a bead is closed, or comes late, only after a failure.
Growth ==
  /\ edge \subseteq edge' /\ Grown(bead, bead') /\ Listed(bead')
  /\ \A i \in Id : bead'[i].closed = bead[i].closed \/ faults' = faults + 1
  /\ \A j \in DOMAIN bead' \ Id : ~bead'[j].closed \/ bead'[j] \in late

LEMMA StoresGrow ==
  ASSUME RelayInv, [Next]_vars
  PROVE  Growth
  <1>0. Listed(bead') BY RelayInductive DEF RelayInv, BeadsSound
  <1>1. CASE bead' = bead /\ edge \subseteq edge' BY <1>0, <1>1, GrownSame DEF Growth, Id
  <1>2. ASSUME NEW b, bead' = Append(bead, b), Filed(bead, b), ~b.closed \/ b \in late, edge' = edge
        PROVE  Growth
    <2>1. Grown(bead, bead') /\ bead'[Len(bead) + 1] = b BY <1>2, AppendGrows DEF RelayInv
    <2>2. Len(bead) \in Nat /\ DOMAIN bead = 1 .. Len(bead) BY ListedPlaces DEF RelayInv, BeadsSound
    <2>3. DOMAIN bead' = 1 .. Len(bead) + 1 /\ \A i \in Id : bead'[i] = bead[i]
      <3>1. bead \in Seq({bead[i] : i \in DOMAIN bead}) BY DEF RelayInv, BeadsSound, Listed
      <3> QED BY <1>2, <2>2, <3>1 DEF Id
    <2>4. \A j \in DOMAIN bead' \ Id : j = Len(bead) + 1 BY <2>2, <2>3 DEF Id
    <2> QED BY <1>0, <1>2, <2>1, <2>3, <2>4 DEF Growth
  <1>3. ASSUME NEW i \in Id, NEW d, bead' = [bead EXCEPT ![i] = d], Rewritten(bead[i], d), edge' = edge,
               d.closed = bead[i].closed \/ faults' = faults + 1
        PROVE  Growth
    <2>1. Grown(bead, bead') BY <1>3, RewriteGrows DEF RelayInv, Id
    <2> QED BY <1>0, <1>3, <2>1 DEF Growth, Id
  <1>4. ASSUME NEW c \in Caller, Create(c) \/ CreateFails(c) PROVE Growth
    <2> DEFINE b == Bead(call[c].make, [who |-> c, saw |-> call[c].saw])
    <2>1. Filed(bead, b) BY <1>4, MakesWell DEF Create, CreateFails, At
    <2>2. ~b.closed BY DEF Bead
    <2>3. bead' = bead \/ bead' = Append(bead, b) BY <1>4 DEF Create, CreateFails, Appended
    <2>4. edge' = edge BY <1>4 DEF Create, CreateFails
    <2> HIDE DEF b
    <2> QED BY <1>1, <1>2, <2>1, <2>2, <2>3, <2>4
  <1>5. ASSUME NEW c \in Caller, EditDup(c) \/ CommentDup(c) PROVE Growth
    <2> DEFINE r == call[c] b == bead[r.id]
               d == Written(b, r.arg)
               e == [b EXCEPT !.texts = @ \union {r.arg.body}]
    <2>1. r.id \in Id
      <3>1. r.pc \in {"edit", "comment"} BY <1>5 DEF EditDup, CommentDup, At
      <3>2. RelayCall(bead, project, c, r) BY <3>1, AtRelay DEF RelayPlaces, HeldPlaces, BatchPlaces
      <3> QED BY <3>1, <3>2 DEF RelayCall, InHand, HeldPlaces, Id
    <2>2. DOMAIN b = BeadFields BY <2>1 DEF RelayInv, BeadsSound, Filed, Id
    <2>3. Rewritten(b, d) /\ d.closed = b.closed BY <2>2 DEF Written, Rewritten, BeadFields
    <2>4. Rewritten(b, e) /\ e.closed = b.closed BY <2>2 DEF Rewritten, BeadFields
    <2>5. bead' = bead \/ bead' = [bead EXCEPT ![r.id] = d] \/ bead' = [bead EXCEPT ![r.id] = e]
      BY <1>5 DEF EditDup, CommentDup
    <2>6. edge' = edge BY <1>5 DEF EditDup, CommentDup
    <2> HIDE DEF b, d, e
    <2> QED BY <1>1, <1>3, <2>1, <2>3, <2>4, <2>5, <2>6 DEF b
  <1>6. CASE Land
    <2>1. PICK b \in late : bead' = Append(bead, b) BY <1>6 DEF Land
    <2>2. Filed(bead, b) BY DEF RelayInv, BeadsSound
    <2>3. edge' = edge BY <1>6 DEF Land
    <2> QED BY <1>2, <2>1, <2>2, <2>3
  <1>7. CASE CloseBead
    <2>1. PICK i \in Id : bead' = [bead EXCEPT ![i].closed = TRUE] BY <1>7 DEF CloseBead
    <2> DEFINE d == [bead[i] EXCEPT !.closed = TRUE]
    <2>2. DOMAIN bead[i] = BeadFields BY DEF RelayInv, BeadsSound, Filed, Id
    <2>3. Rewritten(bead[i], d) BY <2>2 DEF Rewritten, BeadFields
    <2>4. bead' = [bead EXCEPT ![i] = d] BY <2>1
    <2>5. edge' = edge /\ faults' = faults + 1 BY <1>7 DEF CloseBead, Fault
    <2> HIDE DEF d
    <2> QED BY <1>3, <2>3, <2>4, <2>5
  <1>12. CASE HourPasses
    <2>1. PICK i \in Id : bead' = [bead EXCEPT ![i].old = TRUE] BY <1>12 DEF HourPasses
    <2> DEFINE d == [bead[i] EXCEPT !.old = TRUE]
    <2>2. DOMAIN bead[i] = BeadFields BY DEF RelayInv, BeadsSound, Filed, Id
    <2>3. Rewritten(bead[i], d) /\ d.closed = bead[i].closed BY <2>2 DEF Rewritten, BeadFields
    <2>4. bead' = [bead EXCEPT ![i] = d] BY <2>1
    <2>5. edge' = edge BY <1>12 DEF HourPasses
    <2> HIDE DEF d
    <2> QED BY <1>3, <2>3, <2>4, <2>5
  <1>8. ASSUME NEW c \in Caller, AskRelay(c) \/ AskBatch(c) \/ BatchStep(c) PROVE Growth
    <2>1. bead' = bead /\ edge \subseteq edge'
      BY <1>8 DEF AskRelay, AskBatch, BatchStep, BatchNext, BatchLanded, BatchFailed, Wire, CheckLink, BatchDone, Reads
    <2> QED BY <1>1, <2>1
  <1>9. ASSUME NEW c \in Caller, CreateStep(c) PROVE Growth
    <2>1. FindTwin(c) \/ Recover(c) \/ ReadBack(c) => bead' = bead /\ edge' = edge
      BY DEF FindTwin, Recover, ReadBack, Reads
    <2> QED BY <1>1, <1>4, <1>9, <2>1 DEF CreateStep
  <1>10. ASSUME NEW c \in Caller, RelayStep(c) PROVE Growth
    <2>1. RelayStep(c) => EditDup(c) \/ CommentDup(c) \/ (bead' = bead /\ edge' = edge)
      BY DEF RelayStep, Lookup, Looked, DupCheck, CreateThrew, Made, PromoteLabel, PromoteNote, Return, Reread,
             Relist, FlowDispatches, Attach, EditStep, Reads
    <2> QED BY <1>1, <1>5, <1>10, <2>1
  <1>11. CASE UNCHANGED vars BY <1>1, <1>11 DEF vars
  <1> QED BY <1>6, <1>7, <1>8, <1>9, <1>10, <1>11, <1>12 DEF Next

---------------------------------------------------------------------------
(* A batch goes on, bead by bead and link by link. *)

LEMMA AppendedIs ==
  ASSUME NEW s \in Seq(Nat), NEW x \in Nat, NEW t, t = Append(s, x)
  PROVE  /\ t \in Seq(Nat) /\ Len(t) = Len(s) + 1 /\ Len(s) \in Nat
         /\ DOMAIN s = 1 .. Len(s) /\ DOMAIN t = 1 .. Len(s) + 1
         /\ t[Len(s) + 1] = x /\ \A n \in DOMAIN s : t[n] = s[n]
  OBVIOUS

\* What a bead of a batch refers to comes before it.
LEMMA RefersBack ==
  ASSUME NEW r, Posed(r), ~Rejected(r), NEW n \in 1 .. Len(r.arg.beads)
  PROVE  /\ n \in DOMAIN r.arg.beads /\ Refs(r.arg.beads[n]) \subseteq 1 .. n - 1
         /\ r.arg.beads[n].parent = 0 \/ r.arg.beads[n].parent \in 1 .. n - 1
  <1>1. r.arg.beads \in Seq({r.arg.beads[m] : m \in DOMAIN r.arg.beads})
    BY BatchAssumption DEF Posed
  <1>2. n \in DOMAIN r.arg.beads BY <1>1
  <1>3. Refs(r.arg.beads[n]) \subseteq 1 .. n - 1 BY <1>2 DEF Posed, Valid
  <1> QED BY <1>2, <1>3 DEF Refs

LEMMA BeadCounted ==
  ASSUME NEW B, NEW r, Posed(r), ~Rejected(r), Tallied(B, r), Len(r.ids) + 1 <= Len(r.arg.beads),
         NEW q, q.arg = r.arg, q.pc # "done", r.failures \subseteq q.failures,
         NEW x \in Nat, q.ids = Append(r.ids, x),
         IF x = 0 THEN <<Len(r.ids) + 1>> \in q.failures
         ELSE /\ x \in DOMAIN B /\ B[x].key = Part(r, Len(r.ids) + 1)
              /\ Missing(r, r.arg.beads[Len(r.ids) + 1]) = {}
  PROVE  Posed(q) /\ Tallied(B, q)
  <1> DEFINE k == Len(r.ids) + 1
  <1>1. /\ q.ids \in Seq(Nat) /\ Len(q.ids) = k /\ k \in Nat
        /\ DOMAIN r.ids = 1 .. k - 1 /\ DOMAIN q.ids = 1 .. k /\ q.ids[k] = x
        /\ \A n \in 1 .. k - 1 : q.ids[n] = r.ids[n]
    <2>1. r.ids \in Seq(Nat) BY DEF Posed
    <2>2. Len(r.ids) \in Nat BY <2>1
    <2> QED BY <2>1, <2>2, AppendedIs
  <1>2. k <= Len(r.arg.beads) OBVIOUS
  <1> HIDE DEF k
  <1>3. Posed(q) BY <1>1, <1>2 DEF Posed, Rejected, Replied
  <1>4. ASSUME NEW n \in 1 .. k
        PROVE  Part(q, n) = Part(r, n) /\ Missing(q, q.arg.beads[n]) = Missing(r, r.arg.beads[n])
    <2>0. Len(r.arg.beads) \in Nat
      <3>1. r.arg.beads \in Seq({r.arg.beads[m] : m \in DOMAIN r.arg.beads}) BY BatchAssumption DEF Posed
      <3> QED BY <3>1
    <2>1. n \in 1 .. Len(r.arg.beads) BY <1>1, <1>2, <2>0
    <2>2. /\ Refs(r.arg.beads[n]) \subseteq 1 .. n - 1
          /\ r.arg.beads[n].parent = 0 \/ r.arg.beads[n].parent \in 1 .. n - 1
      BY <2>1, RefersBack
    <2>3. \A m \in 1 .. n - 1 : q.ids[m] = r.ids[m] BY <1>1
    <2>4. Part(q, n) = Part(r, n) BY <2>2, <2>3 DEF Part
    <2>5. Missing(q, q.arg.beads[n]) = Missing(r, r.arg.beads[n]) BY <2>2, <2>3 DEF Missing
    <2> QED BY <2>4, <2>5
  <1>5. Tallied(B, q)
    <2> SUFFICES ASSUME NEW n \in 1 .. k
                 PROVE  IF q.ids[n] = 0 THEN <<n>> \in q.failures
                        ELSE /\ q.ids[n] \in DOMAIN B /\ B[q.ids[n]].key = Part(q, n)
                             /\ Missing(q, q.arg.beads[n]) = {}
      BY <1>1 DEF Tallied
    <2>1. CASE n = k BY <1>1, <1>4, <2>1 DEF k
    <2>2. CASE n \in 1 .. k - 1
      <3>1. n \in DOMAIN r.ids /\ q.ids[n] = r.ids[n] BY <1>1, <2>2
      <3> QED BY <1>4, <3>1 DEF Tallied
    <2> QED BY <1>1, <2>1, <2>2
  <1> QED BY <1>3, <1>5

\* Nothing is counted while a bead is made and links are made.
LEMMA CountStays ==
  ASSUME NEW B, NEW r, Posed(r), ~Rejected(r), Tallied(B, r),
         NEW q, q.arg = r.arg, q.ids = r.ids, ~Rejected(q), r.failures \subseteq q.failures
  PROVE  Posed(q) /\ Tallied(B, q)
  <1>1. Posed(q) BY DEF Posed
  <1>2. \A n : Part(q, n) = Part(r, n) BY DEF Part
  <1>3. \A b : Missing(q, b) = Missing(r, b) BY DEF Missing
  <1>4. Tallied(B, q) BY <1>2, <1>3 DEF Tallied
  <1> QED BY <1>1, <1>4

LEMMA BatchStepSound ==
  ASSUME RelayInv, NEW c \in Batches, BatchSound(bead, edge, call[c]), BatchStep(c)
  PROVE  BatchSound(bead, edge', call'[c])
  <1> DEFINE r == call[c] k == Len(r.ids) + 1
  <1>0. c \in Caller BY DEF Batches
  <1>1. \A q : Turn(c, q) => call'[c] = q BY <1>0 DEF Turn, RelayInv
  <1>2. DOMAIN r = BatchFields BY <1>0, BatchesAreCalls DEF BatchCall
  <1>3. /\ r.pc \in {"next bead", "landed", "failed", "wire", "check"}
        /\ Posed(r) /\ Tallied(bead, r) /\ AtBead(bead, r) /\ Wiring(edge, r) /\ ~Rejected(r)
    <2>1. r.pc \in {"next bead", "landed", "failed", "wire", "check"}
      BY DEF BatchStep, BatchNext, BatchLanded, BatchFailed, Wire, CheckLink, BatchDone, At
    <2> QED BY <2>1 DEF BatchSound, Rejected, Replied
  <1>4. /\ r.ids \in Seq(Nat) /\ Len(r.ids) \in Nat /\ Len(r.arg.beads) \in Nat /\ k \in Nat
        /\ Len(r.ids) <= Len(r.arg.beads)
    <2>1. r.arg.beads \in Seq({r.arg.beads[m] : m \in DOMAIN r.arg.beads}) BY <1>3, BatchAssumption DEF Posed
    <2>2. r.ids \in Seq(Nat) /\ Len(r.ids) <= Len(r.arg.beads) BY <1>3 DEF Posed
    <2> QED BY <2>1, <2>2
  <1>5. edge \subseteq edge'
    BY DEF BatchStep, BatchNext, BatchLanded, BatchFailed, Wire, CheckLink, BatchDone, Reads
  \* A bead is not tried, or failed.
  <1>6. ASSUME NEW q, Turn(c, q), q = [r EXCEPT !.pc = "next bead", !.ids = Append(@, 0), !.failures = @ \union {<<k>>}],
               k <= Len(r.arg.beads)
        PROVE  BatchSound(bead, edge', call'[c])
    <2>1. /\ q.pc = "next bead" /\ q.arg = r.arg /\ q.ids = Append(r.ids, 0)
          /\ q.failures = r.failures \union {<<k>>}
      BY <1>2, <1>6 DEF BatchFields
    <2>2. Posed(q) /\ Tallied(bead, q) BY <1>3, <1>6, <2>1, BeadCounted
    <2>3. AtBead(bead, q) /\ Wiring(edge', q) BY <2>1 DEF AtBead, Wiring, Replied
    <2> QED BY <1>1, <1>6, <2>2, <2>3 DEF BatchSound
  <1>7. CASE BatchNext(c)
    <2>0. r.pc = "next bead" BY <1>7 DEF BatchNext, At
    <2> DEFINE b == r.arg.beads[k]
               w == [r EXCEPT !.pc = "wire", !.wire = Links(r.arg, r.ids)]
               f == [r EXCEPT !.ids = Append(@, 0), !.failures = @ \union {<<k>>}]
               m == Making(r, Part(r, k), "landed")
    <2>1. \/ k > Len(r.arg.beads) /\ Turn(c, w)
          \/ k <= Len(r.arg.beads) /\ Turn(c, f)
          \/ k <= Len(r.arg.beads) /\ Missing(r, b) = {} /\ Turn(c, m)
      <3>1. Turn(c, IF k > Len(r.arg.beads) THEN w ELSE IF Missing(r, b) # {} THEN f ELSE m)
        BY <1>7, Zenon DEF BatchNext, Part
      <3> HIDE DEF w, f, m
      <3> QED BY <1>4, <3>1
    <2>2. CASE k > Len(r.arg.beads) /\ Turn(c, w)
      <3>1. /\ w.pc = "wire" /\ w.arg = r.arg /\ w.ids = r.ids /\ w.failures = r.failures
            /\ w.wire = Links(r.arg, r.ids)
        BY <1>2 DEF BatchFields
      <3> HIDE DEF w
      <3>2. Posed(w) /\ Tallied(bead, w) BY <1>3, <3>1, CountStays DEF Rejected, Replied
      <3>3. AtBead(bead, w) BY <3>1 DEF AtBead
      <3>4. Len(r.ids) = Len(r.arg.beads) BY <1>4, <2>2
      <3>5. Wiring(edge', w) BY <3>1, <3>4 DEF Wiring, Replied
      <3> QED BY <1>1, <2>2, <3>2, <3>3, <3>5 DEF BatchSound
    <2>3. CASE k <= Len(r.arg.beads) /\ Turn(c, f)
      <3>1. f = [r EXCEPT !.pc = "next bead", !.ids = Append(@, 0), !.failures = @ \union {<<k>>}]
        BY <1>2, <2>0 DEF BatchFields
      <3> QED BY <1>6, <2>3, <3>1
    <2>4. CASE k <= Len(r.arg.beads) /\ Missing(r, b) = {} /\ Turn(c, m)
      <3>1. m.pc = "twin" /\ m.arg = r.arg /\ m.ids = r.ids /\ m.failures = r.failures /\ m.make = Part(r, k)
        BY <1>2 DEF BatchFields, Making
      <3> HIDE DEF m
      <3>2. Posed(m) /\ Tallied(bead, m) BY <1>3, <3>1, CountStays DEF Rejected, Replied
      <3>3. Part(m, k) = Part(r, k) /\ Missing(m, b) = Missing(r, b) BY <3>1 DEF Part, Missing
      <3>4. AtBead(bead, m) BY <2>4, <3>1, <3>3 DEF AtBead
      <3>5. Wiring(edge', m) BY <3>1 DEF Wiring, Replied
      <3> QED BY <1>1, <2>4, <3>2, <3>4, <3>5 DEF BatchSound
    <2> QED BY <2>1, <2>2, <2>3, <2>4
  <1>8. CASE BatchLanded(c)
    <2> DEFINE failures == IF r.verified THEN r.failures ELSE r.failures \union {<<k>>}
               q == [r EXCEPT !.pc = "next bead", !.ids = Append(@, r.id), !.failures = failures]
    <2>1. Turn(c, q) /\ r.pc = "landed" BY <1>8 DEF BatchLanded, At
    <2>2. r.failures \subseteq failures OBVIOUS
    <2> HIDE DEF failures
    <2>3. /\ q.pc = "next bead" /\ q.arg = r.arg /\ q.ids = Append(r.ids, r.id) /\ q.failures = failures
      BY <1>2 DEF BatchFields
    <2> HIDE DEF q
    <2>4. /\ k <= Len(r.arg.beads) /\ Missing(r, r.arg.beads[k]) = {}
          /\ r.id \in DOMAIN bead /\ bead[r.id].key = Part(r, k)
      BY <1>3, <2>1 DEF AtBead
    <2>5. r.id \in Nat \ {0} BY <2>4, ListedPlaces DEF RelayInv, BeadsSound
    <2>6. Posed(q) /\ Tallied(bead, q) BY <1>3, <2>2, <2>3, <2>4, <2>5, BeadCounted
    <2>7. AtBead(bead, q) /\ Wiring(edge', q) BY <2>3 DEF AtBead, Wiring, Replied
    <2> QED BY <1>1, <2>1, <2>6, <2>7 DEF BatchSound
  <1>9. CASE BatchFailed(c)
    <2>1. r.pc = "failed" BY <1>9 DEF BatchFailed, At
    <2>2. k <= Len(r.arg.beads) BY <1>3, <2>1 DEF AtBead
    <2> QED BY <1>6, <1>9, <2>2 DEF BatchFailed
  \* A link is made or left out.
  <1>10. ASSUME NEW l, NEW q, Turn(c, q), r.pc \in {"wire", "check"}, q.pc = "wire", q.arg = r.arg, q.ids = r.ids,
                r.failures \subseteq q.failures, q.wire = r.wire \ {l},
                <<l.from, l.to>> \in q.failures \/ <<r.ids[l.from], r.ids[l.to]>> \in edge'
         PROVE  BatchSound(bead, edge', call'[c])
    <2>1. Posed(q) /\ Tallied(bead, q) BY <1>3, <1>10, CountStays DEF Rejected, Replied
    <2>2. AtBead(bead, q) BY <1>10 DEF AtBead
    <2>3. Wiring(edge', q)
      <3>1. /\ Len(r.ids) = Len(r.arg.beads)
            /\ \A i \in Links(r.arg, r.ids) :
                 i \in r.wire \/ <<i.from, i.to>> \in r.failures \/ <<r.ids[i.from], r.ids[i.to]>> \in edge
        BY <1>3, <1>10 DEF Wiring
      <3>2. \A i \in Links(r.arg, r.ids) :
              i \in q.wire \/ <<i.from, i.to>> \in q.failures \/ <<r.ids[i.from], r.ids[i.to]>> \in edge'
        BY <1>5, <1>10, <3>1
      <3> QED BY <1>10, <3>1, <3>2 DEF Wiring, Replied
    <2> QED BY <1>1, <1>10, <2>1, <2>2, <2>3 DEF BatchSound
  <1>11. ASSUME NEW l, Turn(c, LinkFailed(r, l)), r.pc \in {"wire", "check"} PROVE BatchSound(bead, edge', call'[c])
    <2> DEFINE q == LinkFailed(r, l)
    <2>1. /\ q.pc = "wire" /\ q.arg = r.arg /\ q.ids = r.ids /\ q.wire = r.wire \ {l}
          /\ q.failures = r.failures \union {<<l.from, l.to>>}
      BY <1>2 DEF BatchFields, LinkFailed
    <2> HIDE DEF q
    <2> QED BY <1>10, <1>11, <2>1 DEF q
  <1>12. CASE Wire(c)
    <2>1. r.pc = "wire" BY <1>12 DEF Wire, At
    <2>2. PICK l \in r.wire : \/ Turn(c, LinkFailed(r, l))
                              \/ /\ Turn(c, [r EXCEPT !.pc = "check", !.link = l])
                                 /\ edge' = edge \union {<<r.ids[l.from], r.ids[l.to]>>}
      BY <1>12 DEF Wire
    <2>3. CASE /\ Turn(c, [r EXCEPT !.pc = "check", !.link = l])
               /\ edge' = edge \union {<<r.ids[l.from], r.ids[l.to]>>}
      <3> DEFINE q == [r EXCEPT !.pc = "check", !.link = l]
      <3>1. /\ q.pc = "check" /\ q.arg = r.arg /\ q.ids = r.ids /\ q.failures = r.failures
            /\ q.wire = r.wire /\ q.link = l
        BY <1>2 DEF BatchFields
      <3>2. Turn(c, q) BY <2>3
      <3> HIDE DEF q
      <3>3. Posed(q) /\ Tallied(bead, q) BY <1>3, <3>1, CountStays DEF Rejected, Replied
      <3>4. AtBead(bead, q) BY <3>1 DEF AtBead
      <3>5. Wiring(edge', q)
        <4>1. <<r.ids[l.from], r.ids[l.to]>> \in edge' BY <2>3
        <4> QED BY <1>3, <1>5, <2>1, <3>1, <4>1 DEF Wiring, Replied
      <3> QED BY <1>1, <3>2, <3>3, <3>4, <3>5 DEF BatchSound
    <2> QED BY <1>11, <2>1, <2>2, <2>3
  <1>13. CASE CheckLink(c)
    <2>1. r.pc = "check" BY <1>13 DEF CheckLink, At
    <2> DEFINE q == [r EXCEPT !.pc = "wire", !.wire = @ \ {r.link}]
    <2>2. q.pc = "wire" /\ q.arg = r.arg /\ q.ids = r.ids /\ q.failures = r.failures /\ q.wire = r.wire \ {r.link}
      BY <1>2 DEF BatchFields
    <2>3. Turn(c, q) \/ Turn(c, LinkFailed(r, r.link)) BY <1>13 DEF CheckLink
    <2> HIDE DEF q
    <2>4. <<r.ids[r.link.from], r.ids[r.link.to]>> \in edge' BY <1>3, <1>5, <2>1 DEF Wiring
    <2>5. CASE Turn(c, q) BY <1>10, <2>1, <2>2, <2>4, <2>5
    <2> QED BY <1>11, <2>1, <2>3, <2>5
  <1>14. CASE BatchDone(c)
    <2> DEFINE outcome == IF r.failures = {} THEN "complete" ELSE "partial"
               q == [r EXCEPT !.pc = "done", !.outcome = outcome]
    <2>1. Turn(c, q) /\ r.pc = "wire" /\ r.wire = {} BY <1>14 DEF BatchDone, At
    <2>2. outcome \in {"complete", "partial"} /\ (outcome = "complete" => r.failures = {}) OBVIOUS
    <2> HIDE DEF outcome
    <2>3. /\ q.pc = "done" /\ q.arg = r.arg /\ q.ids = r.ids /\ q.failures = r.failures /\ q.wire = r.wire
          /\ q.outcome = outcome
      BY <1>2 DEF BatchFields
    <2> HIDE DEF q
    <2>4. Posed(q) /\ Tallied(bead, q) BY <1>3, <2>2, <2>3, CountStays DEF Rejected
    <2>5. AtBead(bead, q) BY <2>3 DEF AtBead
    <2>6. Wiring(edge', q) BY <1>3, <1>5, <2>1, <2>2, <2>3 DEF Wiring
    <2> QED BY <1>1, <2>1, <2>4, <2>5, <2>6 DEF BatchSound
  <1> QED BY <1>7, <1>8, <1>9, <1>12, <1>13, <1>14 DEF BatchStep

\* A bead is made, or found: what the call r goes on as.
MakesTo(r, q) ==
  /\ q.arg = r.arg /\ q.ids = r.ids /\ q.failures = r.failures /\ q.make = r.make /\ q.before = r.before
  /\ \/ /\ r.pc = "twin" /\ q.pc = "create" /\ bead' = bead
        /\ Twins(r.make) = {} \/ faults' = faults + 1
     \/ /\ r.pc \in {"twin", "recover"} /\ q.pc = "read" /\ bead' = bead
        /\ Twins(r.make) # {} /\ q.id = Min(Twins(r.make))
     \/ r.pc = "create" /\ q.pc \in {"recover", "failed"} /\ faults' = faults + 1
     \/ r.pc = "create" /\ q.pc = "read" /\ q.id = Len(bead) + 1
     \/ r.pc = "recover" /\ q.pc = "failed"
     \/ r.pc = "read" /\ q.pc = "landed" /\ q.id = r.id

LEMMA BatchMakes ==
  ASSUME RelayInv, NEW c \in Batches, CreateStep(c)
  PROVE  \E q : Turn(c, q) /\ MakesTo(call[c], q) /\ (call[c].pc = "create" /\ q.pc = "read" => Appended(c))
  <1> DEFINE r == call[c]
  <1>1. DOMAIN r = BatchFields /\ r.then = "landed" BY BatchesAreCalls DEF BatchCall, Batches
  <1>2. ASSUME NEW pc, Go(c, pc)
        PROVE  \E q : /\ Turn(c, q) /\ q.arg = r.arg /\ q.ids = r.ids /\ q.failures = r.failures
                      /\ q.make = r.make /\ q.before = r.before /\ q.pc = pc
    <2> DEFINE q == [r EXCEPT !.pc = pc]
    <2>1. /\ q.arg = r.arg /\ q.ids = r.ids /\ q.failures = r.failures
          /\ q.make = r.make /\ q.before = r.before /\ q.pc = pc
      BY <1>1 DEF BatchFields
    <2>2. Turn(c, q) BY <1>2 DEF Go, Turn
    <2> QED BY <2>1, <2>2
  <1>3. ASSUME NEW id, Found(c, id)
        PROVE  \E q : /\ Turn(c, q) /\ q.arg = r.arg /\ q.ids = r.ids /\ q.failures = r.failures
                      /\ q.make = r.make /\ q.before = r.before /\ q.pc = "read" /\ q.id = id
    <2> DEFINE q == [r EXCEPT !.pc = "read", !.id = id]
    <2>1. /\ q.arg = r.arg /\ q.ids = r.ids /\ q.failures = r.failures
          /\ q.make = r.make /\ q.before = r.before /\ q.pc = "read" /\ q.id = id
      BY <1>1 DEF BatchFields
    <2>2. Turn(c, q) BY <1>3 DEF Found, Turn
    <2> QED BY <2>1, <2>2
  <1> DEFINE twins == Twins(r.make)
  <1>4. CASE FindTwin(c)
    <2>1. /\ r.pc = "twin" /\ bead' = bead
          /\ \/ twins = {} /\ Go(c, "create")
             \/ twins # {} /\ Found(c, Min(twins))
             \/ faults' = faults + 1 /\ Go(c, "create")
      BY <1>4 DEF FindTwin, At, Fault, Reads
    <2> HIDE DEF Min, twins
    <2>2. CASE twins # {} /\ Found(c, Min(twins)) BY <1>3, <2>1, <2>2 DEF MakesTo, twins
    <2>3. CASE (twins = {} \/ faults' = faults + 1) /\ Go(c, "create") BY <1>2, <2>1, <2>3 DEF MakesTo, twins
    <2> QED BY <2>1, <2>2, <2>3
  <1>5. CASE Create(c) BY <1>3, <1>5 DEF Create, At, MakesTo
  <1>6. CASE CreateFails(c) BY <1>2, <1>6 DEF CreateFails, At, Fault, MakesTo
  <1>7. CASE Recover(c)
    <2>1. /\ r.pc = "recover" /\ bead' = bead
          /\ Go(c, "failed") \/ (twins # {} /\ Found(c, Min(twins)))
      BY <1>7 DEF Recover, At, Reads
    <2> HIDE DEF Min, twins
    <2>2. CASE twins # {} /\ Found(c, Min(twins)) BY <1>3, <2>1, <2>2 DEF MakesTo, twins
    <2>3. CASE Go(c, "failed") BY <1>2, <2>1, <2>3 DEF MakesTo
    <2> QED BY <2>1, <2>2, <2>3
  <1>8. CASE ReadBack(c)
    <2>1. PICK verified : Turn(c, [r EXCEPT !.pc = r.then, !.verified = verified])
      BY <1>8 DEF ReadBack, Turn
    <2> DEFINE q == [r EXCEPT !.pc = r.then, !.verified = verified]
    <2>2. /\ q.arg = r.arg /\ q.ids = r.ids /\ q.failures = r.failures
          /\ q.make = r.make /\ q.before = r.before /\ q.pc = "landed" /\ q.id = r.id
      BY <1>1 DEF BatchFields
    <2>3. Turn(c, q) BY <2>1
    <2>4. r.pc = "read" /\ bead' = bead BY <1>8 DEF ReadBack, At, Reads
    <2> HIDE DEF q
    <2> QED BY <2>2, <2>3, <2>4 DEF MakesTo
  <1> QED BY <1>4, <1>5, <1>6, <1>7, <1>8 DEF CreateStep

LEMMA BatchMakesSound ==
  ASSUME RelayInv, Growth, NEW c \in Batches, BatchSound(bead, edge, call[c]), CreateStep(c)
  PROVE  BatchSound(bead', edge', call'[c])
  <1> DEFINE r == call[c] k == Len(r.ids) + 1
  <1>0. c \in Caller BY DEF Batches
  <1>1. BatchSound(bead', edge', r) BY SoundStays DEF Growth
  <1>2. PICK q : Turn(c, q) /\ MakesTo(r, q) /\ (r.pc = "create" /\ q.pc = "read" => Appended(c))
    BY BatchMakes
  <1>3. call'[c] = q BY <1>0, <1>2 DEF Turn, RelayInv
  <1>4. ~Rejected(r) /\ ~Rejected(q) BY <1>2 DEF MakesTo, Rejected, Replied
  <1>5. Posed(q) /\ Tallied(bead', q) BY <1>1, <1>2, <1>4, CountStays DEF MakesTo, BatchSound
  <1>6. Wiring(edge', q) BY <1>2 DEF MakesTo, Wiring, Replied
  <1>7. q.pc \in {"read", "landed"} => q.id \in DOMAIN bead' /\ bead'[q.id].key = r.make
    <2>1. CASE bead' = bead /\ Twins(r.make) # {} /\ q.id = Min(Twins(r.make))
      BY <2>1, TwinFound DEF RelayInv, BeadsSound, Id
    <2>2. CASE r.pc = "create" /\ q.id = Len(bead) + 1 /\ Appended(c)
      <3> DEFINE b == Bead(r.make, [who |-> c, saw |-> r.saw])
      <3>1. Filed(bead, b) /\ b.key = r.make BY <1>0, <2>2, MakesWell
      <3>2. bead' = Append(bead, b) BY <2>2 DEF Appended
      <3> HIDE DEF b
      <3> QED BY <2>2, <3>1, <3>2, AppendGrows DEF RelayInv
    <2>3. CASE r.pc = "read" /\ q.id = r.id BY <1>1, <2>3 DEF BatchSound, AtBead
    <2> HIDE DEF Min
    <2> QED BY <1>2, <2>1, <2>2, <2>3 DEF MakesTo
  <1>8. AtBead(bead', q)
    <2>1. Part(q, k) = Part(r, k) /\ Missing(q, r.arg.beads[k]) = Missing(r, r.arg.beads[k])
      BY <1>2 DEF MakesTo, Part, Missing
    <2>2. k <= Len(r.arg.beads) /\ r.make = Part(r, k) /\ Missing(r, r.arg.beads[k]) = {}
      BY <1>1, <1>2 DEF MakesTo, BatchSound, AtBead
    <2> QED BY <1>2, <1>7, <2>1, <2>2 DEF MakesTo, AtBead
  <1> QED BY <1>3, <1>5, <1>6, <1>8 DEF BatchSound

LEMMA AskBatchSound ==
  ASSUME RelayInv, NEW c \in Caller, AskBatch(c)
  PROVE  BatchSound(bead, edge, call'[c]) /\ (faults = 0 => Replaying(bead, call'[c]))
  <1>1. PICK arg \in Request :
          /\ arg.tool = "batch"
          /\ Turn(c, IF Valid(arg) THEN BatchBegun(arg)
                     ELSE [BatchBegun(arg) EXCEPT !.pc = "done", !.outcome = "rejected"])
    BY DEF AskBatch
  <1> DEFINE q == IF Valid(arg) THEN BatchBegun(arg)
                  ELSE [BatchBegun(arg) EXCEPT !.pc = "done", !.outcome = "rejected"]
  <1>2. /\ q.arg = arg /\ q.ids = << >> /\ q.before = {i \in Id : ~bead[i].old}
        /\ Valid(arg) => q.pc = "next bead"
        /\ ~Valid(arg) => q.pc = "done" /\ q.outcome = "rejected"
    BY DEF BatchBegun
  <1>3. call'[c] = q BY <1>1 DEF Turn, RelayInv
  <1> HIDE DEF q
  <1>4. DOMAIN q.ids = {} /\ q.ids \in Seq(Nat) /\ Len(q.ids) = 0
    <2>1. DOMAIN << >> = {} /\ << >> \in Seq(Nat) /\ Len(<< >>) = 0 OBVIOUS
    <2> QED BY <1>2, <2>1
  <1>5. Len(arg.beads) \in Nat
    <2>1. arg.beads \in Seq({arg.beads[m] : m \in DOMAIN arg.beads}) BY <1>1, BatchAssumption
    <2> QED BY <2>1
  <1>6. Posed(q)
    <2>1. Rejected(q) \/ Valid(q.arg) BY <1>2 DEF Rejected, Replied
    <2>2. Len(q.ids) <= Len(q.arg.beads)
      <3>1. q.arg.beads = arg.beads BY <1>2
      <3>2. 0 <= Len(arg.beads) BY <1>5
      <3> QED BY <1>4, <3>1, <3>2
    <2> QED BY <1>1, <1>2, <1>4, <2>1, <2>2 DEF Posed
  <1>7. Tallied(bead, q) BY <1>4 DEF Tallied
  <1>8. AtBead(bead, q) /\ Wiring(edge, q) BY <1>2 DEF AtBead, Wiring, Rejected, Replied
  <1>9. Replaying(bead, q) BY <1>2, <1>4 DEF Replaying, Id
  <1> QED BY <1>3, <1>6, <1>7, <1>8, <1>9 DEF BatchSound

\* Which calls are batches after a step: only the one that moved can differ.
LEMMA BatchesAfter ==
  ASSUME RelayInv, [Next]_vars, NEW c \in Caller, call'[c].tool = "batch"
  PROVE  \/ c \in Batches /\ call'[c] = call[c]
         \/ AskBatch(c)
         \/ c \in Batches /\ (CreateStep(c) \/ BatchStep(c))
  <1>1. \A d \in Caller : \A q : Turn(d, q) => call'[d] = q /\ \A e \in Caller : e # d => call'[e] = call[e]
    BY DEF Turn, RelayInv
  <1>2. CASE call' = call BY <1>2 DEF Batches
  <1>3. ASSUME NEW d \in Caller, AskRelay(d) PROVE c \in Batches /\ call'[c] = call[c]
    <2>1. PICK arg \in Request : arg.tool # "batch" /\ Turn(d, Begun(arg, IF arg.allow THEN Id ELSE {}))
      BY <1>3 DEF AskRelay
    <2>2. Begun(arg, IF arg.allow THEN Id ELSE {}).tool = arg.tool BY DEF Begun
    <2>3. c # d BY <1>1, <2>1, <2>2
    <2> QED BY <1>1, <2>1, <2>3 DEF Batches
  <1>4. ASSUME NEW d \in Caller, AskBatch(d) PROVE AskBatch(c) \/ (c \in Batches /\ call'[c] = call[c])
    <2>1. \E q : Turn(d, q) BY <1>4 DEF AskBatch
    <2> QED BY <1>1, <1>4, <2>1 DEF Batches
  <1>5. ASSUME NEW d \in Caller, RelayStep(d) \/ CreateStep(d), d \notin Batches
        PROVE  c \in Batches /\ call'[c] = call[c]
    <2>1. call'[d].tool = call[d].tool /\ \A e \in Caller : e # d => call'[e] = call[e]
      BY <1>5, RelayStepsStay, CreateStepsStay
    <2> QED BY <1>5, <2>1 DEF Batches
  <1>6. ASSUME NEW d \in Caller, CreateStep(d) \/ BatchStep(d), d \in Batches
        PROVE  c \in Batches /\ (call'[c] = call[c] \/ CreateStep(c) \/ BatchStep(c))
    <2>1. \E q : Turn(d, q)
      <3>1. CASE CreateStep(d) BY <1>6, <3>1, BatchMakes
      <3>2. CASE BatchStep(d)
        BY <3>2 DEF BatchStep, BatchNext, BatchLanded, BatchFailed, Wire, CheckLink, BatchDone
      <3> QED BY <1>6, <3>1, <3>2
    <2> QED BY <1>1, <1>6, <2>1 DEF Batches
  <1>7. ASSUME NEW d \in Caller, RelayStep(d) PROVE d \notin Batches
    <2>1. call[d].pc \notin BatchPlaces \/ call[d].tool # "batch"
      BY <1>7 DEF RelayStep, Lookup, Looked, DupCheck, EditDup, CommentDup, CreateThrew, Made, PromoteLabel,
                  PromoteNote, Return, Reread, Relist, FlowDispatches, Attach, EditStep, At, BatchPlaces
    <2> QED BY <2>1, BatchesAreCalls DEF BatchCall
  <1>8. ASSUME NEW d \in Caller, BatchStep(d) PROVE d \in Batches
    <2>1. call[d].pc \in {"next bead", "landed", "wire", "check"} \/ call[d].tool = "batch"
      BY <1>8 DEF BatchStep, BatchNext, BatchLanded, BatchFailed, Wire, CheckLink, BatchDone, At
    <2>2. call[d].pc \in {"next bead", "landed", "wire", "check"} => ~RelayCall(bead, project, d, call[d])
      BY DEF RelayCall, Placed, RelayPlaces, MakingPlaces, HeldPlaces, EditPlaces
    <2>3. call[d].pc \in {"next bead", "landed", "wire", "check"} => call[d] # Idle
      <3>1. Idle.pc = "idle" BY DEF Idle
      <3> QED BY <3>1
    <2> QED BY <2>1, <2>2, <2>3 DEF RelayInv, Called, BatchCall, Batches
  <1>9. Land \/ CloseBead \/ HourPasses \/ UNCHANGED vars => call' = call BY DEF Land, CloseBead, HourPasses, vars
  <1> QED BY <1>2, <1>3, <1>4, <1>5, <1>6, <1>7, <1>8, <1>9 DEF Next

LEMMA BatchInductive ==
  ASSUME RelayInv, BatchInv, [Next]_vars
  PROVE  BatchInv'
  <1>1. Growth BY StoresGrow
  <1> SUFFICES ASSUME NEW c \in Caller, call'[c].tool = "batch"
               PROVE  BatchSound(bead', edge', call'[c])
    BY DEF BatchInv, Batches
  <1>2. c \in Batches => BatchSound(bead, edge, call[c]) BY DEF BatchInv
  <1>3. CASE c \in Batches /\ call'[c] = call[c] BY <1>1, <1>2, <1>3, SoundStays DEF Growth
  <1>4. CASE AskBatch(c)
    <2>1. BatchSound(bead, edge, call'[c]) BY <1>4, AskBatchSound
    <2> QED BY <1>4, <2>1 DEF AskBatch
  <1>5. CASE c \in Batches /\ CreateStep(c) BY <1>1, <1>2, <1>5, BatchMakesSound
  <1>6. CASE c \in Batches /\ BatchStep(c)
    <2>1. BatchSound(bead, edge', call'[c]) BY <1>2, <1>6, BatchStepSound
    <2>2. bead' = bead
      BY <1>6 DEF BatchStep, BatchNext, BatchLanded, BatchFailed, Wire, CheckLink, BatchDone, Reads
    <2> QED BY <2>1, <2>2
  <1> QED BY <1>3, <1>4, <1>5, <1>6, BatchesAfter

---------------------------------------------------------------------------
(* As long as nothing fails, a batch finds what was there before it. *)

\* A step that is not a failure leaves the count of failures alone.
LEMMA FaultsCount ==
  ASSUME faults \in Nat, [Next]_vars
  PROVE  faults' = faults \/ faults' = faults + 1
  <1>1. Land \/ CloseBead \/ HourPasses \/ UNCHANGED vars => faults' = faults \/ faults' = faults + 1
    BY DEF Land, CloseBead, HourPasses, vars, Fault
  <1>2. ASSUME NEW c \in Caller, AskRelay(c) \/ AskBatch(c) \/ CreateStep(c)
        PROVE  faults' = faults \/ faults' = faults + 1
    BY <1>2 DEF AskRelay, AskBatch, CreateStep, FindTwin, Create, CreateFails, Recover, ReadBack, Sound, Fault
  <1>3. ASSUME NEW c \in Caller, BatchStep(c) PROVE faults' = faults \/ faults' = faults + 1
    BY <1>3 DEF BatchStep, BatchNext, BatchLanded, BatchFailed, Wire, CheckLink, BatchDone, Sound, Fault
  <1>4. ASSUME NEW c \in Caller, RelayStep(c) PROVE faults' = faults \/ faults' = faults + 1
    BY <1>4 DEF RelayStep, Lookup, Looked, DupCheck, EditDup, CommentDup, CreateThrew, Made, PromoteLabel,
                PromoteNote, Return, Reread, Relist, FlowDispatches, Attach, EditStep, Sound, Fault
  <1> QED BY <1>1, <1>2, <1>3, <1>4 DEF Next

\* No killed create is pending unless a step failed.
LEMMA LateAfterFault ==
  ASSUME [Next]_vars, late = {}
  PROVE  late' = {} \/ faults' = faults + 1
  <1>1. Land \/ CloseBead \/ HourPasses \/ UNCHANGED vars => late' = {}
    BY DEF Land, CloseBead, HourPasses, vars
  <1>2. ASSUME NEW c \in Caller, AskRelay(c) \/ AskBatch(c) \/ CreateStep(c)
        PROVE  late' = {} \/ faults' = faults + 1
    BY <1>2 DEF AskRelay, AskBatch, CreateStep, FindTwin, Create, CreateFails, Recover, ReadBack, Reads, Fault
  <1>3. ASSUME NEW c \in Caller, BatchStep(c) PROVE late' = {}
    BY <1>3 DEF BatchStep, BatchNext, BatchLanded, BatchFailed, Wire, CheckLink, BatchDone, Reads
  <1>4. ASSUME NEW c \in Caller, RelayStep(c) PROVE late' = {}
    BY <1>4 DEF RelayStep, Lookup, Looked, DupCheck, EditDup, CommentDup, CreateThrew, Made, PromoteLabel,
                PromoteNote, Return, Reread, Relist, FlowDispatches, Attach, EditStep, Reads
  <1> QED BY <1>1, <1>2, <1>3, <1>4 DEF Next

\* The beads of a batch that were the oldest are so after its own steps.
LEMMA BatchStepReplays ==
  ASSUME RelayInv, NEW c \in Batches, BatchSound(bead, edge, call[c]), BatchStep(c), Replaying(bead, call[c])
  PROVE  Replaying(bead, call'[c])
  <1> DEFINE r == call[c] k == Len(r.ids) + 1
  <1>0. c \in Caller BY DEF Batches
  <1>1. \A q : Turn(c, q) => call'[c] = q BY <1>0 DEF Turn, RelayInv
  <1>2. DOMAIN r = BatchFields BY <1>0, BatchesAreCalls DEF BatchCall
  <1>3. r.ids \in Seq(Nat) /\ r.before \subseteq DOMAIN bead
        /\ (\A j \in r.before, i \in DOMAIN bead : i <= j /\ ~bead[i].old => i \in r.before)
        /\ \A n \in DOMAIN r.ids : r.ids[n] # 0 => Oldest(bead, r.before, r.ids[n])
    BY DEF BatchSound, Posed, Replaying
  <1>4. ASSUME NEW q, Turn(c, q), q.before = r.before, q.ids = r.ids,
               q.pc \in {"next bead", "twin", "wire", "check", "done"}
        PROVE  Replaying(bead, call'[c])
    BY <1>1, <1>3, <1>4 DEF Replaying
  <1>5. ASSUME NEW q, Turn(c, q), q.before = r.before, q.pc = "next bead",
               NEW x \in Nat, q.ids = Append(r.ids, x), x # 0 => Oldest(bead, r.before, x)
        PROVE  Replaying(bead, call'[c])
    <2>1. /\ DOMAIN r.ids = 1 .. Len(r.ids) /\ DOMAIN q.ids = 1 .. Len(r.ids) + 1 /\ Len(r.ids) \in Nat
          /\ q.ids[Len(r.ids) + 1] = x /\ \A n \in DOMAIN r.ids : q.ids[n] = r.ids[n]
      <3>1. r.ids \in Seq(Nat) /\ x \in Nat /\ q.ids = Append(r.ids, x) BY <1>3, <1>5
      <3> HIDE DEF r
      <3> QED BY <3>1, AppendedIs
    <2>2. \A n \in DOMAIN q.ids : q.ids[n] # 0 => Oldest(bead, q.before, q.ids[n])
      <3> SUFFICES ASSUME NEW n \in DOMAIN q.ids, q.ids[n] # 0 PROVE Oldest(bead, q.before, q.ids[n])
        OBVIOUS
      <3>1. CASE n = Len(r.ids) + 1 BY <1>5, <2>1, <3>1
      <3>2. CASE n # Len(r.ids) + 1
        <4>1. n \in DOMAIN r.ids BY <2>1, <3>2
        <4> QED BY <1>3, <1>5, <2>1, <4>1
      <3> QED BY <3>1, <3>2
    <2> QED BY <1>1, <1>3, <1>5, <2>2 DEF Replaying
  <1>6. CASE BatchNext(c)
    <2> DEFINE b == r.arg.beads[k]
               w == [r EXCEPT !.pc = "wire", !.wire = Links(r.arg, r.ids)]
               f == [r EXCEPT !.ids = Append(@, 0), !.failures = @ \union {<<k>>}]
               m == Making(r, Part(r, k), "landed")
    <2>1. Turn(c, w) \/ Turn(c, f) \/ Turn(c, m)
      <3>1. Turn(c, IF k > Len(r.arg.beads) THEN w ELSE IF Missing(r, b) # {} THEN f ELSE m)
        BY <1>6, Zenon DEF BatchNext, Part
      <3> HIDE DEF w, f, m
      <3> QED BY <3>1
    <2>2. /\ w.before = r.before /\ w.ids = r.ids /\ w.pc = "wire"
          /\ m.before = r.before /\ m.ids = r.ids /\ m.pc = "twin"
          /\ f.before = r.before /\ f.ids = Append(r.ids, 0) /\ f.pc = "next bead"
      BY <1>2, <1>6 DEF BatchFields, Making, BatchNext, At
    <2> HIDE DEF w, f, m
    <2> QED BY <1>4, <1>5, <2>1, <2>2
  <1>7. CASE BatchLanded(c)
    <2> DEFINE failures == IF r.verified THEN r.failures ELSE r.failures \union {<<k>>}
               q == [r EXCEPT !.pc = "next bead", !.ids = Append(@, r.id), !.failures = failures]
    <2>1. Turn(c, q) /\ r.pc = "landed" BY <1>7 DEF BatchLanded, At
    <2> HIDE DEF failures
    <2>2. q.pc = "next bead" /\ q.before = r.before /\ q.ids = Append(r.ids, r.id) BY <1>2 DEF BatchFields
    <2> HIDE DEF q
    <2>3. r.id \in DOMAIN bead BY <2>1 DEF BatchSound, AtBead
    <2>4. r.id \in Nat BY <2>3, ListedPlaces DEF RelayInv, BeadsSound
    <2>5. Oldest(bead, r.before, r.id) BY <2>1 DEF Replaying
    <2> QED BY <1>5, <2>1, <2>2, <2>4, <2>5
  <1>8. CASE BatchFailed(c) BY <1>8 DEF BatchFailed, At, Replaying
  <1>9. CASE Wire(c) \/ CheckLink(c) \/ BatchDone(c)
    <2>1. ASSUME NEW l, Turn(c, LinkFailed(r, l)) PROVE Replaying(bead, call'[c])
      <3> DEFINE q == LinkFailed(r, l)
      <3>1. q.pc = "wire" /\ q.before = r.before /\ q.ids = r.ids BY <1>2 DEF BatchFields, LinkFailed
      <3> HIDE DEF q
      <3> QED BY <1>4, <2>1, <3>1 DEF q
    <2>2. ASSUME NEW l, Turn(c, [r EXCEPT !.pc = "check", !.link = l]) PROVE Replaying(bead, call'[c])
      <3> DEFINE q == [r EXCEPT !.pc = "check", !.link = l]
      <3>1. q.pc = "check" /\ q.before = r.before /\ q.ids = r.ids BY <1>2 DEF BatchFields
      <3> QED BY <1>4, <2>2, <3>1
    <2>3. CASE Turn(c, [r EXCEPT !.pc = "wire", !.wire = @ \ {r.link}])
      <3> DEFINE q == [r EXCEPT !.pc = "wire", !.wire = @ \ {r.link}]
      <3>1. q.pc = "wire" /\ q.before = r.before /\ q.ids = r.ids BY <1>2 DEF BatchFields
      <3> QED BY <1>4, <2>3, <3>1
    <2>4. CASE BatchDone(c)
      <3> DEFINE outcome == IF r.failures = {} THEN "complete" ELSE "partial"
                 q == [r EXCEPT !.pc = "done", !.outcome = outcome]
      <3>1. Turn(c, q) BY <2>4 DEF BatchDone
      <3> HIDE DEF outcome
      <3>2. q.pc = "done" /\ q.before = r.before /\ q.ids = r.ids BY <1>2 DEF BatchFields
      <3> QED BY <1>4, <3>1, <3>2
    <2>5. Wire(c) => \E l : Turn(c, LinkFailed(r, l)) \/ Turn(c, [r EXCEPT !.pc = "check", !.link = l])
      BY DEF Wire
    <2>6. CheckLink(c) => Turn(c, LinkFailed(r, r.link)) \/ Turn(c, [r EXCEPT !.pc = "wire", !.wire = @ \ {r.link}])
      BY DEF CheckLink
    <2> QED BY <1>9, <2>1, <2>2, <2>3, <2>4, <2>5, <2>6
  <1> QED BY <1>6, <1>7, <1>8, <1>9 DEF BatchStep

LEMMA BatchMakesReplays ==
  ASSUME RelayInv, RelayInv', Growth, NEW c \in Batches, BatchSound(bead, edge, call[c]), CreateStep(c),
         Replaying(bead, call[c]), \A i \in Id : ~bead[i].closed, faults \in Nat, faults' = 0, faults = 0
  PROVE  Replaying(bead', call'[c])
  <1> DEFINE r == call[c]
  <1>0. c \in Caller BY DEF Batches
  <1>1. PICK q : Turn(c, q) /\ MakesTo(r, q) /\ (r.pc = "create" /\ q.pc = "read" => Appended(c))
    BY BatchMakes
  <1>2. call'[c] = q BY <1>0, <1>1 DEF Turn, RelayInv
  <1>3. Listed(bead) /\ Listed(bead') /\ Grown(bead, bead') BY DEF RelayInv, BeadsSound, Growth
  <1>4. Replaying(bead', r) BY <1>3, ReplayStays
  <1>5. /\ q.before = r.before /\ q.ids = r.ids /\ q.make = r.make /\ r.pc # "recover"
        /\ faults' # faults + 1
    BY <1>1 DEF MakesTo, Replaying
  <1>6. /\ r.before \subseteq DOMAIN bead'
        /\ \A k \in r.before, i \in DOMAIN bead' : i <= k /\ ~bead'[i].old => i \in r.before
        /\ \A n \in DOMAIN q.ids : q.ids[n] # 0 => Oldest(bead', q.before, q.ids[n])
    BY <1>4, <1>5 DEF Replaying
  <1>7. Twins(r.make) = {i \in DOMAIN bead : bead[i].key = r.make /\ ~bead[i].old} BY DEF Twins, Id
  <1>8. CASE r.pc = "twin" /\ q.pc = "create" /\ Twins(r.make) = {} /\ bead' = bead
    <2>1. \A j \in q.before : bead'[j].key = q.make => bead'[j].old
      BY <1>5, <1>7, <1>8 DEF Replaying
    <2> QED BY <1>2, <1>5, <1>6, <1>8, <2>1 DEF Replaying
  <1>9. CASE r.pc = "twin" /\ q.pc = "read" /\ bead' = bead /\ Twins(r.make) # {} /\ q.id = Min(Twins(r.make))
    <2>1. Twins(r.make) \in SUBSET Nat BY <1>3, <1>7, ListedPlaces
    <2>2. \A j \in Twins(r.make) : q.id <= j BY <1>9, <2>1, MinIsLeast
    <2>3. q.id \in Twins(r.make) BY <1>9, <2>1, MinIsIn
    <2> HIDE DEF Min
    <2>5. ASSUME NEW j \in q.before, bead[j].key = r.make, ~bead[j].old PROVE q.id \in q.before
      <3>1. j \in Twins(r.make) BY <1>5, <1>6, <1>7, <1>9, <2>5
      <3> QED BY <1>5, <1>6, <1>7, <1>9, <2>2, <2>3, <2>5, <3>1
    <2>4. Oldest(bead', q.before, q.id) BY <1>7, <1>9, <2>2, <2>3, <2>5 DEF Oldest
    <2> QED BY <1>2, <1>5, <1>6, <1>9, <2>4 DEF Replaying
  <1>10. CASE r.pc = "create" /\ q.pc = "read" /\ q.id = Len(bead) + 1
    <2> DEFINE b == Bead(r.make, [who |-> c, saw |-> r.saw])
    <2>1. Filed(bead, b) /\ b.key = r.make BY <1>0, <1>10, MakesWell
    <2>2. bead' = Append(bead, b) BY <1>1, <1>10 DEF Appended
    <2> HIDE DEF b
    <2>3. bead'[q.id].key = r.make BY <1>10, <2>1, <2>2, AppendGrows DEF RelayInv
    <2>4. \A j \in r.before : bead'[j].key = r.make => bead'[j].old BY <1>4, <1>10 DEF Replaying
    <2>5. Oldest(bead', q.before, q.id) BY <1>5, <2>3, <2>4 DEF Oldest
    <2> QED BY <1>2, <1>5, <1>6, <1>10, <2>5 DEF Replaying
  <1>11. CASE r.pc = "read" /\ q.pc = "landed" /\ q.id = r.id
    <2>1. Oldest(bead', q.before, q.id) BY <1>4, <1>5, <1>11 DEF Replaying
    <2> QED BY <1>2, <1>5, <1>6, <1>11, <2>1 DEF Replaying
  <1> QED BY <1>1, <1>5, <1>8, <1>9, <1>10, <1>11 DEF MakesTo

LEMMA ReplayInductive ==
  ASSUME RelayInv, BatchInv, ReplayInv, [Next]_vars
  PROVE  ReplayInv'
  <1>1. faults \in Nat BY DEF ReplayInv
  <1>2. faults' \in Nat /\ (faults' = 0 => faults = 0 /\ faults' # faults + 1) BY <1>1, FaultsCount
  <1> SUFFICES ASSUME faults' = 0
               PROVE  /\ late' = {} /\ \A i \in Id' : ~bead'[i].closed
                      /\ \A c \in Caller : call'[c].tool = "batch" => Replaying(bead', call'[c])
    BY <1>2 DEF ReplayInv, Batches
  <1>3. /\ faults = 0 /\ faults' # faults + 1 /\ late = {} /\ \A i \in Id : ~bead[i].closed
        /\ \A c \in Batches : Replaying(bead, call[c])
    BY <1>2 DEF ReplayInv
  <1>4. Growth BY StoresGrow
  <1>5. RelayInv' BY RelayInductive
  <1>6. late' = {} BY <1>3, LateAfterFault
  <1>7. \A i \in Id' : ~bead'[i].closed
    <2>1. \A i \in Id : bead'[i].closed = bead[i].closed BY <1>3, <1>4 DEF Growth
    <2>2. \A i \in DOMAIN bead' \ Id : ~bead'[i].closed BY <1>3, <1>4 DEF Growth
    <2> QED BY <1>3, <2>1, <2>2 DEF Id
  <1>8. ASSUME NEW c \in Caller, call'[c].tool = "batch" PROVE Replaying(bead', call'[c])
    <2>1. c \in Batches => BatchSound(bead, edge, call[c]) /\ Replaying(bead, call[c]) BY <1>3 DEF BatchInv
    <2>2. Listed(bead) /\ Listed(bead') /\ Grown(bead, bead') BY <1>4 DEF RelayInv, BeadsSound, Growth
    <2>3. CASE c \in Batches /\ call'[c] = call[c] BY <2>1, <2>2, <2>3, ReplayStays
    <2>4. CASE AskBatch(c)
      <3>1. bead' = bead BY <2>4 DEF AskBatch
      <3> QED BY <1>3, <2>4, <3>1, AskBatchSound
    <2>5. CASE c \in Batches /\ CreateStep(c)
      BY <1>1, <1>3, <1>4, <1>5, <2>1, <2>5, BatchMakesReplays
    <2>6. CASE c \in Batches /\ BatchStep(c)
      <3>1. bead' = bead
        BY <2>6 DEF BatchStep, BatchNext, BatchLanded, BatchFailed, Wire, CheckLink, BatchDone, Reads
      <3> QED BY <2>1, <2>6, <3>1, BatchStepReplays
    <2> QED BY <1>8, <2>3, <2>4, <2>5, <2>6, BatchesAfter
  <1> QED BY <1>6, <1>7, <1>8

---------------------------------------------------------------------------
(* What a batch answers, and what it makes when it is asked for again. *)

LEMMA LinksAskedFor ==
  ASSUME NEW arg, NEW ids, NEW k \in arg.links
  PROVE  [turn |-> Len(arg.beads) + 1, from |-> k[1], to |-> k[2]] \in Links(arg, ids)
  <1> DEFINE e(x) == [turn |-> Len(arg.beads) + 1, from |-> x[1], to |-> x[2]]
             S == {e(x) : x \in arg.links}
  <1>1. \E T : Links(arg, ids) = T \union S BY DEF Links
  <1>2. e(k) \in S OBVIOUS
  <1> HIDE DEF S
  <1> QED BY <1>1, <1>2

LEMMA BatchGives ==
  ASSUME RelayInv, BatchInv
  PROVE  BatchReportIsTrue
  <1> SUFFICES ASSUME NEW c \in Caller, call[c].tool = "batch", call[c].pc = "done", call[c].outcome # "rejected"
               PROVE  LET r == call[c]
                      IN /\ \A n \in DOMAIN r.arg.beads :
                              IF r.ids[n] = 0 THEN <<n>> \in r.failures
                              ELSE LET b == r.arg.beads[n]
                                   IN /\ bead[r.ids[n]].key.title = b.title
                                      /\ bead[r.ids[n]].parent = IF b.parent = 0 THEN 0 ELSE r.ids[b.parent]
                                      /\ \A m \in Refs(b) : r.ids[m] # 0
                         /\ r.outcome = "complete" =>
                              \A l \in r.arg.links
                                         \union UNION {{<<n, m>> : m \in r.arg.beads[n].deps} : n \in DOMAIN r.arg.beads} :
                                <<r.ids[l[1]], r.ids[l[2]]>> \in edge
    BY DEF BatchReportIsTrue
  <1> DEFINE r == call[c]
  <1>1. BatchSound(bead, edge, r) BY DEF BatchInv, Batches
  <1>2. Posed(r) /\ Tallied(bead, r) /\ Replied(r) /\ ~Rejected(r) BY <1>1 DEF BatchSound, Replied, Rejected
  <1>3. /\ Len(r.ids) = Len(r.arg.beads) /\ r.wire = {} /\ (r.outcome = "complete" => r.failures = {})
        /\ \A l \in Links(r.arg, r.ids) :
             <<l.from, l.to>> \in r.failures \/ <<r.ids[l.from], r.ids[l.to]>> \in edge
    BY <1>1, <1>2 DEF BatchSound, Wiring
  <1>4. DOMAIN r.ids = 1 .. Len(r.ids) /\ DOMAIN r.arg.beads = 1 .. Len(r.arg.beads)
    <2>1. r.arg.beads \in Seq({r.arg.beads[m] : m \in DOMAIN r.arg.beads}) BY <1>2, BatchAssumption DEF Posed
    <2>2. r.ids \in Seq(Nat) BY <1>2 DEF Posed
    <2> QED BY <2>1, <2>2
  <1>5. ASSUME NEW n \in DOMAIN r.arg.beads
        PROVE  LET b == r.arg.beads[n]
               IN IF r.ids[n] = 0 THEN <<n>> \in r.failures
                  ELSE /\ bead[r.ids[n]].key.title = b.title
                       /\ bead[r.ids[n]].parent = IF b.parent = 0 THEN 0 ELSE r.ids[b.parent]
                       /\ \A m \in Refs(b) : r.ids[m] # 0
    <2> DEFINE b == r.arg.beads[n]
    <2>1. n \in DOMAIN r.ids BY <1>3, <1>4
    <2>2. r.ids[n] = 0 => <<n>> \in r.failures BY <1>2, <2>1 DEF Tallied
    <2>3. ASSUME r.ids[n] # 0
          PROVE  /\ bead[r.ids[n]].key.title = b.title
                 /\ bead[r.ids[n]].parent = IF b.parent = 0 THEN 0 ELSE r.ids[b.parent]
                 /\ \A m \in Refs(b) : r.ids[m] # 0
      <3>1. r.ids[n] \in DOMAIN bead /\ bead[r.ids[n]].key = Part(r, n) /\ Missing(r, b) = {}
        BY <1>2, <2>1, <2>3 DEF Tallied
      <3>2. bead[r.ids[n]].parent = bead[r.ids[n]].key.parent BY <3>1 DEF RelayInv, BeadsSound, Filed
      <3>3. Part(r, n).title = b.title /\ Part(r, n).parent = IF b.parent = 0 THEN 0 ELSE r.ids[b.parent]
        BY DEF Part, Content
      <3>4. \A m \in Refs(b) : r.ids[m] # 0 BY <3>1 DEF Missing
      <3> QED BY <3>1, <3>2, <3>3, <3>4
    <2> QED BY <2>2, <2>3
  <1>6. ASSUME r.outcome = "complete",
               NEW l \in r.arg.links
                           \union UNION {{<<n, m>> : m \in r.arg.beads[n].deps} : n \in DOMAIN r.arg.beads}
        PROVE  <<r.ids[l[1]], r.ids[l[2]]>> \in edge
    <2>1. \E i \in Links(r.arg, r.ids) : i.from = l[1] /\ i.to = l[2]
      <3>1. CASE l \in r.arg.links
        <4> DEFINE i == [turn |-> Len(r.arg.beads) + 1, from |-> l[1], to |-> l[2]]
        <4>2. i.from = l[1] /\ i.to = l[2] OBVIOUS
        <4> HIDE DEF i
        <4>3. i \in Links(r.arg, r.ids) BY <3>1, LinksAskedFor DEF i
        <4> QED BY <4>2, <4>3
      <3>2. CASE l \in UNION {{<<n, m>> : m \in r.arg.beads[n].deps} : n \in DOMAIN r.arg.beads}
        <4>1. PICK n \in DOMAIN r.arg.beads : \E m \in r.arg.beads[n].deps : l = <<n, m>> BY <3>2
        <4>2. PICK m \in r.arg.beads[n].deps : l = <<n, m>> BY <4>1
        <4>3. n \in DOMAIN r.ids /\ r.ids[n] # 0
          <5>1. n \in DOMAIN r.ids BY <1>3, <1>4
          <5>2. r.failures = {} BY <1>3, <1>6
          <5> QED BY <1>2, <5>1, <5>2 DEF Tallied
        <4> DEFINE i == [turn |-> n, from |-> n, to |-> m]
        <4>4. i \in {[turn |-> n, from |-> n, to |-> k] : k \in r.arg.beads[n].deps} OBVIOUS
        <4>5. i.from = l[1] /\ i.to = l[2] BY <4>2
        <4>6. n \in {k \in DOMAIN r.ids : r.ids[k] # 0} BY <4>3
        <4> HIDE DEF i
        <4>7. i \in Links(r.arg, r.ids)
          <5> DEFINE S(k) == {[turn |-> k, from |-> k, to |-> m1] : m1 \in r.arg.beads[k].deps}
                     T == {k \in DOMAIN r.ids : r.ids[k] # 0}
          <5>1. \E R : Links(r.arg, r.ids) = (UNION {S(k) : k \in T}) \union R BY DEF Links
          <5>2. i \in S(n) /\ n \in T BY <4>4, <4>6
          <5> HIDE DEF S, T
          <5> QED BY <5>1, <5>2
        <4> QED BY <4>5, <4>7
      <3> QED BY <3>1, <3>2
    <2>2. PICK i \in Links(r.arg, r.ids) : i.from = l[1] /\ i.to = l[2] BY <2>1
    <2> QED BY <1>3, <1>6, <2>2
  <1> QED BY <1>5, <1>6

\* Bead by bead, the second batch finds the first one's.
LEMMA ReplayGives ==
  ASSUME RelayInv, BatchInv, ReplayInv
  PROVE  ReplayMakesNoMore
  <1> SUFFICES ASSUME NEW c \in Caller, NEW d \in Caller,
                      Done(c, "batch", "complete"), Done(d, "batch", "complete"), faults = 0,
                      call[c].arg = call[d].arg, ToSet(call[c].ids) \subseteq call[d].before,
                      \A i \in ToSet(call[c].ids) :
                        ~bead[i].old /\ \A j \in call[d].before : bead[j].key = bead[i].key => i <= j
               PROVE  ToSet(call[d].ids) \subseteq call[d].before
    BY DEF ReplayMakesNoMore
  <1> DEFINE r == call[c] s == call[d]
  <1>1. ASSUME NEW e \in Caller, Done(e, "batch", "complete")
        PROVE  /\ BatchSound(bead, edge, call[e]) /\ call[e].failures = {} /\ Posed(call[e]) /\ ~Rejected(call[e])
               /\ Len(call[e].ids) = Len(call[e].arg.beads) /\ Replaying(bead, call[e])
    <2>1. e \in Batches /\ call[e].pc = "done" /\ call[e].outcome = "complete" BY <1>1 DEF Done, Batches
    <2>2. BatchSound(bead, edge, call[e]) BY <2>1 DEF BatchInv
    <2> QED BY <2>1, <2>2 DEF BatchSound, Wiring, Replied, Rejected, ReplayInv
  <1>2. ASSUME NEW e \in Caller, Done(e, "batch", "complete"), NEW n \in DOMAIN call[e].ids
        PROVE  call[e].ids[n] # 0 /\ call[e].ids[n] \in DOMAIN bead /\ bead[call[e].ids[n]].key = Part(call[e], n)
    BY <1>1, <1>2 DEF BatchSound, Tallied
  <1>3. r.ids \in Seq(Nat) /\ s.ids \in Seq(Nat) /\ Len(r.ids) = Len(s.ids) /\ Len(r.ids) = Len(r.arg.beads)
    BY <1>1 DEF Posed
  <1>4. /\ DOMAIN r.ids = 1 .. Len(r.ids) /\ DOMAIN s.ids = 1 .. Len(r.ids) /\ Len(r.ids) \in Nat
        /\ \A n \in DOMAIN r.ids : r.ids[n] \in Nat /\ s.ids[n] \in Nat
    <2> DEFINE x == r.ids y == s.ids
    <2>1. x \in Seq(Nat) /\ y \in Seq(Nat) /\ Len(x) = Len(y) BY <1>3
    <2> HIDE DEF x, y
    <2>2. /\ DOMAIN x = 1 .. Len(x) /\ DOMAIN y = 1 .. Len(x) /\ Len(x) \in Nat
          /\ \A n \in DOMAIN x : x[n] \in Nat /\ y[n] \in Nat
      BY <2>1
    <2> QED BY <2>2 DEF x, y
  <1> DEFINE Differ == {n \in DOMAIN r.ids : r.ids[n] # s.ids[n]}
  <1>5. Differ = {}
    <2> SUFFICES ASSUME Differ # {} PROVE FALSE OBVIOUS
    <2>1. Differ \in SUBSET Nat BY <1>4
    <2>2. PICK n \in Differ : \A m \in Differ : n <= m
      <3> HIDE DEF Differ
      <3> QED BY <2>1, NatMin
    <2>3. n \in 1 .. Len(r.ids) /\ \A m \in 1 .. n - 1 : r.ids[m] = s.ids[m]
      <3>1. n \in 1 .. Len(r.ids) BY <1>4, <2>2
      <3>2. ASSUME NEW m \in 1 .. n - 1 PROVE r.ids[m] = s.ids[m]
        <4>1. m \in 1 .. Len(r.ids) /\ ~(n <= m) BY <1>4, <3>1
        <4> QED BY <1>4, <2>2, <4>1
      <3> QED BY <3>1, <3>2
    <2>4. Part(r, n) = Part(s, n)
      <3>1. r.arg.beads[n].parent = 0 \/ r.arg.beads[n].parent \in 1 .. n - 1
        BY <1>1, <1>3, <2>3, RefersBack
      <3> QED BY <2>3, <3>1 DEF Part
    <2>5. bead[r.ids[n]].key = bead[s.ids[n]].key /\ r.ids[n] \in Id /\ s.ids[n] \in Id /\ s.ids[n] # 0
      BY <1>2, <1>4, <2>3, <2>4 DEF Id
    <2>6. r.ids[n] \in ToSet(r.ids) BY <1>4, <2>3 DEF ToSet
    <2>7. r.ids[n] \in s.before /\ ~bead[r.ids[n]].old BY <2>6
    <2>8. Oldest(bead, s.before, s.ids[n]) BY <1>1, <1>4, <2>3, <2>5 DEF Replaying
    <2>9. s.ids[n] \in s.before /\ s.ids[n] <= r.ids[n] BY <2>5, <2>7, <2>8 DEF Oldest, Id
    <2>10. r.ids[n] <= s.ids[n] BY <2>5, <2>6, <2>9
    <2> QED BY <1>4, <2>2, <2>3, <2>9, <2>10
  <1>6. ToSet(s.ids) = ToSet(r.ids) BY <1>4, <1>5 DEF ToSet
  <1> QED BY <1>6

\* A batch reports every bead and every link that did not land, and what it
\* reports as made is there, each bead under its parent.
THEOREM BatchReportsAreTrue == Spec => []BatchReportIsTrue
  <1>1. Init => BatchInv BY DEF Init, Batches, BatchInv, Idle
  <1>2. RelayInv /\ BatchInv /\ [Next]_vars => (RelayInv /\ BatchInv)' BY RelayInductive, BatchInductive
  <1>3. RelayInv /\ BatchInv => BatchReportIsTrue BY BatchGives
  <1> QED BY <1>1, <1>2, <1>3, RelayInitial, PTL DEF Spec

\* A batch asked for again within the hour finds what it made before, as long as
\* nothing fails and nobody was halfway through the same batch in that hour.
THEOREM ReplaysMakeNoMore == Spec => []ReplayMakesNoMore
  <1>1. Init => BatchInv /\ ReplayInv BY DEF Init, Batches, BatchInv, ReplayInv, Idle, Id
  <1>2. RelayInv /\ BatchInv /\ ReplayInv /\ [Next]_vars => (RelayInv /\ BatchInv /\ ReplayInv)'
    BY RelayInductive, BatchInductive, ReplayInductive
  <1>3. RelayInv /\ BatchInv /\ ReplayInv => ReplayMakesNoMore BY ReplayGives
  <1> QED BY <1>1, <1>2, <1>3, RelayInitial, PTL DEF Spec
===============================================================================
