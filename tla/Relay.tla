-------------------------------- MODULE Relay --------------------------------
(***************************************************************************)
(* The project tools of lib/relay.ts: capture, create or update a task,     *)
(* request a dispatch, edit a project, and the flow that does the middle    *)
(* two.  A project is named by its id, slug, title or alias; a write in its *)
(* name makes a backlog project a foreground one.  Each step is one command *)
(* of a store CLI and others run in between; each may fail.                 *)
(***************************************************************************)
EXTENDS BeadStore

CONSTANTS
  Label,       \* the slug a project's label gives it, or None
  Alias,       \* the names in its alias labels
  Title,       \* titles of tasks
  Holds,    \* pairs of titles, the first holding the second's text
  Near         \* pairs of titles with most words in common

ASSUME RelayAssumption ==
  /\ MaxFaults \in Nat /\ MaxCalls \in Nat
  /\ Holds \subseteq Title \X Title /\ Near \subseteq Title \X Title
  /\ None \notin Project \union Title

\* project_edit's writes, in this order.
Steps == <<"text", "comment on it", "lifecycle">>

\* What the tools accept: a capture has no priority; an edit names its project
\* and gives each of its fields at most once, and a title is never blanked.
ASSUME RequestAssumption ==
  \A q \in Request :
    /\ q.tool \in {"capture", "upsert", "dispatch", "flow", "edit", "batch"}
    /\ q.tool = "capture" => ~q.prio
    /\ q.tool = "edit" =>
         /\ q.ref # None
         /\ \A e \in q.edits : e.step \in ToSet(Steps) /\ (e.step = "text" => e.to # None)
         /\ \A e, f \in q.edits : e.step = f.step => e = f

\* A task's title; a dispatch request is titled after the task's id or title.
Task(t) == [kind |-> "task", of |-> t, ref |-> 0]
DispatchFor(t, ref) == [kind |-> "dispatch", of |-> IF ref = 0 THEN t ELSE None, ref |-> ref]

---------------------------------------------------------------------------
(* Projects. *)

Slug(p) == IF Label[p] # None THEN Label[p] ELSE project[p].title

\* The project a reference names: by id, else slug, else title, else alias, and
\* then by the first of these that has a hit at all, if it has just one.
Matches(ref) ==
  LET tiers == << {p \in Project : p = ref}, {p \in Project : Slug(p) = ref},
                  {p \in Project : project[p].title = ref}, {p \in Project : ref \in Alias[p]} >>
      hit == {i \in DOMAIN tiers : tiers[i] # {}}
  IN IF hit = {} \/ Cardinality(tiers[Min(hit)]) > 1 THEN {} ELSE tiers[Min(hit)]

---------------------------------------------------------------------------
(* Duplicates. *)

Score(t, u) ==
  IF t = u THEN 3
  ELSE IF <<t, u>> \in Holds \/ <<u, t>> \in Holds THEN 2
  ELSE IF <<t, u>> \in Near \/ <<u, t>> \in Near THEN 1 ELSE 0

\* Mutant: closed tasks are left out of the search.
TaskRowsOpen(t, slug) ==
  {i \in Id : /\ bead[i].store = "task" /\ ~bead[i].closed /\ (slug # None => bead[i].slug = slug)
              /\ bead[i].title.of = t \/ <<bead[i].title.of, t>> \in Holds}

\* The tasks, closed ones too, whose title holds the one asked for, in the
\* project if there is one.  Dispatch requests are tasks like any other.
TaskRows(t, slug) ==
  {i \in Id : /\ bead[i].store = "task" /\ (slug # None => bead[i].slug = slug)
              /\ bead[i].title.of = t \/ <<bead[i].title.of, t>> \in Holds}

\* Without a project and without a hit, all tasks.
Scoped(t, slug) ==
  IF slug # None \/ TaskRows(t, slug) # {} THEN TaskRows(t, slug)
  ELSE {i \in Id : bead[i].store = "task"}

Likeness(i, t) ==
  IF bead[i].title.kind = "dispatch" THEN (IF bead[i].title.of = None THEN 0 ELSE Min({2, Score(bead[i].title.of, t)}))
  ELSE Score(bead[i].title.of, t)

\* The row most like the title, if it is like it at all; 0 for none.
Duplicate(t, rows) ==
  LET best == {i \in rows : /\ Likeness(i, t) > 0
                            /\ \A j \in rows : Likeness(j, t) <= Likeness(i, t)}
  IN IF best = {} THEN 0 ELSE Min(best)

---------------------------------------------------------------------------
(* Where a call goes on.  A stage is one of the functions a tool calls. *)

Begun(arg, saw) ==
  [tool |-> arg.tool, arg |-> arg, stage |-> IF arg.tool = "flow" THEN "resolve" ELSE arg.tool, ref |-> arg.ref,
   pc |-> IF arg.ref = None THEN "looked" ELSE "lookup",
   p |-> None, slug |-> None, backlog |-> FALSE,        \* what the lookup found
   id |-> 0, verified |-> FALSE, then |-> "made", make |-> << >>, saw |-> saw,
   task |-> 0, dispatch |-> 0, promoted |-> FALSE, bad |-> FALSE, outcome |-> "none"]

Answered(r, outcome) == [r EXCEPT !.pc = "done", !.outcome = outcome]

\* A function of lib/relay.ts throws: the tool answers with an error; the flow
\* goes on if it was only resolving the project.
Threw(r) ==
  IF r.tool # "flow" THEN Answered(r, "error")
  ELSE IF r.stage = "resolve" THEN [r EXCEPT !.bad = TRUE, !.stage = "upsert", !.pc = "lookup"]
  ELSE Answered(r, "partial")

\* It returns: what is next in the flow, or the answer.
Returned(r) ==
  IF r.tool # "flow" THEN Answered(r, IF r.bad THEN "partial" ELSE "ok")
  ELSE IF r.stage = "resolve"
       THEN [r EXCEPT !.stage = "upsert", !.ref = IF r.p = None THEN r.arg.ref ELSE r.p,
                      !.pc = IF r.p = None THEN "looked" ELSE "lookup"]
  ELSE IF r.stage = "upsert"
       THEN [r EXCEPT !.task = r.id, !.pc = IF r.bad /\ r.slug # None THEN "relist" ELSE "next"]
  ELSE Answered([r EXCEPT !.dispatch = r.id], IF r.bad THEN "partial" ELSE "ok")

AskRelay(c) ==
  /\ call[c].pc \in {"idle", "done"} /\ asked < MaxCalls /\ asked' = asked + 1
  /\ \E arg \in {q \in Request : q.tool # "batch"} : Turn(c, Begun(arg, IF arg.allow THEN Id ELSE {}))
  /\ UNCHANGED <<bead, late, project, edge, faults>>

\* lookupProject: the id straight from the store, else the complete list.
Lookup(c) ==
  /\ At(c, "lookup")
  /\ LET r == call[c] ms == Matches(r.ref)
     IN \/ Sound /\ Turn(c, IF ms = {} THEN Threw(r)
                            ELSE LET p == CHOOSE m \in ms : TRUE
                                 IN [r EXCEPT !.pc = "looked", !.p = p, !.slug = Slug(p),
                                              !.backlog = ~project[p].foreground])
        \/ Fault /\ Turn(c, Threw(r))
  /\ Reads

\* What each function does once it knows the project.
Looked(c) ==
  /\ At(c, "looked") /\ Sound
  /\ LET r == call[c]
     IN Turn(c, CASE r.stage = "resolve" -> Returned(r)
                  [] r.stage = "capture" ->
                       Making(r, Content("brain", Task(r.arg.title), r.arg.body, r.slug, FALSE, 0), "made")
                  [] r.stage = "upsert" -> [r EXCEPT !.pc = "dups"]
                  [] r.stage = "dispatch" -> [r EXCEPT !.pc = "attach"]
                  [] r.stage = "edit" -> [r EXCEPT !.pc = "text"])
  /\ Reads

\* The search for a duplicate: a list that fails reads as an empty one.
DupCheck(c) ==
  /\ At(c, "dups")
  /\ LET r == call[c]
         new == Content("task", Task(r.arg.title), r.arg.body, r.slug, r.arg.prio, 0)
         dup == IF r.arg.allow THEN Duplicate(r.arg.title, Scoped(r.arg.title, r.slug)) ELSE 0
     IN \/ Sound /\ Turn(c, IF dup = 0 THEN Making(r, new, "made")
                            ELSE [r EXCEPT !.id = dup, !.pc = IF r.arg.body # None \/ r.arg.prio
                                                              THEN "edit" ELSE "comment"])
        \/ Fault /\ Turn(c, Making([r EXCEPT !.saw = {}], new, "made"))
  /\ Reads

\* An update that fails becomes a comment, if there is only a text to add.
FallsBack(r) == ~r.arg.prio

Written(b, arg) ==
  [b EXCEPT !.body = IF arg.body = None THEN @ ELSE arg.body, !.prio = @ \/ arg.prio,
            !.texts = @ \union {arg.body}]

\* The duplicate is updated: read back, written but not read back, or failed,
\* with effect or without.
EditDup(c) ==
  /\ At(c, "edit")
  /\ LET r == call[c]
         wrote == bead' = [bead EXCEPT ![r.id] = Written(@, r.arg)]
     IN \/ Sound /\ wrote /\ Turn(c, [r EXCEPT !.pc = "label", !.then = "reread"])
        \/ Fault /\ wrote /\ Turn(c, Threw(r))
        \/ /\ Fault /\ (wrote \/ UNCHANGED bead)
           /\ Turn(c, IF FallsBack(r) THEN [r EXCEPT !.pc = "comment"] ELSE Threw(r))
  /\ UNCHANGED <<late, project, edge, asked>>

\* The text as a comment, or a line that says the task was touched.
CommentDup(c) ==
  /\ At(c, "comment")
  /\ LET r == call[c]
         wrote == bead' = [bead EXCEPT ![r.id].texts = @ \union {r.arg.body}]
     IN \/ Sound /\ wrote /\ Turn(c, [r EXCEPT !.pc = "label", !.then = "reread"])
        \/ Fault /\ (wrote \/ UNCHANGED bead) /\ Turn(c, Threw(r))
  /\ UNCHANGED <<late, project, edge, asked>>

\* Mutant: the project is promoted first.
CreateThrewPromotes(c) ==
  /\ At(c, "failed") /\ call[c].tool # "batch" /\ Sound
  /\ Turn(c, [call[c] EXCEPT !.pc = "label", !.then = "failed", !.backlog = @ /\ ~call[c].promoted]) /\ Reads
\* The create threw.
CreateThrew(c) ==
  /\ At(c, "failed") /\ call[c].tool # "batch" /\ Sound
  /\ Turn(c, Threw(call[c])) /\ Reads

\* A bead that did not read back is an error; else the project is next.
Made(c) ==
  /\ At(c, "made") /\ Sound
  /\ LET r == call[c]
     IN Turn(c, IF ~r.verified THEN Threw(r)
                ELSE IF r.stage = "dispatch" THEN Returned(r)
                ELSE [r EXCEPT !.pc = "label", !.then = "return"])
  /\ Reads

\* A backlog project is given its label; whatever goes wrong is not an error
\* of the call, which then only does not speak of a promotion.
PromoteLabel(c) ==
  /\ At(c, "label")
  /\ LET r == call[c]
         wrote == project' = [project EXCEPT ![r.p].foreground = TRUE]
     IN IF r.p = None \/ ~r.backlog
        THEN Sound /\ Go(c, r.then) /\ UNCHANGED project
        ELSE \/ Sound /\ wrote /\ Turn(c, [r EXCEPT !.pc = "note", !.promoted = TRUE])
             \/ Fault /\ wrote /\ Go(c, "note")
             \/ Fault /\ (wrote \/ UNCHANGED project) /\ Go(c, r.then)
  /\ UNCHANGED <<bead, late, edge, asked>>

\* And a comment that says why.
PromoteNote(c) ==
  /\ At(c, "note")
  /\ LET r == call[c]
         wrote == project' = [project EXCEPT ![r.p].texts = @ \union {<<"promoted", c>>}]
     IN \/ Sound /\ wrote /\ Go(c, r.then)
        \/ Fault /\ (wrote \/ UNCHANGED project) /\ Turn(c, [r EXCEPT !.pc = r.then, !.promoted = FALSE])
  /\ UNCHANGED <<bead, late, edge, asked>>

Return(c) == At(c, "return") /\ Sound /\ Turn(c, Returned(call[c])) /\ Reads

\* The updated duplicate is read back once more.
Reread(c) ==
  /\ At(c, "reread")
  /\ \/ Sound /\ Turn(c, Returned(call[c]))
     \/ Fault /\ Turn(c, Threw(call[c]))
  /\ Reads

\* The flow looks for its project again, by the slug the task was filed under.
Relist(c) ==
  /\ At(c, "relist")
  /\ LET r == call[c] ps == {p \in Project : Slug(p) = r.slug}
     IN \/ Sound /\ \E p \in IF ps = {} THEN {None} ELSE ps : Turn(c, [r EXCEPT !.p = p, !.pc = "next"])
        \/ Fault /\ Turn(c, Threw(r))
  /\ Reads

\* And asks for a dispatch, if it was to.
FlowDispatches(c) ==
  /\ At(c, "next") /\ Sound
  /\ LET r == call[c]
     IN Turn(c, IF ~r.arg.dispatch THEN Answered(r, IF r.bad THEN "partial" ELSE "ok")
                ELSE [r EXCEPT !.stage = "dispatch", !.ref = r.p, !.p = None, !.slug = None,
                               !.pc = IF r.p = None THEN "looked" ELSE "lookup"])
  /\ Reads

\* A dispatch is attached to the task given, which must read back, or to the
\* one most like the title; a list that fails attaches it to none.
Attach(c) ==
  /\ At(c, "attach")
  /\ LET r == call[c]
         for(id, slug) == Making(r, Content("task", DispatchFor(r.arg.title, id), r.arg.body, slug, FALSE, 0), "made")
     IN IF r.task # 0
        THEN \/ Sound /\ Turn(c, for(r.task, IF r.slug = None THEN bead[r.task].slug ELSE r.slug))
             \/ Fault /\ Turn(c, Threw(r))
        ELSE \/ Sound /\ Turn(c, for(Duplicate(r.arg.title, TaskRows(r.arg.title, r.slug)), r.slug))
             \/ Fault /\ Turn(c, for(0, r.slug))
  /\ Reads

---------------------------------------------------------------------------
(* project_edit: up to three writes. *)

\* What a step writes to project q; an empty set if it was not asked for.
Asked(arg, step) == {e \in arg.edits : e.step = step}

Applied(q, e) ==
  [q EXCEPT !.texts = @ \union {<<e.step, e.to>>},
            !.title = IF e.step = "text" THEN e.to ELSE @,
            !.titles = IF e.step = "text" THEN @ \union {e.to} ELSE @,
            !.deprecated = IF e.step = "lifecycle" THEN e.to = "deprecated" ELSE @]

AfterStep(r) ==
  LET i == CHOOSE n \in DOMAIN Steps : Steps[n] = r.pc
  IN IF i = Len(Steps) THEN Returned(r) ELSE [r EXCEPT !.pc = Steps[i + 1]]

\* Mutant: a step that fails is forgotten.
FailedStepLost(r) == AfterStep(r)
\* A write that fails is a failed step of the answer, and the next is tried.
FailedStep(r) == AfterStep([r EXCEPT !.bad = TRUE])

\* One that did not read back ends the edit with an error.
EditStep(c) ==
  /\ call[c].tool = "edit" /\ call[c].pc \in ToSet(Steps)
  /\ LET r == call[c]
         wrote(e) == project' = [project EXCEPT ![r.p] = Applied(@, e)]
     IN IF Asked(r.arg, r.pc) = {} THEN Sound /\ Turn(c, AfterStep(r)) /\ UNCHANGED project
        ELSE \E e \in Asked(r.arg, r.pc) :
               \/ Sound /\ wrote(e) /\ Turn(c, AfterStep(r))
               \/ Fault /\ wrote(e) /\ Turn(c, Threw(r))
               \/ Fault /\ (wrote(e) \/ UNCHANGED project) /\ Turn(c, FailedStep(r))
  /\ UNCHANGED <<bead, late, edge, asked>>

RelayStep(c) ==
  \/ Lookup(c) \/ Looked(c) \/ DupCheck(c) \/ EditDup(c) \/ CommentDup(c)
  \/ CreateThrew(c) \/ Made(c) \/ PromoteLabel(c) \/ PromoteNote(c) \/ Return(c)
  \/ Reread(c) \/ Relist(c) \/ FlowDispatches(c) \/ Attach(c) \/ EditStep(c)

=============================================================================
