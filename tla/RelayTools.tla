------------------------------ MODULE RelayTools ------------------------------
(***************************************************************************)
(* The tools that write several beads in one call, by several clients on   *)
(* the same stores: the relay's and bead_batch_create.                      *)
(***************************************************************************)
EXTENDS Relay, BatchCreate

CONSTANT Foreground   \* the projects that are in the foreground at the start

Init ==
  /\ bead = << >> /\ late = {} /\ edge = {}
  /\ call = [c \in Caller |-> Idle]
  /\ project = [p \in Project |-> [title |-> p, titles |-> {p}, foreground |-> p \in Foreground,
                                   deprecated |-> FALSE, texts |-> {}]]
  /\ asked = 0 /\ faults = 0

Next ==
  \/ \E c \in Caller : AskRelay(c) \/ AskBatch(c) \/ CreateStep(c) \/ RelayStep(c) \/ BatchStep(c)
  \/ Land \/ CloseBead \/ HourPasses

Spec == Init /\ [][Next]_vars

---------------------------------------------------------------------------
Done(c, tool, outcome) == call[c].tool = tool /\ call[c].pc = "done" /\ call[c].outcome = outcome

\* The bead was written to as asked, in the project's name.
Holding(i, arg, slug) ==
  /\ i \in Id /\ (slug # None => bead[i].slug = slug)
  /\ arg.body \in bead[i].texts \union {None} /\ (arg.prio => bead[i].prio)

\* What a tool answers for a success has been done: the bead it names carries
\* the text and the priority asked for, every field of the project was written,
\* a promotion it reports has the project in the foreground with a note of why
\* (receipts.ts: no success without proof).
OkMeansDone ==
  \A c \in Caller :
    LET r == call[c]
    IN /\ Done(c, "capture", "ok") \/ Done(c, "upsert", "ok") => Holding(r.id, r.arg, r.slug)
       /\ Done(c, "flow", "ok") =>
            /\ r.task \in Id /\ (r.arg.prio => bead[r.task].prio)
            /\ r.arg.dispatch => r.dispatch \in Id /\ bead[r.dispatch].title = DispatchFor(None, r.task)
       /\ Done(c, "edit", "ok") => \A e \in r.arg.edits : <<e.step, e.to>> \in project[r.p].texts
       /\ r.pc = "done" /\ r.tool \in {"capture", "upsert"} /\ r.promoted =>
            project[r.p].foreground /\ <<"promoted", c>> \in project[r.p].texts

\* A backlog project is only ever promoted by a bead written in its name: not
\* by being mentioned, looked up or edited, nor by a write that failed
\* (docs/projects.md).
PromotedByAWrite ==
  \A p \in Project \ Foreground :
    project[p].foreground =>
      \E i \in Id : bead[i].slug \in (IF Label[p] = None THEN project[p].titles ELSE {Label[p]})

\* A task is made beside another of the same title in the same project only by
\* a call that began before that one was there, that was told not to update, or
\* whose search failed: duplicate detection runs before every create.
TwinsHaveAReason ==
  \A j \in Id : \A i \in bead[j].by.saw :
    LET kept(b) == <<b.key.store, b.key.title, b.key.slug>>
    IN bead[i].store = "task" /\ bead[j].title.kind = "task" => kept(bead[i]) # kept(bead[j])

\* A batch that reports itself complete has made every bead, each under its
\* parent, and every link; in any batch, what did not land is named.
BatchReportIsTrue ==
  \A c \in Caller :
    LET r == call[c]
    IN (r.tool = "batch" /\ r.pc = "done" /\ r.outcome # "rejected") =>
         /\ \A n \in DOMAIN r.arg.beads :
              IF r.ids[n] = 0 THEN <<n>> \in r.failures
              ELSE LET b == r.arg.beads[n]
                   IN /\ bead[r.ids[n]].key.title = b.title
                      /\ bead[r.ids[n]].parent = IF b.parent = 0 THEN 0 ELSE r.ids[b.parent]
                      /\ \A m \in Refs(b) : r.ids[m] # 0
         /\ r.outcome = "complete" =>
              \A l \in r.arg.links \union UNION {{<<n, m>> : m \in r.arg.beads[n].deps} : n \in DOMAIN r.arg.beads} :
                <<r.ids[l[1]], r.ids[l[2]]>> \in edge

\* A batch asked for again within the hour makes no further beads, if nothing
\* failed and the first one's beads are the oldest of their content made in that
\* hour: nobody else was halfway through the same batch (docs/idempotent-create.md:
\* 267). After the hour it makes them all again: see CREATE_KEY_WINDOW_MS
\* (create.ts:94).
ReplayMakesNoMore ==
  \A c, d \in Caller :
    (/\ Done(c, "batch", "complete") /\ Done(d, "batch", "complete") /\ faults = 0
     /\ call[c].arg = call[d].arg /\ ToSet(call[c].ids) \subseteq call[d].before
     /\ \A i \in ToSet(call[c].ids) :
          ~bead[i].old /\ \A j \in call[d].before : bead[j].key = bead[i].key => i <= j)
    => ToSet(call[d].ids) \subseteq call[d].before

\* What an upsert answers is a task, made or updated, never something else
\* (mcp.ts:1283, "Create a task, or update the duplicate when one already exists").
UpsertMakesATask ==
  \A c \in Caller : Done(c, "upsert", "ok") => bead[call[c].id].title.kind = "task"

=============================================================================
