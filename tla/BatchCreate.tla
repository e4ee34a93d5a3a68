----------------------------- MODULE BatchCreate -----------------------------
(***************************************************************************)
(* bead_batch_create (lib/batch.ts): a graph of beads made in one call.     *)
(* Each bead names its parent and what it depends on among the earlier     *)
(* ones; further links are made at the end.  What fails is left out, with  *)
(* all that refers to it, and reported.                                    *)
(***************************************************************************)
EXTENDS BeadStore

\* What is asked: a sequence of beads [store, title, body, parent, deps], whose
\* parent (0 for none) and deps are places in it, and a set of links <<m, n>>.
Refs(b) == b.deps \union ({b.parent} \ {0})

\* The whole batch is refused, before any write, if a bead refers to a later
\* one or has its parent in another store.
Valid(arg) ==
  \A n \in DOMAIN arg.beads :
    LET b == arg.beads[n]
    IN /\ Refs(b) \subseteq 1 .. n - 1
       /\ b.parent # 0 => arg.beads[b.parent].store = b.store

\* Beads come in order, and links are between beads of the batch.
ASSUME BatchAssumption ==
  \A q \in Request : q.tool = "batch" =>
    /\ q.beads \in Seq({q.beads[n] : n \in DOMAIN q.beads})
    /\ q.links \subseteq (DOMAIN q.beads) \X (DOMAIN q.beads)

\* The links to make: the dependencies of the beads made, bead by bead, and
\* then the others; those of one bead are tried in any order.
Links(arg, ids) ==
  (UNION {{[turn |-> n, from |-> n, to |-> m] : m \in arg.beads[n].deps} : n \in {k \in DOMAIN ids : ids[k] # 0}})
    \union {[turn |-> Len(arg.beads) + 1, from |-> l[1], to |-> l[2]] : l \in arg.links}

\* before is the beads that were made in the hour before the call.
BatchBegun(arg) ==
  [tool |-> "batch", arg |-> arg, pc |-> "next bead", ids |-> << >>, failures |-> {}, wire |-> {}, link |-> {},
   make |-> << >>, then |-> "landed", id |-> 0, verified |-> FALSE, saw |-> {},
   before |-> {i \in Id : ~bead[i].old}, outcome |-> "none"]

AskBatch(c) ==
  /\ call[c].pc \in {"idle", "done"} /\ asked < MaxCalls /\ asked' = asked + 1
  /\ \E arg \in {q \in Request : q.tool = "batch"} :
       Turn(c, IF Valid(arg) THEN BatchBegun(arg)
               ELSE [BatchBegun(arg) EXCEPT !.pc = "done", !.outcome = "rejected"])
  /\ UNCHANGED <<bead, late, project, edge, faults>>

\* What a bead refers to and did not land.
Missing(r, b) == {m \in Refs(b) : r.ids[m] = 0}

BatchNext(c) ==
  /\ At(c, "next bead") /\ Sound
  /\ LET r == call[c] n == Len(r.ids) + 1
     IN Turn(c,
          IF n > Len(r.arg.beads) THEN [r EXCEPT !.pc = "wire", !.wire = Links(r.arg, r.ids)]
          ELSE LET b == r.arg.beads[n]
               IN IF Missing(r, b) # {}
                  THEN [r EXCEPT !.ids = Append(@, 0), !.failures = @ \union {<<n>>}]
                  ELSE Making(r, Content(b.store, b.title, b.body, None, FALSE,
                                         IF b.parent = 0 THEN 0 ELSE r.ids[b.parent]), "landed"))
  /\ Reads

\* A bead that did not read back has landed and is among the failures too.
BatchLanded(c) ==
  /\ At(c, "landed") /\ Sound
  /\ LET r == call[c]
     IN Turn(c, [r EXCEPT !.pc = "next bead", !.ids = Append(@, r.id),
                          !.failures = IF r.verified THEN @ ELSE @ \union {<<Len(r.ids) + 1>>}])
  /\ Reads

BatchFailed(c) ==
  /\ At(c, "failed") /\ call[c].tool = "batch" /\ Sound
  /\ LET r == call[c]
     IN Turn(c, [r EXCEPT !.pc = "next bead", !.ids = Append(@, 0), !.failures = @ \union {<<Len(r.ids) + 1>>}])
  /\ Reads

\* Mutant: a link that could not be made is not among the failures.
LinkFailedQuietly(r, l) == [r EXCEPT !.pc = "wire", !.wire = @ \ {l}]
LinkFailed(r, l) == [r EXCEPT !.pc = "wire", !.wire = @ \ {l}, !.failures = @ \union {<<l.from, l.to>>}]

\* The next link, in the dependency table or, across stores, as a comment that
\* mentions the other bead; the store refuses a bead that depends on itself.
Wire(c) ==
  /\ At(c, "wire")
  /\ \E l \in call[c].wire :
       LET r == call[c]
           from == r.ids[l.from]
           to == r.ids[l.to]
           wrote == edge' = edge \union {<<from, to>>}
       IN /\ \A k \in r.wire : l.turn <= k.turn
          /\ IF 0 \in {from, to} \/ from = to
             THEN Sound /\ Turn(c, LinkFailed(r, l)) /\ UNCHANGED edge
             ELSE \/ Sound /\ wrote /\ Turn(c, [r EXCEPT !.pc = "check", !.link = l])
                  \/ Fault /\ (wrote \/ UNCHANGED edge) /\ Turn(c, LinkFailed(r, l))
  /\ UNCHANGED <<bead, late, project, asked>>

\* It is read back.
CheckLink(c) ==
  /\ At(c, "check")
  /\ LET r == call[c]
     IN \/ Sound /\ Turn(c, [r EXCEPT !.pc = "wire", !.wire = @ \ {r.link}])
        \/ Fault /\ Turn(c, LinkFailed(r, r.link))
  /\ Reads

BatchDone(c) ==
  /\ At(c, "wire") /\ call[c].wire = {} /\ Sound
  /\ LET r == call[c]
     IN Turn(c, [r EXCEPT !.pc = "done", !.outcome = IF r.failures = {} THEN "complete" ELSE "partial"])
  /\ Reads

BatchStep(c) ==
  BatchNext(c) \/ BatchLanded(c) \/ BatchFailed(c) \/ Wire(c) \/ CheckLink(c) \/ BatchDone(c)

=============================================================================
