------------------------------ MODULE Retrieval ------------------------------
(***************************************************************************)
(* Reads over many beads and stores: lib/retrieval.ts, with the statements *)
(* of lib/sql-beads.ts and lib/graph-sql.ts behind it.                      *)
(*                                                                         *)
(* A snapshot walks the graph of beads level by level from a root, bounded *)
(* in depth and number; an activity read merges the newest rows of every   *)
(* store; a claimed read lists the beads in progress, looks each up again  *)
(* and says what state the claim is in.  Each is read over SQL and, when a *)
(* statement fails, again from the start by the stores' CLIs, bead by bead *)
(* and store by store, while others change the beads.                      *)
(***************************************************************************)
EXTENDS Integers, Sequences, SequencesExt, FiniteSets, Functions, Ordered

CONSTANTS
  Node,        \* ids, naturals
  Missing,     \* ids that are mentioned somewhere and name no bead, or several
  FullId,      \* ids that were cut short and still name one: the id they stand for
  StoreOf,     \* the store of each bead
  Links,       \* the graphs there may be: for each bead its links, in order
  PartOf,      \* how a bead is led to: by "edges", as one of the "children", in "texts"
  Contents,    \* the beads' possible contents at the start
  Op,          \* the reads asked for
  MaxDepth,    \* opts.depth
  Caps,        \* opts.cap, the values asked for
  Fan,         \* the neighbours a bead is followed to, 60
  PerStore,    \* rows read of one store
  Limit,       \* rows shown
  MaxChanges,  \* bound on the changes of the store while it is read
  MaxUnread    \* bound on the reads that fail

Store == {StoreOf[b] : b \in Node}
Named == Node \ (Missing \union DOMAIN FullId)

\* What is read of a bead to know its links, in the order they are assembled in.
Part == <<"edges", "children", "texts">>

\* A claimed bead is held by an agent, released by a label, or closed.  The
\* age is that of its claim, against the stale-after threshold.
Claim == {"held", "released", "closed"}
Age == {"none", "fresh", "old"}
Judgement == {"completed", "abandoned", "stale", "unknown", "active", "claimed"}

Content == [claim : Claim, holder : BOOLEAN, age : Age, labelled : BOOLEAN, updated : Nat]

ASSUME RetrievalAssumption ==
  /\ Node \subseteq Nat /\ IsFiniteSet(Node) /\ Missing \subseteq Node
  /\ StoreOf \in [Node -> Int] /\ Contents \subseteq [Node -> Content]
  /\ Links \subseteq [Node -> Seq(Node)]
  /\ \A b \in DOMAIN FullId : b \in Node \ Missing /\ FullId[b] \in Named
  /\ {MaxDepth, MaxChanges, MaxUnread} \subseteq Nat
  /\ {Fan, PerStore, Limit} \union Caps \subseteq Nat \ {0}
  /\ Limit <= PerStore

VARIABLES
  entry,    \* the beads: [claim, holder, age, labelled, updated]
  links,    \* the beads each bead leads to, repetitions and all
  ask,      \* the read being answered
  graphs,   \* history: the links there were during the read
  was,      \* history: the claims each bead went through during the read
  changes,  \* how many there were
  unread    \* how many there were

retrievalVars == <<entry, links, ask, graphs, was, changes, unread>>
history == <<graphs, was>>

NoRead == [op |-> "none", pc |-> "idle"]

---------------------------------------------------------------------------
(* The snapshot's pure parts. *)

\* A bead's neighbours: each once, where it first occurs, at most Fan.
FirstPlaces(ls) ==
  {j \in DOMAIN ls : /\ \A k \in 1 .. j - 1 : ls[k] # ls[j]
                     /\ Cardinality({ls[k] : k \in 1 .. j - 1}) < Fan}
Neighbors(ls) == {ls[j] : j \in FirstPlaces(ls)}

Walk(root, cap, via) ==
  [op |-> "snapshot", pc |-> "level", root |-> root, cap |-> cap, via |-> via, level |-> <<root>>,
   depth |-> 0, next |-> << >>, nodes |-> << >>, seen |-> {root}, truncated |-> FALSE,
   loaded |-> << >>, lost |-> {}]

FirstOf(s, n) == SubSeq(s, 1, IF Len(s) < n THEN Len(s) ELSE n)

\* The neighbours that the walk has not seen, in order.
Unseen(w, ls) == PickedAt(ls, {j \in FirstPlaces(ls) : ls[j] \notin w.seen})

Room(w) ==
  LET left == w.cap - Len(w.nodes) - Len(w.next) IN IF left < 0 THEN 0 ELSE left

\* Mutant: a bead turned away by the cap is not counted against the answer.
QueuedSilently(w, ls) ==
  LET new == FirstOf(Unseen(w, ls), Room(w))
  IN [w EXCEPT !.seen = @ \union ToSet(new), !.next = @ \o new]

\* The neighbours of the bead just listed are queued for the next level, as
\* far as the cap has room; the first it has no room for is seen, all the same,
\* and ends the queueing.
Queued(w, ls) ==
  LET unseen == Unseen(w, ls)
  IN [w EXCEPT !.seen = @ \union ToSet(FirstOf(unseen, Room(w) + 1)),
               !.next = @ \o FirstOf(unseen, Room(w)),
               !.truncated = @ \/ Len(unseen) > Room(w)]

Listed(w, b, ls) ==
  LET shown == [w EXCEPT !.nodes = Append(@, [id |-> b, depth |-> w.depth]), !.level = Tail(@)]
  IN IF w.depth < MaxDepth THEN Queued(shown, ls) ELSE shown

\* The dependencies of a bead, down and up; its children, which are looked for by
\* the id as it stands; and the beads that its text and comments name.  (Those of
\* the same project are left out.)
Real(b) == IF b \in DOMAIN FullId THEN FullId[b] ELSE b
Others(part, ls, b) == PickedAt(ls, {j \in DOMAIN ls : ls[j] # b /\ PartOf[ls[j]] = part})
Edges(g, b) == Others("edges", g[Real(b)], b)
Children(g, b) == Others("children", g[b], b)
Mentions(g, b) == Others("texts", g[Real(b)], b)
PartRead(part, g, b) ==
  CASE part = "edges" -> Edges(g, b)
    [] part = "children" -> Children(g, b)
    [] part = "texts" -> Mentions(g, b)
InParts(p) == p["edges"] \o p["children"] \o p["texts"]

\* Where a bead leads to whichever of these graphs each part is read from.
LeadsTo(gs, b) ==
  {c \in Node : \A from \in [ToSet(Part) -> gs] :
                  c \in Neighbors(InParts([part \in ToSet(Part) |-> PartRead(part, from[part], b)]))}

---------------------------------------------------------------------------
(* The claim's pure parts. *)

\* Mutant: a claim nobody has touched for long passes for abandoned.
ClassifyByAge(r) ==
  IF r.claim = "closed" THEN "completed"
  ELSE IF r.claim = "released" \/ r.age = "old" THEN "abandoned"
  ELSE IF r.age = "none" THEN "unknown"
  ELSE IF r.holder THEN "active" ELSE "claimed"

Classify(r) ==
  IF r.claim = "closed" THEN "completed"
  ELSE IF r.claim = "released" THEN "abandoned"
  ELSE IF r.age = "old" THEN "stale"
  ELSE IF r.age = "none" THEN "unknown"
  ELSE IF r.holder THEN "active" ELSE "claimed"

\* What the answer says of a bead scanned as r: looked up again, its claim is
\* the live one, except that labels all gone are taken for labels not read;
\* its age and holder are those of the scan.
Judged(r, live) ==
  IF r.claim = "released" /\ live = "held" /\ ~r.labelled
  THEN Classify(r) ELSE Classify([r EXCEPT !.claim = live])

---------------------------------------------------------------------------
(* The sweeps' pure parts.  A reading is a bead and its row at that moment. *)

Newer(p, q) == p.entry.updated > q.entry.updated \/ (p.entry.updated = q.entry.updated /\ p.id < q.id)

\* One store's answer: the rows asked for that were updated last.
Listing(op, s) ==
  LET beads == {b \in Named : StoreOf[b] = s /\ (op = "claimed" => entry[b].claim # "closed")}
      readings == {[id |-> b, entry |-> entry[b]] : b \in beads}
  IN FirstOf(SortedBy(readings, {p \in readings \X readings : Newer(p[1], p[2])}), PerStore)

AllOf(got) == UNION {ToSet(got[s]) : s \in DOMAIN got}

\* Mutant: the stores' answers one after the other.
MergedByStore(op, got) ==
  FirstOf(SortedBy(AllOf(got), {p \in AllOf(got) \X AllOf(got) : p[1].id < p[2].id}), Limit)

Rank(age) == CASE age = "old" -> 2 [] age = "fresh" -> 1 [] OTHER -> 0

Before(op, p, q) ==
  IF op = "activity" THEN Newer(p, q)
  ELSE IF op = "search" THEN StoreOf[p.id] < StoreOf[q.id] \/ (StoreOf[p.id] = StoreOf[q.id] /\ Newer(p, q))
  ELSE Rank(p.entry.age) > Rank(q.entry.age) \/ (Rank(p.entry.age) = Rank(q.entry.age) /\ p.id < q.id)

\* Activity: newest first over all stores.  Search: store by store, best first (any
\* fixed rank will do).  Claims: the oldest claim first.
Merged(op, got) ==
  FirstOf(SortedBy(AllOf(got), {p \in AllOf(got) \X AllOf(got) : Before(op, p[1], p[2])}), Limit)

Sweep(op, via) == [op |-> op, pc |-> "sweep", via |-> via, todo |-> Store, got |-> << >>, errors |-> {}]

---------------------------------------------------------------------------
RetrievalInit ==
  /\ entry \in Contents /\ links \in Links
  /\ ask = NoRead
  /\ graphs = {} /\ was = [b \in Node |-> {}]
  /\ changes = 0 /\ unread = 0

\* A map with one entry more, or a new value for the one it has.
With(f, x, v) == [y \in DOMAIN f \union {x} |-> IF y = x THEN v ELSE f[y]]

CannotRead == unread < MaxUnread /\ unread' = unread + 1
Quiet == UNCHANGED <<entry, links, history, changes>>

\* From here the history of this read is kept.
Begins(c) ==
  /\ ask.pc = "idle"
  /\ ask' = c
  /\ graphs' = {links}
  /\ was' = [b \in Node |-> {entry[b].claim}]
  /\ UNCHANGED <<entry, links, changes, unread>>

AskSnapshot ==
  "snapshot" \in Op /\ \E root \in Node, cap \in Caps : Begins(Walk(root, cap, "sql"))
\* A phrase is searched for first, and the best hit is the root.
AskPhrase == "snapshot" \in Op /\ Begins(Sweep("search", "sql"))
AskActivity == "activity" \in Op /\ Begins(Sweep("activity", "sql"))
AskClaimed == "claimed" \in Op /\ Begins(Sweep("claimed", "sql"))

\* A statement fails: what was read so far is dropped, and the whole read is
\* made again by the CLIs.
FallBack ==
  /\ ask.pc \in {"level", "sweep"} /\ ask.via = "sql" /\ CannotRead
  /\ ask' = IF ask.op = "snapshot" THEN Walk(ask.root, ask.cap, "bd") ELSE Sweep(ask.op, "bd")
  /\ Quiet

\* What the next visit waits for: over SQL the whole level is loaded ahead, by
\* the CLI a bead is read when its turn comes.
Due == IF ask.via = "sql" THEN ToSet(ask.level) ELSE {Head(ask.level)}
AllLoaded == DOMAIN ask.loaded = ToSet(Part)
Loading ==
  /\ ask.pc = "level" /\ ask.level # << >>
  /\ ask.via = "bd" => Len(ask.nodes) < ask.cap

\* Two parts are read at once; over SQL the texts, which the CLI renders, come
\* last, by the CLI the children.
LastPart == IF ask.via = "sql" THEN "texts" ELSE "children"
MayLoad(part) ==
  /\ Loading /\ part \notin DOMAIN ask.loaded
  /\ part = LastPart => Cardinality(DOMAIN ask.loaded) = 2

LoadPart(part) ==
  /\ MayLoad(part)
  /\ ask' = [ask EXCEPT !.loaded = With(@, part, [b \in Due |-> PartRead(part, links, b)])]
  /\ Quiet /\ UNCHANGED unread

\* A command of the CLI fails, and the bead counts as having no such links.
LoadFails(part) ==
  /\ MayLoad(part) /\ CannotRead
  /\ ask.via = "bd" \/ part = "texts"
  /\ \E failed \in IF ask.via = "bd" THEN {Due} ELSE {{b} : b \in Due} :
       ask' = [ask EXCEPT
         !.lost = @ \union failed,
         !.loaded = With(@, part, [b \in Due |-> IF b \in failed THEN << >> ELSE PartRead(part, links, b)])]
  /\ Quiet

\* No room for the next bead of the level: the walk ends here.
Full ==
  /\ ask.pc = "level" /\ ask.level # << >> /\ Len(ask.nodes) >= ask.cap
  /\ ask.via = "sql" => AllLoaded
  /\ ask' = [ask EXCEPT !.pc = "done", !.truncated = TRUE]
  /\ Quiet /\ UNCHANGED unread

\* What is left of the level when b has been dealt with.
Onward(w) == [w EXCEPT !.loaded = IF w.via = "sql" THEN @ ELSE << >>]

\* The next bead of the level, listed with what it leads to.
Visit ==
  /\ ask.pc = "level" /\ ask.level # << >> /\ Len(ask.nodes) < ask.cap /\ AllLoaded
  /\ LET b == Head(ask.level)
     IN  /\ b \notin Missing
         /\ ask' = Onward(Listed(ask, b, InParts([part \in ToSet(Part) |-> ask.loaded[part][b]])))
  /\ Quiet /\ UNCHANGED unread

\* A bead that names nothing is passed over, and so is one whose row the CLI
\* fails to read.
PassOver ==
  /\ Loading /\ Len(ask.nodes) < ask.cap
  /\ IF ask.via = "sql" THEN AllLoaded ELSE "children" \notin DOMAIN ask.loaded
  /\ LET b == Head(ask.level)
     IN  \/ b \in Missing /\ ask' = Onward([ask EXCEPT !.level = Tail(@)]) /\ UNCHANGED unread
         \/ /\ ask.via = "bd" /\ b \notin Missing /\ CannotRead
            /\ ask' = Onward([ask EXCEPT !.level = Tail(@), !.lost = @ \union {b}])
  /\ Quiet

NextLevel ==
  /\ ask.pc = "level" /\ ask.level = << >>
  /\ ask' = IF ask.next = << >>
             THEN [ask EXCEPT !.pc = "done"]
             ELSE [ask EXCEPT !.level = ask.next, !.next = << >>, !.depth = @ + 1, !.loaded = << >>]
  /\ Quiet /\ UNCHANGED unread

\* One statement for every store.
SweepSql ==
  /\ ask.pc = "sweep" /\ ask.via = "sql"
  /\ ask' = [ask EXCEPT !.pc = "merge", !.todo = {}, !.got = [s \in Store |-> Listing(ask.op, s)]]
  /\ Quiet /\ UNCHANGED unread

\* One listing by the store's CLI; several run at once and end in any order.
SweepBd ==
  /\ ask.pc = "sweep" /\ ask.via = "bd"
  /\ \E s \in ask.todo :
       \/ /\ ask' = [ask EXCEPT !.todo = @ \ {s}, !.got = With(@, s, Listing(ask.op, s))]
          /\ UNCHANGED unread
       \/ /\ CannotRead
          /\ ask' = [ask EXCEPT !.todo = @ \ {s}, !.got = With(@, s, << >>),
                                  !.errors = @ \union {s}]
  /\ Quiet

\* The rows of the answer; for claims, each is looked up again.
Merge ==
  /\ ask.pc = "merge" \/ (ask.pc = "sweep" /\ ask.via = "bd" /\ ask.todo = {})
  /\ LET rows == Merged(ask.op, ask.got)
     IN ask' \in
          IF ask.op = "search" /\ rows # << >>
          THEN {Walk(rows[1].id, cap, "sql") : cap \in Caps}
          ELSE {[op |-> ask.op, pc |-> IF ask.op = "claimed" THEN "detail" ELSE "done",
                 rows |-> rows, errors |-> ask.errors,
                 todo |-> DOMAIN rows, live |-> [i \in DOMAIN rows |-> rows[i].entry.claim]]}
  /\ Quiet /\ UNCHANGED unread

\* A row is looked up again, in any order; a lookup that fails leaves the row
\* as it was scanned.
Detail ==
  /\ ask.pc = "detail"
  /\ \E i \in ask.todo :
       \/ /\ ask' = [ask EXCEPT !.todo = @ \ {i}, !.live[i] = entry[ask.rows[i].id].claim]
          /\ UNCHANGED unread
       \/ CannotRead /\ ask' = [ask EXCEPT !.todo = @ \ {i}]
  /\ Quiet

Report ==
  /\ ask.pc = "detail" /\ ask.todo = {}
  /\ ask' = [op |-> "claimed", pc |-> "done", rows |-> ask.rows, errors |-> ask.errors,
              verdicts |-> [i \in DOMAIN ask.rows |-> Judged(ask.rows[i].entry, ask.live[i])]]
  /\ Quiet /\ UNCHANGED unread

---------------------------------------------------------------------------
(* Others change the beads while they are read: their claims under a list,  *)
(* their links under a walk.                                                *)

Change == ask.pc \notin {"idle", "done"} /\ changes < MaxChanges /\ changes' = changes + 1

LastUpdate == CHOOSE n \in {entry[b].updated : b \in Node} : \A b \in Node : entry[b].updated <= n

SetClaim ==
  /\ Change /\ ask.op # "snapshot"
  /\ \E b \in Named, claim \in Claim :
       /\ claim # entry[b].claim
       /\ entry' = [entry EXCEPT ![b] = [@ EXCEPT !.claim = claim, !.updated = LastUpdate + 1]]
       /\ was' = [was EXCEPT ![b] = @ \union {claim}]
  /\ UNCHANGED <<links, ask, graphs, unread>>

Relink ==
  /\ Change /\ ask.op = "snapshot"
  /\ \E new \in Links :
       /\ new # links /\ links' = new
       /\ graphs' = graphs \union {new}
  /\ UNCHANGED <<entry, ask, was, unread>>

ReadStep ==
  \/ FallBack
  \/ \E part \in ToSet(Part) : LoadPart(part) \/ LoadFails(part)
  \/ Full \/ Visit \/ PassOver \/ NextLevel
  \/ SweepSql \/ SweepBd \/ Merge \/ Detail \/ Report

RetrievalNext == AskSnapshot \/ AskPhrase \/ AskActivity \/ AskClaimed \/ ReadStep \/ SetClaim \/ Relink

RetrievalSpec == RetrievalInit /\ [][RetrievalNext]_retrievalVars

---------------------------------------------------------------------------
RetrievalTypeOK ==
  /\ \A b \in Node : /\ entry[b].claim \in Claim /\ entry[b].age \in Age
                     /\ {entry[b].holder, entry[b].labelled} \subseteq BOOLEAN /\ entry[b].updated \in Nat
                     /\ links[b] \in Seq(Node) /\ was[b] \subseteq Claim
  /\ ask.op \in {"none", "snapshot", "search", "activity", "claimed"}
  /\ ask.pc \in {"idle", "level", "sweep", "merge", "detail", "done"}
  /\ ask.op \in {"activity", "claimed"} /\ ask.pc \in {"detail", "done"} => Len(ask.rows) <= Limit
  /\ changes \in 0 .. MaxChanges /\ unread \in 0 .. MaxUnread

\* The beads within n steps of the root by way of beads whose links could be
\* read, whichever of the graphs that there were each part was read from.
Reach[n \in Nat] ==
  IF n = 0 THEN {ask.root}
  ELSE Reach[n - 1] \union UNION {LeadsTo(graphs, b) : b \in Reach[n - 1] \ (Missing \union ask.lost)}

\* A snapshot lists a bead once and no more than the cap; one that is not
\* marked truncated lists every bead it could reach, no deeper than it is
\* (walkGraph), also when it was begun over SQL and made again by the CLI.
SnapshotIsWhole ==
  ask.op = "snapshot" =>
    LET nodes == ToSet(ask.nodes)
    IN /\ Len(ask.nodes) <= ask.cap
       /\ \A m, n \in nodes : m.id = n.id => m = n
       /\ Cardinality(nodes) = Len(ask.nodes)
       /\ (ask.pc = "done" /\ ~ask.truncated) =>
            \A d \in 0 .. MaxDepth : \A b \in Reach[d] \ (Missing \union ask.lost) :
              \E n \in nodes : n.id = b /\ n.depth <= d

\* A claim reads completed or abandoned only if the bead was closed or released
\* while it was read: never for its age, nor for silence (classifyClaim).
VerdictHasEvidence ==
  (ask.op = "claimed" /\ ask.pc = "done") =>
    \A i \in DOMAIN ask.rows :
      LET seen == was[ask.rows[i].id]
      IN /\ ask.verdicts[i] \in Judgement
         /\ ask.verdicts[i] = "completed" => "closed" \in seen
         /\ ask.verdicts[i] = "abandoned" => "released" \in seen

\* A bead that nobody touched and that is not among the activity shown is older
\* than all of it, unless its store is named among the errors (recentActivity).
NewestAreShown ==
  (ask.op = "activity" /\ ask.pc = "done") =>
    \A b \in Named :
      (/\ Cardinality(was[b]) = 1 /\ StoreOf[b] \notin ask.errors
       /\ \A i \in DOMAIN ask.rows : ask.rows[i].id # b)
      => /\ Len(ask.rows) = Limit
         /\ \A i \in DOMAIN ask.rows : ask.rows[i].entry.updated >= entry[b].updated

=============================================================================
