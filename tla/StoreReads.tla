------------------------------ MODULE StoreReads ------------------------------
(***************************************************************************)
(* How the bridge reads a list of beads from a store: routes/query/store.ts *)
(* (runListQuery), lib/query-order.ts (order, bounds, keyset cursor),       *)
(* lib/sql-beads.ts (sqlListSweep), lib/sql.ts (cool-down, fallback),       *)
(* lib/exec.ts and lib/store-health.ts (the guard before a store's CLI).    *)
(*                                                                         *)
(* One client walks the pages of one list of one store, keeping the cursor *)
(* it was given, while writes change the store.  Each page is read over    *)
(* SQL, statement by statement, and from the CLI (bd) when a statement     *)
(* fails.  The CLI may point at the wrong copy of the store; the guard     *)
(* asks it and remembers the verdict for a while.  A bead is a number,     *)
(* which is also its place in the order of the ids.                        *)
(***************************************************************************)
EXTENDS Integers, Sequences, SequencesExt, FiniteSets, Ordered

CONSTANTS
  Bead,        \* ids, naturals
  Busy,        \* the beads that others write
  Rows,        \* the store's possible contents at the start
  Request,     \* the lists asked for: [feed, by, desc, all, bounds, limit]
  TtlOk,       \* TTL_OK_MS
  TtlBad,      \* TTL_BAD_MS
  ProbeTime,   \* WHERE_TIMEOUT_MS
  CoolDown,    \* DOWN_COOLDOWN_MS
  ScopeTtl,    \* SCOPE_TTL_MS
  MaxTime,     \* bound on the clock
  MaxWrites,   \* bound on the writes to the store
  MaxFaults,   \* bound on what goes wrong, of any kind
  MaxPages     \* bound on the pages of a walk

Absent == [pri |-> -1, created_at |-> 0, updated_at |-> 0, open |-> FALSE]
Status == {"ok", "no-database", "local-shadow", "unreachable"}

\* BLOCKING_STATUSES and SILENT_WRONG: what no write, and no read, may reach.
\* fallback-local and misrouted are treated as local-shadow is everywhere,
\* unknown as unreachable is.
Blocking == {"no-database", "local-shadow"}
SilentWrong == {"local-shadow"}

Columns == {"priority", "created_at", "updated_at", "id"}
Unbounded == [created_after |-> -1, created_before |-> MaxTime + 1,
              updated_after |-> -1, updated_before |-> MaxTime + 1]

Bounds == [created_after : Int, created_before : Int, updated_after : Int, updated_before : Int]

ASSUME StoreReadsAssumption ==
  /\ Bead \subseteq Nat \ {0} /\ Busy \subseteq Bead /\ IsFiniteSet(Bead)
  /\ Rows \subseteq [Bead -> [pri : Int, created_at : Int, updated_at : Int, open : BOOLEAN]]
  /\ Request \subseteq [feed : BOOLEAN, by : Columns \union {""}, desc : {"", "true", "false"},
                        all : BOOLEAN, bounds : Bounds, limit : Nat \ {0}]
  /\ {TtlOk, TtlBad, ProbeTime, CoolDown, ScopeTtl} \subseteq Nat \ {0}
  /\ {MaxTime, MaxWrites, MaxFaults, MaxPages} \subseteq Nat
  /\ TtlBad <= TtlOk    \* 5 and 30 seconds

VARIABLES
  now,        \* Date.now()
  row,        \* the store
  cli,        \* where the store's CLI points
  safe,       \* when the CLI was last fit for reads, and for writes
  cache,      \* the probe cache's entry for the store
  downUntil,  \* no statement is tried before
  memo,       \* customStatusProbe: what it resolved to, for good
  custom,     \* does a store define custom statuses?
  scopeAt,    \* when the scope cache was filled
  call,       \* the list call being answered
  walk,       \* the client's side: its request, its cursor and what it was shown
  writes,     \* how many there were
  faults      \* how many there were

listVars == <<now, row, cli, safe, cache, downUntil, memo, custom, scopeAt, call, walk, writes, faults>>
store == <<row, walk>>
guard == <<cli, safe, cache>>
sql == <<downUntil, memo, custom, scopeAt>>
count == <<writes, faults>>

Long == -(TtlOk + TtlBad + ScopeTtl)   \* a time before everything
NoCursor == << >>
Idle == [pc |-> "idle", rows |-> << >>, asked |-> 0, heard |-> "ok"]
NoVerdict == [status |-> "ok", at |-> Long]

---------------------------------------------------------------------------
(* Order, cursor and bounds. *)

Asc(c) == [col |-> c, desc |-> FALSE]
Desc(c) == [col |-> c, desc |-> TRUE]
Legacy == <<Asc("priority"), Desc("created_at"), Asc("id")>>
StatusFeed == <<Desc("updated_at"), Asc("priority"), Asc("id")>>

\* The order of one list.  by = "" and desc = "" are options left out.
Order(req) ==
  LET default == IF req.feed THEN StatusFeed ELSE Legacy
      desc(d) == IF req.desc = "" THEN d ELSE req.desc = "true"
  IN CASE req.by = ""   -> [default EXCEPT ![1].desc = desc(@)]
       [] req.by = "id" -> <<[col |-> "id", desc |-> desc(FALSE)]>>
       [] OTHER         -> <<[col |-> req.by, desc |-> desc(req.by # "priority")], Asc("id")>>

Value(b, col) ==
  CASE col = "id" -> b
    [] col = "priority" -> row[b].pri
    [] col = "created_at" -> row[b].created_at
    [] OTHER -> row[b].updated_at

\* The sort values of a bead, which as the cursor name a place in the order.
CursorOf(b, cols) == [i \in DOMAIN cols |-> Value(b, cols[i].col)]

\* Does u come strictly after v in the order?  The first difference decides.
After(u, cols, v) ==
  \E i \in DOMAIN cols :
    /\ IF cols[i].desc THEN u[i] < v[i] ELSE u[i] > v[i]
    /\ \A j \in 1 .. i - 1 : u[j] = v[j]

Sorted(S, cols) ==
  SortedBy(S, {p \in S \X S : After(CursorOf(p[2], cols), cols, CursorOf(p[1], cols))})

InBounds(b, bounds) ==
  /\ bounds.created_after < row[b].created_at /\ row[b].created_at < bounds.created_before
  /\ bounds.updated_after < row[b].updated_at /\ row[b].updated_at < bounds.updated_before

\* What the filters of the list let through.
Matching(req) ==
  {b \in Bead : row[b] # Absent /\ (req.all \/ row[b].open) /\ InBounds(b, req.bounds)}

---------------------------------------------------------------------------
(* The two ways to read a page; each is asked for one row too many. *)

Cut(rows, n) == SubSeq(rows, 1, IF Len(rows) < n THEN Len(rows) ELSE n)

\* Mutant: no row too many, by which to tell that there is a next page.
AsReadExactly(req, beads) ==
  [i \in 1 .. Len(Cut(beads, req.limit)) |-> [bead |-> beads[i], vals |-> CursorOf(beads[i], Order(req))]]

\* Rows as they are read: a bead and its sort values at that moment.
AsRead(req, beads) ==
  [i \in 1 .. Len(Cut(beads, req.limit + 1)) |->
     [bead |-> beads[i], vals |-> CursorOf(beads[i], Order(req))]]

SqlRows(req, cursor) ==
  LET cols == Order(req)
      from == {b \in Matching(req) : cursor = NoCursor \/ After(CursorOf(b, cols), cols, cursor)}
  IN AsRead(req, Sorted(from, cols))

\* bd sorts by one column, ids breaking ties, unless the order is its default.
BdColumns(cols) == IF cols = Legacy \/ Len(cols) = 1 THEN cols ELSE <<cols[1], Asc("id")>>

\* A timestamp cursor becomes one of bd's exclusive bounds, the tighter one;
\* no other cursor reaches bd.
BdBounds(req, cursor) ==
  LET c == Order(req)[1]
  IN IF cursor = NoCursor \/ c.col \notin {"created_at", "updated_at"}
     THEN req.bounds
     ELSE LET low == IF c.col = "created_at" THEN "created_after" ELSE "updated_after"
              high == IF c.col = "created_at" THEN "created_before" ELSE "updated_before"
          IN IF c.desc
             THEN [req.bounds EXCEPT ![high] = IF cursor[1] < @ THEN cursor[1] ELSE @]
             ELSE [req.bounds EXCEPT ![low] = IF cursor[1] > @ THEN cursor[1] ELSE @]

BdRows(req, cursor) ==
  LET beads == Matching([req EXCEPT !.bounds = BdBounds(req, cursor)])
  IN AsRead(req, Sorted(beads, BdColumns(Order(req))))

\* The page the client is given of the rows read, and the cursor with it.
Page(req, cursor, rows) ==
  LET past == PickedAt(rows, {i \in DOMAIN rows :
                                cursor = NoCursor \/ After(rows[i].vals, Order(req), cursor)})
      page == Cut(past, req.limit)
  IN [beads |-> [i \in DOMAIN page |-> page[i].bead],
      next  |-> IF Len(past) > req.limit THEN page[Len(page)].vals ELSE NoCursor]

---------------------------------------------------------------------------
ListInit ==
  /\ now = 1
  /\ row \in Rows
  /\ cli = "ok" /\ safe = [read |-> 1, write |-> 1]
  /\ cache = NoVerdict
  /\ downUntil = 0 /\ memo = "unasked" /\ scopeAt = Long
  /\ custom = FALSE
  /\ call = Idle
  /\ \E req \in Request :
       walk = [req |-> req, cursor |-> NoCursor, seen |-> << >>, pages |-> 0, more |-> TRUE,
               viaBd |-> FALSE, steady |-> Matching(req)]
  /\ writes = 0 /\ faults = 0

\* The client asks for the first page, or hands back the cursor it was given.
Ask ==
  /\ call.pc = "idle" /\ walk.more /\ walk.pages < MaxPages
  /\ call' = [Idle EXCEPT !.pc = "probe"]
  /\ UNCHANGED <<now, store, guard, sql, count>>

\* One of the things that go wrong, at most MaxFaults in all.
Fault == faults < MaxFaults /\ faults' = faults + 1 /\ UNCHANGED writes

\* A statement is refused while cooling down.
Cooling == now < downUntil
ScopeFresh == now - scopeAt < ScopeTtl

\* Does the next step of the call issue a statement?
Queries ==
  \/ call.pc = "probe" /\ (memo = "unasked" \/ (memo = "none" /\ ~ScopeFresh))
  \/ call.pc = "select"
  \/ call.pc = "hydrate" /\ call.rows # << >>

\* The custom-status probe, asked once, and the scope, for a minute.
Prepare ==
  /\ call.pc = "probe"
  /\ Queries => ~Cooling
  /\ memo' = IF memo = "unasked" THEN IF custom THEN "some" ELSE "none" ELSE memo
  /\ IF memo' = "some"
     THEN /\ call' = [call EXCEPT !.pc = "guard"]
          /\ UNCHANGED scopeAt
     ELSE /\ call' = [call EXCEPT !.pc = "select"]
          /\ scopeAt' = IF ScopeFresh THEN scopeAt ELSE now
  /\ UNCHANGED <<now, store, guard, downUntil, custom, count>>

Select ==
  /\ call.pc = "select" /\ ~Cooling
  /\ call' = [call EXCEPT !.pc = "hydrate",
                          !.rows = SqlRows(walk.req, walk.cursor)]
  /\ UNCHANGED <<now, store, guard, sql, count>>

\* What the client makes of an answer: a page, and whether there is another.
Shown(page, viaBd) ==
  walk' = [walk EXCEPT !.seen = @ \o page.beads, !.pages = @ + 1, !.cursor = page.next,
                       !.more = page.next # NoCursor, !.viaBd = @ \/ viaBd]

\* Labels and comment counts of the chosen rows, then the answer.
Hydrate ==
  /\ call.pc = "hydrate" /\ (Queries => ~Cooling)
  /\ Shown(Page(walk.req, walk.cursor, call.rows), FALSE)
  /\ call' = Idle
  /\ UNCHANGED <<now, row, guard, sql, count>>

\* A statement fails: when the connection did, none is tried for a while.
SqlFails ==
  /\ Queries /\ ~Cooling /\ Fault
  /\ \E connection \in BOOLEAN :
       downUntil' = IF connection THEN now + CoolDown ELSE downUntil
  /\ call' = [call EXCEPT !.pc = "guard"]
  /\ memo' \in {memo, IF call.pc = "probe" /\ memo = "unasked" /\ ~custom THEN "none" ELSE memo}
  /\ UNCHANGED <<now, store, guard, custom, scopeAt>>

SqlCooling ==
  /\ Queries /\ Cooling
  /\ call' = [call EXCEPT !.pc = "guard"]
  /\ UNCHANGED <<now, store, guard, sql, count>>

---------------------------------------------------------------------------
(* The CLI and its guard. *)

\* Mutant: a verdict is good to the end of its time, and not just before.
FreshToo(v) == now - v.at <= (IF v.status = "ok" THEN TtlOk ELSE TtlBad)

Fresh(v) == now - v.at < (IF v.status = "ok" THEN TtlOk ELSE TtlBad)

\* A read with an error in it: no rows, and the client asks again.
Errs == call' = Idle

PassesTo(status) == IF status \in SilentWrong THEN Errs ELSE call' = [call EXCEPT !.pc = "bd"]

GuardHit ==
  /\ call.pc = "guard" /\ Fresh(cache)
  /\ PassesTo(cache.status)
  /\ UNCHANGED <<now, store, guard, sql, count>>

\* `<store> where` is spawned and answers for where the CLI points now.
ProbeStarts ==
  /\ call.pc = "guard" /\ ~Fresh(cache)
  /\ call' = [call EXCEPT !.pc = "probing", !.asked = now, !.heard = cli]
  /\ UNCHANGED <<now, store, guard, sql, count>>

Verdict(status, at) == [status |-> status, at |-> at]

\* The verdict is stamped when the answer arrives; other probes may have
\* written theirs in the meantime.
ProbeEnds ==
  /\ call.pc = "probing"
  /\ cache' = Verdict(call.heard, now)
  /\ PassesTo(call.heard)
  /\ UNCHANGED <<now, store, cli, safe, sql, count>>

\* No answer proves nothing against the CLI, and passes for one that is fit.
ProbeTimesOut ==
  /\ call.pc = "probing" /\ now - call.asked >= ProbeTime
  /\ cache' = Verdict("unreachable", now)
  /\ safe' = [read |-> now, write |-> now]
  /\ PassesTo("unreachable")
  /\ UNCHANGED <<now, store, cli, sql, count>>

\* The copy a CLI falls back to has nothing in it here.
BdLists ==
  /\ call.pc = "bd" /\ cli \in {"ok", "local-shadow"}
  /\ LET rows == IF cli = "ok" THEN BdRows(walk.req, walk.cursor) ELSE << >>
     IN Shown(Page(walk.req, walk.cursor, rows), TRUE)
  /\ call' = Idle
  /\ UNCHANGED <<now, row, guard, sql, count>>

BdFails ==
  /\ call.pc = "bd"
  /\ IF cli = "ok" THEN Fault ELSE UNCHANGED count
  /\ Errs
  /\ UNCHANGED <<now, store, guard, sql>>

---------------------------------------------------------------------------
(* Everything else that happens to the store. *)

\* What the guard of a synchronous mutation goes by: its own probe, if the
\* cache has none, and its write are one step of the process.
GuardedSync(status) ==
  IF Fresh(cache)
  THEN status = cache.status /\ UNCHANGED <<cache, safe>>
  ELSE /\ status \in {cli, "unreachable"}
       /\ cache' = Verdict(status, now)
       /\ safe' = IF status = "unreachable" THEN [read |-> now, write |-> now] ELSE safe

Write(b, new) ==
  /\ writes < MaxWrites /\ writes' = writes + 1
  /\ \E status \in Status \ Blocking : GuardedSync(status)
  /\ row' = [row EXCEPT ![b] = new]
  /\ walk' = [walk EXCEPT !.steady = @ \ {b}]
  /\ UNCHANGED <<now, cli, sql, call, faults>>

Create ==
  \E b \in Busy, pri \in 1 .. 2 :
    /\ row[b] = Absent
    /\ Write(b, [pri |-> pri, created_at |-> now, updated_at |-> now, open |-> TRUE])

Update ==
  \E b \in Busy, pri \in 1 .. 2, open \in BOOLEAN :
    /\ row[b] # Absent
    /\ Write(b, [row[b] EXCEPT !.pri = pri, !.open = open, !.updated_at = now])

WriteRefused ==
  /\ \E status \in Blocking : GuardedSync(status)
  /\ UNCHANGED <<now, store, cli, sql, call, count>>

Fit(status, at) ==
  [read  |-> IF status \in SilentWrong THEN safe.read ELSE at,
   write |-> IF status \in Blocking THEN safe.write ELSE at]

\* The CLI comes to point elsewhere.
Flip ==
  /\ Fault
  /\ cli' \in Status \ {cli}
  /\ safe' = Fit(cli', now)
  /\ UNCHANGED <<now, store, cache, sql, call>>

\* Some store comes to define custom statuses.
Configure ==
  /\ ~custom /\ Fault
  /\ custom' = TRUE
  /\ UNCHANGED <<now, store, guard, downUntil, memo, scopeAt, call>>

\* Every cache is lost, and the call; the client keeps its cursor.
RestartReads ==
  /\ Fault
  /\ cache' = NoVerdict
  /\ downUntil' = 0 /\ memo' = "unasked" /\ scopeAt' = Long
  /\ call' = Idle
  /\ UNCHANGED <<now, store, cli, safe, custom>>

Tick ==
  /\ now < MaxTime
  /\ call.pc = "probing" => now - call.asked < ProbeTime
  /\ now' = now + 1
  /\ safe' = Fit(cli, now + 1)
  /\ UNCHANGED <<store, cli, cache, sql, call, count>>

CallStep ==
  \/ Prepare \/ Select \/ Hydrate \/ SqlFails \/ SqlCooling
  \/ GuardHit \/ ProbeStarts \/ ProbeEnds \/ ProbeTimesOut \/ BdLists \/ BdFails

ListNext ==
  \/ Ask \/ CallStep
  \/ Create \/ Update \/ WriteRefused \/ Flip \/ Configure \/ RestartReads \/ Tick

ListSpec == ListInit /\ [][ListNext]_listVars

---------------------------------------------------------------------------
ListTypeOK ==
  /\ now \in 1 .. MaxTime
  /\ row \in [Bead -> [pri : -1 .. 2, created_at : 0 .. MaxTime, updated_at : 0 .. MaxTime,
                       open : BOOLEAN]]
  /\ {cli, cache.status, call.heard} \subseteq Status
  /\ call.pc \in {"idle", "probe", "select", "hydrate", "guard", "probing", "bd"}
  /\ Len(call.rows) <= walk.req.limit + 1 /\ memo \in {"unasked", "none", "some"}
  /\ walk.steady \subseteq Bead /\ ToSet(walk.seen) \subseteq Bead
  /\ walk.cursor # NoCursor => Len(walk.cursor) = Len(Order(walk.req))

TimesSeen(b) == Cardinality({i \in DOMAIN walk.seen : walk.seen[i] = b})

\* Walking the pages over SQL, a bead that nobody writes is shown once,
\* whatever is created, moved or closed around it and however many share its
\* sort value (the keyset cursor, query-order.ts).
EachShownOnce ==
  ~walk.viaBd =>
    \A b \in walk.steady : TimesSeen(b) <= 1 /\ (~walk.more => TimesSeen(b) = 1)

\* "SQL can change a tool's speed, never its answer" (docs/sql-reads.md): a
\* walk shows such a bead also when some page came from the CLI.
NoneMissed == ~walk.more => \A b \in walk.steady : TimesSeen(b) >= 1

\* A write, or a read by the CLI, goes ahead only if the CLI was fit for it a
\* short while ago: the age of a verdict plus the time a probe may take
\* (store-health.ts).
GuardIsRecent ==
  [][/\ row' # row => now - safe'.write < TtlOk + ProbeTime
     /\ (call.pc # "bd" /\ call'.pc = "bd") => now - safe'.read < TtlOk + ProbeTime]_listVars

=============================================================================
