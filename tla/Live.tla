-------------------------------- MODULE Live --------------------------------
(***************************************************************************)
(* The live activity page and its server half: the event ring and the      *)
(* server-sent-event fan-out (src/src/lib/activity.ts), the view every     *)
(* viewer shares (view-state.ts), the latest heartbeat                     *)
(* (heartbeat-latest.ts), the boot identity (build-id.ts), the /live       *)
(* routes (routes/activity.ts), and in the browser the script of the       *)
(* canonical page (routes/activity.ts) or of a variant (live-variants.ts). *)
(*                                                                         *)
(* The server is one process with everything in memory: a restart counts   *)
(* all three sequences from their start again.  A page holds one stream,   *)
(* frames of which arrive in order until it breaks, and GETs whose answers *)
(* arrive at any time, or never.  Pages meet only in the fan-out, at its   *)
(* cap: one page is modelled whole, the others by the sinks they take.     *)
(***************************************************************************)
EXTENDS Integers, Sequences, FiniteSets, SequencesExt, FiniteSetsExt

CONSTANTS
  Surface,        \* the page's script: "canonical" (/live) or "variant"
  MaxEvents,      \* ACTIVITY_MAX_EVENTS
  MaxSubscribers, \* MAX_SUBSCRIBERS
  ReplayLimit,    \* the stream's ?limit=
  PageCap,        \* events a page keeps
  Calls,          \* bound: events recorded by one process
  Beats,          \* bound: heartbeats composed by one process
  Boots,          \* bound: processes
  Breaks,         \* bound: streams broken while the server is up
  Others          \* bound: sinks other pages take

ASSUME LiveAssumption ==
  /\ Surface \subseteq {"canonical", "variant"}
  /\ MaxEvents \in Nat \ {0} /\ MaxSubscribers \in Nat \ {0} /\ PageCap \in Nat \ {0}
  /\ {ReplayLimit, Calls, Beats, Boots, Breaks, Others} \subseteq Nat

VARIABLES
  up,     \* is the server running
  boot,   \* BOOT_ID, in order of start
  ring,   \* the events kept, oldest first
  seq,    \* the last event's number
  view,   \* the shared view: its revision and the event it points at
  beat,   \* rev of the latest heartbeat, 0 before any
  sinks,  \* the sinks in the fan-out, oldest first: the page's and others'
  wire,   \* frames written to the page's stream and not yet handled
  answer, \* answers to the page's GETs still under way
  page,   \* the page
  breaks, \* streams broken so far
  others  \* sinks other pages took so far

vars == <<up, boot, ring, seq, view, beat, sinks, wire, answer, page, breaks, others>>
server == <<up, boot, ring, seq, view, beat>>

FirstView == [revision |-> 1, seq |-> 0]

\* A tab before its document is there; told is sessionStorage's live.reloadedFor.
Unloaded(surface, told) ==
  [phase |-> "loading", surface |-> surface, boot |-> 0, told |-> told, events |-> {}, selected |-> 0,
   view |-> FirstView, revision |-> 0, beat |-> 0, stream |-> "closed", polling |-> FALSE]

Init ==
  /\ up = TRUE /\ boot = 1
  /\ ring = <<>> /\ seq = 0 /\ view = FirstView /\ beat = 0
  /\ sinks = <<>> /\ wire = <<>> /\ answer = {}
  /\ page \in {Unloaded(s, 0) : s \in Surface}
  /\ breaks = 0 /\ others = 0

-----------------------------------------------------------------------------
(* Frames, and what the server answers.                                     *)

EventFrame(e) == [kind |-> "event", of |-> e]
ViewFrame(v) == [kind |-> "view", of |-> v]
BuildFrame == [kind |-> "build", of |-> boot]
BeatFrame(r) == [kind |-> "beat", of |-> r]

LastN(s, n) == SubSeq(s, Max({1, Len(s) - n + 1}), Len(s))

Delivered(frames) == wire \o IF Contains(sinks, "page") THEN frames ELSE <<>>

\* What a stream starts with; without the build a page never learns of the boot.
ReplayUnnamed ==
  [n \in DOMAIN LastN(ring, ReplayLimit) |-> EventFrame(LastN(ring, ReplayLimit)[n])]
    \o <<ViewFrame(view)>> \o IF beat = 0 THEN <<>> ELSE <<BeatFrame(beat)>>
Replay ==
  [n \in DOMAIN LastN(ring, ReplayLimit) |-> EventFrame(LastN(ring, ReplayLimit)[n])]
    \o <<ViewFrame(view), BuildFrame>> \o IF beat = 0 THEN <<>> ELSE <<BeatFrame(beat)>>

Response(kind) ==
  CASE kind = "view"   -> ViewFrame(view)
    [] kind = "config" -> BuildFrame
    [] kind = "beat"   -> BeatFrame(beat)
    [] kind = "recent" -> [kind |-> "recent", of |-> ring]

-----------------------------------------------------------------------------
(* The page's handlers: each maps a page to what it becomes.                *)

Canonical(pg) == pg.surface = "canonical"
Known(pg, e) == \E x \in pg.events : x.seq = e.seq
Oldest(events) == CHOOSE x \in events : \A y \in events : x.seq <= y.seq
Kept(events) == IF Cardinality(events) > PageCap THEN events \ {Oldest(events)} ELSE events

Ingested(events, e) ==
  IF \E x \in events : x.seq = e.seq THEN events ELSE Kept(events \union {e})

\* The canonical page follows what it ingests (auto-follow on, not paused).
OnEvent(pg, e) ==
  [pg EXCEPT !.events = Ingested(@, e),
             !.selected = IF Canonical(pg) /\ ~Known(pg, e) THEN e.seq ELSE @]

OnRecent(pg, s) ==
  LET full == FoldLeft(Ingested, pg.events, s)
  IN  [pg EXCEPT !.events = full,
                 !.selected = IF Canonical(pg) /\ full # pg.events THEN Max({e.seq : e \in full}) ELSE @]

\* A revision no higher than the highest seen is stale.
AppliedViewAny(pg, v) == [pg EXCEPT !.revision = v.revision, !.view = v]
AppliedView(pg, v) ==
  IF v.revision <= pg.revision THEN pg
  ELSE [pg EXCEPT !.revision = v.revision, !.view = v,
                  !.selected = IF Canonical(pg) /\ Known(pg, v) THEN v.seq ELSE @]

AppliedBeat(pg, r) == IF r <= pg.beat THEN pg ELSE [pg EXCEPT !.beat = r]

\* checkBuild: a boot other than the baked one resets the revisions and, once
\* per boot, reloads.
CheckedBuild(pg, b) ==
  IF b = pg.boot THEN pg
  ELSE IF pg.told = b THEN [pg EXCEPT !.revision = 0, !.beat = 0] ELSE Unloaded(pg.surface, b)

Handled(f) ==
  CASE f.kind = "event"  -> OnEvent(page, f.of)
    [] f.kind = "recent" -> OnRecent(page, f.of)
    [] f.kind = "view"   -> AppliedView(page, f.of)
    [] f.kind = "beat"   -> AppliedBeat(page, f.of)
    [] f.kind = "build"  -> CheckedBuild(page, f.of)

\* onerror.  The canonical page polls only when the browser gave the stream
\* up; a variant starts at the first error.
Errored(pg, stream) == [pg EXCEPT !.stream = stream, !.polling = @ \/ stream = "closed" \/ ~Canonical(pg)]

-----------------------------------------------------------------------------
(* The server.                                                              *)

\* recordEvent and setView: what the ring and the view become with an event.
Recorded(e) == LastN(Append(ring, e), MaxEvents)
Moved(e) == [revision |-> view.revision + 1, seq |-> e.seq]

\* A tool call completes, or its handler throws: its event is recorded and
\* pushed, and the view, which observes the ring, moves to it and is pushed too.
\* (Tools that are left out of the ring change nothing.)
RecordEvent ==
  LET e == [seq |-> seq + 1, boot |-> boot]
  IN  /\ up /\ seq < Calls
      /\ seq' = e.seq /\ ring' = Recorded(e) /\ view' = Moved(e)
      /\ wire' = Delivered(<<EventFrame(e), ViewFrame(Moved(e))>>)
      /\ UNCHANGED <<up, boot, beat, sinks, answer, page, breaks, others>>

RecordLatestHeartbeat ==
  /\ up /\ beat < Beats
  /\ beat' = beat + 1
  /\ wire' = Delivered(<<BeatFrame(beat + 1)>>)
  /\ UNCHANGED <<up, boot, ring, seq, view, sinks, answer, page, breaks, others>>

\* The process ends: streams and GETs break, and the page's script sees it.
Stop ==
  /\ up /\ boot < Boots
  /\ up' = FALSE
  /\ sinks' = <<>> /\ wire' = <<>> /\ answer' = {}
  /\ page' = IF page.stream = "open" THEN Errored(page, "connecting") ELSE page
  /\ UNCHANGED <<boot, ring, seq, view, beat, breaks, others>>

Start ==
  /\ ~up
  /\ up' = TRUE /\ boot' = boot + 1
  /\ ring' = <<>> /\ seq' = 0 /\ view' = FirstView /\ beat' = 0
  /\ UNCHANGED <<sinks, wire, answer, page, breaks, others>>

\* A sink is added, the oldest one dropped at the cap.
Subscribed(who) == Append(IF Len(sinks) >= MaxSubscribers THEN Tail(sinks) ELSE sinks, who)

OtherConnects ==
  /\ up /\ others < Others
  /\ others' = others + 1
  /\ sinks' = Subscribed("other")
  /\ UNCHANGED <<server, wire, answer, page, breaks>>

-----------------------------------------------------------------------------
(* The page.                                                                *)

Unsubscribed == SelectSeq(sinks, LAMBDA q : q # "page")

\* The document, the state baked into it, and the first GETs.
Load ==
  /\ up /\ page.phase = "loading"
  /\ LET baked == Canonical(page)
     IN  page' = [page EXCEPT !.phase = "shown", !.boot = boot, !.stream = "connecting",
                              !.revision = IF baked THEN view.revision ELSE 0,
                              !.view = IF baked THEN view ELSE FirstView,
                              !.beat = IF baked THEN beat ELSE 0]
  /\ answer' = {Response(k) : k \in {"view", "config", "beat"} \union IF Canonical(page) THEN {} ELSE {"recent"}}
  /\ UNCHANGED <<server, sinks, wire, breaks, others>>

\* GET /live/events.
Connect ==
  /\ up /\ page.stream = "connecting"
  /\ sinks' = Subscribed("page")
  /\ wire' = Replay
  /\ page' = [page EXCEPT !.stream = "open"]
  /\ UNCHANGED <<server, answer, breaks, others>>

\* Something else answers while the server is down: the browser gives up.
Refused ==
  /\ ~up /\ page.stream = "connecting"
  /\ page' = Errored(page, "closed")
  /\ UNCHANGED <<server, sinks, wire, answer, breaks, others>>

Break ==
  /\ breaks < Breaks /\ page.stream = "open"
  /\ breaks' = breaks + 1
  /\ page' = Errored(page, "connecting")
  /\ sinks' = Unsubscribed
  /\ wire' = <<>>
  /\ UNCHANGED <<server, answer, others>>

\* A handler ran, with these frames and answers left; a reload drops them and
\* the stream.
Becomes(pg, frames, answers) ==
  /\ page' = pg
  /\ IF pg.phase = "loading"
     THEN sinks' = Unsubscribed /\ wire' = <<>> /\ answer' = {}
     ELSE sinks' = sinks /\ wire' = frames /\ answer' = answers
  /\ UNCHANGED <<server, breaks, others>>

Frame == wire # <<>> /\ Becomes(Handled(Head(wire)), Tail(wire), answer)

Answer == \E a \in answer : Becomes(Handled(a), wire, answer \ {a})

\* The 3 s timer.  Bound: the answers to the last poll's GETs have arrived.
Poll ==
  /\ up /\ page.polling /\ page.phase = "shown" /\ answer = {}
  /\ answer' = {Response(k) : k \in {"view", "config", "recent"} \union IF Canonical(page) THEN {"beat"} ELSE {}}
  /\ UNCHANGED <<server, sinks, wire, page, breaks, others>>

Next ==
  \/ RecordEvent \/ RecordLatestHeartbeat \/ Stop \/ Start \/ OtherConnects
  \/ Load \/ Connect \/ Refused \/ Break \/ Frame \/ Answer \/ Poll

\* A stopped server is started again; what was sent arrives; the browser
\* connects again, its timer fires and somebody opens the tab.  Nothing makes
\* calls arrive.
Fairness ==
  /\ WF_vars(Start) /\ WF_vars(Load) /\ WF_vars(Connect)
  /\ WF_vars(Frame) /\ WF_vars(Answer) /\ WF_vars(Poll)

Spec == Init /\ [][Next]_vars /\ Fairness

-----------------------------------------------------------------------------
TypeOK ==
  /\ boot \in 1..Boots /\ seq \in 0..Calls /\ beat \in 0..Beats
  /\ Len(ring) <= MaxEvents /\ Len(sinks) <= MaxSubscribers
  /\ view.seq = seq
  /\ Contains(sinks, "page") => page.stream = "open"
  /\ Cardinality({e.seq : e \in page.events}) = Cardinality(page.events)
  /\ Cardinality(page.events) <= PageCap

\* A shown page never goes back to an earlier view or heartbeat of the process
\* that served it, whatever order the stream's frames and the answers to its
\* GETs arrive in, unless it has learned of a newer process.
NeverBackwards ==
  [][page.phase = "shown" /\ page'.phase = "shown" /\ page.boot = boot =>
       page'.view.revision >= page.view.revision /\ page'.beat >= page.beat]_vars

\* The fan-out dropped the page's sink at the cap.  The stream stays open and
\* its pings go on, so the page does not notice.
Evicted == page.stream = "open" /\ ~Contains(sinks, "page")

\* The page shows what the running process has: its view, its latest events,
\* its heartbeat, and nothing of an earlier process.  A variant whose stream is
\* gone polls, and its poll does not ask for the heartbeat.
Current ==
  /\ page.phase = "shown" /\ page.boot = boot
  /\ page.view = view
  /\ Range(LastN(ring, Min({ReplayLimit, PageCap}))) \subseteq page.events
  /\ \A e \in page.events : e.boot = boot
  /\ Canonical(page) => page.selected = seq
  /\ Canonical(page) \/ page.stream = "open" => page.beat = beat

\* Through restarts, lost streams, late answers and replays, a page whose sink
\* was not dropped at the cap ends up showing the running process' state
\* ("every viewer converges on the shared cursor", docs/live-activity.md:131).
PageCatchesUp == []<>(Current \/ Evicted)
=============================================================================
