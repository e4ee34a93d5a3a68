----------------------------- MODULE ResumePages -----------------------------
(***************************************************************************)
(* The pages of the resume voice loop, served from memory while they are   *)
(* fetched again: mode and project pages and the roster (resume-cache.ts,   *)
(* routes/resume.ts), and bundles of beads (routes/beads.ts).               *)
(*                                                                         *)
(* A page that is held is served at once, and fetched again behind the      *)
(* answer unless a mark says that this is under way; a fetch takes minutes, *)
(* during which the beads change and others ask.  The kinds of page differ  *)
(* in who sets the mark and who takes it away.                              *)
(***************************************************************************)
EXTENDS Integers, Sequences, SequencesExt, FiniteSets

CONSTANTS
  ModePage,      \* keys resume/mode
  ProjectPage,   \* keys resume/project/slug
  Roster,        \* the bead URLs of the resume
  Bundle,        \* the page of the roster's beads, or of a query's
  Readers,       \* the sets of pages readers may be after
  MaxVersion,    \* bound on the changes of the beads
  MaxWaiting,    \* bound on the requests that wait for one page
  MaxFresh,      \* bound on the requests for ?fresh=1
  MaxLost        \* bound on the fetches that fail and on restarts

VARIABLES
  asked,      \* the pages the readers are after, one of Readers
  version,    \* the beads: how often they changed
  held,       \* page -> [body, young], body being the version it shows
  marked,     \* inflight, rosterInflight and bundleWarming, whose keys differ
  fetches,    \* page -> the fetches under way
  freshAsked,
  lost

pageVars == <<asked, version, held, marked, fetches, freshAsked, lost>>

PageKey == ModePage \union ProjectPage \union {Roster, Bundle}
Unread == -1
Fetch(by) == [by |-> by, saw |-> Unread]

\* warmResume at the server's start: every mode page and the roster are fetched.
\* It marks the roster by a name of its own, which no request looks at.
Booted ==
  [marks |-> ModePage,
   fetches |-> [k \in PageKey |-> IF k \in ModePage \union {Roster} THEN <<Fetch("boot")>> ELSE << >>]]

PagesInit ==
  /\ asked \in Readers
  /\ version = 0 /\ held = << >> /\ freshAsked = 0 /\ lost = 0
  /\ marked = Booted.marks /\ fetches = Booted.fetches

---------------------------------------------------------------------------
Young(k) == k \in DOMAIN held /\ held[k].young

\* refreshFetch, refreshRoster or warmBundle's fetch, with nobody waiting:
\* unless it is marked as under way.
BehindMarks(k) == marked \union {k}
Behind(f, k) == IF k \in marked THEN f ELSE [f EXCEPT ![k] = Append(@, Fetch("behind"))]

\* A page that names the roster's beads has their bundle fetched ahead.
WarmBundle(f) == IF Young(Bundle) THEN f ELSE Behind(f, Bundle)
WarmMarks(m) == IF Young(Bundle) THEN m ELSE m \union {Bundle}

\* A page that is held is answered as it is; what it shows may be old.
Served(k) ==
  /\ k \in DOMAIN held
  /\ IF k = Bundle THEN Young(k) /\ UNCHANGED <<marked, fetches>>
     ELSE IF k = Roster
       THEN marked' = WarmMarks(BehindMarks(k)) /\ fetches' = WarmBundle(Behind(fetches, k))
       ELSE marked' = BehindMarks(k) /\ fetches' = Behind(fetches, k)
  /\ UNCHANGED <<asked, version, held, freshAsked, lost>>

\* Otherwise the answer waits for a fetch. Mode and project pages set the mark,
\* whoever else has set it; the roster and bundles do not.
Waiting(k) == {n \in DOMAIN fetches[k] : fetches[k][n].by = "answer"}
Waits(k) ==
  /\ Cardinality(Waiting(k)) < MaxWaiting
  /\ marked' = IF k \in ModePage \union ProjectPage THEN BehindMarks(k) ELSE marked
  /\ fetches' = [fetches EXCEPT ![k] = Append(@, Fetch("answer"))]

AskPage(k) ==
  \/ Served(k)
  \/ /\ IF k = Bundle THEN ~Young(k) ELSE k \notin DOMAIN held
     /\ Waits(k) /\ UNCHANGED <<asked, version, held, freshAsked, lost>>

AskFresh(k) ==
  /\ k # Bundle /\ freshAsked < MaxFresh /\ freshAsked' = freshAsked + 1
  /\ Waits(k) /\ UNCHANGED <<asked, version, held, lost>>

---------------------------------------------------------------------------
\* Fan-out over the beads.
Look(k) ==
  /\ \E n \in DOMAIN fetches[k] :
       fetches[k][n].saw = Unread /\ fetches' = [fetches EXCEPT ![k][n].saw = version]
  /\ UNCHANGED <<asked, version, held, marked, freshAsked, lost>>

\* Mutant: only a fetch that succeeds takes its mark away.
UnmarksOnSuccess(k, by, failed) ==
  ~failed /\ (by = "answer" => k \in ModePage \union {Roster})
\* Who takes the mark away: whoever fetched behind an answer, and the request
\* that waited for a mode page or for the roster, failed or not. The one that
\* waited for a project page leaves it; the boot's fetch of the roster takes
\* away the mark of others when it succeeds.
Unmarks(k, by, failed) ==
  \/ by = "behind"
  \/ by = "answer" /\ k \in ModePage \union {Roster}
  \/ by = "boot" /\ (k \in ModePage \/ ~failed)

Ended(k, n, failed) ==
  LET by == fetches[k][n].by
      rest == [fetches EXCEPT ![k] = RemoveAt(@, n)]
      left == IF Unmarks(k, by, failed) THEN marked \ {k} ELSE marked
      warms == k = Roster /\ by = "answer" /\ ~failed
  IN /\ fetches' = IF warms THEN WarmBundle(rest) ELSE rest
     /\ marked' = IF warms THEN WarmMarks(left) ELSE left

FetchDone(k) ==
  /\ \E n \in DOMAIN fetches[k] :
       /\ fetches[k][n].saw # Unread /\ Ended(k, n, FALSE)
       /\ held' = [j \in DOMAIN held \union {k} |->
                     IF j = k THEN [body |-> fetches[k][n].saw, young |-> TRUE] ELSE held[j]]
  /\ UNCHANGED <<asked, version, freshAsked, lost>>

\* What waits is answered with the page that is held, or 502, or without a roster.
FetchFails(k) ==
  /\ \E n \in DOMAIN fetches[k] : Ended(k, n, TRUE)
  /\ lost < MaxLost /\ lost' = lost + 1
  /\ UNCHANGED <<asked, version, held, freshAsked>>

\* 90 s pass. For the other pages this changes only the words of the stamp.
Ages ==
  /\ Young(Bundle) /\ held' = [held EXCEPT ![Bundle].young = FALSE]
  /\ UNCHANGED <<asked, version, marked, fetches, freshAsked, lost>>

BeadsChange ==
  /\ version < MaxVersion /\ version' = version + 1
  /\ UNCHANGED <<asked, held, marked, fetches, freshAsked, lost>>

ServerRestarts ==
  /\ lost < MaxLost /\ lost' = lost + 1
  /\ held' = << >> /\ marked' = Booted.marks /\ fetches' = Booted.fetches
  /\ UNCHANGED <<asked, version, freshAsked>>

\* Pages that nobody asks for stay as they are. No page has to do with another,
\* but for the roster with its bundle.
PagesNext ==
  \/ \E k \in asked : AskPage(k) \/ AskFresh(k) \/ Look(k) \/ FetchDone(k) \/ FetchFails(k)
  \/ Ages
  \/ BeadsChange \/ ServerRestarts

---------------------------------------------------------------------------
\* Pages are asked for again and again; fetches end, or are ended after 180 s.
PagesFairness ==
  /\ \A k \in PageKey : /\ WF_pageVars(k \in asked /\ AskPage(k)) /\ WF_pageVars(k \in asked /\ Look(k))
                        /\ WF_pageVars(k \in asked /\ FetchDone(k))
  /\ WF_pageVars(Ages)

IsCurrent(k) == k \in DOMAIN held /\ held[k].body = version

\* Whatever fetches failed, overlapped or ended in another order, a page that is
\* asked for shows the beads as they are, in the end (resume-cache.ts:11-15:
\* "every hit serves the cache immediately while a background refresh keeps it
\* fresh"). Not stated of project pages, see AMarkIsAFetch.
EveryPageIsRefreshed == <>[](\A k \in asked \ ProjectPage : IsCurrent(k))

\* "stale — refresh running" is said of a page whose mark is set: then a fetch is
\* under way. It is not so for a project page that was waited for once: the mark
\* stays (routes/resume.ts:139), and the page is never fetched behind an answer
\* again.
AMarkIsAFetch == \A k \in marked : fetches[k] # << >>
=============================================================================
