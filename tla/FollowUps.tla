------------------------------ MODULE FollowUps ------------------------------
(***************************************************************************)
(* The follow-up bank of a resume (src/src/routes/query-followups.ts and   *)
(* routes/query/scope.ts): the bank records which beads are stale, a       *)
(* follow-up lists them anew and says what was resolved and what became    *)
(* stale since.  Both first look for the labels of the resume, which are   *)
(* kept for five minutes, and then list three stores at once; each listing *)
(* reads its store at a moment of its own, and may fail.                   *)
(* A stale bead is open, and neither confirmed nor verified; a bead that is *)
(* not stale may be open all the same, but for a task.                      *)
(***************************************************************************)
EXTENDS Integers, Sequences, FiniteSets, SequencesExt

CONSTANTS
  ListedIn,      \* store -> the beads it may hold, of the three that are listed
  ProjectOf,     \* bead -> its project label
  MaxLabels,     \* MAX_LABELS
  RowLimit,      \* the limit of 50 rows
  MaxStirs,      \* bound on the changes of beads and labels
  MaxAsked,      \* bound on the requests, which are named in the order they come
  MaxMissed      \* bound on the listings that fail, the labels' expiries and restarts

StaleStore == DOMAIN ListedIn
Item == UNION {ListedIn[s] : s \in StaleStore}
Label == {ProjectOf[x] : x \in Item}
Asker == 1 .. MaxAsked

VARIABLES
  past,      \* history: [stale, own, known] after every change, the last being now:
             \* the stale beads, and the labels of the resume's own beads and of others
  scope,     \* scopeLabelCache: the labels kept, or NotKept
  bank,      \* followupBase: the beads, and the moments they were read between
  asking,    \* the requests
  missed     \* counts what the last bound bounds

followVars == <<past, scope, bank, asking, missed>>

NotKept == {"nothing kept"}
NoBank == [at |-> 0, from |-> 0, beads |-> {}, labels |-> {}, whole |-> TRUE]
NotAsking == [kind |-> "none", step |-> "idle", labels |-> {},
         rows |-> << >>, from |-> 0, to |-> 0, whole |-> TRUE, resolved |-> {}, fresh |-> {}, base |-> NoBank]
Moment == Len(past)
Now == Last(past)

FollowInit ==
  /\ \E stale \in SUBSET Item, own \in SUBSET Label :
       past = <<[stale |-> stale, own |-> own, known |-> Label]>>
  /\ scope = NotKept /\ bank = NoBank
  /\ asking = [r \in Asker |-> NotAsking]
  /\ missed = 0

-----------------------------------------------------------------------------
(* discoverScopeLabels.                                                     *)

AskFollow(r, kind) ==
  /\ asking[r].step = "idle" /\ \A q \in 1 .. r - 1 : asking[q].step # "idle"
  /\ asking' = [asking EXCEPT ![r] =
       [NotAsking EXCEPT !.kind = kind, !.from = Moment,
                    !.step = IF scope = NotKept THEN "own" ELSE "list",
                    !.labels = IF scope = NotKept THEN {} ELSE scope]]
  /\ UNCHANGED <<past, scope, bank, missed>>

\* Those of its own first; which of a tier are cut goes by how often they occur,
\* which is left open.
Ranked(own, known) ==
  {labels \in SUBSET (own \union known) :
     /\ Cardinality(labels) <= MaxLabels
     /\ labels # own \union known => Cardinality(labels) = MaxLabels
     /\ own \subseteq labels \/ labels \subseteq own}

\* The labels of the resume's own beads, in two stores, a listing that fails being
\* one that is empty.
DiscoverOwn(r, fails) ==
  /\ asking[r].step = "own"
  /\ \E labels \in (IF fails THEN SUBSET Now.own ELSE {Now.own}) :
       asking' = [asking EXCEPT ![r].step = "known", ![r].labels = labels, ![r].whole = ~fails]
  /\ missed' = missed + (IF fails THEN 1 ELSE 0)
  /\ UNCHANGED <<past, scope, bank>>

\* Then those of the projects; what is found is kept, whatever failed.
DiscoverKnown(r, fails) ==
  /\ asking[r].step = "known"
  /\ \E labels \in Ranked(asking[r].labels, IF fails THEN {} ELSE Now.known) :
       /\ scope' = labels
       /\ asking' = [asking EXCEPT ![r].step = "list", ![r].labels = labels,
                                   ![r].whole = @ /\ ~fails]
  /\ missed' = missed + (IF fails THEN 1 ELSE 0)
  /\ UNCHANGED <<past, bank>>

-----------------------------------------------------------------------------
(* currentStale, and what the two routes make of it.                        *)

\* Without a label every bead of the store is listed.
InScope(labels, s) == {x \in ListedIn[s] : labels = {} \/ ProjectOf[x] \in labels}
RowsOf(s, labels) == InScope(labels, s) \cap Now.stale

\* Which beads that are confirmed or verified are still open is left open. A task
\* is stale for as long as it is open.
OpenAndSettled(s, labels) ==
  IF s = "task" THEN {{}} ELSE SUBSET (InScope(labels, s) \ Now.stale)
\* The first rows of a listing, in whatever order they are.
FirstRows(open) ==
  {rows \in SUBSET open :
     Cardinality(rows) = (IF Cardinality(open) <= RowLimit THEN Cardinality(open) ELSE RowLimit)}

\* The limit is on what is open; what is confirmed or verified is left out of that.
ListStore(r, s, fails) ==
  /\ asking[r].step = "list" /\ s \notin DOMAIN asking[r].rows
  /\ \E settled \in OpenAndSettled(s, asking[r].labels) :
       LET all == RowsOf(s, asking[r].labels)
       IN  \E listed \in (IF fails THEN {{}} ELSE FirstRows(all \union settled)) :
             asking' = [asking EXCEPT ![r].rows = [t \in {s} \union DOMAIN @ |->
                                                     IF t = s THEN listed \cap all ELSE @[t]],
                                      ![r].whole = @ /\ ~fails /\ listed \cap all = all]
  /\ missed' = missed + (IF fails THEN 1 ELSE 0)
  /\ UNCHANGED <<past, scope, bank>>

Listed(r) == asking[r].step = "list" /\ DOMAIN asking[r].rows = StaleStore
StaleNow(r) == UNION {asking[r].rows[s] : s \in StaleStore}

AnswerBank(r) ==
  /\ Listed(r) /\ asking[r].kind = "bank"
  /\ bank' = [at |-> Moment, from |-> asking[r].from, beads |-> StaleNow(r),
              labels |-> asking[r].labels, whole |-> asking[r].whole]
  /\ asking' = [asking EXCEPT ![r] = [NotAsking EXCEPT !.step = "answered"]]
  /\ UNCHANGED <<past, scope, missed>>

\* Without a bank the answer is the full state.
NewlyResolvedSwapped(base, now) == now \ base
NewlyResolved(base, now) == base \ now
NewlyStale(base, now) == now \ base

AnswerFollow(r) ==
  /\ Listed(r) /\ asking[r].kind = "follow-up"
  /\ asking' = [asking EXCEPT
       ![r].step = "answered", ![r].base = bank, ![r].to = Moment,
       ![r].resolved = IF bank = NoBank THEN {} ELSE NewlyResolved(bank.beads, StaleNow(r)),
       ![r].fresh = IF bank = NoBank THEN {} ELSE NewlyStale(bank.beads, StaleNow(r))]
  /\ UNCHANGED <<past, scope, bank, missed>>

-----------------------------------------------------------------------------
(* The world: beads are confirmed and new ones come, labels change, the     *)
(* labels are too old to be used, the process restarts.                     *)

Stir ==
  /\ Moment <= MaxStirs
  /\ \/ \E x \in Item : past' = Append(past, [Now EXCEPT !.stale = SymDiff(@, {x})])
     \/ \E l \in Label : past' = Append(past, [Now EXCEPT !.own = SymDiff(@, {l})])
  /\ UNCHANGED <<scope, bank, asking, missed>>

LabelsExpire ==
  /\ scope # NotKept /\ missed < MaxMissed
  /\ scope' = NotKept /\ missed' = missed + 1
  /\ UNCHANGED <<past, bank, asking>>

BankIsLost ==
  /\ missed < MaxMissed /\ \A r \in Asker : asking[r].step \in {"idle", "answered"}
  /\ scope' = NotKept /\ bank' = NoBank /\ missed' = missed + 1
  /\ UNCHANGED <<past, asking>>

FollowNext ==
  \/ \E r \in Asker :
       \/ \E kind \in {"bank", "follow-up"} : AskFollow(r, kind)
       \/ \E fails \in {FALSE} \union {missed < MaxMissed} :
            \/ DiscoverOwn(r, fails) \/ DiscoverKnown(r, fails)
            \/ \E s \in StaleStore : ListStore(r, s, fails)
       \/ AnswerBank(r) \/ AnswerFollow(r)
  \/ Stir \/ LabelsExpire \/ BankIsLost

FollowSpec == FollowInit /\ [][FollowNext]_followVars

-----------------------------------------------------------------------------
Stale(k, x) == x \in past[k].stale

\* "Every follow-up recomputes live and diffs" (query-followups.ts:2-3): what it
\* calls resolved was stale at some moment of the bank's reading and no longer
\* at a later one, up to the answer, and what it calls newly stale the other way
\* round, and it leaves out nothing that was so all along; if all the listings
\* are whole and go by the same labels, and the bank is older than its reading.
ReportIsTrue ==
  \A r \in Asker :
    LET a == asking[r]
        b == a.base
        Before == b.from .. b.at
        After(k) == {n \in a.from .. a.to : k <= n}
    IN  a.step = "answered" /\ b # NoBank /\ a.whole /\ b.whole
          /\ a.labels = b.labels /\ b.at <= a.from =>
          /\ \A x \in a.resolved : \E k \in Before : Stale(k, x) /\ \E n \in After(k) : ~Stale(n, x)
          /\ \A x \in a.fresh : \E k \in Before : ~Stale(k, x) /\ \E n \in After(k) : Stale(n, x)
          /\ \A x \in UNION {InScope(a.labels, s) : s \in StaleStore} :
               /\ (\A k \in Before : Stale(k, x)) /\ (\A n \in a.from .. a.to : ~Stale(n, x))
                    => x \in a.resolved
               /\ (\A k \in Before : ~Stale(k, x)) /\ (\A n \in a.from .. a.to : Stale(n, x))
                    => x \in a.fresh
=============================================================================
