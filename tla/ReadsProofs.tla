----------------------------- MODULE ReadsProofs -----------------------------
(***************************************************************************)
(* What the reads promise, for any store: a list walked by its cursors      *)
(* shows no row twice, and a page of the CLI's list is not read on a guess; *)
(* a snapshot that is not cut short is whole, activity leaves out nothing   *)
(* newer than it shows, and a claim is judged on what happened to it.       *)
(* What is kept for later reads: what the operator told is there until they *)
(* take it back, whoami shows the note of paused work, and the pages of a   *)
(* bead's comments join.                                                    *)
(***************************************************************************)
EXTENDS StoreReads, Retrieval, OperatorDocument, Scratchpad, Ordered, SequenceTheorems,
        FiniteSetTheorems, FunctionTheorems, WellFoundedInduction, TLAPS

---------------------------------------------------------------------------
(* Ordered: sorting, and picking by place.                                  *)

\* A strict order on a set, in which any two elements are one before the other.
Orders(S, order) ==
  /\ \A x \in S : <<x, x>> \notin order
  /\ \A x, y, z \in S : <<x, y>> \in order /\ <<y, z>> \in order => <<x, z>> \in order
  /\ \A x, y \in S : x # y => <<x, y>> \in order \/ <<y, x>> \in order

\* A set is sorted into a sequence that has each of its elements, once, in order.
LEMMA SortedIs ==
  ASSUME NEW S, IsFiniteSet(S), NEW order, Orders(S, order)
  PROVE  /\ Cardinality(S) \in Nat
         /\ SortedBy(S, order) \in [1 .. Cardinality(S) -> S]
         /\ \A i, j \in 1 .. Cardinality(S) :
              i < j => <<SortedBy(S, order)[i], SortedBy(S, order)[j]>> \in order
         /\ \A x \in S : \E k \in 1 .. Cardinality(S) : SortedBy(S, order)[k] = x
         /\ \A k \in 1 .. Cardinality(S) : Cardinality({y \in S : <<y, SortedBy(S, order)[k]>> \in order}) = k - 1
  <1> DEFINE n == Cardinality(S)
             Below(x) == {y \in S : <<y, x>> \in order}
             rank == [x \in S |-> Cardinality(Below(x))]
             s == SortedBy(S, order)
  <1>1. n \in Nat BY FS_CardinalityType
  <1>2. ASSUME NEW x \in S PROVE IsFiniteSet(Below(x)) /\ Cardinality(Below(x)) \in Nat /\ Cardinality(Below(x)) < n
    <2>1. Below(x) \in SUBSET S OBVIOUS
    <2>2. Below(x) # S BY DEF Orders
    <2>3. IsFiniteSet(Below(x)) /\ Cardinality(Below(x)) <= n /\ (n = Cardinality(Below(x)) => S = Below(x))
      <3> HIDE DEF Below
      <3> QED BY <2>1, FS_Subset
    <2>4. Cardinality(Below(x)) \in Nat BY <2>3, FS_CardinalityType
    <2> QED BY <1>1, <2>2, <2>3, <2>4
  <1>3. ASSUME NEW x \in S, NEW y \in S, <<x, y>> \in order PROVE rank[x] < rank[y]
    <2>1. Below(x) \in SUBSET Below(y) BY <1>3 DEF Orders
    <2>2. x \in Below(y) /\ x \notin Below(x) BY <1>3 DEF Orders
    <2>3. Cardinality(Below(x)) <= Cardinality(Below(y))
          /\ (Cardinality(Below(y)) = Cardinality(Below(x)) => Below(y) = Below(x))
      <3>1. IsFiniteSet(Below(y)) BY <1>2
      <3> HIDE DEF Below
      <3> QED BY <2>1, <3>1, FS_Subset
    <2>4. Cardinality(Below(x)) \in Nat /\ Cardinality(Below(y)) \in Nat BY <1>2
    <2>5. Below(x) # Below(y) BY <2>2
    <2>6. rank[x] = Cardinality(Below(x)) /\ rank[y] = Cardinality(Below(y)) OBVIOUS
    <2> HIDE DEF Below, rank
    <2> QED BY <2>3, <2>4, <2>5, <2>6
  <1>4. rank \in Injection(S, 0 .. n - 1)
    <2>1. rank \in [S -> 0 .. n - 1]
      <3>1. \A x \in S : Cardinality(Below(x)) \in 0 .. n - 1 BY <1>1, <1>2
      <3> QED BY <3>1
    <2>2. \A x \in S : rank[x] \in Nat BY <1>2
    <2>3. ASSUME NEW x \in S, NEW y \in S, rank[x] = rank[y] PROVE x = y
      <3> HIDE DEF rank
      <3>1. CASE <<x, y>> \in order
        <4>1. rank[x] < rank[y] BY <1>3, <3>1
        <4> QED BY <2>2, <2>3, <4>1
      <3>2. CASE <<y, x>> \in order
        <4>1. rank[y] < rank[x] BY <1>3, <3>2
        <4> QED BY <2>2, <2>3, <4>1
      <3> QED BY <3>1, <3>2 DEF Orders
    <2> HIDE DEF rank
    <2> QED BY <2>1, <2>3 DEF Injection, IsInjective
  <1>5. rank \in Surjection(S, 0 .. n - 1)
    <2>1. IsFiniteSet(0 .. n - 1) /\ Cardinality(0 .. n - 1) = n BY <1>1, FS_Interval
    <2> HIDE DEF rank
    <2> QED BY <1>4, <2>1, FS_Injection
  <1>6. \A r \in 0 .. n - 1 : \E x \in S : rank[x] = r
    <2> HIDE DEF rank
    <2> QED BY <1>5 DEF Surjection
  <1>7. ASSUME NEW k \in 1 .. n PROVE s[k] \in S /\ rank[s[k]] = k - 1
    <2>1. s[k] = CHOOSE x \in S : Cardinality(Below(x)) = k - 1 BY DEF SortedBy
    <2>2. k - 1 \in 0 .. n - 1 BY <1>1
    <2>3. \E x \in S : Cardinality(Below(x)) = k - 1 BY <1>6, <2>2
    <2>4. s[k] \in S /\ Cardinality(Below(s[k])) = k - 1
      <3> HIDE DEF s, Below
      <3> QED BY <2>1, <2>3
    <2> QED BY <2>4
  <1>8. s \in [1 .. n -> S]
    <2> DEFINE place(k) == CHOOSE x \in S : Cardinality(Below(x)) = k - 1
    <2>1. s = [k \in 1 .. n |-> place(k)] BY DEF SortedBy
    <2> HIDE DEF s, place
    <2>2. \A k \in 1 .. n : place(k) \in S BY <1>7, <2>1
    <2> QED BY <2>1, <2>2
  <1>9. ASSUME NEW i \in 1 .. n, NEW j \in 1 .. n, i < j PROVE <<s[i], s[j]>> \in order
    <2> HIDE DEF s, rank
    <2>1. s[i] \in S /\ s[j] \in S /\ rank[s[i]] = i - 1 /\ rank[s[j]] = j - 1 BY <1>7
    <2>2. s[i] # s[j] BY <1>1, <1>9, <2>1
    <2>3. <<s[j], s[i]>> \notin order
      <3> SUFFICES ASSUME <<s[j], s[i]>> \in order PROVE FALSE OBVIOUS
      <3>1. rank[s[j]] < rank[s[i]] BY <1>3, <2>1
      <3> QED BY <1>1, <1>9, <2>1, <3>1
    <2> QED BY <2>1, <2>2, <2>3 DEF Orders
  <1>10. ASSUME NEW x \in S PROVE \E k \in 1 .. n : s[k] = x
    <2>1. rank[x] \in 0 .. n - 1 BY <1>1, <1>2
    <2> HIDE DEF s, rank
    <2>2. rank[x] + 1 \in 1 .. n BY <1>1, <2>1
    <2>3. s[rank[x] + 1] \in S /\ rank[s[rank[x] + 1]] = rank[x] BY <1>1, <1>7, <2>1, <2>2
    <2>4. s[rank[x] + 1] = x BY <1>4, <2>3 DEF Injection, IsInjective
    <2> QED BY <2>2, <2>4
  <1>11. \A k \in 1 .. n : Cardinality({y \in S : <<y, s[k]>> \in order}) = k - 1
    <2> TAKE k \in 1 .. n
    <2>1. s[k] \in S /\ rank[s[k]] = k - 1 BY <1>7
    <2>2. \A x \in S : rank[x] = Cardinality({y \in S : <<y, x>> \in order}) OBVIOUS
    <2> HIDE DEF s, rank
    <2> QED BY <2>1, <2>2
  <1> QED BY <1>1, <1>8, <1>9, <1>10, <1>11

LEMMA SortedHas ==
  ASSUME NEW S, IsFiniteSet(S), NEW order, Orders(S, order)
  PROVE  /\ Cardinality(S) \in Nat
         /\ SortedBy(S, order) \in [1 .. Cardinality(S) -> S]
         /\ \A i, j \in 1 .. Cardinality(S) :
              i < j => <<SortedBy(S, order)[i], SortedBy(S, order)[j]>> \in order
         /\ \A x \in S : \E k \in 1 .. Cardinality(S) : SortedBy(S, order)[k] = x
  <1>1. Cardinality(S) \in Nat BY FS_CardinalityType
  <1>2. SortedBy(S, order) \in [1 .. Cardinality(S) -> S] BY SortedIs
  <1>3. \A i, j \in 1 .. Cardinality(S) :
          i < j => <<SortedBy(S, order)[i], SortedBy(S, order)[j]>> \in order
    BY SortedIs
  <1>4. \A x \in S : \E k \in 1 .. Cardinality(S) : SortedBy(S, order)[k] = x BY SortedIs
  <1> QED BY <1>1, <1>2, <1>3, <1>4

\* What comes before the k-th is fewer than k.
LEMMA LeadersFit ==
  ASSUME NEW S, IsFiniteSet(S), NEW order, Orders(S, order), NEW k \in 1 .. Cardinality(S),
         NEW T \in SUBSET S, \A t \in T : <<t, SortedBy(S, order)[k]>> \in order
  PROVE  IsFiniteSet(T) /\ Cardinality(T) \in Nat /\ Cardinality(T) <= k - 1
  <1> DEFINE below == {y \in S : <<y, SortedBy(S, order)[k]>> \in order}
  <1>1. Cardinality(below) = k - 1 /\ Cardinality(S) \in Nat BY SortedIs
  <1>2. below \in SUBSET S /\ T \in SUBSET below OBVIOUS
  <1> HIDE DEF below
  <1>3. IsFiniteSet(below) BY <1>2, FS_Subset
  <1>4. IsFiniteSet(T) /\ Cardinality(T) <= Cardinality(below) BY <1>2, <1>3, FS_Subset
  <1> QED BY <1>1, <1>4, FS_CardinalityType

Rising(S) == {p \in S \X S : p[1] < p[2]}

LEMMA RisingOrders ==
  ASSUME NEW S, S \subseteq Int PROVE Orders(S, Rising(S))
  BY DEF Orders, Rising

\* Numbers in their order.
LEMMA AscendingIs ==
  ASSUME NEW S, S \subseteq Int, IsFiniteSet(S)
  PROVE  /\ Cardinality(S) \in Nat
         /\ Ascending(S) \in [1 .. Cardinality(S) -> S]
         /\ \A i, j \in 1 .. Cardinality(S) : i < j => Ascending(S)[i] < Ascending(S)[j]
         /\ \A x \in S : \E k \in 1 .. Cardinality(S) : Ascending(S)[k] = x
  <1>1. Ascending(S) = SortedBy(S, Rising(S)) BY DEF Ascending, Rising
  <1>2. /\ Cardinality(S) \in Nat
        /\ Ascending(S) \in [1 .. Cardinality(S) -> S]
        /\ \A i, j \in 1 .. Cardinality(S) : i < j => <<Ascending(S)[i], Ascending(S)[j]>> \in Rising(S)
        /\ \A x \in S : \E k \in 1 .. Cardinality(S) : Ascending(S)[k] = x
    <2> DEFINE order == Rising(S)
    <2>1. Orders(S, order) BY RisingOrders
    <2>2. Ascending(S) = SortedBy(S, order) BY <1>1
    <2> HIDE DEF order
    <2>3. Cardinality(S) \in Nat BY FS_CardinalityType
    <2>4. SortedBy(S, order) \in [1 .. Cardinality(S) -> S] BY <2>1, SortedHas
    <2>5. \A i, j \in 1 .. Cardinality(S) :
            i < j => <<SortedBy(S, order)[i], SortedBy(S, order)[j]>> \in order
      BY <2>1, SortedHas
    <2>6. \A x \in S : \E k \in 1 .. Cardinality(S) : SortedBy(S, order)[k] = x BY <2>1, SortedHas
    <2> QED BY <2>2, <2>3, <2>4, <2>5, <2>6 DEF order
  <1> QED BY <1>2 DEF Rising

\* An interval from 1 on is its own order.
LEMMA AscendingInterval ==
  ASSUME NEW n \in Nat PROVE Ascending(1 .. n) = [k \in 1 .. n |-> k]
  <1> DEFINE S == 1 .. n
             below(x) == {y \in S : <<y, x>> \in Rising(S)}
  <1>1. IsFiniteSet(S) /\ Cardinality(S) = n BY FS_Interval
  <1>2. \A x \in S : Cardinality(below(x)) = x - 1
    <2> TAKE x \in S
    <2>1. below(x) = 1 .. x - 1 BY DEF Rising
    <2>2. x - 1 \in Int /\ 1 \in Int OBVIOUS
    <2>3. Cardinality(1 .. x - 1) = IF 1 > x - 1 THEN 0 ELSE (x - 1) - 1 + 1 BY <2>2, FS_Interval
    <2> HIDE DEF below
    <2> QED BY <2>1, <2>3
  <1>3. Ascending(S) = [k \in 1 .. n |-> CHOOSE x \in S : Cardinality(below(x)) = k - 1]
    BY <1>1 DEF Ascending, SortedBy, Rising
  <1>4. \A k \in 1 .. n : (CHOOSE x \in S : Cardinality(below(x)) = k - 1) = k
    <2> TAKE k \in 1 .. n
    <2> HIDE DEF below
    <2>1. \A x \in S : Cardinality(below(x)) = k - 1 <=> x = k BY <1>2
    <2> QED BY <2>1
  <1> QED BY <1>3, <1>4

\* Picking keeps the order and takes each place once.
LEMMA PickedIs ==
  ASSUME NEW s, NEW places, places \subseteq DOMAIN s, IsFiniteSet(places), places \subseteq Int
  PROVE  /\ Cardinality(places) \in Nat
         /\ PickedAt(s, places) = [k \in 1 .. Cardinality(places) |-> s[Ascending(places)[k]]]
         /\ \A k \in 1 .. Cardinality(places) : \E i \in places : PickedAt(s, places)[k] = s[i]
         /\ \A i \in places : \E k \in 1 .. Cardinality(places) : PickedAt(s, places)[k] = s[i]
  BY AscendingIs DEF PickedAt

\* Picking every place gives the list itself.
LEMMA PickedAll ==
  ASSUME NEW T, NEW s \in Seq(T) PROVE PickedAt(s, 1 .. Len(s)) = s
  <1>1. Len(s) \in Nat /\ 1 \in Int OBVIOUS
  <1>2. Cardinality(1 .. Len(s)) = Len(s)
    <2>1. Cardinality(1 .. Len(s)) = IF 1 > Len(s) THEN 0 ELSE Len(s) - 1 + 1 BY <1>1, FS_Interval
    <2> QED BY <1>1, <2>1
  <1>3. Ascending(1 .. Len(s)) = [k \in 1 .. Len(s) |-> k] BY <1>1, AscendingInterval
  <1>4. PickedAt(s, 1 .. Len(s)) = [k \in 1 .. Len(s) |-> s[k]]
    BY <1>2, <1>3 DEF PickedAt
  <1> QED BY <1>4

---------------------------------------------------------------------------

(* StoreReads: how long ago the CLI was fit, told from what the guard knows *)
(* of it.                                                                   *)

\* at is when the CLI was last fit for what the statuses in bad rule out.
FitAt(bad, at) ==
  /\ at \in Nat /\ at <= now
  /\ cli \notin bad => at = now
  /\ call.pc = "probing" /\ call.heard \notin bad => call.asked <= at
  /\ cache.status \notin bad => cache.at - at <= ProbeTime

CallShape == call = [pc |-> call.pc, rows |-> call.rows, asked |-> call.asked, heard |-> call.heard]

ListInv ==
  /\ now \in Nat /\ cache.at \in Int /\ call.asked \in Nat /\ CallShape
  /\ safe = [read |-> safe.read, write |-> safe.write]
  /\ call.pc = "probing" => now - call.asked <= ProbeTime
  /\ FitAt(SilentWrong, safe.read) /\ FitAt(Blocking, safe.write)

Times == {TtlOk, TtlBad, ProbeTime} \subseteq Nat \ {0} /\ TtlBad <= TtlOk
LEMMA TimesAre == Times BY StoreReadsAssumption DEF Times

\* The stamp of what never happened.
LEMMA LongAgo == Long \in Int /\ Long <= 0
  <1>1. {TtlOk, TtlBad, ProbeTime, CoolDown, ScopeTtl} \subseteq Nat \ {0} BY StoreReadsAssumption
  <1>2. TtlOk \in Nat /\ TtlBad \in Nat /\ ScopeTtl \in Nat BY <1>1
  <1> QED BY <1>2 DEF Long

\* What the property says of a step, in which the store is written, or the CLI
\* comes to be read.
Written == row' # row => now - safe'.write < TtlOk + ProbeTime
ListsByCli == call.pc # "bd" /\ call'.pc = "bd" => now - safe'.read < TtlOk + ProbeTime

\* A verdict that is fresh is of a CLI that was fit.
LEMMA FreshIsRecent ==
  ASSUME ListInv, Fresh(cache)
  PROVE  /\ cache.status \notin SilentWrong => now - safe.read < TtlOk + ProbeTime
         /\ cache.status \notin Blocking => now - safe.write < TtlOk + ProbeTime
  BY TimesAre DEF ListInv, Fresh, FitAt, Times

\* The call goes on and asks nothing.
LEMMA CallGoesOn ==
  ASSUME ListInv, UNCHANGED <<now, row, cli, safe, cache>>, CallShape', call'.asked \in Nat,
         call'.pc # "probing", ListsByCli
  PROVE  ListInv' /\ Written /\ ListsByCli
  BY DEF ListInv, FitAt, Written

\* The record of a call that rests, or that begins.
LEMMA AtRest ==
  /\ Idle = [pc |-> "idle", rows |-> << >>, asked |-> 0, heard |-> "ok"]
  /\ [Idle EXCEPT !.pc = "probe"] = [pc |-> "probe", rows |-> << >>, asked |-> 0, heard |-> "ok"]
  BY DEF Idle

\* A call goes on without touching cache or probe.
LEMMA CallSteps ==
  ASSUME ListInv, UNCHANGED <<now, row, cli, safe, cache>>,
         \/ call' = Idle \/ call' = [Idle EXCEPT !.pc = "probe"]
         \/ \E pc \in {"guard", "select"} : call' = [call EXCEPT !.pc = pc]
         \/ \E rows : call' = [call EXCEPT !.pc = "hydrate", !.rows = rows]
  PROVE  ListInv' /\ Written /\ ListsByCli
  <1>1. CallShape /\ call.asked \in Nat BY DEF ListInv
  <1>2. CASE call' = Idle \/ call' = [Idle EXCEPT !.pc = "probe"]
    <2>1. PICK pc \in {"idle", "probe"} : call' = [pc |-> pc, rows |-> << >>, asked |-> 0, heard |-> "ok"]
      BY <1>2, AtRest
    <2>3. CallShape' /\ call'.asked \in Nat /\ call'.pc # "probing" /\ call'.pc # "bd" BY <2>1 DEF CallShape
    <2> QED BY <2>3, CallGoesOn DEF ListsByCli
  <1>3. ASSUME NEW pc \in {"guard", "select"}, call' = [call EXCEPT !.pc = pc] PROVE ListInv' /\ Written /\ ListsByCli
    <2>1. CallShape' /\ call'.asked = call.asked /\ call'.pc = pc BY <1>1, <1>3 DEF CallShape
    <2> QED BY <1>1, <2>1, CallGoesOn DEF ListsByCli
  <1>4. ASSUME NEW rows, call' = [call EXCEPT !.pc = "hydrate", !.rows = rows] PROVE ListInv' /\ Written /\ ListsByCli
    <2>1. CallShape' /\ call'.asked = call.asked /\ call'.pc = "hydrate" BY <1>1, <1>4 DEF CallShape
    <2> QED BY <1>1, <2>1, CallGoesOn DEF ListsByCli
  <1> QED BY <1>2, <1>3, <1>4

\* A verdict lets the call go on to the CLI, or ends it.
LEMMA Passed ==
  ASSUME CallShape, call.asked \in Nat, NEW status, PassesTo(status)
  PROVE  /\ CallShape' /\ call'.asked \in Nat /\ call'.pc # "probing"
         /\ call'.pc = "bd" => status \notin SilentWrong
  <1>1. CASE status \in SilentWrong
    <2>1. call' = Idle BY <1>1 DEF PassesTo, Errs
    <2> QED BY <2>1 DEF CallShape, Idle
  <1>2. CASE status \notin SilentWrong
    <2>1. call' = [call EXCEPT !.pc = "bd"] BY <1>2 DEF PassesTo
    <2> QED BY <1>2, <2>1 DEF CallShape
  <1> QED BY <1>1, <1>2

LEMMA GuardHitKeeps == ASSUME ListInv, GuardHit PROVE ListInv' /\ Written /\ ListsByCli
  <1>1. PassesTo(cache.status) /\ Fresh(cache) /\ UNCHANGED <<now, row, cli, safe, cache>>
    BY DEF GuardHit, store, guard
  <1>2. CallShape' /\ call'.asked \in Nat /\ call'.pc # "probing" /\ (call'.pc = "bd" => cache.status \notin SilentWrong)
    BY <1>1, Passed DEF ListInv
  <1>3. ListsByCli BY <1>1, <1>2, FreshIsRecent DEF ListsByCli
  <1> QED BY <1>1, <1>2, <1>3, CallGoesOn

LEMMA ProbeStartsKeeps == ASSUME ListInv, ProbeStarts PROVE ListInv' /\ Written /\ ListsByCli
  <1>1. call' = [call EXCEPT !.pc = "probing", !.asked = now, !.heard = cli] /\ UNCHANGED <<now, row, cli, safe, cache>>
    BY DEF ProbeStarts, store, guard
  <1>2. CallShape' /\ call'.asked = now /\ call'.pc = "probing" /\ call'.heard = cli BY <1>1 DEF ListInv, CallShape
  <1> QED BY <1>1, <1>2, TimesAre DEF ListInv, FitAt, Written, ListsByCli, Times

LEMMA ProbeEndsKeeps == ASSUME ListInv, ProbeEnds PROVE ListInv' /\ Written /\ ListsByCli
  <1>1. /\ call.pc = "probing" /\ cache' = Verdict(call.heard, now) /\ PassesTo(call.heard)
        /\ UNCHANGED <<now, row, cli, safe>>
    BY DEF ProbeEnds, store
  <1>2. CallShape' /\ call'.asked \in Nat /\ call'.pc # "probing" /\ (call'.pc = "bd" => call.heard \notin SilentWrong)
    BY <1>1, Passed DEF ListInv
  <1>3. cache'.status = call.heard /\ cache'.at = now BY <1>1 DEF Verdict
  <1>4. Written BY <1>1 DEF Written
  <1>5. ListsByCli BY <1>1, <1>2, TimesAre DEF ListsByCli, ListInv, FitAt, Times
  <1> QED BY <1>1, <1>2, <1>3, <1>4, <1>5, TimesAre DEF ListInv, FitAt, Times

LEMMA ProbeTimesOutKeeps == ASSUME ListInv, ProbeTimesOut PROVE ListInv' /\ Written /\ ListsByCli
  <1>1. /\ cache' = Verdict("unreachable", now) /\ PassesTo("unreachable") /\ safe' = [read |-> now, write |-> now]
        /\ UNCHANGED <<now, row, cli>>
    BY DEF ProbeTimesOut, store
  <1>2. CallShape' /\ call'.asked \in Nat /\ call'.pc # "probing" BY <1>1, Passed DEF ListInv
  <1>3. cache'.status = "unreachable" /\ cache'.at = now /\ safe'.read = now /\ safe'.write = now BY <1>1 DEF Verdict
  <1> QED BY <1>1, <1>2, <1>3, TimesAre DEF ListInv, FitAt, Times, Written, ListsByCli

\* The guard of a write.
LEMMA Synchronously ==
  ASSUME ListInv, NEW status, GuardedSync(status), UNCHANGED <<now, cli, call>>
  PROVE  ListInv' /\ ListsByCli /\ (status \notin Blocking => now - safe'.write < TtlOk + ProbeTime)
  <1>0. ListsByCli BY DEF ListsByCli
  <1>1. CASE Fresh(cache)
    <2>1. status = cache.status /\ UNCHANGED <<cache, safe>> BY <1>1 DEF GuardedSync
    <2>2. ListInv' BY <2>1 DEF ListInv, FitAt, CallShape
    <2> QED BY <1>0, <1>1, <2>1, <2>2, FreshIsRecent
  <1>2. CASE ~Fresh(cache)
    <2>1. /\ status \in {cli, "unreachable"} /\ cache' = Verdict(status, now)
          /\ safe' = IF status = "unreachable" THEN [read |-> now, write |-> now] ELSE safe
      BY <1>2 DEF GuardedSync
    <2>2. cache'.status = status /\ cache'.at = now BY <2>1 DEF Verdict
    <2>3. CASE status = "unreachable"
      <3>1. safe' = [read |-> now, write |-> now] /\ safe'.read = now /\ safe'.write = now BY <2>1, <2>3
      <3> QED BY <1>0, <2>2, <3>1, TimesAre DEF ListInv, FitAt, CallShape, Times
    <2>4. CASE status # "unreachable"
      <3>1. safe' = safe /\ status = cli BY <2>1, <2>4
      <3> QED BY <1>0, <2>2, <3>1, TimesAre DEF ListInv, FitAt, CallShape, Times
    <2> QED BY <2>3, <2>4
  <1> QED BY <1>1, <1>2

LEMMA WriteKeeps == ASSUME ListInv, NEW b, NEW new, Write(b, new) PROVE ListInv' /\ Written /\ ListsByCli
  <1>1. PICK status \in Status \ Blocking : GuardedSync(status) BY DEF Write
  <1>2. UNCHANGED <<now, cli, call>> BY DEF Write
  <1> QED BY <1>1, <1>2, Synchronously DEF Written

LEMMA FlipKeeps == ASSUME ListInv, Flip PROVE ListInv' /\ Written /\ ListsByCli
  <1>1. safe' = Fit(cli', now) /\ UNCHANGED <<now, row, cache, call>> BY DEF Flip, store
  <1>2. /\ safe'.read = (IF cli' \in SilentWrong THEN safe.read ELSE now)
        /\ safe'.write = (IF cli' \in Blocking THEN safe.write ELSE now)
        /\ safe' = [read |-> safe'.read, write |-> safe'.write]
    BY <1>1 DEF Fit
  <1>3. \A bad, at : FitAt(bad, at) =>
          \A new : new = (IF cli' \in bad THEN at ELSE now) =>
            /\ new \in Nat /\ new <= now
            /\ call.pc = "probing" /\ call.heard \notin bad => call.asked <= new
            /\ cache.status \notin bad => cache.at - new <= ProbeTime
    BY TimesAre DEF ListInv, FitAt, Times
  <1>4. FitAt(SilentWrong, safe.read)' /\ FitAt(Blocking, safe.write)' BY <1>1, <1>2, <1>3 DEF ListInv, FitAt
  <1> QED BY <1>1, <1>2, <1>4 DEF ListInv, CallShape, Written, ListsByCli

LEMMA TickKeeps == ASSUME ListInv, Tick PROVE ListInv' /\ Written /\ ListsByCli
  <1>1. /\ call.pc = "probing" => now - call.asked < ProbeTime
        /\ now' = now + 1 /\ safe' = Fit(cli, now + 1) /\ UNCHANGED <<row, cli, cache, call>>
    BY DEF Tick, store
  <1>2. /\ safe'.read = (IF cli \in SilentWrong THEN safe.read ELSE now + 1)
        /\ safe'.write = (IF cli \in Blocking THEN safe.write ELSE now + 1)
        /\ safe' = [read |-> safe'.read, write |-> safe'.write]
    BY <1>1 DEF Fit
  <1> QED BY <1>1, <1>2, TimesAre DEF ListInv, FitAt, CallShape, Written, ListsByCli, Times

LEMMA RestartReadsKeeps == ASSUME ListInv, RestartReads PROVE ListInv' /\ Written /\ ListsByCli
  <1>1. cache' = NoVerdict /\ call' = Idle /\ UNCHANGED <<now, row, cli, safe>> BY DEF RestartReads, store
  <1>2. cache'.at = Long /\ cache'.status = "ok" /\ Long \in Int /\ Long <= 0
    BY <1>1, LongAgo DEF NoVerdict
  <1>3. CallShape' /\ call'.asked = 0 /\ call'.pc = "idle" BY <1>1 DEF CallShape, Idle
  <1> QED BY <1>1, <1>2, <1>3, TimesAre DEF ListInv, FitAt, Written, ListsByCli, Times

LEMMA ListInvInit == ASSUME ListInit PROVE ListInv
  <1>1. now = 1 /\ cli = "ok" /\ safe = [read |-> 1, write |-> 1] /\ cache = NoVerdict /\ call = Idle BY DEF ListInit
  <1>2. cache.at = Long /\ cache.status = "ok" /\ Long \in Int /\ Long <= 0
    BY <1>1, LongAgo DEF NoVerdict
  <1>3. CallShape /\ call.asked = 0 /\ call.pc = "idle" BY <1>1 DEF CallShape, Idle
  <1> QED BY <1>1, <1>2, <1>3, TimesAre DEF ListInv, FitAt, Times

LEMMA ListInvStep == ASSUME ListInv, [ListNext]_listVars PROVE ListInv' /\ Written /\ ListsByCli
  <1>1. CASE UNCHANGED listVars
    BY <1>1 DEF listVars, ListInv, FitAt, CallShape, Written, ListsByCli
  <1>2. CASE Ask BY <1>2, CallSteps DEF Ask, store, guard
  <1>3. CASE Prepare BY <1>3, CallSteps DEF Prepare, store, guard
  <1>4. CASE Select BY <1>4, CallSteps DEF Select, store, guard
  <1>5. CASE Hydrate BY <1>5, CallSteps DEF Hydrate, guard
  <1>6. CASE SqlFails BY <1>6, CallSteps DEF SqlFails, store, guard
  <1>7. CASE SqlCooling BY <1>7, CallSteps DEF SqlCooling, store, guard
  <1>8. CASE GuardHit BY <1>8, GuardHitKeeps
  <1>9. CASE ProbeStarts BY <1>9, ProbeStartsKeeps
  <1>10. CASE ProbeEnds BY <1>10, ProbeEndsKeeps
  <1>11. CASE ProbeTimesOut BY <1>11, ProbeTimesOutKeeps
  <1>12. CASE BdLists BY <1>12, CallSteps DEF BdLists, guard
  <1>13. CASE BdFails BY <1>13, CallSteps DEF BdFails, Errs, store, guard
  <1>14. CASE Create BY <1>14, WriteKeeps DEF Create
  <1>15. CASE Update BY <1>15, WriteKeeps DEF Update
  <1>16. CASE WriteRefused
    <2>1. PICK status \in Blocking : GuardedSync(status) BY <1>16 DEF WriteRefused
    <2>2. UNCHANGED <<now, row, cli, call>> BY <1>16 DEF WriteRefused, store
    <2> QED BY <2>1, <2>2, Synchronously DEF Written
  <1>17. CASE Flip BY <1>17, FlipKeeps
  <1>18. CASE Configure BY <1>18 DEF Configure, store, guard, ListInv, FitAt, CallShape, Written, ListsByCli
  <1>19. CASE RestartReads BY <1>19, RestartReadsKeeps
  <1>20. CASE Tick BY <1>20, TickKeeps
  <1> QED
    BY <1>1, <1>2, <1>3, <1>4, <1>5, <1>6, <1>7, <1>8, <1>9, <1>10, <1>11, <1>12, <1>13, <1>14, <1>15,
       <1>16, <1>17, <1>18, <1>19, <1>20 DEF ListNext, CallStep

\* A write, and a read by the CLI, never goes ahead on a verdict that is older
\* than it may be, for any lifetimes of the verdicts and any length of a probe.
THEOREM GuardStaysRecent == ListSpec => GuardIsRecent
  <1>1. ListInit => ListInv BY ListInvInit
  <1>2. ListInv /\ [ListNext]_listVars => ListInv' BY ListInvStep
  <1>3. ListInv /\ [ListNext]_listVars =>
          [/\ row' # row => now - safe'.write < TtlOk + ProbeTime
           /\ (call.pc # "bd" /\ call'.pc = "bd") => now - safe'.read < TtlOk + ProbeTime]_listVars
    BY ListInvStep DEF Written, ListsByCli
  <1> QED BY <1>1, <1>2, <1>3, PTL DEF ListSpec, GuardIsRecent

---------------------------------------------------------------------------
(* StoreReads: the pages of a list.  A row is shown, or it is ahead of the  *)
(* cursor, or it was written while the list was walked (WalkInv); a page    *)
(* takes the first of those ahead and leaves the others behind its cursor.  *)

LEMMA BeadsAreNumbers == Bead \subseteq Nat /\ IsFiniteSet(Bead)
  BY StoreReadsAssumption

Row == [pri : Int, created_at : Int, updated_at : Int, open : BOOLEAN]
Column == [col : Columns, desc : BOOLEAN]
\* A list of sort columns: it ends in the id, so no two beads tie.
Sorting(cols) ==
  /\ cols \in Seq(Column) /\ Len(cols) \in 1 .. 3
  /\ cols[Len(cols)].col = "id"
Vec(cols) == [DOMAIN cols -> Int]

\* Every order a request can ask for sorts, and ends with the id.
LEMMA OrderSorts ==
  ASSUME NEW req \in Request PROVE Sorting(Order(req))
  <1>1. req.feed \in BOOLEAN /\ req.by \in Columns \union {""} /\ req.desc \in {"", "true", "false"}
    BY StoreReadsAssumption
  <1>a. ASSUME NEW x \in Column, x.col = "id" PROVE Sorting(<<x>>)
    BY <1>a DEF Sorting
  <1>b. ASSUME NEW x \in Column, NEW y \in Column, y.col = "id" PROVE Sorting(<<x, y>>)
    BY <1>b DEF Sorting
  <1>c. ASSUME NEW x \in Column, NEW y \in Column, NEW z \in Column, z.col = "id" PROVE Sorting(<<x, y, z>>)
    BY <1>c DEF Sorting
  <1>2. CASE req.by = ""
    <2>1. ASSUME NEW x \in Column, NEW y \in Column, NEW z \in Column, NEW d \in BOOLEAN, z.col = "id"
          PROVE  Sorting([<<x, y, z>> EXCEPT ![1].desc = d])
      <3>1. [<<x, y, z>> EXCEPT ![1].desc = d] = <<[x EXCEPT !.desc = d], y, z>> OBVIOUS
      <3>2. [x EXCEPT !.desc = d] \in Column BY DEF Column
      <3>3. Sorting(<<[x EXCEPT !.desc = d], y, z>>) BY <1>c, <2>1, <3>2
      <3> QED BY <3>1, <3>3
    <2>2. \A c \in Columns : Asc(c) \in Column /\ Desc(c) \in Column /\ Asc(c).col = c /\ Desc(c).col = c
      BY DEF Asc, Desc, Column
    <2>3. {"priority", "created_at", "updated_at", "id"} \subseteq Columns BY DEF Columns
    <2>4. CASE req.feed
      <3>1. PICK d \in BOOLEAN : Order(req) = [StatusFeed EXCEPT ![1].desc = d]
        BY <1>1, <1>2, <2>4 DEF Order, StatusFeed, Asc, Desc
      <3>2. Desc("updated_at") \in Column /\ Asc("priority") \in Column /\ Asc("id") \in Column /\ Asc("id").col = "id"
        BY <2>2, <2>3
      <3>3. Sorting([<<Desc("updated_at"), Asc("priority"), Asc("id")>> EXCEPT ![1].desc = d]) BY <2>1, <3>2
      <3> QED BY <3>1, <3>3 DEF StatusFeed
    <2>5. CASE ~req.feed
      <3>1. PICK d \in BOOLEAN : Order(req) = [Legacy EXCEPT ![1].desc = d]
        BY <1>1, <1>2, <2>5 DEF Order, Legacy, Asc, Desc
      <3>2. Asc("priority") \in Column /\ Desc("created_at") \in Column /\ Asc("id") \in Column /\ Asc("id").col = "id"
        BY <2>2, <2>3
      <3>3. Sorting([<<Asc("priority"), Desc("created_at"), Asc("id")>> EXCEPT ![1].desc = d]) BY <2>1, <3>2
      <3> QED BY <3>1, <3>3 DEF Legacy
    <2> QED BY <2>4, <2>5
  <1>3. CASE req.by = "id"
    <2>1. PICK d \in BOOLEAN : Order(req) = <<[col |-> "id", desc |-> d]>>
      BY <1>1, <1>3 DEF Order
    <2>2. [col |-> "id", desc |-> d] \in Column BY DEF Column, Columns
    <2>3. Sorting(<<[col |-> "id", desc |-> d]>>) BY <1>a, <2>2
    <2> QED BY <2>1, <2>3
  <1>4. CASE req.by \notin {"", "id"}
    <2>1. PICK d \in BOOLEAN : Order(req) = <<[col |-> req.by, desc |-> d], Asc("id")>>
      BY <1>1, <1>4 DEF Order
    <2>2. [col |-> req.by, desc |-> d] \in Column BY <1>1, <1>4 DEF Column
    <2>3. Asc("id") \in Column /\ Asc("id").col = "id" BY DEF Column, Columns, Asc
    <2>4. Sorting(<<[col |-> req.by, desc |-> d], Asc("id")>>) BY <1>b, <2>2, <2>3
    <2> QED BY <2>1, <2>4
  <1> QED BY <1>2, <1>3, <1>4

\* After, one column at a time.
Past(u, cols, v, i) == IF cols[i].desc THEN u[i] < v[i] ELSE u[i] > v[i]

\* After, for orders of one, two and three columns.
LEMMA AfterColumns ==
  ASSUME NEW cols, Sorting(cols), NEW u \in Vec(cols), NEW v \in Vec(cols)
  PROVE  /\ Len(cols) = 1 => (After(u, cols, v) <=> Past(u, cols, v, 1))
         /\ Len(cols) = 2 => (After(u, cols, v) <=> Past(u, cols, v, 1) \/ (u[1] = v[1] /\ Past(u, cols, v, 2)))
         /\ Len(cols) = 3 => (After(u, cols, v) <=>
              \/ Past(u, cols, v, 1)
              \/ u[1] = v[1] /\ Past(u, cols, v, 2)
              \/ u[1] = v[1] /\ u[2] = v[2] /\ Past(u, cols, v, 3))
  <1>1. DOMAIN cols = 1 .. Len(cols) BY DEF Sorting
  <1>2. After(u, cols, v) <=> \E i \in 1 .. Len(cols) : Past(u, cols, v, i) /\ \A j \in 1 .. i - 1 : u[j] = v[j]
    BY <1>1 DEF After, Past
  <1>3. Len(cols) = 1 => (1 .. Len(cols) = {1} /\ 1 .. 1 - 1 = {}) OBVIOUS
  <1>4. Len(cols) = 2 => (1 .. Len(cols) = {1, 2} /\ 1 .. 1 - 1 = {} /\ 1 .. 2 - 1 = {1}) OBVIOUS
  <1>5. Len(cols) = 3 => (1 .. Len(cols) = {1, 2, 3} /\ 1 .. 1 - 1 = {} /\ 1 .. 2 - 1 = {1} /\ 1 .. 3 - 1 = {1, 2})
    OBVIOUS
  <1> HIDE DEF After, Past
  <1>6. Len(cols) = 1 => (After(u, cols, v) <=> Past(u, cols, v, 1)) BY <1>2, <1>3
  <1>7. Len(cols) = 2 => (After(u, cols, v) <=> Past(u, cols, v, 1) \/ (u[1] = v[1] /\ Past(u, cols, v, 2)))
    BY <1>2, <1>4
  <1>8. Len(cols) = 3 => (After(u, cols, v) <=>
              \/ Past(u, cols, v, 1)
              \/ u[1] = v[1] /\ Past(u, cols, v, 2)
              \/ u[1] = v[1] /\ u[2] = v[2] /\ Past(u, cols, v, 3))
    BY <1>2, <1>5
  <1> QED BY <1>6, <1>7, <1>8

\* The columns are compared strictly, and never tie on beads that differ.
LEMMA AfterIsStrict ==
  ASSUME NEW cols, Sorting(cols)
  PROVE  /\ \A u \in Vec(cols) : ~After(u, cols, u)
         /\ \A u, v, w \in Vec(cols) : After(u, cols, v) /\ After(v, cols, w) => After(u, cols, w)
         /\ \A u, v \in Vec(cols) : u # v => After(u, cols, v) \/ After(v, cols, u)
  <1>0. DOMAIN cols = 1 .. Len(cols) /\ Len(cols) \in {1, 2, 3} BY DEF Sorting
  <1>1. ASSUME NEW u \in Vec(cols) PROVE ~After(u, cols, u)
    <2>1. \A i \in 1 .. Len(cols) : u[i] \in Int BY <1>0 DEF Vec
    <2>2. CASE Len(cols) = 1 BY <2>1, <2>2, AfterColumns DEF Past
    <2>3. CASE Len(cols) = 2 BY <2>1, <2>3, AfterColumns DEF Past
    <2>4. CASE Len(cols) = 3 BY <2>1, <2>4, AfterColumns DEF Past
    <2> QED BY <1>0, <2>2, <2>3, <2>4
  <1>2. ASSUME NEW u \in Vec(cols), NEW v \in Vec(cols), NEW w \in Vec(cols), After(u, cols, v), After(v, cols, w)
        PROVE After(u, cols, w)
    <2>1. \A i \in 1 .. Len(cols) : u[i] \in Int /\ v[i] \in Int /\ w[i] \in Int BY <1>0 DEF Vec
    <2>2. CASE Len(cols) = 1 BY <1>2, <2>1, <2>2, AfterColumns DEF Past
    <2>3. CASE Len(cols) = 2 BY <1>2, <2>1, <2>3, AfterColumns DEF Past
    <2>4. CASE Len(cols) = 3 BY <1>2, <2>1, <2>4, AfterColumns DEF Past
    <2> QED BY <1>0, <2>2, <2>3, <2>4
  <1>3. ASSUME NEW u \in Vec(cols), NEW v \in Vec(cols), ~After(u, cols, v), ~After(v, cols, u)
        PROVE u = v
    <2>1. \A i \in 1 .. Len(cols) : u[i] \in Int /\ v[i] \in Int BY <1>0 DEF Vec
    <2>2. \A i \in 1 .. Len(cols) : u[i] = v[i]
      <3>1. CASE Len(cols) = 1 BY <1>3, <2>1, <3>1, AfterColumns DEF Past
      <3>2. CASE Len(cols) = 2 BY <1>3, <2>1, <3>2, AfterColumns DEF Past
      <3>3. CASE Len(cols) = 3 BY <1>3, <2>1, <3>3, AfterColumns DEF Past
      <3> QED BY <1>0, <3>1, <3>2, <3>3
    <2> QED BY <1>0, <2>2 DEF Vec
  <1> QED BY <1>1, <1>2, <1>3

Stored == row \in [Bead -> Row]

\* A cursor has a value for each column, and tells the beads apart.
LEMMA CursorIs ==
  ASSUME Stored, NEW cols, Sorting(cols), NEW b \in Bead
  PROVE  CursorOf(b, cols) \in Vec(cols) /\ \A a \in Bead : CursorOf(a, cols) = CursorOf(b, cols) => a = b
  <1>1. ASSUME NEW a \in Bead, NEW i \in DOMAIN cols PROVE Value(a, cols[i].col) \in Int
    <2>1. cols[i].col \in Columns
      <3>1. cols \in Seq(Column) BY DEF Sorting
      <3>2. cols[i] \in Column BY <3>1, ElementOfSeq, LenProperties
      <3> QED BY <3>2 DEF Column
    <2>2. row[a] \in Row BY DEF Stored
    <2>3. a \in Int BY BeadsAreNumbers
    <2> QED BY <2>1, <2>2, <2>3 DEF Row, Value, Columns
  <1>2. ASSUME NEW a \in Bead PROVE CursorOf(a, cols) \in Vec(cols)
    BY <1>1 DEF CursorOf, Vec
  <1>3. Len(cols) \in DOMAIN cols
    <2>1. DOMAIN cols = 1 .. Len(cols) /\ Len(cols) \in 1 .. 3 BY DEF Sorting
    <2> QED BY <2>1
  <1>4. \A a \in Bead : CursorOf(a, cols)[Len(cols)] = a BY <1>3 DEF CursorOf, Value, Sorting
  <1> QED BY <1>2, <1>4

\* Sorted sorts.
LEMMA SortedRows ==
  ASSUME Stored, NEW cols, Sorting(cols), NEW S, S \subseteq Bead
  PROVE  /\ Cardinality(S) \in Nat
         /\ Sorted(S, cols) \in [1 .. Cardinality(S) -> S]
         /\ \A i, j \in 1 .. Cardinality(S) :
              i < j => After(CursorOf(Sorted(S, cols)[j], cols), cols, CursorOf(Sorted(S, cols)[i], cols))
         /\ \A x \in S : \E k \in 1 .. Cardinality(S) : Sorted(S, cols)[k] = x
  <1> DEFINE order == {p \in S \X S : After(CursorOf(p[2], cols), cols, CursorOf(p[1], cols))}
  <1>1. IsFiniteSet(S) BY FS_Subset, StoreReadsAssumption
  <1>2. \A x, y \in S : <<x, y>> \in order <=> After(CursorOf(y, cols), cols, CursorOf(x, cols)) OBVIOUS
  <1>3. Sorted(S, cols) = SortedBy(S, order) BY DEF Sorted
  <1>4. \A x \in S : CursorOf(x, cols) \in Vec(cols) BY CursorIs
  <1>5. \A x, y \in S : CursorOf(x, cols) = CursorOf(y, cols) => x = y BY CursorIs
  <1> HIDE DEF order
  <1>6. Orders(S, order) BY <1>2, <1>4, <1>5, AfterIsStrict DEF Orders
  <1>7. /\ Cardinality(S) \in Nat
        /\ SortedBy(S, order) \in [1 .. Cardinality(S) -> S]
        /\ \A i, j \in 1 .. Cardinality(S) : i < j => <<SortedBy(S, order)[i], SortedBy(S, order)[j]>> \in order
        /\ \A x \in S : \E k \in 1 .. Cardinality(S) : SortedBy(S, order)[k] = x
    BY <1>1, <1>6, SortedHas
  <1> QED BY <1>2, <1>3, <1>7

\* A place in the order is still to come to for the client.
Ahead(u, cols, cursor) == cursor = NoCursor \/ After(u, cols, cursor)

NotShown(seen, b) == \A i \in DOMAIN seen : seen[i] # b
ShownOnce(seen, b) == \E i \in DOMAIN seen : seen[i] = b /\ \A j \in DOMAIN seen : seen[j] = b => j = i

\* The rows read for a page are in order and ahead of the cursor, and a steady
\* bead that is ahead is one of them or behind them all, the page being full.
RowsRight(rows, w) ==
  LET cols == Order(w.req)
  IN /\ rows \in Seq([bead : Bead, vals : Vec(cols)])
     /\ Len(rows) <= w.req.limit + 1
     /\ \A i, j \in 1 .. Len(rows) : i < j => After(rows[j].vals, cols, rows[i].vals)
     /\ \A i \in 1 .. Len(rows) : Ahead(rows[i].vals, cols, w.cursor)
     /\ \A i \in 1 .. Len(rows) : rows[i].bead \in w.steady => rows[i].vals = CursorOf(rows[i].bead, cols)
     /\ \A b \in w.steady : Ahead(CursorOf(b, cols), cols, w.cursor) =>
          \/ \E i \in 1 .. Len(rows) : rows[i].bead = b
          \/ /\ Len(rows) = w.req.limit + 1
             /\ \A i \in 1 .. Len(rows) : After(CursorOf(b, cols), cols, rows[i].vals)

WalkRecord(w) ==
  /\ w = [req |-> w.req, cursor |-> w.cursor, seen |-> w.seen, pages |-> w.pages, more |-> w.more,
          viaBd |-> w.viaBd, steady |-> w.steady]
  /\ w.viaBd \in BOOLEAN /\ w.more \in BOOLEAN

WalkShape(w) ==
  /\ w.req \in Request /\ w.seen \in Seq(Bead)
  /\ w.cursor = NoCursor \/ w.cursor \in Vec(Order(w.req))
  /\ w.steady \subseteq Matching(w.req)

\* What is still to come was not shown yet, and what is passed was shown once.
Divided(w) ==
  LET cols == Order(w.req)
  IN \A b \in w.steady : IF w.more /\ Ahead(CursorOf(b, cols), cols, w.cursor)
                         THEN NotShown(w.seen, b) ELSE ShownOnce(w.seen, b)

CallRecord(c) == c = [pc |-> c.pc, rows |-> c.rows, asked |-> c.asked, heard |-> c.heard]

\* The invariant of a list that is walked by its cursors.
WalkInv ==
  /\ now \in Int /\ Stored /\ WalkRecord(walk) /\ CallRecord(call)
  /\ call.pc # "idle" => walk.more
  /\ ~walk.viaBd =>
       /\ WalkShape(walk)
       /\ call.pc = "hydrate" => RowsRight(call.rows, walk)
       /\ Divided(walk)

LEMMA RequestIs ==
  ASSUME NEW req \in Request PROVE req.limit \in Nat \ {0} /\ Sorting(Order(req))
  BY OrderSorts, StoreReadsAssumption

\* The rows read over SQL are the first ahead of the cursor.
LEMMA SqlRowsRight ==
  ASSUME Stored, WalkShape(walk) PROVE RowsRight(SqlRows(walk.req, walk.cursor), walk)
  <1> DEFINE req == walk.req
             cols == Order(req)
             from == {b \in Matching(req) : walk.cursor = NoCursor \/ After(CursorOf(b, cols), cols, walk.cursor)}
             beads == Sorted(from, cols)
             n == Cardinality(from)
             rows == AsRead(req, beads)
  <1>1. req \in Request /\ req.limit \in Nat \ {0} /\ Sorting(cols) BY RequestIs DEF WalkShape
  <1>2. from \subseteq Bead BY DEF Matching
  <1>3. /\ n \in Nat /\ beads \in [1 .. n -> from]
        /\ \A i, j \in 1 .. n : i < j => After(CursorOf(beads[j], cols), cols, CursorOf(beads[i], cols))
        /\ \A x \in from : \E k \in 1 .. n : beads[k] = x
    <2> HIDE DEF cols, from
    <2> QED BY <1>1, <1>2, SortedRows
  <1>4. beads \in Seq(Bead) /\ Len(beads) = n
    <2> HIDE DEF beads, from, n
    <2> QED BY <1>2, <1>3
  <1>5. \A b \in from : b \in Bead /\ CursorOf(b, cols) \in Vec(cols) /\ Ahead(CursorOf(b, cols), cols, walk.cursor)
    BY <1>1, <1>2, CursorIs DEF Ahead
  <1>6. \A b \in walk.steady : Ahead(CursorOf(b, cols), cols, walk.cursor) => b \in from
    BY DEF WalkShape, Ahead
  <1> DEFINE m == IF n < req.limit + 1 THEN n ELSE req.limit + 1
  <1>7. m \in Nat /\ m <= n /\ m <= req.limit + 1 /\ (m < n => m = req.limit + 1)
    <2> HIDE DEF n, req
    <2> QED BY <1>1, <1>3
  <1>8. Len(Cut(beads, req.limit + 1)) = m
    <2> HIDE DEF beads, n, req
    <2> QED BY <1>1, <1>3, <1>4, SubSeqProperties DEF Cut
  <1>9. rows = [i \in 1 .. m |-> [bead |-> beads[i], vals |-> CursorOf(beads[i], cols)]]
    BY <1>8 DEF AsRead
  <1>10. SqlRows(walk.req, walk.cursor) = rows BY DEF SqlRows
  <1> HIDE DEF rows, beads, from, n, m, cols, req
  <1>11. \A i \in 1 .. m : i \in 1 .. n /\ beads[i] \in from BY <1>3, <1>7
  <1>12. /\ rows \in Seq([bead : Bead, vals : Vec(cols)]) /\ Len(rows) = m
         /\ \A i \in 1 .. m : rows[i].bead = beads[i] /\ rows[i].vals = CursorOf(beads[i], cols)
    <2>1. \A i \in 1 .. m : [bead |-> beads[i], vals |-> CursorOf(beads[i], cols)] \in [bead : Bead, vals : Vec(cols)]
      BY <1>5, <1>11
    <2> DEFINE T == [bead : Bead, vals : Vec(cols)]
    <2>2. rows \in [1 .. m -> T] BY <1>9, <2>1
    <2> HIDE DEF T
    <2>3. rows \in Seq(T) /\ Len(rows) = m BY <1>7, <2>2
    <2>4. \A i \in 1 .. m : rows[i] = [bead |-> beads[i], vals |-> CursorOf(beads[i], cols)] BY <1>9
    <2> QED BY <2>3, <2>4 DEF T
  <1>13. \A i, j \in 1 .. m : i < j => After(rows[j].vals, cols, rows[i].vals)
    BY <1>3, <1>11, <1>12
  <1>14. \A i \in 1 .. m : Ahead(rows[i].vals, cols, walk.cursor) BY <1>5, <1>11, <1>12
  <1>15. ASSUME NEW b \in walk.steady, Ahead(CursorOf(b, cols), cols, walk.cursor)
         PROVE  \/ \E i \in 1 .. m : rows[i].bead = b
                \/ m = req.limit + 1 /\ \A i \in 1 .. m : After(CursorOf(b, cols), cols, rows[i].vals)
    <2>1. PICK k \in 1 .. n : beads[k] = b BY <1>3, <1>6, <1>15
    <2>2. CASE k \in 1 .. m BY <1>12, <2>1, <2>2
    <2>3. CASE k \notin 1 .. m
      <3>1. m < n /\ \A i \in 1 .. m : i < k BY <1>3, <1>7, <2>3
      <3>2. \A i \in 1 .. m : After(CursorOf(b, cols), cols, rows[i].vals) BY <1>3, <1>11, <1>12, <2>1, <3>1
      <3> QED BY <1>7, <3>1, <3>2
    <2> QED BY <2>2, <2>3
  <1>16. RowsRight(rows, walk) BY <1>7, <1>12, <1>13, <1>14, <1>15 DEF RowsRight, cols, req
  <1> QED BY <1>10, <1>16

\* The page made of such rows: the first of them, and the last of these as the
\* cursor if there is one more.
LEMMA PageOfRows ==
  ASSUME NEW w, w.req \in Request, NEW rows, RowsRight(rows, w)
  PROVE  LET page == Page(w.req, w.cursor, rows)
             limit == w.req.limit
             m == IF Len(rows) > limit THEN limit ELSE Len(rows)
         IN /\ page.beads = [i \in 1 .. m |-> rows[i].bead]
            /\ page.next = IF Len(rows) > limit THEN rows[m].vals ELSE NoCursor
  <1> DEFINE limit == w.req.limit
             cols == Order(w.req)
             places == {i \in DOMAIN rows : w.cursor = NoCursor \/ After(rows[i].vals, cols, w.cursor)}
             m == IF Len(rows) > limit THEN limit ELSE Len(rows)
             page == Cut(rows, limit)
  <1>1. limit \in Nat \ {0} BY RequestIs
  <1>2. rows \in Seq([bead : Bead, vals : Vec(cols)]) /\ Len(rows) \in Nat /\ DOMAIN rows = 1 .. Len(rows)
    BY DEF RowsRight
  <1>3. places = 1 .. Len(rows) BY <1>2 DEF RowsRight, Ahead
  <1>4. PickedAt(rows, places) = rows BY <1>2, <1>3, PickedAll
  <1>5. page = SubSeq(rows, 1, m)
    <2> HIDE DEF limit
    <2> QED BY <1>1, <1>2 DEF Cut
  <1>6. m \in Nat /\ m <= Len(rows) /\ (Len(rows) > limit => m = limit /\ m >= 1)
    <2>1. Len(rows) \in Nat BY <1>2
    <2> HIDE DEF limit
    <2> QED BY <1>1, <2>1
  <1>7. page \in Seq([bead : Bead, vals : Vec(cols)]) /\ Len(page) = m /\ \A i \in 1 .. m : page[i] = rows[i]
    <2> DEFINE T == [bead : Bead, vals : Vec(cols)]
    <2>1. rows \in Seq(T) /\ Len(rows) \in Nat BY <1>2
    <2> HIDE DEF m, page, T
    <2>2. \A i \in 1 .. m : i \in 1 .. Len(rows) BY <1>6, <2>1
    <2>3. 1 \in 1 .. Len(rows) + 1 /\ m \in 1 - 1 .. Len(rows) BY <1>6, <2>1
    <2>4. page \in Seq(T) BY <1>5, <2>1, <2>2, <1>6
    <2>5. Len(page) = m BY <1>5, <1>6, <2>1, <2>3, SubSeqProperties
    <2>6. \A i \in 1 .. m : page[i] = rows[i] BY <1>5, <1>6, <2>1, <2>3
    <2> QED BY <2>4, <2>5, <2>6 DEF T
  <1>8. Page(w.req, w.cursor, rows) = [beads |-> [i \in DOMAIN page |-> page[i].bead],
                                       next |-> IF Len(rows) > limit THEN page[Len(page)].vals ELSE NoCursor]
    BY <1>4 DEF Page
  <1> HIDE DEF page, m, limit
  <1>9. DOMAIN page = 1 .. m BY <1>7
  <1>10. [i \in DOMAIN page |-> page[i].bead] = [i \in 1 .. m |-> rows[i].bead] BY <1>7, <1>9
  <1>11. Len(rows) > limit => page[Len(page)].vals = rows[m].vals BY <1>6, <1>7
  <1> QED BY <1>8, <1>10, <1>11 DEF m, limit

LEMMA Joined ==
  ASSUME NEW T, NEW u \in Seq(T), NEW v \in Seq(T)
  PROVE  /\ Len(u) \in Nat /\ Len(v) \in Nat
         /\ DOMAIN u = 1 .. Len(u) /\ DOMAIN (u \o v) = 1 .. Len(u) + Len(v)
         /\ \A i \in 1 .. Len(u) : i \in 1 .. Len(u) + Len(v) /\ (u \o v)[i] = u[i]
         /\ \A i \in 1 .. Len(v) : Len(u) + i \in 1 .. Len(u) + Len(v) /\ (u \o v)[Len(u) + i] = v[i]
  OBVIOUS

\* A bead that is at just one place of the list was shown once.
LEMMA ShownIs ==
  ASSUME NEW seen, NEW b, NEW k \in DOMAIN seen, seen[k] = b, \A j \in DOMAIN seen : seen[j] = b => j = k
  PROVE  ShownOnce(seen, b)
  BY DEF ShownOnce

\* The client after a page made of the rows: what is passed was shown once.
LEMMA PageDivides ==
  ASSUME Stored, NEW w, WalkShape(w), w.more, Divided(w), NEW rows, RowsRight(rows, w),
         NEW w2, WalkShape(w2), w2.req = w.req, w2.steady = w.steady,
         w2.seen = w.seen \o Page(w.req, w.cursor, rows).beads,
         w2.cursor = Page(w.req, w.cursor, rows).next, w2.more = (w2.cursor # NoCursor)
  PROVE  Divided(w2)
  <1> DEFINE cols == Order(w.req)
             limit == w.req.limit
             n == Len(rows)
             m == IF n > limit THEN limit ELSE n
             beads == [i \in 1 .. m |-> rows[i].bead]
             cur(b) == CursorOf(b, cols)
  <1>1. w.req \in Request /\ limit \in Nat \ {0} /\ Sorting(cols) BY RequestIs DEF WalkShape
  <1>2. /\ rows \in Seq([bead : Bead, vals : Vec(cols)]) /\ n \in Nat /\ n <= limit + 1
        /\ \A i, j \in 1 .. n : i < j => After(rows[j].vals, cols, rows[i].vals)
        /\ \A i \in 1 .. n : Ahead(rows[i].vals, cols, w.cursor)
        /\ \A i \in 1 .. n : rows[i].bead \in w.steady => rows[i].vals = cur(rows[i].bead)
    BY DEF RowsRight
  <1>3. \A b \in w.steady : Ahead(cur(b), cols, w.cursor) =>
          \/ \E i \in 1 .. n : rows[i].bead = b
          \/ n = limit + 1 /\ \A i \in 1 .. n : After(cur(b), cols, rows[i].vals)
    BY DEF RowsRight
  <1>4. \A i \in 1 .. n : rows[i].bead \in Bead /\ rows[i].vals \in Vec(cols)
    <2> DEFINE T == [bead : Bead, vals : Vec(cols)]
    <2>1. \A x \in T : x.bead \in Bead /\ x.vals \in Vec(cols) OBVIOUS
    <2>2. rows \in Seq(T) BY <1>2
    <2> HIDE DEF T
    <2> QED BY <2>1, <2>2
  <1>5. /\ w2.seen = w.seen \o beads /\ (w2.more <=> n > limit)
        /\ n > limit => w2.cursor = rows[m].vals
    <2>1. /\ Page(w.req, w.cursor, rows).beads = beads
          /\ Page(w.req, w.cursor, rows).next = IF n > limit THEN rows[m].vals ELSE NoCursor
      BY <1>1, PageOfRows
    <2>2. n > limit => m \in 1 .. n
      <3> HIDE DEF n, limit
      <3> QED BY <1>1, <1>2
    <2>3. NoCursor \notin Vec(cols)
      <3>1. DOMAIN cols = 1 .. Len(cols) /\ Len(cols) \in 1 .. 3 BY <1>1 DEF Sorting
      <3>3. DOMAIN NoCursor = {} BY DEF NoCursor
      <3> HIDE DEF cols
      <3>2. 1 \in DOMAIN cols BY <3>1
      <3> QED BY <3>2, <3>3 DEF Vec
    <2> HIDE DEF m, n, limit, beads
    <2> QED BY <1>4, <2>1, <2>2, <2>3
  <1> DEFINE s == Len(w.seen)
  <1>6. /\ s \in Nat /\ m \in Nat /\ m <= n /\ (m < n => m = limit /\ n = m + 1 /\ n > limit /\ m >= 1)
        /\ (n > limit => m = limit /\ n = m + 1 /\ m >= 1)
    <2>1. w.seen \in Seq(Bead) BY DEF WalkShape
    <2>2. s \in Nat BY <2>1, LenProperties
    <2> HIDE DEF n, limit, s
    <2> QED BY <1>1, <1>2, <2>2
  <1>7. /\ DOMAIN w.seen = 1 .. s /\ DOMAIN w2.seen = 1 .. s + m
        /\ \A i \in 1 .. s : i \in 1 .. s + m /\ w2.seen[i] = w.seen[i]
        /\ \A i \in 1 .. m : s + i \in 1 .. s + m /\ w2.seen[s + i] = rows[i].bead
    <2> DEFINE u == w.seen
    <2>1. u \in Seq(Bead) BY DEF WalkShape
    <2>a. \A i \in 1 .. m : rows[i].bead \in Bead
      <3> HIDE DEF n, m
      <3> QED BY <1>2, <1>4, <1>6
    <2>2. beads \in Seq(Bead) /\ Len(beads) = m /\ \A i \in 1 .. m : beads[i] = rows[i].bead
      <3> HIDE DEF m
      <3> QED BY <1>6, <2>a
    <2>3. w2.seen = u \o beads /\ s = Len(u) BY <1>5
    <2> HIDE DEF beads, m, u, s
    <2>4. DOMAIN u = 1 .. s /\ DOMAIN w2.seen = 1 .. s + m BY <2>1, <2>2, <2>3, Joined
    <2>5. \A i \in 1 .. s : i \in 1 .. s + m /\ w2.seen[i] = u[i] BY <2>1, <2>2, <2>3, Joined
    <2>6. \A i \in 1 .. m : s + i \in 1 .. s + m /\ w2.seen[s + i] = beads[i] BY <2>1, <2>2, <2>3, Joined
    <2> QED BY <2>2, <2>4, <2>5, <2>6 DEF u
  <1>8. \A j \in 1 .. s + m : \/ j \in 1 .. s /\ w2.seen[j] = w.seen[j]
                              \/ \E i \in 1 .. m : j = s + i /\ w2.seen[j] = rows[i].bead
    <2> HIDE DEF s, m, n, limit
    <2> TAKE j \in 1 .. s + m
    <2>1. CASE j \in 1 .. s BY <1>7, <2>1
    <2>2. CASE j \notin 1 .. s
      <3> DEFINE i == j - s
      <3>1. i \in 1 .. m /\ j = s + i BY <1>6, <2>2
      <3> HIDE DEF i
      <3> QED BY <1>7, <3>1
    <2> QED BY <2>1, <2>2
  <1>a. DOMAIN w.seen = 1 .. s /\ DOMAIN w2.seen = 1 .. s + m BY <1>7
  <1>b. \A i \in 1 .. s : i \in 1 .. s + m /\ w2.seen[i] = w.seen[i] BY <1>7
  <1>c. \A i \in 1 .. m : s + i \in 1 .. s + m /\ w2.seen[s + i] = rows[i].bead BY <1>7
  <1>9. \A b \in w.steady : b \in Bead /\ cur(b) \in Vec(cols)
    BY <1>1, CursorIs DEF WalkShape, Matching
  <1>10. w.cursor = NoCursor \/ w.cursor \in Vec(cols) BY DEF WalkShape
  <1> HIDE DEF beads, m, n, limit, cur, cols, s
  <1>11. SUFFICES ASSUME NEW b \in w.steady
                  PROVE  IF w2.more /\ Ahead(cur(b), cols, w2.cursor) THEN NotShown(w2.seen, b) ELSE ShownOnce(w2.seen, b)
    BY DEF Divided, cols, cur
  <1>12. IF Ahead(cur(b), cols, w.cursor) THEN NotShown(w.seen, b) ELSE ShownOnce(w.seen, b)
    BY DEF Divided, cols, cur
  <1>13. \A i \in 1 .. m : i \in 1 .. n BY <1>2, <1>6
  <1>14. \A i, j \in 1 .. n : rows[i].bead = b /\ rows[j].bead = b => i = j
    <2> SUFFICES ASSUME NEW i \in 1 .. n, NEW j \in 1 .. n, rows[i].bead = b, rows[j].bead = b, i # j
                 PROVE  FALSE
      OBVIOUS
    <2>1. rows[i].vals = cur(b) /\ rows[j].vals = cur(b) BY <1>2
    <2>2. i < j \/ j < i BY <1>2
    <2>3. After(cur(b), cols, cur(b)) BY <1>2, <2>1, <2>2
    <2> QED BY <1>1, <1>9, <2>3, AfterIsStrict
  <1>15. CASE ~Ahead(cur(b), cols, w.cursor)
    <2>1. \A i \in 1 .. m : rows[i].bead # b BY <1>2, <1>13, <1>15
    <2>2. ShownOnce(w2.seen, b)
      <3>1. PICK k \in 1 .. s : w.seen[k] = b /\ \A j \in 1 .. s : w.seen[j] = b => j = k
        BY <1>a, <1>12, <1>15 DEF ShownOnce
      <3>2. k \in 1 .. s + m BY <1>b
      <3>3. \A j \in 1 .. s + m : w2.seen[j] = b => j = k BY <1>8, <2>1, <3>1
      <3>4. k \in DOMAIN w2.seen /\ w2.seen[k] = b /\ \A j \in DOMAIN w2.seen : w2.seen[j] = b => j = k
        BY <1>a, <1>b, <3>1, <3>2, <3>3
      <3> DEFINE q == w2.seen
      <3>5. k \in DOMAIN q /\ q[k] = b BY <3>4
      <3>6. \A j \in DOMAIN q : q[j] = b => j = k BY <3>4
      <3>7. ShownOnce(q, b)
        <4> HIDE DEF q
        <4> QED BY <3>5, <3>6, ShownIs
      <3> QED BY <3>7
    <2>3. ASSUME w2.more, Ahead(cur(b), cols, w2.cursor) PROVE FALSE
      <3>1. n > limit /\ w2.cursor = rows[m].vals /\ m \in 1 .. n
        <4>1. n > limit /\ w2.cursor = rows[m].vals BY <1>5, <2>3
        <4>2. n \in Nat /\ m \in Nat /\ m >= 1 /\ m <= n BY <1>2, <1>6, <4>1
        <4> QED BY <4>1, <4>2
      <3>2. rows[m].vals \in Vec(cols) /\ Ahead(rows[m].vals, cols, w.cursor) BY <1>2, <1>4, <3>1
      <3>3. w.cursor \in Vec(cols) /\ After(rows[m].vals, cols, w.cursor) BY <1>10, <1>15, <3>2 DEF Ahead
      <3>4. After(cur(b), cols, rows[m].vals)
        <4>1. w2.cursor # NoCursor BY <2>3
        <4> QED BY <2>3, <3>1, <4>1 DEF Ahead
      <3>5. After(cur(b), cols, w.cursor) BY <1>1, <1>9, <3>2, <3>3, <3>4, AfterIsStrict
      <3> QED BY <1>15, <3>5 DEF Ahead
    <2> QED BY <2>2, <2>3
  <1>16. CASE Ahead(cur(b), cols, w.cursor)
    <2>1. \A i \in 1 .. s : w2.seen[i] # b BY <1>a, <1>b, <1>12, <1>16 DEF NotShown
    <2>2. CASE \E k \in 1 .. m : rows[k].bead = b
      <3>1. PICK k \in 1 .. m : rows[k].bead = b BY <2>2
      <3>2. \A i \in 1 .. m : rows[i].bead = b => i = k BY <1>13, <1>14, <3>1
      <3>3. s + k \in 1 .. s + m /\ w2.seen[s + k] = b BY <1>c, <3>1
      <3>4. \A j \in 1 .. s + m : w2.seen[j] = b => j = s + k BY <1>8, <2>1, <3>2
      <3>5. ShownOnce(w2.seen, b)
        <4> DEFINE k2 == s + k
        <4>1. k2 \in DOMAIN w2.seen /\ w2.seen[k2] = b /\ \A j \in DOMAIN w2.seen : w2.seen[j] = b => j = k2
          BY <1>a, <3>3, <3>4
        <4> DEFINE q == w2.seen
        <4>2. k2 \in DOMAIN q /\ q[k2] = b BY <4>1
        <4>3. \A j \in DOMAIN q : q[j] = b => j = k2 BY <4>1
        <4>4. ShownOnce(q, b)
          <5> HIDE DEF q, k2
          <5> QED BY <4>2, <4>3, ShownIs
        <4> QED BY <4>4
      <3>6. ASSUME w2.more, Ahead(cur(b), cols, w2.cursor) PROVE FALSE
        <4>1. n > limit /\ w2.cursor = rows[m].vals /\ m \in 1 .. n /\ k \in 1 .. n /\ k <= m
          <5>1. n > limit /\ w2.cursor = rows[m].vals BY <1>5, <3>6
          <5>2. n \in Nat /\ m \in Nat /\ m >= 1 /\ m <= n BY <1>2, <1>6, <5>1
          <5> QED BY <5>1, <5>2
        <4>2. cur(b) = rows[k].vals BY <1>2, <3>1, <4>1
        <4>3. After(rows[k].vals, cols, rows[m].vals)
          <5>1. w2.cursor # NoCursor BY <3>6
          <5> QED BY <3>6, <4>1, <4>2, <5>1 DEF Ahead
        <4>4. rows[k].vals \in Vec(cols) /\ rows[m].vals \in Vec(cols) BY <1>4, <4>1
        <4>5. CASE k = m BY <1>1, <4>3, <4>4, <4>5, AfterIsStrict
        <4>6. CASE k < m
          <5>1. After(rows[m].vals, cols, rows[k].vals) BY <1>2, <4>1, <4>6
          <5>2. After(rows[k].vals, cols, rows[k].vals) BY <1>1, <4>3, <4>4, <5>1, AfterIsStrict
          <5> QED BY <1>1, <4>4, <5>2, AfterIsStrict
        <4> QED BY <1>6, <4>1, <4>5, <4>6
      <3> QED BY <3>5, <3>6
    <2>3. CASE ~\E k \in 1 .. m : rows[k].bead = b
      <3>1. NotShown(w2.seen, b)
        <4>1. \A j \in 1 .. s + m : w2.seen[j] # b BY <1>8, <2>1, <2>3
        <4> QED BY <1>a, <4>1 DEF NotShown
      <3>2. n > limit /\ m \in 1 .. n /\ After(cur(b), cols, rows[m].vals)
        <4>1. CASE \E i \in 1 .. n : rows[i].bead = b
          <5>1. PICK i \in 1 .. n : rows[i].bead = b BY <4>1
          <5>2. i \notin 1 .. m BY <2>3, <5>1
          <5>3. i > m /\ n > limit /\ m \in 1 .. n /\ m < i BY <1>2, <1>6, <5>2
          <5>4. cur(b) = rows[i].vals BY <1>2, <5>1
          <5> QED BY <1>2, <5>3, <5>4
        <4>2. CASE ~\E i \in 1 .. n : rows[i].bead = b
          <5>1. n = limit + 1 /\ \A i \in 1 .. n : After(cur(b), cols, rows[i].vals) BY <1>3, <1>16, <4>2
          <5>2. n > limit /\ m \in 1 .. n BY <1>1, <1>2, <1>6, <5>1
          <5> QED BY <5>1, <5>2
        <4> QED BY <4>1, <4>2
      <3>3. w2.more /\ Ahead(cur(b), cols, w2.cursor) BY <1>5, <3>2 DEF Ahead
      <3> QED BY <3>1, <3>3
    <2> QED BY <2>2, <2>3
  <1> QED BY <1>15, <1>16

LEMMA WalkInit == ListInit => WalkInv
  <1> SUFFICES ASSUME ListInit PROVE WalkInv OBVIOUS
  <1>1. row \in Rows /\ now = 1 /\ call.pc = "idle" BY DEF ListInit, Idle
  <1>2. Stored BY <1>1, StoreReadsAssumption DEF Stored, Row
  <1>3. PICK req \in Request :
          walk = [req |-> req, cursor |-> NoCursor, seen |-> << >>, pages |-> 0, more |-> TRUE,
                  viaBd |-> FALSE, steady |-> Matching(req)]
    BY DEF ListInit
  <1>4. WalkShape(walk) BY <1>3 DEF WalkShape
  <1>5. Divided(walk) BY <1>3 DEF Divided, Ahead, NotShown
  <1>6. WalkRecord(walk) /\ CallRecord(call) BY <1>3 DEF ListInit, WalkRecord, CallRecord, Idle
  <1> QED BY <1>1, <1>2, <1>4, <1>5, <1>6 DEF WalkInv

LEMMA CallMoves ==
  ASSUME CallRecord(call), NEW pc, call' = [call EXCEPT !.pc = pc]
  PROVE  call'.pc = pc /\ call'.rows = call.rows /\ CallRecord(call')
  BY DEF CallRecord

LEMMA CallEnds == ASSUME call' = Idle PROVE call'.pc = "idle" /\ CallRecord(call')
  BY DEF CallRecord, Idle

LEMMA Rewritten ==
  ASSUME NEW S, NEW T, NEW r \in [pri : S, created_at : S, updated_at : S, open : T],
         NEW a \in S, NEW b \in T, NEW c \in S
  PROVE  [r EXCEPT !.pri = a, !.open = b, !.updated_at = c] \in [pri : S, created_at : S, updated_at : S, open : T]
  OBVIOUS

\* The store and the client are as before.
LEMMA WalkKept ==
  ASSUME WalkInv, row' = row, walk' = walk, now' \in Int, CallRecord(call'),
         call'.pc # "idle" => call.pc # "idle" \/ walk.more,
         (call'.pc = "hydrate" /\ ~walk.viaBd) => RowsRight(call'.rows, walk)
  PROVE  WalkInv'
  <1>1. now' \in Int /\ Stored' /\ WalkRecord(walk)' /\ CallRecord(call)' BY DEF WalkInv, Stored, WalkRecord, CallRecord
  <1>2. (call.pc # "idle" => walk.more)' BY DEF WalkInv
  <1>3. ASSUME ~walk.viaBd
        PROVE WalkShape(walk)' /\ Divided(walk)' /\ (call.pc = "hydrate" => RowsRight(call.rows, walk))'
    <2>1. WalkShape(walk)' BY <1>3 DEF WalkInv, WalkShape, Matching, InBounds, Vec, Order
    <2>0. \A b : CursorOf(b, Order(walk.req))' = CursorOf(b, Order(walk.req)) BY DEF CursorOf, Value, Order
    <2>2. Divided(walk)'
      <3>1. Divided(walk) BY <1>3 DEF WalkInv
      <3> QED BY <2>0, <3>1 DEF Divided
    <2>3. (call.pc = "hydrate" => RowsRight(call.rows, walk))'
      <3>1. SUFFICES ASSUME call'.pc = "hydrate" PROVE RowsRight(call.rows, walk)' OBVIOUS
      <3>2. RowsRight(call'.rows, walk) BY <1>3, <3>1
      <3> QED BY <2>0, <3>2 DEF RowsRight
    <2> QED BY <2>1, <2>2, <2>3
  <1> QED BY <1>1, <1>2, <1>3 DEF WalkInv

\* A page is shown, and the list divided anew.
LEMMA HydrateWalks ==
  ASSUME WalkInv, Hydrate PROVE WalkInv'
  <1> DEFINE rows == call.rows
             page == Page(walk.req, walk.cursor, rows)
             w == [walk EXCEPT !.seen = @ \o page.beads, !.pages = @ + 1, !.cursor = page.next,
                               !.more = page.next # NoCursor, !.viaBd = @ \/ FALSE]
  <1>1. /\ call.pc = "hydrate" /\ row' = row /\ now' = now /\ call' = Idle /\ walk' = w
    BY DEF Hydrate, Shown
  <1>2. WalkRecord(walk) BY DEF WalkInv
  <1>3. w = [req |-> walk.req, cursor |-> page.next, seen |-> walk.seen \o page.beads, pages |-> walk.pages + 1,
             more |-> page.next # NoCursor, viaBd |-> walk.viaBd, steady |-> walk.steady]
    <2> DEFINE seen == walk.seen \o page.beads
               more == page.next # NoCursor
    <2>1. w = [walk EXCEPT !.seen = seen, !.pages = walk.pages + 1, !.cursor = page.next,
                           !.more = more, !.viaBd = walk.viaBd]
      <3>1. (walk.viaBd \/ FALSE) = walk.viaBd BY <1>2 DEF WalkRecord
      <3> QED BY <3>1
    <2> HIDE DEF page, w, seen, more
    <2>2. w = [req |-> walk.req, cursor |-> page.next, seen |-> seen, pages |-> walk.pages + 1,
               more |-> more, viaBd |-> walk.viaBd, steady |-> walk.steady]
      BY <1>2, <2>1 DEF WalkRecord
    <2> QED BY <2>2 DEF seen, more
  <1> HIDE DEF w
  <1>4. now' \in Int /\ Stored' /\ WalkRecord(walk)' /\ CallRecord(call)' /\ call'.pc = "idle"
    <2>1. WalkRecord(w)
      <3> HIDE DEF page
      <3> QED BY <1>2, <1>3 DEF WalkRecord
    <2> QED BY <1>1, <2>1 DEF WalkInv, Stored, WalkRecord, CallRecord, Idle
  <1>5. ASSUME ~walk.viaBd PROVE WalkShape(walk)' /\ Divided(walk)'
    <2> HIDE DEF rows
    <2>1. Stored /\ WalkShape(walk) /\ walk.more /\ Divided(walk) /\ RowsRight(rows, walk)
      BY <1>1, <1>5 DEF WalkInv, rows
    <2> DEFINE cols == Order(walk.req)
               limit == walk.req.limit
               n == Len(rows)
               m == IF n > limit THEN limit ELSE n
    <2>2. walk.req \in Request /\ limit \in Nat \ {0} /\ Sorting(cols) BY <2>1, RequestIs DEF WalkShape
    <2>3. /\ page.beads = [i \in 1 .. m |-> rows[i].bead]
          /\ page.next = IF n > limit THEN rows[m].vals ELSE NoCursor
      BY <2>1, <2>2, PageOfRows
    <2>4. rows \in Seq([bead : Bead, vals : Vec(cols)]) /\ n \in Nat BY <2>1 DEF RowsRight
    <2>5. \A i \in 1 .. n : rows[i].bead \in Bead /\ rows[i].vals \in Vec(cols)
      <3> DEFINE T == [bead : Bead, vals : Vec(cols)]
      <3>1. \A x \in T : x.bead \in Bead /\ x.vals \in Vec(cols) OBVIOUS
      <3>2. rows \in Seq(T) BY <2>4
      <3> HIDE DEF T
      <3> QED BY <3>1, <3>2
    <2>6. m \in Nat /\ m <= n /\ (n > limit => m \in 1 .. n)
      <3> HIDE DEF n, limit
      <3> QED BY <2>2, <2>4
    <2>7. page.beads \in Seq(Bead)
      <3> HIDE DEF page, m, n
      <3>1. \A i \in 1 .. m : rows[i].bead \in Bead BY <2>4, <2>5, <2>6
      <3> QED BY <2>3, <2>6, <3>1
    <2>8. page.next = NoCursor \/ page.next \in Vec(cols)
      <3> HIDE DEF page, m, n, cols, limit
      <3> QED BY <2>3, <2>5, <2>6
    <2>9. WalkShape(w)
      <3>1. w.req = walk.req /\ w.seen = walk.seen \o page.beads /\ w.cursor = page.next /\ w.steady = walk.steady
        <4> HIDE DEF page
        <4> QED BY <1>3
      <3>2. walk.seen \in Seq(Bead) BY <2>1 DEF WalkShape
      <3>3. walk.seen \o page.beads \in Seq(Bead)
        <4> HIDE DEF page
        <4> QED BY <2>7, <3>2
      <3> HIDE DEF page
      <3> QED BY <2>1, <2>8, <3>1, <3>3 DEF WalkShape
    <2>10. Divided(w)
      <3>1. /\ w.req = walk.req /\ w.steady = walk.steady
            /\ w.seen = walk.seen \o page.beads /\ w.cursor = page.next /\ w.more = (w.cursor # NoCursor)
        <4> HIDE DEF page
        <4> QED BY <1>3
      <3> QED BY <2>1, <2>9, <3>1, PageDivides
    <2>11. WalkShape(walk)' BY <1>1, <2>9 DEF WalkShape, Matching, InBounds, Vec, Order
    <2>12. Divided(walk)' BY <1>1, <2>10 DEF Divided, CursorOf, Value, Ahead, After
    <2> QED BY <2>11, <2>12
  <1>6. walk'.viaBd = walk.viaBd
    <2> HIDE DEF page
    <2> QED BY <1>1, <1>3
  <1> QED BY <1>4, <1>5, <1>6 DEF WalkInv

\* Others write: a bead is written and no longer steady.
LEMMA WriteWalks ==
  ASSUME WalkInv, NEW b \in Bead, NEW new \in Row, Write(b, new) PROVE WalkInv'
  <1> DEFINE w == [walk EXCEPT !.steady = @ \ {b}]
  <1>1. row' = [row EXCEPT ![b] = new] /\ walk' = w /\ now' = now /\ call' = call BY DEF Write
  <1>2. WalkRecord(walk) BY DEF WalkInv
  <1>3. w = [req |-> walk.req, cursor |-> walk.cursor, seen |-> walk.seen, pages |-> walk.pages,
             more |-> walk.more, viaBd |-> walk.viaBd, steady |-> walk.steady \ {b}]
    BY <1>2 DEF WalkRecord
  <1>4. now' \in Int /\ Stored' /\ WalkRecord(walk)' /\ CallRecord(call)' /\ (call.pc # "idle" => walk.more)'
    BY <1>1, <1>2, <1>3 DEF WalkInv, Stored, WalkRecord, CallRecord
  <1> HIDE DEF w
  <1>5. /\ w.req = walk.req /\ w.cursor = walk.cursor /\ w.seen = walk.seen /\ w.more = walk.more
        /\ w.viaBd = walk.viaBd /\ w.steady = walk.steady \ {b}
    BY <1>3
  <1>6. \A a : a # b => row'[a] = row[a]
    <2> SUFFICES ASSUME NEW a, a # b PROVE row'[a] = row[a] OBVIOUS
    <2> QED BY <1>1
  <1>7. \A a, cols : a # b => CursorOf(a, cols)' = CursorOf(a, cols) BY <1>6 DEF CursorOf, Value
  <1>8. ASSUME ~walk.viaBd
        PROVE WalkShape(walk)' /\ Divided(walk)' /\ (call.pc = "hydrate" => RowsRight(call.rows, walk))'
    <2>1. WalkShape(walk) /\ Divided(walk) /\ (call.pc = "hydrate" => RowsRight(call.rows, walk))
      BY <1>8 DEF WalkInv
    <2>2. \A a \in walk.steady \ {b} : a \in Matching(walk.req)' BY <1>1, <1>5, <1>6, <2>1 DEF WalkShape, Matching, InBounds
    <2>3. WalkShape(walk)' BY <1>1, <1>5, <2>1, <2>2 DEF WalkShape, Matching, InBounds
    <2>4. Order(walk.req)' = Order(walk.req) BY <1>1, <1>5 DEF Order
    <2>5. \A a \in walk.steady \ {b} : CursorOf(a, Order(walk.req))' = CursorOf(a, Order(walk.req))
      BY <1>7, <2>4
    <2>6. Divided(walk)' BY <1>1, <1>5, <2>1, <2>4, <2>5 DEF Divided
    <2>7. (call.pc = "hydrate" => RowsRight(call.rows, walk))' BY <1>1, <1>5, <2>1, <2>4, <2>5 DEF RowsRight
    <2> QED BY <2>3, <2>6, <2>7
  <1> QED BY <1>1, <1>4, <1>5, <1>8 DEF WalkInv

\* Every step keeps the invariant.
LEMMA WalkSteps == WalkInv /\ [ListNext]_listVars => WalkInv'
  <1> SUFFICES ASSUME WalkInv, [ListNext]_listVars PROVE WalkInv' OBVIOUS
  <1> USE DEF store
  <1>0. now \in Int /\ CallRecord(call) BY DEF WalkInv
  <1>a. CallRecord(Idle) /\ Idle.pc = "idle" BY DEF CallRecord, Idle
  <1>1. CASE Ask
    <2>1. call'.pc = "probe" /\ CallRecord(call') BY <1>1 DEF Ask, Idle, CallRecord
    <2> QED BY <1>0, <1>1, <2>1, WalkKept DEF Ask
  <1>2. CASE Prepare
    <2>1. PICK pc \in {"guard", "select"} : call' = [call EXCEPT !.pc = pc] BY <1>2 DEF Prepare
    <2>2. call'.pc \in {"guard", "select"} /\ CallRecord(call') BY <1>0, <2>1, CallMoves
    <2> QED BY <1>0, <1>2, <2>2, WalkKept DEF Prepare
  <1>3. CASE Select
    <2>1. RowsRight(SqlRows(walk.req, walk.cursor), walk) \/ walk.viaBd BY SqlRowsRight DEF WalkInv
    <2>2. call'.rows = SqlRows(walk.req, walk.cursor) /\ CallRecord(call') BY <1>0, <1>3 DEF Select, CallRecord
    <2> QED BY <1>0, <1>3, <2>1, <2>2, WalkKept DEF Select
  <1>4. CASE Hydrate BY <1>4, HydrateWalks
  <1>5. CASE SqlFails
    <2>1. call'.pc = "guard" /\ CallRecord(call') BY <1>0, <1>5, CallMoves DEF SqlFails
    <2> QED BY <1>0, <1>5, <2>1, WalkKept DEF SqlFails, Queries
  <1>6. CASE SqlCooling
    <2>1. call'.pc = "guard" /\ CallRecord(call') BY <1>0, <1>6, CallMoves DEF SqlCooling
    <2> QED BY <1>0, <1>6, <2>1, WalkKept DEF SqlCooling, Queries
  <1>b. ASSUME NEW status, PassesTo(status) PROVE call'.pc \in {"idle", "bd"} /\ CallRecord(call')
    BY <1>0, <1>b, CallMoves, CallEnds DEF PassesTo, Errs
  <1>7. CASE GuardHit
    <2>1. call'.pc \in {"idle", "bd"} /\ CallRecord(call') BY <1>b, <1>7 DEF GuardHit
    <2> QED BY <1>0, <1>7, <2>1, WalkKept DEF GuardHit
  <1>8. CASE ProbeStarts
    <2>1. call'.pc = "probing" /\ CallRecord(call') BY <1>0, <1>8 DEF ProbeStarts, CallRecord
    <2> QED BY <1>0, <1>8, <2>1, WalkKept DEF ProbeStarts
  <1>9. CASE ProbeEnds
    <2>1. call'.pc \in {"idle", "bd"} /\ CallRecord(call') BY <1>b, <1>9 DEF ProbeEnds
    <2> QED BY <1>0, <1>9, <2>1, WalkKept DEF ProbeEnds
  <1>10. CASE ProbeTimesOut
    <2>1. call'.pc \in {"idle", "bd"} /\ CallRecord(call') BY <1>b, <1>10 DEF ProbeTimesOut
    <2> QED BY <1>0, <1>10, <2>1, WalkKept DEF ProbeTimesOut
  <1>11. CASE BdLists
    <2> DEFINE page == Page(walk.req, walk.cursor, IF cli = "ok" THEN BdRows(walk.req, walk.cursor) ELSE << >>)
    <2>1. /\ row' = row /\ now' = now /\ call' = Idle
          /\ walk' = [walk EXCEPT !.seen = @ \o page.beads, !.pages = @ + 1, !.cursor = page.next,
                                  !.more = page.next # NoCursor, !.viaBd = @ \/ TRUE]
      BY <1>11 DEF BdLists, Shown
    <2> HIDE DEF page
    <2>2. WalkRecord(walk) BY DEF WalkInv
    <2> DEFINE seen == walk.seen \o page.beads
               more == page.next # NoCursor
    <2>3. walk' = [walk EXCEPT !.seen = seen, !.pages = walk.pages + 1, !.cursor = page.next,
                               !.more = more, !.viaBd = TRUE]
      <3>1. (walk.viaBd \/ TRUE) = TRUE OBVIOUS
      <3> QED BY <2>1, <3>1
    <2>4. more \in BOOLEAN OBVIOUS
    <2> HIDE DEF seen, more
    <2>5. walk' = [req |-> walk.req, cursor |-> page.next, seen |-> seen, pages |-> walk.pages + 1,
                   more |-> more, viaBd |-> TRUE, steady |-> walk.steady]
      BY <2>2, <2>3 DEF WalkRecord
    <2> QED BY <1>0, <1>a, <2>1, <2>4, <2>5 DEF WalkInv, WalkRecord, Stored
  <1>12. CASE BdFails BY <1>0, <1>12, CallEnds, WalkKept DEF BdFails, Errs
  <1>13. CASE Create
    <2>1. PICK b \in Busy, pri \in 1 .. 2 :
            Write(b, [pri |-> pri, created_at |-> now, updated_at |-> now, open |-> TRUE])
      BY <1>13 DEF Create
    <2>2. b \in Bead BY StoreReadsAssumption
    <2>3. [pri |-> pri, created_at |-> now, updated_at |-> now, open |-> TRUE] \in Row BY <1>0 DEF Row
    <2> QED BY <2>1, <2>2, <2>3, WriteWalks
  <1>14. CASE Update
    <2>1. PICK b \in Busy, pri \in 1 .. 2, open \in BOOLEAN :
            Write(b, [row[b] EXCEPT !.pri = pri, !.open = open, !.updated_at = now])
      BY <1>14 DEF Update
    <2>2. b \in Bead BY StoreReadsAssumption
    <2>3. row[b] \in Row BY <2>2 DEF WalkInv, Stored
    <2>4. [row[b] EXCEPT !.pri = pri, !.open = open, !.updated_at = now] \in Row
      <3> DEFINE r == row[b]
      <3>1. r \in [pri : Int, created_at : Int, updated_at : Int, open : BOOLEAN] BY <2>3 DEF Row
      <3>2. pri \in Int /\ now \in Int BY <1>0
      <3> HIDE DEF r
      <3>3. [r EXCEPT !.pri = pri, !.open = open, !.updated_at = now]
            \in [pri : Int, created_at : Int, updated_at : Int, open : BOOLEAN]
        BY <3>1, <3>2, Rewritten
      <3> QED BY <3>3 DEF r, Row
    <2> QED BY <2>1, <2>2, <2>4, WriteWalks
  <1>15. CASE WriteRefused BY <1>0, <1>15, WalkKept DEF WriteRefused, WalkInv
  <1>16. CASE Flip BY <1>0, <1>16, WalkKept DEF Flip, WalkInv
  <1>17. CASE Configure BY <1>0, <1>17, WalkKept DEF Configure, WalkInv
  <1>18. CASE RestartReads BY <1>0, <1>18, CallEnds, WalkKept DEF RestartReads
  <1>19. CASE Tick BY <1>0, <1>19, WalkKept DEF Tick, WalkInv
  <1>20. CASE UNCHANGED listVars BY <1>0, <1>20, WalkKept DEF listVars, WalkInv
  <1> QED BY <1>1, <1>2, <1>3, <1>4, <1>5, <1>6, <1>7, <1>8, <1>9, <1>10, <1>11, <1>12, <1>13, <1>14, <1>15,
             <1>16, <1>17, <1>18, <1>19, <1>20 DEF ListNext, CallStep

\* It says what is claimed of a list that has ended.
LEMMA WalkShows == WalkInv => EachShownOnce
  <1> SUFFICES ASSUME WalkInv, ~walk.viaBd, NEW b \in walk.steady
               PROVE  TimesSeen(b) <= 1 /\ (~walk.more => TimesSeen(b) = 1)
    BY DEF EachShownOnce
  <1> DEFINE places == {i \in DOMAIN walk.seen : walk.seen[i] = b}
  <1>1. NotShown(walk.seen, b) \/ ShownOnce(walk.seen, b) BY DEF WalkInv, Divided
  <1>2. ~walk.more => ShownOnce(walk.seen, b) BY DEF WalkInv, Divided
  <1>3. ASSUME NotShown(walk.seen, b) PROVE TimesSeen(b) = 0
    <2>1. places = {} BY <1>3 DEF NotShown
    <2> QED BY <2>1, FS_EmptySet DEF TimesSeen
  <1>4. ASSUME ShownOnce(walk.seen, b) PROVE TimesSeen(b) = 1
    <2>1. PICK k \in DOMAIN walk.seen : walk.seen[k] = b /\ \A j \in DOMAIN walk.seen : walk.seen[j] = b => j = k
      BY <1>4 DEF ShownOnce
    <2>2. places = {k} BY <2>1
    <2>3. Cardinality({k}) = 1 BY FS_Singleton
    <2> HIDE DEF places
    <2>4. Cardinality(places) = 1 BY <2>2, <2>3
    <2> QED BY <2>4 DEF TimesSeen, places
  <1> QED BY <1>1, <1>2, <1>3, <1>4

THEOREM PagesShowEachOnce == ListSpec => []EachShownOnce
  <1>1. ListInit => WalkInv BY WalkInit
  <1>2. WalkInv /\ [ListNext]_listVars => WalkInv' BY WalkSteps
  <1>3. WalkInv => EachShownOnce BY WalkShows
  <1> QED BY <1>1, <1>2, <1>3, PTL DEF ListSpec

---------------------------------------------------------------------------
(* Retrieval: what is common to its lists.  The rows of a store, and of all  *)
(* stores together, are the first of an order on readings.                  *)

\* A bead and its row, as it was read.
Reading == [id : Named, entry : Content]

\* Only the first of them.
LEMMA FirstOnes ==
  ASSUME NEW T, NEW s \in Seq(T), NEW n \in Nat
  PROVE  /\ FirstOf(s, n) \in Seq(T) /\ Len(s) \in Nat
         /\ Len(FirstOf(s, n)) = IF Len(s) < n THEN Len(s) ELSE n
         /\ \A i \in 1 .. Len(FirstOf(s, n)) : i \in 1 .. Len(s) /\ FirstOf(s, n)[i] = s[i]
  <1> DEFINE m == IF Len(s) < n THEN Len(s) ELSE n
  <1>1. Len(s) \in Nat OBVIOUS
  <1>2. m \in Nat /\ m <= Len(s) BY <1>1
  <1> HIDE DEF m
  <1>3. FirstOf(s, n) = SubSeq(s, 1, m) BY DEF FirstOf, m
  <1>4. \A i \in 1 .. m : i \in 1 .. Len(s) BY <1>1, <1>2
  <1>5. \A i \in 1 .. m : s[i] \in T BY <1>4
  <1>6. 1 \in Int /\ m \in Int /\ m - 1 + 1 = m BY <1>2
  <1>7. /\ SubSeq(s, 1, m) \in Seq(T)
        /\ Len(SubSeq(s, 1, m)) = IF 1 <= m THEN m - 1 + 1 ELSE 0
        /\ \A i \in 1 .. m - 1 + 1 : SubSeq(s, 1, m)[i] = s[1 + i - 1]
    BY <1>5, <1>6, SubSeqProperties
  <1>8. Len(SubSeq(s, 1, m)) = m BY <1>2, <1>7
  <1>9. \A i \in 1 .. m : SubSeq(s, 1, m)[i] = s[i]
    <2> TAKE i \in 1 .. m
    <2>1. 1 + i - 1 = i /\ i \in 1 .. m - 1 + 1 BY <1>2
    <2> QED BY <1>7, <2>1
  <1> QED BY <1>1, <1>3, <1>4, <1>7, <1>8, <1>9 DEF m

\* The types of beads, stores and limits.
LEMMA ReadsTyped ==
  /\ \A b \in Named : b \in Node /\ b \in Int
  /\ \A b \in Node : StoreOf[b] \in Int
  /\ \A c \in Content : c.updated \in Nat /\ c.claim \in Claim /\ c.age \in Age
  /\ PerStore \in Nat /\ Limit \in Nat /\ Limit >= 1 /\ Limit <= PerStore
  <1>1. \A b \in Named : b \in Node /\ b \in Int BY RetrievalAssumption DEF Named
  <1>2. \A b \in Node : StoreOf[b] \in Int BY RetrievalAssumption
  <1>3. \A c \in Content : c.updated \in Nat /\ c.claim \in Claim /\ c.age \in Age BY DEF Content
  <1>4. PerStore \in Nat /\ Limit \in Nat /\ Limit >= 1 /\ Limit <= PerStore
    <2>1. {Fan, PerStore, Limit} \subseteq Nat \ {0} /\ Limit <= PerStore BY RetrievalAssumption
    <2> QED BY <2>1
  <1> QED BY <1>1, <1>2, <1>3, <1>4

\* Readings of different beads are in a strict order, whichever it is.
LEMMA ReadingsOrdered ==
  ASSUME NEW S, S \subseteq Reading, \A p, q \in S : p.id = q.id => p = q, NEW op
  PROVE  /\ Orders(S, {p \in S \X S : Newer(p[1], p[2])})
         /\ Orders(S, {p \in S \X S : Before(op, p[1], p[2])})
  <1>1. \A p \in S : /\ p.id \in Int /\ p.entry.updated \in Int /\ StoreOf[p.id] \in Int
                     /\ Rank(p.entry.age) \in Int
    <2> TAKE p \in S
    <2>1. p.id \in Named /\ p.entry \in Content BY DEF Reading
    <2> QED BY <2>1, ReadsTyped DEF Rank
  <1>2. ASSUME NEW p \in S PROVE ~Newer(p, p) /\ ~Before(op, p, p) BY <1>1 DEF Newer, Before
  <1>3. ASSUME NEW p \in S, NEW q \in S, NEW r \in S
        PROVE  /\ Newer(p, q) /\ Newer(q, r) => Newer(p, r)
               /\ Before(op, p, q) /\ Before(op, q, r) => Before(op, p, r)
    <2>1. Newer(p, q) /\ Newer(q, r) => Newer(p, r) BY <1>1 DEF Newer
    <2>2. CASE op = "activity" BY <2>1, <2>2 DEF Before
    <2>3. CASE op = "search"
      <3> HIDE DEF Newer
      <3> QED BY <1>1, <2>1, <2>3 DEF Before
    <2>4. CASE op \notin {"activity", "search"}
      <3> DEFINE rank(x) == Rank(x.entry.age)
      <3>1. \A x, y : Before(op, x, y) <=> rank(x) > rank(y) \/ (rank(x) = rank(y) /\ x.id < y.id) BY <2>4 DEF Before
      <3>2. \A x \in S : rank(x) \in Int /\ x.id \in Int BY <1>1
      <3> HIDE DEF rank
      <3>3. Before(op, p, q) /\ Before(op, q, r) => Before(op, p, r) BY <3>1, <3>2
      <3> QED BY <2>1, <3>3
    <2> QED BY <2>1, <2>2, <2>3, <2>4
  <1>4. ASSUME NEW p \in S, NEW q \in S, p # q
        PROVE  (Newer(p, q) \/ Newer(q, p)) /\ (Before(op, p, q) \/ Before(op, q, p))
    <2>1. p.id # q.id BY <1>4
    <2>2. Newer(p, q) \/ Newer(q, p) BY <1>1, <2>1 DEF Newer
    <2>3. Before(op, p, q) \/ Before(op, q, p) BY <1>1, <2>1, <2>2 DEF Before
    <2> QED BY <2>2, <2>3
  <1> DEFINE newer == {p \in S \X S : Newer(p[1], p[2])}
             before == {p \in S \X S : Before(op, p[1], p[2])}
  <1>5. \A p, q \in S : (<<p, q>> \in newer <=> Newer(p, q)) /\ (<<p, q>> \in before <=> Before(op, p, q)) OBVIOUS
  <1> HIDE DEF newer, before
  <1>6. Orders(S, newer) BY <1>2, <1>3, <1>4, <1>5 DEF Orders
  <1>7. Orders(S, before) BY <1>2, <1>3, <1>4, <1>5 DEF Orders
  <1> QED BY <1>6, <1>7 DEF newer, before

\* The first n of a set in order: they are among it, what is not one of them
\* comes after them all, and no more are before one of them than there is room.
FirstOfOrder(first, S, order, n) ==
  /\ first \in Seq(S) /\ Len(first) \in Nat /\ Len(first) <= n
  /\ \A i, j \in 1 .. Len(first) : first[i] = first[j] => i = j
  /\ \A p \in S : \/ \E i \in 1 .. Len(first) : first[i] = p
                  \/ Len(first) = n /\ \A i \in 1 .. Len(first) : <<first[i], p>> \in order
  /\ \A T \in SUBSET S : \A k \in 1 .. Len(first) :
       (\A t \in T : <<t, first[k]>> \in order) => IsFiniteSet(T) /\ Cardinality(T) \in Nat /\ Cardinality(T) <= k - 1
  /\ Cardinality(S) \in Nat /\ (Cardinality(S) >= n => Len(first) = n)

\* The first n of a sorted set are what the definition above says.
LEMMA FirstInOrder ==
  ASSUME NEW S, IsFiniteSet(S), NEW order, Orders(S, order), NEW n \in Nat
  PROVE  FirstOfOrder(FirstOf(SortedBy(S, order), n), S, order, n)
  <1> DEFINE first == FirstOf(SortedBy(S, order), n)
  <1> DEFINE s == SortedBy(S, order)
             c == Cardinality(S)
  <1>1. /\ c \in Nat /\ s \in [1 .. c -> S]
        /\ \A i, j \in 1 .. c : i < j => <<s[i], s[j]>> \in order
        /\ \A x \in S : \E k \in 1 .. c : s[k] = x
    BY SortedHas
  <1>a. ASSUME NEW k \in 1 .. c, NEW T \in SUBSET S, \A t \in T : <<t, s[k]>> \in order
        PROVE IsFiniteSet(T) /\ Cardinality(T) \in Nat /\ Cardinality(T) <= k - 1
    BY <1>a, LeadersFit
  <1>b. first = FirstOf(s, n) OBVIOUS
  <1> HIDE DEF s, c
  <1>2. s \in Seq(S) /\ Len(s) = c BY <1>1
  <1>3. /\ first \in Seq(S) /\ Len(first) = IF c < n THEN c ELSE n
        /\ \A i \in 1 .. Len(first) : i \in 1 .. c /\ first[i] = s[i]
    <2> HIDE DEF first
    <2>1. FirstOf(s, n) \in Seq(S) BY <1>2, FirstOnes
    <2>2. Len(FirstOf(s, n)) = IF Len(s) < n THEN Len(s) ELSE n BY <1>2, FirstOnes
    <2>3. \A i \in 1 .. Len(FirstOf(s, n)) : i \in 1 .. Len(s) /\ FirstOf(s, n)[i] = s[i] BY <1>2, FirstOnes
    <2> QED BY <1>2, <1>b, <2>1, <2>2, <2>3
  <1> HIDE DEF first
  <1>4. Len(first) \in Nat /\ Len(first) <= n /\ Len(first) <= c /\ (Len(first) < c => Len(first) = n) /\ (c >= n => Len(first) = n)
    BY <1>1, <1>3
  <1>5. ASSUME NEW i \in 1 .. Len(first), NEW j \in 1 .. Len(first), first[i] = first[j] PROVE i = j
    <2>1. i \in 1 .. c /\ j \in 1 .. c /\ s[i] = s[j] BY <1>3, <1>5
    <2>2. s[i] \in S /\ <<s[i], s[i]>> \notin order BY <1>1, <2>1 DEF Orders
    <2> QED BY <1>1, <2>1, <2>2
  <1>6. ASSUME NEW p \in S, ~\E i \in 1 .. Len(first) : first[i] = p
        PROVE  Len(first) = n /\ \A i \in 1 .. Len(first) : <<first[i], p>> \in order
    <2>1. PICK k \in 1 .. c : s[k] = p BY <1>1
    <2>2. k \notin 1 .. Len(first) BY <1>3, <1>6, <2>1
    <2>3. Len(first) < k BY <1>1, <1>4, <2>2
    <2>4. ASSUME NEW i \in 1 .. Len(first) PROVE <<first[i], p>> \in order
      <3>1. i \in 1 .. c /\ i < k /\ first[i] = s[i] BY <1>1, <1>3, <1>4, <2>3
      <3> QED BY <1>1, <2>1, <3>1
    <2> QED BY <1>1, <1>4, <2>3, <2>4
  <1>7. ASSUME NEW T \in SUBSET S, NEW k \in 1 .. Len(first), \A t \in T : <<t, first[k]>> \in order
        PROVE  IsFiniteSet(T) /\ Cardinality(T) \in Nat /\ Cardinality(T) <= k - 1
    BY <1>3, <1>7, <1>a
  <1> QED BY <1>1, <1>3, <1>4, <1>5, <1>6, <1>7 DEF first, s, c, FirstOfOrder

\* The rows of one store: no bead twice, and what is left out is no newer.
RowsOf(s, rows) ==
  /\ rows \in Seq(Reading) /\ Len(rows) \in Nat /\ Len(rows) <= PerStore
  /\ \A i \in 1 .. Len(rows) : StoreOf[rows[i].id] = s
  /\ \A i, j \in 1 .. Len(rows) : rows[i].id = rows[j].id => i = j

\* What one store answers.
LEMMA ListingIs ==
  ASSUME entry \in [Node -> Content], NEW op, NEW s
  PROVE  LET rows == Listing(op, s)
         IN /\ RowsOf(s, rows)
            /\ \A i \in 1 .. Len(rows) : rows[i].entry = entry[rows[i].id]
            /\ \A b \in Named : StoreOf[b] = s /\ (op = "claimed" => entry[b].claim # "closed") =>
                 \/ \E i \in 1 .. Len(rows) : rows[i].id = b
                 \/ Len(rows) = PerStore /\ \A i \in 1 .. Len(rows) : rows[i].entry.updated >= entry[b].updated
  <1> DEFINE beads == {b \in Named : StoreOf[b] = s /\ (op = "claimed" => entry[b].claim # "closed")}
             read(b) == [id |-> b, entry |-> entry[b]]
             S == {read(b) : b \in beads}
             order == {p \in S \X S : Newer(p[1], p[2])}
             rows == FirstOf(SortedBy(S, order), PerStore)
  <1>1. Listing(op, s) = rows BY DEF Listing
  <1>2. \A b \in beads : read(b) \in Reading /\ read(b).id = b /\ read(b).entry = entry[b]
    BY ReadsTyped DEF Reading
  <1>3. \A p \in S : p.id \in beads /\ p = read(p.id) /\ p.entry = entry[p.id] OBVIOUS
  <1>4. S \subseteq Reading /\ \A p, q \in S : p.id = q.id => p = q
    <2>1. S \subseteq Reading
      <3> HIDE DEF beads, read
      <3> QED BY <1>2
    <2>2. \A p, q \in S : p.id = q.id => p = q
      <3> HIDE DEF S, read, beads
      <3> QED BY <1>3
    <2> QED BY <2>1, <2>2
  <1>5. IsFiniteSet(S)
    <2> DEFINE f == [b \in beads |-> read(b)]
    <2>1. beads \in SUBSET Node /\ IsFiniteSet(Node) BY RetrievalAssumption DEF Named
    <2> HIDE DEF beads, read
    <2>2. IsFiniteSet(beads) BY <2>1, FS_Subset
    <2>3. f \in Surjection(beads, S) BY DEF Surjection
    <2> HIDE DEF S, f
    <2> QED BY <2>2, <2>3, FS_Surjection
  <1>6. Orders(S, order)
    <2> HIDE DEF S
    <2> QED BY <1>4, ReadingsOrdered
  <1>7. PerStore \in Nat BY ReadsTyped
  <1>8. \A p, q : <<p, q>> \in order => Newer(p, q) OBVIOUS
  <1> HIDE DEF S, order, beads, read
  <1>9. /\ rows \in Seq(S) /\ Len(rows) \in Nat /\ Len(rows) <= PerStore
        /\ \A i, j \in 1 .. Len(rows) : rows[i] = rows[j] => i = j
        /\ \A p \in S : \/ \E i \in 1 .. Len(rows) : rows[i] = p
                        \/ Len(rows) = PerStore /\ \A i \in 1 .. Len(rows) : <<rows[i], p>> \in order
    <2> HIDE DEF rows
    <2>1. rows = FirstOf(SortedBy(S, order), PerStore) BY DEF rows
    <2>2. FirstOfOrder(FirstOf(SortedBy(S, order), PerStore), S, order, PerStore)
      BY <1>5, <1>6, <1>7, FirstInOrder
    <2> QED BY <2>1, <2>2 DEF FirstOfOrder
  <1> HIDE DEF rows
  <1>10. \A i \in 1 .. Len(rows) : rows[i] \in S BY <1>9
  <1>11. \A i \in 1 .. Len(rows) : rows[i] \in Reading /\ rows[i].id \in beads /\ rows[i].entry = entry[rows[i].id]
    BY <1>3, <1>4, <1>10
  <1>12. RowsOf(s, rows)
    <2>1. rows \in Seq(Reading) BY <1>9, <1>11
    <2>2. \A i \in 1 .. Len(rows) : StoreOf[rows[i].id] = s BY <1>11 DEF beads
    <2>3. \A i, j \in 1 .. Len(rows) : rows[i].id = rows[j].id => i = j BY <1>4, <1>9, <1>10
    <2> QED BY <1>9, <2>1, <2>2, <2>3 DEF RowsOf
  <1>13. ASSUME NEW b \in beads
         PROVE \/ \E i \in 1 .. Len(rows) : rows[i].id = b
               \/ Len(rows) = PerStore /\ \A i \in 1 .. Len(rows) : rows[i].entry.updated >= entry[b].updated
    <2>1. read(b) \in S /\ read(b).id = b /\ read(b).entry = entry[b] BY <1>2 DEF S
    <2>2. CASE \E i \in 1 .. Len(rows) : rows[i] = read(b) BY <2>1, <2>2
    <2>3. CASE Len(rows) = PerStore /\ \A i \in 1 .. Len(rows) : <<rows[i], read(b)>> \in order
      <3>1. ASSUME NEW i \in 1 .. Len(rows) PROVE rows[i].entry.updated >= entry[b].updated
        <4>1. Newer(rows[i], read(b)) BY <1>8, <2>3
        <4>2. rows[i].entry.updated \in Nat /\ entry[b].updated \in Nat
          <5>1. rows[i].entry \in Content /\ read(b).entry \in Content BY <1>2, <1>11 DEF Reading
          <5> QED BY <2>1, <5>1, ReadsTyped
        <4> QED BY <2>1, <4>1, <4>2 DEF Newer
      <3> QED BY <2>3, <3>1
    <2> QED BY <1>9, <2>1, <2>2, <2>3
  <1>14. \A b \in Named : StoreOf[b] = s /\ (op = "claimed" => entry[b].claim # "closed") => b \in beads BY DEF beads
  <1> QED BY <1>1, <1>11, <1>12, <1>13, <1>14

\* What the stores answered.
GotRight(got) == DOMAIN got \subseteq Store /\ \A s \in DOMAIN got : RowsOf(s, got[s])

\* All rows together: a bead is among them once.
LEMMA AllOfIs ==
  ASSUME NEW got, GotRight(got)
  PROVE  /\ AllOf(got) \subseteq Reading /\ IsFiniteSet(AllOf(got))
         /\ \A p, q \in AllOf(got) : p.id = q.id => p = q
         /\ \A p \in AllOf(got) : \E s \in DOMAIN got : \E i \in 1 .. Len(got[s]) : got[s][i] = p
         /\ \A s \in DOMAIN got : \A i \in 1 .. Len(got[s]) : got[s][i] \in AllOf(got)
         /\ \A s \in DOMAIN got : ToSet(got[s]) \in SUBSET AllOf(got) /\ IsFiniteSet(ToSet(got[s]))
                                  /\ Cardinality(ToSet(got[s])) = Len(got[s])
  <1>1. \A s \in DOMAIN got : got[s] \in Seq(Reading) /\ Len(got[s]) \in Nat /\ DOMAIN got[s] = 1 .. Len(got[s])
    <2> TAKE s \in DOMAIN got
    <2>1. got[s] \in Seq(Reading) BY DEF GotRight, RowsOf
    <2> QED BY <2>1, LenProperties
  <1>2. \A s \in DOMAIN got : ToSet(got[s]) = {got[s][i] : i \in 1 .. Len(got[s])} BY <1>1 DEF ToSet
  <1>3. \A p \in AllOf(got) : \E s \in DOMAIN got : \E i \in 1 .. Len(got[s]) : got[s][i] = p BY <1>2 DEF AllOf
  <1>4. \A s \in DOMAIN got : \A i \in 1 .. Len(got[s]) : got[s][i] \in AllOf(got) BY <1>2 DEF AllOf
  <1>5. \A s \in DOMAIN got : \A i \in 1 .. Len(got[s]) : got[s][i] \in Reading
    <2> TAKE s \in DOMAIN got
    <2> DEFINE q == got[s]
    <2>1. q \in Seq(Reading) BY <1>1
    <2> HIDE DEF q
    <2>2. \A i \in 1 .. Len(q) : q[i] \in Reading BY <2>1
    <2> QED BY <2>2 DEF q
  <1>6. AllOf(got) \subseteq Reading BY <1>3, <1>5
  <1>7. ASSUME NEW p \in AllOf(got), NEW q \in AllOf(got), p.id = q.id PROVE p = q
    <2>a. PICK s \in DOMAIN got : \E i \in 1 .. Len(got[s]) : got[s][i] = p BY <1>3
    <2>1. PICK i \in 1 .. Len(got[s]) : got[s][i] = p BY <2>a
    <2>b. PICK t \in DOMAIN got : \E j \in 1 .. Len(got[t]) : got[t][j] = q BY <1>3
    <2>2. PICK j \in 1 .. Len(got[t]) : got[t][j] = q BY <2>b
    <2>3. StoreOf[p.id] = s /\ StoreOf[q.id] = t BY <2>1, <2>2 DEF GotRight, RowsOf
    <2>4. s = t BY <1>7, <2>3
    <2>5. i = j BY <1>7, <2>1, <2>2, <2>4 DEF GotRight, RowsOf
    <2> QED BY <2>1, <2>2, <2>4, <2>5
  <1>8. ASSUME NEW s \in DOMAIN got
        PROVE  ToSet(got[s]) \in SUBSET AllOf(got) /\ IsFiniteSet(ToSet(got[s])) /\ Cardinality(ToSet(got[s])) = Len(got[s])
    <2> DEFINE q == got[s]
               n == Len(q)
               f == [i \in 1 .. n |-> q[i]]
    <2>1. ToSet(q) = {q[i] : i \in 1 .. n} /\ n \in Nat BY <1>1, <1>2
    <2>2. \A i, j \in 1 .. n : q[i] = q[j] => i = j BY DEF GotRight, RowsOf
    <2>3. ToSet(q) \in SUBSET AllOf(got) BY <1>4, <2>1
    <2> HIDE DEF q, n
    <2>4. f \in Surjection(1 .. n, ToSet(q)) BY <2>1 DEF Surjection
    <2>5. f \in Injection(1 .. n, ToSet(q)) BY <2>1, <2>2 DEF Injection, IsInjective
    <2>6. IsFiniteSet(1 .. n) /\ Cardinality(1 .. n) = n
      <3>1. 1 \in Int /\ n \in Int BY <2>1
      <3>2. IsFiniteSet(1 .. n) /\ Cardinality(1 .. n) = IF 1 > n THEN 0 ELSE n - 1 + 1 BY <3>1, FS_Interval
      <3> QED BY <2>1, <3>2
    <2> HIDE DEF f
    <2>7. IsFiniteSet(ToSet(q)) /\ Cardinality(ToSet(q)) = n
      <3> DEFINE U == ToSet(q)
      <3>1. f \in Surjection(1 .. n, U) /\ f \in Injection(1 .. n, U) BY <2>4, <2>5
      <3> HIDE DEF U
      <3>2. IsFiniteSet(U) /\ Cardinality(U) = Cardinality(1 .. n) BY <2>6, <3>1, FS_Surjection
      <3> QED BY <2>6, <3>2 DEF U
    <2> QED BY <2>3, <2>7 DEF q, n
  <1>9. IsFiniteSet(AllOf(got))
    <2> DEFINE f == [s \in DOMAIN got |-> ToSet(got[s])]
               G == {ToSet(got[s]) : s \in DOMAIN got}
    <2>1. IsFiniteSet(Store)
      <3> DEFINE h == [b \in Node |-> StoreOf[b]]
      <3>1. h \in Surjection(Node, Store) BY DEF Surjection, Store
      <3>2. IsFiniteSet(Node) BY RetrievalAssumption
      <3> HIDE DEF h
      <3> QED BY <3>1, <3>2, FS_Surjection
    <2>2. IsFiniteSet(DOMAIN got)
      <3>1. DOMAIN got \in SUBSET Store BY DEF GotRight
      <3> QED BY <2>1, <3>1, FS_Subset
    <2>3. f \in Surjection(DOMAIN got, G) BY DEF Surjection
    <2>4. IsFiniteSet(G)
      <3> HIDE DEF f, G
      <3> QED BY <2>2, <2>3, FS_Surjection
    <2>5. \A U \in G : IsFiniteSet(U) BY <1>8
    <2>6. AllOf(got) = UNION G BY DEF AllOf
    <2> HIDE DEF G
    <2> QED BY <2>4, <2>5, <2>6, FS_UNION
  <1> QED BY <1>3, <1>4, <1>6, <1>7, <1>8, <1>9

\* The rows of the answer.
LEMMA MergedIs ==
  ASSUME NEW got, GotRight(got), NEW op
  PROVE  LET rows == Merged(op, got)
             all == AllOf(got)
         IN /\ rows \in Seq(Reading) /\ Len(rows) \in Nat /\ Len(rows) <= Limit
            /\ \A i \in 1 .. Len(rows) : rows[i] \in all
            /\ \A p \in all : \/ \E i \in 1 .. Len(rows) : rows[i] = p
                              \/ Len(rows) = Limit /\ \A i \in 1 .. Len(rows) : Before(op, rows[i], p)
            /\ \A T \in SUBSET all : \A k \in 1 .. Len(rows) :
                 (\A t \in T : Before(op, t, rows[k])) => Cardinality(T) <= k - 1
            /\ \A T \in SUBSET all : Cardinality(T) >= Limit => Len(rows) = Limit
  <1> DEFINE all == AllOf(got)
             order == {p \in all \X all : Before(op, p[1], p[2])}
             rows == FirstOf(SortedBy(all, order), Limit)
  <1>1. Merged(op, got) = rows BY DEF Merged
  <1>2. all \subseteq Reading /\ IsFiniteSet(all) /\ \A p, q \in all : p.id = q.id => p = q BY AllOfIs
  <1>3. Orders(all, order)
    <2> HIDE DEF all
    <2> QED BY <1>2, ReadingsOrdered
  <1>4. \A p, q \in all : <<p, q>> \in order <=> Before(op, p, q) OBVIOUS
  <1>5. Limit \in Nat BY ReadsTyped
  <1> HIDE DEF all, order, rows
  <1>6. rows = FirstOf(SortedBy(all, order), Limit) BY DEF rows
  <1>7. /\ rows \in Seq(all) /\ Len(rows) \in Nat /\ Len(rows) <= Limit
        /\ \A p \in all : \/ \E i \in 1 .. Len(rows) : rows[i] = p
                          \/ Len(rows) = Limit /\ \A i \in 1 .. Len(rows) : <<rows[i], p>> \in order
        /\ \A T \in SUBSET all : \A k \in 1 .. Len(rows) :
             (\A t \in T : <<t, rows[k]>> \in order) => IsFiniteSet(T) /\ Cardinality(T) \in Nat /\ Cardinality(T) <= k - 1
        /\ Cardinality(all) \in Nat /\ (Cardinality(all) >= Limit => Len(rows) = Limit)
    <2>1. FirstOfOrder(FirstOf(SortedBy(all, order), Limit), all, order, Limit)
      BY <1>2, <1>3, <1>5, FirstInOrder
    <2> QED BY <1>6, <2>1 DEF FirstOfOrder
  <1>8. \A i \in 1 .. Len(rows) : rows[i] \in all BY <1>7
  <1>9. rows \in Seq(Reading) BY <1>2, <1>7, <1>8
  <1>10. \A p \in all : \/ \E i \in 1 .. Len(rows) : rows[i] = p
                        \/ Len(rows) = Limit /\ \A i \in 1 .. Len(rows) : Before(op, rows[i], p)
    BY <1>4, <1>7, <1>8
  <1>11. ASSUME NEW T \in SUBSET all, NEW k \in 1 .. Len(rows), \A t \in T : Before(op, t, rows[k])
         PROVE  Cardinality(T) <= k - 1
    <2>1. \A t \in T : <<t, rows[k]>> \in order BY <1>4, <1>8, <1>11
    <2> QED BY <1>7, <2>1
  <1>12. ASSUME NEW T \in SUBSET all, Cardinality(T) >= Limit PROVE Len(rows) = Limit
    <2>1. IsFiniteSet(T) /\ Cardinality(T) <= Cardinality(all) BY <1>2, FS_Subset
    <2>2. Cardinality(T) \in Nat BY <2>1, FS_CardinalityType
    <2>3. Cardinality(all) >= Limit BY <1>5, <1>7, <1>12, <2>1, <2>2
    <2> QED BY <1>7, <2>3
  <1> QED BY <1>1, <1>7, <1>8, <1>9, <1>10, <1>11, <1>12 DEF all

---------------------------------------------------------------------------
(* Retrieval: the walk.  A bead is listed or waits to be, and that once; of  *)
(* an answer not cut short, a bead seen is listed or waits to be a step      *)
(* deeper at most, and so is what a listed bead leads to (SnapInv).          *)

\* What is in a list, and a list without repetitions.
In(c, s) == \E i \in 1 .. Len(s) : s[i] = c
Injective(s) == \A i, j \in 1 .. Len(s) : s[i] = s[j] => i = j

\* A list is its head and its tail.
LEMMA TailParts ==
  ASSUME NEW T, NEW s \in Seq(T), s # << >>
  PROVE  /\ Head(s) \in T /\ Tail(s) \in Seq(T) /\ In(Head(s), s)
         /\ \A c : In(c, s) <=> c = Head(s) \/ In(c, Tail(s))
         /\ Injective(s) => Injective(Tail(s)) /\ ~In(Head(s), Tail(s))
  <1> DEFINE n == Len(s)
             t == Tail(s)
  <1>1. n \in Nat /\ n >= 1 /\ Head(s) = s[1] /\ t \in Seq(T) /\ Len(t) = n - 1 OBVIOUS
  <1>2. \A i \in 1 .. n - 1 : t[i] = s[i + 1] BY <1>1
  <1> HIDE DEF t, n
  <1>3. \A i \in 1 .. n - 1 : i + 1 \in 1 .. n BY <1>1
  <1>4. 1 \in 1 .. n /\ s[1] \in T BY <1>1 DEF n
  <1>5. ASSUME NEW c, NEW i \in 1 .. n, s[i] = c PROVE c = s[1] \/ In(c, t)
    <2>1. CASE i = 1 BY <1>5, <2>1
    <2>2. CASE i # 1
      <3> DEFINE j == i - 1
      <3>1. j \in 1 .. n - 1 /\ i = j + 1 BY <1>1, <2>2
      <3> HIDE DEF j
      <3>2. t[j] = c BY <1>2, <1>5, <3>1
      <3> QED BY <1>1, <3>1, <3>2 DEF In
    <2> QED BY <2>1, <2>2
  <1>6. ASSUME NEW c, NEW i \in 1 .. n - 1, t[i] = c PROVE \E k \in 1 .. n : k # 1 /\ s[k] = c /\ k = i + 1
    <2>1. i + 1 \in 1 .. n /\ i + 1 # 1 BY <1>1
    <2> QED BY <1>2, <1>6, <2>1
  <1>7. \A c : In(c, s) <=> c = s[1] \/ In(c, t)
    <2> TAKE c
    <2>1. In(c, s) => c = s[1] \/ In(c, t) BY <1>5 DEF In, n
    <2>2. c = s[1] => In(c, s) BY <1>4 DEF In, n
    <2>3. In(c, t) => In(c, s)
      <3> SUFFICES ASSUME In(c, t) PROVE In(c, s) OBVIOUS
      <3>1. PICK i \in 1 .. n - 1 : t[i] = c BY <1>1 DEF In
      <3> QED BY <1>6, <3>1 DEF In, n
    <2> QED BY <2>1, <2>2, <2>3
  <1>8. ASSUME \A i, j \in 1 .. n : s[i] = s[j] => i = j PROVE Injective(t) /\ ~In(s[1], t)
    <2>1. ASSUME NEW i \in 1 .. n - 1, NEW j \in 1 .. n - 1, t[i] = t[j] PROVE i = j
      <3>1. s[i + 1] = s[j + 1] /\ i + 1 \in 1 .. n /\ j + 1 \in 1 .. n BY <1>2, <1>3, <2>1
      <3>2. i + 1 = j + 1 BY <1>8, <3>1
      <3> QED BY <1>1, <3>2
    <2>2. ASSUME NEW i \in 1 .. n - 1, t[i] = s[1] PROVE FALSE
      <3>1. PICK k \in 1 .. n : k # 1 /\ s[k] = s[1] BY <1>6, <2>2
      <3> QED BY <1>4, <1>8, <3>1
    <2> QED BY <1>1, <2>1, <2>2 DEF Injective, In
  <1> QED BY <1>1, <1>4, <1>7, <1>8 DEF Injective, In, n, t

\* What is in two lists joined.
LEMMA Joined2 ==
  ASSUME NEW T, NEW u \in Seq(T), NEW v \in Seq(T)
  PROVE  /\ u \o v \in Seq(T)
         /\ \A c : In(c, u \o v) <=> In(c, u) \/ In(c, v)
         /\ (Injective(u) /\ Injective(v) /\ \A c : ~(In(c, u) /\ In(c, v))) => Injective(u \o v)
  <1> DEFINE m == Len(u)
             n == Len(v)
             w == u \o v
  <1>1. m \in Nat /\ n \in Nat /\ Len(w) = m + n /\ w \in Seq(T) OBVIOUS
  <1>2. \A i \in 1 .. m : i \in 1 .. m + n /\ w[i] = u[i] OBVIOUS
  <1>3. \A i \in 1 .. n : m + i \in 1 .. m + n /\ w[m + i] = v[i] OBVIOUS
  <1> HIDE DEF w, m, n
  <1>4. \A j \in 1 .. m + n : j \in 1 .. m \/ \E i \in 1 .. n : j = m + i
    <2> TAKE j \in 1 .. m + n
    <2>1. j \in 1 .. m \/ (j - m \in 1 .. n /\ j = m + (j - m)) BY <1>1
    <2> QED BY <2>1
  <1>5. \A c : In(c, w) <=> In(c, u) \/ In(c, v)
    <2> TAKE c
    <2>1. ASSUME NEW j \in 1 .. m + n, w[j] = c PROVE In(c, u) \/ In(c, v)
      <3>1. CASE j \in 1 .. m BY <1>2, <2>1, <3>1 DEF In, m
      <3>2. CASE j \notin 1 .. m
        <4>1. PICK i \in 1 .. n : j = m + i BY <1>4, <3>2
        <4>2. v[i] = c BY <1>3, <2>1, <4>1
        <4> QED BY <4>2 DEF In, n
      <3> QED BY <3>1, <3>2
    <2>2. In(c, u) => In(c, w)
      <3> SUFFICES ASSUME NEW i \in 1 .. m, u[i] = c PROVE In(c, w) BY DEF In, m
      <3> QED BY <1>1, <1>2 DEF In
    <2>3. In(c, v) => In(c, w)
      <3> SUFFICES ASSUME NEW i \in 1 .. n, v[i] = c PROVE In(c, w) BY DEF In, n
      <3> QED BY <1>1, <1>3 DEF In
    <2>4. In(c, w) => In(c, u) \/ In(c, v) BY <1>1, <2>1 DEF In
    <2> QED BY <2>2, <2>3, <2>4
  <1>6. ASSUME Injective(u), Injective(v), \A c : ~(In(c, u) /\ In(c, v)) PROVE Injective(w)
    <2> SUFFICES ASSUME NEW i \in 1 .. m + n, NEW j \in 1 .. m + n, w[i] = w[j] PROVE i = j BY <1>1 DEF Injective
    <2>1. \A k \in 1 .. m : In(u[k], u) BY DEF In, m
    <2>2. \A k \in 1 .. n : In(v[k], v) BY DEF In, n
    <2>3. CASE i \in 1 .. m /\ j \in 1 .. m
      <3>1. u[i] = u[j] BY <1>2, <2>3
      <3> QED BY <1>6, <2>3, <3>1 DEF Injective, m
    <2>4. CASE i \in 1 .. m /\ j \notin 1 .. m
      <3>1. PICK k \in 1 .. n : j = m + k BY <1>4, <2>4
      <3>2. u[i] = v[k] BY <1>2, <1>3, <2>4, <3>1
      <3> QED BY <1>6, <2>1, <2>2, <2>4, <3>2
    <2>5. CASE i \notin 1 .. m /\ j \in 1 .. m
      <3>1. PICK k \in 1 .. n : i = m + k BY <1>4, <2>5
      <3>2. u[j] = v[k] BY <1>2, <1>3, <2>5, <3>1
      <3> QED BY <1>6, <2>1, <2>2, <2>5, <3>2
    <2>6. CASE i \notin 1 .. m /\ j \notin 1 .. m
      <3>1. PICK k \in 1 .. n : i = m + k BY <1>4, <2>6
      <3>2. PICK l \in 1 .. n : j = m + l BY <1>4, <2>6
      <3>3. v[k] = v[l] BY <1>3, <3>1, <3>2
      <3>4. k = l BY <1>6, <3>3 DEF Injective, n
      <3> QED BY <3>1, <3>2, <3>4
    <2> QED BY <2>3, <2>4, <2>5, <2>6
  <1> QED BY <1>1, <1>5, <1>6 DEF w

\* A list as a set.
LEMMA InSet == ASSUME NEW T, NEW s \in Seq(T) PROVE \A c : c \in ToSet(s) <=> In(c, s)
  BY DEF ToSet, In

\* What is among the first n of a list.
LEMMA FirstIn ==
  ASSUME NEW T, NEW s \in Seq(T), NEW n \in Nat
  PROVE  /\ FirstOf(s, n) \in Seq(T)
         /\ \A c : In(c, FirstOf(s, n)) => In(c, s)
         /\ \A c : In(c, FirstOf(s, n)) => In(c, FirstOf(s, n + 1))
         /\ Injective(s) => Injective(FirstOf(s, n))
         /\ Len(s) <= n => \A c : In(c, FirstOf(s, n)) <=> In(c, s)
         /\ Len(s) <= n => \A c : In(c, FirstOf(s, n + 1)) <=> In(c, s)
         /\ Len(s) \in Nat
  <1> DEFINE f == FirstOf(s, n)
             g == FirstOf(s, n + 1)
  <1>1. /\ f \in Seq(T) /\ Len(s) \in Nat
        /\ Len(f) = IF Len(s) < n THEN Len(s) ELSE n
        /\ \A i \in 1 .. Len(f) : i \in 1 .. Len(s) /\ f[i] = s[i]
    BY FirstOnes
  <1>2. /\ Len(g) = IF Len(s) < n + 1 THEN Len(s) ELSE n + 1
        /\ \A i \in 1 .. Len(g) : i \in 1 .. Len(s) /\ g[i] = s[i]
    <2>1. n + 1 \in Nat OBVIOUS
    <2> QED BY <2>1, FirstOnes
  <1> HIDE DEF f, g
  <1>3. \A i \in 1 .. Len(f) : i \in 1 .. Len(g) BY <1>1, <1>2
  <1>4. \A c : In(c, f) => In(c, s) BY <1>1 DEF In
  <1>5. \A c : In(c, f) => In(c, g) BY <1>1, <1>2, <1>3 DEF In
  <1>6. Injective(s) => Injective(f) BY <1>1 DEF Injective
  <1>7. ASSUME Len(s) <= n PROVE (\A c : In(c, f) <=> In(c, s)) /\ (\A c : In(c, g) <=> In(c, s))
    <2>1. Len(f) = Len(s) /\ Len(g) = Len(s) BY <1>1, <1>2, <1>7
    <2> QED BY <1>1, <1>2, <2>1 DEF In
  <1> QED BY <1>1, <1>4, <1>5, <1>6, <1>7 DEF f, g

LEMMA PlacesFinite ==
  ASSUME NEW n \in Nat, NEW places, places \subseteq 1 .. n
  PROVE  IsFiniteSet(places) /\ places \subseteq Int
  <1> DEFINE all == 1 .. n
  <1>1. IsFiniteSet(all) BY FS_Interval
  <1>2. places \in SUBSET all /\ all \subseteq Int OBVIOUS
  <1> HIDE DEF all
  <1> QED BY <1>1, <1>2, FS_Subset

OncePlaces(s, places) == \A i, j \in places : s[i] = s[j] => i = j

\* What is picked of a list.
LEMMA PickedSeq ==
  ASSUME NEW T, NEW s \in Seq(T), NEW places, places \subseteq 1 .. Len(s)
  PROVE  /\ PickedAt(s, places) \in Seq(T)
         /\ \A c : In(c, PickedAt(s, places)) <=> \E i \in places : s[i] = c
         /\ OncePlaces(s, places) => Injective(PickedAt(s, places))
  <1> DEFINE n == Cardinality(places)
             a == Ascending(places)
             q == PickedAt(s, places)
  <1>1. Len(s) \in Nat /\ \A i \in places : s[i] \in T OBVIOUS
  <1>2. IsFiniteSet(places) /\ places \subseteq Int BY <1>1, PlacesFinite
  <1>3. /\ n \in Nat /\ a \in [1 .. n -> places]
        /\ \A i, j \in 1 .. n : i < j => a[i] < a[j]
        /\ \A x \in places : \E k \in 1 .. n : a[k] = x
    BY <1>2, AscendingIs
  <1>4. q = [k \in 1 .. n |-> s[a[k]]] BY DEF PickedAt
  <1> HIDE DEF q, n, a
  <1>5. \A k \in 1 .. n : a[k] \in places BY <1>3
  <1>6. \A k \in 1 .. n : s[a[k]] \in T BY <1>1, <1>5
  <1>7. q \in Seq(T) /\ Len(q) = n BY <1>3, <1>4, <1>6
  <1>8. \A k \in 1 .. n : q[k] = s[a[k]] BY <1>4
  <1>9. ASSUME NEW c PROVE In(c, q) <=> \E i \in places : s[i] = c
    <2>1. In(c, q) => \E i \in places : s[i] = c BY <1>5, <1>7, <1>8 DEF In
    <2>2. ASSUME NEW i \in places, s[i] = c PROVE In(c, q)
      <3>1. PICK k \in 1 .. n : a[k] = i BY <1>3
      <3>2. q[k] = c BY <1>8, <2>2, <3>1
      <3> QED BY <1>7, <3>2 DEF In
    <2> QED BY <2>1, <2>2
  <1>10. ASSUME OncePlaces(s, places) PROVE Injective(q)
    <2>1. ASSUME NEW i \in 1 .. n, NEW j \in 1 .. n, q[i] = q[j] PROVE a[i] = a[j]
      <3>1. s[a[i]] = s[a[j]] BY <1>8, <2>1
      <3> QED BY <1>5, <1>10, <3>1 DEF OncePlaces
    <2>2. ASSUME NEW i \in 1 .. n, NEW j \in 1 .. n, a[i] = a[j], i < j PROVE FALSE
      <3>1. a[i] < a[j] /\ a[i] \in Int BY <1>2, <1>3, <1>5, <2>2
      <3> QED BY <2>2, <3>1
    <2>3. \A i, j \in 1 .. n : i < j \/ j < i \/ i = j BY <1>3
    <2> QED BY <1>7, <2>1, <2>2, <2>3 DEF Injective
  <1> QED BY <1>7, <1>9, <1>10 DEF q

\* The neighbours that were not seen, each once.
LEMMA UnseenIs ==
  ASSUME NEW w, NEW ls \in Seq(Node)
  PROVE  /\ Unseen(w, ls) \in Seq(Node) /\ Injective(Unseen(w, ls))
         /\ \A c : In(c, Unseen(w, ls)) <=> c \in Neighbors(ls) /\ c \notin w.seen
  <1> DEFINE places == {j \in FirstPlaces(ls) : ls[j] \notin w.seen}
  <1>1. DOMAIN ls = 1 .. Len(ls) /\ Len(ls) \in Nat OBVIOUS
  <1>2. FirstPlaces(ls) \subseteq 1 .. Len(ls) BY <1>1 DEF FirstPlaces
  <1>3. places \subseteq 1 .. Len(ls) BY <1>2
  <1>4. ASSUME NEW i \in places, NEW j \in places, ls[i] = ls[j] PROVE i = j
    <2>1. (\A k \in 1 .. i - 1 : ls[k] # ls[i]) /\ (\A k \in 1 .. j - 1 : ls[k] # ls[j])
      BY DEF FirstPlaces
    <2>2. i \in 1 .. Len(ls) /\ j \in 1 .. Len(ls) BY <1>3
    <2>3. i < j => i \in 1 .. j - 1 BY <1>1, <2>2
    <2>4. j < i => j \in 1 .. i - 1 BY <1>1, <2>2
    <2> QED BY <1>1, <1>4, <2>1, <2>2, <2>3, <2>4
  <1>5. \A c : (\E i \in places : ls[i] = c) <=> c \in Neighbors(ls) /\ c \notin w.seen
    BY DEF Neighbors
  <1>6. Unseen(w, ls) = PickedAt(ls, places) BY DEF Unseen
  <1>8. OncePlaces(ls, places) BY <1>4 DEF OncePlaces
  <1> HIDE DEF places
  <1> DEFINE q == PickedAt(ls, places)
  <1>7. /\ q \in Seq(Node)
        /\ \A c : In(c, q) <=> \E i \in places : ls[i] = c
        /\ OncePlaces(ls, places) => Injective(q)
    BY <1>3, PickedSeq
  <1> HIDE DEF q
  <1>9. Injective(q) BY <1>7, <1>8
  <1>10. \A c : In(c, q) <=> c \in Neighbors(ls) /\ c \notin w.seen BY <1>5, <1>7
  <1> QED BY <1>6, <1>7, <1>9, <1>10 DEF q

\* What a walk consists of.
Stop == [id : Node, depth : Nat]
Queue == Seq(Node)
Stops == Seq(Stop)
Beads == SUBSET Node
Way == {"sql", "bd"}
At == {"level", "done"}
Loads == UNION {[ps -> UNION {[bs -> Queue] : bs \in Beads}] : ps \in SUBSET ToSet(Part)}
Verdicts == BOOLEAN
Depths == Nat

\* The walks there can be.
Walks ==
  [op : {"snapshot"}, pc : At, root : Node, cap : Caps, via : Way, level : Queue, depth : Depths,
   next : Queue, nodes : Stops, seen : Beads, truncated : Verdicts, loaded : Loads, lost : Beads]

\* The parts of a walk.
Has(v, pc, root, cap, via, level, depth, later, nodes, seen, truncated, loaded, lost) ==
  /\ v.pc = pc /\ v.root = root /\ v.cap = cap /\ v.via = via /\ v.level = level /\ v.depth = depth
  /\ v.next = later /\ v.nodes = nodes /\ v.seen = seen /\ v.truncated = truncated
  /\ v.loaded = loaded /\ v.lost = lost

\* Each change the steps make of a walk leaves one, with these parts.
LEMMA WalkLists ==
  ASSUME NEW w \in Walks, NEW n \in Stops, NEW l \in Queue
  PROVE  LET v == [w EXCEPT !.nodes = n, !.level = l]
         IN v \in Walks /\ Has(v, w.pc, w.root, w.cap, w.via, l, w.depth, w.next, n, w.seen, w.truncated, w.loaded, w.lost)
  BY DEF Walks, Has

LEMMA WalkQueues ==
  ASSUME NEW w \in Walks, NEW s \in Beads, NEW x \in Queue, NEW t \in Verdicts
  PROVE  LET v == [w EXCEPT !.seen = s, !.next = x, !.truncated = t]
         IN v \in Walks /\ Has(v, w.pc, w.root, w.cap, w.via, w.level, w.depth, x, w.nodes, s, t, w.loaded, w.lost)
  BY DEF Walks, Has

LEMMA WalkDescends ==
  ASSUME NEW w \in Walks, NEW l \in Queue, NEW x \in Queue, NEW d \in Depths, NEW m \in Loads
  PROVE  LET v == [w EXCEPT !.level = l, !.next = x, !.depth = d, !.loaded = m]
         IN v \in Walks /\ Has(v, w.pc, w.root, w.cap, w.via, l, d, x, w.nodes, w.seen, w.truncated, m, w.lost)
  BY DEF Walks, Has

LEMMA WalkLoads ==
  ASSUME NEW w \in Walks, NEW m \in Loads
  PROVE  LET v == [w EXCEPT !.loaded = m]
         IN v \in Walks /\ Has(v, w.pc, w.root, w.cap, w.via, w.level, w.depth, w.next, w.nodes, w.seen, w.truncated, m, w.lost)
  BY DEF Walks, Has

LEMMA WalkLoses ==
  ASSUME NEW w \in Walks, NEW f \in Beads, NEW m \in Loads
  PROVE  LET v == [w EXCEPT !.lost = f, !.loaded = m]
         IN v \in Walks /\ Has(v, w.pc, w.root, w.cap, w.via, w.level, w.depth, w.next, w.nodes, w.seen, w.truncated, m, f)
  BY DEF Walks, Has

LEMMA WalkEnds ==
  ASSUME NEW w \in Walks, NEW p \in At, NEW t \in Verdicts
  PROVE  LET v == [w EXCEPT !.pc = p, !.truncated = t]
         IN v \in Walks /\ Has(v, p, w.root, w.cap, w.via, w.level, w.depth, w.next, w.nodes, w.seen, t, w.loaded, w.lost)
  BY DEF Walks, Has

LEMMA WalkPasses ==
  ASSUME NEW w \in Walks, NEW l \in Queue
  PROVE  LET v == [w EXCEPT !.level = l]
         IN v \in Walks /\ Has(v, w.pc, w.root, w.cap, w.via, l, w.depth, w.next, w.nodes, w.seen, w.truncated, w.loaded, w.lost)
  BY DEF Walks, Has

LEMMA WalkGivesUp ==
  ASSUME NEW w \in Walks, NEW l \in Queue, NEW f \in Beads
  PROVE  LET v == [w EXCEPT !.level = l, !.lost = f]
         IN v \in Walks /\ Has(v, w.pc, w.root, w.cap, w.via, l, w.depth, w.next, w.nodes, w.seen, w.truncated, w.loaded, f)
  BY DEF Walks, Has

LEMMA WalkStops ==
  ASSUME NEW w \in Walks, NEW p \in At
  PROVE  LET v == [w EXCEPT !.pc = p]
         IN v \in Walks /\ Has(v, p, w.root, w.cap, w.via, w.level, w.depth, w.next, w.nodes, w.seen, w.truncated, w.loaded, w.lost)
  BY DEF Walks, Has

\* The types of the parts.
LEMMA WalkHas ==
  ASSUME NEW w \in Walks
  PROVE  /\ w.pc \in At /\ w.root \in Node /\ w.cap \in Caps /\ w.via \in Way /\ w.level \in Seq(Node)
         /\ w.depth \in Nat /\ w.next \in Seq(Node) /\ w.nodes \in Seq(Stop) /\ w.seen \subseteq Node
         /\ w.truncated \in BOOLEAN /\ w.loaded \in Loads /\ w.lost \subseteq Node /\ w.op = "snapshot"
  BY DEF Walks, Queue, Stops, Beads, Verdicts, Depths

\* It is listed, no deeper than k.
NodeAt(w, c, k) == \E i \in 1 .. Len(w.nodes) : w.nodes[i].id = c /\ w.nodes[i].depth <= k

\* A bead that will be listed within k steps, or is.
Reached(w, c, k) ==
  \/ c \in Missing \union w.lost
  \/ In(c, w.level) /\ w.depth <= k
  \/ In(c, w.next) /\ w.depth + 1 <= k
  \/ NodeAt(w, c, k)

\* A bead is listed or waits, and that once.
Apart(w) ==
  /\ Len(w.nodes) <= w.cap
  /\ \A i, j \in 1 .. Len(w.nodes) : w.nodes[i].id = w.nodes[j].id => i = j
  /\ Injective(w.level) /\ Injective(w.next)
  /\ \A c : ~(In(c, w.level) /\ In(c, w.next))
  /\ \A i \in 1 .. Len(w.nodes) : ~In(w.nodes[i].id, w.level) /\ ~In(w.nodes[i].id, w.next)
  /\ \A i \in 1 .. Len(w.nodes) : w.nodes[i].id \in w.seen /\ w.nodes[i].depth <= w.depth
  /\ \A c : In(c, w.level) \/ In(c, w.next) => c \in w.seen

\* What a listed bead leads to will be listed a step deeper.
Followed(w, gs, i) ==
  w.nodes[i].depth < MaxDepth /\ w.nodes[i].id \notin w.lost =>
    \A c \in LeadsTo(gs, w.nodes[i].id) : Reached(w, c, w.nodes[i].depth + 1)

Whole(w, gs) ==
  ~w.truncated =>
    /\ Reached(w, w.root, 0)
    /\ \A c \in w.seen : Reached(w, c, w.depth + 1)
    /\ \A i \in 1 .. Len(w.nodes) : Followed(w, gs, i)
    /\ w.pc = "done" => w.level = << >> /\ w.next = << >>

\* The beads that a visit waits for.
DueOf(w) == IF w.via = "sql" THEN ToSet(w.level) ELSE {Head(w.level)}

ReadFrom(gs, part, b, ls) == \E g \in gs : ls = PartRead(part, g, b)

\* What was loaded of a bead that was not lost is what some graph had.
LoadedRight(w, gs) ==
  w.level # << >> =>
    \A part \in DOMAIN w.loaded : \A b \in DueOf(w) :
      w.loaded[part][b] \in Seq(Node) /\ (b \notin w.lost => ReadFrom(gs, part, b, w.loaded[part][b]))

\* The invariant of a walk.
SnapInv(w, gs) == w \in Walks /\ Apart(w) /\ Whole(w, gs) /\ LoadedRight(w, gs)

\* The entries of the list.
LEMMA StopsHave ==
  ASSUME NEW w \in Walks
  PROVE  /\ Len(w.nodes) \in Nat
         /\ \A i \in 1 .. Len(w.nodes) : w.nodes[i] \in Stop /\ w.nodes[i].depth \in Nat /\ w.nodes[i].id \in Node
  <1>1. w.nodes \in Seq(Stop) BY WalkHas
  <1>2. Len(w.nodes) \in Nat /\ \A i \in 1 .. Len(w.nodes) : w.nodes[i] \in Stop BY <1>1
  <1> QED BY <1>2 DEF Stop

LEMMA NothingLoaded == << >> \in Loads /\ DOMAIN << >> = {}
  <1>1. {} \in Beads /\ {} \in SUBSET ToSet(Part) BY DEF Beads
  <1> DEFINE L == UNION {[bs -> Queue] : bs \in Beads}
  <1>2. << >> \in [{} -> L] OBVIOUS
  <1>3. [{} -> L] \in {[ps -> L] : ps \in SUBSET ToSet(Part)} BY <1>1
  <1>4. Loads = UNION {[ps -> L] : ps \in SUBSET ToSet(Part)} BY DEF Loads
  <1> HIDE DEF L
  <1> QED BY <1>2, <1>3, <1>4

LEMMA EmptyIn == (\A c : ~In(c, << >>)) /\ Injective(<< >>)
  BY DEF In, Injective

LEMMA SingleIn == ASSUME NEW c PROVE (\A x : In(x, <<c>>) <=> x = c) /\ Injective(<<c>>)
  <1>1. Len(<<c>>) = 1 /\ <<c>>[1] = c OBVIOUS
  <1> DEFINE s == <<c>>
  <1>2. Len(s) = 1 /\ s[1] = c BY <1>1
  <1> HIDE DEF s
  <1>3. \A i \in 1 .. Len(s) : i = 1 BY <1>2
  <1>4. 1 \in 1 .. Len(s) BY <1>2
  <1>5. \A x : In(x, s) <=> x = c BY <1>2, <1>3, <1>4 DEF In
  <1>6. Injective(s) BY <1>3 DEF Injective
  <1> QED BY <1>5, <1>6 DEF s

\* A walk begins with its root.
LEMMA WalkStarts ==
  ASSUME NEW root \in Node, NEW cap \in Caps, NEW via \in Way, NEW gs
  PROVE  SnapInv(Walk(root, cap, via), gs)
  <1> DEFINE w == Walk(root, cap, via)
  <1>1. /\ w.pc = "level" /\ w.root = root /\ w.cap = cap /\ w.via = via /\ w.level = <<root>> /\ w.depth = 0
        /\ w.next = << >> /\ w.nodes = << >> /\ w.seen = {root} /\ w.truncated = FALSE /\ w.loaded = << >>
        /\ w.lost = {} BY DEF Walk
  <1>2. w \in Walks
    <2>1. << >> \in Loads BY NothingLoaded
    <2>2. <<root>> \in Queue /\ << >> \in Queue /\ << >> \in Stops /\ {root} \in Beads /\ {} \in Beads
          /\ FALSE \in Verdicts /\ 0 \in Depths /\ "level" \in At
      BY DEF Queue, Stops, Beads, Verdicts, Depths, At
    <2> QED BY <2>1, <2>2 DEF Walk, Walks
  <1> HIDE DEF w
  <1>3. (\A x : In(x, w.level) <=> x = root) /\ Injective(w.level) BY <1>1, SingleIn
  <1>4. (\A x : ~In(x, w.next)) /\ Injective(w.next) BY <1>1, EmptyIn
  <1>5. Len(w.nodes) = 0 BY <1>1
  <1>6. cap \in Nat /\ cap >= 0 BY RetrievalAssumption
  <1>7. Apart(w) BY <1>1, <1>3, <1>4, <1>5, <1>6 DEF Apart
  <1>8. Whole(w, gs) BY <1>1, <1>3, <1>5 DEF Whole, Reached
  <1>9. LoadedRight(w, gs) BY <1>1 DEF LoadedRight
  <1> QED BY <1>2, <1>7, <1>8, <1>9 DEF SnapInv, w

\* What is left whole by a step that lists nothing.
LEMMA WholeGoesOn ==
  ASSUME NEW w \in Walks, NEW v \in Walks, NEW gs, Apart(w), Whole(w, gs),
         v.nodes = w.nodes, v.root = w.root, v.seen = w.seen, v.depth \in {w.depth, w.depth + 1},
         \A c, k : k \in Int /\ Reached(w, c, k) => Reached(v, c, k),
         \A b \in v.seen : b \in w.lost => b \in v.lost,
         ~v.truncated => ~w.truncated,
         v.pc = "done" /\ ~v.truncated => v.level = << >> /\ v.next = << >>
  PROVE  Whole(v, gs)
  <1> SUFFICES ASSUME ~v.truncated
      PROVE /\ Reached(v, v.root, 0)
            /\ \A c \in v.seen : Reached(v, c, v.depth + 1)
            /\ \A i \in 1 .. Len(v.nodes) : Followed(v, gs, i)
            /\ v.pc = "done" => v.level = << >> /\ v.next = << >>
    BY DEF Whole
  <1>1. w.depth \in Nat /\ v.depth \in Nat /\ w.nodes \in Seq(Stop) BY WalkHas
  <1>2. Reached(v, v.root, 0) BY DEF Whole
  <1>3. ASSUME NEW c \in v.seen PROVE Reached(v, c, v.depth + 1)
    <2>1. Reached(w, c, w.depth + 1) BY <1>3 DEF Whole
    <2>2. Reached(v, c, w.depth + 1) BY <1>1, <2>1
    <2>3. \A i \in 1 .. Len(v.nodes) : v.nodes[i].depth \in Nat BY StopsHave
    <2>4. w.depth + 1 <= v.depth + 1 BY <1>1
    <2> QED BY <1>1, <2>2, <2>3, <2>4 DEF Reached, NodeAt
  <1>4. ASSUME NEW i \in 1 .. Len(v.nodes) PROVE Followed(v, gs, i)
    <2>1. Followed(w, gs, i) BY <1>4 DEF Whole
    <2>2. w.nodes[i].depth \in Nat BY <1>4, StopsHave
    <2>3. w.nodes[i].id \in w.seen BY <1>4 DEF Apart
    <2> QED BY <1>4, <2>1, <2>2, <2>3 DEF Followed
  <1> QED BY <1>2, <1>3, <1>4

\* With more graphs, fewer links are in all of them.
LEMMA LeadsToFewer ==
  ASSUME NEW gs, NEW hs, gs \subseteq hs, NEW b PROVE LeadsTo(hs, b) \subseteq LeadsTo(gs, b)
  <1>1. \A from \in [ToSet(Part) -> gs] : from \in [ToSet(Part) -> hs] OBVIOUS
  <1> QED BY <1>1 DEF LeadsTo

\* Another graph takes no link from those that are everywhere.
LEMMA WalkRelinked ==
  ASSUME NEW w, NEW gs, NEW hs, gs \subseteq hs, SnapInv(w, gs) PROVE SnapInv(w, hs)
  <1>1. \A b : LeadsTo(hs, b) \subseteq LeadsTo(gs, b) BY LeadsToFewer
  <1>2. Whole(w, hs) BY <1>1 DEF SnapInv, Whole, Followed
  <1>3. LoadedRight(w, hs) BY DEF SnapInv, LoadedRight, ReadFrom
  <1> QED BY <1>2, <1>3 DEF SnapInv

\* Only what was loaded, or what was lost, has changed.
LEMMA WalkRereads ==
  ASSUME NEW w, NEW v \in Walks, NEW gs, SnapInv(w, gs),
         v.level = w.level, v.next = w.next, v.nodes = w.nodes, v.root = w.root, v.seen = w.seen,
         v.depth = w.depth, v.cap = w.cap, v.truncated = w.truncated, v.pc = w.pc,
         w.lost \subseteq v.lost, LoadedRight(v, gs)
  PROVE  SnapInv(v, gs)
  <1>1. Apart(v) BY DEF SnapInv, Apart
  <1>2. \A c, k : k \in Int /\ Reached(w, c, k) => Reached(v, c, k) BY DEF Reached, NodeAt
  <1>3. w \in Walks /\ Apart(w) /\ Whole(w, gs) BY DEF SnapInv
  <1>4. v.pc = "done" /\ ~v.truncated => v.level = << >> /\ v.next = << >> BY <1>3 DEF Whole
  <1>5. Whole(v, gs) BY <1>2, <1>3, <1>4, WholeGoesOn
  <1> QED BY <1>1, <1>5 DEF SnapInv

\* There is no room for the next bead.
LEMMA WalkFull ==
  ASSUME NEW w, NEW gs, SnapInv(w, gs)
  PROVE  SnapInv([w EXCEPT !.pc = "done", !.truncated = TRUE], gs)
  <1> DEFINE v == [w EXCEPT !.pc = "done", !.truncated = TRUE]
  <1>1. w \in Walks BY DEF SnapInv
  <1>2. "done" \in At /\ TRUE \in Verdicts BY DEF At, Verdicts
  <1>3. v \in Walks /\ Has(v, "done", w.root, w.cap, w.via, w.level, w.depth, w.next, w.nodes, w.seen, TRUE, w.loaded, w.lost)
    BY <1>1, <1>2, WalkEnds
  <1> HIDE DEF v
  <1>4. Apart(v) BY <1>3 DEF SnapInv, Apart, Has
  <1>5. Whole(v, gs) BY <1>3 DEF Whole, Has
  <1>6. DueOf(v) = DueOf(w) BY <1>3 DEF Has, DueOf
  <1>7. LoadedRight(v, gs) BY <1>3, <1>6 DEF SnapInv, LoadedRight, Has
  <1> QED BY <1>3, <1>4, <1>5, <1>7 DEF SnapInv, v

\* Nothing is left to list.
LEMMA WalkOver ==
  ASSUME NEW w, NEW gs, SnapInv(w, gs), w.level = << >>, w.next = << >>
  PROVE  SnapInv([w EXCEPT !.pc = "done"], gs)
  <1> DEFINE v == [w EXCEPT !.pc = "done"]
  <1>1. w \in Walks BY DEF SnapInv
  <1>2. "done" \in At BY DEF At
  <1>3. v \in Walks /\ Has(v, "done", w.root, w.cap, w.via, w.level, w.depth, w.next, w.nodes, w.seen, w.truncated, w.loaded, w.lost)
    BY <1>1, <1>2, WalkStops
  <1> HIDE DEF v
  <1>4. Apart(v) BY <1>3 DEF SnapInv, Apart, Has
  <1>5. \A c, k : k \in Int /\ Reached(w, c, k) => Reached(v, c, k) BY <1>3 DEF Reached, NodeAt, Has
  <1>6. Apart(w) /\ Whole(w, gs) BY DEF SnapInv
  <1>7. /\ v.nodes = w.nodes /\ v.root = w.root /\ v.seen = w.seen /\ v.depth = w.depth
        /\ v.truncated = w.truncated /\ v.level = << >> /\ v.next = << >> /\ v.lost = w.lost
    BY <1>3 DEF Has
  <1>8. Whole(v, gs) BY <1>1, <1>3, <1>5, <1>6, <1>7, WholeGoesOn
  <1>9. LoadedRight(v, gs) BY <1>7 DEF LoadedRight
  <1> QED BY <1>3, <1>4, <1>8, <1>9 DEF SnapInv, v

\* The beads that were queued are the next level.
LEMMA WalkDeeper ==
  ASSUME NEW w, NEW gs, SnapInv(w, gs), w.level = << >>, w.pc = "level"
  PROVE  SnapInv([w EXCEPT !.level = w.next, !.next = << >>, !.depth = w.depth + 1, !.loaded = << >>], gs)
  <1> DEFINE v == [w EXCEPT !.level = w.next, !.next = << >>, !.depth = w.depth + 1, !.loaded = << >>]
  <1>1. w \in Walks /\ w.depth \in Nat /\ w.next \in Seq(Node) BY WalkHas DEF SnapInv
  <1>2. w.next \in Queue /\ << >> \in Queue /\ w.depth + 1 \in Depths /\ << >> \in Loads
    BY <1>1, NothingLoaded DEF Queue, Depths
  <1> DEFINE x == w.next
             y == << >>
             d == w.depth + 1
             m == << >>
  <1>3. v = [w EXCEPT !.level = x, !.next = y, !.depth = d, !.loaded = m] OBVIOUS
  <1> HIDE DEF v, x, y, d, m
  <1>4. v \in Walks /\ Has(v, w.pc, w.root, w.cap, w.via, x, d, y, w.nodes, w.seen, w.truncated, m, w.lost)
    <2>1. x \in Queue /\ y \in Queue /\ d \in Depths /\ m \in Loads BY <1>2 DEF x, y, d, m
    <2> QED BY <1>1, <1>3, <2>1, WalkDescends
  <1>5. /\ v.pc = "level" /\ v.root = w.root /\ v.cap = w.cap /\ v.level = w.next /\ v.depth = w.depth + 1
        /\ v.next = << >> /\ v.nodes = w.nodes /\ v.seen = w.seen /\ v.truncated = w.truncated
        /\ v.loaded = << >> /\ v.lost = w.lost
    BY <1>4 DEF Has, x, y, d, m
  <1>6. Apart(w) /\ Whole(w, gs) BY DEF SnapInv
  <1>7. (\A c : ~In(c, << >>)) /\ Injective(<< >>) BY EmptyIn
  <1>8. Apart(v)
    <2>1. \A i \in 1 .. Len(w.nodes) : w.nodes[i].depth <= w.depth + 1
      <3>1. \A i \in 1 .. Len(w.nodes) : w.nodes[i].depth \in Nat BY <1>1, StopsHave
      <3> QED BY <1>1, <1>6, <3>1 DEF Apart
    <2> QED BY <1>5, <1>6, <1>7, <2>1 DEF Apart
  <1>9. ASSUME NEW c, NEW k, k \in Int, Reached(w, c, k) PROVE Reached(v, c, k)
    BY <1>5, <1>7, <1>9 DEF Reached, NodeAt
  <1>10. Whole(v, gs) BY <1>1, <1>4, <1>5, <1>6, <1>9, WholeGoesOn
  <1>11. LoadedRight(v, gs) BY <1>5 DEF LoadedRight
  <1> QED BY <1>4, <1>8, <1>10, <1>11 DEF SnapInv, v, x, y, d, m

\* Over SQL what was loaded of the level is kept; by the CLI it is dropped.
LEMMA OnwardIs ==
  ASSUME NEW w \in Walks
  PROVE  LET v == Onward(w)
         IN v \in Walks /\ Has(v, w.pc, w.root, w.cap, w.via, w.level, w.depth, w.next, w.nodes, w.seen, w.truncated,
                               IF w.via = "sql" THEN w.loaded ELSE << >>, w.lost)
  <1> DEFINE m == IF w.via = "sql" THEN w.loaded ELSE << >>
  <1>1. m \in Loads BY WalkHas, NothingLoaded
  <1>2. Onward(w) = [w EXCEPT !.loaded = m]
    <2>1. CASE w.via = "sql"
      <3>1. m = w.loaded BY <2>1
      <3>2. Onward(w) = [w EXCEPT !.loaded = w.loaded] BY <2>1 DEF Onward
      <3> QED BY <3>1, <3>2
    <2>2. CASE w.via # "sql"
      <3>1. m = << >> BY <2>2
      <3>2. Onward(w) = [w EXCEPT !.loaded = << >>] BY <2>2 DEF Onward
      <3> QED BY <3>1, <3>2
    <2> QED BY <2>1, <2>2
  <1> HIDE DEF m
  <1>3. LET v == [w EXCEPT !.loaded = m]
        IN v \in Walks /\ Has(v, w.pc, w.root, w.cap, w.via, w.level, w.depth, w.next, w.nodes, w.seen, w.truncated, m, w.lost)
    BY <1>1, WalkLoads
  <1> QED BY <1>2, <1>3 DEF m

\* What is loaded of the rest of a level.
LEMMA StillLoaded ==
  ASSUME NEW w \in Walks, NEW v \in Walks, NEW gs, LoadedRight(w, gs), w.level # << >>, v.level = Tail(w.level),
         v.via = w.via, v.loaded = (IF w.via = "sql" THEN w.loaded ELSE << >>), w.lost \subseteq v.lost
  PROVE  LoadedRight(v, gs)
  <1>1. w.level \in Seq(Node) /\ v.level \in Seq(Node) BY WalkHas
  <1>2. CASE w.via = "sql"
    <2>1. \A c : In(c, v.level) => In(c, w.level) BY <1>1, TailParts
    <2>2. \A c : c \in ToSet(v.level) => c \in ToSet(w.level) BY <1>1, <2>1, InSet
    <2>3. DueOf(v) \subseteq DueOf(w) BY <1>2, <2>2 DEF DueOf
    <2> QED BY <1>2, <2>3 DEF LoadedRight
  <1>3. CASE w.via # "sql" BY <1>3, NothingLoaded DEF LoadedRight
  <1> QED BY <1>2, <1>3

\* A bead is passed over: it names nothing, or it cannot be read.
LEMMA WalkDrops ==
  ASSUME NEW w, NEW v \in Walks, NEW gs, SnapInv(w, gs), w.level # << >>, v.level = Tail(w.level),
         v.next = w.next, v.nodes = w.nodes, v.root = w.root, v.seen = w.seen, v.depth = w.depth, v.cap = w.cap,
         v.truncated = w.truncated, v.pc = w.pc, v.pc = "level", v.via = w.via, w.lost \subseteq v.lost,
         Head(w.level) \in Missing \union v.lost, v.loaded = (IF w.via = "sql" THEN w.loaded ELSE << >>)
  PROVE  SnapInv(v, gs)
  <1>1. w \in Walks /\ Apart(w) /\ Whole(w, gs) /\ LoadedRight(w, gs) BY DEF SnapInv
  <1>2. w.level \in Seq(Node) BY <1>1, WalkHas
  <1>3. /\ \A c : In(c, w.level) <=> c = Head(w.level) \/ In(c, v.level)
        /\ Injective(w.level) => Injective(v.level)
    BY <1>2, TailParts
  <1>4. Apart(v) BY <1>1, <1>3 DEF Apart
  <1>5. ASSUME NEW c, NEW k, k \in Int, Reached(w, c, k) PROVE Reached(v, c, k)
    BY <1>3, <1>5 DEF Reached, NodeAt
  <1>6. Whole(v, gs) BY <1>1, <1>5, WholeGoesOn
  <1>7. LoadedRight(v, gs) BY <1>1, StillLoaded
  <1> QED BY <1>4, <1>6, <1>7 DEF SnapInv

\* The two ways to pass over a bead.
LEMMA WalkMisses ==
  ASSUME NEW w, NEW gs, SnapInv(w, gs), w.level # << >>, w.pc = "level"
  PROVE  /\ Head(w.level) \in Missing => SnapInv(Onward([w EXCEPT !.level = Tail(@)]), gs)
         /\ SnapInv(Onward([w EXCEPT !.level = Tail(@), !.lost = @ \union {Head(w.level)}]), gs)
  <1> DEFINE l == Tail(w.level)
             f == w.lost \union {Head(w.level)}
             u == [w EXCEPT !.level = l]
             y == [w EXCEPT !.level = l, !.lost = f]
  <1>1. w \in Walks BY DEF SnapInv
  <1>2. w.level \in Seq(Node) /\ w.lost \subseteq Node BY <1>1, WalkHas
  <1>3. l \in Queue /\ f \in Beads /\ w.lost \subseteq f /\ Head(w.level) \in f
    BY <1>2, TailParts DEF Queue, Beads
  <1>4. l = Tail(w.level) OBVIOUS
  <1>5. /\ Onward([w EXCEPT !.level = Tail(@)]) = Onward(u)
        /\ Onward([w EXCEPT !.level = Tail(@), !.lost = @ \union {Head(w.level)}]) = Onward(y)
    OBVIOUS
  <1> HIDE DEF l, f
  <1>6. u \in Walks /\ Has(u, w.pc, w.root, w.cap, w.via, l, w.depth, w.next, w.nodes, w.seen, w.truncated, w.loaded, w.lost)
    BY <1>1, <1>3, WalkPasses
  <1>7. y \in Walks /\ Has(y, w.pc, w.root, w.cap, w.via, l, w.depth, w.next, w.nodes, w.seen, w.truncated, w.loaded, f)
    BY <1>1, <1>3, WalkGivesUp
  <1> HIDE DEF u, y
  <1>8. Head(w.level) \in Missing => SnapInv(Onward(u), gs)
    <2> DEFINE v == Onward(u)
    <2>1. v \in Walks /\ Has(v, u.pc, u.root, u.cap, u.via, u.level, u.depth, u.next, u.nodes, u.seen, u.truncated,
                             IF u.via = "sql" THEN u.loaded ELSE << >>, u.lost) BY <1>6, OnwardIs
    <2> HIDE DEF v
    <2>2. /\ v.pc = w.pc /\ v.root = w.root /\ v.cap = w.cap /\ v.via = w.via /\ v.level = Tail(w.level)
          /\ v.depth = w.depth /\ v.next = w.next /\ v.nodes = w.nodes /\ v.seen = w.seen
          /\ v.truncated = w.truncated /\ v.loaded = (IF w.via = "sql" THEN w.loaded ELSE << >>) /\ v.lost = w.lost
      BY <1>4, <1>6, <2>1 DEF Has
    <2>3. Head(w.level) \in Missing => SnapInv(v, gs) BY <2>1, <2>2, WalkDrops
    <2> QED BY <2>3 DEF v
  <1>9. SnapInv(Onward(y), gs)
    <2> DEFINE v == Onward(y)
    <2>1. v \in Walks /\ Has(v, y.pc, y.root, y.cap, y.via, y.level, y.depth, y.next, y.nodes, y.seen, y.truncated,
                             IF y.via = "sql" THEN y.loaded ELSE << >>, y.lost) BY <1>7, OnwardIs
    <2> HIDE DEF v
    <2>2. /\ v.pc = w.pc /\ v.root = w.root /\ v.cap = w.cap /\ v.via = w.via /\ v.level = Tail(w.level)
          /\ v.depth = w.depth /\ v.next = w.next /\ v.nodes = w.nodes /\ v.seen = w.seen
          /\ v.truncated = w.truncated /\ v.loaded = (IF w.via = "sql" THEN w.loaded ELSE << >>) /\ v.lost = f
      BY <1>4, <1>7, <2>1 DEF Has
    <2>3. SnapInv(v, gs) BY <1>3, <2>1, <2>2, WalkDrops
    <2> QED BY <2>3 DEF v
  <1> QED BY <1>5, <1>8, <1>9

\* The parts of what is read of a bead.
LEMMA PartsAre == ToSet(Part) = {"edges", "children", "texts"}
  <1>1. DOMAIN Part = 1 .. 3 /\ Part[1] = "edges" /\ Part[2] = "children" /\ Part[3] = "texts" BY DEF Part
  <1>2. ToSet(Part) = {Part[i] : i \in 1 .. 3} BY <1>1 DEF ToSet
  <1> HIDE DEF Part
  <1>3. \A i \in 1 .. 3 : i = 1 \/ i = 2 \/ i = 3 OBVIOUS
  <1>4. 1 \in 1 .. 3 /\ 2 \in 1 .. 3 /\ 3 \in 1 .. 3 OBVIOUS
  <1>5. \A x \in ToSet(Part) : x = "edges" \/ x = "children" \/ x = "texts" BY <1>1, <1>2, <1>3
  <1>6. "edges" \in ToSet(Part) /\ "children" \in ToSet(Part) /\ "texts" \in ToSet(Part) BY <1>1, <1>2, <1>4
  <1> QED BY <1>5, <1>6

LEMMA OthersAre ==
  ASSUME NEW part, NEW s \in Seq(Node), NEW b PROVE Others(part, s, b) \in Seq(Node)
  <1> DEFINE places == {j \in DOMAIN s : s[j] # b /\ PartOf[s[j]] = part}
  <1>1. DOMAIN s = 1 .. Len(s) OBVIOUS
  <1>2. places \subseteq 1 .. Len(s) BY <1>1
  <1>3. Others(part, s, b) = PickedAt(s, places) BY DEF Others
  <1> HIDE DEF places
  <1> QED BY <1>2, <1>3, PickedSeq

LEMMA PartReadIs ==
  ASSUME NEW g \in [Node -> Seq(Node)], NEW b \in Node, NEW part \in ToSet(Part)
  PROVE  PartRead(part, g, b) \in Seq(Node)
  <1>1. part = "edges" \/ part = "children" \/ part = "texts" BY PartsAre
  <1>2. Real(b) \in Node BY RetrievalAssumption DEF Real, Named
  <1>3. g[b] \in Seq(Node) /\ g[Real(b)] \in Seq(Node) BY <1>2
  <1>4. /\ Edges(g, b) \in Seq(Node) /\ Children(g, b) \in Seq(Node) /\ Mentions(g, b) \in Seq(Node)
    BY <1>3, OthersAre DEF Edges, Children, Mentions
  <1> QED BY <1>1, <1>4 DEF PartRead

\* A map with one entry more.
LEMMA WithIs ==
  ASSUME NEW f, NEW x, NEW v
  PROVE  /\ DOMAIN With(f, x, v) = DOMAIN f \union {x}
         /\ \A y \in DOMAIN f \union {x} : With(f, x, v)[y] = IF y = x THEN v ELSE f[y]
  BY DEF With

LEMMA LoadsGrow ==
  ASSUME NEW m \in Loads, NEW part \in ToSet(Part), NEW due \in Beads, NEW val \in [due -> Queue]
  PROVE  With(m, part, val) \in Loads
  <1> DEFINE L == UNION {[bs -> Queue] : bs \in Beads}
             P == SUBSET ToSet(Part)
             h == With(m, part, val)
             D == DOMAIN m \union {part}
  <1>1. Loads = UNION {[ps -> L] : ps \in P} BY DEF Loads
  <1>2. val \in L OBVIOUS
  <1> HIDE DEF L
  <1>3. PICK ps \in P : m \in [ps -> L] BY <1>1
  <1>4. D \in P BY <1>3
  <1>5. h = [y \in D |-> IF y = part THEN val ELSE m[y]] BY DEF With
  <1>6. \A y \in D : (IF y = part THEN val ELSE m[y]) \in L BY <1>2, <1>3
  <1> HIDE DEF h, D, P
  <1>7. h \in [D -> L] BY <1>5, <1>6
  <1> QED BY <1>1, <1>4, <1>7 DEF h

LEMMA DueIs ==
  ASSUME NEW w \in Walks, w.level # << >>
  PROVE  DueOf(w) \in Beads /\ Head(w.level) \in DueOf(w) /\ DueOf(w) \subseteq Node
  <1>1. w.level \in Seq(Node) BY WalkHas
  <1>2. Head(w.level) \in Node /\ In(Head(w.level), w.level) BY <1>1, TailParts
  <1>3. ToSet(w.level) \subseteq Node BY <1>1 DEF ToSet
  <1>4. Head(w.level) \in ToSet(w.level) BY <1>1, <1>2, InSet
  <1> QED BY <1>2, <1>3, <1>4 DEF DueOf, Beads

\* A part is read, of all but some of the beads that are due.
LEMMA WalkReads ==
  ASSUME NEW w, NEW gs, SnapInv(w, gs), w.level # << >>, NEW part \in ToSet(Part),
         NEW g \in gs, g \in [Node -> Seq(Node)], NEW failed \in SUBSET DueOf(w), NEW v \in Walks,
         Has(v, w.pc, w.root, w.cap, w.via, w.level, w.depth, w.next, w.nodes, w.seen, w.truncated,
             With(w.loaded, part, [b \in DueOf(w) |-> IF b \in failed THEN << >> ELSE PartRead(part, g, b)]),
             w.lost \union failed)
  PROVE  SnapInv(v, gs)
  <1> DEFINE m == [b \in DueOf(w) |-> IF b \in failed THEN << >> ELSE PartRead(part, g, b)]
  <1>1. w \in Walks /\ LoadedRight(w, gs) BY DEF SnapInv
  <1>2. /\ v.level = w.level /\ v.next = w.next /\ v.nodes = w.nodes /\ v.root = w.root /\ v.seen = w.seen
        /\ v.depth = w.depth /\ v.cap = w.cap /\ v.truncated = w.truncated /\ v.pc = w.pc
        /\ v.lost = w.lost \union failed /\ v.via = w.via /\ v.loaded = With(w.loaded, part, m)
    BY DEF Has
  <1>3. DueOf(v) = DueOf(w) /\ DueOf(w) \subseteq Node BY <1>1, <1>2, DueIs DEF DueOf
  <1>4. ASSUME NEW b \in DueOf(w)
        PROVE  m[b] \in Seq(Node) /\ (b \notin failed => m[b] = PartRead(part, g, b))
    <2>1. PartRead(part, g, b) \in Seq(Node) BY <1>3, PartReadIs
    <2> QED BY <2>1
  <1> HIDE DEF m
  <1>5. LoadedRight(v, gs)
    <2> SUFFICES ASSUME NEW q \in DOMAIN v.loaded, NEW b \in DueOf(w)
                 PROVE  v.loaded[q][b] \in Seq(Node) /\ (b \notin v.lost => ReadFrom(gs, q, b, v.loaded[q][b]))
      BY <1>2, <1>3 DEF LoadedRight
    <2> DEFINE h == With(w.loaded, part, m)
    <2>0. DOMAIN h = DOMAIN w.loaded \union {part} BY WithIs
    <2>1. \A r \in DOMAIN w.loaded \union {part} : h[r] = IF r = part THEN m ELSE w.loaded[r]
      <3>1. h = [y \in DOMAIN w.loaded \union {part} |-> IF y = part THEN m ELSE w.loaded[y]] BY DEF With
      <3> HIDE DEF h
      <3> QED BY <3>1
    <2>h. v.loaded = h BY <1>2
    <2> HIDE DEF h
    <2>2. q \in DOMAIN w.loaded \union {part} /\ v.loaded[q] = IF q = part THEN m ELSE w.loaded[q]
      BY <2>0, <2>1, <2>h
    <2>3. CASE q = part BY <1>2, <1>4, <2>2, <2>3 DEF ReadFrom
    <2>4. CASE q # part BY <1>1, <1>2, <2>2, <2>4 DEF LoadedRight
    <2> QED BY <2>3, <2>4
  <1> QED BY <1>2, <1>5, WalkRereads

\* A part is read, but not of the beads that failed.
PartLost(w, part, g, failed) ==
  [w EXCEPT !.lost = @ \union failed,
     !.loaded = With(@, part, [b \in DueOf(w) |-> IF b \in failed THEN << >> ELSE PartRead(part, g, b)])]

\* The two ways to read a part.
LEMMA WalkLoadsPart ==
  ASSUME NEW w, NEW gs, SnapInv(w, gs), w.level # << >>, NEW part \in ToSet(Part),
         NEW g \in gs, g \in [Node -> Seq(Node)], NEW failed \in SUBSET DueOf(w)
  PROVE  /\ SnapInv([w EXCEPT !.loaded = With(@, part, [b \in DueOf(w) |-> PartRead(part, g, b)])], gs)
         /\ SnapInv(PartLost(w, part, g, failed), gs)
  <1> DEFINE m(x) == [b \in DueOf(w) |-> IF b \in x THEN << >> ELSE PartRead(part, g, b)]
             h(x) == With(w.loaded, part, m(x))
             f == w.lost \union failed
  <1>1. w \in Walks BY DEF SnapInv
  <1>2. w.lost \subseteq Node /\ w.loaded \in Loads /\ DueOf(w) \in Beads /\ DueOf(w) \subseteq Node BY <1>1, WalkHas, DueIs
  <1>3. ASSUME NEW x \in SUBSET DueOf(w) PROVE h(x) \in Loads
    <2>1. ASSUME NEW b \in DueOf(w) PROVE (IF b \in x THEN << >> ELSE PartRead(part, g, b)) \in Queue
      <3>1. PartRead(part, g, b) \in Seq(Node) BY <1>2, PartReadIs
      <3> QED BY <3>1 DEF Queue
    <2>2. m(x) \in [DueOf(w) -> Queue] BY <2>1
    <2> HIDE DEF m
    <2> QED BY <1>2, <2>2, LoadsGrow
  <1>4. m({}) = [b \in DueOf(w) |-> PartRead(part, g, b)] OBVIOUS
  <1>5. f \in Beads /\ w.lost \union {} = w.lost BY <1>2 DEF Beads
  <1>6. {} \in SUBSET DueOf(w) OBVIOUS
  <1> DEFINE h1 == h({})
             h2 == h(failed)
             v1 == [w EXCEPT !.loaded = h1]
             v2 == [w EXCEPT !.lost = f, !.loaded = h2]
  <1>7. h1 \in Loads /\ h2 \in Loads BY <1>3, <1>6
  <1>8. v1 = [w EXCEPT !.loaded = With(@, part, [b \in DueOf(w) |-> PartRead(part, g, b)])] BY <1>4
  <1>9. v2 = PartLost(w, part, g, failed) BY DEF PartLost
  <1>h1. h1 = With(w.loaded, part, [b \in DueOf(w) |-> IF b \in {} THEN << >> ELSE PartRead(part, g, b)]) OBVIOUS
  <1>h2. h2 = With(w.loaded, part, [b \in DueOf(w) |-> IF b \in failed THEN << >> ELSE PartRead(part, g, b)]) OBVIOUS
  <1> HIDE DEF h1, h2
  <1>10. v1 \in Walks /\ Has(v1, w.pc, w.root, w.cap, w.via, w.level, w.depth, w.next, w.nodes, w.seen, w.truncated, h1, w.lost)
    BY <1>1, <1>7, WalkLoads
  <1>f. f = w.lost \union failed OBVIOUS
  <1> HIDE DEF f
  <1>11. v2 \in Walks /\ Has(v2, w.pc, w.root, w.cap, w.via, w.level, w.depth, w.next, w.nodes, w.seen, w.truncated, h2, f)
    BY <1>1, <1>5, <1>7, WalkLoses
  <1> HIDE DEF v1, v2
  <1>12. SnapInv(v1, gs)
    <2> DEFINE no == {}
    <2>1. no \in SUBSET DueOf(w) /\ w.lost = w.lost \union no OBVIOUS
    <2>2. h1 = With(w.loaded, part, [b \in DueOf(w) |-> IF b \in no THEN << >> ELSE PartRead(part, g, b)]) BY <1>h1
    <2> HIDE DEF no
    <2>3. Has(v1, w.pc, w.root, w.cap, w.via, w.level, w.depth, w.next, w.nodes, w.seen, w.truncated,
              With(w.loaded, part, [b \in DueOf(w) |-> IF b \in no THEN << >> ELSE PartRead(part, g, b)]), w.lost \union no)
      BY <1>10, <2>1, <2>2
    <2> QED BY <1>10, <2>1, <2>3, WalkReads
  <1>13. SnapInv(v2, gs) BY <1>11, <1>h2, <1>f, WalkReads
  <1> QED BY <1>8, <1>9, <1>12, <1>13

\* A list with one entry more.
LEMMA OneMore ==
  ASSUME NEW T, NEW s \in Seq(T), NEW e \in T
  PROVE  /\ Append(s, e) \in Seq(T) /\ Len(Append(s, e)) = Len(s) + 1 /\ Len(s) \in Nat
         /\ \A i \in 1 .. Len(s) : i \in 1 .. Len(Append(s, e)) /\ Append(s, e)[i] = s[i]
         /\ \A i \in 1 .. Len(Append(s, e)) :
              (i \in 1 .. Len(s) /\ Append(s, e)[i] = s[i]) \/ (i = Len(s) + 1 /\ Append(s, e)[i] = e)
         /\ Len(s) + 1 \in 1 .. Len(Append(s, e)) /\ Append(s, e)[Len(s) + 1] = e
  <1> DEFINE a == Append(s, e)
             n == Len(s)
  <1>1. a \in Seq(T) /\ Len(a) = n + 1 /\ n \in Nat OBVIOUS
  <1>2. \A i \in 1 .. n : a[i] = s[i] OBVIOUS
  <1>3. a[n + 1] = e OBVIOUS
  <1> HIDE DEF a, n
  <1>4. (\A i \in 1 .. n + 1 : i \in 1 .. n \/ i = n + 1) /\ 1 .. n \subseteq 1 .. n + 1 /\ n + 1 \in 1 .. n + 1
    BY <1>1
  <1>5. /\ a \in Seq(T) /\ Len(a) = n + 1 /\ n \in Nat
        /\ \A i \in 1 .. n : i \in 1 .. Len(a) /\ a[i] = s[i]
        /\ \A i \in 1 .. Len(a) : (i \in 1 .. n /\ a[i] = s[i]) \/ (i = n + 1 /\ a[i] = e)
        /\ n + 1 \in 1 .. Len(a) /\ a[n + 1] = e
    <2>1. \A i \in 1 .. n + 1 : (i \in 1 .. n /\ a[i] = s[i]) \/ (i = n + 1 /\ a[i] = e)
      <3> TAKE i \in 1 .. n + 1
      <3>1. CASE i \in 1 .. n BY <1>2, <3>1
      <3>2. CASE i = n + 1 BY <1>3, <3>2
      <3> QED BY <1>4, <3>1, <3>2
    <2> QED BY <1>1, <1>2, <1>3, <1>4, <2>1
  <1> QED BY <1>5 DEF a, n

\* The next bead is listed, and what it leads to is queued as far as there is room.
LEMMA WalkVisits ==
  ASSUME NEW w, NEW gs, SnapInv(w, gs), w.level # << >>, w.pc = "level", Len(w.nodes) < w.cap,
         Head(w.level) \notin Missing, NEW v \in Walks, NEW f \in Seq(Node), Injective(f), NEW X \in SUBSET Node,
         Has(v, w.pc, w.root, w.cap, w.via, Tail(w.level), w.depth, w.next \o f,
             Append(w.nodes, [id |-> Head(w.level), depth |-> w.depth]), w.seen \union X, v.truncated,
             IF w.via = "sql" THEN w.loaded ELSE << >>, w.lost),
         \A c : In(c, f) => c \notin w.seen /\ c \in X,
         ~v.truncated => /\ ~w.truncated
                         /\ \A c \in X : In(c, f)
                         /\ w.depth < MaxDepth /\ Head(w.level) \notin w.lost =>
                              \A c \in LeadsTo(gs, Head(w.level)) : c \in w.seen \union X
  PROVE  SnapInv(v, gs)
  <1> DEFINE b == Head(w.level)
             e == [id |-> b, depth |-> w.depth]
             n == Len(w.nodes)
             ns == Append(w.nodes, e)
             x == w.next \o f
             t == Tail(w.level)
             m == IF w.via = "sql" THEN w.loaded ELSE << >>
  <1>1. w \in Walks /\ Apart(w) /\ Whole(w, gs) /\ LoadedRight(w, gs) BY DEF SnapInv
  <1>2. /\ w.level \in Seq(Node) /\ w.next \in Seq(Node) /\ w.nodes \in Seq(Stop) /\ w.depth \in Nat
        /\ w.cap \in Caps /\ w.seen \subseteq Node BY <1>1, WalkHas
  <1>3. w.cap \in Nat BY <1>2, RetrievalAssumption
  <1>4. /\ b \in Node /\ In(b, w.level) /\ \A c : In(c, w.level) <=> c = b \/ In(c, t)
        /\ Injective(w.level) => Injective(t) /\ ~In(b, t)
    BY <1>2, TailParts
  <1>5. e \in Stop /\ e.id = b /\ e.depth = w.depth BY <1>2, <1>4 DEF Stop
  <1>6. /\ v.pc = "level" /\ v.root = w.root /\ v.cap = w.cap /\ v.via = w.via /\ v.level = t /\ v.depth = w.depth
        /\ v.next = x /\ v.nodes = ns /\ v.seen = w.seen \union X /\ v.loaded = m /\ v.lost = w.lost
    BY DEF Has
  <1>7. (\A c : In(c, x) <=> In(c, w.next) \/ In(c, f))
        /\ ((Injective(w.next) /\ \A c : ~(In(c, w.next) /\ In(c, f))) => Injective(x))
    BY <1>2, Joined2
  <1> HIDE DEF e, ns, x, t, m
  <1>8. /\ Len(ns) = n + 1 /\ n \in Nat
        /\ \A i \in 1 .. n : i \in 1 .. n + 1 /\ ns[i] = w.nodes[i]
        /\ \A i \in 1 .. n + 1 : (i \in 1 .. n /\ ns[i] = w.nodes[i]) \/ (i = n + 1 /\ ns[i] = e)
        /\ n + 1 \in 1 .. n + 1 /\ ns[n + 1] = e
    <2> HIDE DEF b
    <2>1. ns = Append(w.nodes, e) BY DEF ns
    <2> QED BY <1>2, <1>5, <2>1, OneMore
  <1> HIDE DEF n, b
  <1>b. b \notin Missing /\ n < w.cap /\ b = Head(w.level) /\ n = Len(w.nodes) BY DEF b, n
  <1>9. /\ \A i, j \in 1 .. n : w.nodes[i].id = w.nodes[j].id => i = j
        /\ Injective(w.level) /\ Injective(w.next)
        /\ \A c : ~(In(c, w.level) /\ In(c, w.next))
        /\ \A i \in 1 .. n : ~In(w.nodes[i].id, w.level) /\ ~In(w.nodes[i].id, w.next)
        /\ \A i \in 1 .. n : w.nodes[i].id \in w.seen /\ w.nodes[i].depth <= w.depth
        /\ \A c : In(c, w.level) \/ In(c, w.next) => c \in w.seen
    BY <1>1, <1>b DEF Apart
  <1>10. ASSUME NEW i \in 1 .. n + 1
         PROVE  /\ ~In(ns[i].id, t) /\ ~In(ns[i].id, x) /\ ns[i].id \in w.seen /\ ns[i].depth <= w.depth
                /\ \A j \in 1 .. n + 1 : ns[i].id = ns[j].id => i = j
    <2>1. CASE i \in 1 .. n /\ ns[i] = w.nodes[i]
      <3>1. ns[i].id # b BY <1>4, <1>9, <2>1
      <3>2. \A j \in 1 .. n + 1 : ns[i].id = ns[j].id => i = j BY <1>5, <1>8, <1>9, <2>1, <3>1
      <3> QED BY <1>4, <1>7, <1>9, <2>1, <3>2
    <2>2. CASE i = n + 1 /\ ns[i] = e
      <3>1. b \in w.seen BY <1>4, <1>9
      <3>2. ~In(b, x) BY <1>4, <1>7, <1>9, <3>1
      <3>3. ~In(b, t) BY <1>4, <1>9
      <3>4. \A j \in 1 .. n : w.nodes[j].id # b BY <1>4, <1>9
      <3>5. \A j \in 1 .. n + 1 : ns[i].id = ns[j].id => i = j BY <1>5, <1>8, <2>2, <3>4
      <3> QED BY <1>2, <1>5, <2>2, <3>1, <3>2, <3>3, <3>5
    <2> QED BY <1>8, <2>1, <2>2
  <1>11. Injective(t) /\ Injective(x) BY <1>4, <1>7, <1>9
  <1>12. \A c : ~(In(c, t) /\ In(c, x)) BY <1>4, <1>7, <1>9
  <1>13. \A c : In(c, t) \/ In(c, x) => c \in w.seen \union X BY <1>4, <1>7, <1>9
  <1>14. Len(v.nodes) <= v.cap /\ Len(v.nodes) = n + 1 BY <1>3, <1>6, <1>8, <1>b
  <1>15. Apart(v)
    <2>1. /\ \A i, j \in 1 .. Len(v.nodes) : v.nodes[i].id = v.nodes[j].id => i = j
          /\ \A i \in 1 .. Len(v.nodes) : ~In(v.nodes[i].id, v.level) /\ ~In(v.nodes[i].id, v.next)
          /\ \A i \in 1 .. Len(v.nodes) : v.nodes[i].id \in v.seen /\ v.nodes[i].depth <= v.depth
      BY <1>6, <1>10, <1>14
    <2>2. /\ Injective(v.level) /\ Injective(v.next) /\ \A c : ~(In(c, v.level) /\ In(c, v.next))
          /\ \A c : In(c, v.level) \/ In(c, v.next) => c \in v.seen
      BY <1>6, <1>11, <1>12, <1>13
    <2> QED BY <1>14, <2>1, <2>2 DEF Apart
  <1>16. ASSUME NEW c, NEW k, k \in Int, Reached(w, c, k) PROVE Reached(v, c, k)
    <2>1. CASE In(c, w.level) /\ w.depth <= k
      <3>1. CASE In(c, t) BY <1>6, <2>1, <3>1 DEF Reached
      <3>2. CASE c = b BY <1>5, <1>6, <1>8, <1>14, <2>1, <3>2 DEF Reached, NodeAt
      <3> QED BY <1>4, <2>1, <3>1, <3>2
    <2>2. CASE In(c, w.next) /\ w.depth + 1 <= k BY <1>6, <1>7, <2>2 DEF Reached
    <2>3. CASE NodeAt(w, c, k) BY <1>6, <1>8, <1>14, <1>b, <2>3 DEF Reached, NodeAt
    <2>4. CASE c \in Missing \union w.lost BY <1>6, <2>4 DEF Reached
    <2> QED BY <1>16, <2>1, <2>2, <2>3, <2>4 DEF Reached
  <1>17. Whole(v, gs)
    <2> SUFFICES ASSUME ~v.truncated
        PROVE /\ Reached(v, v.root, 0)
              /\ \A c \in v.seen : Reached(v, c, v.depth + 1)
              /\ \A i \in 1 .. Len(v.nodes) : Followed(v, gs, i)
      BY <1>6 DEF Whole
    <2>1. ~w.truncated /\ \A c \in X : In(c, f) OBVIOUS
    <2>2. w.depth < MaxDepth /\ b \notin w.lost => \A c \in LeadsTo(gs, b) : c \in v.seen BY <1>6, <1>b
    <2>3. Reached(v, v.root, 0) BY <1>1, <1>6, <1>16, <2>1 DEF Whole
    <2>4. ASSUME NEW c \in v.seen PROVE Reached(v, c, v.depth + 1)
      <3>1. CASE c \in w.seen
        <4>1. Reached(w, c, w.depth + 1) BY <1>1, <2>1, <3>1 DEF Whole
        <4> QED BY <1>2, <1>6, <1>16, <4>1
      <3>2. CASE c \in X
        <4>1. In(c, v.next) BY <1>6, <1>7, <2>1, <3>2
        <4> QED BY <1>2, <1>6, <4>1 DEF Reached
      <3> QED BY <1>6, <2>4, <3>1, <3>2
    <2>5. ASSUME NEW i \in 1 .. Len(v.nodes) PROVE Followed(v, gs, i)
      <3>1. CASE i \in 1 .. n /\ ns[i] = w.nodes[i]
        <4>1. Followed(w, gs, i) BY <1>1, <1>b, <2>1, <3>1 DEF Whole
        <4>2. w.nodes[i].depth \in Nat BY <1>1, <1>b, <3>1, StopsHave
        <4>3. v.nodes[i] = w.nodes[i] BY <1>6, <3>1
        <4> QED BY <1>6, <1>16, <4>1, <4>2, <4>3 DEF Followed
      <3>2. CASE i = n + 1 /\ ns[i] = e
        <4>1. v.nodes[i].id = b /\ v.nodes[i].depth = w.depth BY <1>5, <1>6, <3>2
        <4> QED BY <1>6, <2>2, <2>4, <4>1 DEF Followed
      <3> QED BY <1>8, <1>14, <3>1, <3>2
    <2> QED BY <2>3, <2>4, <2>5
  <1>18. LoadedRight(v, gs)
    <2>1. v.level = Tail(w.level) /\ v.loaded = (IF w.via = "sql" THEN w.loaded ELSE << >>) /\ w.lost \subseteq v.lost
      BY <1>6 DEF t, m
    <2> QED BY <1>1, <1>6, <2>1, StillLoaded
  <1> QED BY <1>15, <1>17, <1>18 DEF SnapInv

\* What was loaded of a bead, as one list; it holds what the bead leads to.
Gathered(w, b) == InParts([part \in ToSet(Part) |-> w.loaded[part][b]])

LEMMA GatheredIs ==
  ASSUME NEW w \in Walks, NEW gs, LoadedRight(w, gs), w.level # << >>, DOMAIN w.loaded = ToSet(Part)
  PROVE  /\ Gathered(w, Head(w.level)) \in Seq(Node)
         /\ Head(w.level) \notin w.lost => LeadsTo(gs, Head(w.level)) \subseteq Neighbors(Gathered(w, Head(w.level)))
  <1> DEFINE b == Head(w.level)
             p == [part \in ToSet(Part) |-> w.loaded[part][b]]
  <1>1. b \in DueOf(w) BY DueIs
  <1>2. ASSUME NEW part \in ToSet(Part)
        PROVE  /\ p[part] \in Seq(Node)
               /\ b \notin w.lost => \E g \in gs : p[part] = PartRead(part, g, b)
    BY <1>1 DEF LoadedRight, ReadFrom
  <1>3. InParts(p) \in Seq(Node)
    <2>1. p["edges"] \in Seq(Node) /\ p["children"] \in Seq(Node) /\ p["texts"] \in Seq(Node) BY <1>2, PartsAre
    <2> HIDE DEF p
    <2> QED BY <2>1 DEF InParts
  <1>4. Gathered(w, b) = InParts(p) BY DEF Gathered
  <1>5. ASSUME b \notin w.lost, NEW c \in LeadsTo(gs, b) PROVE c \in Neighbors(InParts(p))
    <2> DEFINE from == [part \in ToSet(Part) |-> CHOOSE g \in gs : p[part] = PartRead(part, g, b)]
    <2>1. ASSUME NEW part \in ToSet(Part) PROVE from[part] \in gs /\ p[part] = PartRead(part, from[part], b)
      <3>1. \E g \in gs : p[part] = PartRead(part, g, b) BY <1>2, <1>5
      <3> QED BY <3>1
    <2>2. from \in [ToSet(Part) -> gs] BY <2>1
    <2> HIDE DEF from
    <2>3. p = [part \in ToSet(Part) |-> PartRead(part, from[part], b)] BY <2>1
    <2> HIDE DEF p, b
    <2>4. c \in Neighbors(InParts([part \in ToSet(Part) |-> PartRead(part, from[part], b)]))
      BY <1>5, <2>2 DEF LeadsTo
    <2> QED BY <2>3, <2>4
  <1> QED BY <1>3, <1>4, <1>5

\* The room that is left is a number.
LEMMA RoomIs == ASSUME NEW w \in Walks PROVE Room(w) \in Nat
  <1>1. w.cap \in Caps /\ w.nodes \in Seq(Stop) /\ w.next \in Seq(Node) BY WalkHas
  <1>2. w.cap \in Int /\ Len(w.nodes) \in Int /\ Len(w.next) \in Int BY <1>1, RetrievalAssumption
  <1> QED BY <1>2 DEF Room

\* The bead that is next is listed, with what it leads to.
LEMMA WalkVisit ==
  ASSUME NEW w, NEW gs, SnapInv(w, gs), w.level # << >>, w.pc = "level", Len(w.nodes) < w.cap,
         Head(w.level) \notin Missing, DOMAIN w.loaded = ToSet(Part)
  PROVE  SnapInv(Onward(Listed(w, Head(w.level), Gathered(w, Head(w.level)))), gs)
  <1> DEFINE b == Head(w.level)
             ls == Gathered(w, b)
             ns == Append(w.nodes, [id |-> b, depth |-> w.depth])
             l == Tail(w.level)
             shown == [w EXCEPT !.nodes = ns, !.level = l]
             m == IF w.via = "sql" THEN w.loaded ELSE << >>
  <1>1. w \in Walks /\ LoadedRight(w, gs) BY DEF SnapInv
  <1>2. /\ w.level \in Seq(Node) /\ w.next \in Seq(Node) /\ w.nodes \in Seq(Stop) /\ w.depth \in Nat
        /\ w.seen \subseteq Node /\ w.truncated \in BOOLEAN
    BY <1>1, WalkHas
  <1>3. b \in Node /\ l \in Queue BY <1>2, TailParts DEF Queue
  <1>4. ns \in Stops
    <2>1. [id |-> b, depth |-> w.depth] \in Stop BY <1>2, <1>3 DEF Stop
    <2> QED BY <1>2, <2>1 DEF Stops
  <1>5. ls \in Seq(Node) /\ (b \notin w.lost => LeadsTo(gs, b) \subseteq Neighbors(ls)) BY <1>1, GatheredIs
  <1>6. Listed(w, b, ls) = IF w.depth < MaxDepth THEN Queued(shown, ls) ELSE shown BY DEF Listed
  <1>7. ns = Append(w.nodes, [id |-> Head(w.level), depth |-> w.depth]) /\ l = Tail(w.level) /\ b = Head(w.level)
        /\ m = (IF w.via = "sql" THEN w.loaded ELSE << >>)
    OBVIOUS
  <1>p. shown = [w EXCEPT !.nodes = ns, !.level = l] OBVIOUS
  <1> HIDE DEF ls, ns, l, m, shown, b
  <1>8. /\ shown \in Walks
        /\ Has(shown, w.pc, w.root, w.cap, w.via, l, w.depth, w.next, ns, w.seen, w.truncated, w.loaded, w.lost)
    <2>1. LET v == [w EXCEPT !.nodes = ns, !.level = l]
          IN v \in Walks /\ Has(v, w.pc, w.root, w.cap, w.via, l, w.depth, w.next, ns, w.seen, w.truncated, w.loaded, w.lost)
      BY <1>1, <1>3, <1>4, WalkLists
    <2> QED BY <1>p, <2>1
  <1>9. ASSUME NEW u \in Walks, NEW f \in Seq(Node), Injective(f), NEW X \in SUBSET Node,
               Has(u, w.pc, w.root, w.cap, w.via, l, w.depth, w.next \o f, ns, w.seen \union X, u.truncated, w.loaded, w.lost),
               \A c : In(c, f) => c \notin w.seen /\ c \in X,
               ~u.truncated => /\ ~w.truncated
                               /\ \A c \in X : In(c, f)
                               /\ w.depth < MaxDepth /\ b \notin w.lost =>
                                    \A c \in LeadsTo(gs, b) : c \in w.seen \union X
        PROVE  SnapInv(Onward(u), gs)
    <2> DEFINE v == Onward(u)
    <2>1. v \in Walks /\ Has(v, u.pc, u.root, u.cap, u.via, u.level, u.depth, u.next, u.nodes, u.seen, u.truncated,
                             IF u.via = "sql" THEN u.loaded ELSE << >>, u.lost) BY OnwardIs
    <2> HIDE DEF v
    <2>2. /\ Has(v, w.pc, w.root, w.cap, w.via, l, w.depth, w.next \o f, ns, w.seen \union X, v.truncated, m, w.lost)
          /\ v.truncated = u.truncated
      BY <1>7, <1>9, <2>1 DEF Has
    <2>3. ~v.truncated => /\ ~w.truncated
                          /\ \A c \in X : In(c, f)
                          /\ w.depth < MaxDepth /\ Head(w.level) \notin w.lost =>
                               \A c \in LeadsTo(gs, Head(w.level)) : c \in w.seen \union X
      BY <1>7, <1>9, <2>2
    <2>4. Has(v, w.pc, w.root, w.cap, w.via, Tail(w.level), w.depth, w.next \o f,
              Append(w.nodes, [id |-> Head(w.level), depth |-> w.depth]), w.seen \union X, v.truncated,
              IF w.via = "sql" THEN w.loaded ELSE << >>, w.lost)
      BY <1>7, <2>2
    <2>5. SnapInv(v, gs) BY <1>9, <2>1, <2>3, <2>4, WalkVisits
    <2> QED BY <2>5 DEF v
  <1>10. CASE w.depth < MaxDepth
    <2> DEFINE new == Unseen(shown, ls)
               room == Room(shown)
               f == FirstOf(new, room)
               g == FirstOf(new, room + 1)
               X == ToSet(g)
               s == shown.seen \union X
               x == shown.next \o f
               t == shown.truncated \/ Len(new) > room
               u == [shown EXCEPT !.seen = s, !.next = x, !.truncated = t]
    <2>1. Queued(shown, ls) = u BY DEF Queued
    <2>2. room \in Nat /\ room + 1 \in Nat BY <1>8, RoomIs
    <2>3. shown.seen = w.seen /\ shown.next = w.next /\ shown.truncated = w.truncated BY <1>8 DEF Has
    <2>4. new \in Seq(Node) /\ Injective(new) /\ \A c : In(c, new) <=> c \in Neighbors(ls) /\ c \notin w.seen
      BY <1>5, <2>3, UnseenIs
    <2> HIDE DEF new, room
    <2>5. /\ f \in Seq(Node)
          /\ \A c : In(c, f) => In(c, new)
          /\ \A c : In(c, f) => In(c, g)
          /\ Injective(f)
          /\ Len(new) <= room => \A c : In(c, f) <=> In(c, new)
          /\ Len(new) <= room => \A c : In(c, g) <=> In(c, new)
          /\ Len(new) \in Nat
      BY <2>2, <2>4, FirstIn
    <2>6. g \in Seq(Node) BY <2>2, <2>4, FirstIn
    <2> HIDE DEF f, g
    <2>7. (\A c : c \in X <=> In(c, g)) /\ X \in SUBSET Node
      <3>1. \A c : c \in X <=> In(c, g) BY <2>6, InSet
      <3>2. \A c : In(c, g) => c \in Node BY <2>6 DEF In
      <3> QED BY <3>1, <3>2
    <2> HIDE DEF X
    <2>8. s = w.seen \union X /\ x = w.next \o f /\ (~t => ~w.truncated /\ Len(new) <= room)
      BY <2>2, <2>3, <2>5
    <2>9. s \in Beads /\ x \in Queue /\ t \in Verdicts
      <3>1. s \in Beads BY <1>2, <2>7, <2>8 DEF Beads
      <3>2. x \in Queue BY <1>2, <2>5, <2>8 DEF Queue
      <3>3. t \in Verdicts BY DEF Verdicts
      <3> QED BY <3>1, <3>2, <3>3
    <2>u. u = [shown EXCEPT !.seen = s, !.next = x, !.truncated = t] OBVIOUS
    <2> HIDE DEF s, x, t, u
    <2>10. u \in Walks /\ Has(u, shown.pc, shown.root, shown.cap, shown.via, shown.level, shown.depth, x,
                              shown.nodes, s, t, shown.loaded, shown.lost)
      <3>1. LET v == [shown EXCEPT !.seen = s, !.next = x, !.truncated = t]
            IN v \in Walks /\ Has(v, shown.pc, shown.root, shown.cap, shown.via, shown.level, shown.depth, x,
                                  shown.nodes, s, t, shown.loaded, shown.lost)
        BY <1>8, <2>9, WalkQueues
      <3> QED BY <2>u, <3>1
    <2>11. /\ Has(u, w.pc, w.root, w.cap, w.via, l, w.depth, w.next \o f, ns, w.seen \union X, u.truncated, w.loaded, w.lost)
           /\ u.truncated = t
      BY <1>8, <2>8, <2>10 DEF Has
    <2>12. \A c : In(c, f) => c \notin w.seen /\ c \in X BY <2>4, <2>5, <2>7
    <2>13. ~u.truncated => /\ ~w.truncated
                           /\ \A c \in X : In(c, f)
                           /\ w.depth < MaxDepth /\ b \notin w.lost =>
                                \A c \in LeadsTo(gs, b) : c \in w.seen \union X
      <3> SUFFICES ASSUME ~u.truncated
                   PROVE  /\ ~w.truncated
                          /\ \A c \in X : In(c, f)
                          /\ b \notin w.lost => \A c \in LeadsTo(gs, b) : c \in w.seen \union X
        OBVIOUS
      <3>1. ~w.truncated /\ Len(new) <= room BY <2>8, <2>11
      <3>2. \A c : (In(c, f) <=> In(c, new)) /\ (c \in X <=> In(c, new)) BY <2>5, <2>7, <3>1
      <3> QED BY <1>5, <2>4, <3>1, <3>2
    <2>14. SnapInv(Onward(u), gs) BY <1>9, <2>5, <2>7, <2>10, <2>11, <2>12, <2>13
    <2> QED BY <1>6, <1>10, <2>1, <2>14 DEF ls, b
  <1>11. CASE ~(w.depth < MaxDepth)
    <2> DEFINE f == << >>
               X == {}
    <2>1. f \in Seq(Node) /\ Injective(f) /\ (\A c : ~In(c, f)) /\ w.next \o f = w.next /\ w.seen \union X = w.seen
      BY <1>2, EmptyIn
    <2>2. X \in SUBSET Node /\ \A c \in X : FALSE OBVIOUS
    <2> HIDE DEF f, X
    <2>3. Has(shown, w.pc, w.root, w.cap, w.via, l, w.depth, w.next \o f, ns, w.seen \union X, shown.truncated, w.loaded, w.lost)
          /\ shown.truncated = w.truncated
      BY <1>8, <2>1 DEF Has
    <2>4. SnapInv(Onward(shown), gs) BY <1>8, <1>9, <1>11, <2>1, <2>2, <2>3
    <2> QED BY <1>6, <1>11, <2>4 DEF ls, b
  <1> QED BY <1>10, <1>11

---------------------------------------------------------------------------
(* Retrieval: what can be reached, step by step, and the walk that is over.  *)

\* Every set of naturals that is not empty has a least element.
LEMMA LeastOf ==
  ASSUME NEW T, T \subseteq Nat, T # {} PROVE \E m \in T : \A n \in T : m <= n
  <1> DEFINE R == StrictSubsetOrdering(Nat)
             U == {0 .. n : n \in T}
  <1>1. IsWellFoundedOn(R, FiniteSubsetsOf(Nat)) BY FS_StrictSubsetOrderingWellFounded
  <1>2. U \subseteq FiniteSubsetsOf(Nat)
    <2>1. \A n \in Nat : IsFiniteSet(0 .. n) BY FS_Interval
    <2> QED BY <2>1 DEF FiniteSubsetsOf
  <1>3. U # {} OBVIOUS
  <1> HIDE DEF R
  <1>4. PICK x \in U : \A y \in U : ~ (<<y, x>> \in R) BY <1>1, <1>2, <1>3, WFMin
  <1>5. PICK m \in T : x = 0 .. m BY <1>4
  <1>6. ASSUME NEW n \in T, ~(m <= n) PROVE FALSE
    <2>1. <<0 .. n, x>> \in R
      <3>1. (0 .. n) \in SUBSET Nat /\ (0 .. m) \in SUBSET Nat BY <1>6
      <3>2. (0 .. n) \subseteq (0 .. m) /\ (0 .. n) # (0 .. m)
        <4>1. m \in 0 .. m /\ m \notin 0 .. n BY <1>6
        <4>2. \A k \in 0 .. n : k \in 0 .. m BY <1>6
        <4> QED BY <4>1, <4>2
      <3> QED BY <1>5, <3>1, <3>2 DEF R, StrictSubsetOrdering
    <2> QED BY <1>4, <1>6, <2>1
  <1> QED BY <1>6

\* Induction, over a set.
LEMMA Inductively ==
  ASSUME NEW S, 0 \in S, \A n \in Nat : n \in S => n + 1 \in S PROVE \A n \in Nat : n \in S
  <1> SUFFICES ASSUME NEW k \in Nat, k \notin S PROVE FALSE OBVIOUS
  <1>1. PICK m \in Nat \ S : \A n \in Nat \ S : m <= n BY LeastOf
  <1>2. m - 1 \in Nat /\ m - 1 \in S /\ m = (m - 1) + 1 BY <1>1
  <1> QED BY <1>1, <1>2

\* A step from these beads; and the first steps from the root.
Further(S) == S \union UNION {LeadsTo(graphs, b) : b \in S \ (Missing \union ask.lost)}

StepsTo(g, n) ==
  /\ DOMAIN g = 0 .. n /\ g[0] = {ask.root}
  /\ \A i \in 1 .. n : g[i] = Further(g[i - 1])

LEMMA StepsExist == \A n \in Nat : \E g : StepsTo(g, n)
  <1> DEFINE S == {n \in Nat : \E g : StepsTo(g, n)}
  <1>1. 0 \in S
    <2> DEFINE g == [i \in 0 .. 0 |-> {ask.root}]
    <2>1. DOMAIN g = 0 .. 0 /\ g[0] = {ask.root} /\ \A i \in 1 .. 0 : FALSE OBVIOUS
    <2> HIDE DEF g
    <2>2. StepsTo(g, 0) BY <2>1 DEF StepsTo
    <2> QED BY <2>2
  <1>2. ASSUME NEW n \in Nat, n \in S PROVE n + 1 \in S
    <2>1. PICK g : StepsTo(g, n) BY <1>2
    <2> DEFINE h == [i \in 0 .. n + 1 |-> IF i = n + 1 THEN Further(g[n]) ELSE g[i]]
    <2>2. DOMAIN h = 0 .. n + 1 /\ h[n + 1] = Further(g[n]) /\ \A i \in 0 .. n : h[i] = g[i]
      <3>1. n + 1 \in 0 .. n + 1 /\ \A i \in 0 .. n : i \in 0 .. n + 1 /\ i # n + 1 OBVIOUS
      <3> QED BY <3>1
    <2> HIDE DEF h
    <2>3. ASSUME NEW i \in 1 .. n + 1 PROVE h[i] = Further(h[i - 1])
      <3>1. i - 1 \in 0 .. n /\ (i = n + 1 \/ i \in 1 .. n) /\ (i = n + 1 => i - 1 = n) OBVIOUS
      <3>2. CASE i = n + 1 BY <2>2, <3>1, <3>2
      <3>3. CASE i \in 1 .. n
        <4>1. i \in 0 .. n BY <3>3
        <4>2. h[i] = g[i] /\ h[i - 1] = g[i - 1] BY <2>2, <3>1, <4>1
        <4>3. g[i] = Further(g[i - 1]) BY <2>1, <3>3 DEF StepsTo
        <4> QED BY <4>2, <4>3
      <3> QED BY <3>1, <3>2, <3>3
    <2>4. h[0] = {ask.root}
      <3>1. 0 \in 0 .. n OBVIOUS
      <3> QED BY <2>1, <2>2, <3>1 DEF StepsTo
    <2>5. StepsTo(h, n + 1) BY <2>2, <2>3, <2>4 DEF StepsTo
    <2>6. n + 1 \in Nat OBVIOUS
    <2> QED BY <2>5, <2>6
  <1> HIDE DEF S
  <1>3. \A n \in Nat : n \in S BY <1>1, <1>2, Inductively
  <1> QED BY <1>3 DEF S

\* The first steps are the same, however many are taken.
LEMMA StepsAgree ==
  ASSUME NEW k \in Nat, NEW n \in Nat, NEW m \in Nat, k <= n, k <= m, NEW g, NEW h, StepsTo(g, n), StepsTo(h, m)
  PROVE  g[k] = h[k]
  <1> DEFINE S == {i \in Nat : i <= n /\ i <= m => g[i] = h[i]}
  <1>1. 0 \in S BY DEF StepsTo
  <1>2. ASSUME NEW i \in Nat, i \in S PROVE i + 1 \in S
    <2> SUFFICES ASSUME i + 1 <= n, i + 1 <= m PROVE g[i + 1] = h[i + 1] OBVIOUS
    <2>1. g[i] = h[i] BY <1>2
    <2>2. i + 1 \in 1 .. n /\ i + 1 \in 1 .. m /\ i + 1 - 1 = i OBVIOUS
    <2>3. g[i + 1] = Further(g[i + 1 - 1]) /\ h[i + 1] = Further(h[i + 1 - 1]) BY <2>2 DEF StepsTo
    <2> QED BY <2>1, <2>2, <2>3
  <1> HIDE DEF S
  <1>3. \A i \in Nat : i \in S BY <1>1, <1>2, Inductively
  <1> QED BY <1>3 DEF S

\* The beads within so many steps, as the recursive definition means them.
LEMMA ReachIs == Reach[0] = {ask.root} /\ \A n \in Nat : Reach[n + 1] = Further(Reach[n])
  <1> DEFINE f == [n \in Nat |-> (CHOOSE g : StepsTo(g, n))[n]]
             F(h) == [n \in Nat |-> IF n = 0 THEN {ask.root}
                        ELSE h[n - 1] \union UNION {LeadsTo(graphs, b) : b \in h[n - 1] \ (Missing \union ask.lost)}]
  <1>1. ASSUME NEW n \in Nat PROVE \E g : StepsTo(g, n) /\ f[n] = g[n]
    <2>1. StepsTo(CHOOSE g : StepsTo(g, n), n) BY StepsExist
    <2> QED BY <2>1
  <1>2. f[0] = {ask.root} BY <1>1 DEF StepsTo
  <1>3. ASSUME NEW n \in Nat PROVE f[n + 1] = Further(f[n])
    <2>0. n + 1 \in Nat /\ n <= n /\ n <= n + 1 /\ n + 1 \in 1 .. n + 1 /\ n + 1 - 1 = n OBVIOUS
    <2>1. PICK g : StepsTo(g, n) /\ f[n] = g[n] BY <1>1
    <2>2. PICK h : StepsTo(h, n + 1) /\ f[n + 1] = h[n + 1] BY <1>1, <2>0
    <2> HIDE DEF f
    <2>3. h[n + 1] = Further(h[n])
      <3>1. h[n + 1] = Further(h[n + 1 - 1]) BY <2>0, <2>2 DEF StepsTo
      <3> QED BY <2>0, <3>1
    <2>4. h[n] = g[n] BY <2>0, <2>1, <2>2, StepsAgree
    <2> QED BY <2>1, <2>2, <2>3, <2>4
  <1>d. DOMAIN f = Nat OBVIOUS
  <1>e. f = [n \in Nat |-> f[n]] OBVIOUS
  <1> HIDE DEF f
  <1>4. ASSUME NEW n \in Nat
        PROVE f[n] = IF n = 0 THEN {ask.root}
                     ELSE f[n - 1] \union UNION {LeadsTo(graphs, b) : b \in f[n - 1] \ (Missing \union ask.lost)}
    <2>1. CASE n = 0 BY <1>2, <2>1
    <2>2. CASE n # 0
      <3>1. n - 1 \in Nat /\ n = (n - 1) + 1 BY <2>2
      <3>2. f[n] = Further(f[n - 1]) BY <1>3, <3>1
      <3> QED BY <2>2, <3>2 DEF Further
    <2> QED BY <2>1, <2>2
  <1>5. f = F(f) BY <1>4, <1>e
  <1>6. Reach = CHOOSE h : h = F(h) BY DEF Reach
  <1>7. Reach = F(Reach)
    <2> HIDE DEF F
    <2> QED BY <1>5, <1>6
  <1>8. Reach[0] = {ask.root} BY <1>7
  <1>9. ASSUME NEW n \in Nat PROVE Reach[n + 1] = Further(Reach[n])
    <2>1. n + 1 \in Nat /\ n + 1 # 0 /\ n + 1 - 1 = n OBVIOUS
    <2> QED BY <1>7, <2>1 DEF Further
  <1> QED BY <1>8, <1>9

\* What a walk that is over and was not cut short has to show.
LEMMA SnapShows ==
  ASSUME SnapInv(ask, graphs)
  PROVE  SnapshotIsWhole
  <1> DEFINE w == ask
             n == Len(w.nodes)
             all == ToSet(w.nodes)
  <1>1. w \in Walks /\ Apart(w) /\ Whole(w, graphs) BY DEF SnapInv
  <1>2. w.nodes \in Seq(Stop) /\ w.depth \in Nat /\ n \in Nat BY <1>1, WalkHas
  <1>3. \A i \in 1 .. n : w.nodes[i].depth \in Nat BY <1>1, StopsHave
  <1>4. \A x : x \in all <=> \E i \in 1 .. n : w.nodes[i] = x
    <2>1. DOMAIN w.nodes = 1 .. n BY <1>2
    <2> QED BY <2>1 DEF ToSet
  <1>5. /\ n <= w.cap
        /\ \A i, j \in 1 .. n : w.nodes[i].id = w.nodes[j].id => i = j
    BY <1>1 DEF Apart
  <1>6. Cardinality(all) = n
    <2> DEFINE numbers == 1 .. n
               s == [i \in numbers |-> w.nodes[i]]
    <2>1. IsFiniteSet(numbers) /\ Cardinality(numbers) = n
      <3>1. 1 \in Int /\ n \in Int BY <1>2
      <3>2. IsFiniteSet(numbers) /\ Cardinality(numbers) = IF 1 > n THEN 0 ELSE n - 1 + 1 BY <3>1, FS_Interval
      <3> QED BY <1>2, <3>2
    <2>2. s \in Bijection(numbers, all)
      <3>1. s \in [numbers -> all] BY <1>4
      <3>2. \A i, j \in numbers : s[i] = s[j] => i = j BY <1>5
      <3>3. \A x \in all : \E i \in numbers : s[i] = x BY <1>4
      <3> HIDE DEF s, numbers, all
      <3> QED BY <3>1, <3>2, <3>3, Fun_IsBij
    <2> HIDE DEF s, numbers, all
    <2>3. ExistsBijection(numbers, all) BY <2>2 DEF ExistsBijection
    <2> QED BY <2>1, <2>3, FS_Bijection
  <1>7. \A x, y \in all : x.id = y.id => x = y BY <1>4, <1>5
  <1>8. ASSUME w.pc = "done", ~w.truncated
        PROVE  \A d \in 0 .. MaxDepth : \A b \in Reach[d] \ (Missing \union w.lost) : \E x \in all : x.id = b /\ x.depth <= d
    <2>1. /\ Reached(w, w.root, 0)
          /\ \A i \in 1 .. n : Followed(w, graphs, i)
          /\ \A c : ~In(c, w.level) /\ ~In(c, w.next)
      BY <1>1, <1>8, EmptyIn DEF Whole
    <2>2. ASSUME NEW c, NEW k \in Nat, Reached(w, c, k), c \notin Missing \union w.lost PROVE NodeAt(w, c, k)
      BY <2>1, <2>2 DEF Reached
    <2>3. MaxDepth \in Nat BY RetrievalAssumption
    <2> DEFINE S == {d \in Nat : d <= MaxDepth => \A b \in Reach[d] : Reached(w, b, d)}
    <2>4. 0 \in S BY <2>1, ReachIs
    <2>5. ASSUME NEW d \in Nat, d \in S PROVE d + 1 \in S
      <3> SUFFICES ASSUME d + 1 <= MaxDepth, NEW c \in Reach[d + 1] PROVE Reached(w, c, d + 1) OBVIOUS
      <3>1. \A b \in Reach[d] : Reached(w, b, d) BY <2>3, <2>5
      <3>2. c \in Further(Reach[d]) BY ReachIs
      <3>3. ASSUME NEW k \in Nat, k <= d + 1, Reached(w, c, k) PROVE Reached(w, c, d + 1)
        BY <1>2, <1>3, <3>3 DEF Reached, NodeAt
      <3>4. CASE c \in Reach[d] BY <3>1, <3>3, <3>4
      <3>5. CASE c \notin Reach[d]
        <4>1. PICK b \in Reach[d] \ (Missing \union w.lost) : c \in LeadsTo(graphs, b) BY <3>2, <3>5 DEF Further
        <4>2. NodeAt(w, b, d) BY <2>2, <3>1, <4>1
        <4>3. PICK i \in 1 .. n : w.nodes[i].id = b /\ w.nodes[i].depth <= d BY <4>2 DEF NodeAt
        <4>4. w.nodes[i].depth \in Nat /\ w.nodes[i].depth < MaxDepth /\ w.nodes[i].depth + 1 <= d + 1
          BY <1>3, <2>3, <4>3
        <4>5. Reached(w, c, w.nodes[i].depth + 1) BY <2>1, <4>1, <4>3, <4>4 DEF Followed
        <4> QED BY <3>3, <4>4, <4>5
      <3> QED BY <3>4, <3>5
    <2> HIDE DEF S
    <2>6. \A d \in Nat : d \in S BY <2>4, <2>5, Inductively
    <2>7. ASSUME NEW d \in 0 .. MaxDepth, NEW b \in Reach[d] \ (Missing \union w.lost)
          PROVE \E x \in all : x.id = b /\ x.depth <= d
      <3>1. d \in Nat /\ d <= MaxDepth BY <2>3
      <3>2. Reached(w, b, d) BY <2>6, <3>1 DEF S
      <3>3. NodeAt(w, b, d) BY <2>2, <3>1, <3>2
      <3> QED BY <1>4, <3>3 DEF NodeAt
    <2> QED BY <2>7
  <1> HIDE DEF all, n, w
  <1> QED BY <1>5, <1>6, <1>7, <1>8 DEF SnapshotIsWhole, all, n, w

---------------------------------------------------------------------------
(* Retrieval: the invariant.  A row that was read is of its bead's history,  *)
(* and is the bead as it is if nobody touched it; a store that answered left *)
(* out nothing newer (SweepInv, DetailInv).                                  *)

\* Nobody changed the claim during the read.
Untouched(b) == was[b] = {entry[b].claim}

\* The fields of a sweep, and of a read that looks its rows up again.
SweepParts == {"op", "pc", "via", "todo", "got", "errors"}
DetailParts == {"op", "pc", "rows", "errors", "todo", "live"}

\* A row that was read is of a bead's history, and is what the bead is if nobody touched it.
TrueRow(r) == r.entry.claim \in was[r.id] /\ (Untouched(r.id) => r.entry = entry[r.id])

\* A store's answer leaves out no bead that is newer.
NoNewerLeftOut(s, rows) ==
  \A b \in Named : StoreOf[b] = s /\ Untouched(b) =>
    \/ \E i \in 1 .. Len(rows) : rows[i].id = b
    \/ Len(rows) = PerStore /\ \A i \in 1 .. Len(rows) : rows[i].entry.updated >= entry[b].updated

\* Store by store: what is read is true, and what was read is not missing.
SweepInv ==
  /\ DOMAIN ask = SweepParts
  /\ ask.op \in {"search", "activity", "claimed"} /\ ask.pc \in {"sweep", "merge"}
  /\ ask.todo \subseteq Store /\ Store \ ask.todo \subseteq DOMAIN ask.got /\ (ask.pc = "merge" => ask.todo = {})
  /\ GotRight(ask.got)
  /\ \A s \in DOMAIN ask.got : \A i \in 1 .. Len(ask.got[s]) : TrueRow(ask.got[s][i])
  /\ ask.op = "activity" => \A s \in DOMAIN ask.got \ ask.errors : NoNewerLeftOut(s, ask.got[s])

\* Row by row: a claim is of the bead's history.
DetailInv ==
  /\ DOMAIN ask = DetailParts
  /\ ask.op = "claimed" /\ ask.pc = "detail"
  /\ ask.rows \in Seq(Reading) /\ Len(ask.rows) <= Limit /\ ask.todo \subseteq DOMAIN ask.rows /\ DOMAIN ask.live = DOMAIN ask.rows
  /\ \A i \in DOMAIN ask.rows : ask.rows[i].entry.claim \in was[ask.rows[i].id] /\ ask.live[i] \in was[ask.rows[i].id]

\* The answer, which nothing changes any more.
DoneInv ==
  /\ ask.op \in {"search", "activity", "claimed"} /\ ask.pc = "done" /\ Len(ask.rows) <= Limit
  /\ VerdictHasEvidence /\ NewestAreShown

\* The beads, their links, and the history that is kept of both.
WorldInv ==
  /\ entry \in [Node -> Content] /\ links \in [Node -> Seq(Node)]
  /\ was \in [Node -> SUBSET Claim] /\ graphs \subseteq [Node -> Seq(Node)]
  /\ ask.pc # "idle" => links \in graphs /\ \A b \in Node : entry[b].claim \in was[b]

\* The invariant.
RInv ==
  /\ WorldInv
  /\ \/ ask = NoRead
     \/ SnapInv(ask, graphs)
     \/ SweepInv
     \/ DetailInv
     \/ DoneInv

\* The time of the last change is one.
LEMMA LastUpdateIs == ASSUME WorldInv, Node # {} PROVE LastUpdate \in Nat
  <1> DEFINE S == {entry[b].updated : b \in Node}
             order == {p \in S \X S : p[1] > p[2]}
             f == [b \in Node |-> entry[b].updated]
  <1>1. \A b \in Node : entry[b].updated \in Nat BY ReadsTyped DEF WorldInv
  <1>2. S \subseteq Nat /\ S # {} BY <1>1
  <1>3. IsFiniteSet(S)
    <2>1. f \in Surjection(Node, S) BY DEF Surjection
    <2>2. IsFiniteSet(Node) BY RetrievalAssumption
    <2> HIDE DEF f, S
    <2> QED BY <2>1, <2>2, FS_Surjection
  <1>4. \A b \in Node : entry[b].updated \in S OBVIOUS
  <1>i. \A x \in S : x \in Int BY <1>1
  <1>5. LastUpdate = CHOOSE n \in S : \A b \in Node : entry[b].updated <= n BY DEF LastUpdate
  <1> HIDE DEF S, f
  <1>6. Orders(S, order) BY <1>2 DEF Orders
  <1>o. \A x, y \in S : <<x, y>> \in order => x > y OBVIOUS
  <1> HIDE DEF order
  <1> DEFINE n == Cardinality(S)
             q == SortedBy(S, order)
  <1>7. /\ n \in Nat /\ q \in [1 .. n -> S]
        /\ \A i, j \in 1 .. n : i < j => <<q[i], q[j]>> \in order
        /\ \A x \in S : \E k \in 1 .. n : q[k] = x
    BY <1>3, <1>6, SortedHas
  <1> HIDE DEF n, q
  <1>8. 1 \in 1 .. n
    <2>1. PICK x \in S : TRUE BY <1>2
    <2>2. PICK k \in 1 .. n : q[k] = x BY <1>7
    <2> QED BY <1>7, <2>2
  <1>9. q[1] \in S BY <1>7, <1>8
  <1>10. ASSUME NEW x \in S PROVE x <= q[1]
    <2>1. PICK k \in 1 .. n : q[k] = x BY <1>7
    <2>2. CASE k = 1 BY <1>2, <2>1, <2>2
    <2>3. CASE k # 1
      <3>1. 1 < k BY <1>7, <2>3
      <3>2. q[1] > x BY <1>7, <1>8, <1>9, <1>o, <2>1, <3>1
      <3>3. x \in Int /\ q[1] \in Int BY <1>9, <1>i
      <3> QED BY <3>2, <3>3
    <2> QED BY <2>2, <2>3
  <1>11. \E m \in S : \A b \in Node : entry[b].updated <= m BY <1>4, <1>9, <1>10
  <1>12. LastUpdate \in S BY <1>5, <1>11
  <1> QED BY <1>2, <1>12

\* A bead whose history is of one claim was not touched.
LEMMA OneClaimIs == ASSUME WorldInv, ask.pc # "idle", NEW b \in Node, Cardinality(was[b]) = 1 PROVE Untouched(b)
  <1>1. was[b] \subseteq Claim /\ entry[b].claim \in was[b] BY DEF WorldInv
  <1> DEFINE S == was[b]
  <1>2. IsFiniteSet(S)
    <2>1. IsFiniteSet({"held", "released", "closed"})
      <3>1. IsFiniteSet({}) BY FS_EmptySet
      <3>2. IsFiniteSet({} \union {"held"}) BY <3>1, FS_AddElement
      <3>3. IsFiniteSet({} \union {"held"} \union {"released"}) BY <3>2, FS_AddElement
      <3>4. IsFiniteSet({} \union {"held"} \union {"released"} \union {"closed"}) BY <3>3, FS_AddElement
      <3>5. {} \union {"held"} \union {"released"} \union {"closed"} = {"held", "released", "closed"} OBVIOUS
      <3> QED BY <3>4, <3>5
    <2>2. S \in SUBSET {"held", "released", "closed"} BY <1>1 DEF Claim
    <2> HIDE DEF S
    <2> QED BY <2>1, <2>2, FS_Subset
  <1>3. Cardinality(S) = 1 OBVIOUS
  <1>4. entry[b].claim \in S BY <1>1
  <1> HIDE DEF S
  <1>5. \E x : S = {x} BY <1>2, <1>3, FS_Singleton
  <1>6. S = {entry[b].claim} BY <1>4, <1>5
  <1> QED BY <1>6 DEF S, Untouched

\* The rows that are merged show the newest.
LEMMA MergeShowsNewest ==
  ASSUME WorldInv, SweepInv, ask.op = "activity", ask.todo = {}, NEW b \in Named, Untouched(b), StoreOf[b] \notin ask.errors,
         NEW rows, rows = Merged(ask.op, ask.got), \A i \in 1 .. Len(rows) : rows[i].id # b
  PROVE  Len(rows) = Limit /\ \A i \in 1 .. Len(rows) : rows[i].entry.updated >= entry[b].updated
  <1> DEFINE got == ask.got
             all == AllOf(got)
             s == StoreOf[b]
             u == entry[b].updated
  <1>1. GotRight(got) BY DEF SweepInv
  <1>2. /\ rows \in Seq(Reading) /\ Len(rows) \in Nat /\ Len(rows) <= Limit
        /\ \A i \in 1 .. Len(rows) : rows[i] \in all
        /\ \A p \in all : \/ \E i \in 1 .. Len(rows) : rows[i] = p
                          \/ Len(rows) = Limit /\ \A i \in 1 .. Len(rows) : Before("activity", rows[i], p)
        /\ \A T \in SUBSET all : \A k \in 1 .. Len(rows) :
             (\A t \in T : Before("activity", t, rows[k])) => Cardinality(T) <= k - 1
        /\ \A T \in SUBSET all : Cardinality(T) >= Limit => Len(rows) = Limit
    BY <1>1, MergedIs
  <1>3. b \in Node /\ s \in Store BY ReadsTyped DEF Store
  <1>4. s \in DOMAIN got \ ask.errors BY <1>3 DEF SweepInv
  <1>5. NoNewerLeftOut(s, got[s]) BY <1>4 DEF SweepInv
  <1>6. u \in Nat BY <1>3, ReadsTyped DEF WorldInv
  <1>7. /\ \A p \in all : p.entry.updated \in Nat
        /\ \A i \in 1 .. Len(got[s]) : got[s][i] \in all
        /\ ToSet(got[s]) \in SUBSET all /\ Cardinality(ToSet(got[s])) = Len(got[s])
        /\ \A x \in ToSet(got[s]) : \E i \in 1 .. Len(got[s]) : got[s][i] = x
    <2>1. all \subseteq Reading BY <1>1, AllOfIs
    <2>2. \A p \in all : p.entry.updated \in Nat BY <2>1, ReadsTyped DEF Reading
    <2>3. (\A i \in 1 .. Len(got[s]) : got[s][i] \in all) /\ ToSet(got[s]) \in SUBSET all
          /\ Cardinality(ToSet(got[s])) = Len(got[s])
      BY <1>1, <1>4, AllOfIs
    <2>4. got[s] \in Seq(Reading) BY <1>1, <1>4 DEF GotRight, RowsOf
    <2>5. DOMAIN got[s] = 1 .. Len(got[s]) BY <2>4
    <2>6. \A x \in ToSet(got[s]) : \E i \in 1 .. Len(got[s]) : got[s][i] = x BY <2>5 DEF ToSet
    <2> QED BY <2>2, <2>3, <2>6
  <1>8. CASE \E i \in 1 .. Len(got[s]) : got[s][i].id = b
    <2>1. PICK i \in 1 .. Len(got[s]) : got[s][i].id = b BY <1>8
    <2>2. TrueRow(got[s][i]) BY <1>4, <2>1 DEF SweepInv
    <2>3. got[s][i].entry = entry[b] BY <2>1, <2>2 DEF TrueRow
    <2>4. got[s][i] \in all BY <1>7, <2>1
    <2>5. ~\E k \in 1 .. Len(rows) : rows[k] = got[s][i] BY <2>1
    <2>6. Len(rows) = Limit /\ \A k \in 1 .. Len(rows) : Before("activity", rows[k], got[s][i]) BY <1>2, <2>4, <2>5
    <2> QED BY <1>2, <1>6, <1>7, <2>3, <2>6 DEF Before, Newer
  <1>9. CASE Len(got[s]) = PerStore /\ \A i \in 1 .. Len(got[s]) : got[s][i].entry.updated >= u
    <2> DEFINE T == ToSet(got[s])
    <2>1. T \in SUBSET all /\ Cardinality(T) = PerStore /\ \A t \in T : t.entry.updated >= u BY <1>7, <1>9
    <2> HIDE DEF T
    <2>2. Len(rows) = Limit BY <1>2, <2>1, ReadsTyped
    <2>3. ASSUME NEW k \in 1 .. Len(rows), ~(rows[k].entry.updated >= u) PROVE FALSE
      <3>1. \A t \in T : Before("activity", t, rows[k]) BY <1>2, <1>6, <1>7, <2>1, <2>3 DEF Before, Newer
      <3>2. Cardinality(T) <= k - 1 BY <1>2, <2>1, <3>1
      <3>3. PerStore \in Int /\ Limit \in Int /\ Limit <= PerStore /\ k <= Limit /\ k \in Int BY <1>2, ReadsTyped
      <3> QED BY <2>1, <3>2, <3>3
    <2> QED BY <2>2, <2>3
  <1> QED BY <1>3, <1>5, <1>8, <1>9 DEF NoNewerLeftOut

\* What kind of read it is shows in where it stands.
LEMMA WhichRead ==
  ASSUME RInv
  PROVE  /\ ask.pc = "level" \/ ask.op = "snapshot" => SnapInv(ask, graphs)
         /\ ask.pc \in {"sweep", "merge"} => SweepInv
         /\ ask.pc = "detail" => DetailInv
         /\ ask.pc = "idle" <=> ask = NoRead
         /\ SweepInv => ask.pc \in {"sweep", "merge"} /\ ask.op # "snapshot"
         /\ DetailInv => ask.pc = "detail" /\ ask.op # "snapshot"
         /\ SnapInv(ask, graphs) => ask.pc \in {"level", "done"} /\ ask.op = "snapshot"
  <1>1. SnapInv(ask, graphs) => ask.pc \in {"level", "done"} /\ ask.op = "snapshot" BY WalkHas DEF SnapInv, At
  <1>2. ask = NoRead => ask.pc = "idle" /\ ask.op = "none" BY DEF NoRead
  <1>3. SweepInv => ask.pc \in {"sweep", "merge"} /\ ask.op \in {"search", "activity", "claimed"} BY DEF SweepInv
  <1>4. DetailInv => ask.pc = "detail" /\ ask.op = "claimed" BY DEF DetailInv
  <1>5. DoneInv => ask.pc = "done" /\ ask.op \in {"search", "activity", "claimed"} BY DEF DoneInv
  <1> QED BY <1>1, <1>2, <1>3, <1>4, <1>5 DEF RInv

\* A step that only reads.
LEMMA WorldKept ==
  ASSUME WorldInv, ask.pc # "idle", UNCHANGED <<entry, links, was, graphs>> PROVE WorldInv'
  BY DEF WorldInv

\* A sweep starts with nothing read.
LEMMA SweepStarts ==
  ASSUME NEW op \in {"search", "activity", "claimed"}, NEW via, ask' = Sweep(op, via) PROVE SweepInv'
  <1>1. DOMAIN ask' = {"op", "pc", "via", "todo", "got", "errors"} BY DEF Sweep
  <1>2. ask'.op = op /\ ask'.pc = "sweep" /\ ask'.todo = Store /\ ask'.got = << >> /\ ask'.errors = {} BY DEF Sweep
  <1>3. DOMAIN ask'.got = {} BY <1>2, NothingLoaded
  <1>4. GotRight(ask'.got) BY <1>3 DEF GotRight
  <1> QED BY <1>1, <1>2, <1>3, <1>4 DEF SweepInv, SweepParts

\* A read begins.
LEMMA ReadBegins ==
  ASSUME RInv, NEW c, Begins(c),
         (\E root \in Node, cap \in Caps, via \in Way : c = Walk(root, cap, via))
         \/ (\E op \in {"search", "activity", "claimed"}, via \in Way : c = Sweep(op, via))
  PROVE  RInv'
  <1>1. /\ ask.pc = "idle" /\ ask' = c /\ graphs' = {links} /\ was' = [b \in Node |-> {entry[b].claim}]
        /\ UNCHANGED <<entry, links>>
    BY DEF Begins
  <1>2. WorldInv'
    <2>1. \A b \in Node : entry[b].claim \in Claim BY ReadsTyped DEF RInv, WorldInv
    <2>2. was' \in [Node -> SUBSET Claim] BY <1>1, <2>1
    <2>3. entry' \in [Node -> Content] /\ links' \in [Node -> Seq(Node)] /\ graphs' \subseteq [Node -> Seq(Node)]
      BY <1>1 DEF RInv, WorldInv
    <2>4. links' \in graphs' /\ \A b \in Node : entry'[b].claim \in was'[b] BY <1>1
    <2> QED BY <2>2, <2>3, <2>4 DEF WorldInv
  <1>3. CASE \E root \in Node, cap \in Caps, via \in Way : c = Walk(root, cap, via)
    <2>1. SnapInv(ask', graphs') BY <1>1, <1>3, WalkStarts
    <2> QED BY <1>2, <2>1 DEF RInv
  <1>4. CASE \E op \in {"search", "activity", "claimed"}, via \in Way : c = Sweep(op, via)
    <2>1. SweepInv' BY <1>1, <1>4, SweepStarts
    <2> QED BY <1>2, <2>1 DEF RInv
  <1> QED BY <1>3, <1>4

\* A read begins again, by the CLI.
LEMMA ReadFallsBack == ASSUME RInv, FallBack PROVE RInv'
  <1>1. ask.pc \in {"level", "sweep"} /\ UNCHANGED <<entry, links, was, graphs>> BY DEF FallBack, Quiet, history
  <1>2. WorldInv' BY <1>1, WorldKept DEF RInv
  <1>3. "bd" \in Way BY DEF Way
  <1>4. CASE ask.op = "snapshot"
    <2>1. ask' = Walk(ask.root, ask.cap, "bd") BY <1>4 DEF FallBack
    <2>2. ask.root \in Node /\ ask.cap \in Caps BY <1>4, WhichRead, WalkHas DEF SnapInv
    <2>3. SnapInv(ask', graphs') BY <1>3, <2>1, <2>2, WalkStarts
    <2> QED BY <1>2, <2>3 DEF RInv
  <1>5. CASE ask.op # "snapshot"
    <2>1. ask' = Sweep(ask.op, "bd") BY <1>5 DEF FallBack
    <2>2. SweepInv BY <1>1, <1>5, WhichRead
    <2>3. ask.op \in {"search", "activity", "claimed"} BY <2>2 DEF SweepInv
    <2>4. SweepInv' BY <1>3, <2>1, <2>3, SweepStarts
    <2> QED BY <1>2, <2>4 DEF RInv
  <1> QED BY <1>4, <1>5

LEMMA SnapKept ==
  ASSUME RInv, ask.pc = "level", UNCHANGED <<entry, links, was, graphs>>, SnapInv(ask', graphs) PROVE RInv'
  <1>1. WorldInv' BY WorldKept DEF RInv
  <1> QED BY <1>1 DEF RInv

\* Every step of a walk.
LEMMA ReadWalks ==
  ASSUME RInv, (\E part \in ToSet(Part) : LoadPart(part) \/ LoadFails(part)) \/ Full \/ Visit \/ PassOver \/ NextLevel
  PROVE  RInv'
  <1>1. ask.pc = "level" /\ UNCHANGED <<entry, links, was, graphs>>
    BY DEF LoadPart, LoadFails, MayLoad, Loading, Full, Visit, PassOver, NextLevel, Quiet, history
  <1>2. SnapInv(ask, graphs) BY <1>1, WhichRead
  <1>3. ask \in Walks BY <1>2 DEF SnapInv
  <1>4. links \in graphs /\ links \in [Node -> Seq(Node)] BY <1>1 DEF RInv, WorldInv
  <1>5. Due = DueOf(ask) BY DEF Due, DueOf
  <1> SUFFICES SnapInv(ask', graphs) BY <1>1, SnapKept
  <1>6. ASSUME NEW part \in ToSet(Part), LoadPart(part) PROVE SnapInv(ask', graphs)
    <2>1. ask.level # << >> BY <1>6 DEF LoadPart, MayLoad, Loading
    <2>2. ask' = [ask EXCEPT !.loaded = With(@, part, [b \in DueOf(ask) |-> PartRead(part, links, b)])]
      BY <1>5, <1>6 DEF LoadPart
    <2>3. {} \in SUBSET DueOf(ask) OBVIOUS
    <2> QED BY <1>2, <1>4, <2>1, <2>2, <2>3, WalkLoadsPart
  <1>7. ASSUME NEW part \in ToSet(Part), LoadFails(part) PROVE SnapInv(ask', graphs)
    <2>1. ask.level # << >> BY <1>7 DEF LoadFails, MayLoad, Loading
    <2>2. PICK failed \in IF ask.via = "bd" THEN {Due} ELSE {{b} : b \in Due} :
            ask' = [ask EXCEPT !.lost = @ \union failed,
                      !.loaded = With(@, part, [b \in Due |-> IF b \in failed THEN << >> ELSE PartRead(part, links, b)])]
      BY <1>7 DEF LoadFails
    <2>3. failed \in SUBSET DueOf(ask) BY <1>5
    <2>4. ask' = PartLost(ask, part, links, failed) BY <1>5, <2>2 DEF PartLost
    <2>5. SnapInv(PartLost(ask, part, links, failed), graphs) BY <1>2, <1>4, <2>1, <2>3, WalkLoadsPart
    <2> QED BY <2>4, <2>5
  <1>8. ASSUME Full PROVE SnapInv(ask', graphs)
    <2>1. ask' = [ask EXCEPT !.pc = "done", !.truncated = TRUE] BY <1>8 DEF Full
    <2> QED BY <1>2, <2>1, WalkFull
  <1>9. ASSUME Visit PROVE SnapInv(ask', graphs)
    <2>1. /\ ask.level # << >> /\ Len(ask.nodes) < ask.cap /\ DOMAIN ask.loaded = ToSet(Part)
          /\ Head(ask.level) \notin Missing
          /\ ask' = Onward(Listed(ask, Head(ask.level), InParts([part \in ToSet(Part) |-> ask.loaded[part][Head(ask.level)]])))
      BY <1>9 DEF Visit, AllLoaded
    <2>2. ask' = Onward(Listed(ask, Head(ask.level), Gathered(ask, Head(ask.level)))) BY <2>1 DEF Gathered
    <2> QED BY <1>1, <1>2, <2>1, <2>2, WalkVisit
  <1>10. ASSUME PassOver PROVE SnapInv(ask', graphs)
    <2>1. ask.level # << >> BY <1>10 DEF PassOver, Loading
    <2>2. \/ Head(ask.level) \in Missing /\ ask' = Onward([ask EXCEPT !.level = Tail(@)])
          \/ ask' = Onward([ask EXCEPT !.level = Tail(@), !.lost = @ \union {Head(ask.level)}])
      BY <1>10 DEF PassOver
    <2> QED BY <1>1, <1>2, <2>1, <2>2, WalkMisses
  <1>11. ASSUME NextLevel PROVE SnapInv(ask', graphs)
    <2>1. ask.level = << >> BY <1>11 DEF NextLevel
    <2>2. CASE ask.next = << >>
      <3>1. ask' = [ask EXCEPT !.pc = "done"] BY <1>11, <2>2 DEF NextLevel
      <3> QED BY <1>2, <2>1, <2>2, <3>1, WalkOver
    <2>3. CASE ask.next # << >>
      <3>1. ask' = [ask EXCEPT !.level = ask.next, !.next = << >>, !.depth = @ + 1, !.loaded = << >>]
        BY <1>11, <2>3 DEF NextLevel
      <3>2. ask' = [ask EXCEPT !.level = ask.next, !.next = << >>, !.depth = ask.depth + 1, !.loaded = << >>] BY <3>1
      <3> QED BY <1>1, <1>2, <2>1, <3>2, WalkDeeper
    <2> QED BY <2>2, <2>3
  <1> QED BY <1>6, <1>7, <1>8, <1>9, <1>10, <1>11

\* Rows that were just listed are true, and leave out nothing newer.
LEMMA ListingTrue ==
  ASSUME WorldInv, ask.pc # "idle", NEW op, NEW s
  PROVE  /\ RowsOf(s, Listing(op, s))
         /\ \A i \in 1 .. Len(Listing(op, s)) : TrueRow(Listing(op, s)[i])
         /\ op = "activity" => NoNewerLeftOut(s, Listing(op, s))
  <1> DEFINE rows == Listing(op, s)
  <1>1. entry \in [Node -> Content] BY DEF WorldInv
  <1>2. /\ RowsOf(s, rows)
        /\ \A i \in 1 .. Len(rows) : rows[i].entry = entry[rows[i].id]
        /\ \A b \in Named : StoreOf[b] = s /\ (op = "claimed" => entry[b].claim # "closed") =>
             \/ \E i \in 1 .. Len(rows) : rows[i].id = b
             \/ Len(rows) = PerStore /\ \A i \in 1 .. Len(rows) : rows[i].entry.updated >= entry[b].updated
    BY <1>1, ListingIs
  <1> HIDE DEF rows
  <1>3. rows \in Seq(Reading) BY <1>2 DEF RowsOf
  <1>4. ASSUME NEW i \in 1 .. Len(rows) PROVE TrueRow(rows[i])
    <2>1. rows[i] \in Reading BY <1>3
    <2>2. rows[i].id \in Node BY <2>1, ReadsTyped DEF Reading
    <2>3. entry[rows[i].id].claim \in was[rows[i].id] BY <2>2 DEF WorldInv
    <2> QED BY <1>2, <2>3 DEF TrueRow
  <1>5. op = "activity" => NoNewerLeftOut(s, rows) BY <1>2 DEF NoNewerLeftOut
  <1> QED BY <1>2, <1>4, <1>5 DEF rows

\* A store has answered.
LEMMA SweepReads ==
  ASSUME WorldInv, SweepInv, UNCHANGED <<entry, was>>, NEW s \in Store, NEW rows, RowsOf(s, rows),
         \A i \in 1 .. Len(rows) : TrueRow(rows[i]),
         DOMAIN ask' = SweepParts, ask'.op = ask.op, ask'.pc = "sweep", ask'.todo = ask.todo \ {s},
         ask'.got = With(ask.got, s, rows), ask.errors \subseteq ask'.errors,
         ask.op = "activity" /\ s \notin ask'.errors => NoNewerLeftOut(s, rows)
  PROVE  SweepInv'
  <1> DEFINE got == ask.got
             h == With(got, s, rows)
  <1>1. DOMAIN h = DOMAIN got \union {s} BY WithIs
  <1>2. \A t \in DOMAIN got \union {s} : h[t] = IF t = s THEN rows ELSE got[t]
    <2>1. h = [t \in DOMAIN got \union {s} |-> IF t = s THEN rows ELSE got[t]] BY DEF With
    <2> HIDE DEF h
    <2> QED BY <2>1
  <1>3. ask'.got = h OBVIOUS
  <1>4. GotRight(got) /\ DOMAIN got \subseteq Store BY DEF SweepInv, GotRight
  <1> HIDE DEF h
  <1>5. GotRight(h)
    <2>1. ASSUME NEW t \in DOMAIN h PROVE RowsOf(t, h[t])
      <3>1. CASE t = s BY <1>1, <1>2, <3>1
      <3>2. CASE t # s BY <1>1, <1>2, <1>4, <3>2 DEF GotRight
      <3> QED BY <3>1, <3>2
    <2> QED BY <1>1, <1>4, <2>1 DEF GotRight
  <1>6. ASSUME NEW t \in DOMAIN h, NEW i \in 1 .. Len(h[t]) PROVE TrueRow(h[t][i])
    <2>1. CASE t = s BY <1>1, <1>2, <2>1
    <2>2. CASE t # s BY <1>1, <1>2, <2>2 DEF SweepInv
    <2> QED BY <2>1, <2>2
  <1>7. ASSUME ask.op = "activity", NEW t \in DOMAIN h \ ask'.errors PROVE NoNewerLeftOut(t, h[t])
    <2>1. CASE t = s BY <1>1, <1>2, <1>7, <2>1
    <2>2. CASE t # s
      <3>1. t \in DOMAIN got \ ask.errors /\ h[t] = got[t] BY <1>1, <1>2, <2>2
      <3> QED BY <1>7, <3>1 DEF SweepInv
    <2> QED BY <2>1, <2>2
  <1>8. ask'.todo \subseteq Store /\ Store \ ask'.todo \subseteq DOMAIN h BY <1>1 DEF SweepInv
  <1>9. \A r : TrueRow(r) => TrueRow(r)' BY DEF TrueRow, Untouched
  <1>10. ASSUME NEW t, NEW q, NoNewerLeftOut(t, q) PROVE NoNewerLeftOut(t, q)'
    BY <1>10 DEF NoNewerLeftOut, Untouched
  <1>11. (\A t \in DOMAIN ask.got : \A i \in 1 .. Len(ask.got[t]) : TrueRow(ask.got[t][i]))'
    BY <1>3, <1>6, <1>9
  <1>12. (ask.op = "activity" => \A t \in DOMAIN ask.got \ ask.errors : NoNewerLeftOut(t, ask.got[t]))'
    BY <1>3, <1>7, <1>10
  <1> QED BY <1>3, <1>5, <1>8, <1>11, <1>12 DEF SweepInv

\* The field of a record under change.
LEMMA SweepChanged ==
  ASSUME NEW a, DOMAIN a = SweepParts, NEW t, NEW g, NEW e, NEW p
  PROVE  /\ LET v == [a EXCEPT !.todo = t, !.got = g]
            IN /\ DOMAIN v = SweepParts /\ v.op = a.op /\ v.pc = a.pc /\ v.todo = t /\ v.got = g /\ v.errors = a.errors
         /\ LET v == [a EXCEPT !.todo = t, !.got = g, !.errors = e]
            IN /\ DOMAIN v = SweepParts /\ v.op = a.op /\ v.pc = a.pc /\ v.todo = t /\ v.got = g /\ v.errors = e
         /\ LET v == [a EXCEPT !.pc = p, !.todo = t, !.got = g]
            IN /\ DOMAIN v = SweepParts /\ v.op = a.op /\ v.pc = p /\ v.todo = t /\ v.got = g /\ v.errors = a.errors
  BY DEF SweepParts

\* Every step of a sweep.
LEMMA ReadSweeps == ASSUME RInv, SweepSql \/ SweepBd PROVE RInv'
  <1>1. ask.pc = "sweep" /\ UNCHANGED <<entry, links, was, graphs>> BY DEF SweepSql, SweepBd, Quiet, history
  <1>2. SweepInv /\ WorldInv BY <1>1, WhichRead DEF RInv
  <1>3. WorldInv' BY <1>1, <1>2, WorldKept
  <1>4. DOMAIN ask = SweepParts BY <1>2 DEF SweepInv
  <1> SUFFICES SweepInv' BY <1>3 DEF RInv
  <1>5. CASE SweepSql
    <2> DEFINE g == [s \in Store |-> Listing(ask.op, s)]
               v == [ask EXCEPT !.pc = "merge", !.todo = {}, !.got = g]
    <2>1. ask' = v BY <1>5 DEF SweepSql
    <2>2. DOMAIN g = Store /\ \A s \in Store : g[s] = Listing(ask.op, s) OBVIOUS
    <2> HIDE DEF g
    <2>3. DOMAIN v = SweepParts /\ v.op = ask.op /\ v.pc = "merge" /\ v.todo = {} /\ v.got = g /\ v.errors = ask.errors
      BY <1>4, SweepChanged
    <2> HIDE DEF v
    <2>4. \A s \in Store : /\ RowsOf(s, g[s])
                           /\ \A i \in 1 .. Len(g[s]) : TrueRow(g[s][i])
                           /\ ask.op = "activity" => NoNewerLeftOut(s, g[s])
      BY <1>1, <1>2, <2>2, ListingTrue
    <2>5. GotRight(g) BY <2>2, <2>4 DEF GotRight
    <2>6. \A r : TrueRow(r) => TrueRow(r)' BY <1>1 DEF TrueRow, Untouched
    <2>7. ASSUME NEW t, NEW q, NoNewerLeftOut(t, q) PROVE NoNewerLeftOut(t, q)'
      BY <1>1, <2>7 DEF NoNewerLeftOut, Untouched
    <2>8. /\ ask'.got = g /\ ask'.op = ask.op /\ ask'.pc = "merge" /\ ask'.todo = {} /\ DOMAIN ask' = SweepParts
      BY <2>1, <2>3
    <2>9. (\A t \in DOMAIN ask.got : \A i \in 1 .. Len(ask.got[t]) : TrueRow(ask.got[t][i]))'
      BY <2>2, <2>4, <2>6, <2>8
    <2>10. (ask.op = "activity" => \A t \in DOMAIN ask.got \ ask.errors : NoNewerLeftOut(t, ask.got[t]))'
      BY <2>2, <2>4, <2>7, <2>8
    <2>11. ask.op \in {"search", "activity", "claimed"} BY <1>2 DEF SweepInv
    <2> QED BY <2>2, <2>5, <2>8, <2>9, <2>10, <2>11 DEF SweepInv
  <1>6. CASE SweepBd
    <2>1. PICK s \in ask.todo :
            \/ ask' = [ask EXCEPT !.todo = @ \ {s}, !.got = With(@, s, Listing(ask.op, s))]
            \/ ask' = [ask EXCEPT !.todo = @ \ {s}, !.got = With(@, s, << >>), !.errors = @ \union {s}]
      BY <1>6 DEF SweepBd
    <2>2. s \in Store BY <1>2 DEF SweepInv
    <2>3. CASE ask' = [ask EXCEPT !.todo = @ \ {s}, !.got = With(@, s, Listing(ask.op, s))]
      <3> DEFINE rows == Listing(ask.op, s)
                 t == ask.todo \ {s}
                 g == With(ask.got, s, rows)
                 v == [ask EXCEPT !.todo = t, !.got = g]
      <3>1. ask' = v BY <2>3
      <3>2. g = With(ask.got, s, rows) /\ t = ask.todo \ {s} OBVIOUS
      <3>3. RowsOf(s, rows) /\ (\A i \in 1 .. Len(rows) : TrueRow(rows[i])) /\ (ask.op = "activity" => NoNewerLeftOut(s, rows))
        BY <1>1, <1>2, ListingTrue
      <3> HIDE DEF rows, t, g
      <3>4. DOMAIN v = SweepParts /\ v.op = ask.op /\ v.pc = ask.pc /\ v.todo = t /\ v.got = g /\ v.errors = ask.errors
        BY <1>4, SweepChanged
      <3> HIDE DEF v
      <3> QED BY <1>1, <1>2, <2>2, <3>1, <3>2, <3>3, <3>4, SweepReads
    <2>4. CASE ask' = [ask EXCEPT !.todo = @ \ {s}, !.got = With(@, s, << >>), !.errors = @ \union {s}]
      <3> DEFINE rows == << >>
                 t == ask.todo \ {s}
                 g == With(ask.got, s, rows)
                 e == ask.errors \union {s}
                 v == [ask EXCEPT !.todo = t, !.got = g, !.errors = e]
      <3>1. ask' = v BY <2>4
      <3>2. g = With(ask.got, s, rows) /\ t = ask.todo \ {s} /\ e = ask.errors \union {s} OBVIOUS
      <3>3. RowsOf(s, rows) /\ (\A i \in 1 .. Len(rows) : TrueRow(rows[i])) BY ReadsTyped DEF RowsOf
      <3> HIDE DEF rows, t, g, e
      <3>4. DOMAIN v = SweepParts /\ v.op = ask.op /\ v.pc = ask.pc /\ v.todo = t /\ v.got = g /\ v.errors = e
        BY <1>4, SweepChanged
      <3> HIDE DEF v
      <3> QED BY <1>1, <1>2, <2>2, <3>1, <3>2, <3>3, <3>4, SweepReads
    <2> QED BY <2>1, <2>3, <2>4
  <1> QED BY <1>5, <1>6

\* The rows are merged into the answer, or looked up again, or the best is a walk's root.
LEMMA ReadMerges == ASSUME RInv, Merge PROVE RInv'
  <1> DEFINE rows == Merged(ask.op, ask.got)
  <1>1. ask.pc \in {"sweep", "merge"} /\ UNCHANGED <<entry, links, was, graphs>> BY DEF Merge, Quiet, history
  <1>2. SweepInv /\ WorldInv BY <1>1, WhichRead DEF RInv
  <1>3. WorldInv' BY <1>1, <1>2, WorldKept
  <1>4. ask.todo = {} BY <1>2 DEF Merge, SweepInv
  <1>5. GotRight(ask.got) BY <1>2 DEF SweepInv
  <1>6. /\ rows \in Seq(Reading) /\ Len(rows) \in Nat /\ Len(rows) <= Limit
        /\ \A i \in 1 .. Len(rows) : rows[i] \in AllOf(ask.got)
    BY <1>5, MergedIs
  <1>7. rows = Merged(ask.op, ask.got) OBVIOUS
  <1>8. ask' \in IF ask.op = "search" /\ rows # << >>
                 THEN {Walk(rows[1].id, cap, "sql") : cap \in Caps}
                 ELSE {[op |-> ask.op, pc |-> IF ask.op = "claimed" THEN "detail" ELSE "done",
                        rows |-> rows, errors |-> ask.errors,
                        todo |-> DOMAIN rows, live |-> [i \in DOMAIN rows |-> rows[i].entry.claim]]}
    BY DEF Merge
  <1> HIDE DEF rows
  <1>9. DOMAIN rows = 1 .. Len(rows) BY <1>6
  <1>10. ASSUME NEW i \in 1 .. Len(rows) PROVE rows[i].entry.claim \in was[rows[i].id]
    <2>1. rows[i] \in AllOf(ask.got) BY <1>6
    <2>2. PICK s \in DOMAIN ask.got : \E j \in 1 .. Len(ask.got[s]) : ask.got[s][j] = rows[i] BY <1>5, <2>1, AllOfIs
    <2>3. TrueRow(rows[i]) BY <1>2, <2>2 DEF SweepInv
    <2> QED BY <2>3 DEF TrueRow
  <1>11. CASE ask.op = "search" /\ rows # << >>
    <2>1. PICK cap \in Caps : ask' = Walk(rows[1].id, cap, "sql") BY <1>8, <1>11
    <2>2. rows[1].id \in Node
      <3>1. 1 \in 1 .. Len(rows) BY <1>6, <1>11
      <3>2. rows[1] \in Reading BY <1>6, <3>1
      <3> QED BY <3>2, ReadsTyped DEF Reading
    <2>3. SnapInv(ask', graphs') BY <2>1, <2>2, WalkStarts DEF Way
    <2> QED BY <1>3, <2>3 DEF RInv
  <1>12. CASE ~(ask.op = "search" /\ rows # << >>)
    <2> DEFINE live == [i \in DOMAIN rows |-> rows[i].entry.claim]
    <2>1. ask' = [op |-> ask.op, pc |-> IF ask.op = "claimed" THEN "detail" ELSE "done",
                  rows |-> rows, errors |-> ask.errors, todo |-> DOMAIN rows, live |-> live]
      BY <1>8, <1>12
    <2>2. DOMAIN live = DOMAIN rows /\ \A i \in DOMAIN rows : live[i] = rows[i].entry.claim OBVIOUS
    <2> HIDE DEF live
    <2>3. /\ DOMAIN ask' = {"op", "pc", "rows", "errors", "todo", "live"} /\ ask'.op = ask.op
          /\ ask'.pc = (IF ask.op = "claimed" THEN "detail" ELSE "done")
          /\ ask'.rows = rows /\ ask'.errors = ask.errors /\ ask'.todo = DOMAIN rows /\ ask'.live = live
      BY <2>1
    <2>4. CASE ask.op = "claimed"
      <3>1. DetailInv' BY <1>1, <1>6, <1>9, <1>10, <2>2, <2>3, <2>4 DEF DetailInv, DetailParts
      <3> QED BY <1>3, <3>1 DEF RInv
    <2>5. CASE ask.op # "claimed"
      <3>1. ask'.op \in {"search", "activity", "claimed"} /\ ask'.pc = "done" BY <1>2, <2>3, <2>5 DEF SweepInv
      <3>2. VerdictHasEvidence' BY <2>3, <2>5 DEF VerdictHasEvidence
      <3>3. ASSUME ask.op = "activity", NEW b \in Named, Cardinality(was[b]) = 1, StoreOf[b] \notin ask.errors,
                   \A i \in DOMAIN rows : rows[i].id # b
            PROVE  Len(rows) = Limit /\ \A i \in DOMAIN rows : rows[i].entry.updated >= entry[b].updated
        <4>1. b \in Node BY ReadsTyped
        <4>2. Untouched(b) BY <1>1, <1>2, <3>3, <4>1, OneClaimIs
        <4> QED BY <1>2, <1>4, <1>7, <1>9, <3>3, <4>2, MergeShowsNewest
      <3>4. NewestAreShown' BY <1>1, <2>3, <3>3 DEF NewestAreShown
      <3>5. DoneInv' BY <1>6, <2>3, <3>1, <3>2, <3>4 DEF DoneInv
      <3> QED BY <1>3, <3>5 DEF RInv
    <2> QED BY <2>4, <2>5
  <1> QED BY <1>11, <1>12

\* The fields of the record under change.
LEMMA DetailChanged ==
  ASSUME NEW a, DOMAIN a = DetailParts, NEW t, NEW l
  PROVE  /\ LET v == [a EXCEPT !.todo = t]
            IN DOMAIN v = DetailParts /\ v.op = a.op /\ v.pc = a.pc /\ v.rows = a.rows /\ v.todo = t /\ v.live = a.live
         /\ LET v == [a EXCEPT !.todo = t, !.live = l]
            IN DOMAIN v = DetailParts /\ v.op = a.op /\ v.pc = a.pc /\ v.rows = a.rows /\ v.todo = t /\ v.live = l
  BY DEF DetailParts

\* A row is looked up again.
LEMMA ReadDetails == ASSUME RInv, Detail PROVE RInv'
  <1>1. ask.pc = "detail" /\ UNCHANGED <<entry, links, was, graphs>> BY DEF Detail, Quiet, history
  <1>2. DetailInv /\ WorldInv BY <1>1, WhichRead DEF RInv
  <1>3. WorldInv' BY <1>1, <1>2, WorldKept
  <1>4. DOMAIN ask = DetailParts BY <1>2 DEF DetailInv
  <1> SUFFICES DetailInv' BY <1>3 DEF RInv
  <1>5. PICK i \in ask.todo :
          \/ ask' = [ask EXCEPT !.todo = @ \ {i}, !.live[i] = entry[ask.rows[i].id].claim]
          \/ ask' = [ask EXCEPT !.todo = @ \ {i}]
    BY DEF Detail
  <1>6. i \in DOMAIN ask.rows /\ ask.rows \in Seq(Reading) BY <1>2 DEF DetailInv
  <1>7. entry[ask.rows[i].id].claim \in was[ask.rows[i].id]
    <2>1. ask.rows[i] \in Reading BY <1>6
    <2>2. ask.rows[i].id \in Node BY <2>1, ReadsTyped DEF Reading
    <2> QED BY <1>1, <1>2, <2>2 DEF WorldInv
  <1>8. CASE ask' = [ask EXCEPT !.todo = @ \ {i}, !.live[i] = entry[ask.rows[i].id].claim]
    <2> DEFINE t == ask.todo \ {i}
               l == [ask.live EXCEPT ![i] = entry[ask.rows[i].id].claim]
               v == [ask EXCEPT !.todo = t, !.live = l]
    <2>1. ask' = v BY <1>8
    <2>2. t \subseteq DOMAIN ask.rows BY <1>2 DEF DetailInv
    <2>3. DOMAIN l = DOMAIN ask.rows /\ \A j \in DOMAIN ask.rows : l[j] \in was[ask.rows[j].id]
      BY <1>2, <1>7 DEF DetailInv
    <2> HIDE DEF t, l
    <2>4. DOMAIN v = DetailParts /\ v.op = ask.op /\ v.pc = ask.pc /\ v.rows = ask.rows /\ v.todo = t /\ v.live = l
      BY <1>4, DetailChanged
    <2> HIDE DEF v
    <2> QED BY <1>1, <1>2, <2>1, <2>2, <2>3, <2>4 DEF DetailInv
  <1>9. CASE ask' = [ask EXCEPT !.todo = @ \ {i}]
    <2> DEFINE t == ask.todo \ {i}
               v == [ask EXCEPT !.todo = t]
    <2>1. ask' = v BY <1>9
    <2>2. t \subseteq DOMAIN ask.rows BY <1>2 DEF DetailInv
    <2> HIDE DEF t
    <2>3. DOMAIN v = DetailParts /\ v.op = ask.op /\ v.pc = ask.pc /\ v.rows = ask.rows /\ v.todo = t /\ v.live = ask.live
      BY <1>4, DetailChanged
    <2> HIDE DEF v
    <2> QED BY <1>1, <1>2, <2>1, <2>2, <2>3 DEF DetailInv
  <1> QED BY <1>5, <1>8, <1>9

\* What is said of a claim.
LEMMA JudgedIs ==
  ASSUME NEW r \in Content, NEW live
  PROVE  /\ Judged(r, live) \in Judgement
         /\ Judged(r, live) = "completed" => "closed" \in {r.claim, live}
         /\ Judged(r, live) = "abandoned" => "released" \in {r.claim, live}
  <1>1. ASSUME NEW x
        PROVE  /\ Classify(x) \in Judgement
               /\ Classify(x) = "completed" => x.claim = "closed"
               /\ Classify(x) = "abandoned" => x.claim = "released"
    BY DEF Classify, Judgement
  <1> DEFINE q == [r EXCEPT !.claim = live]
  <1>2. q.claim = live BY DEF Content
  <1>3. Judged(r, live) = Classify(r) \/ Judged(r, live) = Classify(q) BY DEF Judged
  <1> HIDE DEF q
  <1> QED BY <1>1, <1>2, <1>3

\* The verdicts are given.
LEMMA ReadReports == ASSUME RInv, Report PROVE RInv'
  <1>1. ask.pc = "detail" /\ UNCHANGED <<entry, links, was, graphs>> BY DEF Report, Quiet, history
  <1>2. DetailInv /\ WorldInv BY <1>1, WhichRead DEF RInv
  <1>3. WorldInv' BY <1>1, <1>2, WorldKept
  <1> DEFINE verdicts == [i \in DOMAIN ask.rows |-> Judged(ask.rows[i].entry, ask.live[i])]
  <1>4. ask' = [op |-> "claimed", pc |-> "done", rows |-> ask.rows, errors |-> ask.errors, verdicts |-> verdicts]
    BY DEF Report
  <1>5. ASSUME NEW i \in DOMAIN ask.rows
        PROVE  LET seen == was[ask.rows[i].id]
               IN /\ verdicts[i] \in Judgement
                  /\ verdicts[i] = "completed" => "closed" \in seen
                  /\ verdicts[i] = "abandoned" => "released" \in seen
    <2>1. ask.rows \in Seq(Reading) BY <1>2 DEF DetailInv
    <2>2. ask.rows[i] \in Reading BY <2>1
    <2>3. ask.rows[i].entry \in Content BY <2>2 DEF Reading
    <2>4. ask.rows[i].entry.claim \in was[ask.rows[i].id] /\ ask.live[i] \in was[ask.rows[i].id] BY <1>2 DEF DetailInv
    <2>5. verdicts[i] = Judged(ask.rows[i].entry, ask.live[i]) OBVIOUS
    <2> HIDE DEF verdicts
    <2> DEFINE r == ask.rows[i].entry
               live == ask.live[i]
    <2>6. r \in Content /\ verdicts[i] = Judged(r, live) BY <2>3, <2>5
    <2>7. r.claim \in was[ask.rows[i].id] /\ live \in was[ask.rows[i].id] BY <2>4
    <2> HIDE DEF r, live
    <2> QED BY <2>6, <2>7, JudgedIs
  <1> HIDE DEF verdicts
  <1>6. ask'.op = "claimed" /\ ask'.pc = "done" /\ ask'.rows = ask.rows /\ ask'.verdicts = verdicts BY <1>4
  <1>7. VerdictHasEvidence' BY <1>1, <1>5, <1>6 DEF VerdictHasEvidence
  <1>8. NewestAreShown' BY <1>6 DEF NewestAreShown
  <1>9. DoneInv' BY <1>2, <1>6, <1>7, <1>8 DEF DoneInv, DetailInv
  <1> QED BY <1>3, <1>9 DEF RInv

\* A bead's claim changes under a list.
LEMMA ReadsChange == ASSUME RInv, SetClaim PROVE RInv'
  <1>1. /\ ask.pc \notin {"idle", "done"} /\ ask.op # "snapshot" /\ UNCHANGED <<links, ask, graphs>>
    BY DEF SetClaim, Change
  <1>2. WorldInv BY DEF RInv
  <1>3. PICK b \in Named, claim \in Claim :
          /\ claim # entry[b].claim
          /\ entry' = [entry EXCEPT ![b] = [@ EXCEPT !.claim = claim, !.updated = LastUpdate + 1]]
          /\ was' = [was EXCEPT ![b] = @ \union {claim}]
    BY DEF SetClaim
  <1>4. b \in Node /\ entry \in [Node -> Content] /\ was \in [Node -> SUBSET Claim] BY <1>2, ReadsTyped DEF WorldInv
  <1>5. LastUpdate + 1 \in Nat BY <1>2, <1>4, LastUpdateIs
  <1> DEFINE c == [entry[b] EXCEPT !.claim = claim, !.updated = LastUpdate + 1]
  <1>6. c \in Content /\ c.claim = claim
    <2>1. entry[b] \in Content BY <1>4
    <2> QED BY <1>5, <2>1 DEF Content
  <1>7. entry' = [entry EXCEPT ![b] = c] BY <1>3
  <1> HIDE DEF c
  <1>8. /\ entry' \in [Node -> Content] /\ was' \in [Node -> SUBSET Claim]
        /\ entry'[b].claim = claim /\ was'[b] = was[b] \union {claim}
        /\ \A x \in Node : x # b => entry'[x] = entry[x] /\ was'[x] = was[x]
    BY <1>3, <1>4, <1>6, <1>7
  <1>9. \A x \in Node : entry[x].claim \in was[x] BY <1>1, <1>2 DEF WorldInv
  <1>10. WorldInv'
    <2>1. \A x \in Node : entry'[x].claim \in was'[x] BY <1>8, <1>9
    <2> QED BY <1>1, <1>2, <1>8, <2>1 DEF WorldInv
  <1>11. \A x \in Node : was[x] \subseteq was'[x] BY <1>8
  <1>12. ASSUME NEW x \in Node, Untouched(x)' PROVE Untouched(x) /\ entry'[x] = entry[x] /\ x # b
    <2>1. x # b
      <3>1. entry[b].claim \in was'[b] /\ claim \in was'[b] /\ claim # entry[b].claim BY <1>3, <1>4, <1>8, <1>9
      <3>2. x = b => was'[b] = {claim} BY <1>8, <1>12 DEF Untouched
      <3> QED BY <3>1, <3>2
    <2> QED BY <1>8, <1>12, <2>1 DEF Untouched
  <1>13. CASE SweepInv
    <2>1. ASSUME NEW r \in Reading, TrueRow(r) PROVE TrueRow(r)'
      <3>1. r.id \in Node BY ReadsTyped DEF Reading
      <3> QED BY <1>11, <1>12, <2>1, <3>1 DEF TrueRow
    <2>2. ASSUME NEW s, NEW rows, NoNewerLeftOut(s, rows) PROVE NoNewerLeftOut(s, rows)'
      <3>1. \A x \in Named : x \in Node BY ReadsTyped
      <3> QED BY <1>12, <2>2, <3>1 DEF NoNewerLeftOut
    <2>3. ASSUME NEW s \in DOMAIN ask.got, NEW i \in 1 .. Len(ask.got[s]) PROVE ask.got[s][i] \in Reading /\ TrueRow(ask.got[s][i])
      <3>1. ask.got[s] \in Seq(Reading) BY <1>13 DEF SweepInv, GotRight, RowsOf
      <3> DEFINE q == ask.got[s]
      <3>2. q \in Seq(Reading) /\ i \in 1 .. Len(q) BY <3>1
      <3> HIDE DEF q
      <3>3. q[i] \in Reading BY <3>2
      <3> QED BY <1>13, <3>3 DEF q, SweepInv
    <2>4. (\A s \in DOMAIN ask.got : \A i \in 1 .. Len(ask.got[s]) : TrueRow(ask.got[s][i]))'
      BY <1>1, <2>1, <2>3
    <2>5. (ask.op = "activity" => \A s \in DOMAIN ask.got \ ask.errors : NoNewerLeftOut(s, ask.got[s]))'
      BY <1>1, <1>13, <2>2 DEF SweepInv
    <2>6. SweepInv' BY <1>1, <1>13, <2>4, <2>5 DEF SweepInv
    <2> QED BY <1>10, <2>6 DEF RInv
  <1>14. CASE DetailInv
    <2>1. ASSUME NEW i \in DOMAIN ask.rows PROVE was[ask.rows[i].id] \subseteq was'[ask.rows[i].id]
      <3>1. ask.rows \in Seq(Reading) BY <1>14 DEF DetailInv
      <3>2. ask.rows[i] \in Reading BY <3>1
      <3>3. ask.rows[i].id \in Node BY <3>2, ReadsTyped DEF Reading
      <3> QED BY <1>11, <3>3
    <2>2. DetailInv' BY <1>1, <1>14, <2>1 DEF DetailInv
    <2> QED BY <1>10, <2>2 DEF RInv
  <1>15. SweepInv \/ DetailInv
    <2>1. ask # NoRead BY <1>1 DEF NoRead
    <2>2. ~SnapInv(ask, graphs) BY <1>1, WhichRead
    <2>3. ~DoneInv BY <1>1 DEF DoneInv
    <2> QED BY <2>1, <2>2, <2>3 DEF RInv
  <1> QED BY <1>13, <1>14, <1>15

\* The links change under a walk.
LEMMA LinksChange == ASSUME RInv, Relink PROVE RInv'
  <1>1. ask.op = "snapshot" /\ ask.pc # "idle" /\ UNCHANGED <<entry, ask, was>> BY DEF Relink, Change
  <1>2. PICK new \in Links : links' = new /\ graphs' = graphs \union {new} BY DEF Relink
  <1>3. new \in [Node -> Seq(Node)] BY RetrievalAssumption
  <1>4. WorldInv' BY <1>1, <1>2, <1>3 DEF RInv, WorldInv
  <1>5. SnapInv(ask, graphs) BY <1>1, WhichRead
  <1>6. graphs \subseteq graphs' BY <1>2
  <1>7. SnapInv(ask, graphs') BY <1>5, <1>6, WalkRelinked
  <1> QED BY <1>1, <1>4, <1>7 DEF RInv

\* At the start nothing is asked.
LEMMA ReadStarts == RetrievalInit => RInv
  <1> SUFFICES ASSUME RetrievalInit PROVE RInv OBVIOUS
  <1>1. entry \in [Node -> Content] /\ links \in [Node -> Seq(Node)] BY RetrievalAssumption DEF RetrievalInit
  <1>2. was \in [Node -> SUBSET Claim] /\ graphs = {} /\ ask = NoRead BY DEF RetrievalInit
  <1>3. ask.pc = "idle" BY <1>2 DEF NoRead
  <1> QED BY <1>1, <1>2, <1>3 DEF RInv, WorldInv

\* Every step keeps the invariant.
LEMMA ReadSteps == RInv /\ [RetrievalNext]_retrievalVars => RInv'
  <1> SUFFICES ASSUME RInv, [RetrievalNext]_retrievalVars PROVE RInv' OBVIOUS
  <1>w. "sql" \in Way BY DEF Way
  <1>1. CASE AskSnapshot
    <2>1. PICK root \in Node, cap \in Caps : Begins(Walk(root, cap, "sql")) BY <1>1 DEF AskSnapshot
    <2> QED BY <1>w, <2>1, ReadBegins
  <1>2. CASE AskPhrase BY <1>2, <1>w, ReadBegins DEF AskPhrase
  <1>3. CASE AskActivity BY <1>3, <1>w, ReadBegins DEF AskActivity
  <1>4. CASE AskClaimed BY <1>4, <1>w, ReadBegins DEF AskClaimed
  <1>5. CASE ReadStep
    <2>1. CASE FallBack BY <2>1, ReadFallsBack
    <2>2. CASE (\E part \in ToSet(Part) : LoadPart(part) \/ LoadFails(part)) \/ Full \/ Visit \/ PassOver \/ NextLevel
      BY <2>2, ReadWalks
    <2>3. CASE SweepSql \/ SweepBd BY <2>3, ReadSweeps
    <2>4. CASE Merge BY <2>4, ReadMerges
    <2>5. CASE Detail BY <2>5, ReadDetails
    <2>6. CASE Report BY <2>6, ReadReports
    <2> QED BY <1>5, <2>1, <2>2, <2>3, <2>4, <2>5, <2>6 DEF ReadStep
  <1>6. CASE SetClaim BY <1>6, ReadsChange
  <1>7. CASE Relink BY <1>7, LinksChange
  <1>8. CASE UNCHANGED retrievalVars
    <2>1. UNCHANGED <<entry, links, ask, graphs, was>> BY <1>8 DEF retrievalVars
    <2>2. WorldInv' BY <2>1 DEF RInv, WorldInv
    <2>3. ask = NoRead => ask' = NoRead BY <2>1
    <2>4. SnapInv(ask, graphs) => SnapInv(ask', graphs') BY <2>1
    <2>5. SweepInv => SweepInv' BY <2>1 DEF SweepInv, TrueRow, NoNewerLeftOut, Untouched
    <2>6. DetailInv => DetailInv' BY <2>1 DEF DetailInv
    <2>7. DoneInv => DoneInv' BY <2>1 DEF DoneInv, VerdictHasEvidence, NewestAreShown
    <2> QED BY <2>2, <2>3, <2>4, <2>5, <2>6, <2>7 DEF RInv
  <1> QED BY <1>1, <1>2, <1>3, <1>4, <1>5, <1>6, <1>7, <1>8 DEF RetrievalNext

\* The bounds of the model.
Bounded == changes \in 0 .. MaxChanges /\ unread \in 0 .. MaxUnread

LEMMA CountsBounded == RetrievalSpec => []Bounded
  <1>1. RetrievalInit => Bounded BY RetrievalAssumption DEF RetrievalInit, Bounded
  <1>2. Bounded /\ [RetrievalNext]_retrievalVars => Bounded'
    <2> SUFFICES ASSUME Bounded, [RetrievalNext]_retrievalVars PROVE Bounded' OBVIOUS
    <2>0. MaxChanges \in Nat /\ MaxUnread \in Nat BY RetrievalAssumption
    <2>1. ASSUME UNCHANGED changes, UNCHANGED unread \/ CannotRead PROVE Bounded'
      BY <2>0, <2>1 DEF Bounded, CannotRead
    <2>2. ASSUME Change, UNCHANGED unread PROVE Bounded' BY <2>0, <2>2 DEF Bounded, Change
    <2>3. CASE AskSnapshot \/ AskPhrase \/ AskActivity \/ AskClaimed
      BY <2>1, <2>3 DEF AskSnapshot, AskPhrase, AskActivity, AskClaimed, Begins
    <2>4. ASSUME NEW part \in ToSet(Part), LoadPart(part) \/ LoadFails(part) PROVE Bounded'
      BY <2>1, <2>4 DEF LoadPart, LoadFails, Quiet
    <2>5. CASE FallBack BY <2>1, <2>5 DEF FallBack, Quiet
    <2>6. CASE Full \/ Visit \/ PassOver \/ NextLevel
      BY <2>1, <2>6 DEF Full, Visit, PassOver, NextLevel, Quiet
    <2>7. CASE SweepSql \/ SweepBd \/ Merge \/ Detail \/ Report
      BY <2>1, <2>7 DEF SweepSql, SweepBd, Merge, Detail, Report, Quiet
    <2>8. CASE SetClaim \/ Relink BY <2>2, <2>8 DEF SetClaim, Relink
    <2>9. CASE UNCHANGED retrievalVars BY <2>9 DEF retrievalVars, Bounded
    <2> QED BY <2>3, <2>4, <2>5, <2>6, <2>7, <2>8, <2>9 DEF RetrievalNext, ReadStep
  <1> QED BY <1>1, <1>2, PTL DEF RetrievalSpec

LEMMA ReadInvariant == RetrievalSpec => []RInv
  BY ReadStarts, ReadSteps, PTL DEF RetrievalSpec

\* A read is one of a kind, at one of its places, and shows no more rows than asked for.
THEOREM RetrievalTypeCorrect == RetrievalSpec => []RetrievalTypeOK
  <1>1. RInv /\ Bounded => RetrievalTypeOK
    <2> SUFFICES ASSUME RInv, Bounded PROVE RetrievalTypeOK OBVIOUS
    <2>1. ASSUME NEW b \in Node
          PROVE  /\ entry[b].claim \in Claim /\ entry[b].age \in Age
                 /\ {entry[b].holder, entry[b].labelled} \subseteq BOOLEAN /\ entry[b].updated \in Nat
                 /\ links[b] \in Seq(Node) /\ was[b] \subseteq Claim
      <3>1. entry[b] \in Content BY DEF RInv, WorldInv
      <3> QED BY <3>1 DEF RInv, WorldInv, Content
    <2>2. /\ ask.op \in {"none", "snapshot", "search", "activity", "claimed"}
          /\ ask.pc \in {"idle", "level", "sweep", "merge", "detail", "done"}
          /\ ask.op \in {"activity", "claimed"} /\ ask.pc \in {"detail", "done"} => Len(ask.rows) <= Limit
      <3>1. CASE ask = NoRead BY <3>1 DEF NoRead
      <3>2. CASE SnapInv(ask, graphs) BY <3>2, WhichRead
      <3>3. CASE SweepInv BY <3>3 DEF SweepInv
      <3>4. CASE DetailInv BY <3>4 DEF DetailInv
      <3>5. CASE DoneInv BY <3>5 DEF DoneInv
      <3> QED BY <3>1, <3>2, <3>3, <3>4, <3>5 DEF RInv
    <2> QED BY <2>1, <2>2 DEF RetrievalTypeOK, Bounded
  <1> QED BY <1>1, ReadInvariant, CountsBounded, PTL

\* A finished snapshot that does not say it was cut short shows every bead it
\* could reach, each once, at no greater depth than it is.
THEOREM SnapshotsAreWhole == RetrievalSpec => []SnapshotIsWhole
  <1>1. RInv => SnapshotIsWhole
    <2> SUFFICES ASSUME RInv PROVE SnapshotIsWhole OBVIOUS
    <2>1. CASE ask.op = "snapshot" BY <2>1, WhichRead, SnapShows
    <2>2. CASE ask.op # "snapshot" BY <2>2 DEF SnapshotIsWhole
    <2> QED BY <2>1, <2>2
  <1> QED BY <1>1, ReadInvariant, PTL

\* A claim is called completed or abandoned only on evidence from the time of the read.
THEOREM VerdictsHaveEvidence == RetrievalSpec => []VerdictHasEvidence
  <1>1. RInv => VerdictHasEvidence
    <2> SUFFICES ASSUME RInv, ask.pc = "done", ask.op = "claimed" PROVE VerdictHasEvidence
      BY DEF VerdictHasEvidence
    <2>1. ask # NoRead BY DEF NoRead
    <2> QED BY <2>1, WhichRead DEF RInv, DoneInv
  <1> QED BY <1>1, ReadInvariant, PTL

\* What the activity leaves out is no newer than what it shows, unless it says so.
THEOREM NewestAreNotLeftOut == RetrievalSpec => []NewestAreShown
  <1>1. RInv => NewestAreShown
    <2> SUFFICES ASSUME RInv, ask.pc = "done", ask.op = "activity" PROVE NewestAreShown
      BY DEF NewestAreShown
    <2>1. ask # NoRead BY DEF NoRead
    <2> QED BY <2>1, WhichRead DEF RInv, DoneInv
  <1> QED BY <1>1, ReadInvariant, PTL

---------------------------------------------------------------------------
(* OperatorDocument: what was told and not taken back is in one of the two  *)
(* files.  Who replaces the document has read it, and what it says is what  *)
(* they take back; a field is cleared when its text is in the document.  A  *)
(* fault takes what one file alone held, so the other still has the rest.   *)

\* The greatest of numbers that are not above some number.
LEMMA GreatestOf ==
  ASSUME NEW T, T \subseteq Nat, T # {}, NEW n \in Nat, \A t \in T : t <= n
  PROVE  \E m \in T : \A k \in T : k <= m
  <1> DEFINE U == {n - t : t \in T}
  <1>1. U \subseteq Nat /\ U # {}
    <2>1. \A t \in T : n - t \in Nat OBVIOUS
    <2> QED BY <2>1
  <1>2. PICK u \in U : \A v \in U : u <= v
    <2> HIDE DEF U
    <2> QED BY <1>1, LeastOf
  <1>3. PICK m \in T : u = n - m BY <1>2
  <1>4. ASSUME NEW k \in T PROVE k <= m
    <2>1. n - k \in U OBVIOUS
    <2>2. n - m <= n - k BY <1>2, <1>3, <2>1
    <2>3. m \in Nat /\ k \in Nat OBVIOUS
    <2> QED BY <2>2, <2>3
  <1> QED BY <1>4

\* What a line of the document may say, and its lines.
Wording == {"", "Operator personality", "Speaking preferences", "(unset)", "Action repertoire",
            "(offer)", "Operator notes", "Migrated from operator profile"}
Said == Wording \union Note \union Field \union {Unset}
DocLine == [level : Nat, text : Said]
Doc == Seq(DocLine)
Profile == [Field -> Note \union {Unset}]

\* Where the texts of a document stand.
LEMMA TextsAre ==
  ASSUME NEW d \in Doc, NEW x
  PROVE  x \in TextsOf(d) <=> \E n \in 1 .. Len(d) : d[n].level = 0 /\ d[n].text = x
  BY DEF TextsOf, Range, Doc

LEMMA LinesAre ==
  ASSUME NEW t \in Said
  PROVE  /\ Text(t) \in DocLine /\ Text(t).level = 0 /\ Text(t).text = t
         /\ Heading(t) \in DocLine /\ Line(3, t) \in DocLine /\ Line(1, t) \in DocLine
         /\ Heading(t).level # 0 /\ Line(3, t).level # 0
         /\ BlankLine \in DocLine /\ BlankLine.level = 0 /\ BlankLine.text = ""
  <1>1. "" \in Said BY DEF Said, Wording
  <1>2. ASSUME NEW n \in Nat, NEW u \in Said
        PROVE  Line(n, u) \in DocLine /\ Line(n, u).level = n /\ Line(n, u).text = u
    BY <1>2 DEF Line, DocLine
  <1>3. Text(t) = Line(0, t) /\ Heading(t) = Line(2, t) /\ BlankLine = Line(0, "") BY DEF Text, Heading, BlankLine
  <1>4. 0 \in Nat /\ 1 \in Nat /\ 2 \in Nat /\ 3 \in Nat /\ 2 # 0 /\ 3 # 0 OBVIOUS
  <1>5. Line(0, t) \in DocLine /\ Line(0, t).level = 0 /\ Line(0, t).text = t BY <1>2, <1>4
  <1>6. Line(1, t) \in DocLine BY <1>2, <1>4
  <1>7. Line(2, t) \in DocLine /\ Line(2, t).level # 0 BY <1>2, <1>4
  <1>8. Line(3, t) \in DocLine /\ Line(3, t).level # 0 BY <1>2, <1>4
  <1>9. Line(0, "") \in DocLine /\ Line(0, "").level = 0 /\ Line(0, "").text = "" BY <1>1, <1>2, <1>4
  <1> QED BY <1>3, <1>5, <1>6, <1>7, <1>8, <1>9

\* One document after the other.
LEMMA TextsJoin ==
  ASSUME NEW c \in Doc, NEW d \in Doc
  PROVE  c \o d \in Doc /\ TextsOf(c \o d) = TextsOf(c) \union TextsOf(d)
  <1> DEFINE e == c \o d
  <1>1. e \in Doc /\ Len(c) \in Nat /\ Len(d) \in Nat /\ Len(e) = Len(c) + Len(d) BY DEF Doc
  <1>2. \A i \in 1 .. Len(c) : e[i] = c[i] BY DEF Doc
  <1>3. \A i \in 1 .. Len(d) : e[Len(c) + i] = d[i] BY DEF Doc
  <1>4. \A i \in 1 .. Len(e) : i \in 1 .. Len(c) \/ \E j \in 1 .. Len(d) : i = Len(c) + j
    <2> TAKE i \in 1 .. Len(e)
    <2> HIDE DEF e
    <2>1. CASE i <= Len(c) BY <1>1, <2>1
    <2>2. CASE i > Len(c)
      <3>1. i - Len(c) \in 1 .. Len(d) /\ i = Len(c) + (i - Len(c)) BY <1>1, <2>2
      <3> QED BY <3>1
    <2> QED BY <1>1, <2>1, <2>2
  <1> HIDE DEF e
  <1>5. ASSUME NEW x \in TextsOf(e) PROVE x \in TextsOf(c) \union TextsOf(d)
    <2>1. PICK i \in 1 .. Len(e) : e[i].level = 0 /\ e[i].text = x BY <1>1, <1>5, TextsAre
    <2>2. CASE i \in 1 .. Len(c) BY <1>2, <2>1, <2>2, TextsAre
    <2>3. CASE \E j \in 1 .. Len(d) : i = Len(c) + j BY <1>3, <2>1, <2>3, TextsAre
    <2> QED BY <1>4, <2>2, <2>3
  <1>6. ASSUME NEW x \in TextsOf(c) PROVE x \in TextsOf(e)
    <2>1. PICK i \in 1 .. Len(c) : c[i].level = 0 /\ c[i].text = x BY <1>6, TextsAre
    <2>2. i \in 1 .. Len(e) BY <1>1
    <2> QED BY <1>1, <1>2, <2>1, <2>2, TextsAre
  <1>7. ASSUME NEW x \in TextsOf(d) PROVE x \in TextsOf(e)
    <2>1. PICK j \in 1 .. Len(d) : d[j].level = 0 /\ d[j].text = x BY <1>7, TextsAre
    <2>2. Len(c) + j \in 1 .. Len(e) BY <1>1
    <2> QED BY <1>1, <1>3, <2>1, <2>2, TextsAre
  <1> QED BY <1>1, <1>5, <1>6, <1>7 DEF e

\* Every field that is set goes over.
LEMMA MigratedHas ==
  ASSUME NEW p \in Profile
  PROVE  /\ Migrated(p) \in Doc
         /\ \A f \in Range(MigratedField) : p[f] # Unset => p[f] \in TextsOf(Migrated(p))
  <1> DEFINE places == {n \in DOMAIN MigratedField : p[MigratedField[n]] # Unset}
             set == PickedAt(MigratedField, places)
             title(f) == IF f = "notes" THEN "Operator notes" ELSE f
             c == Cardinality(places)
             lines == Migrated(p)
  <1>1. DOMAIN MigratedField = 1 .. Len(MigratedField) /\ Len(MigratedField) \in Nat
        /\ \A n \in 1 .. Len(MigratedField) : MigratedField[n] \in Field
    BY DocumentAssumption
  <1>2. IsFiniteSet(places) /\ places \subseteq DOMAIN MigratedField /\ places \subseteq Int
    <2>1. IsFiniteSet(1 .. Len(MigratedField)) BY <1>1, FS_Interval
    <2>2. places \subseteq 1 .. Len(MigratedField) BY <1>1
    <2>3. places \subseteq DOMAIN MigratedField OBVIOUS
    <2>4. places \subseteq Int
      <3> HIDE DEF places
      <3> QED BY <1>1, <2>2
    <2> HIDE DEF places
    <2>5. places \in SUBSET (1 .. Len(MigratedField)) BY <2>2
    <2>6. IsFiniteSet(places) BY <2>1, <2>5, FS_Subset
    <2> QED BY <2>3, <2>4, <2>6
  <1>3. /\ c \in Nat /\ set = [k \in 1 .. c |-> MigratedField[Ascending(places)[k]]]
        /\ \A k \in 1 .. c : \E i \in places : set[k] = MigratedField[i]
        /\ \A i \in places : \E k \in 1 .. c : set[k] = MigratedField[i]
    <2> HIDE DEF places
    <2>1. /\ Cardinality(places) \in Nat
          /\ PickedAt(MigratedField, places) = [k \in 1 .. Cardinality(places) |-> MigratedField[Ascending(places)[k]]]
      BY <1>2, PickedIs
    <2>2. \A k \in 1 .. Cardinality(places) : \E i \in places : PickedAt(MigratedField, places)[k] = MigratedField[i]
      BY <1>2, PickedIs
    <2>3. \A i \in places : \E k \in 1 .. Cardinality(places) : PickedAt(MigratedField, places)[k] = MigratedField[i]
      BY <1>2, PickedIs
    <2> QED BY <2>1, <2>2, <2>3
  <1>4. lines = [k \in 1 .. 2 * Len(set) |->
                   IF k % 2 = 1 THEN Line(3, title(set[(k + 1) \div 2])) ELSE Text(p[set[k \div 2]])]
    BY DEF Migrated
  <1>5. \A k \in 1 .. c : set[k] \in Field
    <2> HIDE DEF set
    <2> QED BY <1>1, <1>3
  <1>6. set \in Seq(Field) /\ Len(set) = c
    <2> HIDE DEF set
    <2> QED BY <1>3, <1>5
  <1> HIDE DEF set, c, lines
  <1>7. \A k \in 1 .. 2 * c : k % 2 = 1 => (k + 1) \div 2 \in 1 .. c BY <1>3
  <1>8. \A k \in 1 .. 2 * c : k % 2 # 1 => k \div 2 \in 1 .. c BY <1>3
  <1>9. \A f \in Field : title(f) \in Said /\ p[f] \in Said BY DEF Said, Wording, Profile
  <1> HIDE DEF title
  <1>10. \A k \in 1 .. 2 * c : (IF k % 2 = 1 THEN Line(3, title(set[(k + 1) \div 2])) ELSE Text(p[set[k \div 2]])) \in DocLine
    <2> TAKE k \in 1 .. 2 * c
    <2>1. CASE k % 2 = 1 BY <1>5, <1>7, <1>9, <2>1, LinesAre
    <2>2. CASE k % 2 # 1 BY <1>5, <1>8, <1>9, <2>2, LinesAre
    <2> QED BY <2>1, <2>2
  <1>11. lines \in Doc /\ Len(lines) = 2 * c
    <2>1. 2 * c \in Nat BY <1>3
    <2> DEFINE g(k) == IF k % 2 = 1 THEN Line(3, title(set[(k + 1) \div 2])) ELSE Text(p[set[k \div 2]])
    <2>2. lines = [k \in 1 .. 2 * c |-> g(k)] /\ \A k \in 1 .. 2 * c : g(k) \in DocLine BY <1>4, <1>6, <1>10
    <2> HIDE DEF g
    <2> QED BY <2>1, <2>2 DEF Doc
  <1>12. ASSUME NEW f \in Range(MigratedField), p[f] # Unset PROVE p[f] \in TextsOf(lines)
    <2>1. PICK i \in DOMAIN MigratedField : MigratedField[i] = f BY <1>12 DEF Range
    <2>2. i \in places BY <1>12, <2>1
    <2>3. PICK k \in 1 .. c : set[k] = f BY <1>3, <2>1, <2>2
    <2>4. 2 * k \in 1 .. 2 * c /\ (2 * k) % 2 # 1 /\ (2 * k) \div 2 = k BY <1>3
    <2>5. lines[2 * k] = Text(p[f])
      <3>1. lines[2 * k] = Text(p[set[(2 * k) \div 2]]) BY <1>4, <1>6, <2>4
      <3> QED BY <2>3, <2>4, <3>1
    <2>6. f \in Field BY <2>3, <1>5
    <2>7. Text(p[f]).level = 0 /\ Text(p[f]).text = p[f] BY <1>9, <2>6, LinesAre
    <2> QED BY <1>11, <2>4, <2>5, <2>7, TextsAre
  <1> QED BY <1>11, <1>12 DEF lines

\* Of the lines of a document, only blank ones after blank ones go.
LEMMA CollapsedKeeps ==
  ASSUME NEW d \in Doc
  PROVE  /\ Collapsed(d) \in Doc
         /\ \A n \in 1 .. Len(d) : ~(d[n] = BlankLine /\ n > 1 /\ d[n - 1] = BlankLine) =>
              \E k \in 1 .. Len(Collapsed(d)) : Collapsed(d)[k] = d[n]
  <1> DEFINE places == {n \in DOMAIN d : ~(d[n] = BlankLine /\ n > 1 /\ d[n - 1] = BlankLine)}
             e == PickedAt(d, places)
             c == Cardinality(places)
  <1>1. DOMAIN d = 1 .. Len(d) /\ Len(d) \in Nat /\ \A n \in 1 .. Len(d) : d[n] \in DocLine BY DEF Doc
  <1>2. IsFiniteSet(places) /\ places \subseteq DOMAIN d /\ places \subseteq Int
    <2>1. IsFiniteSet(1 .. Len(d)) BY <1>1, FS_Interval
    <2>2. places \subseteq DOMAIN d OBVIOUS
    <2> HIDE DEF places
    <2>3. places \in SUBSET (1 .. Len(d)) BY <1>1, <2>2
    <2>4. IsFiniteSet(places) BY <2>1, <2>3, FS_Subset
    <2>5. places \subseteq Int BY <1>1, <2>3
    <2> QED BY <2>2, <2>4, <2>5
  <1>3. Collapsed(d) = e BY DEF Collapsed
  <1>4. /\ c \in Nat
        /\ e = [k \in 1 .. c |-> d[Ascending(places)[k]]]
    <2> HIDE DEF places
    <2> QED BY <1>2, PickedIs
  <1>5. \A k \in 1 .. c : \E i \in places : e[k] = d[i]
    <2> HIDE DEF places
    <2> QED BY <1>2, PickedIs
  <1>6. \A i \in places : \E k \in 1 .. c : e[k] = d[i]
    <2> HIDE DEF places
    <2> QED BY <1>2, PickedIs
  <1>7. e \in Doc /\ Len(e) = c
    <2> HIDE DEF e, c
    <2>1. \A k \in 1 .. c : e[k] \in DocLine BY <1>1, <1>5
    <2>2. e \in [1 .. c -> DocLine] BY <1>4, <2>1
    <2> QED BY <1>4, <2>2 DEF Doc
  <1>8. ASSUME NEW n \in 1 .. Len(d), ~(d[n] = BlankLine /\ n > 1 /\ d[n - 1] = BlankLine) PROVE n \in places
    BY <1>1, <1>8
  <1> HIDE DEF places, e, c
  <1> QED BY <1>3, <1>6, <1>7, <1>8

LEMMA CollapsedSays ==
  ASSUME NEW d \in Doc, NEW n \in 1 .. Len(d), d[n].level = 0,
         ~(d[n] = BlankLine /\ n > 1 /\ d[n - 1] = BlankLine)
  PROVE  Collapsed(d) \in Doc /\ d[n].text \in TextsOf(Collapsed(d))
  <1>1. Collapsed(d) \in Doc BY CollapsedKeeps
  <1>2. PICK k \in 1 .. Len(Collapsed(d)) : Collapsed(d)[k] = d[n] BY CollapsedKeeps
  <1> QED BY <1>1, <1>2, TextsAre

\* A part of a document is one.
LEMMA PartIs ==
  ASSUME NEW d \in Doc, NEW m \in Nat \ {0}, NEW n \in 0 .. Len(d)
  PROVE  /\ SubSeq(d, m, n) \in Doc
         /\ Len(SubSeq(d, m, n)) = (IF m <= n THEN n - m + 1 ELSE 0)
         /\ \A i \in 1 .. n - m + 1 : SubSeq(d, m, n)[i] = d[m + i - 1]
         /\ \A x : x \in TextsOf(SubSeq(d, m, n)) <=> \E k \in m .. n : d[k].level = 0 /\ d[k].text = x
  <1> DEFINE e == SubSeq(d, m, n)
  <1>0. Len(d) \in Nat /\ n \in Nat BY DEF Doc
  <1>1. \A i \in m .. n : d[i] \in DocLine BY <1>0 DEF Doc
  <1>2. e \in Doc /\ Len(e) = (IF m <= n THEN n - m + 1 ELSE 0)
        /\ \A i \in 1 .. n - m + 1 : e[i] = d[m + i - 1]
    <2>1. m \in Int /\ n \in Int BY <1>0
    <2> QED BY <1>1, <2>1, SubSeqProperties DEF Doc
  <1> HIDE DEF e
  <1>3. ASSUME NEW x, x \in TextsOf(e) PROVE \E k \in m .. n : d[k].level = 0 /\ d[k].text = x
    <2>1. PICK i \in 1 .. Len(e) : e[i].level = 0 /\ e[i].text = x BY <1>2, <1>3, TextsAre
    <2>2. i \in 1 .. n - m + 1 /\ m + i - 1 \in m .. n BY <1>0, <1>2
    <2> QED BY <1>2, <2>1, <2>2
  <1>4. ASSUME NEW x, NEW k \in m .. n, d[k].level = 0, d[k].text = x PROVE x \in TextsOf(e)
    <2>1. k - m + 1 \in 1 .. n - m + 1 /\ k - m + 1 \in 1 .. Len(e) /\ m + (k - m + 1) - 1 = k BY <1>0, <1>2
    <2>2. e[k - m + 1] = d[k] BY <1>2, <2>1
    <2> QED BY <1>2, <1>4, <2>1, <2>2, TextsAre
  <1> QED BY <1>2, <1>3, <1>4 DEF e

LEMMA PairIs ==
  ASSUME NEW T, NEW a \in T, NEW b \in T
  PROVE  <<a, b>> \in Seq(T) /\ Len(<<a, b>>) = 2 /\ <<a, b>>[1] = a /\ <<a, b>>[2] = b
  OBVIOUS

LEMMA TripleIs ==
  ASSUME NEW T, NEW a \in T, NEW b \in T
  PROVE  <<b, a, b>> \in Seq(T) /\ Len(<<b, a, b>>) = 3 /\ <<b, a, b>>[2] = a
  OBVIOUS

\* What an append leaves of the document: all but blanks at its end, of which it has one.
LEMMA AppendedSays ==
  ASSUME NEW d \in Doc, NEW t \in Note
  PROVE  Appended(d, t) \in Doc /\ TextsOf(d) \union {t} \subseteq TextsOf(Appended(d, t))
  <1> DEFINE full == {n \in DOMAIN d : d[n] # BlankLine}
             last == IF full = {} THEN 0 ELSE CHOOSE n \in full : \A m \in full : m <= n
             front == SubSeq(d, 1, last)
             back == <<BlankLine, Text(t)>>
  <1>1. DOMAIN d = 1 .. Len(d) /\ Len(d) \in Nat /\ \A n \in 1 .. Len(d) : d[n] \in DocLine BY DEF Doc
  <1>2. last \in 0 .. Len(d) /\ \A n \in full : n <= last
    <2>1. CASE full = {} BY <1>1, <2>1
    <2>2. CASE full # {}
      <3>1. full \subseteq Nat /\ \A n \in full : n <= Len(d) BY <1>1
      <3>2. \E n \in full : \A m \in full : m <= n
        <4> HIDE DEF full
        <4> QED BY <1>1, <2>2, <3>1, GreatestOf
      <3>3. last \in full /\ \A n \in full : n <= last
        <4> HIDE DEF full
        <4> QED BY <2>2, <3>2
      <3>4. full \subseteq 1 .. Len(d) BY <1>1
      <3> HIDE DEF full, last
      <3>5. last \in 1 .. Len(d) BY <3>3, <3>4
      <3> QED BY <1>1, <3>3, <3>5
    <2> QED BY <2>1, <2>2
  <1>3. t \in Said /\ "" \in Said BY DEF Said, Wording
  <1>4. back \in Doc /\ TextsOf(back) = {"", t}
    <2>1. /\ Text(t) \in DocLine /\ Text(t).level = 0 /\ Text(t).text = t
          /\ BlankLine \in DocLine /\ BlankLine.level = 0 /\ BlankLine.text = ""
      BY <1>3, LinesAre
    <2>2. back \in Doc /\ Len(back) = 2 /\ back[1] = BlankLine /\ back[2] = Text(t) BY <2>1, PairIs DEF Doc
    <2> HIDE DEF back
    <2>3. ASSUME NEW x, x \in TextsOf(back) PROVE x \in {"", t}
      <3>1. PICK i \in 1 .. Len(back) : back[i].text = x BY <2>2, <2>3, TextsAre
      <3>2. i = 1 \/ i = 2 BY <2>2, <3>1
      <3> HIDE DEF back
      <3> QED BY <3>2, <2>1, <2>2, <3>1
    <2>4. "" \in TextsOf(back)
      <3>1. 1 \in 1 .. Len(back) BY <2>2
      <3> QED BY <2>1, <2>2, <3>1, TextsAre
    <2>5. t \in TextsOf(back)
      <3>1. 2 \in 1 .. Len(back) BY <2>2
      <3>2. back[2].level = 0 /\ back[2].text = t BY <2>1, <2>2
      <3> QED BY <2>2, <3>1, <3>2, TextsAre
    <2> QED BY <2>2, <2>3, <2>4, <2>5
  <1>5. Appended(d, t) = front \o back BY DEF Appended, TrimmedEnd
  <1> HIDE DEF full, last
  <1>6. front \in Doc /\ \A x : x \in TextsOf(front) <=> \E k \in 1 .. last : d[k].level = 0 /\ d[k].text = x
    <2>1. 1 \in Nat \ {0} OBVIOUS
    <2> QED BY <1>2, <2>1, PartIs
  <1> HIDE DEF front, back
  <1>7. front \o back \in Doc /\ TextsOf(front \o back) = TextsOf(front) \union {"", t} BY <1>4, <1>6, TextsJoin
  <1>8. ASSUME NEW x \in TextsOf(d) PROVE x \in TextsOf(front) \union {""}
    <2>1. PICK k \in 1 .. Len(d) : d[k].level = 0 /\ d[k].text = x BY <1>8, TextsAre
    <2>2. CASE d[k] = BlankLine
      <3>1. BlankLine.text = "" BY <1>3, LinesAre
      <3> QED BY <2>1, <2>2, <3>1
    <2>3. CASE d[k] # BlankLine
      <3>1. k \in full BY <1>1, <2>3 DEF full
      <3>2. k \in 1 .. last BY <1>1, <1>2, <3>1
      <3> QED BY <1>6, <2>1, <3>2
    <2> QED BY <2>2, <2>3
  <1> QED BY <1>5, <1>7, <1>8

\* Every text is still there, though not as many blank lines.
LEMMA CollapsedTexts ==
  ASSUME NEW d \in Doc PROVE Collapsed(d) \in Doc /\ TextsOf(d) \subseteq TextsOf(Collapsed(d))
  <1>1. Collapsed(d) \in Doc BY CollapsedKeeps
  <1>2. ASSUME NEW x \in TextsOf(d) PROVE x \in TextsOf(Collapsed(d))
    <2>1. PICK n \in 1 .. Len(d) : d[n].level = 0 /\ d[n].text = x BY <1>2, TextsAre
    <2>2. CASE d[n] # BlankLine BY <2>1, <2>2, CollapsedSays
    <2>3. CASE d[n] = BlankLine
      <3> DEFINE T == {k \in 1 .. Len(d) : d[k] = BlankLine}
      <3>1. T \subseteq Nat /\ T # {} BY <2>3
      <3>2. PICK m \in T : \A k \in T : m <= k
        <4> HIDE DEF T
        <4> QED BY <3>1, LeastOf
      <3>3. m \in 1 .. Len(d) /\ d[m] = d[n] /\ Len(d) \in Nat BY <2>3 DEF Doc
      <3>4. ~(d[m] = BlankLine /\ m > 1 /\ d[m - 1] = BlankLine)
        <4> SUFFICES ASSUME m > 1, d[m - 1] = BlankLine PROVE FALSE OBVIOUS
        <4>1. m - 1 \in T BY <3>3
        <4>2. m <= m - 1 BY <3>2, <4>1
        <4> QED BY <3>3, <4>2
      <3> HIDE DEF T
      <3> QED BY <2>1, <3>3, <3>4, CollapsedSays
    <2> QED BY <2>2, <2>3
  <1> QED BY <1>1, <1>2

\* A section begins at a heading and ends behind it.
LEMMA SectionIs ==
  ASSUME NEW d \in Doc, NEW h, SectionOf(d, h) # << >>
  PROVE  \E first \in 1 .. Len(d) : \E end \in first + 1 .. Len(d) + 1 : SectionOf(d, h) = <<first, end>>
  <1> DEFINE at == {n \in DOMAIN d : d[n].level > 0 /\ d[n].text = h}
             first == CHOOSE n \in at : \A m \in at : n <= m
             ends == {n \in DOMAIN d : n > first /\ d[n].level \in 1 .. d[first].level}
             end == IF ends = {} THEN Len(d) + 1 ELSE CHOOSE n \in ends : \A m \in ends : n <= m
  <1>1. DOMAIN d = 1 .. Len(d) /\ Len(d) \in Nat BY DEF Doc
  <1>2. at # {} /\ SectionOf(d, h) = <<first, end>> BY DEF SectionOf
  <1>3. at \subseteq 1 .. Len(d) BY <1>1
  <1>4. first \in at
    <2>1. at \subseteq Nat BY <1>1, <1>3
    <2> HIDE DEF at
    <2>2. \E n \in at : \A m \in at : n <= m BY <1>2, <2>1, LeastOf
    <2> QED BY <2>2
  <1>5. first \in 1 .. Len(d)
    <2> HIDE DEF at, first
    <2> QED BY <1>3, <1>4
  <1>6. end \in first + 1 .. Len(d) + 1
    <2> HIDE DEF first
    <2>1. CASE ends = {} BY <1>1, <1>5, <2>1
    <2>2. CASE ends # {}
      <3>1. ends \subseteq first + 1 .. Len(d) BY <1>1, <1>5
      <3>2. ends \subseteq Nat BY <1>1, <1>5
      <3>3. \E n \in ends : \A m \in ends : n <= m
        <4> HIDE DEF ends
        <4> QED BY <2>2, <3>2, LeastOf
      <3>4. end \in ends
        <4> HIDE DEF ends
        <4> QED BY <2>2, <3>3
      <3> HIDE DEF ends, end
      <3>5. end \in first + 1 .. Len(d) BY <3>1, <3>4
      <3> QED BY <1>1, <1>5, <3>5
    <2> QED BY <2>1, <2>2
  <1> HIDE DEF at, first, ends, end
  <1> QED BY <1>2, <1>5, <1>6

\* An edit leaves what is before and behind its section.
LEMMA EditedSays ==
  ASSUME NEW d \in Doc, NEW t \in Note, NEW first \in 1 .. Len(d), NEW end \in first + 1 .. Len(d) + 1
  PROVE  /\ Edited(d, <<first, end>>, t) \in Doc
         /\ t \in TextsOf(Edited(d, <<first, end>>, t))
         /\ TextsOf(d) \subseteq TextsOf(SubSeq(d, first, end - 1)) \union TextsOf(Edited(d, <<first, end>>, t))
  <1> DEFINE front == SubSeq(d, 1, first)
             middle == <<BlankLine, Text(t), BlankLine>>
             back == SubSeq(d, end, Len(d))
             old == SubSeq(d, first, end - 1)
             e == (front \o middle) \o back
  <1>0. Len(d) \in Nat /\ first \in Nat \ {0} /\ end \in Nat \ {0} /\ 1 \in Nat \ {0} BY DEF Doc
  <1>1. Edited(d, <<first, end>>, t) = Collapsed(e)
    <2>1. <<first, end>>[1] = first /\ <<first, end>>[2] = end BY <1>0, PairIs
    <2> QED BY <2>1 DEF Edited
  <1>2. front \in Doc /\ \A x : x \in TextsOf(front) <=> \E k \in 1 .. first : d[k].level = 0 /\ d[k].text = x
    <2>1. first \in 0 .. Len(d) BY <1>0
    <2> QED BY <1>0, <2>1, PartIs
  <1>3. back \in Doc /\ \A x : x \in TextsOf(back) <=> \E k \in end .. Len(d) : d[k].level = 0 /\ d[k].text = x
    <2>1. Len(d) \in 0 .. Len(d) BY <1>0
    <2> QED BY <1>0, <2>1, PartIs
  <1>4. old \in Doc /\ \A x : x \in TextsOf(old) <=> \E k \in first .. end - 1 : d[k].level = 0 /\ d[k].text = x
    <2>1. end - 1 \in 0 .. Len(d) BY <1>0
    <2> QED BY <1>0, <2>1, PartIs
  <1>5. t \in Said BY DEF Said
  <1>6. middle \in Doc /\ t \in TextsOf(middle)
    <2>1. Text(t) \in DocLine /\ Text(t).level = 0 /\ Text(t).text = t /\ BlankLine \in DocLine BY <1>5, LinesAre
    <2>2. middle \in Doc /\ Len(middle) = 3 /\ middle[2] = Text(t) BY <2>1, TripleIs DEF Doc
    <2> HIDE DEF middle
    <2>3. 2 \in 1 .. Len(middle) /\ middle[2].level = 0 /\ middle[2].text = t BY <2>1, <2>2
    <2> QED BY <2>2, <2>3, TextsAre
  <1> HIDE DEF front, middle, back, old
  <1>7. front \o middle \in Doc /\ TextsOf(front \o middle) = TextsOf(front) \union TextsOf(middle)
    BY <1>2, <1>6, TextsJoin
  <1>8. e \in Doc /\ TextsOf(e) = TextsOf(front) \union TextsOf(middle) \union TextsOf(back)
    <2> DEFINE c == front \o middle
    <2>1. c \in Doc /\ TextsOf(c) = TextsOf(front) \union TextsOf(middle) BY <1>7
    <2> HIDE DEF c
    <2>2. c \o back \in Doc /\ TextsOf(c \o back) = TextsOf(c) \union TextsOf(back) BY <1>3, <2>1, TextsJoin
    <2> QED BY <2>1, <2>2 DEF c
  <1> HIDE DEF e
  <1>9. Collapsed(e) \in Doc /\ TextsOf(e) \subseteq TextsOf(Collapsed(e)) BY <1>8, CollapsedTexts
  <1>10. ASSUME NEW x \in TextsOf(d) PROVE x \in TextsOf(old) \union TextsOf(e)
    <2>1. PICK k \in 1 .. Len(d) : d[k].level = 0 /\ d[k].text = x BY <1>10, TextsAre
    <2>2. CASE k \in 1 .. first BY <1>2, <1>8, <2>1, <2>2
    <2>3. CASE k \in first .. end - 1 BY <1>4, <2>1, <2>3
    <2>4. CASE k \in end .. Len(d) BY <1>3, <1>8, <2>1, <2>4
    <2>5. k \in 1 .. first \/ k \in first .. end - 1 \/ k \in end .. Len(d) BY <1>0, <2>1
    <2> QED BY <2>2, <2>3, <2>4, <2>5
  <1> QED BY <1>1, <1>6, <1>8, <1>9, <1>10 DEF old

\* What a document says is text; and a document without lines says nothing.
LEMMA SaysText == ASSUME NEW d \in Doc PROVE TextsOf(d) \subseteq Said
  <1> SUFFICES ASSUME NEW x \in TextsOf(d) PROVE x \in Said OBVIOUS
  <1>1. PICK n \in 1 .. Len(d) : d[n].text = x BY TextsAre
  <1>2. d[n] \in DocLine BY DEF Doc
  <1> QED BY <1>1, <1>2 DEF DocLine

LEMMA NothingSaid == NoLines \in Doc /\ TextsOf(NoLines) = {}
  <1>1. NoLines \in Doc /\ Len(NoLines) = 0 BY DEF NoLines, Doc
  <1>2. \A x : x \notin TextsOf(NoLines) BY <1>1, TextsAre
  <1> QED BY <1>1, <1>2

\* A call on the document, at its place.
Telling ==
  {[pc |-> "idle"]} \union
  [pc : {"ensure", "clear", "do"}, tool : {"read", "replace", "append", "section"}, text : Note,
   heading : {"Speaking preferences", "Operator notes"}, seen : SUBSET Said]

\* Whoever replaces the document has read what is in it.
ReadBefore == telling.pc # "idle" /\ telling.tool = "replace" => made /\ telling.seen = TextsOf(document)

\* What is about to be cleared has moved.
MovedBefore ==
  telling.pc = "clear" =>
    \A f \in Range(MigratedField) : profile[f] # Unset => profile[f] \in TextsOf(document)

DocInv ==
  /\ document \in Doc /\ profile \in Profile /\ telling \in Telling
  /\ made \in BOOLEAN /\ (~made => document = NoLines) /\ (telling.pc \in {"clear", "do"} => made)
  /\ ToldIsKept /\ ReadBefore /\ MovedBefore

LEMMA CallsAre ==
  ASSUME telling \in Telling, telling.pc # "idle"
  PROVE  /\ telling \in [pc : {"ensure", "clear", "do"}, tool : {"read", "replace", "append", "section"},
                         text : Note, heading : {"Speaking preferences", "Operator notes"}, seen : SUBSET Said]
         /\ telling.text \in Note /\ telling.pc \in {"ensure", "clear", "do"}
  <1>1. CASE telling = [pc |-> "idle"] BY <1>1
  <1>2. CASE telling # [pc |-> "idle"]
    <2>1. telling \in [pc : {"ensure", "clear", "do"}, tool : {"read", "replace", "append", "section"},
                       text : Note, heading : {"Speaking preferences", "Operator notes"}, seen : SUBSET Said]
      BY <1>2 DEF Telling
    <2> QED BY <2>1
  <1> QED BY <1>1, <1>2

\* A call goes on, or it is over.
LEMMA TellGoesOn ==
  ASSUME telling \in Telling, telling.pc # "idle", NEW pc \in {"clear", "do"}, Tell(pc)
  PROVE  /\ telling' \in Telling /\ telling'.pc = pc /\ telling'.tool = telling.tool
         /\ telling'.seen = telling.seen
  BY CallsAre DEF Tell, Telling

LEMMA TellEnds ==
  ASSUME Told PROVE telling' \in Telling /\ telling'.pc = "idle" /\ ReadBefore' /\ MovedBefore'
  BY DEF Told, Telling, ReadBefore, MovedBefore

LEMMA DocInvInit == DocumentInit => DocInv
  <1> SUFFICES ASSUME DocumentInit PROVE DocInv OBVIOUS
  <1>1. document \in Doc BY NothingSaid DEF DocumentInit
  <1>2. profile \in Profile BY DEF DocumentInit, NoProfile, Profile
  <1>3. telling \in Telling /\ telling.pc = "idle" BY DEF DocumentInit, Telling
  <1>4. ToldIsKept BY DEF DocumentInit, ToldIsKept
  <1>5. made \in BOOLEAN /\ document = NoLines BY DEF DocumentInit
  <1> QED BY <1>1, <1>2, <1>3, <1>4, <1>5 DEF DocInv, ReadBefore, MovedBefore

\* What a file that is lost does not take.
LEMMA OtherFileKeeps ==
  ASSUME ToldIsKept
  PROVE  kept \ OnlyInDocument \subseteq Range(profile) /\ kept \ OnlyInProfile \subseteq TextsOf(document)
  BY DEF ToldIsKept, OnlyInDocument, OnlyInProfile

\* What is left of a document that was cut off is one.
LEMMA BeginningsAre == ASSUME NEW d \in Doc, NEW c \in Beginnings(d) PROVE c \in Doc
  <1>1. PICK n \in 0 .. Len(d) - 1 : c = SubSeq(d, 1, n) BY DEF Beginnings
  <1>2. n \in 0 .. Len(d) /\ 1 \in Nat \ {0} BY DEF Doc
  <1> QED BY <1>1, <1>2, PartIs

LEMMA AskDocumentKeeps == ASSUME DocInv, ReadsFirst, AskDocument PROVE DocInv'
  <1>1. PICK tool \in {"read", "replace", "append", "section"}, text \in Note,
              heading \in {"Speaking preferences", "Operator notes"} :
          /\ tool = "replace" => made
          /\ telling' = [pc |-> "ensure", tool |-> tool, text |-> text, heading |-> heading,
                         seen |-> TextsOf(document)]
    BY DEF AskDocument
  <1>2. UNCHANGED <<made, document, profile, kept>> BY DEF AskDocument
  <1>3. TextsOf(document) \subseteq Said BY SaysText DEF DocInv
  <1>4. telling' \in Telling /\ telling'.pc = "ensure" /\ telling'.tool = tool /\ telling'.seen = TextsOf(document)
    BY <1>1, <1>3 DEF Telling
  <1>5. ReadBefore' BY <1>1, <1>2, <1>4 DEF ReadBefore
  <1>6. MovedBefore' BY <1>4 DEF MovedBefore
  <1>7. ToldIsKept' BY <1>2 DEF DocInv, ToldIsKept
  <1> QED BY <1>2, <1>4, <1>5, <1>6, <1>7 DEF DocInv

\* A profile that is written takes back no more than the patch says, and one
\* that could not be read no more than it alone held.
LEMMA UpdateKeeps ==
  ASSUME profile \in Profile, ToldIsKept, UNCHANGED document,
         NEW patch, NEW takenBack, NEW given, ProfileUpdated(patch, takenBack, given),
         \A f \in Field \cap DOMAIN patch : patch[f] \in Note \union {Unset},
         given \subseteq {patch[f] : f \in Field \cap DOMAIN patch},
         \A f \in Field \cap DOMAIN patch :
           profile[f] \in takenBack \union TextsOf(document) \union Range(Patched(profile, patch))
  PROVE  profile' \in Profile /\ ToldIsKept'
  <1>1. ASSUME NEW p \in Profile
        PROVE  Patched(p, patch) \in Profile /\ given \subseteq Range(Patched(p, patch))
    <2>1. Patched(p, patch) = [f \in Field |-> IF f \notin DOMAIN patch THEN p[f] ELSE patch[f]] BY DEF Patched
    <2>2. \A f \in Field : Patched(p, patch)[f] \in Note \union {Unset} BY <2>1 DEF Profile
    <2>3. Patched(p, patch) \in Profile BY <2>1, <2>2 DEF Profile
    <2>4. ASSUME NEW x \in given PROVE x \in Range(Patched(p, patch))
      <3>1. PICK f \in Field \cap DOMAIN patch : x = patch[f] OBVIOUS
      <3>2. Patched(p, patch)[f] = x BY <2>1, <3>1
      <3> QED BY <2>1, <3>2 DEF Range
    <2> QED BY <2>3, <2>4
  <1>2. CASE profile' = Patched(profile, patch) /\ kept' = (kept \ takenBack) \union given
    <2>1. ASSUME NEW x \in kept \ takenBack PROVE x \in Range(Patched(profile, patch)) \union TextsOf(document)
      <3>1. CASE x \in TextsOf(document) BY <3>1
      <3>2. CASE x \notin TextsOf(document)
        <4>1. PICK f \in Field : profile[f] = x BY <2>1, <3>2 DEF ToldIsKept, Range, Profile
        <4>2. CASE f \in DOMAIN patch BY <2>1, <3>2, <4>1, <4>2
        <4>3. CASE f \notin DOMAIN patch
          <5>1. Patched(profile, patch)[f] = x /\ DOMAIN Patched(profile, patch) = Field BY <4>1, <4>3 DEF Patched
          <5> QED BY <5>1 DEF Range
        <4> QED BY <4>2, <4>3
      <3> QED BY <3>1, <3>2
    <2> QED BY <1>1, <1>2, <2>1 DEF ToldIsKept
  <1>3. CASE profile' = Patched(NoProfile, patch) /\ kept' = ((kept \ takenBack) \ OnlyInProfile) \union given
    <2>1. NoProfile \in Profile BY DEF NoProfile, Profile
    <2>2. kept \ OnlyInProfile \subseteq TextsOf(document) BY OtherFileKeeps
    <2> QED BY <1>1, <1>3, <2>1, <2>2 DEF ToldIsKept
  <1> QED BY <1>2, <1>3 DEF ProfileUpdated

LEMMA NoUpdateKeeps ==
  ASSUME profile \in Profile, ToldIsKept, UNCHANGED document, ProfileNotUpdated
  PROVE  profile' \in Profile /\ ToldIsKept'
  <1>1. CASE UNCHANGED <<profile, kept>> BY <1>1 DEF ToldIsKept
  <1>2. CASE profile' = NoProfile /\ kept' = kept \ OnlyInProfile
    <2>1. NoProfile \in Profile BY DEF NoProfile, Profile
    <2>2. kept \ OnlyInProfile \subseteq TextsOf(document) BY OtherFileKeeps
    <2> QED BY <1>2, <2>1, <2>2 DEF ToldIsKept
  <1> QED BY <1>1, <1>2 DEF ProfileNotUpdated

LEMMA IdentityUpdateKeeps == ASSUME DocInv, IdentityUpdate PROVE DocInv'
  <1>1. telling.pc = "idle" /\ UNCHANGED <<made, document, telling>> BY DEF IdentityUpdate
  <1>2. ReadBefore' /\ MovedBefore' BY <1>1 DEF ReadBefore, MovedBefore
  <1>3. profile \in Profile /\ ToldIsKept BY DEF DocInv
  <1>4. CASE \E f \in Field, v \in Note \union {Unset} :
               ProfileUpdated([g \in {f} |-> v], {profile[f]}, {v} \ {Unset})
    <2>1. PICK f \in Field, v \in Note \union {Unset} :
            ProfileUpdated([g \in {f} |-> v], {profile[f]}, {v} \ {Unset})
      BY <1>4
    <2> DEFINE patch == [g \in {f} |-> v]
    <2>2. DOMAIN patch = {f} /\ patch[f] = v OBVIOUS
    <2> HIDE DEF patch
    <2>3. ProfileUpdated(patch, {profile[f]}, {v} \ {Unset}) BY <2>1 DEF patch
    <2>4. \A g \in Field \cap DOMAIN patch : patch[g] \in Note \union {Unset} BY <2>2
    <2>5. {v} \ {Unset} \subseteq {patch[g] : g \in Field \cap DOMAIN patch} BY <2>2
    <2>6. \A g \in Field \cap DOMAIN patch :
            profile[g] \in {profile[f]} \union TextsOf(document) \union Range(Patched(profile, patch))
      BY <2>2
    <2>7. profile' \in Profile /\ ToldIsKept' BY <1>1, <1>3, <2>3, <2>4, <2>5, <2>6, UpdateKeeps
    <2> QED BY <1>1, <1>2, <2>7 DEF DocInv
  <1>5. CASE ProfileNotUpdated
    <2>1. profile' \in Profile /\ ToldIsKept' BY <1>1, <1>3, <1>5, NoUpdateKeeps
    <2> QED BY <1>1, <1>2, <2>1 DEF DocInv
  <1> QED BY <1>4, <1>5 DEF IdentityUpdate

LEMMA FiveAre ==
  ASSUME NEW T, NEW a \in T, NEW b \in T, NEW c \in T, NEW d \in T, NEW e \in T
  PROVE  <<a, b, c, d, e>> \in Seq(T)
  OBVIOUS

\* What the document begins with, and what it takes over.
LEMMA BeginsAs ==
  ASSUME profile \in Profile
  PROVE  /\ Default \in Doc /\ MigrationSection(profile) \in Doc
         /\ MigrationSection(profile) = << >> => Migrated(profile) = << >>
         /\ TextsOf(Migrated(profile)) \subseteq TextsOf(MigrationSection(profile))
  <1>1. {"", "Operator personality", "Speaking preferences", "(unset)", "Action repertoire", "(offer)",
         "Migrated from operator profile"} \subseteq Said
    BY DEF Said, Wording
  <1>2. /\ Line(1, "Operator personality") \in DocLine /\ Heading("Speaking preferences") \in DocLine
        /\ Text("(unset)") \in DocLine /\ Heading("Action repertoire") \in DocLine /\ Text("(offer)") \in DocLine
        /\ BlankLine \in DocLine /\ Heading("Migrated from operator profile") \in DocLine
    BY <1>1, LinesAre
  <1>3. Default \in Doc BY <1>2, FiveAre DEF Default, Doc
  <1>4. Migrated(profile) \in Doc BY MigratedHas
  <1> DEFINE top == <<BlankLine, Heading("Migrated from operator profile")>>
  <1>5. top \in Doc /\ Len(top) = 2 BY <1>2, PairIs DEF Doc
  <1>6. CASE Migrated(profile) = << >>
    <2>1. MigrationSection(profile) = NoLines BY <1>6 DEF MigrationSection, NoLines
    <2>2. TextsOf(Migrated(profile)) = {} BY <1>6, NothingSaid DEF NoLines
    <2> QED BY <1>3, <1>6, <2>1, <2>2, NothingSaid
  <1>7. CASE Migrated(profile) # << >>
    <2>1. MigrationSection(profile) = top \o Migrated(profile) BY <1>7 DEF MigrationSection
    <2> HIDE DEF top
    <2>2. /\ top \o Migrated(profile) \in Doc
          /\ TextsOf(top \o Migrated(profile)) = TextsOf(top) \union TextsOf(Migrated(profile))
      BY <1>4, <1>5, TextsJoin
    <2>3. top \o Migrated(profile) # << >>
      <3> DEFINE m == Migrated(profile)
      <3>1. top \in Seq(DocLine) /\ m \in Seq(DocLine) BY <1>4, <1>5 DEF Doc
      <3> HIDE DEF m
      <3>2. Len(top \o m) = Len(top) + Len(m) BY <3>1, ConcatProperties
      <3>3. Len(m) \in Nat BY <3>1
      <3>4. Len(top \o m) # 0 BY <1>5, <3>2, <3>3
      <3> QED BY <3>4 DEF m
    <2> QED BY <1>3, <2>1, <2>2, <2>3
  <1> QED BY <1>6, <1>7

\* Over whatever was there, the default and the profile's section.
LEMMA RemadeKeeps ==
  ASSUME DocInv, telling.pc = "ensure", UNCHANGED profile,
         NEW blind, made <=> "document" \in blind, Remade(blind)
  PROVE  DocInv'
  <1> DEFINE section == IF "profile" \in blind THEN << >> ELSE MigrationSection(profile)
             doc == Default \o section
             onward == IF section = << >> THEN "do" ELSE "clear"
             sees == IF made THEN TextsOf(doc) ELSE telling.seen
  <1>1. telling \in Telling /\ telling.pc # "idle" /\ document \in Doc /\ profile \in Profile BY DEF DocInv
  <1>2. Default \in Doc /\ section \in Doc BY <1>1, BeginsAs, NothingSaid DEF NoLines
  <1>3. section # << >> => TextsOf(Migrated(profile)) \subseteq TextsOf(section) BY <1>1, BeginsAs
  <1> HIDE DEF section
  <1>4. doc \in Doc /\ TextsOf(doc) = TextsOf(Default) \union TextsOf(section) BY <1>2, TextsJoin
  <1>5. \/ Told /\ UNCHANGED <<made, document, kept>>
        \/ /\ made' = TRUE /\ document' = doc /\ kept' = kept \ OnlyInDocument
           /\ telling' = [telling EXCEPT !.pc = onward, !.seen = sees]
        \/ Told /\ made' = TRUE /\ document' \in Beginnings(doc) /\ kept' = kept \ OnlyInDocument
    BY DEF Remade, section
  <1> HIDE DEF doc
  <1>6. kept \ OnlyInDocument \subseteq Range(profile) BY OtherFileKeeps DEF DocInv
  <1>7. CASE Told /\ UNCHANGED <<made, document, kept>> BY <1>1, <1>7, TellEnds DEF DocInv, ToldIsKept
  <1>8. CASE Told /\ made' = TRUE /\ document' \in Beginnings(doc) /\ kept' = kept \ OnlyInDocument
    <2>1. document' \in Doc BY <1>4, <1>8, BeginningsAre
    <2>2. ToldIsKept' BY <1>6, <1>8 DEF ToldIsKept
    <2> QED BY <1>1, <1>8, <2>1, <2>2, TellEnds DEF DocInv
  <1>9. CASE /\ made' = TRUE /\ document' = doc /\ kept' = kept \ OnlyInDocument
             /\ telling' = [telling EXCEPT !.pc = onward, !.seen = sees]
    <2>1. onward \in {"clear", "do"} OBVIOUS
    <2>2. sees \in SUBSET Said
      <3>1. TextsOf(doc) \subseteq Said BY <1>4, SaysText
      <3>2. telling.seen \in SUBSET Said BY <1>1, CallsAre
      <3> QED BY <3>1, <3>2
    <2>3. onward = "clear" => section # << >> OBVIOUS
    <2>4. made => sees = TextsOf(doc) OBVIOUS
    <2> HIDE DEF onward, sees
    <2>5. telling' \in Telling /\ telling'.pc = onward /\ telling'.tool = telling.tool /\ telling'.seen = sees
      BY <1>1, <1>9, <2>1, <2>2, CallsAre DEF Telling
    <2>6. ReadBefore'
      <3> SUFFICES ASSUME telling'.tool = "replace" PROVE made' /\ telling'.seen = TextsOf(document') BY DEF ReadBefore
      <3>1. made BY <1>1, <2>5 DEF DocInv, ReadBefore
      <3> QED BY <1>9, <2>4, <2>5, <3>1
    <2>7. MovedBefore'
      <3>1. \A f \in Range(MigratedField) : profile[f] # Unset => profile[f] \in TextsOf(Migrated(profile))
        BY <1>1, MigratedHas
      <3>2. telling'.pc = "clear" => TextsOf(Migrated(profile)) \subseteq TextsOf(document')
        BY <1>3, <1>4, <1>9, <2>3, <2>5
      <3> QED BY <3>1, <3>2 DEF MovedBefore
    <2>8. ToldIsKept' BY <1>6, <1>9 DEF ToldIsKept
    <2> QED BY <1>1, <1>4, <1>9, <2>5, <2>6, <2>7, <2>8 DEF DocInv
  <1> HIDE DEF onward, sees
  <1> QED BY <1>5, <1>7, <1>8, <1>9

LEMMA EnsureKeeps == ASSUME DocInv, Ensure PROVE DocInv'
  <1>0. telling.pc = "ensure" /\ UNCHANGED profile BY DEF Ensure
  <1>1. telling \in Telling /\ telling.pc # "idle" BY <1>0 DEF DocInv
  <1>2. CASE made /\ Tell("do") /\ UNCHANGED <<made, document, kept>>
    <2>1. telling' \in Telling /\ telling'.pc = "do" /\ telling'.tool = telling.tool /\ telling'.seen = telling.seen
      BY <1>1, <1>2, TellGoesOn
    <2>2. ReadBefore' BY <1>1, <1>2, <2>1 DEF DocInv, ReadBefore
    <2>3. MovedBefore' BY <2>1 DEF MovedBefore
    <2> QED BY <1>0, <1>2, <2>1, <2>2, <2>3 DEF DocInv, ToldIsKept
  <1>3. CASE \E blind \in SUBSET {"document", "profile"} :
               (made <=> "document" \in blind) /\ Remade(blind)
    BY <1>0, <1>3, RemadeKeeps
  <1> QED BY <1>2, <1>3 DEF Ensure

LEMMA ClearKeeps == ASSUME DocInv, Clear PROVE DocInv'
  <1>0. telling.pc = "clear" /\ UNCHANGED <<made, document>> BY DEF Clear
  <1>1. telling \in Telling /\ telling.pc # "idle" /\ document \in Doc /\ profile \in Profile /\ ToldIsKept
    BY <1>0 DEF DocInv
  <1> DEFINE patch == [f \in Range(MigratedField) |-> Unset]
  <1>2. CASE ProfileNotUpdated /\ Told
    <2>1. profile' \in Profile /\ ToldIsKept' BY <1>0, <1>1, <1>2, NoUpdateKeeps
    <2> QED BY <1>0, <1>1, <1>2, <2>1, TellEnds DEF DocInv
  <1>3. CASE ProfileUpdated(patch, {}, {}) /\ Tell("do")
    <2>1. telling' \in Telling /\ telling'.pc = "do" /\ telling'.tool = telling.tool /\ telling'.seen = telling.seen
      BY <1>1, <1>3, TellGoesOn
    <2>2. ReadBefore' BY <1>0, <1>1, <2>1 DEF DocInv, ReadBefore
    <2>3. MovedBefore' BY <2>1 DEF MovedBefore
    <2>4. DOMAIN patch = Range(MigratedField) /\ \A f \in DOMAIN patch : patch[f] = Unset OBVIOUS
    <2> HIDE DEF patch
    <2>5. \A f \in Field \cap DOMAIN patch : patch[f] \in Note \union {Unset} BY <2>4
    <2>6. \A f \in Field \cap DOMAIN patch :
            profile[f] \in {} \union TextsOf(document) \union Range(Patched(profile, patch))
      <3> TAKE f \in Field \cap DOMAIN patch
      <3>1. CASE profile[f] # Unset BY <1>0, <2>4, <3>1 DEF DocInv, MovedBefore
      <3>2. CASE profile[f] = Unset
        <4>1. Patched(profile, patch)[f] = Unset /\ DOMAIN Patched(profile, patch) = Field BY <2>4 DEF Patched
        <4> QED BY <3>2, <4>1 DEF Range
      <3> QED BY <3>1, <3>2
    <2>7. ProfileUpdated(patch, {}, {}) BY <1>3
    <2>8. {} \subseteq {patch[f] : f \in Field \cap DOMAIN patch} OBVIOUS
    <2>9. profile' \in Profile /\ ToldIsKept' BY <1>0, <1>1, <2>5, <2>6, <2>7, <2>8, UpdateKeeps
    <2> QED BY <1>0, <1>1, <2>1, <2>2, <2>3, <2>9 DEF DocInv
  <1> QED BY <1>2, <1>3 DEF Clear

\* A save keeps what it does not drop.
LEMMA SaveKeeps ==
  ASSUME DocInv, telling.pc = "do", UNCHANGED <<made, profile>>, Told,
         NEW doc \in Doc, NEW dropped, Save(doc, dropped),
         TextsOf(document) \subseteq dropped \union Range(profile) \union TextsOf(doc),
         telling.text \in TextsOf(doc)
  PROVE  DocInv'
  <1>1. telling' \in Telling /\ telling'.pc = "idle" /\ ReadBefore' /\ MovedBefore' BY TellEnds
  <1>2. CASE UNCHANGED <<document, kept>> BY <1>1, <1>2 DEF DocInv, ToldIsKept
  <1>3. CASE document' = doc /\ kept' = (kept \ dropped) \union {telling.text}
    BY <1>1, <1>3 DEF DocInv, ToldIsKept
  <1>4. CASE document' \in Beginnings(doc) /\ kept' = kept \ OnlyInDocument
    <2>1. document' \in Doc BY <1>4, BeginningsAre
    <2>2. ToldIsKept' BY <1>4, OtherFileKeeps DEF DocInv, ToldIsKept
    <2> QED BY <1>1, <2>1, <2>2 DEF DocInv
  <1> QED BY <1>2, <1>3, <1>4 DEF Save

LEMMA ServeKeeps == ASSUME DocInv, Serve PROVE DocInv'
  <1>0. telling.pc = "do" /\ Told /\ UNCHANGED <<made, profile>> BY DEF Serve
  <1>1. telling \in Telling /\ telling.pc # "idle" /\ document \in Doc /\ profile \in Profile BY <1>0 DEF DocInv
  <1>2. telling' \in Telling /\ telling'.pc = "idle" /\ ReadBefore' /\ MovedBefore' BY <1>0, TellEnds
  <1>3. telling.text \in Note BY <1>1, CallsAre
  <1>4. ASSUME UNCHANGED <<document, kept>> PROVE DocInv' BY <1>0, <1>2, <1>4 DEF DocInv, ToldIsKept
  <1>5. CASE telling.tool = "replace" /\ Save(Replaced(telling.text), telling.seen \ Range(profile))
    <2> DEFINE doc == Replaced(telling.text)
               dropped == telling.seen \ Range(profile)
    <2>1. telling.seen = TextsOf(document) BY <1>1, <1>5 DEF DocInv, ReadBefore
    <2>2. doc \in Doc /\ telling.text \in TextsOf(doc)
      <3>1. telling.text \in Said BY <1>3 DEF Said
      <3>2. Text(telling.text) \in DocLine /\ Text(telling.text).level = 0 /\ Text(telling.text).text = telling.text
        BY <3>1, LinesAre
      <3>3. doc \in Doc /\ Len(doc) = 1 /\ doc[1] = Text(telling.text) BY <3>2 DEF Doc, Replaced
      <3> HIDE DEF doc
      <3>4. 1 \in 1 .. Len(doc) BY <3>3
      <3> QED BY <3>2, <3>3, <3>4, TextsAre
    <2>3. TextsOf(document) \subseteq dropped \union Range(profile) \union TextsOf(doc) BY <2>1
    <2>4. Save(doc, dropped) BY <1>5
    <2> HIDE DEF doc, dropped
    <2> QED BY <1>0, <2>2, <2>3, <2>4, SaveKeeps
  <1>6. CASE telling.tool = "append" /\ Save(Appended(document, telling.text), {})
    <2> DEFINE doc == Appended(document, telling.text)
    <2>1. doc \in Doc /\ TextsOf(document) \union {telling.text} \subseteq TextsOf(doc) BY <1>1, <1>3, AppendedSays
    <2>2. TextsOf(document) \subseteq {} \union Range(profile) \union TextsOf(doc) /\ telling.text \in TextsOf(doc) BY <2>1
    <2>3. Save(doc, {}) BY <1>6
    <2> HIDE DEF doc
    <2> QED BY <1>0, <2>1, <2>2, <2>3, SaveKeeps
  <1>7. CASE telling.tool = "section" /\ ~UNCHANGED <<document, kept>>
    <2> DEFINE s == SectionOf(document, telling.heading)
               doc == Edited(document, s, telling.text)
               dropped == TextsOf(SubSeq(document, s[1], s[2] - 1)) \ Range(profile)
    <2>1. s # << >> /\ Save(doc, dropped) BY <1>7 DEF Serve
    <2>2. PICK first \in 1 .. Len(document) : \E end \in first + 1 .. Len(document) + 1 : s = <<first, end>>
      BY <1>1, <2>1, SectionIs
    <2>3. PICK end \in first + 1 .. Len(document) + 1 : s = <<first, end>> BY <2>2
    <2>4. s[1] = first /\ s[2] = end BY <2>3
    <2>5. /\ doc \in Doc /\ telling.text \in TextsOf(doc)
          /\ TextsOf(document) \subseteq TextsOf(SubSeq(document, first, end - 1)) \union TextsOf(doc)
      <3> HIDE DEF s
      <3> QED BY <1>1, <1>3, <2>3, EditedSays
    <2>6. TextsOf(document) \subseteq dropped \union Range(profile) \union TextsOf(doc) BY <2>4, <2>5
    <2> HIDE DEF s, doc, dropped
    <2> QED BY <1>0, <2>1, <2>5, <2>6, SaveKeeps
  <1> QED BY <1>4, <1>5, <1>6, <1>7 DEF Serve

LEMMA DieTellingKeeps == ASSUME DocInv, DieTelling PROVE DocInv'
  <1>1. Told /\ UNCHANGED <<made, document, profile, kept>> BY DEF DieTelling
  <1> QED BY <1>1, TellEnds DEF DocInv, ToldIsKept

LEMMA DocInvStep == ASSUME DocInv, ReadsFirst, [DocumentNext]_documentVars PROVE DocInv'
  <1>1. CASE UNCHANGED documentVars
    BY <1>1 DEF documentVars, DocInv, ToldIsKept, ReadBefore, MovedBefore
  <1>2. CASE DocumentNext
    BY <1>2, AskDocumentKeeps, IdentityUpdateKeeps, EnsureKeeps, ClearKeeps, ServeKeeps, DieTellingKeeps
       DEF DocumentNext
  <1> QED BY <1>1, <1>2

\* What the operator said stays in one of the two files until they take it back, if
\* whoever replaces the document has read it.
THEOREM WhatIsToldIsKept == ASSUME ReadsFirst PROVE DocumentSpec => []ToldIsKept
  <1>1. DocInv => ToldIsKept BY DEF DocInv
  <1>2. DocInv /\ [DocumentNext]_documentVars => DocInv' BY DocInvStep
  <1> QED BY <1>1, <1>2, DocInvInit, PTL DEF DocumentSpec

---------------------------------------------------------------------------
(* Scratchpad: what whoami shows of the notes.  The last of the notes that  *)
(* may go is the latest of the older ones that say a task was paused, and   *)
(* the last is never let go.                                                *)

LEMMA OneEntry == ASSUME NEW x PROVE Cardinality({x}) = 1
  BY FS_Singleton

LEMMA LatestIs ==
  ASSUME NEW n \in Nat, NEW S, S \subseteq 1 .. n, NEW k
  PROVE  /\ IsFiniteSet(S) /\ Latest(k, S) \subseteq S /\ IsFiniteSet(Latest(k, S))
         /\ \A m \in S : (\A p \in S : p <= m) /\ k \in Nat \ {0} => m \in Latest(k, S)
  <1>1. IsFiniteSet(S)
    <2>1. IsFiniteSet(1 .. n) BY FS_Interval
    <2>2. S \in SUBSET (1 .. n) OBVIOUS
    <2> QED BY <2>1, <2>2, FS_Subset
  <1>2. Latest(k, S) \in SUBSET S BY DEF Latest
  <1>3. IsFiniteSet(Latest(k, S))
    <2> DEFINE l == Latest(k, S)
    <2>1. l \in SUBSET S BY <1>2
    <2> HIDE DEF l
    <2>2. IsFiniteSet(l) BY <1>1, <2>1, FS_Subset
    <2> QED BY <2>2 DEF l
  <1>4. ASSUME NEW m \in S, \A p \in S : p <= m, k \in Nat \ {0} PROVE m \in Latest(k, S)
    <2>1. {p \in S : p > m} = {}
      <3>1. \A p \in S : p \in Nat /\ ~(p > m) BY <1>4
      <3> QED BY <3>1
    <2>2. Cardinality({p \in S : p > m}) < k
      <3>1. Cardinality({}) = 0 BY FS_EmptySet
      <3> QED BY <1>4, <2>1, <3>1
    <2> QED BY <2>2 DEF Latest
  <1> QED BY <1>1, <1>2, <1>3, <1>4

\* The places that are let go, one after the other, to the end.
LEMMA EvictionEnds ==
  ASSUME NEW T, NEW all \in Seq(T), all # << >>
  PROVE  /\ Eviction(all) \in Seq(Nat) /\ Len(Eviction(all)) \in Nat \ {0}
         /\ \A m \in DOMAIN all \ NewestNotes(all) :
              /\ all[m].strong
              /\ \A o \in DOMAIN all \ NewestNotes(all) : all[o].strong => o <= m
              => m = Eviction(all)[Len(Eviction(all))]
  <1> DEFINE n == Len(all)
             N == NewestNotes(all)
             paused == {o \in DOMAIN all \ N : all[o].strong}
             St == StrongNotes(all)
             soft == {o \in DOMAIN all \ (N \union St) : all[o].weak}
             W == WeakNotes(all)
  <1>1. n \in Nat /\ n >= 1 /\ DOMAIN all = 1 .. n OBVIOUS
  <1>2. NotesMaxEntries \in Nat \ {0} /\ NotesMaxResume \in Nat \ {0} BY ScratchpadAssumption
  <1>3. IsFiniteSet(N) /\ N \subseteq 1 .. n /\ n \in N
    <2>1. N = Latest(NotesMaxEntries, 1 .. n) BY <1>1 DEF NewestNotes
    <2>2. n \in 1 .. n /\ \A p \in 1 .. n : p <= n BY <1>1
    <2> QED BY <1>1, <1>2, <2>1, <2>2, LatestIs
  <1> HIDE DEF N, n
  <1>4. paused \subseteq 1 .. n /\ soft \subseteq 1 .. n BY <1>1
  <1>5. /\ IsFiniteSet(St) /\ St \subseteq paused
        /\ \A m \in paused : (\A p \in paused : p <= m) => m \in St
    <2>1. St = Latest(NotesMaxResume, paused) BY DEF StrongNotes, N
    <2> HIDE DEF paused, St
    <2> QED BY <1>1, <1>2, <1>4, <2>1, LatestIs
  <1>6. IsFiniteSet(W) /\ W \subseteq soft
    <2>1. W = Latest(NotesMaxResume - Cardinality(St), soft) BY DEF WeakNotes, N
    <2> HIDE DEF soft, W, St
    <2> QED BY <1>1, <1>4, <2>1, LatestIs
  <1>7. St \subseteq 1 .. n /\ W \subseteq 1 .. n BY <1>4, <1>5, <1>6
  <1>8. Eviction(all) = (Ascending(W) \o Ascending(N)) \o Ascending(St) BY DEF Eviction, N
  <1>9. ASSUME NEW S, S \subseteq 1 .. n, IsFiniteSet(S)
        PROVE  Ascending(S) \in Seq(Nat) /\ Len(Ascending(S)) = Cardinality(S) /\ Cardinality(S) \in Nat
    <2>1. S \subseteq Int /\ S \subseteq Nat BY <1>1, <1>9
    <2>2. Cardinality(S) \in Nat /\ Ascending(S) \in [1 .. Cardinality(S) -> S] BY <1>9, <2>1, AscendingIs
    <2>3. Ascending(S) \in [1 .. Cardinality(S) -> Nat] BY <2>1, <2>2
    <2> QED BY <2>2, <2>3
  <1> DEFINE a == Ascending(W)
             b == Ascending(N)
             c == Ascending(St)
  <1>10. a \in Seq(Nat) /\ b \in Seq(Nat) /\ c \in Seq(Nat) BY <1>3, <1>5, <1>6, <1>7, <1>9
  <1>11. Len(b) = Cardinality(N) /\ Len(c) = Cardinality(St) BY <1>3, <1>5, <1>7, <1>9
  <1>12. Cardinality(N) \in Nat \ {0}
    <2>1. N # {} BY <1>3
    <2> QED BY <1>3, <2>1, FS_CardinalityType, FS_EmptySet
  <1> DEFINE e == (a \o b) \o c
  <1>13. e \in Seq(Nat) /\ Len(e) = Len(a) + Len(b) + Len(c) /\ Len(e) \in Nat \ {0}
    <2> HIDE DEF a, b, c
    <2>1. a \o b \in Seq(Nat) /\ Len(a \o b) = Len(a) + Len(b) BY <1>10, ConcatProperties
    <2> DEFINE ab == a \o b
    <2> HIDE DEF ab
    <2>2. ab \in Seq(Nat) /\ Len(ab) = Len(a) + Len(b) BY <2>1 DEF ab
    <2>3. ab \o c \in Seq(Nat) /\ Len(ab \o c) = Len(ab) + Len(c) BY <1>10, <2>2, ConcatProperties
    <2>4. Len(a) \in Nat /\ Len(b) \in Nat \ {0} /\ Len(c) \in Nat BY <1>10, <1>11, <1>12
    <2> QED BY <2>2, <2>3, <2>4 DEF ab
  <1>14. ASSUME NEW m \in paused, \A p \in paused : p <= m PROVE m = e[Len(e)]
    <2>1. m \in St BY <1>5, <1>14
    <2> DEFINE k == Cardinality(St)
    <2>2. /\ k \in Nat /\ c \in [1 .. k -> St]
          /\ \A i, j \in 1 .. k : i < j => c[i] < c[j]
          /\ \A x \in St : \E i \in 1 .. k : c[i] = x
      <3>1. St \subseteq Int BY <1>7
      <3> HIDE DEF St
      <3> QED BY <1>5, <3>1, AscendingIs
    <2>3. Len(c) = k BY <1>11
    <2> HIDE DEF k, c, paused, St
    <2>4. PICK i \in 1 .. k : c[i] = m BY <2>1, <2>2
    <2>5. k \in 1 .. k /\ c[k] \in St BY <2>2, <2>4
    <2>6. c[k] <= m BY <1>5, <1>14, <2>5
    <2>7. i = k
      <3> SUFFICES ASSUME i # k PROVE FALSE OBVIOUS
      <3>1. i < k BY <2>2, <2>4
      <3>2. c[i] < c[k] BY <2>2, <2>4, <2>5, <3>1
      <3>3. c[k] \in Nat /\ c[i] \in Nat
        <4>1. St \subseteq Nat BY <1>1, <1>7
        <4>2. c[k] \in St /\ c[i] \in St BY <2>2, <2>4, <2>5
        <4> QED BY <4>1, <4>2
      <3> QED BY <2>4, <2>6, <3>2, <3>3
    <2>8. e[Len(e)] = c[Len(c)]
      <3> DEFINE ab == a \o b
      <3>1. ab \in Seq(Nat)
        <4> HIDE DEF a, b
        <4> QED BY <1>10, ConcatProperties
      <3> HIDE DEF ab, a, b
      <3>2. Len(ab) \in Nat /\ Len(c) \in Nat /\ Len(c) >= 1 /\ Len(ab \o c) = Len(ab) + Len(c)
        <4>1. c \in Seq(Nat) BY <1>10
        <4> HIDE DEF c
        <4>2. Len(ab \o c) = Len(ab) + Len(c) BY <3>1, <4>1, ConcatProperties
        <4>3. Len(ab) \in Nat /\ Len(c) \in Nat BY <3>1, <4>1
        <4>4. Len(c) >= 1 BY <2>2, <2>3, <2>4
        <4> QED BY <4>2, <4>3, <4>4
      <3>3. Len(ab) + Len(c) \in 1 .. Len(ab) + Len(c) /\ ~(Len(ab) + Len(c) <= Len(ab)) BY <3>2
      <3>4. (ab \o c)[Len(ab) + Len(c)] = c[Len(ab) + Len(c) - Len(ab)] BY <1>10, <3>1, <3>3, ConcatProperties
      <3>5. Len(ab) + Len(c) - Len(ab) = Len(c) BY <3>2
      <3> QED BY <3>2, <3>4, <3>5 DEF ab
    <2> QED BY <2>3, <2>4, <2>7, <2>8
  <1> HIDE DEF e
  <1>15. Eviction(all) = e BY <1>8 DEF e
  <1>16. ASSUME NEW m \in DOMAIN all \ NewestNotes(all), all[m].strong,
                \A o \in DOMAIN all \ NewestNotes(all) : all[o].strong => o <= m
         PROVE  m = e[Len(e)]
    <2>1. m \in paused /\ \A p \in paused : p <= m BY <1>16 DEF N
    <2> HIDE DEF paused
    <2> QED BY <1>14, <2>1
  <1> QED BY <1>13, <1>15, <1>16

\* What is shown, when the last that may go stays: as many as fit, or it alone.
LEMMA ShownNotes ==
  ASSUME NEW T, NEW all \in Seq(T), all # << >>
  PROVE  /\ Eviction(all)[Len(Eviction(all))] \in SelectWhoamiNotes(all)
         /\ Cardinality(SelectWhoamiNotes(all)) > 1 => Bytes(all, SelectWhoamiNotes(all)) <= NotesMaxBytes
  <1> DEFINE order == Eviction(all)
             n == Len(order)
             left(k) == {order[i] : i \in (k + 1) .. Len(order)}
             fits(k) == Bytes(all, left(k)) <= NotesMaxBytes
             enough == {k \in 0 .. (Len(order) - 1) : Bytes(all, left(k)) <= NotesMaxBytes \/ k = Len(order) - 1}
  <1>1. n \in Nat \ {0} BY EvictionEnds
  <1>2. SelectWhoamiNotes(all) = left(Min(enough)) BY DEF SelectWhoamiNotes
  <1>3. enough \subseteq Nat /\ n - 1 \in enough BY <1>1
  <1>4. Min(enough) \in enough
    <2> HIDE DEF enough
    <2>1. \E x \in enough : \A y \in enough : x <= y BY <1>3, LeastOf
    <2> QED BY <2>1 DEF Min
  <1> DEFINE k == Min(enough)
  <1>5. k \in 0 .. n - 1 /\ (fits(k) \/ k = n - 1)
    <2> HIDE DEF fits
    <2>1. \A j \in enough : j \in 0 .. n - 1 /\ (fits(j) \/ j = n - 1) BY DEF fits
    <2> HIDE DEF enough
    <2> QED BY <1>4, <2>1
  <1> HIDE DEF enough, k
  <1>6. order[n] \in left(k) BY <1>1, <1>5
  <1>7. ASSUME k = n - 1 PROVE Cardinality(left(k)) = 1
    <2>1. left(k) = {order[n]}
      <3>1. (k + 1) .. n = {n} BY <1>1, <1>7
      <3> HIDE DEF order
      <3> QED BY <3>1
    <2> HIDE DEF order
    <2> QED BY <2>1, OneEntry
  <1>8. Cardinality(left(k)) > 1 => fits(k)
    <2>1. CASE fits(k) BY <2>1
    <2>2. CASE k = n - 1
      <3>1. Cardinality(left(k)) = 1 BY <1>7, <2>2
      <3> HIDE DEF left
      <3> QED BY <3>1
    <2> QED BY <1>5, <2>1, <2>2
  <1>9. SelectWhoamiNotes(all) = left(k) BY <1>2 DEF k
  <1> QED BY <1>6, <1>8, <1>9

LEMMA NotesSpared == ASSUME NEW T, pad \in Seq(T) PROVE PausedWorkIsShown
  <1> DEFINE sel == SelectWhoamiNotes(pad)
             paused == {o \in DOMAIN pad \ NewestNotes(pad) : pad[o].strong}
  <1>1. CASE pad = << >>
    <2>1. sel = {} BY <1>1 DEF SelectWhoamiNotes
    <2>2. paused = {} BY <1>1
    <2>3. ~(Cardinality(sel) > 1) BY <2>1, FS_EmptySet
    <2> QED BY <2>2, <2>3 DEF PausedWorkIsShown
  <1>2. CASE pad # << >>
    <2>1. Eviction(pad)[Len(Eviction(pad))] \in sel BY <1>2, ShownNotes
    <2>2. Cardinality(sel) > 1 => Bytes(pad, sel) <= NotesMaxBytes BY <1>2, ShownNotes
    <2>3. ASSUME paused # {} PROVE Max(paused) \in sel
      <3>1. DOMAIN pad = 1 .. Len(pad) /\ Len(pad) \in Nat OBVIOUS
      <3>2. paused \subseteq Nat /\ \A o \in paused : o <= Len(pad) BY <3>1
      <3>3. \E m \in paused : \A o \in paused : o <= m
        <4> HIDE DEF paused
        <4> QED BY <2>3, <3>1, <3>2, GreatestOf
      <3>4. Max(paused) \in paused /\ \A o \in paused : o <= Max(paused)
        <4>1. \E m \in paused : \A o \in paused : m >= o
          <5> HIDE DEF paused
          <5> QED BY <3>2, <3>3
        <4>2. Max(paused) \in paused /\ \A o \in paused : Max(paused) >= o
          <5> HIDE DEF paused
          <5> QED BY <4>1 DEF Max
        <4> HIDE DEF paused
        <4> QED BY <3>2, <4>2
      <3> DEFINE m == Max(paused)
      <3> HIDE DEF m
      <3>5. m \in paused /\ \A o \in paused : o <= m BY <3>4 DEF m
      <3>6. m \in DOMAIN pad \ NewestNotes(pad) /\ pad[m].strong
            /\ \A o \in DOMAIN pad \ NewestNotes(pad) : pad[o].strong => o <= m
        BY <3>5
      <3>7. m = Eviction(pad)[Len(Eviction(pad))] BY <1>2, <3>6, EvictionEnds
      <3> QED BY <2>1, <3>7 DEF m
    <2> HIDE DEF sel, paused
    <2>4. /\ paused # {} => Max(paused) \in sel
          /\ Cardinality(sel) > 1 => Bytes(pad, sel) <= NotesMaxBytes
      BY <2>2, <2>3
    <2> QED BY <2>4 DEF PausedWorkIsShown, sel, paused
  <1> QED BY <1>1, <1>2

---------------------------------------------------------------------------
(* Scratchpad: the comments page by page.  The offset to go on from is      *)
(* where the last page ended, which is an end of a character and stays one  *)
(* when comments are added; what is behind it begins with a character that  *)
(* a page has room for.                                                     *)

\* The ends of the first n characters.
EndsTo(text, n, g) == g = [k \in 0 .. n |-> IF k = 0 THEN 0 ELSE g[k - 1] + text[k]]

LEMMA SomeEnds == ASSUME NEW text, NEW n \in Nat PROVE \E g : EndsTo(text, n, g)
  <1> DEFINE S == {i \in Nat : \E g : EndsTo(text, i, g)}
  <1>1. 0 \in S
    <2> DEFINE g == [k \in 0 .. 0 |-> 0]
    <2>1. EndsTo(text, 0, g)
      <3>1. \A k \in 0 .. 0 : k = 0 OBVIOUS
      <3> QED BY <3>1 DEF EndsTo
    <2> QED BY <2>1
  <1>2. ASSUME NEW i \in Nat, i \in S PROVE i + 1 \in S
    <2>1. PICK g : EndsTo(text, i, g) BY <1>2
    <2> DEFINE h == [k \in 0 .. i + 1 |-> IF k = i + 1 THEN g[i] + text[i + 1] ELSE g[k]]
    <2>2. \A k \in 0 .. i : g[k] = IF k = 0 THEN 0 ELSE g[k - 1] + text[k] BY <2>1 DEF EndsTo
    <2>3. \A k \in 0 .. i + 1 : h[k] = IF k = 0 THEN 0 ELSE h[k - 1] + text[k]
      <3> TAKE k \in 0 .. i + 1
      <3>1. CASE k = i + 1
        <4>1. h[k] = g[i] + text[i + 1] BY <3>1
        <4>2. k # 0 /\ k - 1 = i /\ i \in 0 .. i + 1 /\ i # i + 1 BY <3>1
        <4>3. h[i] = g[i] BY <4>2
        <4> HIDE DEF h
        <4> QED BY <3>1, <4>1, <4>2, <4>3
      <3>2. CASE k # i + 1
        <4>1. k \in 0 .. i /\ h[k] = g[k] BY <3>2
        <4>2. k # 0 => k - 1 \in 0 .. i + 1 /\ k - 1 # i + 1 BY <4>1
        <4>3. k # 0 => h[k - 1] = g[k - 1] BY <4>2
        <4> HIDE DEF h
        <4> QED BY <2>2, <4>1, <4>3
      <3> QED BY <3>1, <3>2
    <2>4. h = [k \in 0 .. i + 1 |-> h[k]] OBVIOUS
    <2> HIDE DEF h
    <2>5. EndsTo(text, i + 1, h) BY <2>3, <2>4 DEF EndsTo
    <2> QED BY <2>5
  <1> HIDE DEF S
  <1>3. n \in S BY <1>1, <1>2, Inductively
  <1> QED BY <1>3 DEF S

Chars == Seq(Width)

LEMMA EndsAre ==
  ASSUME NEW text \in Chars
  PROVE  /\ Len(text) \in Nat /\ EndsAt(text)[0] = 0
         /\ \A k \in 1 .. Len(text) : EndsAt(text)[k] = EndsAt(text)[k - 1] + text[k]
         /\ \A k \in 0 .. Len(text) : EndsAt(text)[k] \in Nat
  <1> DEFINE n == Len(text)
             e == EndsAt(text)
  <1>1. n \in Nat /\ \A k \in 1 .. n : text[k] \in Nat \ {0}
    <2>1. n \in Nat /\ \A k \in 1 .. n : text[k] \in Width BY DEF Chars
    <2>2. Width \subseteq Nat \ {0} BY ScratchpadAssumption
    <2> HIDE DEF n
    <2> QED BY <2>1, <2>2
  <1>2. e = CHOOSE g : EndsTo(text, n, g) BY DEF EndsAt, EndsTo
  <1>3. EndsTo(text, n, e)
    <2> HIDE DEF e, n
    <2> QED BY <1>1, <1>2, SomeEnds
  <1> HIDE DEF e, n
  <1>4. \A k \in 0 .. n : e[k] = IF k = 0 THEN 0 ELSE e[k - 1] + text[k] BY <1>3 DEF EndsTo
  <1>5. e[0] = 0 BY <1>1, <1>4
  <1>6. \A k \in 1 .. n : e[k] = e[k - 1] + text[k] BY <1>1, <1>4
  <1> DEFINE S == {i \in Nat : i <= n => e[i] \in Nat}
  <1>7. 0 \in S BY <1>5
  <1>8. ASSUME NEW i \in Nat, i \in S PROVE i + 1 \in S
    <2> SUFFICES ASSUME i + 1 <= n PROVE e[i + 1] \in Nat OBVIOUS
    <2>1. i + 1 \in 1 .. n /\ i + 1 - 1 = i /\ e[i] \in Nat BY <1>1, <1>8
    <2>2. e[i + 1] = e[i] + text[i + 1] BY <1>6, <2>1
    <2> QED BY <1>1, <2>1, <2>2
  <1> HIDE DEF S
  <1>9. \A i \in Nat : i \in S BY <1>7, <1>8, Inductively
  <1>10. \A k \in 0 .. n : e[k] \in Nat BY <1>1, <1>9 DEF S
  <1> QED BY <1>1, <1>5, <1>6, <1>10 DEF e, n

\* A character ends behind those before it.
LEMMA EndsRise ==
  ASSUME NEW text \in Chars, NEW i \in 0 .. Len(text), NEW j \in 0 .. Len(text), i < j
  PROVE  EndsAt(text)[i] < EndsAt(text)[j]
  <1> DEFINE n == Len(text)
             e == EndsAt(text)
             S == {k \in Nat : k <= n /\ i < k => e[i] < e[k]}
  <1>1. n \in Nat /\ \A k \in 1 .. n : text[k] \in Nat \ {0}
    <2>1. n \in Nat /\ \A k \in 1 .. n : text[k] \in Width BY DEF Chars
    <2>2. Width \subseteq Nat \ {0} BY ScratchpadAssumption
    <2> HIDE DEF n
    <2> QED BY <2>1, <2>2
  <1>2. (\A k \in 1 .. n : e[k] = e[k - 1] + text[k]) /\ \A k \in 0 .. n : e[k] \in Nat BY EndsAre
  <1>a. i \in 0 .. n /\ j \in 0 .. n OBVIOUS
  <1> HIDE DEF e, n
  <1>3. 0 \in S BY <1>1, <1>a
  <1>4. ASSUME NEW k \in Nat, k \in S PROVE k + 1 \in S
    <2> SUFFICES ASSUME k + 1 <= n, i < k + 1 PROVE e[i] < e[k + 1] OBVIOUS
    <2>1. k + 1 \in 1 .. n /\ k + 1 - 1 = k /\ k \in 0 .. n BY <1>1
    <2>2. e[k + 1] = e[k] + text[k + 1] /\ text[k + 1] \in Nat \ {0} BY <1>1, <1>2, <2>1
    <2>3. e[k] \in Nat /\ e[i] \in Nat BY <1>2, <1>a, <2>1
    <2>4. i = k \/ i < k BY <1>1, <1>a
    <2>5. e[i] <= e[k] BY <1>1, <1>4, <2>1, <2>3, <2>4
    <2> QED BY <2>2, <2>3, <2>5
  <1> HIDE DEF S
  <1>5. j \in S
    <2>1. \A k \in Nat : k \in S BY <1>3, <1>4, Inductively
    <2> QED BY <1>1, <1>a, <2>1
  <1> QED BY <1>1, <1>5, <1>a DEF S, e, n

\* What is added leaves the ends where they are.
LEMMA EndsStay ==
  ASSUME NEW text \in Chars, NEW w \in Width
  PROVE  /\ Append(text, w) \in Chars
         /\ Boundaries(text) \subseteq Boundaries(Append(text, w))
         /\ Total(text) < Total(Append(text, w))
         /\ \A k \in 0 .. Len(text) : EndsAt(Append(text, w))[k] = EndsAt(text)[k]
  <1> DEFINE n == Len(text)
             e == EndsAt(text)
             longer == Append(text, w)
             f == EndsAt(longer)
             S == {k \in Nat : k <= n => f[k] = e[k]}
  <1>1. n \in Nat /\ longer \in Chars /\ Len(longer) = n + 1 /\ \A k \in 1 .. n : longer[k] = text[k] BY DEF Chars
  <1> HIDE DEF longer
  <1>2. e[0] = 0 /\ \A k \in 1 .. n : e[k] = e[k - 1] + text[k] BY EndsAre
  <1>3. f[0] = 0 /\ \A k \in 1 .. n + 1 : f[k] = f[k - 1] + longer[k] BY <1>1, EndsAre
  <1>4. f[n] < f[n + 1]
    <2>1. n \in 0 .. Len(longer) /\ n + 1 \in 0 .. Len(longer) /\ n < n + 1 BY <1>1
    <2> HIDE DEF n
    <2> QED BY <1>1, <2>1, EndsRise
  <1>a. Boundaries(text) = {e[k] : k \in 0 .. n} /\ Total(text) = e[n] BY DEF Boundaries, Total
  <1>b. Boundaries(longer) = {f[k] : k \in 0 .. n + 1} /\ Total(longer) = f[n + 1] BY <1>1 DEF Boundaries, Total
  <1> HIDE DEF e, f, n
  <1>5. 0 \in S BY <1>2, <1>3
  <1>6. ASSUME NEW k \in Nat, k \in S PROVE k + 1 \in S
    <2> SUFFICES ASSUME k + 1 <= n PROVE f[k + 1] = e[k + 1] OBVIOUS
    <2>1. k + 1 \in 1 .. n /\ k + 1 \in 1 .. n + 1 /\ k + 1 - 1 = k /\ f[k] = e[k] BY <1>1, <1>6
    <2>2. e[k + 1] = e[k] + text[k + 1] BY <1>2, <2>1
    <2>3. f[k + 1] = f[k] + longer[k + 1] BY <1>3, <2>1
    <2>4. longer[k + 1] = text[k + 1] BY <1>1, <2>1
    <2> QED BY <2>1, <2>2, <2>3, <2>4
  <1> HIDE DEF S
  <1>7. \A k \in Nat : k \in S BY <1>5, <1>6, Inductively
  <1>8. \A k \in 0 .. n : f[k] = e[k] BY <1>1, <1>7 DEF S
  <1>9. Boundaries(text) \subseteq Boundaries(longer)
    <2> SUFFICES ASSUME NEW k \in 0 .. n PROVE e[k] \in {f[i] : i \in 0 .. n + 1} BY <1>a, <1>b
    <2>1. k \in 0 .. n + 1 /\ e[k] = f[k] BY <1>1, <1>8
    <2> QED BY <2>1
  <1>10. Total(text) < Total(longer) BY <1>1, <1>4, <1>8, <1>a, <1>b
  <1> QED BY <1>1, <1>8, <1>9, <1>10 DEF longer, e, f, n

\* No place is behind the end, and one that is not the end has a character behind it.
LEMMA PlacesAre ==
  ASSUME NEW text \in Chars
  PROVE  /\ 0 \in Boundaries(text) /\ Total(text) \in Boundaries(text) /\ Boundaries(text) \subseteq Nat
         /\ \A b \in Boundaries(text) : b <= Total(text)
         /\ \A b \in Boundaries(text) : b < Total(text) => \E w \in Width : b + w \in Boundaries(text)
  <1> DEFINE n == Len(text)
             e == EndsAt(text)
  <1>1. /\ n \in Nat /\ e[0] = 0
        /\ \A k \in 1 .. n : e[k] = e[k - 1] + text[k]
        /\ \A k \in 0 .. n : e[k] \in Nat
    BY EndsAre
  <1>2. \A k \in 1 .. n : text[k] \in Width BY DEF Chars
  <1>3. \A k \in 0 .. n : k < n => e[k] < e[n]
    <2> TAKE k \in 0 .. n
    <2>1. n \in 0 .. n BY <1>1
    <2> QED BY <2>1, EndsRise
  <1>4. Boundaries(text) = {e[k] : k \in 0 .. n} /\ Total(text) = e[n] BY DEF Boundaries, Total
  <1> HIDE DEF n, e
  <1>5. 0 \in 0 .. n /\ n \in 0 .. n BY <1>1
  <1>6. 0 \in Boundaries(text) /\ Total(text) \in Boundaries(text) /\ Boundaries(text) \subseteq Nat BY <1>1, <1>4, <1>5
  <1>7. \A k \in 0 .. n : e[k] <= e[n]
    <2> TAKE k \in 0 .. n
    <2>1. k = n \/ k < n BY <1>1
    <2>2. e[k] \in Nat /\ e[n] \in Nat BY <1>1, <1>5
    <2> QED BY <1>3, <2>1, <2>2
  <1>8. ASSUME NEW k \in 0 .. n, e[k] < e[n] PROVE \E w \in Width : e[k] + w \in Boundaries(text)
    <2>1. k # n BY <1>1, <1>8
    <2>2. k + 1 \in 1 .. n /\ k + 1 \in 0 .. n /\ k + 1 - 1 = k BY <1>1, <2>1
    <2>3. e[k + 1] = e[k] + text[k + 1] /\ text[k + 1] \in Width BY <1>1, <1>2, <2>2
    <2>4. e[k + 1] \in Boundaries(text) BY <1>4, <2>2
    <2> QED BY <2>3, <2>4
  <1> QED BY <1>4, <1>6, <1>7, <1>8

\* The last place that is not behind a byte.
LEMMA AdjustIs ==
  ASSUME NEW text \in Chars, NEW i \in Nat
  PROVE  /\ AdjustToUtf8Boundary(text, i) \in Boundaries(text) /\ AdjustToUtf8Boundary(text, i) <= i
         /\ \A b \in Boundaries(text) : b <= i => b <= AdjustToUtf8Boundary(text, i)
  <1> DEFINE B == {b \in Boundaries(text) : b <= i}
             m == Max(B)
  <1>1. B \subseteq Nat /\ B # {} /\ \A b \in B : b <= i BY PlacesAre
  <1>2. \E x \in B : \A b \in B : x >= b
    <2> HIDE DEF B
    <2>1. \E x \in B : \A b \in B : b <= x BY <1>1, GreatestOf
    <2> QED BY <1>1, <2>1
  <1>3. m \in B /\ \A b \in B : m >= b
    <2> HIDE DEF B
    <2> QED BY <1>2 DEF Max
  <1>4. AdjustToUtf8Boundary(text, i) = m BY DEF AdjustToUtf8Boundary
  <1> HIDE DEF m
  <1>5. m \in Nat BY <1>1, <1>3
  <1>6. \A b \in Boundaries(text) : b <= i => b <= m
    <2> TAKE b \in Boundaries(text)
    <2> SUFFICES ASSUME b <= i PROVE b <= m OBVIOUS
    <2>1. b \in B OBVIOUS
    <2>2. b \in Nat /\ m >= b BY <1>1, <1>3, <2>1
    <2> QED BY <1>5, <2>2
  <1> QED BY <1>3, <1>4, <1>6

\* A page from a place goes on to another, if there is one.
LEMMA SliceIs ==
  ASSUME NEW text \in Chars, NEW offset \in Boundaries(text), NEW limit \in Nat, \A w \in Width : w <= limit
  PROVE  LET slice == SliceCommentText(text, offset, limit)
         IN /\ slice.from = offset /\ slice.to \in Boundaries(text)
            /\ offset < Total(text) => offset < slice.to
            /\ slice.next = IF slice.to < Total(text) THEN slice.to ELSE -1
  <1> DEFINE total == Total(text)
             start == AdjustToUtf8Boundary(text, Within(0, total, offset))
             end == AdjustToUtf8Boundary(text, Within(start, total, start + limit))
             slice == SliceCommentText(text, offset, limit)
  <1>1. /\ total \in Nat /\ total \in Boundaries(text) /\ offset \in Nat /\ offset <= total
        /\ \A b \in Boundaries(text) : b \in Nat /\ b <= total
    BY PlacesAre
  <1>s. slice = [from |-> start, to |-> end, next |-> IF end < total THEN end ELSE -1] BY DEF SliceCommentText
  <1> HIDE DEF total
  <1>2. Within(0, total, offset) = offset BY <1>1 DEF Within
  <1>3. start = offset
    <2>1. start = AdjustToUtf8Boundary(text, offset) BY <1>2
    <2>2. start \in Boundaries(text) /\ start <= offset /\ offset <= start BY <1>1, <2>1, AdjustIs
    <2> HIDE DEF start
    <2> QED BY <1>1, <2>2
  <1> DEFINE upto == Within(offset, total, offset + limit)
  <1>4. upto \in Nat /\ (upto = offset + limit \/ upto = total) BY <1>1 DEF Within
  <1>5. end = AdjustToUtf8Boundary(text, upto) BY <1>3
  <1> HIDE DEF end, start, upto, slice
  <1>6. end \in Boundaries(text) /\ \A b \in Boundaries(text) : b <= upto => b <= end BY <1>4, <1>5, AdjustIs
  <1>7. ASSUME offset < total PROVE offset < end
    <2>1. PICK w \in Width : offset + w \in Boundaries(text) BY <1>7, PlacesAre DEF total
    <2>2. w \in Nat \ {0} /\ w <= limit BY ScratchpadAssumption
    <2>3. offset + w <= total BY <1>1, <2>1
    <2>4. offset + w <= upto BY <1>1, <1>4, <2>2, <2>3
    <2>5. offset + w <= end /\ end \in Nat BY <1>1, <1>6, <2>1, <2>4
    <2> QED BY <1>1, <2>2, <2>5
  <1>8. slice.from = offset /\ slice.to = end /\ slice.next = IF end < total THEN end ELSE -1 BY <1>3, <1>s
  <1> QED BY <1>6, <1>7, <1>8 DEF slice, total

\* A page of any text, the comments or not, is a range.
LEMMA SliceRanges ==
  ASSUME NEW text \in Chars, NEW offset \in Nat, NEW limit \in Nat
  PROVE  LET slice == SliceCommentText(text, offset, limit)
         IN slice.from \in Nat /\ slice.to \in Nat /\ slice.next \in Nat \union {-1}
  <1> DEFINE total == Total(text)
             start == AdjustToUtf8Boundary(text, Within(0, total, offset))
             end == AdjustToUtf8Boundary(text, Within(start, total, start + limit))
             slice == SliceCommentText(text, offset, limit)
  <1>1. total \in Nat /\ Boundaries(text) \subseteq Nat BY PlacesAre
  <1>2. slice = [from |-> start, to |-> end, next |-> IF end < total THEN end ELSE -1] BY DEF SliceCommentText
  <1>3. Within(0, total, offset) \in Nat BY <1>1 DEF Within
  <1>4. start \in Nat
    <2> DEFINE upto == Within(0, total, offset)
    <2>1. start = AdjustToUtf8Boundary(text, upto) OBVIOUS
    <2> HIDE DEF upto, total, start
    <2> QED BY <1>1, <1>3, <2>1, AdjustIs DEF upto
  <1>5. end \in Nat
    <2> DEFINE upto == Within(start, total, start + limit)
    <2>1. end = AdjustToUtf8Boundary(text, upto) OBVIOUS
    <2> HIDE DEF total, start
    <2>2. upto \in Nat BY <1>1, <1>4 DEF Within
    <2> HIDE DEF upto, end
    <2> QED BY <1>1, <2>1, <2>2, AdjustIs
  <1> HIDE DEF total, start, end, slice
  <1>6. slice.from = start /\ slice.to = end /\ slice.next = IF end < total THEN end ELSE -1 BY <1>2
  <1> QED BY <1>4, <1>5, <1>6 DEF slice

\* What a command puts out is text, whatever it is.
LEMMA TextsRead ==
  ASSUME comments \in Chars, NEW failed \in BOOLEAN, NEW text \in CommentsText(failed)
  PROVE  text \in Chars /\ (~failed => text = comments)
  <1>1. CASE ~failed BY <1>1 DEF CommentsText
  <1>2. CASE failed /\ text \in ErrorText BY <1>2, ScratchpadAssumption DEF Chars
  <1>3. CASE failed /\ \E n \in 1 .. Len(comments) : text = SubSeq(comments, 1, n)
    <2>1. PICK n \in 1 .. Len(comments) : text = SubSeq(comments, 1, n) BY <1>3
    <2>2. \A i \in 1 .. n : comments[i] \in Width BY DEF Chars
    <2>3. 1 \in Int /\ n \in Int OBVIOUS
    <2>4. SubSeq(comments, 1, n) \in Seq(Width) BY <2>2, <2>3, SubSeqProperties
    <2> QED BY <1>3, <2>1, <2>4 DEF Chars
  <1> QED BY <1>1, <1>2, <1>3 DEF CommentsText

PageRange == [from : Nat, to : Nat, failed : BOOLEAN]

\* Page follows page up to one whose command failed, and the next follows them.
PagesJoin ==
  \A n \in 1 .. Len(pages) : NoneFailed(n) =>
    /\ pages[n].from = (IF n = 1 THEN 0 ELSE pages[n - 1].to)
    /\ pages[n].from \in Boundaries(comments) /\ pages[n].to \in Boundaries(comments)
    /\ n > 1 => pages[n].from < pages[n].to

NextFollows ==
  /\ next \in Nat \union {-1}
  /\ next = -1 => pages # << >>
  /\ next # -1 /\ NoneFailed(Len(pages)) =>
       /\ next \in Boundaries(comments)
       /\ next = (IF pages = << >> THEN 0 ELSE pages[Len(pages)].to)
       /\ pages # << >> => next < Total(comments)

PadInv ==
  /\ pad \in Seq(Entry \union {ProbeEntry})
  /\ comments \in Chars /\ pages \in Seq(PageRange)
  /\ PagesJoin /\ NextFollows

LEMMA PadInvInit == PadInit => PadInv
  <1> SUFFICES ASSUME PadInit PROVE PadInv OBVIOUS
  <1>1. comments \in Chars /\ pages = << >> /\ pages \in Seq(PageRange) /\ Len(pages) = 0 /\ next = 0
    BY DEF PadInit, Chars
  <1>2. 0 \in Boundaries(comments) BY <1>1, PlacesAre
  <1>3. NextFollows BY <1>1, <1>2 DEF NextFollows
  <1>4. PagesJoin BY <1>1 DEF PagesJoin
  <1> QED BY <1>1, <1>3, <1>4 DEF PadInv, PadInit

\* What is done to the notes leaves the pages as they are.
LEMMA NotesApart ==
  ASSUME PadInv, KeepsComments, pad' \in Seq(Entry \union {ProbeEntry}) PROVE PadInv'
  BY DEF PadInv, KeepsComments, PagesJoin, NextFollows, NoneFailed

LEMMA AppendedNote ==
  ASSUME PadInv, NEW note \in Entry \union {ProbeEntry}, ScratchAppended(note)
  PROVE  pad' \in Seq(Entry \union {ProbeEntry})
  <1>1. CASE pad' = Append(pad, note) BY <1>1 DEF PadInv
  <1>2. CASE UNCHANGED pad BY <1>2 DEF PadInv
  <1> QED BY <1>1, <1>2 DEF ScratchAppended

LEMMA NotesKeep == ASSUME PadInv, PadNext PROVE PadInv'
  <1>1. CASE ScratchAppend
    <2>1. PICK note \in Entry : ScratchAppended(note) /\ KeepsComments BY <1>1 DEF ScratchAppend
    <2>2. note \in Entry \union {ProbeEntry} OBVIOUS
    <2> QED BY <2>1, <2>2, AppendedNote, NotesApart
  <1>2. CASE ScratchClear
    <2>1. KeepsComments /\ (pad' = << >> \/ UNCHANGED pad) BY <1>2 DEF ScratchClear
    <2>2. pad' \in Seq(Entry \union {ProbeEntry})
      <3>1. CASE pad' = << >> BY <3>1
      <3>2. CASE UNCHANGED pad BY <3>2 DEF PadInv
      <3> QED BY <2>1, <3>1, <3>2
    <2> QED BY <2>1, <2>2, NotesApart
  <1>3. CASE Invoke
    <2>1. KeepsComments /\ (UNCHANGED pad \/ ScratchAppended(ProbeEntry)) BY <1>3 DEF Invoke
    <2>2. CASE UNCHANGED pad
      <3>1. pad' \in Seq(Entry \union {ProbeEntry}) BY <2>2 DEF PadInv
      <3> QED BY <2>1, <3>1, NotesApart
    <2>3. CASE ScratchAppended(ProbeEntry)
      <3>1. ProbeEntry \in Entry \union {ProbeEntry} OBVIOUS
      <3> QED BY <2>1, <2>3, <3>1, AppendedNote, NotesApart
    <2> QED BY <2>1, <2>2, <2>3
  <1> QED BY <1>1, <1>2, <1>3 DEF PadNext

LEMMA CommentKeeps == ASSUME PadInv, Comment PROVE PadInv'
  <1>1. UNCHANGED <<pad, pages, next>> BY DEF Comment
  <1>2. PICK w \in Width : comments' = Append(comments, w) BY DEF Comment
  <1>3. comments \in Chars BY DEF PadInv
  <1>4. /\ comments' \in Chars /\ Boundaries(comments) \subseteq Boundaries(comments')
        /\ Total(comments) < Total(comments')
    BY <1>2, <1>3, EndsStay
  <1>n. \A n : NoneFailed(n)' <=> NoneFailed(n) BY <1>1 DEF NoneFailed
  <1>5. PagesJoin' BY <1>1, <1>n, <1>4 DEF PadInv, PagesJoin
  <1>6. NextFollows'
    <2>1. Boundaries(comments) \subseteq Nat /\ Total(comments) \in Boundaries(comments) BY <1>3, PlacesAre
    <2>2. Boundaries(comments') \subseteq Nat /\ Total(comments') \in Boundaries(comments') BY <1>4, PlacesAre
    <2>3. Total(comments) \in Nat /\ Total(comments') \in Nat BY <2>1, <2>2
    <2>4. ASSUME next # -1, pages # << >>, NoneFailed(Len(pages)) PROVE next < Total(comments')
      <3>1. next < Total(comments) /\ next \in Nat BY <2>1, <2>4 DEF PadInv, NextFollows
      <3> QED BY <1>4, <2>3, <3>1
    <2>5. NoneFailed(Len(pages))' <=> NoneFailed(Len(pages)) BY <1>1 DEF NoneFailed
    <2> QED BY <1>1, <1>4, <2>4, <2>5 DEF PadInv, NextFollows
  <1> QED BY <1>1, <1>4, <1>5, <1>6 DEF PadInv

LEMMA ReadPageKeeps ==
  ASSUME PadInv, ReadPage, \A limit \in PageLimit, w \in Width : w <= limit PROVE PadInv'
  <1>1. next # -1 /\ UNCHANGED <<pad, comments>> BY DEF ReadPage
  <1>2. PICK limit \in PageLimit, failed \in BOOLEAN : \E text \in CommentsText(failed) :
          LET slice == SliceCommentText(text, next, limit)
          IN /\ pages' = Append(pages, [from |-> slice.from, to |-> slice.to, failed |-> failed])
             /\ next' = slice.next
    BY DEF ReadPage
  <1>p. PICK text \in CommentsText(failed) :
          LET slice == SliceCommentText(text, next, limit)
          IN /\ pages' = Append(pages, [from |-> slice.from, to |-> slice.to, failed |-> failed])
             /\ next' = slice.next
    BY <1>2
  <1> DEFINE slice == SliceCommentText(text, next, limit)
             page == [from |-> slice.from, to |-> slice.to, failed |-> failed]
             n == Len(pages)
  <1>3. limit \in Nat /\ \A w \in Width : w <= limit BY ScratchpadAssumption
  <1>4. comments \in Chars /\ pages \in Seq(PageRange) /\ n \in Nat BY DEF PadInv
  <1>t. text \in Chars /\ (~failed => text = comments) BY <1>4, TextsRead
  <1>r. next \in Nat BY <1>1 DEF PadInv, NextFollows
  <1>5. ASSUME NoneFailed(n)
        PROVE  /\ next \in Boundaries(comments)
               /\ next = (IF pages = << >> THEN 0 ELSE pages[n].to)
               /\ pages # << >> => next < Total(comments)
    BY <1>1, <1>5 DEF PadInv, NextFollows
  <1>6. ASSUME NoneFailed(n), ~failed
        PROVE  /\ slice.from = next /\ slice.to \in Boundaries(comments)
               /\ next < Total(comments) => next < slice.to
               /\ slice.next = IF slice.to < Total(comments) THEN slice.to ELSE -1
    BY <1>3, <1>4, <1>5, <1>6, <1>t, SliceIs
  <1>7. slice.from \in Nat /\ slice.to \in Nat /\ slice.next \in Nat \union {-1} BY <1>3, <1>r, <1>t, SliceRanges
  <1>8. pages' = Append(pages, page) /\ next' = slice.next BY <1>p
  <1> HIDE DEF slice
  <1>9. page \in PageRange /\ page.from = slice.from /\ page.to = slice.to /\ page.failed = failed
    BY <1>7 DEF PageRange
  <1> HIDE DEF page
  <1>10. /\ pages' \in Seq(PageRange) /\ Len(pages') = n + 1 /\ pages'[n + 1] = page
         /\ \A i \in 1 .. n : pages'[i] = pages[i]
    BY <1>4, <1>8, <1>9
  <1>11. pages = << >> <=> n = 0 BY <1>4
  <1>o. PagesJoin BY DEF PadInv
  <1> HIDE DEF n
  <1>f. ASSUME NEW i \in 1 .. n + 1, \A m \in 1 .. i : ~pages'[m].failed
        PROVE  /\ i \in 1 .. n => NoneFailed(i)
               /\ i = n + 1 => NoneFailed(n) /\ ~failed
    <2>1. \A m \in 1 .. i : ~pages'[m].failed BY <1>f
    <2>2. i \in 1 .. n => NoneFailed(i)
      <3>1. i \in 1 .. n => \A m \in 1 .. i : pages'[m] = pages[m] BY <1>4, <1>10
      <3> QED BY <2>1, <3>1 DEF NoneFailed
    <2>3. ASSUME i = n + 1 PROVE NoneFailed(n) /\ ~failed
      <3>1. \A m \in 1 .. n : m \in 1 .. i /\ pages'[m] = pages[m] BY <1>4, <1>10, <2>3
      <3>2. i \in 1 .. i BY <1>4
      <3> QED BY <1>9, <1>10, <2>1, <2>3, <3>1, <3>2 DEF NoneFailed
    <2> QED BY <2>2, <2>3
  <1>12. PagesJoin'
    <2>0. (Boundaries(comments))' = Boundaries(comments) BY <1>1
    <2> SUFFICES ASSUME NEW i \in 1 .. n + 1, \A m \in 1 .. i : ~pages'[m].failed
        PROVE  /\ pages'[i].from = (IF i = 1 THEN 0 ELSE pages'[i - 1].to)
               /\ pages'[i].from \in Boundaries(comments) /\ pages'[i].to \in Boundaries(comments)
               /\ i > 1 => pages'[i].from < pages'[i].to
      BY <1>10, <2>0 DEF PagesJoin, NoneFailed
    <2>1. CASE i = n + 1
      <3>0. NoneFailed(n) /\ ~failed BY <1>f, <2>1
      <3>1. pages'[i].from = next /\ pages'[i].to = slice.to BY <1>6, <1>9, <1>10, <2>1, <3>0
      <3>2. CASE n = 0
        <4>1. i = 1 /\ next = 0 BY <1>5, <1>11, <2>1, <3>0, <3>2
        <4> QED BY <1>5, <1>6, <3>0, <3>1, <4>1
      <3>3. CASE n # 0
        <4>1. i # 1 /\ i - 1 = n /\ n \in 1 .. n BY <1>4, <2>1, <3>3
        <4>2. pages'[i - 1].to = next BY <1>5, <1>10, <1>11, <3>0, <3>3, <4>1
        <4>3. next < slice.to BY <1>5, <1>6, <1>11, <3>0, <3>3
        <4> QED BY <1>5, <1>6, <3>0, <3>1, <4>1, <4>2, <4>3
      <3> QED BY <3>2, <3>3
    <2>2. CASE i # n + 1
      <3>1. i \in 1 .. n /\ (i # 1 => i - 1 \in 1 .. n) BY <1>4, <2>2
      <3>2. pages'[i] = pages[i] /\ (i # 1 => pages'[i - 1] = pages[i - 1]) BY <1>10, <3>1
      <3>3. NoneFailed(i) BY <1>f, <3>1
      <3>4. /\ pages[i].from = (IF i = 1 THEN 0 ELSE pages[i - 1].to)
            /\ pages[i].from \in Boundaries(comments) /\ pages[i].to \in Boundaries(comments)
            /\ i > 1 => pages[i].from < pages[i].to
        BY <1>o, <3>1, <3>3 DEF PagesJoin, n
      <3> QED BY <3>2, <3>4
    <2> QED BY <2>1, <2>2
  <1>13. NextFollows'
    <2>1. pages' # << >> /\ pages'[Len(pages')].to = slice.to
      <3>1. Len(pages') # 0 BY <1>4, <1>10
      <3> QED BY <1>9, <1>10, <3>1
    <2>2. next' \in Nat \union {-1} BY <1>7, <1>8
    <2>3. ASSUME next' # -1, \A m \in 1 .. n + 1 : ~pages'[m].failed
          PROVE  next' \in Boundaries(comments) /\ next' = slice.to /\ next' < Total(comments)
      <3>1. n + 1 \in 1 .. n + 1 BY <1>4
      <3>3. NoneFailed(n) /\ ~failed BY <1>f, <2>3, <3>1
      <3> QED BY <1>6, <1>8, <2>3, <3>3
    <2>4. NoneFailed(Len(pages))' => \A m \in 1 .. n + 1 : ~pages'[m].failed BY <1>10 DEF NoneFailed
    <2> QED BY <1>1, <2>1, <2>2, <2>3, <2>4 DEF NextFollows
  <1> QED BY <1>1, <1>4, <1>10, <1>12, <1>13 DEF PadInv

LEMMA PadInvStep ==
  ASSUME PadInv, [PadNext \/ CommentsNext]_padVars, \A limit \in PageLimit, w \in Width : w <= limit PROVE PadInv'
  <1>1. CASE UNCHANGED padVars BY <1>1 DEF padVars, PadInv, PagesJoin, NextFollows, NoneFailed
  <1>2. CASE PadNext BY <1>2, NotesKeep
  <1>3. CASE CommentsNext BY <1>3, ReadPageKeeps, CommentKeeps DEF CommentsNext
  <1> QED BY <1>1, <1>2, <1>3

\* Of the notes too old to be shown for their age, whoami shows the last that says a
\* task was paused; and it shows more than one note only if they fit.
THEOREM PausedWorkIsKept == PadSpec => []PausedWorkIsShown
  <1> DEFINE Notes == pad \in Seq(Entry \union {ProbeEntry})
  <1>1. PadInit => Notes BY DEF PadInit
  <1>2. Notes /\ [PadNext \/ CommentsNext]_padVars => Notes'
    <2> SUFFICES ASSUME Notes, [PadNext \/ CommentsNext]_padVars PROVE Notes' OBVIOUS
    <2>1. UNCHANGED pad \/ pad' = << >> \/ \E note \in Entry \union {ProbeEntry} : pad' = Append(pad, note)
      BY DEF padVars, PadNext, CommentsNext, ScratchAppend, ScratchAppended, ScratchClear, Invoke, ReadPage, Comment
    <2>2. CASE UNCHANGED pad BY <2>2
    <2>3. CASE pad' = << >> BY <2>3
    <2>4. CASE \E note \in Entry \union {ProbeEntry} : pad' = Append(pad, note) BY <2>4
    <2> QED BY <2>1, <2>2, <2>3, <2>4
  <1>3. Notes => PausedWorkIsShown BY NotesSpared
  <1> HIDE DEF Notes
  <1> QED BY <1>1, <1>2, <1>3, PTL DEF PadSpec

\* The pages of a bead's comments join up to the first whose command failed, and each
\* goes further than the one before, if none is asked for that has no room for a
\* character.
THEOREM CommentPagesJoin ==
  ASSUME \A limit \in PageLimit, w \in Width : w <= limit
  PROVE  PadSpec => []PagesAddUp
  <1>1. PadInv => PagesAddUp
    <2> SUFFICES ASSUME PadInv PROVE PagesAddUp OBVIOUS
    <2>1. DOMAIN pages = 1 .. Len(pages) /\ Len(pages) \in Nat BY DEF PadInv
    <2>2. \A n \in DOMAIN pages : NoneFailed(n) =>
            /\ pages[n].from = (IF n = 1 THEN 0 ELSE pages[n - 1].to)
            /\ {pages[n].from, pages[n].to} \subseteq Boundaries(comments)
            /\ n > 1 => pages[n].from < pages[n].to
      BY <2>1 DEF PadInv, PagesJoin
    <2>3. ASSUME next = -1, NoneFailed(Len(pages)) PROVE \E m \in 0 .. Len(comments) : pages[Len(pages)].to = EndsAt(comments)[m]
      <3>1. Len(pages) \in 1 .. Len(pages) BY <2>1, <2>3 DEF PadInv, NextFollows
      <3>2. pages[Len(pages)].to \in Boundaries(comments) BY <2>3, <3>1 DEF PadInv, PagesJoin
      <3> QED BY <3>2 DEF Boundaries
    <2> QED BY <2>2, <2>3 DEF PagesAddUp
  <1>2. PadInv /\ [PadNext \/ CommentsNext]_padVars => PadInv' BY PadInvStep
  <1> QED BY <1>1, <1>2, PadInvInit, PTL DEF PadSpec
=============================================================================
