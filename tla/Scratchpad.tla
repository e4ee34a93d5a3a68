------------------------------ MODULE Scratchpad ------------------------------
(***************************************************************************)
(* The scratchpad (lib/scratchpad.ts), what whoami shows of it             *)
(* (lib/whoami.ts), and the capability tool (lib/wildcard.ts), of which one *)
(* capability writes to it and one shows a bead's comments page by page    *)
(* (lib/comments-slice.ts).                                                 *)
(***************************************************************************)
EXTENDS Integers, Sequences, SequencesExt, FiniteSets, FiniteSetsExt, Ordered

CONSTANTS
  Size,            \* sizes of entries
  MaxNotes,        \* bound on the entries
  NotesMaxEntries, NotesMaxResume, NotesMaxBytes,   \* WHOAMI_NOTES_MAX_*
  Width,           \* sizes of characters, in bytes
  PageLimit,           \* page sizes asked for
  MaxChars,        \* bound on the characters of the comments
  ErrorText,       \* what a command may say of its failure, in widths of characters
  MaxPadFaults     \* bound on reads and writes that fail

\* Some entries are shown for their age, and some for what they say.
ASSUME ScratchpadAssumption ==
  /\ {NotesMaxEntries, NotesMaxResume} \subseteq Nat \ {0}
  /\ Width \subseteq Nat \ {0} /\ PageLimit \subseteq Nat /\ ErrorText \subseteq Seq(Width)

VARIABLES
  pad,        \* the entries; one is [strong, weak, size], by the words in it
  answer,     \* what the last call answered
  comments,   \* the comments of the bead: the widths of its characters
  pages,      \* the pages read so far, [from, to, failed], in bytes
  next,       \* the offset to go on from, -1 at the end
  padFaults

padVars == <<pad, answer, comments, pages, next, padFaults>>

Entry == [strong : BOOLEAN, weak : BOOLEAN, size : Size]
ProbeEntry == [strong |-> FALSE, weak |-> FALSE, size |-> 1]

PadInit ==
  /\ pad = << >> /\ answer = "none"
  /\ comments = << >> /\ pages = << >> /\ next = 0
  /\ padFaults = 0

PadFault == padFaults < MaxPadFaults /\ padFaults' = padFaults + 1
NoPadFault == UNCHANGED padFaults
KeepsComments == UNCHANGED <<comments, pages, next>>

---------------------------------------------------------------------------
\* The whole file is read and written back with the entry at its end.
ScratchAppended(entry) ==
  \/ /\ Len(pad) < MaxNotes /\ pad' = Append(pad, entry)
     /\ answer' = "noted" /\ NoPadFault
  \/ PadFault /\ answer' = "failed" /\ UNCHANGED pad

ScratchAppend == \E entry \in Entry : ScratchAppended(entry) /\ KeepsComments

\* Entries that cannot be read are cleared all the same.
ScratchClear ==
  /\ pad # << >>
  /\ \/ pad' = << >> /\ NoPadFault /\ answer' = "cleared"
     \/ PadFault /\ pad' = << >> /\ answer' = "cleared none"
     \/ PadFault /\ UNCHANGED pad /\ answer' = "failed"
  /\ KeepsComments

---------------------------------------------------------------------------
\* The k highest of a set of places.
Latest(k, S) == {o \in S : Cardinality({p \in S : p > o}) < k}

NewestNotes(all) == Latest(NotesMaxEntries, DOMAIN all)
StrongNotes(all) == Latest(NotesMaxResume, {o \in DOMAIN all \ NewestNotes(all) : all[o].strong})
WeakNotes(all) ==
  Latest(NotesMaxResume - Cardinality(StrongNotes(all)),
       {o \in DOMAIN all \ (NewestNotes(all) \union StrongNotes(all)) : all[o].weak})

Bytes(all, sel) == MapThenSumSet(LAMBDA o : all[o].size + 1, sel) - 1

\* Mutant: the older entries that say a task was paused are not spared.
EvictionOldest(all) ==
  Ascending(WeakNotes(all)) \o Ascending(NewestNotes(all) \union StrongNotes(all))
\* What goes first when it is too much: older entries with a weak marker, then
\* the newest entries from their oldest, then the older ones with a strong one.
Eviction(all) ==
  Ascending(WeakNotes(all)) \o Ascending(NewestNotes(all)) \o Ascending(StrongNotes(all))

\* The places of the entries whoami shows: as few go as must, and one stays,
\* cut to the size if it is too long by itself.
SelectWhoamiNotes(all) ==
  LET order == Eviction(all)
      left(k) == {order[n] : n \in (k + 1)..Len(order)}
      enough == {k \in 0..(Len(order) - 1) : Bytes(all, left(k)) <= NotesMaxBytes \/ k = Len(order) - 1}
  IN IF all = << >> THEN {} ELSE left(Min(enough))

---------------------------------------------------------------------------
Param(name, required) == [name |-> name, required |-> required]
Registry == {
  [id |-> "resume_resolve", effect |-> "read", params |-> {Param("manifest_id", TRUE)}],
  [id |-> "echo_probe", effect |-> "read", params |-> {Param("message", TRUE)}],
  [id |-> "write_probe", effect |-> "write", params |-> {Param("note", TRUE)}],
  [id |-> "bead_show", effect |-> "read",
   params |-> {Param("id", TRUE), Param("offset", FALSE), Param("limit", FALSE)}]}

\* Exact, but for one alias.
FindWildcard(id) == {d \in Registry : d.id = id \/ (id = "bead_comments" /\ d.id = "bead_show")}

\* A payload gives nothing, values of the right type, some of the wrong type or
\* out of their bounds, some for a parameter that is not known, or too much.
ValidPayload(def, payload) ==
  \/ payload = "right"
  \/ payload = "none" /\ \A p \in def.params : ~p.required

\* Capability invoke, for those that do not page comments.
Invoke ==
  /\ \E id \in {"resume_resolve", "echo_probe", "write_probe", "echo"},
       payload \in {"none", "right", "wrong", "unknown", "large"} :
       LET found == FindWildcard(id)
       IN IF \A d \in found : ~ValidPayload(d, payload)
            THEN /\ answer' = IF found = {} THEN "unknown_capability"
                              ELSE IF payload = "large" THEN "payload_too_large" ELSE "invalid_payload"
                 /\ UNCHANGED pad /\ NoPadFault
            ELSE \/ /\ id = "resume_resolve" /\ answer' = "failed" /\ UNCHANGED pad /\ NoPadFault
                 \/ /\ id = "echo_probe" /\ answer' = "echo" /\ UNCHANGED pad /\ NoPadFault
                 \/ id = "write_probe" /\ ScratchAppended(ProbeEntry)
  /\ KeepsComments

---------------------------------------------------------------------------
\* Where the first n characters end.
EndsAt(text) ==
  LET end[n \in 0..Len(text)] == IF n = 0 THEN 0 ELSE end[n - 1] + text[n]
  IN end

Total(text) == EndsAt(text)[Len(text)]
Boundaries(text) == {EndsAt(text)[n] : n \in 0..Len(text)}

\* Mutant: a byte offset is taken as it is.
BoundaryAny(text, i) == IF i >= Total(text) THEN Total(text) ELSE i
\* The last place at or before the byte that no character lies across.
AdjustToUtf8Boundary(text, i) == Max({b \in Boundaries(text) : b <= i})

Within(lo, hi, x) == IF x < lo THEN lo ELSE IF x > hi THEN hi ELSE x

SliceCommentText(text, offset, limit) ==
  LET start == AdjustToUtf8Boundary(text, Within(0, Total(text), offset))
      end == AdjustToUtf8Boundary(text, Within(start, Total(text), start + limit))
  IN [from |-> start, to |-> end, next |-> IF end < Total(text) THEN end ELSE -1]

\* The text a page is cut from: the comments, or, when their command fails, what
\* it had put out by then or what it says of its failure. Nothing in the answer
\* tells the one from the other.
CommentsText(failed) ==
  IF failed THEN {SubSeq(comments, 1, n) : n \in 1..Len(comments)} \union ErrorText
  ELSE {comments}

\* A page of the comments is read, from where the one before ended.
ReadPage ==
  /\ next # -1
  /\ \E limit \in PageLimit, failed \in BOOLEAN :
       \E text \in CommentsText(failed) :
         LET slice == SliceCommentText(text, next, limit)
         IN /\ pages' = Append(pages, [from |-> slice.from, to |-> slice.to, failed |-> failed])
            /\ next' = slice.next
            /\ IF failed THEN PadFault ELSE NoPadFault
  /\ answer' = "page"
  /\ UNCHANGED <<pad, comments>>

\* A comment is added to the bead; a character of it.
Comment ==
  /\ Len(comments) < MaxChars /\ \E w \in Width : comments' = Append(comments, w)
  /\ UNCHANGED <<pad, answer, pages, next, padFaults>>

\* Nothing of the scratchpad has to do with the comments of a bead.
PadNext == ScratchAppend \/ ScratchClear \/ Invoke
CommentsNext == ReadPage \/ Comment

PadSpec == PadInit /\ [][PadNext \/ CommentsNext]_padVars

---------------------------------------------------------------------------
\* Whatever whoami must leave out, it shows the last entry that says a task was
\* paused among those too old to be shown for their age, and no more than fits
\* (whoami.ts:20-24, 136-139).
PausedWorkIsShown ==
  LET sel == SelectWhoamiNotes(pad)
      paused == {o \in DOMAIN pad \ NewestNotes(pad) : pad[o].strong}
  IN /\ paused # {} => Max(paused) \in sel
     /\ Cardinality(sel) > 1 => Bytes(pad, sel) <= NotesMaxBytes

\* The last entry that says so is shown, also if it is one of the newest. It is
\* not so: the newest entries are let go from their oldest, whatever they say.
LastPauseIsShown ==
  LET paused == {o \in DOMAIN pad : pad[o].strong}
  IN paused # {} => Max(paused) \in SelectWhoamiNotes(pad)

\* The pages up to the first whose command failed are the comments, without a
\* gap, without a character cut in two or read twice; each page goes further
\* than the one before, and where none failed the last ends at the end of a
\* character (wildcard.ts:175-179). From a failed one on nothing is said: see
\* LoopLosesNothing.
NoneFailed(n) == \A m \in 1..n : ~pages[m].failed
PagesAddUp ==
  /\ \A n \in DOMAIN pages : NoneFailed(n) =>
       /\ pages[n].from = (IF n = 1 THEN 0 ELSE pages[n - 1].to)
       /\ {pages[n].from, pages[n].to} \subseteq Boundaries(comments)
       /\ n > 1 => pages[n].from < pages[n].to
  /\ next = -1 /\ NoneFailed(Len(pages)) =>
       \E m \in 0..Len(comments) : pages[Len(pages)].to = EndsAt(comments)[m]

\* The characters of the comments that some page shows.
ShownCharacters ==
  {m \in 1..Len(comments) :
     \E n \in DOMAIN pages : /\ ~pages[n].failed
                            /\ pages[n].from <= EndsAt(comments)[m - 1]
                            /\ EndsAt(comments)[m] <= pages[n].to}

=============================================================================
