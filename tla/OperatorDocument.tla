-------------------------- MODULE OperatorDocument --------------------------
(***************************************************************************)
(* What the operator told the bridge about themselves: the profile of      *)
(* identity_update (lib/whoami.ts) and the personality document            *)
(* (lib/personality.ts), two files of one process. Fields that used to     *)
(* live in the profile move into the document when it is first made: the   *)
(* document is written, then the fields are cleared, then the call that    *)
(* came by does its own work. A file that cannot be read counts as one     *)
(* that is not there, and a write empties its file before it fills it.     *)
(***************************************************************************)
EXTENDS Integers, Sequences, SequencesExt, FiniteSets, Ordered

CONSTANTS
  Field,         \* fields of the profile
  MigratedField, \* those that belong in the document, in the order they go there
  Note,          \* what the operator may say
  Unset,         \* no value
  PersonalityMax,\* bound on the document's lines, PERSONALITY_MAX_CHARS
  ReadsFirst,    \* the operator reads the document before replacing it
  MaxTold,       \* bound on the calls
  MaxFileFaults  \* bound on reads and writes that fail and processes that die

ASSUME DocumentAssumption == MigratedField \in Seq(Field)

VARIABLES
  made,      \* there is a document; it may have been left empty
  document,  \* its lines
  profile,   \* field -> value; there is none in a file that does not parse
  telling,   \* the call that is being served
  told,      \* how many calls there were
  fileFaults,
  kept       \* history: what was told, and neither taken back nor lost with a file since

documentVars == <<made, document, profile, telling, told, fileFaults, kept>>

\* A line: a heading of some level, or text at level 0.
Line(level, text) == [level |-> level, text |-> text]
Heading(text) == Line(2, text)
Text(text) == Line(0, text)
BlankLine == Text("")
NoLines == << >>
NoProfile == [f \in Field |-> Unset]

Default == <<Line(1, "Operator personality"), Heading("Speaking preferences"), Text("(unset)"),
             Heading("Action repertoire"), Text("(offer)")>>

DocumentInit ==
  /\ made = FALSE /\ document = NoLines /\ profile = NoProfile
  /\ telling = [pc |-> "idle"] /\ told = 0 /\ fileFaults = 0 /\ kept = {}

FileFaults(n) == fileFaults + n <= MaxFileFaults /\ fileFaults' = fileFaults + n
NoFileFault == UNCHANGED fileFaults
Tell(pc) == telling' = [telling EXCEPT !.pc = pc]
Told == telling' = [pc |-> "idle"]

TextsOf(lines) == {l.text : l \in {m \in Range(lines) : m.level = 0}}

\* What is gone with one of the files.
OnlyInDocument == TextsOf(document) \ Range(profile)
OnlyInProfile == Range(profile) \ TextsOf(document)

\* What a write that was cut off leaves; a line that is cut says nothing. One
\* that fails or is killed when all is there has written the document.
Beginnings(lines) == {SubSeq(lines, 1, n) : n \in 0 .. Len(lines) - 1}

---------------------------------------------------------------------------
\* A call of personality_*, whoami or start_session. Whoever replaces the
\* document is told to read it first.
AskDocument ==
  /\ telling.pc = "idle" /\ told < MaxTold /\ told' = told + 1
  /\ \E tool \in {"read", "replace", "append", "section"}, text \in Note,
       heading \in {"Speaking preferences", "Operator notes"} :
       /\ (tool = "replace" /\ ReadsFirst) => made
       /\ telling' = [pc |-> "ensure", tool |-> tool, text |-> text, heading |-> heading,
                      seen |-> TextsOf(document)]
  /\ UNCHANGED <<made, document, profile, fileFaults, kept>>

\* updateProfile: the profile is read again, the fields of the patch are merged
\* into it, an empty one clears, and the file is written.
Patched(p, patch) ==
  [f \in Field |-> IF f \notin DOMAIN patch THEN p[f] ELSE patch[f]]

\* A profile that cannot be read is empty, and the patch is all there is then.
ProfileUpdated(patch, takenBack, given) ==
  \/ /\ NoFileFault /\ profile' = Patched(profile, patch)
     /\ kept' = (kept \ takenBack) \union given
  \/ /\ FileFaults(1) /\ profile' = Patched(NoProfile, patch)
     /\ kept' = ((kept \ takenBack) \ OnlyInProfile) \union given

\* The write fails before the file is emptied, or after: what is cut off does
\* not parse.
ProfileNotUpdated ==
  /\ FileFaults(1)
  /\ \/ UNCHANGED <<profile, kept>>
     \/ profile' = NoProfile /\ kept' = kept \ OnlyInProfile

IdentityUpdate ==
  /\ telling.pc = "idle" /\ told < MaxTold /\ told' = told + 1
  /\ \/ \E f \in Field, v \in Note \union {Unset} :
          ProfileUpdated([g \in {f} |-> v], {profile[f]}, {v} \ {Unset})
     \/ ProfileNotUpdated
  /\ UNCHANGED <<made, document, telling>>

\* Mutant: only the notes go over.
MigratedNotes(p) ==
  IF p["notes"] = Unset THEN << >> ELSE <<Line(3, "Operator notes"), Text(p["notes"])>>
\* The fields that are set, each under a heading of its own.
Migrated(p) ==
  LET set == PickedAt(MigratedField, {n \in DOMAIN MigratedField : p[MigratedField[n]] # Unset})
      title(f) == IF f = "notes" THEN "Operator notes" ELSE f
  IN [k \in 1 .. 2 * Len(set) |->
        IF k % 2 = 1 THEN Line(3, title(set[(k + 1) \div 2])) ELSE Text(p[set[k \div 2]])]

MigrationSection(p) ==
  IF Migrated(p) = << >> THEN << >>
  ELSE <<BlankLine, Heading("Migrated from operator profile")>> \o Migrated(p)

WithinCap(lines) == Len(lines) <= PersonalityMax

\* The default and what the profile holds are written, over a document that is
\* there but could not be read, too: who came to replace that one has not read
\* what is put in its place.
Remade(unread) ==
  LET section == IF "profile" \in unread THEN << >> ELSE MigrationSection(profile)
      doc == Default \o section
      faults == Cardinality(unread)
  IN IF ~WithinCap(doc) THEN FileFaults(faults) /\ Told /\ UNCHANGED <<made, document, kept>>
     ELSE \/ /\ FileFaults(faults)
             /\ made' = TRUE /\ document' = doc /\ kept' = kept \ OnlyInDocument
             /\ telling' = [telling EXCEPT !.pc = IF section = << >> THEN "do" ELSE "clear",
                                           !.seen = IF made THEN TextsOf(doc) ELSE @]
          \/ /\ FileFaults(faults + 1) /\ Told
             /\ \/ UNCHANGED <<made, document, kept>>
                \/ made' = TRUE /\ document' \in Beginnings(doc) /\ kept' = kept \ OnlyInDocument

\* ensurePersonality: a document that is not there yet is made; what it took over
\* from the profile is cleared there next.
Ensure ==
  /\ telling.pc = "ensure"
  /\ \/ made /\ Tell("do") /\ NoFileFault /\ UNCHANGED <<made, document, kept>>
     \/ \E unread \in SUBSET {"document", "profile"} :
          (made <=> "document" \in unread) /\ Remade(unread)
  /\ UNCHANGED <<profile, told>>

Clear ==
  /\ telling.pc = "clear"
  /\ \/ ProfileUpdated([f \in Range(MigratedField) |-> Unset], {}, {}) /\ Tell("do")
     \/ ProfileNotUpdated /\ Told
  /\ UNCHANGED <<made, document, told>>

---------------------------------------------------------------------------
TrimmedEnd(lines) ==
  LET full == {n \in DOMAIN lines : lines[n] # BlankLine}
  IN SubSeq(lines, 1, IF full = {} THEN 0 ELSE CHOOSE n \in full : \A m \in full : m <= n)

\* No two blank lines in a row, anywhere in the document.
Collapsed(lines) ==
  PickedAt(lines, {n \in DOMAIN lines : ~(lines[n] = BlankLine /\ n > 1 /\ lines[n - 1] = BlankLine)})

\* The section under the heading's first place in the document: it goes up to
\* the next heading that is not below it. << >> if there is none.
SectionOf(lines, heading) ==
  LET at == {n \in DOMAIN lines : lines[n].level > 0 /\ lines[n].text = heading}
      first == CHOOSE n \in at : \A m \in at : n <= m
      ends == {n \in DOMAIN lines : n > first /\ lines[n].level \in 1..lines[first].level}
  IN IF at = {} THEN << >>
     ELSE <<first, IF ends = {} THEN Len(lines) + 1 ELSE CHOOSE n \in ends : \A m \in ends : n <= m>>

\* The new document of each tool, and what the operator took back with it.
Replaced(text) == <<Text(text)>>
Appended(lines, text) == TrimmedEnd(lines) \o <<BlankLine, Text(text)>>
Edited(lines, s, text) ==
  Collapsed(SubSeq(lines, 1, s[1]) \o <<BlankLine, Text(text), BlankLine>>
            \o SubSeq(lines, s[2], Len(lines)))

Save(doc, dropped) ==
  IF ~WithinCap(doc) THEN NoFileFault /\ UNCHANGED <<document, kept>>
  ELSE \/ /\ NoFileFault /\ document' = doc
          /\ kept' = (kept \ dropped) \union {telling.text}
       \/ /\ FileFaults(1)
          /\ \/ UNCHANGED <<document, kept>>
             \/ document' \in Beginnings(doc) /\ kept' = kept \ OnlyInDocument

Serve ==
  /\ telling.pc = "do" /\ Told
  /\ \/ telling.tool = "read" /\ NoFileFault /\ UNCHANGED <<document, kept>>
     \/ /\ telling.tool = "replace"
        /\ Save(Replaced(telling.text), telling.seen \ Range(profile))
     \/ telling.tool = "append" /\ Save(Appended(document, telling.text), {})
     \/ /\ telling.tool = "section"
        /\ LET s == SectionOf(document, telling.heading)
           IN IF s = << >> THEN NoFileFault /\ UNCHANGED <<document, kept>>
              ELSE Save(Edited(document, s, telling.text),
                        TextsOf(SubSeq(document, s[1], s[2] - 1)) \ Range(profile))
  /\ UNCHANGED <<made, profile, told>>

\* The process dies between two writes, or one that was all there is said to
\* have failed.
DieTelling ==
  /\ telling.pc \in {"clear", "do"} /\ FileFaults(1) /\ Told
  /\ UNCHANGED <<made, document, profile, told, kept>>

DocumentNext == AskDocument \/ IdentityUpdate \/ Ensure \/ Clear \/ Serve \/ DieTelling

DocumentSpec == DocumentInit /\ [][DocumentNext]_documentVars

---------------------------------------------------------------------------
\* What the operator said is in the profile or in the document until they
\* replace it, clear it or rewrite the section it is in: it is not lost when it
\* moves from one file to the other, wherever that breaks off. A read or a
\* write that fails takes no more than what its own file alone held, and a
\* replacement that could not read the document no more than what it moved
\* there; what both files say, or the other one, stays (personality.ts:98-100,
\* routes/mcp.ts:1036-1041).
ToldIsKept ==
  kept \subseteq Range(profile) \union TextsOf(document)
=============================================================================
