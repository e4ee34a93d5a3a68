--------------------------- MODULE FeedbackRecords ---------------------------
(***************************************************************************)
(* Feedback records (lib/feedback.ts, bead_feedback and feedback_edit of    *)
(* routes/mcp.ts): one file a record, edited in place. An edit keeps the    *)
(* version it replaces as a snapshot that is created exclusively, then      *)
(* renames a new file over the record, then reads both back. Each step is   *)
(* a call on the file system, and several processes may edit one directory. *)
(***************************************************************************)
EXTENDS Integers, Sequences, FiniteSets

CONSTANTS
  Editor,      \* processes that edit
  Filename,    \* names of records; a name never comes up twice
  ShortId,     \* filename -> the short id it ends in
  Words,       \* texts
  MaxEdits,    \* bound on filings and edits
  MaxBroken    \* bound on calls on files that fail and processes that die

VARIABLES
  record,      \* filename -> document, of the records there are
  history,     \* <<filename, revision>> -> document, of the snapshots there are
  editor,      \* what each process is doing
  edits,       \* how many filings and edits there were; it dates them
  broken,      \* how many calls failed
  was          \* every document that ever was a record, with its filename

feedbackVars == <<record, history, editor, edits, broken, was>>

\* A document: the revision of its frontmatter, when it was written, and its body.
Doc(revision, at, body) == [revision |-> revision, at |-> at, body |-> body]
Torn == Doc(-1, 0, << >>)   \* the beginning of a file whose write was cut
NotEditing == [pc |-> "idle"]

FeedbackInit ==
  /\ record = << >> /\ history = << >>
  /\ editor = [e \in Editor |-> NotEditing]
  /\ edits = 0 /\ broken = 0 /\ was = {}

With(f, x, v) == [y \in DOMAIN f \union {x} |-> IF y = x THEN v ELSE f[y]]
Without(f, x) == [y \in DOMAIN f \ {x} |-> f[y]]
BreaksDown == broken < MaxBroken /\ broken' = broken + 1
Works == UNCHANGED broken
Ends(e, outcome) == editor' = [editor EXCEPT ![e] = [pc |-> "idle", outcome |-> outcome]]
OnWith(e, pc) == editor' = [editor EXCEPT ![e].pc = pc]

\* bead_feedback writes a new record, or is refused for the bead it names.
File(e) ==
  /\ editor[e].pc = "idle" /\ edits < MaxEdits /\ edits' = edits + 1
  /\ \/ Ends(e, "refused") /\ Works /\ UNCHANGED <<record, was>>
     \/ \E f \in Filename \ DOMAIN record, text \in Words :
          LET doc == Doc(0, edits, <<text>>)
          IN \/ /\ Works /\ Ends(e, "filed")
                /\ record' = With(record, f, doc) /\ was' = was \union {<<f, doc>>}
             \/ /\ BreaksDown /\ Ends(e, "failed")
                /\ record' = With(record, f, Torn) /\ UNCHANGED was
  /\ UNCHANGED history

\* The records a reference names: by their name, or by the short id they end in.
Resolved(ref) == {f \in DOMAIN record : ref \in {f, ShortId[f]}}

NewBody(prior, mode, text) == IF mode = "append" THEN Append(prior.body, text) ELSE <<text>>

\* feedback_edit finds the one record meant and reads it.
Read(e) ==
  /\ editor[e].pc = "idle" /\ edits < MaxEdits /\ edits' = edits + 1
  /\ \E ref \in Filename \union {ShortId[f] : f \in Filename},
       mode \in {"replace", "append"}, text \in Words :
       IF \E f \in Resolved(ref) : Resolved(ref) = {f} /\ record[f] # Torn
         THEN LET f == CHOOSE f \in Resolved(ref) : TRUE
              IN editor' = [editor EXCEPT ![e] =
                   [pc |-> "archive", f |-> f, prior |-> record[f],
                    next |-> Doc(record[f].revision + 1, edits, NewBody(record[f], mode, text))]]
         ELSE Ends(e, "refused")
  /\ UNCHANGED <<record, history, broken, was>>

Snapshot(e) == <<editor[e].f, editor[e].prior.revision>>

\* Mutant: the snapshot is written over the one that is there.
ArchiveOver(e) ==
  /\ editor[e].pc = "archive"
  /\ history' = With(history, Snapshot(e), editor[e].prior) /\ OnWith(e, "replace") /\ Works
  /\ UNCHANGED <<record, edits, was>>

\* The version to be replaced is kept; a snapshot that is there already means
\* that someone else took this revision. A write that fails may leave a part.
Archive(e) ==
  /\ editor[e].pc = "archive"
  /\ LET s == Snapshot(e)
     IN IF s \in DOMAIN history
          THEN Ends(e, "concurrent") /\ Works /\ UNCHANGED history
          ELSE \/ history' = With(history, s, editor[e].prior) /\ OnWith(e, "replace") /\ Works
               \/ /\ BreaksDown /\ Ends(e, "failed")
                  /\ (UNCHANGED history \/ history' = With(history, s, Torn))
  /\ UNCHANGED <<record, edits, was>>

\* The new version is renamed over the record. If that fails the snapshot is
\* removed again, which may fail as well.
Replace(e) ==
  /\ editor[e].pc = "replace"
  /\ LET f == editor[e].f
     IN \/ /\ Works /\ OnWith(e, "verify")
           /\ record' = With(record, f, editor[e].next)
           /\ was' = was \union {<<f, editor[e].next>>}
           /\ UNCHANGED history
        \/ /\ BreaksDown /\ Ends(e, "failed")
           /\ (history' = Without(history, Snapshot(e)) \/ UNCHANGED history)
           /\ UNCHANGED <<record, was>>
  /\ UNCHANGED edits

\* The save is reported if the record and the snapshot read back as written.
Verify(e) ==
  /\ editor[e].pc = "verify"
  /\ LET f == editor[e].f
         back == /\ record[f].body = editor[e].next.body
                 /\ record[f].revision = editor[e].next.revision
                 /\ Snapshot(e) \in DOMAIN history /\ history[Snapshot(e)] = editor[e].prior
     IN Ends(e, IF back THEN "saved" ELSE "unsure")
  /\ UNCHANGED <<record, history, edits, broken, was>>

\* The process dies between two calls, or in the middle of the snapshot.
Die(e) ==
  /\ editor[e].pc \in {"archive", "replace", "verify"} /\ BreaksDown
  /\ editor' = [editor EXCEPT ![e] = NotEditing]
  /\ \/ UNCHANGED history
     \/ /\ editor[e].pc = "archive" /\ Snapshot(e) \notin DOMAIN history
        /\ history' = With(history, Snapshot(e), Torn)
  /\ UNCHANGED <<record, edits, was>>

FeedbackNext ==
  \E e \in Editor : File(e) \/ Read(e) \/ Archive(e) \/ Replace(e) \/ Verify(e) \/ Die(e)

FeedbackSpec == FeedbackInit /\ [][FeedbackNext]_feedbackVars

---------------------------------------------------------------------------
\* No version is lost: whatever was ever the text of a record is the record
\* still or is kept, whole, under its revision, whoever edits at once and
\* wherever an edit fails or dies (feedback.ts:64-69).
AuditTrailWhole ==
  \A w \in was :
    LET f == w[1] doc == w[2] kept == <<f, doc.revision>>
    IN  record[f] = doc \/ (kept \in DOMAIN history /\ history[kept] = doc)

\* Whoever is told that a record was edited concurrently, and to read it again
\* and retry, finds it changed, or finds the edit that is under way. It is not
\* so: a snapshot left behind by an edit that died or failed refuses every
\* later edit in these words.
RefusedForAnEdit ==
  \A e \in Editor :
    editor[e] = [pc |-> "idle", outcome |-> "concurrent"] =>
      \A kept \in DOMAIN history :
        \/ record[kept[1]].revision > kept[2]
        \/ \E o \in Editor : editor[o].pc \in {"replace", "verify"} /\ Snapshot(o) = kept
=============================================================================
