--------------------------- MODULE SurfacesProofs ---------------------------
(***************************************************************************)
(* What the smaller surfaces keep, for any number of callers: the feedback *)
(* records, the routes that write without MCP, the follow-ups and the      *)
(* live page.  They share no variable; each                                *)
(* has its part of the module, which begins with why its invariant holds.  *)
(***************************************************************************)
EXTENDS FeedbackRecords, WriteRoutes, FollowUps, Live, SequenceTheorems, TLAPS

---------------------------------------------------------------------------
(* FeedbackRecords: an edit that is about to replace a record has made the  *)
(* snapshot of its present version, and is the only one that has; an edit   *)
(* that comes too late finds that snapshot in its way.                      *)

Editing(e) == editor[e].pc # "idle"
AtRisk(e) == editor[e].pc = "replace"

\* Revisions are numbers, and whoever edits knows of what.
Shapes ==
  /\ editor = [e \in Editor |-> editor[e]]
  /\ \A f \in DOMAIN record : record[f].revision \in Int
  /\ \A e \in Editor : Editing(e) =>
       /\ editor[e] = [pc |-> editor[e].pc, f |-> editor[e].f,
                       prior |-> editor[e].prior, next |-> editor[e].next]
       /\ editor[e].f \in DOMAIN record
       /\ editor[e].next.revision = editor[e].prior.revision + 1
       /\ <<editor[e].f, editor[e].prior>> \in was

\* What was ever filed is known, and the record is the latest of it.
Latest ==
  /\ \A f \in DOMAIN record : record[f] # Torn => <<f, record[f]>> \in was
  /\ \A w \in was :
       /\ w = <<w[1], w[2]>> /\ w[1] \in DOMAIN record
       /\ w[2].revision \in Int /\ w[2].revision <= record[w[1]].revision
       /\ w[2].revision = record[w[1]].revision => w[2] = record[w[1]]

\* An edit that has its snapshot replaces the version it has read, and no two
\* have the same; one that has none yet still sees that version, or is too late.
Guarded ==
  /\ \A e \in Editor : AtRisk(e) =>
       /\ Snapshot(e) \in DOMAIN history /\ history[Snapshot(e)] = editor[e].prior
       /\ record[editor[e].f] = editor[e].prior
  /\ \A e, o \in Editor : AtRisk(e) /\ AtRisk(o) /\ Snapshot(e) = Snapshot(o) => e = o
  /\ \A e \in Editor : editor[e].pc = "archive" =>
       record[editor[e].f] = editor[e].prior \/ Snapshot(e) \in DOMAIN history

FeedbackInv == Shapes /\ Latest /\ Guarded /\ AuditTrailWhole

LEMMA FeedbackInitial == FeedbackInit => FeedbackInv
  BY DEF FeedbackInit, FeedbackInv, Shapes, Latest, Guarded, AuditTrailWhole, NotEditing, Editing, AtRisk

\* An edit that is over asks for nothing any more.
LEMMA EndsKeeps ==
  ASSUME FeedbackInv, NEW e \in Editor, NEW at, at.pc = "idle",
         editor' = [editor EXCEPT ![e] = at], UNCHANGED <<record, history, was>>
  PROVE FeedbackInv'
  <1> USE DEF FeedbackInv, Editing, AtRisk, Snapshot
  <1>1. \A o \in Editor : editor'[o] = IF o = e THEN at ELSE editor[o]
    BY DEF Shapes
  <1>2. Shapes' BY <1>1 DEF Shapes
  <1>3. Latest' BY DEF Latest
  <1>4. Guarded' BY <1>1 DEF Guarded
  <1>5. AuditTrailWhole' BY DEF AuditTrailWhole
  <1> QED BY <1>2, <1>3, <1>4, <1>5

\* Nor does a snapshot that stays behind torn, where none was.
LEMMA TornKeeps ==
  ASSUME FeedbackInv, NEW e \in Editor, NEW at, at.pc = "idle", editor[e].pc = "archive",
         editor' = [editor EXCEPT ![e] = at], UNCHANGED <<record, was>>,
         Snapshot(e) \notin DOMAIN history, history' = With(history, Snapshot(e), Torn)
  PROVE FeedbackInv'
  <1> DEFINE s == Snapshot(e)
  <1>1. \A o \in Editor : editor'[o] = IF o = e THEN at ELSE editor[o]
    BY DEF FeedbackInv, Shapes
  <1>2. \A t \in DOMAIN history : t \in DOMAIN history' /\ history'[t] = history[t]
    BY DEF With
  <1> USE DEF FeedbackInv, Editing, AtRisk
  <1>3. Shapes' BY <1>1 DEF Shapes
  <1>4. Latest' BY DEF Latest
  <1>5. Guarded' BY <1>1, <1>2 DEF Guarded, Snapshot
  <1>6. AuditTrailWhole' BY <1>2 DEF AuditTrailWhole
  <1> QED BY <1>3, <1>4, <1>5, <1>6

LEMMA FileKeeps ==
  ASSUME FeedbackInv, NEW e \in Editor, File(e)
  PROVE FeedbackInv'
  <1>1. CASE UNCHANGED <<record, was>>
    BY <1>1, EndsKeeps DEF File, Ends
  <1>2. CASE ~UNCHANGED <<record, was>>
    <2>1. PICK f \in Filename \ DOMAIN record, text \in Words :
            \/ /\ Ends(e, "filed")
               /\ record' = With(record, f, Doc(0, edits, <<text>>))
               /\ was' = was \cup {<<f, Doc(0, edits, <<text>>)>>}
            \/ /\ Ends(e, "failed") /\ record' = With(record, f, Torn) /\ UNCHANGED was
      BY <1>2, Zenon DEF File
    <2>2. /\ Ends(e, "filed") \/ Ends(e, "failed")
          /\ \/ /\ record' = With(record, f, Doc(0, edits, <<text>>))
                /\ was' = was \cup {<<f, Doc(0, edits, <<text>>)>>}
             \/ record' = With(record, f, Torn) /\ UNCHANGED was
      BY <2>1
    <2>3. UNCHANGED history /\ f \notin DOMAIN record BY <2>1 DEF File
    <2>4. PICK at : at.pc = "idle" /\ editor' = [editor EXCEPT ![e] = at]
      <3>1. CASE Ends(e, "filed") BY <3>1 DEF Ends
      <3>2. CASE Ends(e, "failed") BY <3>2 DEF Ends
      <3> QED BY <2>2, <3>1, <3>2
    <2>5. \A o \in Editor : editor'[o] = IF o = e THEN at ELSE editor[o]
      BY <2>4 DEF FeedbackInv, Shapes
    <2>6. PICK doc : /\ record' = With(record, f, doc) /\ doc.revision \in Int
                     /\ \/ was' = was \cup {<<f, doc>>}
                        \/ doc = Torn /\ was' = was
      BY <2>2 DEF Doc, Torn
    <2>7. DOMAIN record' = DOMAIN record \cup {f} /\ record'[f] = doc
      BY <2>6 DEF With
    <2>8. \A g \in DOMAIN record : record'[g] = record[g] /\ g # f
      BY <2>3, <2>6 DEF With
    <2>9. editor' = [o \in Editor |-> editor'[o]]
      BY <2>4 DEF FeedbackInv, Shapes
    <2> USE DEF FeedbackInv, Editing, AtRisk, Snapshot
    <2>10. Shapes' BY <2>4, <2>5, <2>6, <2>7, <2>8, <2>9 DEF Shapes
    <2>11. Latest'
      <3>1. \A g \in DOMAIN record' : record'[g] # Torn => <<g, record'[g]>> \in was'
        BY <2>6, <2>7, <2>8 DEF Latest
      <3>2. \A w \in was : w[1] # f BY <2>3 DEF Latest
      <3> QED BY <2>6, <2>7, <2>8, <3>1, <3>2 DEF Latest
    <2>12. Guarded'
      <3>1. \A o \in Editor : Editing(o)' => o # e /\ Editing(o) /\ editor'[o] = editor[o]
                                        /\ record'[editor[o].f] = record[editor[o].f]
        BY <2>4, <2>5, <2>8 DEF Shapes
      <3> QED BY <2>3, <3>1 DEF Guarded
    <2>13. AuditTrailWhole'
      <3>1. \A w \in was : record'[w[1]] = record[w[1]] BY <2>8 DEF Latest
      <3>2. \A w \in was' : w \in was \/ (w[1] = f /\ w[2] = doc) BY <2>6
      <3> QED BY <2>3, <2>7, <3>1, <3>2 DEF AuditTrailWhole
    <2> QED BY <2>10, <2>11, <2>12, <2>13
  <1> QED BY <1>1, <1>2

LEMMA ReadKeeps ==
  ASSUME FeedbackInv, NEW e \in Editor, Read(e)
  PROVE FeedbackInv'
  <1>1. UNCHANGED <<record, history, was>> BY DEF Read
  <1>2. CASE Ends(e, "refused")
    BY <1>1, <1>2, EndsKeeps DEF Ends
  <1>3. CASE ~Ends(e, "refused")
    <2>0. PICK f \in DOMAIN record : \E next :
            /\ record[f] # Torn /\ next.revision = record[f].revision + 1
            /\ editor' = [editor EXCEPT ![e] =
                            [pc |-> "archive", f |-> f, prior |-> record[f], next |-> next]]
      BY <1>3 DEF Read, Resolved, Doc
    <2>1. PICK next :
            /\ record[f] # Torn /\ next.revision = record[f].revision + 1
            /\ editor' = [editor EXCEPT ![e] =
                            [pc |-> "archive", f |-> f, prior |-> record[f], next |-> next]]
      BY <2>0
    <2>2. \A o \in Editor : editor'[o] = IF o = e
            THEN [pc |-> "archive", f |-> f, prior |-> record[f], next |-> next] ELSE editor[o]
      BY <2>1 DEF FeedbackInv, Shapes
    <2> USE DEF FeedbackInv, Editing, AtRisk, Snapshot
    <2>3. Shapes' BY <1>1, <2>1, <2>2 DEF Shapes, Latest
    <2>4. Latest' BY <1>1 DEF Latest
    <2>5. Guarded' BY <1>1, <2>2 DEF Guarded
    <2>6. AuditTrailWhole' BY <1>1 DEF AuditTrailWhole
    <2> QED BY <2>3, <2>4, <2>5, <2>6
  <1> QED BY <1>2, <1>3

\* A snapshot is added, whole or torn, where none was.
LEMMA ArchiveKeeps ==
  ASSUME FeedbackInv, NEW e \in Editor, Archive(e)
  PROVE FeedbackInv'
  <1> DEFINE s == Snapshot(e)
  <1>1. UNCHANGED <<record, was>> /\ editor[e].pc = "archive" BY DEF Archive
  <1>2. CASE UNCHANGED history /\ (Ends(e, "concurrent") \/ Ends(e, "failed"))
    <2>1. CASE Ends(e, "concurrent") BY <1>1, <1>2, <2>1, EndsKeeps DEF Ends
    <2>2. CASE Ends(e, "failed") BY <1>1, <1>2, <2>2, EndsKeeps DEF Ends
    <2> QED BY <1>2, <2>1, <2>2
  <1>3. CASE s \notin DOMAIN history /\ history' = With(history, s, editor[e].prior) /\ OnWith(e, "replace")
    <2>1. editor[e] = [pc |-> "archive", f |-> editor[e].f, prior |-> editor[e].prior, next |-> editor[e].next]
      BY <1>1 DEF FeedbackInv, Shapes, Editing
    <2>2. \A o \in Editor : editor'[o] = IF o # e THEN editor[o]
            ELSE [pc |-> "replace", f |-> editor[e].f, prior |-> editor[e].prior, next |-> editor[e].next]
      BY <1>3, <2>1 DEF FeedbackInv, Shapes, OnWith
    <2>3. \A t : t \in DOMAIN history => t # s /\ t \in DOMAIN history' /\ history'[t] = history[t]
      BY <1>3 DEF With
    <2>4. s \in DOMAIN history' /\ history'[s] = editor[e].prior
      BY <1>3 DEF With
    <2> USE DEF FeedbackInv, Editing, AtRisk, Snapshot
    <2>5. Shapes'
      <3>1. editor' = [o \in Editor |-> editor'[o]] BY <1>3 DEF Shapes, OnWith
      <3> QED BY <1>1, <2>1, <2>2, <3>1 DEF Shapes
    <2>6. Latest' BY <1>1 DEF Latest
    <2>7. Guarded'
      <3>1. \A o \in Editor : AtRisk(o)' => AtRisk(o) \/ o = e BY <2>2
      <3>2. \A o \in Editor : Snapshot(o)' = Snapshot(o) BY <2>2
      <3>3. record[editor[e].f] = editor[e].prior BY <1>1, <1>3 DEF Guarded
      <3>4. \A o \in Editor : AtRisk(o) => Snapshot(o) # s BY <1>3 DEF Guarded
      <3>5. \A o \in Editor : AtRisk(o)' =>
              /\ Snapshot(o)' \in DOMAIN history' /\ history'[Snapshot(o)'] = editor'[o].prior
              /\ record'[editor'[o].f] = editor'[o].prior
        <4> SUFFICES ASSUME NEW o \in Editor, AtRisk(o)'
                     PROVE  /\ Snapshot(o)' \in DOMAIN history' /\ history'[Snapshot(o)'] = editor'[o].prior
                            /\ record'[editor'[o].f] = editor'[o].prior
          OBVIOUS
        <4>1. CASE o = e BY <1>1, <2>2, <2>4, <3>2, <3>3, <4>1
        <4>2. CASE o # e BY <1>1, <2>2, <2>3, <3>1, <3>2, <4>2 DEF Guarded
        <4> QED BY <4>1, <4>2
      <3>6. \A o, q \in Editor : AtRisk(o)' /\ AtRisk(q)' /\ Snapshot(o)' = Snapshot(q)' => o = q
        BY <3>1, <3>2, <3>4 DEF Guarded
      <3>7. \A o \in Editor : editor'[o].pc = "archive" =>
              record'[editor'[o].f] = editor'[o].prior \/ Snapshot(o)' \in DOMAIN history'
        BY <1>1, <2>2, <2>3, <3>2 DEF Guarded
      <3> QED BY <3>5, <3>6, <3>7 DEF Guarded
    <2>8. AuditTrailWhole' BY <1>1, <2>3 DEF AuditTrailWhole
    <2> QED BY <2>5, <2>6, <2>7, <2>8
  <1>4. CASE s \notin DOMAIN history /\ history' = With(history, s, Torn) /\ Ends(e, "failed")
    BY <1>1, <1>4, TornKeeps DEF Ends
  <1> QED BY <1>2, <1>3, <1>4, Zenon DEF Archive

LEMMA ReplaceKeeps ==
  ASSUME FeedbackInv, NEW e \in Editor, Replace(e)
  PROVE FeedbackInv'
  <1> DEFINE f == editor[e].f
             s == Snapshot(e)
             next == editor[e].next
  <1> USE DEF FeedbackInv, Editing, AtRisk, Snapshot
  <1>1. /\ editor[e] = [pc |-> "replace", f |-> f, prior |-> editor[e].prior, next |-> next]
        /\ f \in DOMAIN record /\ record[f] = editor[e].prior /\ <<f, record[f]>> \in was
        /\ s \in DOMAIN history /\ history[s] = editor[e].prior /\ s = <<f, record[f].revision>>
        /\ next.revision = record[f].revision + 1 /\ record[f].revision \in Int
    BY DEF Replace, Shapes, Guarded
  <1>2. CASE /\ OnWith(e, "verify") /\ record' = With(record, f, next)
             /\ was' = was \cup {<<f, next>>} /\ UNCHANGED history
    <2>1. \A o \in Editor : editor'[o] = IF o # e THEN editor[o]
            ELSE [pc |-> "verify", f |-> f, prior |-> editor[e].prior, next |-> next]
      BY <1>1, <1>2 DEF Shapes, OnWith
    <2>2. editor' = [o \in Editor |-> editor'[o]] BY <1>2 DEF Shapes, OnWith
    <2>3. /\ DOMAIN record' = DOMAIN record /\ record'[f] = next
          /\ \A g \in DOMAIN record : g # f => record'[g] = record[g]
      BY <1>1, <1>2 DEF With
    <2>4. Shapes' BY <1>1, <1>2, <2>1, <2>2, <2>3 DEF Shapes
    <2>5. \A w \in was' : w \in was \/ (w[1] = f /\ w[2] = next /\ w = <<f, next>>) BY <1>2
    <2>6. <<f, next>> \in was' /\ was \subseteq was' BY <1>2
    <2>7. Latest'
      <3>1. \A g \in DOMAIN record' : record'[g] # Torn => <<g, record'[g]>> \in was'
        BY <2>3, <2>6 DEF Latest
      <3>2. \A w \in was : w[1] = f => w[2].revision < next.revision
        BY <1>1 DEF Latest
      <3>3. \A w \in was : w[1] # f => record'[w[1]] = record[w[1]]
        BY <2>3 DEF Latest
      <3>4. ASSUME NEW w \in was'
            PROVE /\ w = <<w[1], w[2]>> /\ w[1] \in DOMAIN record'
                  /\ w[2].revision \in Int /\ w[2].revision <= record'[w[1]].revision
                  /\ w[2].revision = record'[w[1]].revision => w[2] = record'[w[1]]
        <4>1. CASE w \in was /\ w[1] # f BY <2>3, <3>3, <4>1 DEF Latest
        <4>2. CASE w \in was /\ w[1] = f BY <1>1, <2>3, <3>2, <4>2 DEF Latest
        <4>3. CASE w = <<f, next>> BY <1>1, <2>3, <4>3
        <4> QED BY <2>5, <4>1, <4>2, <4>3
      <3> QED BY <3>1, <3>4 DEF Latest
    <2>8. Guarded'
      <3>1. \A o \in Editor : Snapshot(o)' = Snapshot(o) BY <2>1
      <3>2. \A o \in Editor : AtRisk(o)' => AtRisk(o) /\ o # e BY <1>1, <2>1
      <3>3. ASSUME NEW o \in Editor, AtRisk(o)' PROVE editor[o].f # f
        <4> SUFFICES ASSUME editor[o].f = f PROVE FALSE OBVIOUS
        <4>1. record[f] = editor[o].prior BY <3>2, <3>3 DEF Guarded
        <4>2. Snapshot(o) = Snapshot(e) BY <1>1, <4>1
        <4>3. AtRisk(e) /\ AtRisk(o) /\ o # e BY <1>1, <3>2, <3>3
        <4> QED BY <4>2, <4>3 DEF Guarded
      <3>4. \A o \in Editor : AtRisk(o)' => record'[editor[o].f] = record[editor[o].f]
        BY <2>3, <3>2, <3>3 DEF Shapes
      <3>5. \A o \in Editor : editor'[o].pc = "archive" =>
              record'[editor'[o].f] = editor'[o].prior \/ Snapshot(o)' \in DOMAIN history'
        <4> SUFFICES ASSUME NEW o \in Editor, editor'[o].pc = "archive"
                     PROVE  record'[editor'[o].f] = editor'[o].prior \/ Snapshot(o)' \in DOMAIN history'
          OBVIOUS
        <4>0. o # e BY <2>1
        <4>1. editor'[o] = editor[o] /\ editor[o].f \in DOMAIN record BY <2>1, <4>0 DEF Shapes
        <4>2. CASE editor[o].f = f /\ Snapshot(o) \notin DOMAIN history
          BY <1>1, <4>1, <4>2 DEF Guarded
        <4>3. CASE editor[o].f # f BY <1>2, <2>3, <4>1, <4>3 DEF Guarded
        <4>4. CASE Snapshot(o) \in DOMAIN history BY <1>2, <3>1, <4>4
        <4> QED BY <4>2, <4>3, <4>4
      <3> QED BY <1>2, <2>1, <3>1, <3>2, <3>4, <3>5 DEF Guarded
    <2>9. AuditTrailWhole'
      <3> SUFFICES ASSUME NEW w \in was'
                   PROVE \/ record'[w[1]] = w[2]
                         \/ <<w[1], w[2].revision>> \in DOMAIN history /\ history[<<w[1], w[2].revision>>] = w[2]
        BY <1>2 DEF AuditTrailWhole
      <3>1. CASE w \in was /\ w[1] # f BY <2>3, <3>1 DEF Latest, AuditTrailWhole
      <3>2. CASE w \in was /\ w[1] = f BY <1>1, <3>2 DEF AuditTrailWhole
      <3>3. CASE w = <<f, next>> BY <2>3, <3>3
      <3> QED BY <2>5, <3>1, <3>2, <3>3
    <2> QED BY <2>4, <2>7, <2>8, <2>9
  <1>3. CASE UNCHANGED <<record, was, history>> /\ Ends(e, "failed")
    BY <1>3, EndsKeeps DEF Ends
  <1>4. CASE UNCHANGED <<record, was>> /\ history' = Without(history, s) /\ Ends(e, "failed")
    <2>1. \A o \in Editor : editor'[o] = IF o # e THEN editor[o] ELSE [pc |-> "idle", outcome |-> "failed"]
      BY <1>4 DEF Shapes, Ends
    <2>2. \A t \in DOMAIN history : t # s => t \in DOMAIN history' /\ history'[t] = history[t]
      BY <1>4 DEF Without
    <2>3. Shapes'
      <3>1. editor' = [o \in Editor |-> editor'[o]] BY <1>4 DEF Shapes, Ends
      <3> QED BY <1>4, <2>1, <3>1 DEF Shapes
    <2>4. Latest' BY <1>4 DEF Latest
    <2>5. Guarded'
      <3>1. \A o \in Editor : AtRisk(o)' => AtRisk(o) /\ o # e /\ editor'[o] = editor[o] BY <2>1
      <3>2. \A o \in Editor : AtRisk(o)' => Snapshot(o) # s BY <1>1, <3>1 DEF Guarded
      <3>3. \A o \in Editor : AtRisk(o)' =>
              /\ Snapshot(o)' \in DOMAIN history' /\ history'[Snapshot(o)'] = editor'[o].prior
              /\ record'[editor'[o].f] = editor'[o].prior
        BY <1>4, <2>2, <3>1, <3>2 DEF Guarded
      <3>4. \A o, q \in Editor : AtRisk(o)' /\ AtRisk(q)' /\ Snapshot(o)' = Snapshot(q)' => o = q
        BY <3>1 DEF Guarded
      <3>5. \A o \in Editor : editor'[o].pc = "archive" =>
              record'[editor'[o].f] = editor'[o].prior \/ Snapshot(o)' \in DOMAIN history'
        <4> SUFFICES ASSUME NEW o \in Editor, editor'[o].pc = "archive"
                     PROVE  record'[editor'[o].f] = editor'[o].prior \/ Snapshot(o)' \in DOMAIN history'
          OBVIOUS
        <4>1. o # e /\ editor'[o] = editor[o] /\ <<editor[o].f, editor[o].prior>> \in was
          BY <2>1 DEF Shapes
        <4>2. CASE Snapshot(o) = s
          BY <1>1, <1>4, <4>1, <4>2 DEF Latest
        <4>3. CASE Snapshot(o) # s BY <1>4, <2>2, <4>1, <4>3 DEF Guarded
        <4> QED BY <4>2, <4>3
      <3> QED BY <3>3, <3>4, <3>5 DEF Guarded
    <2>6. AuditTrailWhole'
      <3> SUFFICES ASSUME NEW w \in was
                   PROVE \/ record[w[1]] = w[2]
                         \/ <<w[1], w[2].revision>> \in DOMAIN history' /\ history'[<<w[1], w[2].revision>>] = w[2]
        BY <1>4 DEF AuditTrailWhole
      <3>1. CASE <<w[1], w[2].revision>> = s BY <1>1, <3>1 DEF Latest
      <3>2. CASE <<w[1], w[2].revision>> # s BY <2>2, <3>2 DEF AuditTrailWhole
      <3> QED BY <3>1, <3>2
    <2> QED BY <2>3, <2>4, <2>5, <2>6
  <1> QED BY <1>2, <1>3, <1>4, Zenon DEF Replace

LEMMA DieKeeps ==
  ASSUME FeedbackInv, NEW e \in Editor, Die(e)
  PROVE FeedbackInv'
  <1>1. CASE UNCHANGED history
    BY <1>1, EndsKeeps DEF Die, NotEditing
  <1>2. CASE ~UNCHANGED history
    BY <1>2, TornKeeps DEF Die, NotEditing
  <1> QED BY <1>1, <1>2

\* Whatever was ever the text of a record is the record still or is kept whole,
\* whoever edits at once and wherever an edit fails or dies.
THEOREM NothingFiledIsLost == FeedbackSpec => []AuditTrailWhole
  <1>1. FeedbackInv /\ [FeedbackNext]_feedbackVars => FeedbackInv'
    <2> SUFFICES ASSUME FeedbackInv, [FeedbackNext]_feedbackVars PROVE FeedbackInv'
      OBVIOUS
    <2>1. ASSUME NEW e \in Editor, File(e) PROVE FeedbackInv' BY <2>1, FileKeeps
    <2>2. ASSUME NEW e \in Editor, Read(e) PROVE FeedbackInv' BY <2>2, ReadKeeps
    <2>3. ASSUME NEW e \in Editor, Archive(e) PROVE FeedbackInv' BY <2>3, ArchiveKeeps
    <2>4. ASSUME NEW e \in Editor, Replace(e) PROVE FeedbackInv' BY <2>4, ReplaceKeeps
    <2>5. ASSUME NEW e \in Editor, Verify(e) PROVE FeedbackInv'
      <3>1. PICK outcome \in {"saved", "unsure"} : Ends(e, outcome) BY <2>5 DEF Verify
      <3>2. UNCHANGED <<record, history, was>> BY <2>5 DEF Verify
      <3> QED BY <3>1, <3>2, EndsKeeps DEF Ends
    <2>6. ASSUME NEW e \in Editor, Die(e) PROVE FeedbackInv' BY <2>6, DieKeeps
    <2>7. CASE UNCHANGED feedbackVars
      BY <2>7 DEF feedbackVars, FeedbackInv, Shapes, Latest, Guarded, AuditTrailWhole, Editing, AtRisk, Snapshot
    <2> QED BY <2>1, <2>2, <2>3, <2>4, <2>5, <2>6, <2>7 DEF FeedbackNext
  <1> QED BY <1>1, FeedbackInitial, PTL DEF FeedbackSpec, FeedbackInv

---------------------------------------------------------------------------
(* WriteRoutes: a request has done every command of its script up to where  *)
(* it stands, and what is in a log stays there.                             *)

DidIn(B, b, what, verb, no) == \E n \in DOMAIN B[b].log : B[b].log[n] = [did |-> what, verb |-> verb, by |-> no]
Did(b, what, verb, no) == DidIn(bead, b, what, verb, no)
FulfilledIn(B, no) ==
  \E b \in Target, verb \in Verb : \A what \in Range(Commands(verb)) : DidIn(B, b, what, verb, no)
Fulfilled(no) == FulfilledIn(bead, no)

\* Where a request stands in its script.
StandsIn(B, r) ==
  /\ r = [pc |-> "run", door |-> r.door, b |-> r.b, verb |-> r.verb, key |-> r.key, no |-> r.no, todo |-> r.todo]
  /\ r.door \in {"get", "tool"} /\ r.b \in Target /\ r.verb \in Verb
  /\ \E k \in 0 .. Len(Script(r.door, r.verb)) - 1 :
       /\ r.todo = SubSeq(Script(r.door, r.verb), k + 1, Len(Script(r.door, r.verb)))
       /\ \A n \in 1 .. k : Script(r.door, r.verb)[n] \in Range(Commands(r.verb)) =>
            DidIn(B, r.b, Script(r.door, r.verb)[n], r.verb, r.no)
Stands(r) == StandsIn(bead, r)

Logged(x) == x = [open |-> x.open, log |-> x.log] /\ x.log \in Seq({x.log[n] : n \in DOMAIN x.log})
Logs == bead = [b \in Target |-> bead[b]] /\ \A b \in Target : Logged(bead[b])

Closes(log) ==
  \A n \in DOMAIN log :
    log[n].did = "close" /\ log[n].verb \in Decision =>
      \E m \in 1..(n - 1) : log[m] = [log[n] EXCEPT !.did = log[n].verb]

ToldIn(B, r) == r.pc = "idle" /\ "of" \in DOMAIN r /\ r.outcome = "ok" => FulfilledIn(B, r.of)
Told(r) == ToldIn(bead, r)

KeptAreTrue == \A k \in DOMAIN idemStore : Fulfilled(idemStore[k])
AllClose == \A b \in Target : Closes(bead[b].log)

WritesInv ==
  /\ Logs
  /\ req = [c \in Client |-> req[c]]
  /\ \A c \in Client : req[c].pc = "run" => Stands(req[c])
  /\ \A c \in Client : Told(req[c])
  /\ KeptAreTrue
  /\ AllClose

\* The scripts, spelt out.
Verbs == {"approve", "done", "reject", "comment", "note", "label", "close"}

LEMMA ShortSeqs ==
  ASSUME NEW S, NEW a \in S, NEW b \in S, NEW c \in S, NEW d \in S, NEW e \in S
  PROVE  /\ Append(<<a, b>>, c) = <<a, b, c>>
         /\ << >> \o <<a>> \o <<b>> \o <<c>> = <<a, b, c>>
         /\ <<a>> \o <<b>> \o <<c>> \o <<d>> = <<a, b, c, d>>
         /\ << >> \o <<a>> \o <<b, c>> \o <<d>> = <<a, b, c, d>>
         /\ <<a>> \o <<b>> \o <<c, d>> \o <<e>> = <<a, b, c, d, e>>
  <1>1. \A s \in Seq(S) : Len(s) = 3 => s = <<s[1], s[2], s[3]>> OBVIOUS
  <1>2. \A s \in Seq(S) : Len(s) = 4 => s = <<s[1], s[2], s[3], s[4]>> OBVIOUS
  <1>3. \A s \in Seq(S) : Len(s) = 5 => s = <<s[1], s[2], s[3], s[4], s[5]>> OBVIOUS
  <1>4. Append(<<a, b>>, c) = <<a, b, c>>
    <2> DEFINE s == Append(<<a, b>>, c)
    <2>1. s \in Seq(S) /\ Len(s) = 3 /\ s[1] = a /\ s[2] = b /\ s[3] = c OBVIOUS
    <2> QED BY <1>1, <2>1
  <1>5. << >> \o <<a>> \o <<b>> \o <<c>> = <<a, b, c>>
    <2> DEFINE s == << >> \o <<a>> \o <<b>> \o <<c>>
    <2>1. s \in Seq(S) /\ Len(s) = 3 /\ s[1] = a /\ s[2] = b /\ s[3] = c OBVIOUS
    <2> QED BY <1>1, <2>1
  <1>6. <<a>> \o <<b>> \o <<c>> \o <<d>> = <<a, b, c, d>>
    <2> DEFINE s == <<a>> \o <<b>> \o <<c>> \o <<d>>
    <2>1. s \in Seq(S) /\ Len(s) = 4 /\ s[1] = a /\ s[2] = b /\ s[3] = c /\ s[4] = d OBVIOUS
    <2> QED BY <1>2, <2>1
  <1>7. << >> \o <<a>> \o <<b, c>> \o <<d>> = <<a, b, c, d>>
    <2> DEFINE s == << >> \o <<a>> \o <<b, c>> \o <<d>>
    <2>1. s \in Seq(S) /\ Len(s) = 4 /\ s[1] = a /\ s[2] = b /\ s[3] = c /\ s[4] = d OBVIOUS
    <2> QED BY <1>2, <2>1
  <1>8. <<a>> \o <<b>> \o <<c, d>> \o <<e>> = <<a, b, c, d, e>>
    <2> DEFINE s == <<a>> \o <<b>> \o <<c, d>> \o <<e>>
    <2>1. s \in Seq(S) /\ Len(s) = 5 OBVIOUS
    <2>2. s[1] = a /\ s[2] = b /\ s[3] = c /\ s[4] = d /\ s[5] = e OBVIOUS
    <2> QED BY <1>3, <2>1, <2>2
  <1> QED BY <1>4, <1>5, <1>6, <1>7, <1>8

LEMMA ScriptSpelt ==
  ASSUME NEW verb \in Verb
  PROVE  /\ Script("get", verb) =
              IF verb \in Decision THEN <<verb, "show", "close", "show">>
              ELSE IF verb = "label" THEN <<"add", "remove", "show">> ELSE <<verb, "show">>
         /\ Script("tool", verb) =
              IF verb \in Decision THEN <<"open?", "replay", verb, "close", "keep">>
              ELSE IF verb = "reject" THEN <<"open?", "replay", verb, "keep">>
              ELSE IF verb = "label" THEN <<"replay", "add", "remove", "keep">>
              ELSE <<"replay", verb, "keep">>
         /\ Range(Commands(verb)) =
              IF verb \in Decision THEN {verb, "close"}
              ELSE IF verb = "label" THEN {"add", "remove"} ELSE {verb}
         /\ verb \in Verbs
  <1> DEFINE S == {"open?", "replay", "keep", "show", "close", "add", "remove", verb}
  <1>0. verb \in Verbs BY VerbAssumption DEF Verbs
  <1>4. /\ "open?" \in S /\ "replay" \in S /\ "keep" \in S /\ "show" \in S
        /\ "close" \in S /\ "add" \in S /\ "remove" \in S /\ verb \in S
    OBVIOUS
  <1> HIDE DEF S
  <1>1. CASE verb \in Decision
    <2>1. Commands(verb) = <<verb, "close">> BY <1>1 DEF Commands
    <2>2. Range(Commands(verb)) = {verb, "close"} BY <2>1 DEF Range
    <2>3. Script("get", verb) = <<verb, "show", "close", "show">> BY <1>1, <2>1 DEF Script, ReadBack, Decision
    <2>4. Script("tool", verb) = <<"open?">> \o <<"replay">> \o <<verb, "close">> \o <<"keep">>
      BY <1>1, <2>1 DEF Script
    <2>5. Script("tool", verb) = <<"open?", "replay", verb, "close", "keep">>
      BY <1>4, <2>4, ShortSeqs
    <2> QED BY <1>0, <1>1, <2>2, <2>3, <2>5
  <1>2. CASE verb = "label"
    <2>1. Commands(verb) = <<"add", "remove">> BY <1>2 DEF Commands, Decision
    <2>2. Range(Commands(verb)) = {"add", "remove"} BY <2>1 DEF Range
    <2>3. Script("get", verb) = <<"add", "remove", "show">>
      <3>1. Script("get", verb) = Append(<<"add", "remove">>, "show") BY <1>2, <2>1 DEF Script
      <3> QED BY <1>4, <3>1, ShortSeqs
    <2>4. Script("tool", verb) = << >> \o <<"replay">> \o <<"add", "remove">> \o <<"keep">>
      BY <1>2, <2>1 DEF Script, Decision
    <2>5. Script("tool", verb) = <<"replay", "add", "remove", "keep">> BY <1>4, <2>4, ShortSeqs
    <2> QED BY <1>0, <1>2, <2>2, <2>3, <2>5 DEF Decision
  <1>3. CASE verb \notin Decision /\ verb # "label"
    <2>1. Commands(verb) = <<verb>> BY <1>3 DEF Commands
    <2>2. Range(Commands(verb)) = {verb} BY <2>1 DEF Range
    <2>3. Script("get", verb) = <<verb, "show">> BY <1>3, <2>1 DEF Script, ReadBack
    <2>4. CASE verb = "reject"
      <3>1. Script("tool", verb) = <<"open?">> \o <<"replay">> \o <<verb>> \o <<"keep">>
        BY <1>3, <2>1, <2>4 DEF Script
      <3>2. Script("tool", verb) = <<"open?", "replay", verb, "keep">> BY <1>4, <3>1, ShortSeqs
      <3> QED BY <1>0, <1>3, <2>2, <2>3, <2>4, <3>2
    <2>5. CASE verb # "reject"
      <3>1. Script("tool", verb) = << >> \o <<"replay">> \o <<verb>> \o <<"keep">>
        BY <1>3, <2>1, <2>5 DEF Script
      <3>2. Script("tool", verb) = <<"replay", verb, "keep">> BY <1>4, <3>1, ShortSeqs
      <3> QED BY <1>0, <1>3, <2>2, <2>3, <2>5, <3>2
    <2> QED BY <2>4, <2>5
  <1> QED BY <1>1, <1>2, <1>3

\* A script ends with what keeps its answer, has each of its verb's commands,
\* and closes a bead only after the decision.
InOrderOf(s, verb) ==
  /\ s \in Seq({s[n] : n \in DOMAIN s}) /\ Len(s) # 0
  /\ \A what \in Range(Commands(verb)) : \E n \in 1 .. Len(s) : s[n] = what
  /\ verb \in Decision =>
       /\ verb \in Range(Commands(verb))
       /\ \A n \in 1 .. Len(s) : s[n] = "close" => \E m \in 1 .. n - 1 : s[m] = verb
  /\ \A n \in 1 .. Len(s) : s[n] = "keep" => n = Len(s)

LEMMA ScriptFacts ==
  ASSUME NEW door \in {"get", "tool"}, NEW verb \in Verb
  PROVE  InOrderOf(Script(door, verb), verb)
  <1> DEFINE s == Script(door, verb)
  <1>0. verb \in Verbs BY ScriptSpelt
  <1>1. CASE verb \in Decision
    <2>1. s = <<verb, "show", "close", "show">> \/ s = <<"open?", "replay", verb, "close", "keep">>
      BY <1>1, ScriptSpelt
    <2>2. Range(Commands(verb)) = {verb, "close"} /\ verb # "close" /\ verb # "keep" BY <1>1, ScriptSpelt DEF Decision
    <2>3. InOrderOf(<<verb, "show", "close", "show">>, verb) BY <2>2 DEF InOrderOf
    <2>4. InOrderOf(<<"open?", "replay", verb, "close", "keep">>, verb) BY <2>2 DEF InOrderOf
    <2> QED BY <2>1, <2>3, <2>4 DEF s
  <1>2. CASE verb \notin Decision /\ verb = "label"
    <2>1. s = <<"add", "remove", "show">> \/ s = <<"replay", "add", "remove", "keep">>
      BY <1>2, ScriptSpelt
    <2>2. Range(Commands(verb)) = {"add", "remove"} BY <1>2, ScriptSpelt
    <2>3. InOrderOf(<<"add", "remove", "show">>, verb) BY <1>2, <2>2 DEF InOrderOf
    <2>4. InOrderOf(<<"replay", "add", "remove", "keep">>, verb) BY <1>2, <2>2 DEF InOrderOf
    <2> QED BY <2>1, <2>3, <2>4 DEF s
  <1>3. CASE verb \notin Decision /\ verb # "label"
    <2>1. s = <<verb, "show">> \/ s = <<"open?", "replay", verb, "keep">> \/ s = <<"replay", verb, "keep">>
      BY <1>3, ScriptSpelt
    <2>2. Range(Commands(verb)) = {verb} /\ verb # "keep" BY <1>0, <1>3, ScriptSpelt DEF Verbs
    <2>3. InOrderOf(<<verb, "show">>, verb) BY <1>3, <2>2 DEF InOrderOf
    <2>4. InOrderOf(<<"open?", "replay", verb, "keep">>, verb) BY <1>3, <2>2 DEF InOrderOf
    <2>5. InOrderOf(<<"replay", verb, "keep">>, verb) BY <1>3, <2>2 DEF InOrderOf
    <2> QED BY <2>1, <2>3, <2>4, <2>5 DEF s
  <1> QED BY <1>1, <1>2, <1>3

\* What was done stays done.
Remembered == \A b \in Target : \A what, verb, no : Did(b, what, verb, no) => Did(b, what, verb, no)'

LEMMA FactsStay ==
  ASSUME Remembered
  PROVE  /\ \A no : Fulfilled(no) => Fulfilled(no)'
         /\ \A r : Stands(r) => Stands(r)'
         /\ \A r : Told(r) => Told(r)'
  <1>1. ASSUME NEW no, Fulfilled(no) PROVE Fulfilled(no)'
    BY <1>1 DEF Remembered, Fulfilled, FulfilledIn, Did
  <1>2. ASSUME NEW r, Stands(r) PROVE Stands(r)'
    <2> DEFINE s == Script(r.door, r.verb)
    <2>1. PICK k \in 0 .. Len(s) - 1 :
            /\ r.todo = SubSeq(s, k + 1, Len(s))
            /\ \A n \in 1 .. k : s[n] \in Range(Commands(r.verb)) => Did(r.b, s[n], r.verb, r.no)
      BY <1>2 DEF Stands, StandsIn, Did
    <2>2. r.b \in Target BY <1>2 DEF Stands, StandsIn, Did
    <2>3. \A n \in 1 .. k : s[n] \in Range(Commands(r.verb)) => Did(r.b, s[n], r.verb, r.no)'
      BY <2>1, <2>2 DEF Remembered
    <2> QED BY <1>2, <2>1, <2>3 DEF Stands, StandsIn, Did
  <1>3. ASSUME NEW r, Told(r) PROVE Told(r)' BY <1>1, <1>3 DEF Told, ToldIn, Fulfilled
  <1> QED BY <1>1, <1>2, <1>3

\* A step that is done, and what it makes of its request.
Step(r) == IF Len(r.todo) = 1 THEN Answered("ok", r.no) ELSE [r EXCEPT !.todo = Tail(@)]

LEMMA Advances ==
  ASSUME NEW B, NEW r, StandsIn(B, r),
         Head(r.todo) \in Range(Commands(r.verb)) => DidIn(B, r.b, Head(r.todo), r.verb, r.no)
  PROVE  /\ ToldIn(B, Step(r))
         /\ Step(r).pc = "run" => StandsIn(B, Step(r))
  <1> DEFINE s == Script(r.door, r.verb)
             S == {s[n] : n \in DOMAIN s}
  <1>a. r = [pc |-> "run", door |-> r.door, b |-> r.b, verb |-> r.verb, key |-> r.key, no |-> r.no, todo |-> r.todo]
    BY DEF StandsIn
  <1>0. r.door \in {"get", "tool"} /\ r.verb \in Verb /\ r.b \in Target BY DEF StandsIn
  <1>1. /\ s \in Seq(S)
        /\ \A what \in Range(Commands(r.verb)) : \E n \in 1 .. Len(s) : s[n] = what
    <2>1. InOrderOf(s, r.verb) BY <1>0, ScriptFacts
    <2> QED BY <2>1 DEF InOrderOf
  <1>2. PICK k \in 0 .. Len(s) - 1 :
          /\ r.todo = SubSeq(s, k + 1, Len(s))
          /\ \A n \in 1 .. k : s[n] \in Range(Commands(r.verb)) => DidIn(B, r.b, s[n], r.verb, r.no)
    BY DEF StandsIn
  <1> HIDE DEF s, S
  <1>3. Head(r.todo) = s[k + 1] /\ Len(r.todo) = Len(s) - k /\ Tail(r.todo) = SubSeq(s, k + 2, Len(s))
    <2>1. k + 1 \in 1 .. Len(s) /\ Len(s) \in k + 1 .. Len(s) /\ Len(s) \in Nat BY <1>1
    <2>2. Head(SubSeq(s, k + 1, Len(s))) = s[k + 1]
          /\ Tail(SubSeq(s, k + 1, Len(s))) = SubSeq(s, k + 1 + 1, Len(s))
      BY <1>1, <2>1, HeadTailOfSubSeq
    <2> QED BY <1>1, <1>2, <2>1, <2>2
  <1>4. \A n \in 1 .. k + 1 : s[n] \in Range(Commands(r.verb)) => DidIn(B, r.b, s[n], r.verb, r.no)
    BY <1>2, <1>3
  <1>5. CASE Len(r.todo) = 1
    <2>1. k + 1 = Len(s) BY <1>1, <1>3, <1>5
    <2>2. \A what \in Range(Commands(r.verb)) : DidIn(B, r.b, what, r.verb, r.no) BY <1>1, <1>4, <2>1
    <2>3. FulfilledIn(B, r.no) BY <1>0, <2>2 DEF FulfilledIn
    <2> QED BY <1>5, <2>3 DEF Step, Answered, ToldIn
  <1>6. CASE Len(r.todo) # 1
    <2>1. k + 1 \in 0 .. Len(s) - 1 BY <1>1, <1>3, <1>6
    <2>2. Step(r) = [pc |-> "run", door |-> r.door, b |-> r.b, verb |-> r.verb, key |-> r.key, no |-> r.no,
                     todo |-> Tail(r.todo)]
      <3>1. Step(r) = [r EXCEPT !.todo = Tail(r.todo)] BY <1>6, Zenon DEF Step
      <3>2. ASSUME NEW t
            PROVE  [r EXCEPT !.todo = t] =
                     [pc |-> "run", door |-> r.door, b |-> r.b, verb |-> r.verb, key |-> r.key, no |-> r.no, todo |-> t]
        BY <1>a
      <3> QED BY <3>1, <3>2
    <2> DEFINE q == Step(r)
    <2>5. /\ q.pc = "run" /\ q.door = r.door /\ q.b = r.b /\ q.verb = r.verb /\ q.key = r.key /\ q.no = r.no
          /\ q.todo = Tail(r.todo)
          /\ q = [pc |-> "run", door |-> q.door, b |-> q.b, verb |-> q.verb, key |-> q.key, no |-> q.no,
                  todo |-> q.todo]
      BY <2>2
    <2> HIDE DEF q
    <2>6. q.todo = SubSeq(s, (k + 1) + 1, Len(s))
      <3>1. k + 2 = (k + 1) + 1 OBVIOUS
      <3> QED BY <1>3, <2>5, <3>1
    <2>7. StandsIn(B, q) BY <1>0, <1>4, <2>1, <2>5, <2>6 DEF StandsIn, s
    <2>3. StandsIn(B, Step(r)) BY <2>7 DEF q
    <2>4. ToldIn(B, Step(r)) BY <2>2 DEF ToldIn
    <2> QED BY <2>3, <2>4
  <1> QED BY <1>5, <1>6

LEMMA AdvancesNow ==
  ASSUME NEW r, Stands(r), Head(r.todo) \in Range(Commands(r.verb)) => Did(r.b, Head(r.todo), r.verb, r.no)
  PROVE  Told(Step(r)) /\ (Step(r).pc = "run" => Stands(Step(r)))
  BY Advances DEF Stands, Did, Told

\* A command adds to one bead's log.
LEMMA CommandLogged ==
  ASSUME Logs, AllClose,
         NEW b \in Target, NEW what, NEW verb, NEW no, Done(b, what, verb, no),
         what = "close" /\ verb \in Decision => Did(b, verb, verb, no)
  PROVE  /\ Remembered /\ Did(b, what, verb, no)'
         /\ Logs' /\ AllClose'
  <1> DEFINE entry == [did |-> what, verb |-> verb, by |-> no]
             log == bead[b].log
             S == {log[n] : n \in DOMAIN log}
  <1>1. /\ bead = [t \in Target |-> bead[t]] /\ log \in Seq(S)
        /\ bead[b] = [open |-> bead[b].open, log |-> log]
    BY DEF Logs, Logged
  <1>2. /\ bead' = [t \in Target |-> bead'[t]]
        /\ \A t \in Target \ {b} : bead'[t] = bead[t]
        /\ bead'[b] = [open |-> bead[b].open /\ what # "close", log |-> Append(log, entry)]
    BY <1>1 DEF Done
  <1> DEFINE log2 == bead'[b].log
             T == S \cup {entry}
  <1>3. log2 = Append(log, entry) BY <1>2
  <1>4. log \in Seq(T) /\ entry \in T
    <2>1. S \subseteq T OBVIOUS
    <2> QED BY <1>1, <2>1, SeqMonotonic
  <1>5. log2 \in Seq(T) /\ DOMAIN log2 = 1 .. Len(log) + 1 /\ DOMAIN log = 1 .. Len(log) /\ Len(log) \in Nat
        /\ log2[Len(log) + 1] = entry /\ \A n \in 1 .. Len(log) : log2[n] = log[n]
    <2> HIDE DEF log, log2, S, T, entry
    <2> QED BY <1>1, <1>3, <1>4
  <1>6. Remembered
    <2> SUFFICES ASSUME NEW t \in Target, NEW w, NEW v, NEW k, Did(t, w, v, k) PROVE Did(t, w, v, k)'
      BY DEF Remembered
    <2>1. CASE t = b
      <3>1. PICK n \in DOMAIN log : log[n] = [did |-> w, verb |-> v, by |-> k] BY <2>1 DEF Did, DidIn
      <3>2. n \in DOMAIN log2 /\ log2[n] = log[n] BY <1>5
      <3> QED BY <2>1, <3>1, <3>2 DEF Did, DidIn
    <2>2. CASE t # b BY <1>2, <2>2 DEF Did, DidIn
    <2> QED BY <2>1, <2>2
  <1>7. Did(b, what, verb, no)' BY <1>5 DEF Did, DidIn
  <1>8. log2 \in Seq({log2[n] : n \in DOMAIN log2})
    <2> HIDE DEF log2, T
    <2>1. \A n \in 1 .. Len(log2) : log2[n] \in {log2[i] : i \in DOMAIN log2} BY <1>5
    <2> QED BY <1>5, <2>1
  <1>9. Logs'
    <2>1. Logged(bead'[b]) BY <1>2, <1>8 DEF Logged
    <2>2. \A t \in Target : Logged(bead'[t]) BY <1>2, <2>1 DEF Logs
    <2> QED BY <1>2, <2>2 DEF Logs, Logged
  <1>10. ASSUME NEW t \in Target PROVE Closes(bead'[t].log)
    <2>1. CASE t # b BY <1>2, <2>1 DEF AllClose
    <2>2. CASE t = b
      <3> SUFFICES ASSUME NEW n \in DOMAIN log2, log2[n].did = "close", log2[n].verb \in Decision
                   PROVE  \E m \in 1 .. n - 1 : log2[m] = [log2[n] EXCEPT !.did = log2[n].verb]
        BY <2>2 DEF Closes
      <3>1. CASE n = Len(log) + 1
        <4>1. log2[n] = entry BY <1>5, <3>1
        <4>2. PICK m \in DOMAIN log : log[m] = [did |-> verb, verb |-> verb, by |-> no]
          BY <3>1, <4>1 DEF Did, DidIn
        <4>3. m \in 1 .. n - 1 /\ log2[m] = [did |-> verb, verb |-> verb, by |-> no] BY <1>5, <3>1, <4>2
        <4>4. [log2[n] EXCEPT !.did = log2[n].verb] = [did |-> verb, verb |-> verb, by |-> no] BY <4>1
        <4> QED BY <4>3, <4>4
      <3>2. CASE n # Len(log) + 1
        <4>1. n \in DOMAIN log /\ log2[n] = log[n] BY <1>5, <3>2
        <4>2. PICK m \in 1 .. n - 1 : log[m] = [log[n] EXCEPT !.did = log[n].verb] BY <4>1 DEF AllClose, Closes
        <4>3. log2[m] = log[m] BY <1>5, <4>1, <4>2
        <4> QED BY <4>1, <4>2, <4>3
      <3> QED BY <3>1, <3>2
    <2> QED BY <2>1, <2>2
  <1>11. AllClose' BY <1>10 DEF AllClose, Closes
  <1> QED BY <1>6, <1>7, <1>9, <1>11

\* One request goes on; what the others have done stays done.
LEMMA OneGoesOn ==
  ASSUME WritesInv, Remembered, Logs', AllClose', KeptAreTrue',
         NEW c \in Client, NEW r, req' = [req EXCEPT ![c] = r],
         Told(r)', r.pc = "run" => Stands(r)'
  PROVE  WritesInv'
  <1>1. \A d \in Client : req'[d] = IF d = c THEN r ELSE req[d] BY DEF WritesInv
  <1>2. ASSUME NEW d \in Client, NEW q, q = req'[d] PROVE Told(q)' /\ (q.pc = "run" => Stands(q)')
    <2>1. CASE d = c BY <1>1, <1>2, <2>1
    <2>2. CASE d # c
      <3>1. Told(q) /\ (q.pc = "run" => Stands(q)) BY <1>1, <1>2, <2>2 DEF WritesInv
      <3> QED BY <3>1, FactsStay
    <2> QED BY <2>1, <2>2
  <1>3. ASSUME NEW d \in Client PROVE Told(req[d])' /\ (req[d].pc = "run" => Stands(req[d]))'
    <2>1. PICK q : q = req'[d] OBVIOUS
    <2>2. Told(q)' /\ (q.pc = "run" => Stands(q)') BY <1>2, <2>1
    <2>3. Told(req[d])' BY <2>1, <2>2 DEF Told, ToldIn, Fulfilled, FulfilledIn, Did, DidIn
    <2>4. ASSUME req'[d].pc = "run" PROVE Stands(req[d])' BY <2>1, <2>2, <2>4 DEF Stands
    <2> QED BY <2>3, <2>4
  <1>4. req' = [d \in Client |-> req'[d]] BY DEF WritesInv
  <1> QED BY <1>3, <1>4 DEF WritesInv

\* A step that leaves the beads alone.
LEMMA Untouched == ASSUME WritesInv, UNCHANGED bead PROVE Remembered /\ Logs' /\ AllClose'
  <1>1. Logs' BY DEF WritesInv, Logs, Logged
  <1>2. AllClose' BY DEF WritesInv, AllClose
  <1> QED BY <1>1, <1>2 DEF Remembered, Did

LEMMA KeptStay == ASSUME WritesInv, Remembered, UNCHANGED idemStore PROVE KeptAreTrue'
  BY FactsStay DEF WritesInv, KeptAreTrue

\* The ways a request ends or goes on without a command.
LEMMA Waiting ==
  ASSUME WritesInv, NEW c \in Client, NEW r, req' = [req EXCEPT ![c] = r], UNCHANGED <<bead, idemStore>>,
         Told(r), r.pc = "run" => Stands(r)
  PROVE  WritesInv'
  <1>1. Remembered /\ Logs' /\ AllClose' BY Untouched
  <1>2. KeptAreTrue' BY <1>1, KeptStay
  <1>3. Told(r)' /\ (r.pc = "run" => Stands(r)') BY <1>1, FactsStay
  <1> QED BY <1>1, <1>2, <1>3, OneGoesOn

LEMMA NoPromise ==
  ASSUME NEW r, \/ r = [pc |-> "idle"]
                \/ \E text, id, outcome : /\ outcome # "ok"
                                          /\ \/ r = [pc |-> "idle", outcome |-> outcome, text |-> text, id |-> id]
                                             \/ r = [pc |-> "idle", outcome |-> outcome]
                                             \/ r = Answered(outcome, id)
                \/ r.pc \notin {"idle", "run"}
  PROVE  Told(r) /\ r.pc # "run"
  <1>1. CASE r = [pc |-> "idle"] BY <1>1 DEF Told, ToldIn, Fulfilled
  <1>2. CASE r # [pc |-> "idle"] BY <1>2 DEF Told, ToldIn, Answered, Fulfilled
  <1> QED BY <1>1, <1>2

LEMMA AskVerbKeeps == ASSUME WritesInv, NEW c \in Client, AskVerb(c) PROVE WritesInv'
  <1>1. PICK door \in {"get", "tool"}, b \in Target, key \in Key \union {NoKey}, verb \in Verb :
          req' = [req EXCEPT ![c] =
            [pc |-> "run", door |-> door, b |-> b, verb |-> verb, key |-> key, no |-> written,
             todo |-> Script(door, verb)]]
    BY DEF AskVerb
  <1>2. PICK r : r = [pc |-> "run", door |-> door, b |-> b, verb |-> verb, key |-> key, no |-> written,
                      todo |-> Script(door, verb)]
    OBVIOUS
  <1> DEFINE s == Script(door, verb)
  <1>3. InOrderOf(s, verb) BY ScriptFacts
  <1>4. Stands(r)
    <2>1. s \in Seq({s[n] : n \in DOMAIN s}) /\ Len(s) # 0 BY <1>3 DEF InOrderOf
    <2>2. s = SubSeq(s, 0 + 1, Len(s)) /\ 0 \in 0 .. Len(s) - 1 BY <2>1, SubSeqFull
    <2>3. r.todo = s /\ r.door = door /\ r.verb = verb /\ r.b = b BY <1>2
    <2>4. r = [pc |-> "run", door |-> r.door, b |-> r.b, verb |-> r.verb, key |-> r.key, no |-> r.no, todo |-> r.todo]
      BY <1>2
    <2>5. \A n \in 1 .. 0 : s[n] \in Range(Commands(r.verb)) => DidIn(bead, r.b, s[n], r.verb, r.no) OBVIOUS
    <2> HIDE DEF s
    <2>6. s = Script(r.door, r.verb) BY <2>3 DEF s
    <2> QED BY <2>2, <2>3, <2>4, <2>5, <2>6 DEF Stands, StandsIn
  <1>5. Told(r) BY <1>2 DEF Told, ToldIn, Fulfilled
  <1>6. UNCHANGED <<bead, idemStore>> BY DEF AskVerb
  <1> QED BY <1>1, <1>2, <1>4, <1>5, <1>6, Waiting

\* A step that is no command.
LEMMA LookKeeps ==
  ASSUME WritesInv, NEW c \in Client, req[c].pc = "run",
         Head(req[c].todo) \in {"show", "open?", "replay", "keep"},
         UNCHANGED <<bead, idemStore>>, Proceed(c)
  PROVE  WritesInv'
  <1>1. PICK r : r = req[c] OBVIOUS
  <1>2. Stands(r) BY <1>1 DEF WritesInv
  <1>3. Head(r.todo) \notin Range(Commands(r.verb))
    <2>1. r.verb \in Verb BY <1>2 DEF Stands, StandsIn
    <2> QED BY <1>1, <2>1, ScriptSpelt DEF Verbs
  <1>4. Told(Step(r)) /\ (Step(r).pc = "run" => Stands(Step(r))) BY <1>2, <1>3, AdvancesNow
  <1>5. req' = [req EXCEPT ![c] = Step(r)] BY <1>1 DEF Proceed, Step
  <1> QED BY <1>4, <1>5, Waiting

LEMMA RefusedKeeps ==
  ASSUME WritesInv, NEW c \in Client, NEW outcome, outcome # "ok",
         UNCHANGED <<bead, idemStore>>, AnswerWith(c, outcome, req[c].no)
  PROVE  WritesInv'
  <1>1. PICK no : no = req[c].no OBVIOUS
  <1>2. Told(Answered(outcome, no)) /\ Answered(outcome, no).pc # "run" BY DEF Told, ToldIn, Answered, Fulfilled
  <1>3. req' = [req EXCEPT ![c] = Answered(outcome, no)] BY <1>1 DEF AnswerWith
  <1> QED BY <1>2, <1>3, Waiting

LEMMA ShowKeeps == ASSUME WritesInv, NEW c \in Client, Show(c) PROVE WritesInv'
  <1>1. /\ req[c].pc = "run" /\ Head(req[c].todo) = "show" /\ UNCHANGED <<bead, idemStore>>
        /\ Proceed(c) \/ AnswerWith(c, "unverified", req[c].no)
    BY DEF Show, Doing
  <1> QED BY <1>1, LookKeeps, RefusedKeeps

LEMMA LooksOpenKeeps == ASSUME WritesInv, NEW c \in Client, LooksOpen(c) PROVE WritesInv'
  <1>1. /\ req[c].pc = "run" /\ Head(req[c].todo) = "open?" /\ UNCHANGED <<bead, idemStore>>
        /\ Proceed(c) \/ AnswerWith(c, "409", req[c].no)
    BY DEF LooksOpen, Doing
  <1> QED BY <1>1, LookKeeps, RefusedKeeps

LEMMA ReplayKeeps == ASSUME WritesInv, NEW c \in Client, ReplayAnswer(c) PROVE WritesInv'
  <1>1. req[c].pc = "run" /\ Head(req[c].todo) = "replay" /\ UNCHANGED <<bead, idemStore>>
    BY DEF ReplayAnswer, Doing
  <1>2. CASE Proceed(c) BY <1>1, <1>2, LookKeeps
  <1>3. CASE req[c].key \in DOMAIN idemStore /\ AnswerWith(c, "ok", idemStore[req[c].key])
    <2>1. PICK no : no = idemStore[req[c].key] OBVIOUS
    <2>2. Fulfilled(no) BY <1>3, <2>1 DEF WritesInv, KeptAreTrue
    <2>3. Told(Answered("ok", no)) /\ Answered("ok", no).pc # "run" BY <2>2 DEF Told, ToldIn, Answered, Fulfilled
    <2>4. req' = [req EXCEPT ![c] = Answered("ok", no)] BY <1>3, <2>1 DEF AnswerWith
    <2> QED BY <1>1, <2>3, <2>4, Waiting
  <1> QED BY <1>2, <1>3 DEF ReplayAnswer

\* When the close of a decision is next, its comment is written; when the
\* answer is to be kept, nothing else is left.
LEMMA DecidedFirst ==
  ASSUME NEW r, Stands(r), Head(r.todo) = "close", r.verb \in Decision
  PROVE  Did(r.b, r.verb, r.verb, r.no)
  <1> DEFINE s == Script(r.door, r.verb)
  <1>0. r.door \in {"get", "tool"} /\ r.verb \in Verb BY DEF Stands, StandsIn
  <1>1. InOrderOf(s, r.verb) BY <1>0, ScriptFacts
  <1>2. PICK k \in 0 .. Len(s) - 1 :
          /\ r.todo = SubSeq(s, k + 1, Len(s))
          /\ \A n \in 1 .. k : s[n] \in Range(Commands(r.verb)) => Did(r.b, s[n], r.verb, r.no)
    BY DEF Stands, StandsIn, Did
  <1> HIDE DEF s
  <1>3. s \in Seq({s[n] : n \in DOMAIN s}) BY <1>1 DEF InOrderOf
  <1>4. Head(r.todo) = s[k + 1] /\ k + 1 \in 1 .. Len(s) BY <1>2, <1>3
  <1>5. PICK m \in 1 .. k : s[m] = r.verb BY <1>1, <1>4 DEF InOrderOf
  <1>6. r.verb \in Range(Commands(r.verb)) BY <1>1 DEF InOrderOf
  <1> QED BY <1>2, <1>5, <1>6

LEMMA KeepIsLast ==
  ASSUME NEW r, Stands(r), Head(r.todo) = "keep"
  PROVE  Len(r.todo) = 1
  <1> DEFINE s == Script(r.door, r.verb)
  <1>0. r.door \in {"get", "tool"} /\ r.verb \in Verb BY DEF Stands, StandsIn
  <1>1. InOrderOf(s, r.verb) BY <1>0, ScriptFacts
  <1>2. PICK k \in 0 .. Len(s) - 1 : r.todo = SubSeq(s, k + 1, Len(s))
    BY DEF Stands, StandsIn, Did
  <1> HIDE DEF s
  <1>3. s \in Seq({s[n] : n \in DOMAIN s}) BY <1>1 DEF InOrderOf
  <1>4. Head(r.todo) = s[k + 1] /\ k + 1 \in 1 .. Len(s) /\ Len(r.todo) = Len(s) - k BY <1>2, <1>3
  <1>5. k + 1 = Len(s) BY <1>1, <1>4 DEF InOrderOf
  <1> QED BY <1>3, <1>4, <1>5

\* A step that leaves the requests as they are.
LEMMA StillStand ==
  ASSUME WritesInv, Remembered, Logs', AllClose', KeptAreTrue', UNCHANGED req
  PROVE  WritesInv'
  <1>1. ASSUME NEW c \in Client PROVE Told(req[c])' /\ (req[c].pc = "run" => Stands(req[c]))'
    <2>1. PICK q : q = req[c] OBVIOUS
    <2>2. Told(q)' /\ (q.pc = "run" => Stands(q)') BY <2>1, FactsStay DEF WritesInv
    <2>3. q = req'[c] BY <2>1
    <2>4. Told(req[c])' BY <2>2, <2>3 DEF Told, ToldIn, Fulfilled, FulfilledIn, Did, DidIn
    <2>5. ASSUME req'[c].pc = "run" PROVE Stands(req[c])' BY <2>2, <2>3, <2>5 DEF Stands
    <2> QED BY <2>4, <2>5
  <1>2. req' = [c \in Client |-> req'[c]] BY DEF WritesInv
  <1> QED BY <1>1, <1>2 DEF WritesInv

LEMMA CommandKeeps == ASSUME WritesInv, NEW c \in Client, Command(c) PROVE WritesInv'
  <1>1. PICK what \in UNION {Range(Commands(v)) : v \in Verb} :
          /\ Doing(c, what)
          /\ \/ NoMishap /\ Done(req[c].b, what, req[c].verb, req[c].no) /\ Proceed(c)
             \/ /\ Mishap /\ AnswerWith(c, "failed", req[c].no)
                /\ (UNCHANGED bead \/ Done(req[c].b, what, req[c].verb, req[c].no))
    BY DEF Command
  <1>2. UNCHANGED idemStore BY DEF Command
  <1>3. PICK r : r = req[c] OBVIOUS
  <1>4. Stands(r) /\ Head(r.todo) = what BY <1>1, <1>3 DEF Doing, WritesInv
  <1>5. r.b \in Target BY <1>4 DEF Stands, StandsIn
  <1>6. what = "close" /\ r.verb \in Decision => Did(r.b, r.verb, r.verb, r.no) BY <1>4, DecidedFirst
  <1>7. ASSUME Done(r.b, what, r.verb, r.no)
        PROVE  Remembered /\ Did(r.b, what, r.verb, r.no)' /\ Logs' /\ AllClose'
    BY <1>5, <1>6, <1>7, CommandLogged DEF WritesInv
  <1>8. CASE Done(r.b, what, r.verb, r.no) /\ Proceed(c)
    <2>1. Remembered /\ Did(r.b, what, r.verb, r.no)' /\ Logs' /\ AllClose' BY <1>7, <1>8
    <2>2. KeptAreTrue' BY <1>2, <2>1, KeptStay
    <2>3. Stands(r)' BY <1>4, <2>1, FactsStay
    <2>4. Told(Step(r))' /\ (Step(r).pc = "run" => Stands(Step(r))') 
      <3>1. StandsIn(bead', r) /\ DidIn(bead', r.b, what, r.verb, r.no) BY <2>1, <2>3 DEF Stands, Did
      <3>2. PICK B : B = bead' OBVIOUS
      <3>3. PICK q : q = Step(r) OBVIOUS
      <3>4. ToldIn(bead', q) /\ (q.pc = "run" => StandsIn(bead', q)) BY <1>4, <3>1, <3>2, <3>3, Advances
      <3>5. ToldIn(bead', Step(r)) /\ (Step(r).pc = "run" => StandsIn(bead', Step(r))) BY <3>3, <3>4
      <3> QED BY <3>5 DEF Told, Stands
    <2>5. req' = [req EXCEPT ![c] = Step(r)] BY <1>3, <1>8 DEF Proceed, Step
    <2> QED BY <2>1, <2>2, <2>4, <2>5, OneGoesOn
  <1>9. CASE AnswerWith(c, "failed", req[c].no) /\ UNCHANGED bead BY <1>2, <1>9, RefusedKeeps
  <1>10. CASE AnswerWith(c, "failed", r.no) /\ Done(r.b, what, r.verb, r.no)
    <2>1. Remembered /\ Logs' /\ AllClose' BY <1>7, <1>10
    <2>2. KeptAreTrue' BY <1>2, <2>1, KeptStay
    <2>3. PICK q : q = Answered("failed", r.no) OBVIOUS
    <2>4. q.pc = "idle" /\ q.outcome = "failed" BY <2>3 DEF Answered
    <2>5. Told(q)' /\ q.pc # "run" BY <2>4 DEF Told, ToldIn, Fulfilled
    <2>6. req' = [req EXCEPT ![c] = q] BY <1>10, <2>3 DEF AnswerWith
    <2> QED BY <2>1, <2>2, <2>5, <2>6, OneGoesOn
  <1> QED BY <1>1, <1>3, <1>8, <1>9, <1>10

\* An answer that is kept is that of a request that did every command.
LEMMA KeepKeeps == ASSUME WritesInv, NEW c \in Client, Keep(c) PROVE WritesInv'
  <1>1. /\ req[c].pc = "run" /\ Head(req[c].todo) = "keep" /\ UNCHANGED bead /\ Proceed(c)
        /\ idemStore' = IF req[c].key = NoKey THEN idemStore
                        ELSE [k \in DOMAIN idemStore \union {req[c].key} |->
                                IF k = req[c].key THEN req[c].no ELSE idemStore[k]]
    BY DEF Keep, Doing
  <1>2. PICK r : r = req[c] OBVIOUS
  <1>3. Stands(r) /\ Head(r.todo) = "keep" BY <1>1, <1>2 DEF WritesInv
  <1>4. Head(r.todo) \notin Range(Commands(r.verb))
    <2>1. r.verb \in Verb BY <1>3 DEF Stands, StandsIn
    <2> QED BY <1>3, <2>1, ScriptSpelt DEF Verbs
  <1>5. Told(Step(r)) /\ (Step(r).pc = "run" => Stands(Step(r))) BY <1>3, <1>4, AdvancesNow
  <1>6. Len(r.todo) = 1 BY <1>3, KeepIsLast
  <1>7. Fulfilled(r.no) BY <1>5, <1>6 DEF Step, Told, ToldIn, Answered, Fulfilled
  <1>8. Remembered /\ Logs' /\ AllClose' BY <1>1, Untouched
  <1>9. KeptAreTrue'
    <2>1. \A no : Fulfilled(no) => Fulfilled(no)' BY <1>8, FactsStay
    <2>2. \A k \in DOMAIN idemStore' : Fulfilled(idemStore'[k])
      BY <1>1, <1>2, <1>7 DEF WritesInv, KeptAreTrue
    <2>3. ASSUME NEW k \in DOMAIN idemStore' PROVE Fulfilled(idemStore[k])'
      <3>1. PICK no : no = idemStore'[k] OBVIOUS
      <3>2. Fulfilled(no)' BY <2>1, <2>2, <3>1
      <3> QED BY <3>1, <3>2 DEF Fulfilled, FulfilledIn, Did, DidIn
    <2> QED BY <2>3 DEF KeptAreTrue
  <1>10. Told(Step(r))' /\ (Step(r).pc = "run" => Stands(Step(r))') BY <1>5, <1>8, FactsStay
  <1>11. req' = [req EXCEPT ![c] = Step(r)] BY <1>1, <1>2 DEF Proceed, Step
  <1> QED BY <1>8, <1>9, <1>10, <1>11, OneGoesOn

LEMMA PruneKeeps == ASSUME WritesInv, Prune PROVE WritesInv'
  <1>1. PICK k \in DOMAIN idemStore : idemStore' = [l \in DOMAIN idemStore \ {k} |-> idemStore[l]] BY DEF Prune
  <1>2. UNCHANGED <<bead, req>> BY DEF Prune
  <1>3. Remembered /\ Logs' /\ AllClose' BY <1>2, Untouched
  <1>4. KeptAreTrue'
    <2> SUFFICES ASSUME NEW l \in DOMAIN idemStore' PROVE Fulfilled(idemStore[l])' BY DEF KeptAreTrue
    <2>1. PICK no : no = idemStore'[l] OBVIOUS
    <2>2. Fulfilled(no) BY <1>1, <2>1 DEF WritesInv, KeptAreTrue
    <2>3. Fulfilled(no)' BY <1>3, <2>2, FactsStay
    <2> QED BY <2>1, <2>3 DEF Fulfilled, FulfilledIn, Did, DidIn
  <1> QED BY <1>2, <1>3, <1>4, StillStand

LEMMA PasteKeeps == ASSUME WritesInv, NEW c \in Client, Paste(c) PROVE WritesInv'
  <1>1. PICK text \in Pasted :
          req' = [req EXCEPT ![c] =
            IF text \in DOMAIN hashes THEN [pc |-> "idle", outcome |-> "duplicate", text |-> text, id |-> hashes[text]]
            ELSE [pc |-> "create", door |-> "paste", text |-> text]]
    BY DEF Paste
  <1>2. PICK r : r = IF text \in DOMAIN hashes
                       THEN [pc |-> "idle", outcome |-> "duplicate", text |-> text, id |-> hashes[text]]
                       ELSE [pc |-> "create", door |-> "paste", text |-> text]
    OBVIOUS
  <1>3. r.pc = "create" \/ (r.pc = "idle" /\ r.outcome = "duplicate") BY <1>2
  <1>4. Told(r) /\ r.pc # "run" BY <1>3 DEF Told, ToldIn, Fulfilled
  <1>5. UNCHANGED <<bead, idemStore>> /\ req' = [req EXCEPT ![c] = r] BY <1>1, <1>2 DEF Paste
  <1> QED BY <1>4, <1>5, Waiting

LEMMA CreatePastedKeeps == ASSUME WritesInv, NEW c \in Client, CreatePasted(c) PROVE WritesInv'
  <1>1. PICK r : /\ req' = [req EXCEPT ![c] = r]
                 /\ \/ r = [pc |-> "idle", outcome |-> "pasted", text |-> req[c].text, id |-> Len(inbox) + 1]
                    \/ r = [pc |-> "idle", outcome |-> "failed"]
    BY DEF CreatePasted
  <1>2. r.pc = "idle" /\ r.outcome # "ok" BY <1>1
  <1>3. Told(r) /\ r.pc # "run" BY <1>2 DEF Told, ToldIn, Fulfilled
  <1>4. UNCHANGED <<bead, idemStore>> BY DEF CreatePasted
  <1> QED BY <1>1, <1>3, <1>4, Waiting

LEMMA OutsideKeeps == ASSUME WritesInv, Outside PROVE WritesInv'
  <1>1. PICK b \in Target : bead' = [bead EXCEPT ![b].open = ~@] BY DEF Outside
  <1>2. UNCHANGED <<req, idemStore>> BY DEF Outside
  <1>3. /\ bead' = [t \in Target |-> bead'[t]]
        /\ \A t \in Target : bead'[t] = [open |-> bead'[t].open, log |-> bead'[t].log] /\ bead'[t].log = bead[t].log
    <2>1. /\ bead = [t \in Target |-> bead[t]]
          /\ \A t \in Target : bead[t] = [open |-> bead[t].open, log |-> bead[t].log]
      BY DEF WritesInv, Logs, Logged
    <2> QED BY <1>1, <2>1
  <1>4. Remembered BY <1>3 DEF Remembered, Did, DidIn
  <1>5. Logs' BY <1>3 DEF WritesInv, Logs, Logged
  <1>6. AllClose' BY <1>3 DEF WritesInv, AllClose
  <1>7. KeptAreTrue' BY <1>2, <1>4, KeptStay
  <1> QED BY <1>2, <1>4, <1>5, <1>6, <1>7, StillStand

LEMMA RestartBridgeKeeps == ASSUME WritesInv, RestartBridge PROVE WritesInv'
  <1>1. req' = [c \in Client |-> [pc |-> "idle"]] /\ idemStore' = << >> /\ UNCHANGED bead BY DEF RestartBridge
  <1>2. Logs' /\ AllClose' BY <1>1, Untouched
  <1>3. KeptAreTrue' BY <1>1 DEF KeptAreTrue
  <1>4. \A c \in Client : req'[c].pc = "idle" /\ "of" \notin DOMAIN req'[c] BY <1>1
  <1>5. \A c \in Client : Told(req[c])' BY <1>4 DEF Told, ToldIn, Fulfilled
  <1> QED BY <1>1, <1>2, <1>3, <1>4, <1>5 DEF WritesInv

LEMMA WritesInvInit == ASSUME WritesInit PROVE WritesInv
  <1>1. Logs
    <2>1. bead = [b \in Target |-> [open |-> TRUE, log |-> << >>]] BY DEF WritesInit
    <2>2. \A x : x = [open |-> TRUE, log |-> << >>] => Logged(x)
      <3>1. \A S : << >> \in Seq(S) OBVIOUS
      <3>2. ASSUME NEW x, x = [open |-> TRUE, log |-> << >>] PROVE Logged(x)
        <4>1. x.log = << >> /\ x = [open |-> x.open, log |-> x.log] BY <3>2
        <4> QED BY <3>1, <4>1 DEF Logged
      <3> QED BY <3>2
    <2>3. \A b \in Target : bead[b] = [open |-> TRUE, log |-> << >>] BY <2>1
    <2> QED BY <2>1, <2>2, <2>3 DEF Logs
  <1>2. AllClose BY DEF WritesInit, AllClose, Closes
  <1>3. KeptAreTrue BY DEF WritesInit, KeptAreTrue
  <1>4. \A c \in Client : req[c].pc = "idle" /\ "of" \notin DOMAIN req[c] BY DEF WritesInit
  <1>5. req = [c \in Client |-> req[c]] BY DEF WritesInit
  <1> QED BY <1>1, <1>2, <1>3, <1>4, <1>5 DEF WritesInv, Told, ToldIn, Fulfilled

LEMMA WritesInvStep == ASSUME WritesInv, [WritesNext]_writeVars PROVE WritesInv'
  <1>1. CASE UNCHANGED writeVars
    <2>1. UNCHANGED <<bead, req, idemStore>> BY <1>1 DEF writeVars
    <2>2. Remembered /\ Logs' /\ AllClose' BY <2>1, Untouched
    <2> QED BY <2>1, <2>2, KeptStay, StillStand
  <1>2. CASE WritesNext
    BY <1>2, AskVerbKeeps, CommandKeeps, ShowKeeps, LooksOpenKeeps, ReplayKeeps, KeepKeeps, PasteKeeps,
       CreatePastedKeeps, PruneKeeps, OutsideKeeps, RestartBridgeKeeps DEF WritesNext
  <1> QED BY <1>1, <1>2

LEMMA WritesInvDecides == ASSUME WritesInv PROVE DecisionsAreTrue
  <1>1. ASSUME NEW c \in Client, req[c].pc = "idle", "of" \in DOMAIN req[c], req[c].outcome = "ok"
        PROVE  \E e \in Entries : /\ e.by = req[c].of
                                  /\ \A what \in Range(Commands(e.verb)) : [e EXCEPT !.did = what] \in Entries
    <2>1. PICK no : no = req[c].of OBVIOUS
    <2>2. Fulfilled(no) BY <1>1, <2>1 DEF WritesInv, Told, ToldIn, Fulfilled
    <2>3. PICK b \in Target, verb \in Verb : \A what \in Range(Commands(verb)) : Did(b, what, verb, no)
      BY <2>2 DEF Fulfilled, FulfilledIn, Did
    <2>4. \A what \in Range(Commands(verb)) : [did |-> what, verb |-> verb, by |-> no] \in Entries
      <3> SUFFICES ASSUME NEW what \in Range(Commands(verb))
                   PROVE  [did |-> what, verb |-> verb, by |-> no] \in Entries
        OBVIOUS
      <3>1. PICK n \in DOMAIN bead[b].log : bead[b].log[n] = [did |-> what, verb |-> verb, by |-> no]
        BY <2>3 DEF Did, DidIn
      <3>2. bead[b].log[n] \in Range(bead[b].log) BY DEF Range
      <3> QED BY <3>1, <3>2 DEF Entries
    <2>5. PICK what : what \in Range(Commands(verb)) BY ScriptSpelt
    <2>6. PICK e : e = [did |-> what, verb |-> verb, by |-> no] OBVIOUS
    <2>7. e.by = no /\ e.verb = verb /\ \A w : [e EXCEPT !.did = w] = [did |-> w, verb |-> verb, by |-> no] BY <2>6
    <2> QED BY <2>1, <2>4, <2>5, <2>6, <2>7
  <1>2. ASSUME NEW b \in Target, NEW n \in DOMAIN bead[b].log,
               bead[b].log[n].did = "close", bead[b].log[n].verb \in Decision
        PROVE  \E m \in 1 .. n - 1 : bead[b].log[m] = [bead[b].log[n] EXCEPT !.did = bead[b].log[n].verb]
    BY <1>2 DEF WritesInv, AllClose, Closes
  <1> QED BY <1>1, <1>2 DEF DecisionsAreTrue

\* No bead is ever closed in a decision's name without the comment that says
\* so, and success is only told of what landed whole, for any clients, keys,
\* verbs, failures, restarts and writes from outside.
THEOREM DecisionsStayTrue == WritesSpec => []DecisionsAreTrue
  <1>1. WritesInit => WritesInv BY WritesInvInit
  <1>2. WritesInv /\ [WritesNext]_writeVars => WritesInv' BY WritesInvStep
  <1>3. WritesInv => DecisionsAreTrue BY WritesInvDecides
  <1> QED BY <1>1, <1>2, <1>3, PTL DEF WritesSpec

---------------------------------------------------------------------------
(* FollowUps: a listing that is whole is what was stale in its scope at one *)
(* moment since the request came, and so is a bank that was whole.          *)

\* p is a history: what the whole listing of a store showed at some moment.
ReadOnce(p, rows, labels, s, from, to) == \E k \in from .. to : rows = InScope(labels, s) \cap p[k].stale

BankRight(p, b) ==
  b # NoBank =>
    /\ b.from \in 1 .. Len(p) /\ b.at \in b.from .. Len(p)
    /\ b.whole => \E rows : /\ b.beads = UNION {rows[s] : s \in StaleStore}
                            /\ \A s \in StaleStore : ReadOnce(p, rows[s], b.labels, s, b.from, b.at)

AskShape(a) ==
  a = [kind |-> a.kind, step |-> a.step, labels |-> a.labels, rows |-> a.rows, from |-> a.from, to |-> a.to,
       whole |-> a.whole, resolved |-> a.resolved, fresh |-> a.fresh, base |-> a.base]
AskRight(p, a) ==
  /\ AskShape(a)
  /\ a.step \in {"own", "known", "list"} => a.from \in 1 .. Len(p)
  /\ a.step \in {"own", "known"} => DOMAIN a.rows = {}
  /\ a.step = "list" /\ a.whole => \A s \in DOMAIN a.rows : ReadOnce(p, a.rows[s], a.labels, s, a.from, Len(p))
  /\ a.step = "answered" /\ a.base # NoBank =>
       /\ BankRight(p, a.base)
       /\ a.from \in 1 .. Len(p) /\ a.to \in a.from .. Len(p)
       /\ a.resolved = a.base.beads \ UNION {a.rows[s] : s \in StaleStore}
       /\ a.fresh = (UNION {a.rows[s] : s \in StaleStore}) \ a.base.beads
       /\ a.whole => \A s \in StaleStore : ReadOnce(p, a.rows[s], a.labels, s, a.from, a.to)

History(p) == p \in Seq({p[n] : n \in DOMAIN p}) /\ Len(p) # 0

FollowInv ==
  /\ History(past)
  /\ asking = [r \in Asker |-> asking[r]]
  /\ \A r \in Asker : AskRight(past, asking[r])
  /\ BankRight(past, bank)

\* What was true of a history stays true of a longer one.
Continues(p, q) == Len(p) \in Nat /\ Len(q) \in Nat /\ Len(p) <= Len(q) /\ \A k \in 1 .. Len(p) : q[k] = p[k]

LEMMA SnapshotStays ==
  ASSUME NEW p, NEW q, Continues(p, q), NEW rows, NEW labels, NEW s,
         NEW from \in 1 .. Len(p), NEW to \in from .. Len(p), ReadOnce(p, rows, labels, s, from, to),
         NEW last \in to .. Len(q)
  PROVE  ReadOnce(q, rows, labels, s, from, last)
  BY DEF Continues, ReadOnce

LEMMA BankStays ==
  ASSUME NEW p, NEW q, Continues(p, q), NEW b, BankRight(p, b) PROVE BankRight(q, b)
  <1> SUFFICES ASSUME b # NoBank PROVE BankRight(q, b) BY DEF BankRight
  <1>1. b.from \in 1 .. Len(p) /\ b.at \in b.from .. Len(p) BY DEF BankRight
  <1>2. Len(p) \in Nat /\ Len(q) \in Nat /\ Len(p) <= Len(q) BY DEF Continues
  <1>3. ASSUME b.whole
        PROVE  \E rows : /\ b.beads = UNION {rows[s] : s \in StaleStore}
                         /\ \A s \in StaleStore : ReadOnce(q, rows[s], b.labels, s, b.from, b.at)
    <2>1. PICK rows : /\ b.beads = UNION {rows[s] : s \in StaleStore}
                      /\ \A s \in StaleStore : ReadOnce(p, rows[s], b.labels, s, b.from, b.at)
      BY <1>3 DEF BankRight
    <2>2. b.at \in b.at .. Len(q) BY <1>1, <1>2
    <2>3. \A s \in StaleStore : ReadOnce(q, rows[s], b.labels, s, b.from, b.at)
      BY <1>1, <2>1, <2>2, SnapshotStays
    <2> QED BY <2>1, <2>3
  <1> QED BY <1>1, <1>2, <1>3 DEF BankRight

LEMMA AskStays ==
  ASSUME NEW p, NEW q, Continues(p, q), NEW a, AskRight(p, a) PROVE AskRight(q, a)
  <1>1. Len(p) \in Nat /\ Len(q) \in Nat /\ Len(p) <= Len(q) BY DEF Continues
  <1>2. ASSUME a.step = "list", a.whole, NEW s \in DOMAIN a.rows
        PROVE  ReadOnce(q, a.rows[s], a.labels, s, a.from, Len(q))
    <2>1. ReadOnce(p, a.rows[s], a.labels, s, a.from, Len(p)) /\ a.from \in 1 .. Len(p) BY <1>2 DEF AskRight
    <2>2. Len(p) \in a.from .. Len(p) /\ Len(q) \in Len(p) .. Len(q) BY <1>1, <2>1
    <2> QED BY <2>1, <2>2, SnapshotStays
  <1>3. ASSUME a.step = "answered", a.base # NoBank
        PROVE  /\ BankRight(q, a.base)
               /\ a.from \in 1 .. Len(q) /\ a.to \in a.from .. Len(q)
               /\ a.whole => \A s \in StaleStore : ReadOnce(q, a.rows[s], a.labels, s, a.from, a.to)
    <2>1. BankRight(q, a.base) BY <1>3, BankStays DEF AskRight
    <2>2. a.from \in 1 .. Len(p) /\ a.to \in a.from .. Len(p) BY <1>3 DEF AskRight
    <2>3. a.to \in a.to .. Len(q) BY <1>1, <2>2
    <2>4. ASSUME a.whole, NEW s \in StaleStore PROVE ReadOnce(q, a.rows[s], a.labels, s, a.from, a.to)
      <3>1. ReadOnce(p, a.rows[s], a.labels, s, a.from, a.to) BY <1>3, <2>4 DEF AskRight
      <3> QED BY <2>2, <2>3, <3>1, SnapshotStays
    <2> QED BY <1>1, <2>1, <2>2, <2>4
  <1>4. a.step \in {"own", "known", "list"} => a.from \in 1 .. Len(q) BY <1>1 DEF AskRight
  <1> QED BY <1>2, <1>3, <1>4 DEF AskRight

LEMMA OneAsks ==
  ASSUME FollowInv, UNCHANGED past, NEW r \in Asker, NEW a, asking' = [asking EXCEPT ![r] = a],
         AskRight(past, a), BankRight(past, bank')
  PROVE  FollowInv'
  <1>1. asking' = [q \in Asker |-> IF q = r THEN a ELSE asking[q]] BY DEF FollowInv
  <1>2. \A q \in Asker : AskRight(past, asking'[q]) BY <1>1 DEF FollowInv
  <1>3. History(past') BY DEF FollowInv
  <1> QED BY <1>1, <1>2, <1>3 DEF FollowInv

LEMMA AskFollowKeeps ==
  ASSUME FollowInv, NEW r \in Asker, NEW kind, AskFollow(r, kind) PROVE FollowInv'
  <1>1. PICK a : a = [NotAsking EXCEPT !.kind = kind, !.from = Moment,
                        !.step = IF scope = NotKept THEN "own" ELSE "list",
                        !.labels = IF scope = NotKept THEN {} ELSE scope]
    OBVIOUS
  <1>2. asking' = [asking EXCEPT ![r] = a] /\ UNCHANGED <<past, bank>> BY <1>1 DEF AskFollow
  <1>3. Len(past) \in Nat /\ Len(past) # 0 BY DEF FollowInv, History
  <1>4. AskRight(past, a)
    <2>1. /\ a.from = Len(past) /\ a.rows = << >> /\ a.step \in {"own", "list"}
          /\ AskShape(a)
      BY <1>1 DEF NotAsking, Moment, AskShape
    <2>2. DOMAIN a.rows = {} BY <2>1
    <2> QED BY <1>3, <2>1, <2>2 DEF AskRight
  <1>5. BankRight(past, bank') BY <1>2 DEF FollowInv
  <1> QED BY <1>2, <1>4, <1>5, OneAsks

LEMMA DiscoverOwnKeeps ==
  ASSUME FollowInv, NEW r \in Asker, NEW fails, DiscoverOwn(r, fails) PROVE FollowInv'
  <1>1. PICK labels : asking' = [asking EXCEPT ![r].step = "known", ![r].labels = labels, ![r].whole = ~fails]
    BY DEF DiscoverOwn
  <1>2. PICK x : x = asking[r] OBVIOUS
  <1>3. PICK a : a = [x EXCEPT !.step = "known", !.labels = labels, !.whole = ~fails] OBVIOUS
  <1>4. asking' = [asking EXCEPT ![r] = a] BY <1>1, <1>2, <1>3 DEF FollowInv
  <1>5. AskRight(past, x) /\ x.step = "own" /\ UNCHANGED <<past, bank>> BY <1>2 DEF FollowInv, DiscoverOwn
  <1>6. AskRight(past, a)
    <2>1. /\ AskShape(a)
          /\ a.step = "known" /\ a.from = x.from /\ a.rows = x.rows
      BY <1>3, <1>5 DEF AskRight, AskShape
    <2> QED BY <1>5, <2>1 DEF AskRight
  <1> QED BY <1>4, <1>5, <1>6, OneAsks DEF FollowInv

LEMMA DiscoverKnownKeeps ==
  ASSUME FollowInv, NEW r \in Asker, NEW fails, DiscoverKnown(r, fails) PROVE FollowInv'
  <1>1. PICK labels : asking' = [asking EXCEPT ![r].step = "list", ![r].labels = labels, ![r].whole = @ /\ ~fails]
    BY DEF DiscoverKnown
  <1>2. PICK x : x = asking[r] OBVIOUS
  <1>3. PICK a : a = [x EXCEPT !.step = "list", !.labels = labels, !.whole = x.whole /\ ~fails] OBVIOUS
  <1>4. asking' = [asking EXCEPT ![r] = a] BY <1>1, <1>2, <1>3 DEF FollowInv
  <1>5. AskRight(past, x) /\ x.step = "known" /\ UNCHANGED <<past, bank>> BY <1>2 DEF FollowInv, DiscoverKnown
  <1>6. AskRight(past, a)
    <2>1. /\ AskShape(a)
          /\ a.step = "list" /\ a.from = x.from /\ a.rows = x.rows
      BY <1>3, <1>5 DEF AskRight, AskShape
    <2>2. DOMAIN a.rows = {} BY <1>5, <2>1 DEF AskRight
    <2> QED BY <1>5, <2>1, <2>2 DEF AskRight
  <1> QED BY <1>4, <1>5, <1>6, OneAsks DEF FollowInv

LEMMA ListStoreKeeps ==
  ASSUME FollowInv, NEW r \in Asker, NEW s \in StaleStore, NEW fails, ListStore(r, s, fails) PROVE FollowInv'
  <1>1. PICK rows : asking' = [asking EXCEPT ![r].rows = [t \in {s} \union DOMAIN @ |-> IF t = s THEN rows ELSE @[t]],
                                             ![r].whole = @ /\ ~fails /\ rows = RowsOf(s, asking[r].labels)]
    <2>1. PICK listed : asking' = [asking EXCEPT
                ![r].rows = [t \in {s} \union DOMAIN @ |-> IF t = s THEN listed \cap RowsOf(s, asking[r].labels) ELSE @[t]],
                ![r].whole = @ /\ ~fails /\ listed \cap RowsOf(s, asking[r].labels) = RowsOf(s, asking[r].labels)]
      BY DEF ListStore
    <2> QED BY <2>1
  <1>2. PICK x : x = asking[r] OBVIOUS
  <1>3. PICK a : a = [x EXCEPT !.rows = [t \in {s} \union DOMAIN x.rows |-> IF t = s THEN rows ELSE x.rows[t]],
                               !.whole = x.whole /\ ~fails /\ rows = RowsOf(s, x.labels)]
    OBVIOUS
  <1>4. asking' = [asking EXCEPT ![r] = a] BY <1>1, <1>2, <1>3 DEF FollowInv
  <1>5. AskRight(past, x) /\ x.step = "list" /\ UNCHANGED <<past, bank>> BY <1>2 DEF FollowInv, ListStore
  <1>6. AskRight(past, a)
    <2>1. /\ AskShape(a)
          /\ a.step = "list" /\ a.from = x.from /\ a.labels = x.labels
          /\ a.rows = [t \in {s} \union DOMAIN x.rows |-> IF t = s THEN rows ELSE x.rows[t]]
          /\ a.whole = (x.whole /\ ~fails /\ rows = RowsOf(s, x.labels))
      BY <1>3, <1>5 DEF AskRight, AskShape
    <2>2. a.from \in 1 .. Len(past) /\ Len(past) \in Nat BY <1>5, <2>1 DEF AskRight, FollowInv, History
    <2>3. ASSUME a.whole, NEW t \in DOMAIN a.rows PROVE ReadOnce(past, a.rows[t], a.labels, t, a.from, Len(past))
      <3>1. CASE t = s
        <4>1. a.rows[t] = InScope(a.labels, t) \cap past[Len(past)].stale
          BY <2>1, <2>3, <3>1 DEF RowsOf, Now, Last
        <4> QED BY <2>2, <4>1 DEF ReadOnce
      <3>2. CASE t # s
        <4>1. t \in DOMAIN x.rows /\ a.rows[t] = x.rows[t] /\ x.whole BY <2>1, <2>3, <3>2
        <4> QED BY <1>5, <2>1, <4>1 DEF AskRight
      <3> QED BY <3>1, <3>2
    <2> QED BY <2>1, <2>2, <2>3 DEF AskRight
  <1> QED BY <1>4, <1>5, <1>6, OneAsks DEF FollowInv

LEMMA AnswerBankKeeps ==
  ASSUME FollowInv, NEW r \in Asker, AnswerBank(r) PROVE FollowInv'
  <1>1. PICK x : x = asking[r] OBVIOUS
  <1>2. PICK a : a = [NotAsking EXCEPT !.step = "answered"] OBVIOUS
  <1>3. /\ asking' = [asking EXCEPT ![r] = a] /\ UNCHANGED past
        /\ x.step = "list" /\ DOMAIN x.rows = StaleStore /\ AskRight(past, x)
        /\ bank' = [at |-> Len(past), from |-> x.from, beads |-> UNION {x.rows[s] : s \in StaleStore},
                    labels |-> x.labels, whole |-> x.whole]
    BY <1>1, <1>2 DEF AnswerBank, Listed, StaleNow, Moment, FollowInv
  <1>4. AskRight(past, a)
    <2>1. /\ AskShape(a)
          /\ a.step = "answered" /\ a.base = NoBank
      BY <1>2 DEF NotAsking, AskShape
    <2> QED BY <2>1 DEF AskRight
  <1>5. BankRight(past, bank')
    <2>1. x.from \in 1 .. Len(past) /\ Len(past) \in x.from .. Len(past)
      BY <1>3 DEF AskRight, FollowInv, History
    <2>2. x.whole => \A s \in StaleStore : ReadOnce(past, x.rows[s], x.labels, s, x.from, Len(past))
      BY <1>3 DEF AskRight
    <2>3. PICK b : b = bank' OBVIOUS
    <2>4. /\ b.at = Len(past) /\ b.from = x.from /\ b.beads = UNION {x.rows[s] : s \in StaleStore}
          /\ b.labels = x.labels /\ b.whole = x.whole
      BY <1>3, <2>3
    <2>5. BankRight(past, b) BY <2>1, <2>2, <2>4 DEF BankRight
    <2> QED BY <2>3, <2>5
  <1> QED BY <1>3, <1>4, <1>5, OneAsks

LEMMA AnswerFollowKeeps ==
  ASSUME FollowInv, NEW r \in Asker, AnswerFollow(r) PROVE FollowInv'
  <1>1. PICK x : x = asking[r] OBVIOUS
  <1>2. PICK gone, fresh :
          /\ gone = IF bank = NoBank THEN {} ELSE NewlyResolved(bank.beads, StaleNow(r))
          /\ fresh = IF bank = NoBank THEN {} ELSE NewlyStale(bank.beads, StaleNow(r))
    OBVIOUS
  <1>3. PICK a : a = [x EXCEPT !.step = "answered", !.base = bank, !.to = Len(past), !.resolved = gone, !.fresh = fresh]
    OBVIOUS
  <1>4. /\ asking' = [asking EXCEPT ![r] = a] /\ UNCHANGED <<past, bank>>
        /\ x.step = "list" /\ DOMAIN x.rows = StaleStore /\ AskRight(past, x)
    BY <1>1, <1>2, <1>3 DEF AnswerFollow, Listed, Moment, FollowInv
  <1>5. AskRight(past, a)
    <2>1. /\ AskShape(a)
          /\ a.step = "answered" /\ a.base = bank /\ a.from = x.from /\ a.to = Len(past) /\ a.rows = x.rows
          /\ a.labels = x.labels /\ a.whole = x.whole /\ a.resolved = gone /\ a.fresh = fresh
      BY <1>3, <1>4 DEF AskRight, AskShape
    <2>2. x.from \in 1 .. Len(past) /\ Len(past) \in x.from .. Len(past)
      BY <1>4 DEF AskRight, FollowInv, History
    <2>3. x.whole => \A s \in StaleStore : ReadOnce(past, x.rows[s], x.labels, s, x.from, Len(past))
      BY <1>4 DEF AskRight
    <2>4. StaleNow(r) = UNION {a.rows[s] : s \in StaleStore} BY <1>1, <2>1 DEF StaleNow
    <2>5. a.base # NoBank => /\ a.resolved = a.base.beads \ UNION {a.rows[s] : s \in StaleStore}
                             /\ a.fresh = (UNION {a.rows[s] : s \in StaleStore}) \ a.base.beads
      BY <1>2, <2>1, <2>4 DEF NewlyResolved, NewlyStale
    <2>6. BankRight(past, a.base) BY <2>1 DEF FollowInv
    <2> QED BY <2>1, <2>2, <2>3, <2>5, <2>6 DEF AskRight
  <1> QED BY <1>4, <1>5, OneAsks DEF FollowInv

LEMMA StirKeeps == ASSUME FollowInv, Stir PROVE FollowInv'
  <1>1. PICK new : past' = Append(past, new) BY DEF Stir
  <1>2. UNCHANGED <<asking, bank>> BY DEF Stir
  <1> DEFINE S == {past[n] : n \in DOMAIN past}
  <1>3. past \in Seq(S) /\ past \in Seq(S \cup {new}) /\ new \in S \cup {new} /\ Len(past) \in Nat
    BY DEF FollowInv, History
  <1> HIDE DEF S
  <1>4. /\ past' \in Seq(S \cup {new}) /\ Len(past') = Len(past) + 1
        /\ \A n \in 1 .. Len(past) : past'[n] = past[n]
    BY <1>1, <1>3
  <1>5. Continues(past, past') BY <1>3, <1>4 DEF Continues
  <1>6. \A p : p \in Seq(S \cup {new}) => p \in Seq({p[n] : n \in DOMAIN p}) OBVIOUS
  <1>7. History(past') BY <1>3, <1>4, <1>6 DEF History
  <1>8. \A r \in Asker : AskRight(past', asking[r]) BY <1>5, AskStays DEF FollowInv
  <1>9. BankRight(past', bank) BY <1>5, BankStays DEF FollowInv
  <1> QED BY <1>2, <1>7, <1>8, <1>9 DEF FollowInv

LEMMA FollowInvInit == ASSUME FollowInit PROVE FollowInv
  <1>1. PICK x : past = <<x>> BY DEF FollowInit
  <1>2. History(past)
    <2>1. <<x>> \in Seq({x}) /\ Len(<<x>>) = 1 /\ {<<x>>[n] : n \in DOMAIN <<x>>} = {x} OBVIOUS
    <2> QED BY <1>1, <2>1 DEF History
  <1>3. \A r \in Asker : asking[r] = NotAsking BY DEF FollowInit
  <1>4. AskRight(past, NotAsking) BY DEF AskRight, AskShape, NotAsking
  <1>5. BankRight(past, NoBank) BY DEF BankRight
  <1> QED BY <1>2, <1>3, <1>4, <1>5 DEF FollowInit, FollowInv

LEMMA FollowInvStep == ASSUME FollowInv, [FollowNext]_followVars PROVE FollowInv'
  <1>1. ASSUME UNCHANGED <<past, asking>>, BankRight(past, bank') PROVE FollowInv' BY <1>1 DEF FollowInv
  <1>2. CASE UNCHANGED followVars BY <1>1, <1>2 DEF followVars, FollowInv
  <1>3. CASE LabelsExpire BY <1>1, <1>3 DEF LabelsExpire, FollowInv
  <1>4. CASE BankIsLost
    <2>1. BankRight(past, NoBank) BY DEF BankRight
    <2> QED BY <1>1, <1>4, <2>1 DEF BankIsLost
  <1>5. CASE Stir BY <1>5, StirKeeps
  <1>6. ASSUME NEW r \in Asker,
               \/ \E kind \in {"bank", "follow-up"} : AskFollow(r, kind)
               \/ \E fails \in {FALSE} \union {missed < MaxMissed} :
                    \/ DiscoverOwn(r, fails) \/ DiscoverKnown(r, fails)
                    \/ \E s \in StaleStore : ListStore(r, s, fails)
               \/ AnswerBank(r) \/ AnswerFollow(r)
        PROVE  FollowInv'
    BY <1>6, AskFollowKeeps, DiscoverOwnKeeps, DiscoverKnownKeeps, ListStoreKeeps, AnswerBankKeeps, AnswerFollowKeeps
  <1> QED BY <1>2, <1>3, <1>4, <1>5, <1>6 DEF FollowNext

LEMMA FollowInvTells == ASSUME FollowInv PROVE ReportIsTrue
  <1> SUFFICES ASSUME NEW r \in Asker, NEW a, a = asking[r], NEW b, b = a.base,
                      a.step = "answered", b # NoBank, a.whole, b.whole, a.labels = b.labels, b.at <= a.from
               PROVE  /\ \A x \in a.resolved :
                           \E k \in b.from .. b.at : /\ Stale(k, x)
                                                     /\ \E n \in {m \in a.from .. a.to : k <= m} : ~Stale(n, x)
                      /\ \A x \in a.fresh :
                           \E k \in b.from .. b.at : /\ ~Stale(k, x)
                                                     /\ \E n \in {m \in a.from .. a.to : k <= m} : Stale(n, x)
                      /\ \A x \in UNION {InScope(a.labels, s) : s \in StaleStore} :
                           /\ (\A k \in b.from .. b.at : Stale(k, x)) /\ (\A n \in a.from .. a.to : ~Stale(n, x))
                                => x \in a.resolved
                           /\ (\A k \in b.from .. b.at : ~Stale(k, x)) /\ (\A n \in a.from .. a.to : Stale(n, x))
                                => x \in a.fresh
    BY DEF ReportIsTrue
  <1>1. /\ AskRight(past, a) /\ BankRight(past, b) BY DEF FollowInv, AskRight
  <1>2. /\ b.from \in 1 .. Len(past) /\ b.at \in b.from .. Len(past)
        /\ a.from \in 1 .. Len(past) /\ a.to \in a.from .. Len(past)
    BY <1>1 DEF AskRight, BankRight
  <1>3. PICK rows : /\ b.beads = UNION {rows[s] : s \in StaleStore}
                    /\ \A s \in StaleStore : ReadOnce(past, rows[s], b.labels, s, b.from, b.at)
    BY <1>1 DEF BankRight
  <1>4. \A s \in StaleStore : ReadOnce(past, a.rows[s], a.labels, s, a.from, a.to) BY <1>1 DEF AskRight
  <1>5. /\ a.resolved = b.beads \ UNION {a.rows[s] : s \in StaleStore}
        /\ a.fresh = (UNION {a.rows[s] : s \in StaleStore}) \ b.beads
    BY <1>1 DEF AskRight
  <1>6. \A s \in StaleStore :
          /\ \E k \in b.from .. b.at : \A x : x \in rows[s] <=> x \in InScope(a.labels, s) /\ Stale(k, x)
          /\ \E n \in a.from .. a.to : \A x : x \in a.rows[s] <=> x \in InScope(a.labels, s) /\ Stale(n, x)
    <2> SUFFICES ASSUME NEW s \in StaleStore
                 PROVE  /\ \E k \in b.from .. b.at : \A x : x \in rows[s] <=> x \in InScope(a.labels, s) /\ Stale(k, x)
                        /\ \E n \in a.from .. a.to : \A x : x \in a.rows[s] <=> x \in InScope(a.labels, s) /\ Stale(n, x)
      OBVIOUS
    <2>1. PICK k \in b.from .. b.at : rows[s] = InScope(b.labels, s) \cap past[k].stale BY <1>3 DEF ReadOnce
    <2>2. PICK n \in a.from .. a.to : a.rows[s] = InScope(a.labels, s) \cap past[n].stale BY <1>4 DEF ReadOnce
    <2> QED BY <2>1, <2>2 DEF Stale
  <1>7. \A k \in b.from .. b.at, n \in a.from .. a.to : n \in {m \in a.from .. a.to : k <= m} BY <1>2
  <1>8. ASSUME NEW x \in a.resolved
        PROVE  \E k \in b.from .. b.at : /\ Stale(k, x)
                                         /\ \E n \in {m \in a.from .. a.to : k <= m} : ~Stale(n, x)
    <2>1. PICK s \in StaleStore : x \in rows[s] /\ x \notin a.rows[s] BY <1>3, <1>5
    <2> QED BY <1>6, <1>7, <2>1
  <1>9. ASSUME NEW x \in a.fresh
        PROVE  \E k \in b.from .. b.at : /\ ~Stale(k, x)
                                         /\ \E n \in {m \in a.from .. a.to : k <= m} : Stale(n, x)
    <2>1. PICK s \in StaleStore : x \in a.rows[s] /\ x \notin rows[s] BY <1>3, <1>5
    <2> QED BY <1>6, <1>7, <2>1
  <1>10. ASSUME NEW x, NEW s \in StaleStore, x \in InScope(a.labels, s)
         PROVE  /\ (\A k \in b.from .. b.at : Stale(k, x)) /\ (\A n \in a.from .. a.to : ~Stale(n, x))
                     => x \in a.resolved
                /\ (\A k \in b.from .. b.at : ~Stale(k, x)) /\ (\A n \in a.from .. a.to : Stale(n, x))
                     => x \in a.fresh
    <2>1. ASSUME \A k \in b.from .. b.at : Stale(k, x), \A n \in a.from .. a.to : ~Stale(n, x)
          PROVE  x \in a.resolved
      <3>1. x \in rows[s] BY <1>6, <1>10, <2>1
      <3>2. \A t \in StaleStore : x \notin a.rows[t] BY <1>6, <2>1
      <3> QED BY <1>3, <1>5, <3>1, <3>2
    <2>2. ASSUME \A k \in b.from .. b.at : ~Stale(k, x), \A n \in a.from .. a.to : Stale(n, x)
          PROVE  x \in a.fresh
      <3>1. x \in a.rows[s] BY <1>6, <1>10, <2>2
      <3>2. \A t \in StaleStore : x \notin rows[t] BY <1>6, <2>2
      <3> QED BY <1>3, <1>5, <3>1, <3>2
    <2> QED BY <2>1, <2>2
  <1> QED BY <1>8, <1>9, <1>10

\* A follow-up tells no change that was not one, and leaves out none that held
\* all along, for any stores, labels, requests at once, failed listings and
\* restarts.
THEOREM ReportsAreTrue == FollowSpec => []ReportIsTrue
  <1>1. FollowInit => FollowInv BY FollowInvInit
  <1>2. FollowInv /\ [FollowNext]_followVars => FollowInv' BY FollowInvStep
  <1>3. FollowInv => ReportIsTrue BY FollowInvTells
  <1> QED BY <1>1, <1>2, <1>3, PTL DEF FollowSpec

---------------------------------------------------------------------------
(* Live: whatever is under way to a page is of the running process, and the *)
(* page shows no view above the highest revision it has seen.               *)

PageShape(pg) ==
  pg = [phase |-> pg.phase, surface |-> pg.surface, boot |-> pg.boot, told |-> pg.told, events |-> pg.events,
        selected |-> pg.selected, view |-> pg.view, revision |-> pg.revision, beat |-> pg.beat,
        stream |-> pg.stream, polling |-> pg.polling]

\* A page of the running process.
Trusted(pg) == pg.view.revision <= pg.revision \/ pg.view.revision = 1

PageRight(pg, b) ==
  /\ PageShape(pg)
  /\ pg.boot \in 0 .. b /\ pg.revision \in Nat /\ pg.view.revision \in Nat /\ pg.beat \in Nat
  /\ pg.boot = b => Trusted(pg)

\* A frame of the running process.
FrameRight(f, b) ==
  /\ f.kind \in {"event", "recent", "view", "beat", "build"}
  /\ f.kind = "view" => f.of.revision \in Nat \ {0}
  /\ f.kind = "beat" => f.of \in Nat
  /\ f.kind = "build" => f.of = b

AllRight(s, b) == s \in Seq({s[n] : n \in DOMAIN s}) /\ \A n \in 1 .. Len(s) : FrameRight(s[n], b)

LiveInv ==
  /\ boot \in Nat \ {0} /\ view.revision \in Nat \ {0} /\ beat \in Nat
  /\ ring \in Seq({ring[n] : n \in DOMAIN ring})
  /\ AllRight(wire, boot) /\ \A a \in answer : FrameRight(a, boot)
  /\ ~up => wire = << >> /\ answer = {}
  /\ PageRight(page, boot)

\* The page goes on from what it showed.
Onward(pg, new) == new.view.revision >= pg.view.revision /\ new.beat >= pg.beat
Forward == page.phase = "shown" /\ page'.phase = "shown" /\ page.boot = boot => Onward(page, page')

LEMMA LastNIsSeq ==
  ASSUME NEW S, NEW s \in Seq(S), NEW n \in Nat PROVE LastN(s, n) \in Seq(S)
  <1>1. Len(s) \in Nat OBVIOUS
  <1>2. Max({1, Len(s) - n + 1}) \in Int /\ Max({1, Len(s) - n + 1}) >= 1
    <2>1. \E x \in {1, Len(s) - n + 1} : \A y \in {1, Len(s) - n + 1} : y <= x BY <1>1
    <2> QED BY <1>1, <2>1 DEF Max
  <1>3. PICK from \in Int : from = Max({1, Len(s) - n + 1}) BY <1>2
  <1>4. \A i \in from .. Len(s) : s[i] \in S BY <1>1, <1>2, <1>3, ElementOfSeq
  <1>5. Len(s) \in Int BY <1>1
  <1>6. SubSeq(s, from, Len(s)) \in Seq(S) BY <1>4, <1>5, SubSeqProperties
  <1> QED BY <1>3, <1>6 DEF LastN

LEMMA ConcatRight ==
  ASSUME NEW s, NEW t, NEW b, AllRight(s, b), AllRight(t, b) PROVE AllRight(s \o t, b)
  <1> DEFINE S == {s[n] : n \in DOMAIN s}
             T == {t[n] : n \in DOMAIN t}
             u == s \o t
  <1>1. s \in Seq(S) /\ t \in Seq(T) BY DEF AllRight
  <1>2. s \in Seq(S \cup T) /\ t \in Seq(S \cup T) BY <1>1
  <1> HIDE DEF S, T
  <1>3. /\ u \in Seq(S \cup T) /\ Len(u) = Len(s) + Len(t) /\ Len(s) \in Nat /\ Len(t) \in Nat
        /\ \A n \in 1 .. Len(u) : u[n] = IF n <= Len(s) THEN s[n] ELSE t[n - Len(s)]
    BY <1>2
  <1> HIDE DEF u
  <1>4. u \in Seq({u[n] : n \in DOMAIN u})
    <2>1. \A n \in 1 .. Len(u) : u[n] \in {u[i] : i \in DOMAIN u} BY <1>3
    <2> QED BY <1>3, <2>1
  <1>5. ASSUME NEW n \in 1 .. Len(u) PROVE FrameRight(u[n], b)
    <2>1. CASE n <= Len(s) BY <1>3, <2>1 DEF AllRight
    <2>2. CASE ~(n <= Len(s))
      <3>1. n - Len(s) \in 1 .. Len(t) BY <1>3, <2>2
      <3> QED BY <1>3, <2>2, <3>1 DEF AllRight
    <2> QED BY <2>1, <2>2
  <1> QED BY <1>4, <1>5 DEF AllRight, u

LEMMA FewRight ==
  ASSUME NEW b
  PROVE  /\ AllRight(<< >>, b)
         /\ \A f : FrameRight(f, b) => AllRight(<<f>>, b)
         /\ \A f, g : FrameRight(f, b) /\ FrameRight(g, b) => AllRight(<<f, g>>, b)
  <1>1. AllRight(<< >>, b) BY DEF AllRight
  <1>2. ASSUME NEW f, FrameRight(f, b) PROVE AllRight(<<f>>, b)
    <2>1. {<<f>>[n] : n \in DOMAIN <<f>>} = {f} OBVIOUS
    <2>2. <<f>> \in Seq({f}) /\ Len(<<f>>) = 1 /\ <<f>>[1] = f OBVIOUS
    <2> QED BY <1>2, <2>1, <2>2 DEF AllRight
  <1>3. ASSUME NEW f, NEW g, FrameRight(f, b), FrameRight(g, b) PROVE AllRight(<<f, g>>, b)
    <2>1. PICK s : s = <<f, g>> OBVIOUS
    <2>2. s \in Seq({f, g}) /\ Len(s) = 2 /\ s[1] = f /\ s[2] = g BY <2>1
    <2>3. s \in Seq({s[n] : n \in DOMAIN s}) BY <2>2
    <2>4. \A n \in 1 .. Len(s) : FrameRight(s[n], b) BY <1>3, <2>2
    <2> QED BY <2>1, <2>3, <2>4 DEF AllRight
  <1> QED BY <1>1, <1>2, <1>3

\* The frames and the answers there are.
LEMMA FramesRight ==
  ASSUME LiveInv
  PROVE  /\ \A e : FrameRight(EventFrame(e), boot)
         /\ \A v : v.revision \in Nat \ {0} => FrameRight(ViewFrame(v), boot)
         /\ FrameRight(BuildFrame, boot)
         /\ \A r \in Nat : FrameRight(BeatFrame(r), boot)
         /\ \A k \in {"view", "config", "beat", "recent"} : FrameRight(Response(k), boot)
  <1>1. \A e : FrameRight(EventFrame(e), boot)
    <2>1. ASSUME NEW e, NEW f, f = EventFrame(e) PROVE FrameRight(f, boot)
      <3>1. f.kind = "event" BY <2>1 DEF EventFrame
      <3> QED BY <3>1 DEF FrameRight
    <2> QED BY <2>1
  <1>2. \A v : v.revision \in Nat \ {0} => FrameRight(ViewFrame(v), boot)
    <2>1. ASSUME NEW v, v.revision \in Nat \ {0}, NEW f, f = ViewFrame(v) PROVE FrameRight(f, boot)
      <3>1. f.kind = "view" /\ f.of = v BY <2>1 DEF ViewFrame
      <3> QED BY <2>1, <3>1 DEF FrameRight
    <2> QED BY <2>1
  <1>3. FrameRight(BuildFrame, boot)
    <2>1. BuildFrame.kind = "build" /\ BuildFrame.of = boot BY DEF BuildFrame
    <2> QED BY <2>1 DEF FrameRight
  <1>4. \A r \in Nat : FrameRight(BeatFrame(r), boot)
    <2>1. ASSUME NEW r \in Nat, NEW f, f = BeatFrame(r) PROVE FrameRight(f, boot)
      <3>1. f.kind = "beat" /\ f.of = r BY <2>1 DEF BeatFrame
      <3> QED BY <2>1, <3>1 DEF FrameRight
    <2> QED BY <2>1
  <1>5. FrameRight(Response("recent"), boot)
    <2>1. Response("recent") = [kind |-> "recent", of |-> ring] BY DEF Response
    <2>2. PICK f : f = Response("recent") OBVIOUS
    <2>3. f.kind = "recent" BY <2>1, <2>2
    <2>4. FrameRight(f, boot) BY <2>3 DEF FrameRight
    <2> QED BY <2>2, <2>4
  <1>6. FrameRight(Response("view"), boot) BY <1>2 DEF Response, LiveInv
  <1>7. FrameRight(Response("config"), boot) BY <1>3 DEF Response
  <1>8. FrameRight(Response("beat"), boot) BY <1>4 DEF Response, LiveInv
  <1> QED BY <1>1, <1>2, <1>3, <1>4, <1>5, <1>6, <1>7, <1>8

LEMMA ReplayRight == ASSUME LiveInv PROVE AllRight(Replay, boot)
  <1> DEFINE last == LastN(ring, ReplayLimit)
             events == [n \in DOMAIN last |-> EventFrame(last[n])]
             S == {ring[n] : n \in DOMAIN ring}
  <1>1. last \in Seq(S) BY LastNIsSeq, LiveAssumption DEF LiveInv
  <1>2. AllRight(events, boot)
    <2> HIDE DEF last, S
    <2>1. DOMAIN last = 1 .. Len(last) /\ Len(last) \in Nat BY <1>1
    <2>2. \A n \in 1 .. Len(last) : events[n] = EventFrame(last[n]) BY <2>1
    <2>3. DOMAIN events = 1 .. Len(last) /\ events = [n \in 1 .. Len(last) |-> events[n]] BY <2>1
    <2> HIDE DEF events
    <2>4. events \in Seq({events[n] : n \in DOMAIN events}) /\ Len(events) = Len(last) BY <2>1, <2>3
    <2>5. \A n \in 1 .. Len(events) : FrameRight(events[n], boot)
      <3> SUFFICES ASSUME NEW n \in 1 .. Len(events) PROVE FrameRight(events[n], boot) OBVIOUS
      <3>1. events[n] = EventFrame(last[n]) BY <2>2, <2>4
      <3>2. FrameRight(EventFrame(last[n]), boot) BY FramesRight
      <3> QED BY <3>1, <3>2
    <2> QED BY <2>4, <2>5 DEF AllRight
  <1>3. AllRight(<<ViewFrame(view), BuildFrame>>, boot) BY FramesRight, FewRight DEF LiveInv
  <1>4. AllRight(IF beat = 0 THEN << >> ELSE <<BeatFrame(beat)>>, boot) BY FramesRight, FewRight DEF LiveInv
  <1> HIDE DEF last, events
  <1>5. AllRight((events \o <<ViewFrame(view), BuildFrame>>) \o (IF beat = 0 THEN << >> ELSE <<BeatFrame(beat)>>), boot)
    BY <1>2, <1>3, <1>4, ConcatRight
  <1> QED BY <1>5 DEF Replay, events, last

LEMMA DeliveredRight ==
  ASSUME LiveInv, NEW frames, AllRight(frames, boot) PROVE AllRight(Delivered(frames), boot)
  <1>1. AllRight(wire, boot) BY DEF LiveInv
  <1>2. AllRight(IF Contains(sinks, "page") THEN frames ELSE << >>, boot) BY FewRight
  <1> QED BY <1>1, <1>2, ConcatRight DEF Delivered

\* What the handlers make of a page.
LEMMA HandledRight ==
  ASSUME LiveInv, NEW f, FrameRight(f, boot)
  PROVE  /\ PageRight(Handled(f), boot)
         /\ page.boot = boot => Onward(page, Handled(f))
  <1>1. /\ PageShape(page) /\ page.revision \in Nat /\ page.view.revision \in Nat /\ page.beat \in Nat
        /\ page.boot \in 0 .. boot /\ (page.boot = boot => Trusted(page)) /\ boot \in Nat \ {0}
    BY DEF LiveInv, PageRight
  <1>2. ASSUME NEW new, NEW events, NEW selected, new = [page EXCEPT !.events = events, !.selected = selected]
        PROVE  PageRight(new, boot) /\ Onward(page, new)
    <2>1. /\ PageShape(new) /\ new.boot = page.boot /\ new.revision = page.revision /\ new.view = page.view
          /\ new.beat = page.beat
      BY <1>1, <1>2 DEF PageShape
    <2> QED BY <1>1, <2>1 DEF PageRight, Onward, Trusted
  <1>3. PageRight(page, boot) /\ Onward(page, page) BY <1>1 DEF PageRight, Onward
  <1>4. CASE f.kind = "event"
    <2>1. Handled(f) = OnEvent(page, f.of) BY <1>4 DEF Handled
    <2>2. \E events, selected : OnEvent(page, f.of) = [page EXCEPT !.events = events, !.selected = selected]
      BY DEF OnEvent
    <2> QED BY <1>2, <2>1, <2>2
  <1>5. CASE f.kind = "recent"
    <2>1. Handled(f) = OnRecent(page, f.of) BY <1>5 DEF Handled
    <2>2. \E events, selected : OnRecent(page, f.of) = [page EXCEPT !.events = events, !.selected = selected]
      BY DEF OnRecent
    <2> QED BY <1>2, <2>1, <2>2
  <1>6. CASE f.kind = "view"
    <2>1. Handled(f) = AppliedView(page, f.of) BY <1>6 DEF Handled
    <2>2. PICK v : v = f.of OBVIOUS
    <2>3. v.revision \in Nat \ {0} BY <1>6, <2>2 DEF FrameRight
    <2>4. CASE v.revision <= page.revision BY <1>3, <2>1, <2>2, <2>4 DEF AppliedView
    <2>5. CASE ~(v.revision <= page.revision)
      <3>1. PICK selected : AppliedView(page, v) = [page EXCEPT !.revision = v.revision, !.view = v, !.selected = selected]
        BY <2>5 DEF AppliedView
      <3>2. PICK new : new = AppliedView(page, v) OBVIOUS
      <3>3. /\ PageShape(new) /\ new.boot = page.boot /\ new.revision = v.revision /\ new.view = v
            /\ new.beat = page.beat
        BY <1>1, <3>1, <3>2 DEF PageShape
      <3>4. PageRight(new, boot) BY <1>1, <2>3, <3>3 DEF PageRight, Trusted
      <3>5. page.boot = boot => Onward(page, new) BY <1>1, <2>3, <2>5, <3>3 DEF Onward, Trusted
      <3> QED BY <2>1, <2>2, <3>2, <3>4, <3>5
    <2> QED BY <2>4, <2>5
  <1>7. CASE f.kind = "beat"
    <2>1. Handled(f) = AppliedBeat(page, f.of) BY <1>7 DEF Handled
    <2>2. f.of \in Nat BY <1>7 DEF FrameRight
    <2>3. CASE f.of <= page.beat BY <1>3, <2>1, <2>3 DEF AppliedBeat
    <2>4. CASE ~(f.of <= page.beat)
      <3>1. PICK new : new = [page EXCEPT !.beat = f.of] OBVIOUS
      <3>2. /\ PageShape(new) /\ new.boot = page.boot /\ new.revision = page.revision /\ new.view = page.view
            /\ new.beat = f.of
        BY <1>1, <3>1 DEF PageShape
      <3>3. PageRight(new, boot) /\ Onward(page, new) BY <1>1, <2>2, <2>4, <3>2 DEF PageRight, Onward, Trusted
      <3> QED BY <2>1, <2>4, <3>1, <3>3 DEF AppliedBeat
    <2> QED BY <2>3, <2>4
  <1>8. CASE f.kind = "build"
    <2>1. Handled(f) = CheckedBuild(page, boot) BY <1>8 DEF Handled, FrameRight
    <2>2. CASE page.boot = boot BY <1>3, <2>1, <2>2 DEF CheckedBuild
    <2>3. CASE page.boot # boot /\ page.told = boot
      <3>1. PICK new : new = [page EXCEPT !.revision = 0, !.beat = 0] OBVIOUS
      <3>2. /\ PageShape(new) /\ new.boot = page.boot /\ new.revision = 0 /\ new.view = page.view /\ new.beat = 0
        BY <1>1, <3>1 DEF PageShape
      <3>3. PageRight(new, boot) BY <1>1, <2>3, <3>2 DEF PageRight
      <3> QED BY <2>1, <2>3, <3>1, <3>3 DEF CheckedBuild
    <2>4. CASE page.boot # boot /\ page.told # boot
      <3>1. PICK new : new = Unloaded(page.surface, boot) OBVIOUS
      <3>2. /\ PageShape(new) /\ new.boot = 0 /\ new.revision = 0 /\ new.view.revision = 1 /\ new.beat = 0
        BY <3>1 DEF PageShape, Unloaded, FirstView
      <3>3. PageRight(new, boot) BY <1>1, <3>2 DEF PageRight
      <3> QED BY <2>1, <2>4, <3>1, <3>3 DEF CheckedBuild
    <2> QED BY <2>2, <2>3, <2>4
  <1> QED BY <1>4, <1>5, <1>6, <1>7, <1>8 DEF FrameRight

LEMMA ErroredRight ==
  ASSUME LiveInv, NEW stream PROVE PageRight(Errored(page, stream), boot) /\ Onward(page, Errored(page, stream))
  <1>1. PICK new, polling : new = Errored(page, stream) /\ new = [page EXCEPT !.stream = stream, !.polling = polling]
    BY DEF Errored
  <1>2. PageRight(page, boot) /\ PageShape(page) BY DEF LiveInv, PageRight
  <1>3. /\ PageShape(new) /\ new.boot = page.boot /\ new.revision = page.revision /\ new.view = page.view
        /\ new.beat = page.beat
    BY <1>1, <1>2 DEF PageShape
  <1> QED BY <1>1, <1>2, <1>3 DEF PageRight, Onward, Trusted

\* The server as it was, frames and answers of it, and a page that is right.
LEMMA PageMoves ==
  ASSUME LiveInv, UNCHANGED server, AllRight(wire', boot), \A a \in answer' : FrameRight(a, boot),
         up \/ (wire' = << >> /\ answer' = {}), PageRight(page', boot), page.boot = boot => Onward(page, page')
  PROVE  LiveInv' /\ Forward
  BY DEF LiveInv, server, Forward

LEMMA SamePage ==
  ASSUME LiveInv
  PROVE  /\ PageRight(page, boot) /\ Onward(page, page)
         /\ AllRight(wire, boot) /\ \A a \in answer : FrameRight(a, boot)
         /\ AllRight(<< >>, boot) /\ (up \/ (wire = << >> /\ answer = {}))
  BY FewRight DEF LiveInv, PageRight, Onward

LEMMA TailRight ==
  ASSUME NEW s, NEW b, AllRight(s, b), s # << >>
  PROVE  FrameRight(Head(s), b) /\ AllRight(Tail(s), b)
  <1> DEFINE S == {s[n] : n \in DOMAIN s}
             t == Tail(s)
  <1>1. s \in Seq(S) BY DEF AllRight
  <1> HIDE DEF S
  <1>2. /\ Head(s) = s[1] /\ Len(s) \in Nat /\ Len(s) >= 1
        /\ t \in Seq(S) /\ Len(t) = Len(s) - 1 /\ \A n \in 1 .. Len(t) : t[n] = s[n + 1]
    BY <1>1
  <1> HIDE DEF t
  <1>3. t \in Seq({t[n] : n \in DOMAIN t})
    <2>1. \A n \in 1 .. Len(t) : t[n] \in {t[i] : i \in DOMAIN t} BY <1>2
    <2> QED BY <1>2, <2>1
  <1>4. \A n \in 1 .. Len(t) : FrameRight(t[n], b)
    <2> SUFFICES ASSUME NEW n \in 1 .. Len(t) PROVE FrameRight(t[n], b) OBVIOUS
    <2>1. n + 1 \in 1 .. Len(s) /\ t[n] = s[n + 1] BY <1>2
    <2> QED BY <2>1 DEF AllRight
  <1>5. FrameRight(Head(s), b) BY <1>2 DEF AllRight
  <1> QED BY <1>3, <1>4, <1>5 DEF AllRight, t

\* A handler ran.
LEMMA BecomesRight ==
  ASSUME LiveInv, NEW f, FrameRight(f, boot), NEW frames, AllRight(frames, boot),
         NEW answers, \A a \in answers : FrameRight(a, boot), up,
         Becomes(Handled(f), frames, answers)
  PROVE  LiveInv' /\ Forward
  <1>1. PageRight(Handled(f), boot) /\ (page.boot = boot => Onward(page, Handled(f))) BY HandledRight
  <1>2. page' = Handled(f) /\ UNCHANGED server BY DEF Becomes
  <1>3. AllRight(wire', boot) /\ \A a \in answer' : FrameRight(a, boot) BY FewRight DEF Becomes
  <1> QED BY <1>1, <1>2, <1>3, PageMoves

LEMMA RecordEventKeeps == ASSUME LiveInv, RecordEvent PROVE LiveInv' /\ Forward
  <1>1. PICK e : /\ up /\ ring' = Recorded(e) /\ view' = Moved(e)
                 /\ wire' = Delivered(<<EventFrame(e), ViewFrame(Moved(e))>>)
                 /\ UNCHANGED <<up, boot, beat, answer, page>>
    BY DEF RecordEvent
  <1>2. view'.revision = view.revision + 1 /\ Moved(e).revision = view.revision + 1 BY <1>1 DEF Moved
  <1>3. AllRight(wire', boot)
    <2>1. Moved(e).revision \in Nat \ {0} BY <1>2 DEF LiveInv
    <2>2. AllRight(<<EventFrame(e), ViewFrame(Moved(e))>>, boot) BY <2>1, FramesRight, FewRight
    <2> QED BY <1>1, <2>2, DeliveredRight
  <1>4. ring' \in Seq({ring'[n] : n \in DOMAIN ring'})
    <2> DEFINE S == {ring[n] : n \in DOMAIN ring}
    <2>1. ring \in Seq(S) BY DEF LiveInv
    <2>2. ring \in Seq(S \cup {e}) BY <2>1
    <2>3. Append(ring, e) \in Seq(S \cup {e}) BY <2>2
    <2> HIDE DEF S
    <2>4. ring' \in Seq(S \cup {e}) BY <1>1, <2>3, LastNIsSeq, LiveAssumption DEF Recorded
    <2>5. \A p : p \in Seq(S \cup {e}) => p \in Seq({p[n] : n \in DOMAIN p}) OBVIOUS
    <2> QED BY <2>4, <2>5
  <1> QED BY <1>1, <1>2, <1>3, <1>4, SamePage DEF LiveInv, Forward

LEMMA RecordLatestHeartbeatKeeps == ASSUME LiveInv, RecordLatestHeartbeat PROVE LiveInv' /\ Forward
  <1>1. /\ up /\ beat' = beat + 1 /\ wire' = Delivered(<<BeatFrame(beat + 1)>>)
        /\ UNCHANGED <<up, boot, ring, view, answer, page>>
    BY DEF RecordLatestHeartbeat
  <1>2. beat + 1 \in Nat BY DEF LiveInv
  <1>3. AllRight(wire', boot) BY <1>1, <1>2, FramesRight, FewRight, DeliveredRight
  <1> QED BY <1>1, <1>2, <1>3, SamePage DEF LiveInv, Forward

LEMMA StopKeeps == ASSUME LiveInv, Stop PROVE LiveInv' /\ Forward
  <1>1. /\ wire' = << >> /\ answer' = {} /\ UNCHANGED <<boot, ring, view, beat>>
        /\ page' = page \/ page' = Errored(page, "connecting")
    BY DEF Stop
  <1>2. PageRight(page', boot) /\ Onward(page, page') BY <1>1, SamePage, ErroredRight
  <1> QED BY <1>1, <1>2, FewRight DEF LiveInv, Forward

LEMMA StartKeeps == ASSUME LiveInv, Start PROVE LiveInv' /\ Forward
  <1>1. /\ ~up /\ up' = TRUE /\ boot' = boot + 1 /\ ring' = << >> /\ view' = FirstView /\ beat' = 0
        /\ UNCHANGED <<wire, answer, page>>
    BY DEF Start
  <1>2. wire' = << >> /\ answer' = {} BY <1>1 DEF LiveInv
  <1>3. view'.revision = 1 BY <1>1 DEF FirstView
  <1>4. PageRight(page, boot + 1) BY DEF LiveInv, PageRight
  <1>5. ring' \in Seq({ring'[n] : n \in DOMAIN ring'}) BY <1>1
  <1>6. AllRight(wire', boot') BY <1>2, FewRight
  <1>7. boot' \in Nat \ {0} BY <1>1 DEF LiveInv
  <1>8. Forward BY <1>1, SamePage DEF Forward
  <1> QED BY <1>1, <1>2, <1>3, <1>4, <1>5, <1>6, <1>7, <1>8 DEF LiveInv

LEMMA LoadKeeps == ASSUME LiveInv, Load PROVE LiveInv' /\ Forward
  <1>1. /\ up /\ page.phase = "loading" /\ UNCHANGED <<server, wire>>
        /\ page' = [page EXCEPT !.phase = "shown", !.boot = boot, !.stream = "connecting",
                              !.revision = IF Canonical(page) THEN view.revision ELSE 0,
                              !.view = IF Canonical(page) THEN view ELSE FirstView,
                              !.beat = IF Canonical(page) THEN beat ELSE 0]
        /\ answer' = {Response(k) : k \in {"view", "config", "beat"} \union IF Canonical(page) THEN {} ELSE {"recent"}}
    BY DEF Load
  <1>2. PICK new : new = page' OBVIOUS
  <1>3. PageShape(page) BY DEF LiveInv, PageRight
  <1>4. /\ PageShape(new) /\ new.boot = boot
        /\ \/ new.revision = view.revision /\ new.view = view /\ new.beat = beat
           \/ new.revision = 0 /\ new.view = FirstView /\ new.beat = 0
    BY <1>1, <1>2, <1>3 DEF PageShape
  <1>5. FirstView.revision = 1 BY DEF FirstView
  <1>6. PageRight(new, boot) BY <1>4, <1>5 DEF LiveInv, PageRight, Trusted
  <1>7. \A a \in answer' : FrameRight(a, boot) BY <1>1, FramesRight
  <1>8. UNCHANGED <<up, boot, ring, view, beat>> BY <1>1 DEF server
  <1>9. AllRight(wire', boot') BY <1>1, <1>8, SamePage
  <1> QED BY <1>1, <1>2, <1>6, <1>7, <1>8, <1>9 DEF LiveInv, Forward

LEMMA ConnectKeeps == ASSUME LiveInv, Connect PROVE LiveInv' /\ Forward
  <1>1. /\ up /\ wire' = Replay /\ page' = [page EXCEPT !.stream = "open"] /\ UNCHANGED <<server, answer>>
    BY DEF Connect
  <1>2. PICK new : new = page' OBVIOUS
  <1>3. PageRight(page, boot) /\ PageShape(page) BY DEF LiveInv, PageRight
  <1>4. /\ PageShape(new) /\ new.boot = page.boot /\ new.revision = page.revision /\ new.view = page.view
        /\ new.beat = page.beat
    BY <1>1, <1>2, <1>3 DEF PageShape
  <1>5. PageRight(new, boot) /\ Onward(page, new) BY <1>3, <1>4 DEF PageRight, Onward, Trusted
  <1>6. AllRight(wire', boot) BY <1>1, ReplayRight
  <1> QED BY <1>1, <1>2, <1>5, <1>6, SamePage, PageMoves

LEMMA LiveInvInit == ASSUME Init PROVE LiveInv
  <1>1. PICK s \in Surface : page = Unloaded(s, 0) BY DEF Init
  <1>2. /\ PageShape(page) /\ page.boot = 0 /\ page.revision = 0 /\ page.view.revision = 1 /\ page.beat = 0
    BY <1>1 DEF PageShape, Unloaded, FirstView
  <1>3. view.revision = 1 BY DEF Init, FirstView
  <1>4. PageRight(page, 1) BY <1>2 DEF PageRight
  <1> QED BY <1>3, <1>4, FewRight DEF Init, LiveInv

LEMMA LiveInvStep == ASSUME LiveInv, [Next]_vars PROVE LiveInv' /\ Forward
  <1>1. CASE UNCHANGED vars
    <2>1. UNCHANGED <<server, wire, answer, page>> BY <1>1 DEF vars, server
    <2> QED BY <2>1, SamePage, PageMoves
  <1>2. CASE RecordEvent BY <1>2, RecordEventKeeps
  <1>3. CASE RecordLatestHeartbeat BY <1>3, RecordLatestHeartbeatKeeps
  <1>4. CASE Stop BY <1>4, StopKeeps
  <1>5. CASE Start BY <1>5, StartKeeps
  <1>6. CASE OtherConnects BY <1>6, SamePage, PageMoves DEF OtherConnects
  <1>7. CASE Load BY <1>7, LoadKeeps
  <1>8. CASE Connect BY <1>8, ConnectKeeps
  <1>9. CASE Refused BY <1>9, SamePage, ErroredRight, PageMoves DEF Refused
  <1>10. CASE Break
    <2>1. page' = Errored(page, "connecting") /\ wire' = << >> /\ UNCHANGED <<server, answer>> BY <1>10 DEF Break
    <2> QED BY <2>1, SamePage, ErroredRight, PageMoves
  <1>11. CASE Frame
    <2>1. wire # << >> /\ Becomes(Handled(Head(wire)), Tail(wire), answer) BY <1>11 DEF Frame
    <2>2. FrameRight(Head(wire), boot) /\ AllRight(Tail(wire), boot) BY <2>1, SamePage, TailRight
    <2>3. up BY <2>1 DEF LiveInv
    <2> QED BY <2>1, <2>2, <2>3, SamePage, BecomesRight
  <1>12. CASE Answer
    <2>1. PICK a \in answer : Becomes(Handled(a), wire, answer \ {a}) BY <1>12 DEF Answer
    <2>2. FrameRight(a, boot) /\ \A b \in answer \ {a} : FrameRight(b, boot) BY SamePage
    <2>3. up BY <2>1 DEF LiveInv
    <2> QED BY <2>1, <2>2, <2>3, SamePage, BecomesRight
  <1>13. CASE Poll
    <2>1. \A a \in answer' : FrameRight(a, boot) BY <1>13, FramesRight DEF Poll
    <2>2. up /\ UNCHANGED <<server, wire, page>> BY <1>13 DEF Poll
    <2> QED BY <2>1, <2>2, SamePage, PageMoves
  <1> QED BY <1>1, <1>2, <1>3, <1>4, <1>5, <1>6, <1>7, <1>8, <1>9, <1>10, <1>11, <1>12, <1>13 DEF Next

\* A page never goes back to what it showed before of the process that runs,
\* for any surface, ring, limits, restarts, broken streams and order of what
\* arrives.
THEOREM PagesGoOn == Spec => NeverBackwards
  <1>1. Init => LiveInv BY LiveInvInit
  <1>2. LiveInv /\ [Next]_vars => LiveInv' BY LiveInvStep
  <1>3. LiveInv /\ [Next]_vars =>
          [page.phase = "shown" /\ page'.phase = "shown" /\ page.boot = boot =>
             page'.view.revision >= page.view.revision /\ page'.beat >= page.beat]_vars
    BY LiveInvStep DEF Forward, Onward
  <1> QED BY <1>1, <1>2, <1>3, PTL DEF Spec, NeverBackwards
=============================================================================
