------------------------------ MODULE MCSurfaces ------------------------------
(* The smaller surfaces of the bridge in one run. They share no variable: a   *)
(* behaviour is of one of them, which the variable surface says, and the      *)
(* others stay as they start.                                                 *)
EXTENDS FeedbackRecords, OperatorDocument, Scratchpad, WriteRoutes, ResumePages,
        QrSymbol, SpeechSlips, FollowUps, TLC

VARIABLE surface

MCShortId == [f \in Filename |-> "aa"]
MCMigratedField == <<"notes", "principles">>
\* A few words on a failure, and many.
MCErrorText == {<<1>>, <<3, 3, 3>>}
\* Nothing; a word; enough for the sixteen bit count, for blocks of two lengths
\* and for a version that says so; more than any symbol holds.
Letters(n) == [k \in 1 .. n |-> 97 + ((k * 7) % 26)]
MCQrTexts == {Letters(0), Letters(5), Letters(123), Letters(181), Letters(2332)}
\* "cued a cue x cues", under rules for cue, which "a cue" keeps in one of them,
\* and for x, which another says means itself.
Cue == <<"c", "u", "e">>
MCLetter == {"a", "c", "d", "e", "q", "s", "u", "x", "y", " ", "\\0"}
MCArguments ==
  {[title |-> Cue \o <<"d", " ", "a", " ">> \o Cue \o <<" ", "x", " ">> \o Cue \o <<"s">>,
    id |-> Cue]}
RuleLine(heard, meant, keep) == [heard |-> heard, meant |-> meant, keep |-> keep]
Queue == <<"q", "u", "e", "u", "e">>
MCGlossaries ==
  {<<RuleLine(Cue, Queue, << >>)>>,
   <<RuleLine(Cue, Queue, <<<<"a", " ">> \o Cue>>), RuleLine(<<"x">>, <<"y", "s">>, << >>)>>,
   <<RuleLine(<<"x">>, <<"x">>, << >>)>>}
\* The texts are such as the theorem about them speaks of.
ASSUME SlipsAreApart ==
  \A args \in MCArguments, g \in MCGlossaries, p \in TextPath : SlipsApart(args[p], Parsed(g))
\* Two bullets and a task, of two projects; the resume's own beads name one.
MCListedIn == [resume_bullets |-> {"b1", "b2"}, task |-> {"t1"}]
MCProjectOf == [x \in {"b1", "b2", "t1"} |-> IF x = "b1" THEN "q" ELSE "p"]
\* Nobody asks for a page where another surface is looked at.
MCReaders == {ModePage, ProjectPage, {Roster, Bundle}, {}}

SurfacesInit ==
  /\ FeedbackInit /\ DocumentInit /\ PadInit /\ WritesInit /\ PagesInit
  /\ QrInit /\ SpeechInit /\ FollowInit
  /\ surface \in {"feedback", "document", "scratchpad", "comments", "writes", "pages", "qr",
                 "speech", "follow-ups"}
  /\ surface = "pages" <=> asked # {}
  /\ surface # "qr" => qr.text = << >>
  /\ surface # "speech" => glossary[1].lines[1].keep # << >>
  /\ past[1].own = {"p"} /\ past[1].stale = (IF surface = "follow-ups" THEN Item ELSE {})

SurfacesNext ==
  /\ UNCHANGED surface
  /\ \/ /\ surface = "feedback" /\ FeedbackNext
        /\ UNCHANGED <<documentVars, padVars, writeVars, pageVars, qrVars, speechVars, followVars>>
     \/ /\ surface = "document" /\ DocumentNext
        /\ UNCHANGED <<feedbackVars, padVars, writeVars, pageVars, qrVars, speechVars, followVars>>
     \/ /\ surface = "scratchpad" /\ PadNext
        /\ UNCHANGED <<feedbackVars, documentVars, writeVars, pageVars, qrVars, speechVars, followVars>>
     \/ /\ surface = "comments" /\ CommentsNext
        /\ UNCHANGED <<feedbackVars, documentVars, writeVars, pageVars, qrVars, speechVars, followVars>>
     \/ /\ surface = "writes" /\ WritesNext
        /\ UNCHANGED <<feedbackVars, documentVars, padVars, pageVars, qrVars, speechVars, followVars>>
     \/ /\ surface = "pages" /\ PagesNext
        /\ UNCHANGED <<feedbackVars, documentVars, padVars, writeVars, qrVars, speechVars, followVars>>
     \/ /\ surface = "qr" /\ QrNext
        /\ UNCHANGED <<feedbackVars, documentVars, padVars, writeVars, pageVars, speechVars, followVars>>
     \/ /\ surface = "speech" /\ SpeechNext
        /\ UNCHANGED <<feedbackVars, documentVars, padVars, writeVars, pageVars, qrVars, followVars>>
     \/ /\ surface = "follow-ups" /\ FollowNext
        /\ UNCHANGED <<feedbackVars, documentVars, padVars, writeVars, pageVars, qrVars, speechVars>>

surfaceVars == <<feedbackVars, documentVars, padVars, writeVars, pageVars, qrVars,
                 speechVars, followVars, surface>>

SurfacesSpec == SurfacesInit /\ [][SurfacesNext]_surfaceVars /\ PagesFairness
=============================================================================
