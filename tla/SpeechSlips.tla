----------------------------- MODULE SpeechSlips -----------------------------
(***************************************************************************)
(* What the voice guard (src/src/lib/voice-guard.ts) finds in a call       *)
(* before VoiceGuard's pause: the glossary's rules, read again after       *)
(* a while by whichever call comes first, the words they hear in the       *)
(* call's free text, and the wording that `accept` would run instead.      *)
(* Texts are sequences of letters, as the findings are indexes into them;  *)
(* upper case and the snippets shown around a finding are left out.        *)
(***************************************************************************)
EXTENDS Integers, Sequences, FiniteSets, SequencesExt, Ordered

CONSTANTS
  Speaker,       \* callers of guarded tools
  Letter,        \* the letters of words, the space and the filler
  TextPath,      \* arguments that carry free text (TEXT_KEYS)
  Arguments,     \* the argument objects calls may carry: path -> text
  Glossaries,    \* what the glossary may say: sequences of rule lines
  RulesTtl,      \* rulesTtlMs()
  LoadTime,      \* how long reading the glossary may take
  MaxSpeechTime, \* bound on the clock
  MaxReworded,   \* bound on the changes of the glossary
  MaxUnheard     \* bound on the readings of the glossary that fail

Space == " "
Filler == "\\0"

\* What a rule says is trimmed, and is not empty.
Phrase == {w \in Seq(Letter) : w # << >> /\ Head(w) # Space /\ Last(w) # Space}
Rule == [heard : Phrase, meant : Phrase, keep : Seq(Phrase)]

ASSUME SpeechAssumption ==
  /\ {Space, Filler, "s"} \subseteq Letter
  /\ LoadTime \in Nat /\ RulesTtl \in Nat /\ LoadTime < RulesTtl
  /\ \A args \in Arguments, p \in TextPath : p \in DOMAIN args => args[p] \in Seq(Letter)
  /\ \A g \in Glossaries : g \in Seq(Rule)

VARIABLES
  clock,      \* Date.now()
  glossary,   \* history: what it said and since when; the last is what it says
  ruleCache,  \* at, rules, and whether reading them failed
  ruleFlight, \* the reading under way
  said,       \* the call each speaker makes
  unheard     \* counts the failed readings

speechVars == <<clock, glossary, ruleCache, ruleFlight, said, unheard>>

Never == -1
NotLoaded == [at |-> Never, rules |-> << >>, failed |-> FALSE]
NotReading == [at |-> Never, rules |-> << >>, read |-> FALSE]
Silent == [at |-> 0, args |-> << >>, state |-> "none", wording |-> << >>,
           unchecked |-> FALSE, known |-> 0]

SpeechInit ==
  /\ clock = 0 /\ unheard = 0
  /\ \E g \in Glossaries : glossary = <<[lines |-> g, since |-> 0]>>
  /\ ruleCache = NotLoaded /\ ruleFlight = NotReading
  /\ said = [c \in Speaker |-> Silent]

-----------------------------------------------------------------------------
(* The rules, and what they hear.                                           *)

\* A line that says nothing new of a word is no rule.
Parsed(lines) == PickedAt(lines, {n \in DOMAIN lines : lines[n].heard # lines[n].meant})

InWord(t, i) == i \in DOMAIN t /\ t[i] \notin {Space, Filler}
WordEdge(t, i) == InWord(t, i - 1) # InWord(t, i)

\* Whether the whole words w are at i, and their length there, as a rule hears
\* them also with a plural s.
WordsAt(t, w, i) ==
  /\ i + Len(w) - 1 <= Len(t) /\ SubSeq(t, i, i + Len(w) - 1) = w
  /\ WordEdge(t, i) /\ WordEdge(t, i + Len(w))
HeardAt(t, w, plural, i) ==
  IF plural /\ WordsAt(t, Append(w, "s"), i) THEN Len(w) + 1
  ELSE IF WordsAt(t, w, i) THEN Len(w) ELSE 0

\* Where the search goes on after the first i letters.
GoesOn(t, w, plural) ==
  LET from[i \in 0 .. Len(t)] ==
        IF i = 0 THEN 1
        ELSE LET before == from[i - 1]
                 n == HeardAt(t, w, plural, i)
             IN  IF before <= i /\ n > 0 THEN i + n ELSE before
  IN  from

\* Where the words are, as <<index, length>>: each search from the end of the
\* match before it.
Matches(t, w, plural) ==
  LET from == GoesOn(t, w, plural)
  IN  {<<i, HeardAt(t, w, plural, i)>> :
         i \in {j \in DOMAIN t : from[j - 1] <= j /\ HeardAt(t, w, plural, j) > 0}}

MaskedBy(t, places) == [i \in DOMAIN t |-> IF i \in places THEN Filler ELSE t[i]]
WithoutPhrase(t, phrase) ==
  MaskedBy(t, UNION {m[1] .. m[1] + m[2] - 1 : m \in Matches(t, phrase, FALSE)})

\* The text without the phrases to keep, one after the other.
WithoutPhrases(t, phrases) ==
  LET masked[n \in 0 .. Len(phrases)] ==
        IF n = 0 THEN t ELSE WithoutPhrase(masked[n - 1], phrases[n])
  IN  masked[Len(phrases)]

\* The suggestion takes on the plural of what was heard.
AdaptCase(heard, meant) ==
  IF Last(heard) = "s" /\ Last(meant) # "s" THEN Append(meant, "s") ELSE meant

FoundBy(t, n, r) ==
  {[rule |-> n, index |-> m[1], length |-> m[2],
    meant |-> AdaptCase(SubSeq(t, m[1], m[1] + m[2] - 1), r.meant)] :
     m \in Matches(WithoutPhrases(t, r.keep), r.heard, TRUE)}
ScanText(text, rules) == UNION {FoundBy(text, n, rules[n]) : n \in DOMAIN rules}

\* Mutant: what is left goes first, and moves what comes after it.
FromLeft(finds) == {p \in finds \X finds :
  p[1].index < p[2].index \/ (p[1].index = p[2].index /\ p[1].rule < p[2].rule)}
\* From right to left, so that the indexes still to come stay true.
FromRight(finds) == {p \in finds \X finds :
  p[1].index > p[2].index \/ (p[1].index = p[2].index /\ p[1].rule < p[2].rule)}

Substituted(t, find) ==
  SubSeq(t, 1, find.index - 1) \o find.meant \o SubSeq(t, find.index + find.length, Len(t))
ApplySuggestions(text, finds) ==
  LET order == SortedBy(finds, FromRight(finds))
      after[k \in 0 .. Len(order)] == IF k = 0 THEN text ELSE Substituted(after[k - 1], order[k])
  IN  after[Len(order)]

\* What `accept` would run; without a finding the call runs as it is.
Wording(args, rules) ==
  [p \in DOMAIN args |->
     IF p \in TextPath THEN ApplySuggestions(args[p], ScanText(args[p], rules)) ELSE args[p]]

-----------------------------------------------------------------------------
(* loadRules. *)

SpokenTo(call, cache) ==
  [call EXCEPT !.state = "answered", !.unchecked = cache.failed,
               !.wording = Wording(call.args, cache.rules), !.known = Len(glossary)]

RulesAreFresh == ruleCache.at # Never /\ clock - ruleCache.at < RulesTtl

Speak(c, args) ==
  /\ said[c].state # "waiting"
  /\ LET call == [Silent EXCEPT !.at = clock, !.args = args, !.state = "waiting"]
     IN  IF RulesAreFresh
         THEN said' = [said EXCEPT ![c] = SpokenTo(call, ruleCache)] /\ UNCHANGED ruleFlight
         ELSE /\ said' = [said EXCEPT ![c] = call]
              /\ ruleFlight' = IF ruleFlight = NotReading
                               THEN [NotReading EXCEPT !.at = clock] ELSE ruleFlight
  /\ UNCHANGED <<clock, glossary, ruleCache, unheard>>

GlossaryIsRead ==
  /\ ruleFlight # NotReading /\ ~ruleFlight.read
  /\ ruleFlight' = [ruleFlight EXCEPT !.read = TRUE, !.rules = Parsed(Last(glossary).lines)]
  /\ UNCHANGED <<clock, glossary, ruleCache, said, unheard>>

Loaded(cache) ==
  /\ ruleCache' = cache /\ ruleFlight' = NotReading
  /\ said' = [c \in Speaker |-> IF said[c].state = "waiting" THEN SpokenTo(said[c], cache) ELSE said[c]]
  /\ UNCHANGED <<clock, glossary>>

LoadEnds ==
  /\ ruleFlight # NotReading /\ ruleFlight.read
  /\ Loaded([at |-> ruleFlight.at, rules |-> ruleFlight.rules, failed |-> FALSE])
  /\ UNCHANGED unheard

\* The calls run unchecked, and their footer says so.
LoadRejects ==
  /\ ruleFlight # NotReading /\ unheard < MaxUnheard
  /\ Loaded([at |-> ruleFlight.at, rules |-> << >>, failed |-> TRUE])
  /\ unheard' = unheard + 1

\* The operator records another slip, or takes one back.
Reword(g) ==
  /\ Len(glossary) <= MaxReworded /\ g # Last(glossary).lines
  /\ glossary' = Append(glossary, [lines |-> g, since |-> clock])
  /\ UNCHANGED <<clock, ruleCache, ruleFlight, said, unheard>>

SpeechTick ==
  /\ clock < MaxSpeechTime
  /\ ruleFlight # NotReading => clock - ruleFlight.at < LoadTime
  /\ clock' = clock + 1
  /\ UNCHANGED <<glossary, ruleCache, ruleFlight, said, unheard>>

SpeechNext ==
  \/ \E c \in Speaker, args \in Arguments : Speak(c, args)
  \/ GlossaryIsRead \/ LoadEnds \/ LoadRejects
  \/ \E g \in Glossaries : Reword(g)
  \/ SpeechTick

SpeechSpec == SpeechInit /\ [][SpeechNext]_speechVars

-----------------------------------------------------------------------------
(* The reference: a slip is a stretch of whole words that a rule has heard, *)
(* no part of which belongs to a phrase to keep.                            *)

Gaps(t) == {0, Len(t) + 1} \union {k \in DOMAIN t : t[k] = Space}
Stretches(t, words) ==
  {s \in {<<g + 1, h - 1>> : g \in Gaps(t), h \in Gaps(t)} :
     s[1] <= s[2] /\ SubSeq(t, s[1], s[2]) \in words}
KeptPlaces(t, r) == UNION {s[1] .. s[2] : s \in Stretches(t, ToSet(r.keep))}
Slips(t, r) ==
  {s \in Stretches(t, {r.heard, Append(r.heard, "s")}) : s[1] .. s[2] \cap KeptPlaces(t, r) = {}}

\* What becomes of the letter at i: the whole suggestion at the start of a slip.
Piece(t, rules, i) ==
  LET slips == UNION {{[at |-> s, by |-> rules[n]] : s \in Slips(t, rules[n])} : n \in DOMAIN rules}
      starting == {s \in slips : s.at[1] = i}
  IN  IF starting # {}
      THEN LET s == CHOOSE x \in starting : TRUE
           IN  IF t[s.at[2]] = "s" /\ Last(s.by.meant) # "s" THEN Append(s.by.meant, "s") ELSE s.by.meant
      ELSE IF \E s \in slips : i \in s.at[1] .. s.at[2] THEN << >> ELSE <<t[i]>>

\* Every slip replaced, every other letter as it was sent.
Corrected(t, rules) ==
  LET upTo[i \in 0 .. Len(t)] == IF i = 0 THEN << >> ELSE upTo[i - 1] \o Piece(t, rules, i)
  IN  upTo[Len(t)]

\* The texts in question: without the filler, and with no two slips, or phrases
\* to keep, of which one begins within the other.
Disjoint(s, v) == s[2] < v[1] \/ v[2] < s[1]
PlainPhrases(r) == \A w \in {r.heard} \union ToSet(r.keep) : Filler \notin ToSet(w)
SlipsApart(t, rules) ==
  /\ Filler \notin ToSet(t) /\ \A n \in DOMAIN rules : PlainPhrases(rules[n])
  /\ \A n \in DOMAIN rules : \A s, v \in Stretches(t, ToSet(rules[n].keep)) : s # v => Disjoint(s, v)
  /\ \A n, m \in DOMAIN rules : \A s \in Slips(t, rules[n]), v \in Slips(t, rules[m]) :
       n # m \/ s # v => Disjoint(s, v)

\* "Substitutes only flagged spans" (voice-guard.test.ts), "a new glossary entry
\* is live" within the time to live: unless the glossary could not be read, what
\* a speaker is told to accept is the call with its slips corrected, in its free
\* text and nowhere else, by a glossary in force less than that time before.
SlipsAreCorrected ==
  \A c \in Speaker : said[c].state = "answered" /\ ~said[c].unchecked =>
    \E k \in 1 .. said[c].known :
      /\ k = said[c].known \/ glossary[k + 1].since > said[c].at - RulesTtl
      /\ \A p \in DOMAIN said[c].args :
           said[c].wording[p] =
             IF p \in TextPath THEN Corrected(said[c].args[p], Parsed(glossary[k].lines))
             ELSE said[c].args[p]
=============================================================================
