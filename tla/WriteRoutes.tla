----------------------------- MODULE WriteRoutes -----------------------------
(***************************************************************************)
(* The routes that write to a bead without MCP: the verbs over GET          *)
(* (routes/verbs.ts), the tool bridge (routes/actions.ts) with its          *)
(* idempotency keys, and pastes into the inbox (routes/paste.ts).           *)
(*                                                                         *)
(* A request is a script of steps, each a command on the store or a look   *)
(* into the process' own maps. A GET awaits each command; the tool bridge   *)
(* runs its commands synchronously, so that nothing else of the process    *)
(* runs in between, except that a command a GET has started may land.       *)
(***************************************************************************)
EXTENDS Integers, Sequences, SequencesExt, FiniteSets

CONSTANTS
  Client,        \* those that ask
  Target,        \* beads
  Verb,          \* the verbs they use, among those below
  Key,           \* idempotency keys
  NoKey,         \* a request without one
  Pasted,        \* texts that are pasted, by their hash
  MaxWritten,    \* bound on the requests
  MaxMishaps     \* bound on failures, restarts and writes from outside

ASSUME VerbAssumption ==
  Verb \subseteq {"approve", "done", "reject", "comment", "note", "label", "close"}

VARIABLES
  bead,      \* bead -> [open, log], log being what was done to it and by which request
  req,       \* what each client waits for
  idemStore, \* key -> the request whose answer is kept
  inbox,     \* the texts of the inbox beads; a bead's id is its place
  hashes,    \* text -> inbox bead, the file of .paste-hashes.json
  written,   \* how many requests there were; a request is known by its number
  mishaps

writeVars == <<bead, req, idemStore, inbox, hashes, written, mishaps>>

WritesInit ==
  /\ bead = [b \in Target |-> [open |-> TRUE, log |-> << >>]]
  /\ req = [c \in Client |-> [pc |-> "idle"]]
  /\ idemStore = << >> /\ inbox = << >> /\ hashes = << >>
  /\ written = 0 /\ mishaps = 0

Mishap == mishaps < MaxMishaps /\ mishaps' = mishaps + 1
NoMishap == UNCHANGED mishaps

Decision == {"approve", "done"}

\* Mutant: the bead is closed first.
CommandsCloseFirst(verb) == IF verb \in Decision THEN <<"close", verb>> ELSE <<verb>>
\* What a verb writes: a decision says so in a comment, then closes the bead;
\* labels are added, then removed; reject, comment, note and close are one command.
Commands(verb) ==
  IF verb \in Decision THEN <<verb, "close">>
  ELSE IF verb = "label" THEN <<"add", "remove">> ELSE <<verb>>

\* A GET reads the bead back after each of its writes; the tool bridge looks whether
\* the bead is open (for what changes its state), then whether the key was
\* used, then writes and keeps the answer under the key.
ReadBack(commands) ==
  [n \in 1 .. 2 * Len(commands) |-> IF n % 2 = 1 THEN commands[(n + 1) \div 2] ELSE "show"]
Script(door, verb) ==
  IF door = "get"
    THEN IF verb = "label" THEN Append(Commands(verb), "show") ELSE ReadBack(Commands(verb))
    ELSE (IF verb \in Decision \union {"reject"} THEN <<"open?">> ELSE << >>)
         \o <<"replay">> \o Commands(verb) \o <<"keep">>

AskVerb(c) ==
  /\ req[c].pc = "idle" /\ written < MaxWritten /\ written' = written + 1
  /\ \E door \in {"get", "tool"}, b \in Target, key \in Key \union {NoKey},
       verb \in Verb :
       /\ door = "get" => key = NoKey
       /\ door = "tool" => verb # "close"
       /\ req' = [req EXCEPT ![c] =
            [pc |-> "run", door |-> door, b |-> b, verb |-> verb, key |-> key, no |-> written,
             todo |-> Script(door, verb)]]
  /\ UNCHANGED <<bead, idemStore, inbox, hashes, mishaps>>

\* The tool bridge is in the middle of a request.
Synchronous(c) == \E d \in Client \ {c} : req[d].pc = "run" /\ req[d].door = "tool"
MayRun(c) == req[c].door = "get" \/ ~Synchronous(c)

Doing(c, kind) == req[c].pc = "run" /\ Head(req[c].todo) = kind /\ MayRun(c)
Answered(outcome, no) ==
  [pc |-> "idle", outcome |-> outcome, of |-> no]
AnswerWith(c, outcome, no) == req' = [req EXCEPT ![c] = Answered(outcome, no)]

\* The step is done; a request without further steps has succeeded.
Proceed(c) ==
  req' = [req EXCEPT ![c] = IF Len(req[c].todo) = 1 THEN Answered("ok", req[c].no)
                            ELSE [req[c] EXCEPT !.todo = Tail(req[c].todo)]]

Done(b, what, verb, no) ==
  bead' = [bead EXCEPT ![b] = [open |-> @.open /\ what # "close",
                               log |-> Append(@.log, [did |-> what, verb |-> verb, by |-> no])]]

\* A command of the store CLI: it lands; or it fails, or is killed with or
\* without having landed, and the request answers 500.
Command(c) ==
  /\ \E what \in UNION {Range(Commands(v)) : v \in Verb} :
       /\ Doing(c, what)
       /\ \/ NoMishap /\ Done(req[c].b, what, req[c].verb, req[c].no) /\ Proceed(c)
          \/ /\ Mishap /\ AnswerWith(c, "failed", req[c].no)
             /\ (UNCHANGED bead \/ Done(req[c].b, what, req[c].verb, req[c].no))
  /\ UNCHANGED <<idemStore, inbox, hashes, written>>

\* verifyBead: what does not read back is no success.
Show(c) ==
  /\ Doing(c, "show")
  /\ \/ NoMishap /\ Proceed(c)
     \/ Mishap /\ AnswerWith(c, "unverified", req[c].no)
  /\ UNCHANGED <<bead, idemStore, inbox, hashes, written>>

\* actionSummary before a transition: a bead that cannot be read counts as open.
LooksOpen(c) ==
  /\ Doing(c, "open?")
  /\ \/ NoMishap /\ (IF bead[req[c].b].open THEN Proceed(c) ELSE AnswerWith(c, "409", req[c].no))
     \/ Mishap /\ Proceed(c)
  /\ UNCHANGED <<bead, idemStore, inbox, hashes, written>>

\* idempotent: a key that was used gets the answer that was given.
ReplayAnswer(c) ==
  /\ Doing(c, "replay")
  /\ IF req[c].key \in DOMAIN idemStore THEN AnswerWith(c, "ok", idemStore[req[c].key]) ELSE Proceed(c)
  /\ UNCHANGED <<bead, idemStore, inbox, hashes, written, mishaps>>

Keep(c) ==
  /\ Doing(c, "keep") /\ Proceed(c)
  /\ idemStore' = IF req[c].key = NoKey THEN idemStore
                  ELSE [k \in DOMAIN idemStore \union {req[c].key} |->
                          IF k = req[c].key THEN req[c].no ELSE idemStore[k]]
  /\ UNCHANGED <<bead, inbox, hashes, written, mishaps>>

\* Entries go after a day.
Prune ==
  /\ \E k \in DOMAIN idemStore :
       Mishap /\ idemStore' = [l \in DOMAIN idemStore \ {k} |-> idemStore[l]]
  /\ UNCHANGED <<bead, req, inbox, hashes, written>>

---------------------------------------------------------------------------
\* POST /paste: a text whose hash is known is answered with its bead; another
\* is made into one, and the hash is saved when the create has returned.
Paste(c) ==
  /\ req[c].pc = "idle" /\ ~Synchronous(c) /\ written < MaxWritten /\ written' = written + 1
  /\ \E text \in Pasted :
       req' = [req EXCEPT ![c] =
         IF text \in DOMAIN hashes THEN [pc |-> "idle", outcome |-> "duplicate", text |-> text, id |-> hashes[text]]
         ELSE [pc |-> "create", door |-> "paste", text |-> text]]
  /\ UNCHANGED <<bead, idemStore, inbox, hashes, mishaps>>

SaveHash(text, id) ==
  hashes' = [t \in DOMAIN hashes \union {text} |-> IF t = text THEN id ELSE hashes[t]]

CreatePasted(c) ==
  /\ req[c].pc = "create" /\ ~Synchronous(c)
  /\ LET text == req[c].text
         id == Len(inbox) + 1
     IN \/ /\ NoMishap /\ inbox' = Append(inbox, text) /\ SaveHash(text, id)
           /\ req' = [req EXCEPT ![c] = [pc |-> "idle", outcome |-> "pasted", text |-> text, id |-> id]]
        \/ /\ Mishap /\ (UNCHANGED inbox \/ inbox' = Append(inbox, text)) /\ UNCHANGED hashes
           /\ req' = [req EXCEPT ![c] = [pc |-> "idle", outcome |-> "failed"]]
  /\ UNCHANGED <<bead, idemStore, written>>

\* Someone at the store CLI closes or reopens a bead.
Outside ==
  /\ \E b \in Target : bead' = [bead EXCEPT ![b].open = ~@] /\ Mishap
  /\ UNCHANGED <<req, idemStore, inbox, hashes, written>>

RestartBridge ==
  /\ Mishap
  /\ req' = [c \in Client |-> [pc |-> "idle"]] /\ idemStore' = << >>
  /\ UNCHANGED <<bead, inbox, hashes, written>>

WritesNext ==
  \/ \E c \in Client : \/ AskVerb(c) \/ Command(c) \/ Show(c) \/ LooksOpen(c) \/ ReplayAnswer(c) \/ Keep(c)
                       \/ Paste(c) \/ CreatePasted(c)
  \/ Prune \/ Outside \/ RestartBridge

WritesSpec == WritesInit /\ [][WritesNext]_writeVars

---------------------------------------------------------------------------
Entries == UNION {Range(bead[b].log) : b \in Target}

\* A bead is never closed in a decision's name without a comment that says so,
\* wherever the request failed, was cut off by a restart or overlapped another;
\* and whoever is told of success, the first time or in a replay, is told of a
\* request whose every command landed (lib/receipts.ts:1-8).
DecisionsAreTrue ==
  /\ \A b \in Target : \A n \in DOMAIN bead[b].log :
       LET l == bead[b].log
       IN l[n].did = "close" /\ l[n].verb \in Decision =>
            \E m \in 1..(n - 1) : l[m] = [l[n] EXCEPT !.did = l[n].verb]
  /\ \A c \in Client :
       (req[c].pc = "idle" /\ "of" \in DOMAIN req[c] /\ req[c].outcome = "ok") =>
         \E e \in Entries : /\ e.by = req[c].of
                            /\ \A what \in Range(Commands(e.verb)) : [e EXCEPT !.did = what] \in Entries

\* A request with a key that was answered before is given that answer. It is
\* not so for a decision: the bead is closed by then, and whether it is open is
\* looked at before the key is (routes/actions.ts:39-40).
RepeatIsReplayed ==
  [][\A c \in Client :
       (req[c].pc = "run" /\ req'[c].pc = "idle" /\ "of" \in DOMAIN req'[c] /\ req'[c].outcome = "409")
         => req[c].key \notin DOMAIN idemStore]_writeVars

\* A text is pasted once. It is not so if it comes twice before the first is
\* made, or comes again after a create that was killed and landed.
PastedOnce == \A text \in Pasted : Cardinality({n \in DOMAIN inbox : inbox[n] = text}) <= 1
=============================================================================
