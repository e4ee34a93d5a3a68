# Verification project for beads-bridge

TLA+ models of the bridge's server, the TLC runs that check them on small
instances, and theorems about them checked by TLAPS. Source paths are relative
to the repository; `lib/x.ts` is `src/src/lib/x.ts`, `routes/x.ts` is
`src/src/routes/x.ts`.

## 1. Inventory: the system and its state

beads-bridge is one Express process (Bun) in front of *bead stores*, issue
trackers driven by a CLI (`bd`) over a Dolt database. JavaScript runs one
callback at a time, so within a process only an `await` lets other work in;
several bridge processes (and humans) may use the same store at once, and the
store CLI may fail, be killed by its timeout, or commit after its caller gave up.

| Component | State it keeps | Operations | What makes it correct |
|---|---|---|---|
| operation lock (`lib/idempotency.ts`) | map key → promise of the last caller | `withOperationLock` | one body per key at a time, arrival order, a rejection frees the next caller, the map drains |
| idempotent create (`lib/idempotent-create.ts`, `idempotency.ts`, `create.ts`) | none of its own: labels and `[bb-rev]` notes in the store | `createOperationBead` | one bead per operation, every delivery recorded, captured text survives, duplicates collapse onto a live bead |
| implicit-intent create (`lib/intent.ts`) | in-memory registry of recent intents | `createIntentBead` | follow-ups converge on one bead, text is additive |
| voice guard (`lib/voice-guard.ts`) | map token → paused call; the glossary's rules | guarded tool calls, `voice_confirm` | a flagged call runs at most once, only after a confirm; the suggested wording changes the slips and nothing else |
| OAuth server (`lib/oauth.ts`, `routes/oauth.ts`, `lib/tailnet-approval.ts`, `lib/oauth-tx.ts`) | token store on disk; transactions in memory | authorize, approve, token, refresh, revoke | every grant approved, codes single use, rotation, live tokens survive crashes |
| relay-status and heartbeat (`lib/relay-status.ts`, `heartbeat.ts`) | tracked items, per-caller cursors | touch, verify, done, pin, list, peek, read | nothing pending is skipped or repeated, peeking consumes nothing |
| batch create (`lib/batch.ts`), project relay (`lib/relay.ts`) | the store | a graph of beads; capture, upsert, dispatch, flow, edit | the report says what was done; a replay makes nothing more |
| SQL reads (`lib/sql.ts`, `sql-beads.ts`, `store-health.ts`, `query-order.ts`) | cool-down, caches, health verdicts | pages of a list, probes | paging shows each bead once, verdicts are recent |
| retrieval (`lib/retrieval.ts`, `graph-sql.ts`, `bead-text.ts`) | none | snapshot, activity, claims | what is missing is marked, a verdict has evidence, the newest are shown |
| activity and live pages (`lib/activity.ts`, `view-state.ts`, `live-variants.ts`) | event ring, subscribers, shared view | record, subscribe, replay, poll | a page never goes back, and catches up |
| write routes (`routes/verbs.ts`, `actions.ts`, `paste.ts`) | idempotency keys | verbs over GET, tool bridge, pastes | an answer kept for replays is true |
| operator files (`lib/personality.ts`, `whoami.ts`, `scratchpad.ts`, `comments-slice.ts`) | three files | identity, document, scratch notes, comment pages | what was told is kept; what is cut is cut last |
| resume pages, follow-ups (`resume-cache.ts`, `routes/resume.ts`, `beads.ts`, `query-followups.ts`) | cached pages and marks; the bank | serve, fetch again behind; compare | a page asked for is brought up to date; a report is true |
| feedback (`lib/feedback.ts`) | one file a record, snapshots | file, edit | the audit trail is whole |
| QR encoder (`lib/qr.ts`) | none | `encodeText` | the symbol decodes to the text |
| telemetry, front-door proxying, support hatch, web, extension, ops | little or none | reporting, rendering | see section 7 |

Hard behaviours: deliveries of one request overlapping at one or several
processes; a command whose outcome is unknown; reads that fail and look like
empty results; values read before an await and used after it; restarts between
two commands or two writes; retries of what was already done; answers that
arrive out of order; marks, cursors and verdicts that outlive what they say.
PROJECT.json lists them under `hazards`, each at its line with the properties
about it.

## 2. Modules

| Module | Models | Notes |
|---|---|---|
| `KeyedMutex` | the promise of `withOperationLock` | abstract specification |
| `OperationLock` | `withOperationLock` | one action per turn of the event loop; implements `KeyedMutex`; proved about in `OperationCreateProofs` |
| `OperationCreate`, `OperationCreateProofs` | `createOperationBead` with an operation id | relies on `KeyedMutex` per process |
| `IntentCreate`, `IntentCreateProofs` | `createIntentBead`, creates without an operation id | relies on `KeyedMutex` |
| `VoiceGuard`, `VoiceGuardProofs` | pauses and confirmations | the tool's handler is a gap of bounded length |
| `SpeechSlips` | the glossary's rules, their cache, the wording suggested | comes before `VoiceGuard`'s pause; proved about in `VoiceGuardProofs` |
| `RelayHeartbeat`, `RelayHeartbeatProofs` | tracked items, cursors, footers, reads | driven by every tool callback |
| `RotatingGrant` | what a grant's credentials promise | abstract specification |
| `OAuthServer`, `OAuthServerProofs` | the authorization server, its file and the doors | implements `RotatingGrant` |
| `StoreReads` | the pages of one list, SQL with fallback, probes | proved about in `ReadsProofs` |
| `Retrieval` | snapshots, activity, claim listings over stores | proved about in `ReadsProofs` |
| `Ordered` | sorting and filtering, as the reads, the note pages and the voice guard use them | definitions that proofs can open |
| `ReadsProofs` | theorems about `StoreReads`, `Retrieval`, `OperatorDocument` and `Scratchpad` | one chapter each |
| `BeadStore` | what the CLI does for the relay tools | extended by the next two |
| `Relay`, `BatchCreate` | `lib/relay.ts`; `lib/batch.ts` | scripts of store commands |
| `RelayTools`, `RelayToolsProofs` | callers of both over one store | the composition |
| `Live` | ring, fan-out and one live page | server and browser together; proved about in `SurfacesProofs` |
| `FeedbackRecords` | records edited in place | several processes, one directory; proved about in `SurfacesProofs` |
| `OperatorDocument` | profile, personality document, migration | proved about in `ReadsProofs` |
| `Scratchpad` | scratch notes, whoami's choice, comment pages | proved about in `ReadsProofs` |
| `WriteRoutes` | GET verbs, tool bridge, pastes | proved about in `SurfacesProofs` |
| `ResumePages` | pages fetched again behind their answers | |
| `FollowUps` | follow-ups of a resume, scope labels | proved about in `SurfacesProofs` |
| `SurfacesProofs` | theorems about `FeedbackRecords`, `WriteRoutes`, `FollowUps`, `Live` | one chapter each |
| `QrSymbol` | `encodeText`, with a reader that decodes the symbol | |
| `MC…` | finite values of the constants; `MCOneProcess`, `MCReadPath` and `MCSurfaces` also compose | |

### OperationLock

A call is one invocation. `Arrive` is the synchronous prologue (read the entry,
chain, replace it), `Start` the `prior.then(fn, fn)` reaction, `Finish` the body
settling either way, `Release` the caller's `finally`. Between `Finish` and
`Release` another call can arrive, chain itself behind a settled promise and
start, which is why the entry is deleted only if it is still the caller's own.

### OperationCreate

One store, one operation id, a set of deliveries with their content, the process
each arrives at, and the failures that may occur (`Faults`). Each action is one
store command: `FindNone`/`FindSome` (`findByOperationKey`), `StartCreate`,
`CreateReturns`, `CreateFails`, `Recover…` (`createBead`), `Collapse`,
`ReadHistory`, `ReadState`, `Edit`, `AddLabels`, `RecordRevision`, and
`FindChild`, `StartChild`, `StripKey`, `RecordPromotion` for `promote: true`.
`Land` is the store committing a create; it can happen after the caller gave up.
Beads are named by `created_at` order, so `canonicalOf` is the least name. A
body is the set of pieces of text in it: `mergeBody` is then union, which is
what its three cases (contains, is contained, append) amount to. Hashes, note
wording, provenance and dry runs are left out. A restart (`Crash`) forgets the
process' deliveries and locks and keeps the store.

### IntentCreate

The requests of one intent (same store, caller, normalized title and parent) at
one process. The lock is held from `Enter` to the answer, so requests overlap
only with the clock, with beads closed outside (`Close`), with the store's late
commits and with the loss of the registry (`Evict`, `Restart`). `ReadRecent` and
`Search` are `findCandidate`; `Reuse` is `createBead`'s lookup of identical
content; a follow-up is `ReadHistory`, `Edit`, `AddLabels`, `RecordRevision`,
`Verify`, each swallowing its failure into `whole`. A body is its set of
significant words, so `bodiesRelated` is the 40 % rule on sets and `mergeBody`
union. `Window` and `KeyWindow` are the two-minute and the one-hour window. The
registry is a set of entries that carry their turn; titles are not blank.

### VoiceGuard and SpeechSlips

A token is one caller, tool and argument object. `CallPauses`/`CallAgain` are a
guarded call that a rule flags; `Confirm…` are the branches of `voice_confirm`
in the code's order; `HandlerSucceeds`/`HandlerFails` the continuation after the
handler's await. `prune` is part of each of them. The map is the set of pauses it
holds, named in the order they were opened. The clock counts in units that
keep the order of the code's windows (resubmit 2 min < retained 10 < pending 15).

`SpeechSlips` is what comes before: `Speak` is a guarded call, which is answered
from the rules at hand or waits for the reading of the glossary that is under way
(`GlossaryIsRead`, `LoadEnds`, `LoadRejects`). Texts are sequences of letters
because findings are indexes into them; `ScanText` and `ApplySuggestions` are
translated, the findings as a set that the substitution sorts, and `Corrected` is an
independent definition of the same wording that starts from the places between words.
Words are parted by spaces only: a comma or a hyphen would be one more letter that
ends a word, as the space is.

### RelayHeartbeat

The tracker is its Map's insertion `order` and the `item`s; `Touch`, `MarkVerified`,
`MarkDone`, `Pin` and `Pruned` are its methods, as functions from tracker to
tracker. A tool awaits the store and then, in one turn, touches its items and
composes its answer; an action is that turn, with the store's answer chosen
(`WriteOutcomes`: read back, not read back, failed). Every answer but those of
`heartbeat` and `relay_status` carries a footer, which peeks. `unread` is history:
what was touched since the caller's last acknowledging read. A read lists five rows at
most, or 600 characters of them, counts the rest and acknowledges all: the model has
what it lists or counts, not which. Titles, kinds, source
times and the `stale` label are left out. The clock is milliseconds;
`SameInstant` says whether an item may be touched in the millisecond of a read.

### OAuthServer and RotatingGrant

Handlers are synchronous; each store function reads the file, changes it and
writes it back whole. A handler that calls several is a sequence of writes, and
the process can stop, or a write throw, after any of them. Transactions and the
consent cookie's secret live in memory only. Credentials are numbered as they are
minted. A store that cannot be parsed reads as empty, and the next write then
replaces it. `RotatingGrant` says of a grant: a code is spent once, a refresh
token is exchanged for a new pair, a retired one opens nothing. `ImplementsGrants`
maps codes, pairs and tombstones to it.

### StoreReads and Retrieval

`StoreReads` follows a client through the pages of one list. `Order`, `InBounds` and
`After` are the order, the bounds pushed into SQL and the keyset cursor; each
statement of a page is one action and the store changes in between; a failing
statement starts the cool-down and sends the page to the CLI, whose copy may be the
wrong one; the guard before the CLI probes it and keeps the verdict.

`Retrieval` runs one request at a time over several stores. A snapshot walks the
graph level by level: over SQL, the parts of a whole level (`edges`, `children`,
`texts`) are read separately and in any order, over the CLI a bead at a time, and
the walk falls back from the one to the other wherever it is. An id may be cut
short: its edges and mentions are found under the full id and its children under
the id as it stands, as in the code. Beads of the same project, which the code adds
to a bead's neighbours last, are left out, as they are one more kind of neighbour.
`graphs` (the link graphs there were) and `was` (the claims a bead went through) are
history for the properties. The parts of one bead may be read from different graphs,
and the fan-out cuts what is assembled of them: so a link counts as there all along
only if it survives the cut in whichever graphs the parts come from (`LeadsTo`). To
ask that it be there in each graph by itself would be too much; a part that grows
between two reads can push it over the limit.

### Relay, BatchCreate, RelayTools

An operation is a script of store commands that its tool works off, one action a
command, others in between. A command may fail without effect, take effect and be
reported failed, or land after it was given up. A project is named by its id, slug,
title or alias. The links of a batch are made bead by bead, those of one bead in any
order. `HourPasses` makes the oldest young bead `old`, which takes it out of reach of
the content key (`CREATE_KEY_WINDOW_MS`); it may do so at any moment but the seconds
between a create that was killed and the look for what it made. `RequestAssumption` and `BatchAssumption` are what the tools let through: an
edit that names its project and gives each field once (`planProjectEdit`), a capture
without a priority (`CaptureInput`), a batch whose beads come in an order. What
`validateBatch` refuses (references forward, parents in another store) is refused
by `Valid`, which is part of the action.

### Live

`Others` are the sinks of other viewers at the fan-out's cap. A page holds one
stream, whose frames arrive in order until it breaks, and GETs whose answers arrive
at any time; `Recorded` is the ring's entry and `Moved` the shared view's move by
one tool call. A restart counts all sequences from their start again, which the page
learns from the boot id. Follow, pause and the markup are left out.

### The small surfaces

`FeedbackRecords`: an edit is read, archive exclusively, write a temporary file,
rename, read back; two processes interleave and either dies anywhere.
`OperatorDocument`: the migration inside whichever call comes first, two files, two
writes. A file whose read throws counts as missing, so `Remade` writes the default over
a document that is there and `ProfileUpdated` writes the patch alone; `writeFileSync`
empties its file before it fills it, so a write that fails or is killed leaves the file
as it was, a beginning of the document (`Beginnings`), or a profile that does not
parse, which reads as none. `Scratchpad`: entries have sizes, comments have characters
with widths; `SelectWhoamiNotes` and `SliceCommentText` are translated whole, and
`CommentsText` is what `beadText` makes of a comments command that fails: what it had
put out, or its error. `WriteRoutes`: a GET
awaits each command, the tool bridge runs them synchronously and keeps the answer
under its key. `ResumePages`: four kinds of page with one cache and one set of marks,
who sets and removes the mark differing by kind. `FollowUps`: three listings, each
at its moment, cut to its first rows before what is confirmed or verified is left out.
`QrSymbol`: `encodeText` in stages (codewords, blocks, function
patterns, placement, eight masks), and `ScansAs`, a decoder written from the other
side: it unmasks, collects the modules by the standard's path, takes the blocks
apart, checks the correction of each by evaluating it at the generator's roots and
decodes the bytes. The encoder was compared with `qr.test.ts`'s symbols (version
1, 5 and 13, masks 6, 2 and 0).

## 3. Runs

| Run | Instance | Shows |
|---|---|---|
| `one_process` | 4 calls of the lock, 3 on one key; 4 deliveries, 1 process, 2 promotions; create, edit, label, close fail | order, draining, refinement with liveness; one bead, every success recorded once, text kept |
| `opcreate_many` | 3 deliveries, 2 processes, all faults | canonical bead stays open, callers answered |
| `intent` | 4 requests, 2 instants; show, create, edit fail; restarts, evictions | one bead per intent, complete answers kept |
| `voice_prompt` | 4 requests, 2 tokens, clock to 4, handlers of 1 unit | single execution, resubmit window, no hanging waiter |
| `heartbeat` | 2 callers, 2 beads, 1 pause, tracker of 2 | nothing pending skipped or repeated |
| `oauth` | 2 transactions and asks, 2 codes, 3 pairs; throwing writes, restarts, unreadable store | approval, single use, live tokens kept, refinement |
| `readpath` | a list of 3 in pages of 1 or 2, a write, two faults; graphs of 6 ids, depth 2, caps 3 and 4 | paging, verdicts of probes, marks on what is missing |
| `relay` | 2 callers, 2 projects, 2 calls, 2 faults, an hour passing | reports are true, promotion by a write, twins explained, replays within the hour |
| `relay_dispatch` | the same | **violated**: see findings |
| `live` | one page of two kinds, 2 events, 2 boots, 1 break, a cap of 1 | never back to an older view, catches up |
| `surfaces` | nine small surfaces | one property each |
| `comments_loop` | the same | **violated**: see findings |

Bounds. Three calls on one key give a holder, a waiter and a newcomer, which is
every position the chain distinguishes; a call on a second key shows that keys do
not interact. Four deliveries are a first, a merge and two promotions, in any order
and overlap; two processes suffice for disagreement about the canonical bead. Four
voice requests allow a pause, two confirms and a re-send, or two pauses and confirms
of the same call. The intent run has a request, its repetition, a related follow-up and an unrelated
one: every relation `findCandidate` and the content key distinguish. The heartbeat
has one id more than the tracker holds, so every order of touches, pins and
evictions at the cap occurs. The OAuth caps make a second ask meet the cap; three
pairs are a code's pair, its rotation and one from before tokens lived for ever.
Three beads under five orders, with ties, make a page boundary fall between every
two of them; two faults fall back and recover. Six ids with a cap of 3 or 4, a
fan-out of 3 and a depth of 2 make each of the three cuts occur, and each in the
middle of a level. In `relay` the second call finds what the first left undone, and
two faults fail a command and then its remedy; the first bead made may grow old
(`MaxOld`), before, within or after the calls that look for its content. Among the surfaces, three calls of the
operator (`MaxTold`) say something, move it and replace it, and two faults of their
files (`MaxFileFaults`) are a read that fails and the write that follows; two bullets
at a `RowLimit` of one make a listing that is cut before it is filtered; one failed
comments command (`MaxPadFaults`) comes before, between or after whole pages, with an
`ErrorText` shorter and longer than a page; `MaxWaiting` bounds the requests that wait
for a page and `MaxFresh` the `?fresh=1` ones, so the boot's fetch and those behind
answers overlap with them and with each other. In `live` a second boot restarts the
sequences and the cap of one evicts a page. The texts of the QR surface take the 8
and the 16 bit count, one block and blocks of two lengths, the version information,
and more than any symbol holds. Two slips, one of which a phrase keeps, one plural and one
inside a longer word, move each other's indexes.

`one_process`, `readpath` and `surfaces` each check several modules in one state space. The
modules share no variable, and the first state chooses which of them takes the
steps, the others staying in one initial state; a property of one module is thus checked in every
behaviour of that module, and nothing is gained or lost by the company.

What the instances leave out, because the code does not promise it there:
`one_process` leaves out `find`, `show`, `late`, `lookup`, `note`, `strip` and
`crash`, which `opcreate_many` has; `voice_prompt` starts a handler only when it can
end before its pause's 15 minutes are over; `intent` leaves out `find` and `late`,
with which the code does create a second bead, and, to stay small, `lookup`, `label`
and `note`; `readpath` lets no walk change from SQL to the CLI between two pages;
the heartbeat excludes a touch in the very millisecond of a read; a batch is replayed
within the hour of its content keys, and only while nothing has failed; the
pages of comments are followed up to the first whose command failed; `ReadsFirst` has a
client read the document before it replaces it; the glossaries record a slip once;
page sizes are at least a character's width. Section 4 says what happens otherwise.
The runs say CHECK_DEADLOCK FALSE because a bounded set of calls comes to an end.

Fairness. A body, a handler or a fetch ends because every store command carries a
timeout (`execStdout`, `CREATE_TIMEOUT_MS`, 180 s for a resume page); promise
reactions run; the store finishes or fails what it started. In `Live` the script
starts, its timers fire (poll, reconnect), frames are delivered and requests
answered while the connection is up. In `ResumePages` the readers keep asking, which
is what brings a page up to date: nothing in the server fetches one that nobody asks
for; and a bundle ages past its time to live. No caller is made to arrive, nothing
is made to fail, succeed or restart, and no bound is reached by force: breaks,
restarts and changes are finite because they are counted.

## 4. Findings and limits of the code's promises

* `relay_dispatch` (listed): `findDuplicate` compares a title with dispatch request
  beads too, so an upsert of a task whose dispatch was requested overwrites the
  request and makes no task.
* `comments_loop` (listed): a client loops over the pages of a bead's comments, and the
  command behind one of them fails. `beadText` makes its error the text the page is cut
  from (exec.ts:30-39, comments-slice.ts:85); where that is shorter than the offset the
  answer is an empty page and the last one, where it is longer, error text in the middle
  of the comments. wildcard.ts:178-179 says "without data loss".

Met while modelling, each with a configuration or a property kept in the modules that
shows it when it is put into a run:

* `ReplayedPromotionFindsChild` (`OperationCreate`, no faults, `first`, `side` and
  `replay` delivered, the last two promotions): the child key of a promotion is taken
  from a sequence number the first attempt has already advanced, so a replayed
  promotion forks a second child.
* `BodyNeverShrinks` (`OperationCreate`, `Faults = {"show"}`, no promotion): a bead
  that cannot be read is merged with as if it were empty, and the edit overwrites its
  text.
* `CapturedTextIsKept` (`OperationCreate`, `Faults = {"create", "lookup"}`, the
  deliveries of the first of these): a child that landed without its caller seeing it
  keeps the inherited operation key, and the retry closes it as a duplicate, text and
  all.
* `OneExecutionAtATime` with `LateConfirms = TRUE`: a handler that outlives the 15
  minutes since its pause is dropped from the map while it runs; the same call can
  then run beside it.
* `DistinctStaysSeparate` (`IntentCreate`, `ask` and `apart` with `Distinct =
  {"apart"}`): a `distinct: true` request that repeats an earlier one word for word is
  given the earlier bead by `createBead`'s content key.
* A complete batch asked for again after an hour makes every bead again, with no fault at
  all: `lookupByCreateKey` leaves out what is older (create.ts:94,181-184), and
  `bead_batch_create` takes no operation id that could stand in. Take `~bead[i].old` out
  of `ReplayMakesNoMore`, let `before` be all beads in `BatchCreate`, and `relay` shows
  it with `MaxOld = 2`; docs/idempotent-create.md:267 does not name the hour.
* A personality document that is there and whose read throws is overwritten with the
  default (personality.ts:57-59,103-107), and a profile that cannot be read or parsed
  with the patch of the call (whoami.ts:103-105,111-123); both are emptied before they
  are written, so a full disk or a death in the middle leaves less than there was.
  `ToldIsKept` grants each of these what the file alone held (`OnlyInDocument`,
  `OnlyInProfile`); without that it fails at the first fault.
* A heartbeat read moves its caller's cursor past all pending items, though it lists only
  five of them, or 600 characters, and counts the rest (heartbeat.ts:147,168-172,237).
* `MCRelayHeartbeat_pause.cfg`: eight touches of other items, or a read that marks the
  item verified, make the heartbeat forget a pending voice pause.
* `MCStoreReads_fallback.cfg`: a walk that falls back to the CLI between two pages
  misses rows (docs/sql-reads.md:52-53).
* `RefusedForAnEdit` (`FeedbackRecords`): the snapshot left by an edit that died refuses
  every later edit of the record as concurrent.
* `ToldIsKept` with `ReadsFirst = FALSE`: replacing a document one has not read loses
  what was moved into it the moment before.
* `LastPauseIsShown` (`Scratchpad`): whoami's byte cut lets a paused task's note go if
  it is among the newest entries.
* `RepeatIsReplayed`, `PastedOnce` (`WriteRoutes`): a decision repeated with its key is
  refused as closed, not replayed; a text pasted twice at once is made twice.
* `AMarkIsAFetch` (`ResumePages`): the mark of a project page that was waited for stays,
  and the page is never fetched behind an answer again.
* `ReplayMakesNoMore` (`RelayTools`) without its hypothesis that the first batch's
  beads are the oldest of their content: with three clients and no fault, a third one
  halfway through the same batch has made the older twin of a parent; the replay takes
  that one and makes a new child under it (docs/idempotent-create.md:267).
* A slip that two glossary beads record is replaced twice, the second time over the
  first's suggestion. A follow-up after a listing that failed reports its beads
  resolved. A comments page smaller than a character never advances. A section edit of
  the personality document collapses runs of blank lines elsewhere in it, where
  personality.ts:141 says "byte-identical". These four are outside what the runs assume.

## 5. Proofs

TLAPS checks these for every value of the constants, under the assumption each
module names (`KeyOfAssumption`, `NoCallAssumption`, `ContentAssumption`,
`IntentAssumption`, `LimitsAssumption`, `TrackerAssumption`, `OAuthAssumption`,
`RelayAssumption`, `RequestAssumption`, `BatchAssumption`, `VerbAssumption`,
`StoreReadsAssumption`, `RetrievalAssumption`, `LiveAssumption`, `DocumentAssumption`,
`ScratchpadAssumption`, `SpeechAssumption`). They type the constants, say which requests the tools accept, and
put the code's constants in their order where an argument turns on it (a bad verdict
is kept no longer than a fit one, store-health.ts:110-111); no other fact about the
code is taken on trust. Where a theorem needs more, that is a hypothesis of its statement, and the
paragraph says what happens without it.

* `OperationCreateProofs`, about `OperationLock`: `LockingTypeCorrect`, `Serialized`,
  `Drains`, `RefinesMutex`.
  `ServedInOrder` is not inductive: nothing in it says that the call found in the
  map is the latest arrival on its key, nor that a waiting call's predecessor is
  the one just before it. The invariant adds that tickets are distinct, that the
  entry of a key is its latest arrival while anyone is inside, and that each call
  is chained behind an earlier one which every other earlier call precedes.
* `OperationCreateProofs`, about `OperationCreate`, for any processes and failures: `TypeCorrect`,
  `CanonicalSafe`. The invariant follows the bead that carries the key and sorts
  first: a collapse list only ever holds beads after a carrying bead that its owner
  chose as canonical, a child sorts after its parent, and a bead loses the key only
  if it is a child. Hence whoever closes a bead leaves an earlier carrying one open.
  For one process (all deliveries have one `Home`, so that the lock leaves one of
  them between its lookup and its answer, `LockInv`):
  `OneBeadSafe`, if no lookup fails silently, no create lands late and the process
  does not restart: a create is in flight only while its delivery waits for it, so a
  lookup that finds nothing means there is nothing (`RootInv`).
  `DeliveriesAreRecorded`, restarts and late creates included, if lookups, reads and
  notes do not fail: the number a delivery is about to write is above all that are
  there, and no delivery writes twice (`NoteInv`).
  `CapturedTextSafe`, whatever creates, edits, labels and closes fail: what a
  delivery read of the body is what is there until it has written its own, and the
  child of the revision under way is its delivery's (`TextInv`).
  The faults left out are those section 4 shows to break them.
* `IntentCreateProofs`: `TypeCorrect`; `CompleteAnswersSafe`, with every failure,
  restart and eviction; `NoSecondBeadSafe`, if no search fails and no create lands
  late. One request at a time is between arrival and answer, so the text it read of
  its bead is the bead's until it has edited it, whoever closes the bead meanwhile
  (`Working`); and what was searched in vain stays absent until the create (`Clear`).
  `CompleteAnswerKept` alone is not inductive, as it says nothing of a follow-up
  that is half done.
* `VoiceGuardProofs`: `ConfirmedCallsRunAlone` and `RetriesAreNotNewWork`, for
  handlers that end within their pause's time to live (`~LateConfirms`) and while no
  more pauses are fresh than the map holds (`Room`, a hypothesis on the behaviour);
  `FewCallsLeaveRoom` shows that a run with no more flagged calls than `MAX_ENTRIES`
  has that room. The invariant says that what runs is still in the map and ends
  before `prune` may take it, and that a call that is done stays there until its
  window is over. Without either hypothesis the map forgets a call that runs.
  The same module has `SuggestionsAreTrue`, of `SpeechSlips`. Its hypothesis (`SlipsApart`) is that of no two
  slips of a text, and no two phrases to keep, one begins within the other, as it is
  not said what the correction of such a text would be; the run assumes the same of
  its texts (`SlipsAreApart`). The argument goes through the code's passes over the text.
  Masking phrases one after the other masks the stretches of them all, because what
  is masked is whole words, so what is left is heard where it was (`ByWords`,
  `HeardMasked`, `KeepAll`); the search, which goes on behind each match, misses none
  of slips that are apart (`SearchFinds`), so a rule finds its slips and no other
  (`SlipsFound`). Replacing from right to left then leaves, after each step, a
  beginning that is untouched and an end in which all is corrected, which is what
  joining the letters from left to right makes of it (`ReplacedIsJoined`). Over time,
  the rules in the cache or read for the waiting calls are those of some wording of the
  glossary that was in force at the time they are stamped with, or later (`WordedIn`,
  `SpeechInv`), and reading takes less than the time to live.
* `OAuthServerProofs`: `GrantsAreHuman`, `PublicCallsAreCredentialed`,
  `CodesAreSpentOnce`, `TokensOutliveFailures`, `StoreIsTyped` and `GrantsRotate`,
  the refinement of `RotatingGrant` step by step, all with writes that throw, restarts
  between two writes and a store that cannot be read. The invariant has two halves:
  `Approvals`, whose word each transaction, request, cookie and code goes back to, and
  `Lineage`, which code and which pair each token goes back to: a code that is still
  in the file was never presented, and a grant has one pair.
* `RelayHeartbeatProofs`: `NothingSkipped`, under `~SameInstant`. Every operation
  of the tracker leaves an item as it was, drops it, or stamps it with the present
  (`Moves`, which composes), and no cursor or stamp is ahead of the clock
  (`PastOnly`); so an item is past a cursor exactly if it was stamped after it.
  With a touch in the very millisecond of a read the property is false: the
  comparison with the cursor is strict.
* `RelayToolsProofs`: `AnswersAreTrue`, `PromotionsAreEarned`, `TwinsAreExplained`,
  `BatchReportsAreTrue`, `ReplaysMakeNoMore`, for any number of clients, calls and
  failures. Every fact a call has about the stores is one that only gets truer as
  they grow (`Grown`, `Raised`): so the facts are stated of a state of the stores
  given as parameters, at each place of a script (`RelayInv`), and one client's
  command keeps those of all the others. `BatchInv` adds that each bead so far has
  landed or is among the failures, and that each link is made, to be made or among
  them. For replays, `ReplayInv` says of the time before the first failure that
  nothing is late or closed and that a bead of a batch whose content was there before,
  less than an hour old, was there too and is the oldest such (`Oldest`); the beads that
  were young when a batch began and still are have only younger ones after them, so an
  hour that passes under the replay takes none of the first batch's beads away without
  the hypothesis noticing. The proof takes the first place at which the two batches would
  differ.
* `SurfacesProofs`, a chapter per module:
  `NothingFiledIsLost` (`FeedbackRecords`). An edit about to replace a record has made
  the snapshot of its present version and is the only one that has; an edit that
  comes too late finds that snapshot in its way.
  `DecisionsStayTrue` (`WriteRoutes`). A request has done every command of its script
  before the place where it stands, a kept answer is that of a request which did them
  all, and logs only grow; so a close has its comment before it in the log of the same
  bead, whatever was interleaved, and a replay tells of what is still there.
  `ReportsAreTrue` (`FollowUps`). Each whole listing is what was stale in its stores
  at one moment since it was asked for, and a bank is such listings under the labels it
  carries; the difference of two is then true of the moments they were taken at.
  `PagesGoOn` (`Live`). Frames on the wire and answers under way are of the process
  that runs, as both end with it; a page of that process shows no view above the
  highest revision it has seen, unless it still shows the first; and it takes over a
  view only if that is above the highest it has seen. A page of a process that is gone
  may go back: it is what the new one's counters, which start again, ask of it.
* `ReadsProofs`:
  `GuardStaysRecent` (`StoreReads`). A verdict in the cache that lets something pass
  was given by a probe that heard it from the target itself: `safe` lies at most a
  probe's length before it. A caller that waits for a probe goes by what that probe
  heard.
  `PagesShowEachOnce` (`StoreReads`). A row of the list that nobody wrote is either
  shown, once, or ahead of the cursor (`Divided`), and the rows a page has read but not
  shown yet are the first of those ahead (`RowsRight`), in an order that is total
  because every order ends with the id. `EachShownOnce` alone is not inductive, as it
  says nothing of the cursor. The chapter before it shows what a sort and a filter
  return (`SortedIs`, `PickedIs`), by the number of elements below each.
  `SnapshotsAreWhole` (`Retrieval`). A bead is listed or waits, and that once
  (`Apart`). While nothing was cut off, every bead seen is listed or waits, a step
  deeper at most, and so is all that a listed bead leads to (`Whole`, `Followed`); and
  what was loaded of a bead that is not lost is what it had in some graph there was
  since the read began (`LoadedRight`), so that links rewritten under the walk do not
  break it. `SnapshotIsWhole` speaks of the end only. That it follows for beads any
  number of steps away is an induction, over the set of the numbers of steps for
  which it holds.
  `VerdictsHaveEvidence` (`Retrieval`). The claim in a row, and the one it is looked up
  again as, are both of the bead's history since the read began (`DetailInv`).
  `NewestAreNotLeftOut` (`Retrieval`). What was read of a bead nobody touched is what it
  is (`TrueRow`), and a store that answered left out nothing newer than its page
  (`NoNewerLeftOut`). That merging the pages and cutting them to the limit keeps this
  is counted by the elements that a sort puts before a row.
  `RetrievalTypeCorrect`: the same invariant, with the counts and the bound on rows.
  `WhatIsToldIsKept` (`OperatorDocument`), under `ReadsFirst`. Who is about to replace
  the document has read the texts it now holds (`ReadBefore`), and what is about to be
  cleared from the profile is in the document already (`MovedBefore`): between the two
  files there is no moment in which a death loses a text. Its lemmas follow the texts
  through what rewrites the document: an append, a section edit and the collapsing of
  blank lines lose none, and what a cut or unread file no longer has the other file has,
  or that file alone had it (`OtherFileKeeps`). When a
  replacement finds the document unreadable, what it takes back is what was put in the
  document's place, the texts moved from the profile among it (`seen` in `Remade`). Without `ReadsFirst` section 4 shows the loss.
  `PausedWorkIsKept` (`Scratchpad`). One note is always left, and in the order in which
  they are let go the last is the latest older note that says a task was paused, if there
  is one; what is shown is one note, or fits the byte limit.
  `CommentPagesJoin` (`Scratchpad`). Up to the first page whose command failed, the next
  offset is where the last page ended; it
  is the end of a character, stays one when comments are added (`EndsStay`), and a
  character lies behind it, so the next page ends further on (`PadInv`). Its hypothesis
  is that no page asked for is narrower than a character (the schema's least size is
  1): a narrower one is the same page again, for ever. Where characters end is a
  recursive function; that it exists is proved, and what is said of its values is an
  induction over the set of numbers for which it holds.

Only model-checked, and out of the prover's reach: all liveness (`EveryCallerAnswered`,
`EveryRequestAnswered`, `PageCatchesUp`, `EveryPageIsRefreshed`, the liveness part of
`ImplementsMutex`), and `SymbolIsReadable`, a computation in a finite field over the
symbols the run encodes, in a module with recursive operators.

## 6. Plan

Every other property the runs check is proved. What is said
of a recursive function is proved by an induction over a set (the set of the numbers
for which it holds contains 0 and is closed under successor, hence is everything,
since every nonempty set of naturals has a least element); `Recursion` gives the
function itself. A theorem about `QrSymbol` would need its operators written as such
functions and the algebra of its field, of which there is none in the library. Slips that overlap
remain without a statement: two glossary beads that record the same slip have it
replaced twice (voice-guard.ts:242).

## 7. Not modelled

* Telemetry, analytics and connection counters: append-only reporting nothing reads
  back for a decision.
* OAuth client metadata fetching and its cache, redirect matching, discovery pages.
* The proxied streams of the front doors; only which request is let through is.
* Wildcard search and the MCP tools that only read: they render store reads and keep
  no state. The SQL texts themselves run inside Dolt.
* Schemas, wording, markup, receipts' text, HTML and SVG.
* The support hatch (a separate append-only message store), the web front end, the
  browser extension and the deployment scripts.
