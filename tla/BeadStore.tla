------------------------------ MODULE BeadStore ------------------------------
(***************************************************************************)
(* The beads of the stores and createBead (lib/create.ts) as the tools     *)
(* that write several things in one call use it: a bead of the same        *)
(* content is looked for first, the store CLI is run, a create that was    *)
(* killed is looked for again, and what was made is read back.             *)
(*                                                                         *)
(* A call is a record: the tool and its arguments, where it stands (pc),   *)
(* the bead being made (make) and where to go on from there (then).        *)
(***************************************************************************)
EXTENDS Integers, Sequences, SequencesExt, FiniteSets, FiniteSetsExt

CONSTANTS
  Caller,     \* the clients
  Project,    \* ids of projects
  None,       \* no project, no slug, no body
  Request,    \* what clients ask for
  MaxCalls,   \* bound on the calls
  MaxFaults,  \* bound on the store commands that fail
  MaxOld      \* bound on the beads that grow old

VARIABLES
  bead,      \* the beads, oldest first; a bead's id is its place
  late,      \* creates whose CLI was killed and that may still commit
  call,      \* what each caller waits for
  project,   \* [title, titles, foreground, deprecated, texts], see Relay
  edge,      \* the links between beads, see BatchCreate
  asked,     \* how many calls there were
  faults     \* how many commands failed

vars == <<bead, late, call, project, edge, asked, faults>>

\* What a create asks for; its content key is the digest of all of it.
Content(store, title, body, slug, prio, parent) ==
  [store |-> store, title |-> title, body |-> body, slug |-> slug, prio |-> prio, parent |-> parent]

\* A bead keeps its content key when it is edited; it is old when it was made
\* more than an hour ago; texts is all that was ever written to it, by is the
\* call that made it.
Bead(content, by) ==
  [store |-> content.store, title |-> content.title, body |-> content.body, slug |-> content.slug,
   prio |-> content.prio, parent |-> content.parent,
   key |-> content, closed |-> FALSE, old |-> FALSE, texts |-> {content.body}, by |-> by]

Id == DOMAIN bead
Idle == [tool |-> "none", pc |-> "idle"]
Fault == faults < MaxFaults /\ faults' = faults + 1
Sound == UNCHANGED faults

At(c, pc) == call[c].pc = pc
Go(c, pc) == call' = [call EXCEPT ![c].pc = pc]
Turn(c, r) == call' = [call EXCEPT ![c] = r]
Reads == UNCHANGED <<bead, late, project, edge, asked>>

\* The bead being made is this one; it is read back next.
Found(c, id) == call' = [call EXCEPT ![c].pc = "read", ![c].id = id]

\* The call goes off to make a bead and goes on at then.
Making(r, content, then) ==
  [r EXCEPT !.pc = "twin", !.make = content, !.then = then, !.id = 0, !.verified = FALSE]

---------------------------------------------------------------------------
\* Mutant: content is not looked for.
TwinsNone(content) == {}
\* The open beads made with this content, in the last hour.
Twins(content) == {i \in Id : bead[i].key = content /\ ~bead[i].closed /\ ~bead[i].old}

\* The bead the same request made before, if the store answers; a lookup that
\* fails passes for none.
FindTwin(c) ==
  /\ At(c, "twin")
  /\ \/ /\ Sound
        /\ LET twins == Twins(call[c].make)
           IN IF twins = {} THEN Go(c, "create") ELSE Found(c, Min(twins))
     \/ Fault /\ Go(c, "create")
  /\ Reads

Appended(c) == bead' = Append(bead, Bead(call[c].make, [who |-> c, saw |-> call[c].saw]))

Create(c) ==
  /\ At(c, "create") /\ Sound
  /\ Appended(c) /\ Found(c, Len(bead) + 1)
  /\ UNCHANGED <<late, project, edge, asked>>

\* The CLI refuses; or it is killed, or its connection drops, before the
\* commit, after it, or with the commit still to come.
CreateFails(c) ==
  /\ At(c, "create") /\ Fault
  /\ \/ Go(c, "failed") /\ UNCHANGED <<bead, late>>
     \/ Go(c, "recover") /\ UNCHANGED <<bead, late>>
     \/ Go(c, "recover") /\ Appended(c) /\ UNCHANGED late
     \/ /\ Go(c, "recover") /\ UNCHANGED bead
        /\ late' = late \union {Bead(call[c].make, [who |-> c, saw |-> call[c].saw])}
  /\ UNCHANGED <<project, edge, asked>>

\* The killed create commits after all.
Land ==
  /\ \E b \in late : bead' = Append(bead, b) /\ late' = late \ {b}
  /\ UNCHANGED <<call, project, edge, asked, faults>>

\* A bead of this content is looked for, up to three times.
Recover(c) ==
  /\ At(c, "recover")
  /\ \/ /\ Sound
        /\ LET twins == Twins(call[c].make)
           IN IF twins = {} THEN Go(c, "failed") ELSE Found(c, Min(twins))
     \/ Fault /\ Go(c, "failed")
  /\ Reads

\* The bead is shown, twice if need be: verified or not, the call goes on.
ReadBack(c) ==
  /\ At(c, "read")
  /\ \E verified \in BOOLEAN :
       /\ call' = [call EXCEPT ![c].pc = call[c].then, ![c].verified = verified]
       /\ IF verified THEN Sound ELSE Fault
  /\ Reads

CreateStep(c) == FindTwin(c) \/ Create(c) \/ CreateFails(c) \/ Recover(c) \/ ReadBack(c)

\* Someone closes a bead.
CloseBead ==
  /\ \E i \in Id : ~bead[i].closed /\ bead' = [bead EXCEPT ![i].closed = TRUE]
  /\ Fault
  /\ UNCHANGED <<late, call, project, edge, asked>>

\* An hour has passed since the oldest bead that was not old was made; not
\* between a create that was killed and the last look for what it made.
HourPasses ==
  /\ \E i \in Id :
       /\ i <= MaxOld /\ \A j \in Id : ~bead[j].old <=> i <= j
       /\ \A c \in Caller :
            At(c, "recover") => ~(bead[i].by.who = c /\ bead[i].key = call[c].make)
       /\ bead' = [bead EXCEPT ![i].old = TRUE]
  /\ UNCHANGED <<late, call, project, edge, asked, faults>>

=============================================================================
