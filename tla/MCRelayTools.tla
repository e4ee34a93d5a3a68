---------------------------- MODULE MCRelayTools ----------------------------
(* Instances of RelayTools: a labelled and an unlabelled project, two titles. *)
EXTENDS RelayTools

Callers == Permutations(Caller)
MCHolds == {<<"login page", "login">>}

Ask(tool, ref, title, body) ==
  [tool |-> tool, ref |-> ref, title |-> title, body |-> body, prio |-> FALSE, allow |-> TRUE,
   dispatch |-> FALSE, edits |-> {}]

Edit(ref, edits) == [Ask("edit", ref, "none", "none") EXCEPT !.edits = edits]
Step(step, to) == [step |-> step, to |-> to]

MCLabel == [p \in Project |-> IF p = "alpha" THEN "a" ELSE "none"]
MCAlias == [p \in Project |-> IF p = "beta" THEN {"b2"} ELSE {}]

MCRelayRequest == {
  Ask("capture", "alpha", "login", "x"),
  [Ask("upsert", "a", "login", "x") EXCEPT !.prio = TRUE],
  [Ask("upsert", "b2", "login page", "y") EXCEPT !.allow = FALSE],
  Ask("upsert", "none", "login", "none"),
  Ask("dispatch", "alpha", "login", "run"),
  [Ask("flow", "a", "login", "y") EXCEPT !.dispatch = TRUE],
  Edit("beta", {Step("text", "login"), Step("lifecycle", "deprecated")})}

B(store, title, body, parent, deps) ==
  [store |-> store, title |-> Task(title), body |-> body, parent |-> parent, deps |-> deps]

\* A bead and its child, linked; twins, linked across stores to a third; and
\* one refused.
MCBatchRequest == {
  [tool |-> "batch", beads |-> <<B("task", "login", "x", 0, {}), B("task", "login page", "x", 1, {1})>>,
   links |-> {}],
  [tool |-> "batch", beads |-> <<B("brain", "login", "x", 0, {}), B("brain", "login", "x", 0, {})>>,
   links |-> {<<1, 2>>}],
  [tool |-> "batch", beads |-> <<B("task", "login", "x", 0, {2}), B("task", "login", "y", 0, {})>>, links |-> {}]}

MCRequest == MCRelayRequest \union MCBatchRequest
=============================================================================
