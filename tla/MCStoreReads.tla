----------------------------- MODULE MCStoreReads -----------------------------
(* Instances of StoreReads: three beads, most sort values tied. *)
EXTENDS StoreReads

At(p, c, u) == [pri |-> p, created_at |-> c, updated_at |-> u, open |-> TRUE]
MCRows == {<<At(1, 0, 1), Absent, At(1, 0, 1)>>,
           <<At(2, 0, 1), At(1, 0, 1), At(1, 1, 1)>>}

List(feed, by, desc) ==
  [feed |-> feed, by |-> by, desc |-> desc, all |-> FALSE, limit |-> 1, bounds |-> Unbounded]
MCRequest ==
  {List(FALSE, "", ""), List(TRUE, "", ""), List(FALSE, "priority", "true"),
   List(FALSE, "created_at", "false")}
  \union {[List(FALSE, "updated_at", "") EXCEPT !.limit = 2, !.all = TRUE,
                                               !.bounds.updated_before = 3]}
MCDefaultRequest == {List(FALSE, "", "")}
=============================================================================
