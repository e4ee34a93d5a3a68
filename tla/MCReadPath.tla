------------------------------ MODULE MCReadPath ------------------------------
(* StoreReads and Retrieval in one run. They share no variable: a behaviour is *)
(* of the one or of the other, which the variable kind says.                  *)
EXTENDS MCStoreReads, Retrieval

\* Six ids, one of them naming nothing and one cut short.
MCStoreOf == [b \in Node |-> b % 2]

Held(age, holder, updated) ==
  [claim |-> "held", holder |-> holder, age |-> age, labelled |-> FALSE, updated |-> updated]
MCContents == {[b \in Node |-> Held("fresh", TRUE, b)],
           [b \in Node |-> [Held(IF b = 2 THEN "none" ELSE "old", b = 1, 6 - b)
                              EXCEPT !.labelled = (b = 3)]]}

MCFullId == 6 :> 3

\* A tree with a repeated link, a chain with a way back, and a star, whose centre
\* names one of its beads a second time by an id cut short.
MCLinks == {<<<<2, 2, 3, 4>>, <<3, 5>>, <<1, 5>>, << >>, << >>, << >>>>,
            <<<<2>>, <<1, 3>>, <<4>>, <<5>>, << >>, << >>>>,
            <<<<2, 3, 6>>, <<4>>, <<1, 4>>, <<2>>, << >>, << >>>>}
MCPartOf == <<"edges", "edges", "edges", "children", "texts", "texts">>

VARIABLE kind
readVars == <<listVars, retrievalVars, kind>>

\* What is at rest starts from one of its initial states.
OneRetrieval == <<entry, links>> = CHOOSE start \in Contents \X Links : TRUE
OneListing == <<row, walk.req>> = CHOOSE start \in Rows \X Request : TRUE

ReadPathInit ==
  /\ ListInit /\ RetrievalInit
  /\ \/ kind = "listing" /\ OneRetrieval
     \/ kind = "retrieval" /\ OneListing

ReadPathNext ==
  /\ UNCHANGED kind
  /\ \/ kind = "listing" /\ ListNext /\ UNCHANGED retrievalVars
     \/ kind = "retrieval" /\ RetrievalNext /\ UNCHANGED listVars

ReadPathSpec == ReadPathInit /\ [][ReadPathNext]_readVars
=============================================================================
