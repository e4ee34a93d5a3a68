---------------------------- MODULE MCOAuthServer ----------------------------
(* Instances of OAuthServer. *)
EXTENDS OAuthServer

MCLimit == [tx |-> 2, ask |-> 2, cookie |-> 1, code |-> 2, pair |-> 3]
=============================================================================
