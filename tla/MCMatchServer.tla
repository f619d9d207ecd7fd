----------------------------- MODULE MCMatchServer -----------------------------
(* MatchServer for TLC: two players, each with a session key of his own. *)
EXTENDS MatchServer, TLC

CONSTANTS u1, u2, k1, k2

OwnKeys == (u1 :> k1) @@ (u2 :> k2)

=============================================================================
