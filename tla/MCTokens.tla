------------------------------ MODULE MCTokens ------------------------------
(* Instances of TokenStore: the engine, the playlist tool and the login service. *)
EXTENDS TokenStore, TLC

CONSTANTS Alice, Bob, engine, tool, n1, n2
=============================================================================
