--------------------------- MODULE MCRateLimiter ----------------------------
(***************************************************************************)
(* Small instances of RateLimiter.                                         *)
(***************************************************************************)
EXTENDS RateLimiter

CONSTANTS c1, c2
MCClients == {c1, c2}
=============================================================================
