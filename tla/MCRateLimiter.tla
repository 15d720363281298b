--------------------------- MODULE MCRateLimiter ---------------------------
(* A small instance of RateLimiter.                                        *)
EXTENDS RateLimiter

CONSTANTS login, status, general

\* "login" has the long window and the low limit, as in the code
Limits  == [k \in Keys |-> IF k = login THEN 2 ELSE 1]
Windows == [k \in Keys |-> IF k = login THEN 4 ELSE 3]
=============================================================================
