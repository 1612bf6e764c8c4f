--------------------------- MODULE MCRateLimiter ---------------------------
(***************************************************************************)
(* Three reads of a batch in a pool of two workers, so that a worker takes *)
(* a second item, also after the other one's call was rejected; the first  *)
(* of them may be tried twice.  Outside of the pool the heavier thread     *)
(* check, which is tried once.                                             *)
(***************************************************************************)
EXTENDS RateLimiter, TLC

CONSTANTS a, b, d, s

Items   == <<a, b, d>>
Others  == {s}
Weights == a :> 6 @@ b :> 6 @@ d :> 6 @@ s :> 12
Tries   == a :> 2 @@ b :> 1 @@ d :> 1 @@ s :> 1
Headers == {1}

=============================================================================
