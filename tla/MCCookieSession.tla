--------------------------- MODULE MCCookieSession ---------------------------
(* CookieSession for TLC: the requests are interchangeable.                *)
EXTENDS CookieSession, TLC

Symmetry == Permutations(Request)
=============================================================================
