---------------------------- MODULE MCApiProcess -----------------------------
(* Small instances of ApiProcess for TLC: two clients, that ask for any of  *)
(* the routes again and again.                                              *)
EXTENDS ApiProcess

CONSTANTS c1, c2
=============================================================================
