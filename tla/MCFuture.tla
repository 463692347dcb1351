------------------------------- MODULE MCFuture -------------------------------
(* Model checking of Future.  The number of callbacks bounds the calls that  *)
(* change anything.                                                          *)
EXTENDS Future
=============================================================================
