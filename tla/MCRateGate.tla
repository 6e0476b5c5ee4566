----------------------------- MODULE MCRateGate -----------------------------
(***************************************************************************)
(* Small instances of RateGate.  The window is four ticks and the server   *)
(* allows two requests in it; the log counts as long from two stamps on    *)
(* and is then flushed at every second save.                               *)
(***************************************************************************)
EXTENDS RateGate, TLC

CONSTANTS g1, g2

MCRetryAfters == {None, 6}
=============================================================================
