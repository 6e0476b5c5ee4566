--------------------------- MODULE MCRollCallSync ---------------------------
(***************************************************************************)
(* Two roll calls.  Roll 1 is refreshed by a file of the same length that  *)
(* names another member, and then served again, unchanged, under a new     *)
(* Last-Modified.  Roll 2 is unreadable first and a longer file replaces   *)
(* it, and is then served again under a new Last-Modified.                 *)
(***************************************************************************)
EXTENDS RollCallSync, TLC

CONSTANTS c1, c2, c3, c4, m1, m2

MCBytes == <<<<c1, c2, c2>>, <<c3, c4, c4>>>>
MCSize == (c1 :> 1) @@ (c2 :> 1) @@ (c3 :> 1) @@ (c4 :> 2)
MCEntries == (c1 :> {m1}) @@ (c2 :> {m2}) @@ (c3 :> {}) @@ (c4 :> {m1, m2})
=============================================================================
