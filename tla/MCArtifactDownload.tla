------------------------- MODULE MCArtifactDownload -------------------------
(***************************************************************************)
(* Small instances of ArtifactDownload: two processes, two versions of the *)
(* origin file of different length, so that a staging file can be shorter, *)
(* as long as, or longer than what the origin serves.                      *)
(***************************************************************************)
EXTENDS ArtifactDownload, TLC

CONSTANTS p1, p2, v1, v2

MCSize == (v1 :> 2) @@ (v2 :> 3)
MCMaxSize == 3
MCChecksums == UNION {[1..n -> Versions] : n \in 1..MCMaxSize}

Symmetry == Permutations(Procs)
=============================================================================
