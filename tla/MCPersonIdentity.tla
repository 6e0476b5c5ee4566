-------------------------- MODULE MCPersonIdentity --------------------------
(***************************************************************************)
(* Two legislators: b1 with g1 and b2 with h2, and x, which upstream gives *)
(* to both and the load drops.  OpenStates names o1 (one edition with g1   *)
(* and h2, one alone; no BioGuide id) and o2.  The reviews form a chain:   *)
(* o2 is o1, and o1 is b1.                                                 *)
(* Symmetric in the persons, which nothing tells apart.                    *)
(***************************************************************************)
EXTENDS PersonIdentity, TLC

CONSTANTS b1, b2, g1, h2, x, o1, o2, l1, l2, s1, s2, s3

MCIds == (l1 :> {b1, g1, x}) @@ (l2 :> {b2, h2, x})
           @@ (s1 :> {o1, g1, h2}) @@ (s2 :> {o2}) @@ (s3 :> {o1})
MCBioguideOf == (l1 :> b1) @@ (l2 :> b2)
MCFiles == {{l1, l2}}
MCExceptions == {[survivor |-> o1, duplicate |-> o2], [survivor |-> b1, duplicate |-> o1]}
MCSymmetry == Permutations(Persons)
=============================================================================
