---------------------------- MODULE MCBillTextSync ----------------------------
(* Three texts of two bills.  GovInfo publishes a zip of 1 and 2, then a   *)
(* short zip that lacks 1 though the manifest lists it, then no zip but    *)
(* the XML files of 2 and 3 (that of 3 is garbled), then a zip of 2 and 3. *)
(* zx has the beginning of zb and the directory of zc.                     *)
EXTENDS BillTextSync, TLC

CONSTANTS za, zb, zc, zx, x1, x2, x3

MCTexts == 1..3
MCBills == {1, 2}
MCBillOf == <<1, 2, 2>>
MCPublications ==
    << [zip |-> za, list |-> {1, 2}, xml |-> {1, 2}],
       [zip |-> zb, list |-> {1, 2}, xml |-> {1, 2}],
       [zip |-> None, list |-> {1, 2, 3}, xml |-> {2, 3}],
       [zip |-> zc, list |-> {2, 3}, xml |-> {2, 3}] >>
MCXmlOf == <<x1, x2, x3>>
MCHolds == za :> {1, 2} @@ zb :> {2} @@ zc :> {2, 3} @@ zx :> {2, 3}
           @@ x1 :> {1} @@ x2 :> {2} @@ x3 :> {3}
MCUnreadable == za :> {} @@ zb :> {} @@ zc :> {} @@ zx :> {}
                @@ x1 :> {} @@ x2 :> {} @@ x3 :> {3}
MCCorrupt == [c \in Checksums |-> IF c = zx THEN {2} ELSE {}]
MCSize == za :> 2 @@ zb :> 1 @@ zc :> 2 @@ zx :> 2 @@ x1 :> 1 @@ x2 :> 1 @@ x3 :> 1
MCSplice == [c \in Checksums |-> [d \in Checksums |-> IF MCSize[d] = 2 THEN zx ELSE d]]
=============================================================================
