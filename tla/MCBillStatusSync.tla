--------------------------- MODULE MCBillStatusSync ---------------------------
(* Two zips of one Congress.  Zip 1 is published twice: zb is smaller than *)
(* za, drops bill 1 and adds bill 3, whose XML is garbled; the lake has a  *)
(* copy of za.  Zip 2 never changes.  zx has the beginning of za and the   *)
(* directory of zb.                                                        *)
EXTENDS BillStatusSync, TLC

CONSTANTS za, zb, zc, zx

MCZips == 1..2
MCBills == 1..3
MCPublished == <<<<za, zb>>, <<zc>>>>
MCHolds == za :> {1, 2} @@ zb :> {2, 3} @@ zc :> {1} @@ zx :> {2, 3}
MCUnreadable == za :> {} @@ zb :> {3} @@ zc :> {} @@ zx :> {3}
MCCorrupt == za :> {} @@ zb :> {} @@ zc :> {} @@ zx :> {2}
MCSize == za :> 3 @@ zb :> 2 @@ zc :> 1 @@ zx :> 2
MCSplice == [c \in Checksums |-> [d \in Checksums |-> IF MCSize[d] = 2 THEN zx ELSE d]]
MCLake == <<{za}, {}>>
=============================================================================
