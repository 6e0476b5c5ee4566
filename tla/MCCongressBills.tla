-------------------------- MODULE MCCongressBills --------------------------
(***************************************************************************)
(* Two Congresses: one bill on the first list page, three on the second,   *)
(* so a bill waits behind a download window of two.  The manifest recovers *)
(* the cosponsors of bill 1 and, from list evidence, the detail of bill 4. *)
(*                                                                         *)
(* Five servers: one cannot serve a part of bill 1 and serves a part of    *)
(* bill 2 the parser refuses, before bills 3 and 4; one has two such bills *)
(* before bill 4, as many as the save window; one refuses a part of bill 3;*)
(* two have the refused or unreadable bill in the first Congress.          *)
(***************************************************************************)
EXTENDS CongressBills

MCPageOf == <<1, 2, 2, 2>>
MCCongressOf == <<1, 2>>
MCKeys == <<[bill |-> 1, part |-> Cosponsors, page |-> 0],
            [bill |-> 4, part |-> Detail, page |-> 2]>>
MCNoKeys == <<>>
MCWell == {[refused |-> {}, down |-> {}, unreadable |-> {}]}
MCServers ==
    {[refused |-> {}, down |-> {<<1, Cosponsors>>}, unreadable |-> {<<2, Cosponsors>>}],
     [refused |-> {}, down |-> {}, unreadable |-> {<<2, Cosponsors>>, <<3, Cosponsors>>}],
     [refused |-> {<<3, Cosponsors>>}, down |-> {}, unreadable |-> {}],
     [refused |-> {<<1, Cosponsors>>}, down |-> {}, unreadable |-> {}],
     [refused |-> {}, down |-> {}, unreadable |-> {<<1, Cosponsors>>}]}
=============================================================================
