-------------------------- MODULE RollCallSyncProofs --------------------------
(***************************************************************************)
(* Theorems about RollCallSync, for any rolls, editions, members, sync     *)
(* processes, batches, faults and kills.                                   *)
(***************************************************************************)
EXTENDS RollCallSync, ArtifactRegistryProofs, FiniteSetTheorems

(* The next file to fetch: every set of rolls that is not empty has one.   *)
LEMMA NextIsIn ==
    ASSUME NEW S \in SUBSET Rolls, S # {}
    PROVE  Next1(S) \in S
<1>1. S \in SUBSET Nat
  BY RollAssumption DEF Rolls
<1>2. PICK x \in S : \A y \in S : ~(<<y, x>> \in OpToRel(<, Nat))
  BY <1>1, WFMin, NatLessThanWellFounded
<1>3. \A y \in S : x <= y
  <2> SUFFICES ASSUME NEW y \in S PROVE x <= y
    OBVIOUS
  <2>1. x \in Nat /\ y \in Nat
    BY <1>1
  <2>2. ~(y < x)
    BY <1>2, <2>1 DEF OpToRel
  <2> QED BY <2>1, <2>2
<1> QED BY <1>3 DEF Next1
-----------------------------------------------------------------------------
(* The registry                                                            *)

RegistryOK ==
    /\ rows \in [Rolls -> Seq(Row)] /\ stamps \in [Rolls -> Seq(EditionOrNone)]
    /\ \A r \in Rolls : Len(stamps[r]) = Len(rows[r])

(* A usable row has a checksum.                                            *)
WholeRows ==
    \A r \in Rolls : \A i \in UsableVersions(rows[r]) : Content(r, i) \in Checksums

(* No version consumers may have read goes away or changes its content.    *)
Grows ==
    \A r \in Rolls :
        /\ DOMAIN rows[r] \subseteq DOMAIN rows'[r]
        /\ UsableVersions(rows[r]) \subseteq UsableVersions(rows'[r])
        /\ \A i \in UsableVersions(rows[r]) : rows'[r][i].checksum = rows[r][i].checksum
        /\ Current(rows[r]) <= Current(rows'[r])

LEMMA SameRegistry ==
    ASSUME RegistryOK, UNCHANGED rows
    PROVE  Grows
<1> SUFFICES ASSUME NEW r \in Rolls PROVE Current(rows[r]) <= Current(rows'[r])
  BY DEF Grows
<1>1. Current(rows[r]) \in Nat
  BY CurrentIsNewest DEF RegistryOK
<1> QED BY <1>1

LEMMA RegisterStep ==
    ASSUME RegistryOK, WholeRows, NEW R \in SUBSET Rolls, NEW new, NEW stamp,
           \A r \in R : /\ new[r] \in Row /\ stamp[r] \in EditionOrNone
                        /\ new[r].status \in Usable => new[r].checksum \in Checksums,
           Register(R, new, stamp)
    PROVE  RegistryOK' /\ WholeRows' /\ Grows
<1> DEFINE rs(r) == Registered(rows[r], new[r], Checksums)
<1>1. \A r \in Rolls : rows[r] \in Seq(Row) /\ stamps[r] \in Seq(EditionOrNone)
  BY DEF RegistryOK
<1>2. \A r \in Rolls : rows'[r] = IF r \in R THEN rs(r) ELSE rows[r]
  BY DEF Register
<1>3. ASSUME NEW r \in R
      PROVE  /\ rs(r) \in Seq(Row)
             /\ DOMAIN rows[r] \subseteq DOMAIN rs(r)
             /\ UsableVersions(rows[r]) \subseteq UsableVersions(rs(r))
             /\ \A i \in UsableVersions(rows[r]) : rs(r)[i].checksum = rows[r][i].checksum
             /\ Current(rows[r]) <= Current(rs(r))
  <2>1. rows[r] \in Seq(Row) /\ new[r] \in Row
    BY <1>1
  <2>2. ASSUME NEW i \in UsableVersions(rows[r])
        PROVE  rs(r)[i].checksum = rows[r][i].checksum
    <3>1. i \in DOMAIN rows[r] /\ rows[r][i].checksum # NoChecksum
      BY <2>1, <2>2, ChecksumAssumption DEF WholeRows, Content, UsableVersions
    <3> QED BY <2>1, <3>1, RegisteredKeepsChecksums
  <2> QED BY <2>1, <2>2, RegisteredType, RegisteredKeepsUsable, CurrentGrows
<1>4. \A r \in Rolls : Current(rows[r]) <= Current(rows[r])
  BY <1>1, CurrentIsNewest
<1>5. Grows
  BY <1>2, <1>3, <1>4 DEF Grows
<1>6. WholeRows'
  <2> SUFFICES ASSUME NEW r \in Rolls, NEW i \in UsableVersions(rows'[r])
               PROVE  rows'[r][i].checksum \in Checksums
    BY DEF WholeRows, Content
  <2>1. CASE r \notin R
    BY <1>2, <2>1 DEF WholeRows, Content
  <2>2. CASE r \in R
    <3> DEFINE n == Len(rows[r])
    <3>1. rows[r] \in Seq(Row) /\ new[r] \in Row /\ i \in UsableVersions(rs(r))
      BY <1>1, <1>2, <2>2
    <3>2. \/ rs(r) = Append(rows[r], new[r])
          \/ rows[r] # <<>> /\ rs(r) = [rows[r] EXCEPT ![n] = new[r]]
          \/ /\ ArtifactAction(rows[r], new[r], Checksums) = "retry"
             /\ rs(r) = [rows[r] EXCEPT ![n].status = new[r].status]
      BY <3>1, ActionCases DEF Registered
    <3>3. CASE rs(r) = Append(rows[r], new[r])
      <4>1. i \in 1..n + 1 /\ n \in Nat /\ rs(r)[i].status \in Usable
        BY <3>1, <3>3 DEF UsableVersions
      <4>2. CASE i = n + 1
        BY <1>2, <2>2, <3>1, <3>3, <4>1, <4>2
      <4>3. CASE i \in 1..n
        <5>1. i \in UsableVersions(rows[r])
          BY <3>1, <3>3, <4>1, <4>3 DEF UsableVersions
        <5> QED BY <1>2, <1>3, <2>2, <5>1 DEF WholeRows, Content
      <4> QED BY <4>1, <4>2, <4>3
    <3>4. CASE rows[r] # <<>> /\ rs(r) = [rows[r] EXCEPT ![n] = new[r]]
      <4>1. i \in 1..n /\ n \in Nat /\ rs(r)[i].status \in Usable
        BY <3>1, <3>4 DEF UsableVersions
      <4>2. CASE i = n
        BY <1>2, <2>2, <3>1, <3>4, <4>1, <4>2
      <4>3. CASE i # n
        <5>1. i \in UsableVersions(rows[r])
          BY <3>1, <3>4, <4>1, <4>3 DEF UsableVersions
        <5> QED BY <1>2, <1>3, <2>2, <5>1 DEF WholeRows, Content
      <4> QED BY <4>2, <4>3
    <3>5. CASE /\ ArtifactAction(rows[r], new[r], Checksums) = "retry"
               /\ rs(r) = [rows[r] EXCEPT ![n].status = new[r].status]
      <4>0. /\ rows[r] # <<>> /\ new[r].checksum = Latest(rows[r]).checksum
            /\ new[r].status \notin Provisional
        BY <3>1, <3>5, ActionCases
      <4>1. i \in 1..n /\ n \in Nat /\ rs(r)[i].status \in Usable
        BY <3>1, <3>5 DEF UsableVersions
      <4>2. CASE i = n
        <5>1. rs(r)[i].checksum = rows[r][n].checksum
          BY <3>1, <3>5, <4>1, <4>2 DEF Row
        <5>2. new[r].status \in Usable
          BY <3>1, <4>0 DEF Row, Status
        <5> QED BY <1>2, <2>2, <4>0, <5>1, <5>2 DEF Latest
      <4>3. CASE i # n
        <5>1. i \in UsableVersions(rows[r])
          BY <3>1, <3>5, <4>1, <4>3 DEF UsableVersions
        <5> QED BY <1>2, <1>3, <2>2, <5>1 DEF WholeRows, Content
      <4> QED BY <4>2, <4>3
    <3> QED BY <3>2, <3>3, <3>4, <3>5
  <2> QED BY <2>1, <2>2
<1>7. RegistryOK'
  <2> DEFINE act(r) == ArtifactAction(rows[r], new[r], Checksums)
  <2>1. rows' \in [Rolls -> Seq(Row)]
    BY <1>1, <1>2, <1>3 DEF Register
  <2>2. ASSUME NEW r \in R
        PROVE  /\ Stamped(r, act(r), stamp[r]) \in Seq(EditionOrNone)
               /\ Len(Stamped(r, act(r), stamp[r])) = Len(rs(r))
    <3> DEFINE n == Len(rows[r])
    <3>1. rows[r] \in Seq(Row) /\ new[r] \in Row /\ stamp[r] \in EditionOrNone
          /\ stamps[r] \in Seq(EditionOrNone) /\ Len(stamps[r]) = n /\ n \in Nat
      BY <1>1 DEF RegistryOK
    <3>2. CASE act(r) = "append"
      <4>1. Stamped(r, act(r), stamp[r]) = Append(stamps[r], stamp[r])
        BY <3>2 DEF Stamped
      <4>2. rs(r) = Append(rows[r], new[r])
        BY <3>2 DEF Registered
      <4> HIDE DEF act
      <4> QED BY <3>1, <4>1, <4>2
    <3>3. CASE act(r) \in {"promote", "retry"} /\ rows[r] # <<>>
      <4>1. n \in 1..n
        BY <3>1, <3>3
      <4>2. Stamped(r, act(r), stamp[r]) =
              [stamps[r] EXCEPT ![n] = IF stamp[r] = 0 THEN @ ELSE stamp[r]]
        BY <3>1, <3>3 DEF Stamped
      <4>3. rs(r) = [rows[r] EXCEPT ![n] = new[r]]
            \/ rs(r) = [rows[r] EXCEPT ![n].status = new[r].status]
        BY <3>3 DEF Registered
      <4>4. Len(rs(r)) = n
        BY <3>1, <4>3
      <4>5. (IF stamp[r] = 0 THEN stamps[r][n] ELSE stamp[r]) \in EditionOrNone
        BY <3>1, <4>1
      <4> QED BY <3>1, <4>1, <4>2, <4>4, <4>5
    <3> QED BY <3>1, <3>2, <3>3, ActionCases
  <2>3. stamps' = [r \in Rolls |-> IF r \in R THEN Stamped(r, act(r), stamp[r]) ELSE stamps[r]]
    BY DEF Register
  <2> HIDE DEF act
  <2>4. stamps' \in [Rolls -> Seq(EditionOrNone)]
    BY <1>1, <2>2, <2>3
  <2>5. \A r \in Rolls : Len(stamps'[r]) = Len(rows'[r])
    BY <1>2, <2>2, <2>3 DEF RegistryOK
  <2> QED BY <2>1, <2>4, <2>5 DEF RegistryOK
<1> QED BY <1>5, <1>6, <1>7
-----------------------------------------------------------------------------
(* What a process knows stays true                                         *)

Knowledge == [pc : Place, mode : Modes \cup {"load"}, listed : SUBSET Rolls,
              seen : [Rolls -> KnownRow], head : [Rolls -> EditionOrNone],
              fetch : SUBSET Rolls, failed : SUBSET Rolls, todo : SUBSET Rolls,
              known : SUBSET Members, flawed : BOOLEAN]

Late == {"normalize", "publish", "load", "record"}

SyncOK(s) ==
    /\ sync[s].pc # "idle" => lock = s
    /\ \A r \in Rolls : sync[s].head[r] <= origin[r]
    /\ sync[s].fetch \subseteq Served(s)
    /\ sync[s].known \subseteq people
    /\ \A r \in Rolls : LET v == sync[s].seen[r].version
                        IN  v # 0 => v \in UsableVersions(rows[r])
    /\ sync[s].pc \in {"select", "extract"} => sync[s].todo = {}
    /\ sync[s].pc \in Late =>
          /\ \A r \in Rolls : call[r] <= sync[s].seen[r].version
          /\ \A r \in UsableRolls(s) : sync[s].seen[r].version # 0
          /\ sync[s].todo \subseteq UsableRolls(s)
    /\ sync[s].pc \in {"load", "record"} =>
          \A r \in Rolls, m \in Members : votes[r][m] # 0 => m \in sync[s].known

(* A roll call without a row has nothing; one with a row has one record,   *)
(* of the version its row and votes come from, and voters that have names. *)
Voters(r) == Entries[Content(r, call[r])] \ records[r][call[r]]
StoreOK(r) ==
    /\ call[r] = 0 => DOMAIN records[r] = {} /\ votes[r] = [m \in Members |-> 0]
    /\ call[r] # 0 =>
          /\ DOMAIN records[r] = {call[r]}
          /\ call[r] \in UsableVersions(rows[r])
          /\ votes[r] = [m \in Members |-> IF m \in Voters(r) THEN call[r] ELSE 0]
          /\ \A m \in Members : votes[r][m] # 0 => m \in people

IInv ==
    /\ TypeOK /\ WholeRows
    /\ \A s \in Syncs : SyncOK(s)
    /\ \A r \in Rolls : StoreOK(r)

LEMMA TypedRegistry ==
    ASSUME TypeOK
    PROVE  /\ RegistryOK
           /\ sync \in [Syncs -> Knowledge]
           /\ \A r \in Rolls : rows[r] \in Seq(Row) /\ UsableVersions(rows[r]) \subseteq Nat
           /\ LastEdition \in Nat /\ LastRoll \in Nat
<1>1. RegistryOK /\ sync \in [Syncs -> Knowledge]
  BY DEF TypeOK, RegistryOK, Knowledge
<1>2. \A r \in Rolls : rows[r] \in Seq(Row)
  BY <1>1 DEF RegistryOK
<1> QED BY <1>1, <1>2, RollAssumption DEF UsableVersions

LEMMA Updated ==
    ASSUME TypeOK, NEW s \in Syncs, NEW new \in Knowledge, Update(s, new)
    PROVE  /\ sync' \in [Syncs -> Knowledge] /\ sync'[s] = new
           /\ \A t \in Syncs : t # s => sync'[t] = sync[t]
<1>1. sync \in [Syncs -> Knowledge]
  BY TypedRegistry
<1> QED BY <1>1 DEF Update

LEMMA QuietType == Quiet \in Knowledge
<1>1. 0 \in EditionOrNone
  BY RollAssumption DEF EditionOrNone
<1> QED BY <1>1 DEF Quiet, Knowledge, Nothing, KnownRow, Place

LEMMA CurrentRowsType ==
    ASSUME TypeOK
    PROVE  /\ CurrentRows \in [Rolls -> KnownRow]
           /\ \A r \in Rolls : /\ CurrentRow(r) = CurrentRows[r]
                               /\ CurrentRow(r).version = Current(rows[r])
                               /\ Current(rows[r]) \in Nat
                               /\ Current(rows[r]) # 0 =>
                                     Current(rows[r]) \in UsableVersions(rows[r])
<1> SUFFICES ASSUME NEW r \in Rolls
             PROVE  /\ CurrentRow(r) \in KnownRow
                    /\ CurrentRow(r).version = Current(rows[r])
                    /\ Current(rows[r]) \in Nat
                    /\ Current(rows[r]) # 0 => Current(rows[r]) \in UsableVersions(rows[r])
  BY DEF CurrentRows
<1>1. rows[r] \in Seq(Row) /\ stamps[r] \in Seq(EditionOrNone) /\ Len(stamps[r]) = Len(rows[r])
  BY DEF TypeOK
<1>2. /\ Current(rows[r]) \in Nat
      /\ Current(rows[r]) # 0 => Current(rows[r]) \in UsableVersions(rows[r])
  BY <1>1, CurrentIsNewest
<1>3. CASE Current(rows[r]) = 0
  <2>1. 0 \in EditionOrNone
    BY RollAssumption DEF EditionOrNone
  <2> QED BY <1>2, <1>3, <2>1 DEF CurrentRow, Nothing, KnownRow
<1>4. CASE Current(rows[r]) # 0
  <2> DEFINE v == Current(rows[r])
  <2>1. v \in 1..Len(rows[r])
    BY <1>2, <1>4 DEF UsableVersions
  <2>2. stamps[r][v] \in EditionOrNone /\ rows[r][v] \in Row
    BY <1>1, <2>1
  <2>3. CurrentRow(r) = [version |-> v, stamp |-> stamps[r][v], status |-> rows[r][v].status]
    BY <1>4 DEF CurrentRow
  <2> HIDE DEF v
  <2>4. rows[r][v].status \in Status
    BY <2>2 DEF Row
  <2> QED BY <1>2, <2>2, <2>3, <2>4 DEF KnownRow, v
<1> QED BY <1>2, <1>3, <1>4

(* A process that only waits loses nothing it knows ...                    *)
LEMMA WaitingOK ==
    ASSUME TypeOK, NEW s \in Syncs, SyncOK(s), sync'[s] = sync[s], Grows,
           \A r \in Rolls : origin[r] <= origin'[r] /\ origin'[r] \in Nat,
           people \subseteq people',
           sync[s].pc = "idle" \/ (lock' = lock /\ UNCHANGED warehouse)
    PROVE  SyncOK(s)'
<1>1. \A r \in Rolls : sync[s].head[r] \in Nat /\ origin[r] \in Nat
  BY TypedRegistry DEF TypeOK, EditionOrNone, Knowledge
<1>2. \A r \in Rolls : sync'[s].head[r] <= origin'[r]
  BY <1>1 DEF SyncOK
<1>3. \A r \in Rolls : LET v == sync'[s].seen[r].version
                       IN  v # 0 => v \in UsableVersions(rows'[r])
  BY DEF SyncOK, Grows
<1>4. sync'[s].fetch \subseteq Served(s)' /\ sync'[s].known \subseteq people'
  BY DEF SyncOK, Served
<1>5. CASE sync[s].pc = "idle"
  BY <1>2, <1>3, <1>4, <1>5 DEF SyncOK, Late
<1>6. CASE lock' = lock /\ UNCHANGED warehouse
  BY <1>2, <1>3, <1>4, <1>6 DEF SyncOK, UsableRolls, Served, warehouse
<1> QED BY <1>5, <1>6

(* ... and the store shows what it showed of a roll call nobody writes.    *)
LEMMA StoreKept ==
    ASSUME Grows, people \subseteq people', NEW r \in Rolls, StoreOK(r),
           call'[r] = call[r], votes'[r] = votes[r], records'[r] = records[r]
    PROVE  StoreOK(r)'
<1>1. CASE call[r] = 0
  BY <1>1 DEF StoreOK
<1>2. CASE call[r] # 0
  <2>1. call[r] \in UsableVersions(rows[r])
    BY <1>2 DEF StoreOK
  <2>2. Content(r, call[r])' = Content(r, call[r]) /\ call'[r] \in UsableVersions(rows'[r])
    BY <2>1 DEF Grows, Content
  <2> QED BY <1>2, <2>2 DEF StoreOK, Voters
<1> QED BY <1>1, <1>2

(* What a step of process s needs to show.                                 *)
LEMMA StepOf ==
    ASSUME IInv, NEW s \in Syncs, NEW new \in Knowledge, Update(s, new),
           RegistryOK', WholeRows', Grows, SyncOK(s)', UNCHANGED <<world, warehouse>>,
           \/ sync[s].pc # "idle" /\ lock' = lock
           \/ lock = Nobody
           \/ lock = s,
           lock' \in Syncs \cup {Nobody},
           ledger' \in [by : Syncs \cup {Nobody},
                        run : {"none", "running", "partial", "succeeded", "failed"},
                        target : {"none", "partial", "succeeded"}],
           refreshes' \in 0..MaxRefresh, errors' \in 0..MaxErrors, stops' \in 0..MaxStops
    PROVE  IInv'
<1>1. sync' \in [Syncs -> Knowledge] /\ \A t \in Syncs : t # s => sync'[t] = sync[t]
  BY Updated DEF IInv
<1>2. UNCHANGED <<origin, people, call, votes, records>>
  BY DEF world, warehouse
<1>3. \A r \in Rolls : DOMAIN rows[r] \subseteq DOMAIN rows'[r] /\ rows'[r] \in Seq(Row)
                       /\ rows[r] \in Seq(Row)
  BY TypedRegistry DEF Grows, RegistryOK, IInv
<1>4. \A r \in Rolls : DOMAIN records'[r] \subseteq 1..Len(rows'[r])
  <2>1. \A r \in Rolls : DOMAIN records[r] \subseteq 1..Len(rows[r])
    BY DEF IInv, TypeOK
  <2>2. \A r \in Rolls : DOMAIN rows[r] = 1..Len(rows[r]) /\ DOMAIN rows'[r] = 1..Len(rows'[r])
    BY <1>3
  <2> QED BY <1>2, <1>3, <2>1, <2>2, Zenon
<1>5. TypeOK'
  BY <1>1, <1>2, <1>4 DEF IInv, TypeOK, RegistryOK, Knowledge
<1>6. ASSUME NEW t \in Syncs, t # s PROVE SyncOK(t)'
  <2>1. sync[t].pc = "idle"
    BY <1>6, SyncAssumption DEF IInv, SyncOK
  <2>2. \A r \in Rolls : origin[r] \in Nat /\ origin[r] <= origin[r]
    BY DEF IInv, TypeOK, EditionOrNone
  <2> QED BY <1>1, <1>2, <1>6, <2>1, <2>2, WaitingOK DEF IInv
<1>7. \A r \in Rolls : StoreOK(r)'
  BY <1>2, StoreKept DEF IInv
<1> QED BY <1>5, <1>6, <1>7 DEF IInv
-----------------------------------------------------------------------------
(* The steps of a process                                                  *)

LEMMA DiscoverStep ==
    ASSUME IInv, NEW s \in Syncs, NEW mode \in Modes, Discover(s, mode)
    PROVE  IInv'
<1>1. PICK listed \in SUBSET Rolls :
         /\ errors' = errors + (IF listed = Rolls THEN 0 ELSE 1) /\ errors' <= MaxErrors
         /\ Update(s, [Quiet EXCEPT !.pc = "select", !.mode = mode, !.listed = listed,
                                    !.seen = CurrentRows])
  BY DEF Discover
<1> DEFINE new == [Quiet EXCEPT !.pc = "select", !.mode = mode, !.listed = listed,
                                !.seen = CurrentRows]
<1>2. new \in Knowledge
  BY QuietType, CurrentRowsType DEF Knowledge, Place, IInv
<1>3. sync'[s] = new /\ sync' \in [Syncs -> Knowledge]
  BY <1>1, <1>2, Updated DEF IInv
<1>4. UNCHANGED <<world, registry, warehouse, refreshes, stops>> /\ lock' = s /\ lock = Nobody
      /\ ledger' = [by |-> s, run |-> "running", target |-> "none"]
  BY DEF Discover
<1>5. RegistryOK' /\ WholeRows' /\ Grows
  BY <1>4, TypedRegistry, SameRegistry DEF registry, RegistryOK, WholeRows, Content, IInv
<1>6. /\ new.pc = "select" /\ new.head = [r \in Rolls |-> 0] /\ new.fetch = {}
      /\ new.known = {} /\ new.seen = CurrentRows /\ new.todo = {}
  BY DEF Quiet
<1>7. SyncOK(s)'
  <2>1. \A r \in Rolls : 0 <= origin[r]
    BY DEF IInv, TypeOK, EditionOrNone
  <2>2. \A r \in Rolls : CurrentRows[r].version # 0 => CurrentRows[r].version \in UsableVersions(rows[r])
    BY CurrentRowsType DEF IInv
  <2> HIDE DEF new
  <2> QED BY <1>3, <1>4, <1>6, <2>1, <2>2 DEF SyncOK, Late, world, registry
<1>8. errors' \in 0..MaxErrors
  BY <1>1, SyncAssumption DEF IInv, TypeOK
<1>9. refreshes' \in 0..MaxRefresh /\ stops' \in 0..MaxStops
  BY <1>4 DEF IInv, TypeOK
<1>10. /\ lock' \in Syncs \cup {Nobody}
       /\ ledger' \in [by : Syncs \cup {Nobody},
                       run : {"none", "running", "partial", "succeeded", "failed"},
                       target : {"none", "partial", "succeeded"}]
  BY <1>4
<1>11. UNCHANGED <<world, warehouse>> /\ lock = Nobody
  BY <1>4
<1> HIDE DEF new
<1> QED BY <1>1, <1>2, <1>5, <1>7, <1>8, <1>9, <1>10, <1>11, StepOf DEF new

LEMMA SelectStep ==
    ASSUME IInv, NEW s \in Syncs, Select(s)
    PROVE  IInv'
<1>1. PICK broken \in SUBSET sync[s].listed :
         LET head == [r \in Rolls |->
                        IF r \in sync[s].listed \ broken THEN origin[r] ELSE 0]
         IN  /\ errors + Cardinality(broken) <= MaxErrors
             /\ errors' = errors + Cardinality(broken)
             /\ Update(s, [sync[s] EXCEPT !.pc = "extract", !.head = head, !.failed = broken,
                  !.fetch = {r \in Rolls : head[r] # 0 /\ ~Unchanged(r, sync[s].seen[r], head[r])}])
  BY DEF Select
<1> DEFINE head == [r \in Rolls |-> IF r \in sync[s].listed \ broken THEN origin[r] ELSE 0]
           fetch == {r \in Rolls : head[r] # 0 /\ ~Unchanged(r, sync[s].seen[r], head[r])}
           new == [sync[s] EXCEPT !.pc = "extract", !.head = head, !.failed = broken,
                                  !.fetch = fetch]
<1>2. sync[s] \in Knowledge /\ \A r \in Rolls : origin[r] \in EditionOrNone /\ 0 \in EditionOrNone
  BY TypedRegistry, RollAssumption DEF IInv, TypeOK, EditionOrNone
<1>3. head \in [Rolls -> EditionOrNone] /\ fetch \in SUBSET Rolls /\ broken \in SUBSET Rolls
  BY <1>2 DEF Knowledge
<1>4. \A r \in Rolls : head[r] <= origin[r] /\ (r \in fetch => head[r] # 0)
  BY <1>2 DEF EditionOrNone
<1> HIDE DEF head, fetch
<1>5. new \in Knowledge
  BY <1>2, <1>3 DEF Knowledge, Place
<1>6. Update(s, new) /\ errors' = errors + Cardinality(broken) /\ errors' <= MaxErrors
  BY <1>1 DEF head, fetch
<1>7. sync'[s] = new
  BY <1>5, <1>6, Updated DEF IInv
<1>8. UNCHANGED <<world, registry, warehouse, lock, ledger, refreshes, stops>> /\ sync[s].pc = "select"
  BY DEF Select
<1>9. RegistryOK' /\ WholeRows' /\ Grows
  BY <1>8, TypedRegistry, SameRegistry DEF registry, RegistryOK, WholeRows, Content, IInv
<1>10. /\ new.pc = "extract" /\ new.head = head /\ new.fetch = fetch
       /\ new.known = sync[s].known /\ new.seen = sync[s].seen /\ new.todo = sync[s].todo
  BY <1>2 DEF Knowledge
<1> HIDE DEF new
<1>11. SyncOK(s)'
  BY <1>3, <1>4, <1>7, <1>8, <1>10 DEF IInv, SyncOK, Late, Served, world, registry
<1>12. Cardinality(broken) \in Nat
  <2>1. IsFiniteSet(Rolls)
    BY RollAssumption, FS_Interval DEF Rolls
  <2> QED BY <1>3, <2>1, FS_Subset, FS_CardinalityType
<1>13. errors' \in 0..MaxErrors
  BY <1>6, <1>12, SyncAssumption DEF IInv, TypeOK
<1>14. /\ refreshes' \in 0..MaxRefresh /\ stops' \in 0..MaxStops
       /\ lock' \in Syncs \cup {Nobody} /\ ledger' = ledger
  BY <1>8 DEF IInv, TypeOK
<1> QED BY <1>5, <1>6, <1>8, <1>9, <1>11, <1>13, <1>14, StepOf DEF IInv, TypeOK

(* A download, whether it brings the file or fails, registers one row.     *)
LEMMA FetchStep ==
    ASSUME IInv, NEW s \in Syncs, Fetch(s) \/ FetchFails(s)
    PROVE  IInv'
<1> DEFINE r == Next1(sync[s].fetch)
           got == Bytes[r][origin[r]]
<1>0. sync[s] \in Knowledge /\ sync[s].pc = "extract" /\ sync[s].fetch # {}
      /\ sync[s].fetch \in SUBSET Rolls
  BY TypedRegistry DEF IInv, Fetch, FetchFails, Knowledge
<1>1. r \in sync[s].fetch /\ r \in Rolls
  BY <1>0, NextIsIn
<1>2. got \in Checksums
  <2>1. sync[s].head[r] # 0 /\ sync[s].head[r] <= origin[r]
    BY <1>1 DEF IInv, SyncOK, Served
  <2>2. origin[r] \in 0..LastEdition /\ sync[s].head[r] \in 0..LastEdition /\ LastEdition \in Nat
    BY <1>0, <1>1, RollAssumption DEF IInv, TypeOK, Knowledge, EditionOrNone
  <2>3. origin[r] \in Editions
    BY <2>1, <2>2 DEF Editions
  <2> QED BY <1>1, <2>3, RollAssumption
<1>3. sync[s].head[r] \in EditionOrNone
  BY <1>0, <1>1 DEF Knowledge
<1> HIDE DEF r, got
<1> DEFINE news == [q \in {r} |-> FileRow("downloaded", got)]
           fails == [q \in {r} |-> FileRow("failed", NoChecksum)]
<1>4. Register({r}, news, sync[s].head) \/ Register({r}, fails, sync[s].head)
  BY DEF Fetch, FetchFails, r, got
<1>5. /\ news[r] \in Row /\ news[r].checksum \in Checksums
      /\ fails[r] \in Row /\ fails[r].status \notin Usable
  BY <1>2 DEF FileRow, Row, Status, Usable, Provisional
<1> HIDE DEF news, fails
<1>6. RegistryOK /\ WholeRows
  BY TypedRegistry DEF IInv
<1>7. RegistryOK' /\ WholeRows' /\ Grows
  <2>1. CASE Register({r}, news, sync[s].head)
    BY <1>1, <1>3, <1>5, <1>6, <2>1, RegisterStep
  <2>2. CASE Register({r}, fails, sync[s].head)
    BY <1>1, <1>3, <1>5, <1>6, <2>2, RegisterStep
  <2> QED BY <1>4, <2>1, <2>2
<1>8. \E failed \in SUBSET Rolls :
         Update(s, [sync[s] EXCEPT !.fetch = sync[s].fetch \ {r}, !.failed = failed])
  <2>0. sync[s].failed \subseteq Rolls
    BY <1>0 DEF Knowledge
  <2>1. CASE Fetch(s)
    <3> DEFINE same == Size[got] = Size[Bytes[r][sync[s].head[r]]]
               failed == IF same THEN sync[s].failed ELSE sync[s].failed \cup {r}
    <3>1. Update(s, [sync[s] EXCEPT !.fetch = sync[s].fetch \ {r}, !.failed = failed])
      BY <2>1 DEF Fetch, r, got
    <3> QED BY <1>1, <2>0, <3>1
  <2>2. CASE FetchFails(s)
    <3>1. Update(s, [sync[s] EXCEPT !.fetch = sync[s].fetch \ {r},
                                    !.failed = sync[s].failed \cup {r}])
      BY <2>2 DEF FetchFails, r
    <3> QED BY <1>1, <2>0, <3>1
  <2> QED BY <2>1, <2>2
<1>9. PICK failed \in SUBSET Rolls :
         Update(s, [sync[s] EXCEPT !.fetch = sync[s].fetch \ {r}, !.failed = failed])
  BY <1>8
<1> DEFINE new == [sync[s] EXCEPT !.fetch = sync[s].fetch \ {r}, !.failed = failed]
<1>10. new \in Knowledge
  BY <1>0 DEF Knowledge
<1>11. sync'[s] = new
  BY <1>9, <1>10, Updated DEF IInv
<1>12. /\ UNCHANGED <<world, warehouse, lock, ledger, refreshes, stops>>
       /\ errors' = errors \/ (errors < MaxErrors /\ errors' = errors + 1)
  BY DEF Fetch, FetchFails, counters
<1>13. /\ new.pc = sync[s].pc /\ new.head = sync[s].head /\ new.seen = sync[s].seen
       /\ new.known = sync[s].known /\ new.todo = sync[s].todo
       /\ new.fetch \subseteq sync[s].fetch
  BY <1>0 DEF Knowledge
<1> HIDE DEF new
<1>14. SyncOK(s)'
  BY <1>0, <1>7, <1>11, <1>12, <1>13, SMTT(30) DEF IInv, SyncOK, Late, Served, world, Grows
<1>15. errors' \in 0..MaxErrors
  BY <1>12, SyncAssumption DEF IInv, TypeOK
<1> QED BY <1>0, <1>7, <1>9, <1>10, <1>12, <1>14, <1>15, StepOf DEF IInv, TypeOK, new

LEMMA EvidenceStep ==
    ASSUME IInv, NEW s \in Syncs, Evidence(s)
    PROVE  IInv'
<1> DEFINE bad == {r \in UsableRolls(s) : \/ CurrentRow(r).version = 0
                                          \/ CurrentRow(r).stamp # sync[s].head[r]}
           new == [sync[s] EXCEPT !.pc = "normalize", !.seen = CurrentRows, !.failed = @ \cup bad]
<1>0. sync[s] \in Knowledge /\ sync[s].pc = "extract"
  BY TypedRegistry DEF IInv, Evidence
<1>1. bad \in SUBSET Rolls
  BY DEF UsableRolls, Served
<1>2. Update(s, new)
  BY DEF Evidence
<1>3. \A r \in UsableRolls(s) \ bad : CurrentRow(r).version # 0
  OBVIOUS
<1> HIDE DEF bad
<1>4. new \in Knowledge
  BY <1>0, <1>1, CurrentRowsType DEF IInv, Knowledge, Place
<1>5. sync'[s] = new
  BY <1>2, <1>4, Updated DEF IInv
<1>6. /\ new.pc = "normalize" /\ new.head = sync[s].head /\ new.seen = CurrentRows
      /\ new.known = sync[s].known /\ new.todo = sync[s].todo /\ new.fetch = sync[s].fetch
      /\ new.failed = sync[s].failed \cup bad
  BY <1>0 DEF Knowledge
<1> HIDE DEF new
<1>7. UNCHANGED <<world, registry, warehouse, lock, ledger, counters>>
  BY DEF Evidence
<1>8. RegistryOK' /\ WholeRows' /\ Grows
  BY <1>7, TypedRegistry, SameRegistry DEF registry, RegistryOK, WholeRows, Content, IInv
<1>9. SyncOK(s)'
  <2>1. \A r \in Rolls : call[r] <= CurrentRows[r].version
    <3> SUFFICES ASSUME NEW r \in Rolls PROVE call[r] <= Current(rows[r])
      BY CurrentRowsType DEF IInv
    <3>1. Current(rows[r]) \in Nat /\ \A i \in UsableVersions(rows[r]) : i <= Current(rows[r])
      BY TypedRegistry, CurrentIsNewest DEF IInv
    <3>2. call[r] \in Nat /\ (call[r] # 0 => call[r] \in UsableVersions(rows[r]))
      BY DEF IInv, TypeOK, StoreOK
    <3> QED BY <3>1, <3>2
  <2>2. UsableRolls(s)' \subseteq UsableRolls(s) \ bad
    BY <1>5, <1>6 DEF UsableRolls, Served
  <2>3. \A r \in UsableRolls(s)' : CurrentRows[r].version # 0
    BY <1>3, <2>2, CurrentRowsType DEF IInv, UsableRolls, Served
  <2>4. \A r \in Rolls : CurrentRows[r].version # 0 => CurrentRows[r].version \in UsableVersions(rows[r])
    BY CurrentRowsType DEF IInv
  <2>5. Served(s)' = Served(s) /\ new.todo = {}
    BY <1>0, <1>5, <1>6 DEF Served, IInv, SyncOK
  <2> QED BY <1>0, <1>5, <1>6, <1>7, <2>1, <2>3, <2>4, <2>5
          DEF IInv, SyncOK, Late, world, registry, warehouse
<1> QED BY <1>0, <1>2, <1>4, <1>7, <1>8, <1>9, StepOf DEF IInv, TypeOK, counters

LEMMA NormalizeStep ==
    ASSUME IInv, NEW s \in Syncs, Normalize(s)
    PROVE  IInv'
<1>0. sync[s] \in Knowledge /\ sync[s].pc = "normalize"
  BY TypedRegistry DEF IInv, Normalize
<1>1. PICK todo \in SUBSET UsableRolls(s) :
         Update(s, [sync[s] EXCEPT !.pc = "publish", !.todo = todo])
  <2> DEFINE todo == IF sync[s].mode = "download_only" THEN {}
                     ELSE {r \in UsableRolls(s) : LeftToLoad(r, sync[s].seen[r].version)}
  <2>1. Update(s, [sync[s] EXCEPT !.pc = "publish", !.todo = todo]) /\ todo \in SUBSET UsableRolls(s)
    BY DEF Normalize
  <2> QED BY <2>1
<1> DEFINE new == [sync[s] EXCEPT !.pc = "publish", !.todo = todo]
<1>2. UsableRolls(s) \subseteq Rolls
  BY DEF UsableRolls, Served
<1>4. new \in Knowledge
  BY <1>0, <1>2 DEF Knowledge, Place
<1>5. sync'[s] = new
  BY <1>1, <1>4, Updated DEF IInv
<1>6. /\ new.pc = "publish" /\ new.head = sync[s].head /\ new.seen = sync[s].seen
      /\ new.known = sync[s].known /\ new.todo = todo /\ new.fetch = sync[s].fetch
      /\ new.failed = sync[s].failed
  BY <1>0 DEF Knowledge
<1>7. UNCHANGED <<world, registry, warehouse, lock, ledger, counters>>
  BY DEF Normalize
<1>8. RegistryOK' /\ WholeRows' /\ Grows
  BY <1>7, TypedRegistry, SameRegistry DEF registry, RegistryOK, WholeRows, Content, IInv
<1> HIDE DEF new
<1>9. SyncOK(s)'
  BY <1>0, <1>5, <1>6, <1>7 DEF IInv, SyncOK, Late, UsableRolls, Served, world, registry, warehouse
<1> QED BY <1>0, <1>1, <1>4, <1>7, <1>8, <1>9, StepOf DEF IInv, TypeOK, counters, new

(* Marking rolls loaded registers one usable row for each of them.         *)
LEMMA MarkStep ==
    ASSUME IInv, NEW s \in Syncs, NEW R \in SUBSET Rolls,
           \A r \in R : sync[s].seen[r].version # 0,
           MarkLoaded(s, R)
    PROVE  RegistryOK' /\ WholeRows' /\ Grows
<1> DEFINE marked == {r \in R : sync[s].seen[r].status # "loaded"}
           new == [r \in marked |-> FileRow("loaded", Content(r, sync[s].seen[r].version))]
           stamp == [r \in Rolls |-> 0]
<1>1. Register(marked, new, stamp)
  BY DEF MarkLoaded
<1>2. ASSUME NEW r \in marked PROVE new[r] \in Row /\ new[r].checksum \in Checksums
  <2>1. Content(r, sync[s].seen[r].version) \in Checksums
    BY DEF IInv, SyncOK, WholeRows
  <2> QED BY <2>1 DEF FileRow, Row, Status, Usable
<1>3. \A r \in marked : stamp[r] \in EditionOrNone
  BY RollAssumption DEF EditionOrNone
<1>4. marked \in SUBSET Rolls
  OBVIOUS
<1>5. RegistryOK /\ WholeRows
  BY TypedRegistry DEF IInv
<1> HIDE DEF marked, new, stamp
<1> QED BY <1>1, <1>2, <1>3, <1>4, <1>5, RegisterStep

LEMMA PublishStep ==
    ASSUME IInv, NEW s \in Syncs, Publish(s)
    PROVE  IInv'
<1>0. sync[s] \in Knowledge /\ sync[s].pc = "publish"
  BY TypedRegistry DEF IInv, Publish
<1>7. UNCHANGED <<world, warehouse, lock, ledger, counters>>
  BY DEF Publish
<1>1. CASE sync[s].mode = "download_only"
  <2> DEFINE new == [sync[s] EXCEPT !.pc = "finish"]
  <2>1. Update(s, new) /\ UNCHANGED registry
    BY <1>1 DEF Publish
  <2>2. new \in Knowledge
    BY <1>0 DEF Knowledge, Place
  <2>3. sync'[s] = new
    BY <2>1, <2>2, Updated DEF IInv
  <2>4. RegistryOK' /\ WholeRows' /\ Grows
    BY <2>1, TypedRegistry, SameRegistry DEF registry, RegistryOK, WholeRows, Content, IInv
  <2>5. /\ new.pc = "finish" /\ new.head = sync[s].head /\ new.seen = sync[s].seen
        /\ new.known = sync[s].known /\ new.fetch = sync[s].fetch
    BY <1>0 DEF Knowledge
  <2> HIDE DEF new
  <2>6. SyncOK(s)'
    BY <1>0, <1>7, <2>1, <2>3, <2>5 DEF IInv, SyncOK, Late, Served, world, registry
  <2> QED BY <1>0, <1>7, <2>1, <2>2, <2>4, <2>6, StepOf DEF IInv, TypeOK, counters
<1>2. CASE sync[s].mode # "download_only"
  <2> DEFINE new == [sync[s] EXCEPT !.known = people,
                        !.pc = IF sync[s].todo = {} THEN "record" ELSE "load"]
  <2>1. Update(s, new) /\ MarkLoaded(s, UsableRolls(s) \ sync[s].todo)
    BY <1>2 DEF Publish
  <2>2. new \in Knowledge
    BY <1>0 DEF Knowledge, Place, IInv, TypeOK
  <2>3. sync'[s] = new
    BY <2>1, <2>2, Updated DEF IInv
  <2>4. RegistryOK' /\ WholeRows' /\ Grows
    <3>1. UsableRolls(s) \ sync[s].todo \in SUBSET Rolls
      BY DEF UsableRolls, Served
    <3>2. \A r \in UsableRolls(s) \ sync[s].todo : sync[s].seen[r].version # 0
      BY <1>0 DEF IInv, SyncOK, Late
    <3> QED BY <2>1, <3>1, <3>2, MarkStep
  <2>5. /\ new.pc \in {"load", "record"} /\ new.head = sync[s].head /\ new.seen = sync[s].seen
        /\ new.known = people /\ new.fetch = sync[s].fetch /\ new.todo = sync[s].todo
        /\ new.failed = sync[s].failed
    BY <1>0 DEF Knowledge
  <2> HIDE DEF new
  <2>6. \A r \in Rolls, m \in Members : votes[r][m] # 0 => m \in people
    BY DEF IInv, StoreOK
  <2>7. SyncOK(s)'
    <3>1. SyncOK(s) /\ UsableRolls(s)' = UsableRolls(s) /\ Served(s)' = Served(s)
      BY <2>3, <2>5 DEF IInv, UsableRolls, Served
    <3>2. UNCHANGED <<origin, people, call, votes, lock>>
      BY <1>7 DEF world, warehouse
    <3>3. \A r \in Rolls : LET v == sync'[s].seen[r].version
                           IN  v # 0 => v \in UsableVersions(rows'[r])
      BY <2>3, <2>4, <2>5, <3>1 DEF SyncOK, Grows
    <3>4. /\ \A r \in Rolls : call[r] <= sync[s].seen[r].version
          /\ \A r \in UsableRolls(s) : sync[s].seen[r].version # 0
          /\ sync[s].todo \subseteq UsableRolls(s)
      BY <1>0, <3>1 DEF SyncOK, Late
    <3>5. sync'[s].pc \in {"load", "record"} /\ lock' = s
      BY <1>0, <2>3, <2>5, <3>1, <3>2 DEF SyncOK
    <3> QED BY <2>3, <2>5, <2>6, <3>1, <3>2, <3>3, <3>4, <3>5 DEF SyncOK
  <2> QED BY <1>0, <1>7, <2>1, <2>2, <2>4, <2>7, StepOf DEF IInv, TypeOK, counters
<1> QED BY <1>1, <1>2

LEMMA RecordStep ==
    ASSUME IInv, NEW s \in Syncs, Record(s)
    PROVE  IInv'
<1> DEFINE new == [sync[s] EXCEPT !.pc = IF sync[s].todo = {} THEN "finish" ELSE "load"]
<1>0. sync[s] \in Knowledge /\ sync[s].pc = "record"
  BY TypedRegistry DEF IInv, Record
<1>1. Update(s, new)
  BY DEF Record
<1>4. new \in Knowledge
  BY <1>0 DEF Knowledge, Place
<1>5. sync'[s] = new
  BY <1>1, <1>4, Updated DEF IInv
<1>6. /\ new.pc \in {"finish", "load"} /\ new.head = sync[s].head /\ new.seen = sync[s].seen
      /\ new.known = sync[s].known /\ new.todo = sync[s].todo /\ new.fetch = sync[s].fetch
      /\ new.failed = sync[s].failed
  BY <1>0 DEF Knowledge
<1>7. UNCHANGED <<world, registry, warehouse, lock, counters>>
  BY DEF Record
<1>8. RegistryOK' /\ WholeRows' /\ Grows
  BY <1>7, TypedRegistry, SameRegistry DEF registry, RegistryOK, WholeRows, Content, IInv
<1> HIDE DEF new
<1>9. SyncOK(s)'
  <2>1. SyncOK(s) /\ UsableRolls(s)' = UsableRolls(s) /\ Served(s)' = Served(s)
    BY <1>5, <1>6 DEF IInv, UsableRolls, Served
  <2>2. UNCHANGED <<origin, people, rows, call, votes, lock>>
    BY <1>7 DEF world, registry, warehouse
  <2>3. CASE new.pc = "finish"
    BY <1>0, <1>5, <1>6, <2>1, <2>2, <2>3 DEF SyncOK, Late
  <2>4. CASE new.pc = "load"
    BY <1>0, <1>5, <1>6, <2>1, <2>2, <2>4 DEF SyncOK, Late
  <2> QED BY <1>6, <2>3, <2>4
<1>10. ledger' \in [by : Syncs \cup {Nobody},
                    run : {"none", "running", "partial", "succeeded", "failed"},
                    target : {"none", "partial", "succeeded"}]
  BY DEF Record, IInv, TypeOK
<1> QED BY <1>0, <1>1, <1>4, <1>7, <1>8, <1>9, <1>10, StepOf DEF IInv, TypeOK, counters

(* A run that ends, one way or the other, forgets everything.              *)
LEMMA EndStep ==
    ASSUME IInv, NEW s \in Syncs, Checkpoint(s) \/ Stop(s)
    PROVE  IInv'
<1>1. PICK status \in {"partial", "succeeded", "failed", "running"} : Close(s, status)
  BY DEF Checkpoint, Stop
<1>2. Update(s, Quiet) /\ UNCHANGED <<world, registry, warehouse>> /\ Release(s)
  BY <1>1 DEF Close
<1>3. sync'[s] = Quiet /\ sync[s].pc # "idle" /\ lock = s
  BY <1>2, QuietType, Updated DEF IInv, SyncOK, Checkpoint, Stop
<1>4. RegistryOK' /\ WholeRows' /\ Grows
  BY <1>2, TypedRegistry, SameRegistry DEF registry, RegistryOK, WholeRows, Content, IInv
<1>5. SyncOK(s)'
  <2>1. \A r \in Rolls : 0 <= origin[r]
    BY DEF IInv, TypeOK, EditionOrNone
  <2> QED BY <1>2, <1>3, <2>1 DEF SyncOK, Late, Quiet, Nothing, world
<1>6. ledger' \in [by : Syncs \cup {Nobody},
                   run : {"none", "running", "partial", "succeeded", "failed"},
                   target : {"none", "partial", "succeeded"}]
  BY <1>1 DEF Close, IInv, TypeOK
<1>7. refreshes' \in 0..MaxRefresh /\ errors' \in 0..MaxErrors /\ stops' \in 0..MaxStops
  BY SyncAssumption DEF Checkpoint, Stop, counters, IInv, TypeOK
<1>8. lock' \in Syncs \cup {Nobody}
  BY <1>2 DEF Release, IInv, TypeOK
<1> QED BY <1>2, <1>3, <1>4, <1>5, <1>6, <1>7, <1>8, QuietType, StepOf

(* A batch replaces its roll calls: what older versions left goes, and so  *)
(* do the votes the same version had, which it writes again.               *)
LEMMA LoadStep ==
    ASSUME IInv, NEW s \in Syncs, Load(s)
    PROVE  IInv'
<1> DEFINE ver(r) == sync[s].seen[r].version
           saved == {r \in Batch(s) : Content(r, ver(r)) \notin Malformed}
           flawed == \/ sync[s].flawed \/ saved # Batch(s)
                     \/ \E r \in saved : \/ Content(r, ver(r)) \in Disputed
                                         \/ ~(Entries[Content(r, ver(r))] \subseteq sync[s].known)
           new == [sync[s] EXCEPT !.pc = "record", !.todo = @ \ Batch(s), !.flawed = flawed]
<1>0. sync[s] \in Knowledge /\ sync[s].pc = "load" /\ SyncOK(s)
  BY TypedRegistry DEF IInv, Load
<1>1. /\ call' = [r \in Rolls |-> IF r \in saved THEN ver(r) ELSE call[r]]
      /\ votes' = [r \in Rolls |-> IF r \in saved THEN SavedVotes(s, r, ver(r)) ELSE votes[r]]
      /\ records' = [r \in Rolls |-> IF r \in saved THEN SavedRecords(s, r, ver(r)) ELSE records[r]]
      /\ MarkLoaded(s, saved)
      /\ Update(s, new)
      /\ UNCHANGED <<world, lock, ledger, counters>>
  BY DEF Load
<1>2. saved \subseteq sync[s].todo /\ sync[s].todo \subseteq UsableRolls(s) /\ saved \subseteq Rolls
  BY <1>0 DEF Batch, SyncOK, Late, UsableRolls, Served
<1>3. new \in Knowledge
  BY <1>0 DEF Knowledge, Place
<1>4. sync'[s] = new /\ sync' \in [Syncs -> Knowledge]
      /\ \A t \in Syncs : t # s => sync'[t] = sync[t]
  BY <1>1, <1>3, Updated DEF IInv
<1>5. /\ new.pc = "record" /\ new.head = sync[s].head /\ new.seen = sync[s].seen
      /\ new.known = sync[s].known /\ new.todo \subseteq sync[s].todo
      /\ new.fetch = sync[s].fetch /\ new.failed = sync[s].failed
  BY <1>0 DEF Knowledge
<1> HIDE DEF new, saved
<1>6. ASSUME NEW r \in saved
      PROVE  ver(r) # 0 /\ ver(r) \in UsableVersions(rows[r]) /\ call[r] <= ver(r)
             /\ ver(r) \in Nat /\ call[r] \in Nat
  <2>1. r \in Rolls /\ r \in UsableRolls(s)
    BY <1>2
  <2>2. ver(r) # 0 /\ ver(r) \in UsableVersions(rows[r]) /\ call[r] <= ver(r)
    BY <1>0, <2>1 DEF SyncOK, Late
  <2>3. ver(r) \in Nat /\ call[r] \in Nat
    BY <2>1, <2>2, TypedRegistry DEF IInv, TypeOK
  <2> QED BY <2>2, <2>3
<1>7. RegistryOK' /\ WholeRows' /\ Grows
  BY <1>1, <1>2, <1>6, MarkStep
<1>8. ASSUME NEW r \in saved
      PROVE  /\ DOMAIN records'[r] = {ver(r)}
             /\ records'[r][ver(r)] = Entries[Content(r, ver(r))] \ sync[s].known
             /\ votes'[r] = [m \in Members |->
                   IF m \in Entries[Content(r, ver(r))] \cap sync[s].known THEN ver(r) ELSE 0]
  <2> DEFINE v == ver(r)
             old == {w \in DOMAIN records[r] : ~IsOlder(w, v)} \cup {v}
  <2>0. r \in Rolls /\ StoreOK(r) /\ v \in Nat /\ call[r] \in Nat /\ call[r] <= v /\ v # 0
    BY <1>2, <1>6 DEF IInv
  <2>1. records'[r] = SavedRecords(s, r, v) /\ votes'[r] = SavedVotes(s, r, v)
    BY <1>1, <2>0
  <2> HIDE DEF ver
  <2>2. old = {v}
    BY <2>0 DEF IsOlder, StoreOK
  <2>3. SavedRecords(s, r, v) = [w \in old |->
           IF w = v THEN Entries[Content(r, v)] \ sync[s].known ELSE records[r][w]]
    BY DEF SavedRecords
  <2>4. ASSUME NEW m \in Members, ~(m \in Entries[Content(r, v)] \cap sync[s].known)
        PROVE  IsOlder(votes[r][m], v)
    <3>1. CASE votes[r][m] = 0
      BY <2>0, <3>1 DEF IsOlder
    <3>2. CASE votes[r][m] # 0
      <4>1. m \in sync[s].known
        BY <1>0, <2>0, <3>2 DEF SyncOK
      <4>2. call[r] # 0 /\ m \in Voters(r) /\ votes[r][m] = call[r]
        BY <2>0, <3>2 DEF StoreOK
      <4>3. call[r] # v
        BY <2>4, <4>1, <4>2 DEF Voters
      <4> QED BY <2>0, <4>2, <4>3 DEF IsOlder
    <3> QED BY <3>1, <3>2
  <2>5. SavedVotes(s, r, v) = [m \in Members |->
           IF m \in Entries[Content(r, v)] \cap sync[s].known THEN v ELSE 0]
    BY <2>4 DEF SavedVotes
  <2> QED BY <2>1, <2>2, <2>3, <2>5 DEF ver
<1>9. UNCHANGED <<origin, people>>
  BY <1>1 DEF world
<1>10. \A r \in Rolls : StoreOK(r)'
  <2> SUFFICES ASSUME NEW r \in Rolls PROVE StoreOK(r)'
    OBVIOUS
  <2>1. CASE r \notin saved
    BY <1>1, <1>7, <1>9, <2>1, StoreKept DEF IInv
  <2>2. CASE r \in saved
    <3> DEFINE v == ver(r)
               E == Entries[Content(r, v)]
    <3>1. call'[r] = v /\ v # 0 /\ v \in UsableVersions(rows'[r])
      BY <1>1, <1>6, <1>7, <2>2 DEF Grows
    <3>2. rows'[r][v].checksum = Content(r, v)
      BY <1>6, <1>7, <2>2 DEF Grows, Content
    <3>3. /\ DOMAIN records'[r] = {v} /\ records'[r][v] = E \ sync[s].known
          /\ votes'[r] = [m \in Members |-> IF m \in E \cap sync[s].known THEN v ELSE 0]
      BY <1>8, <2>2
    <3>4. Voters(r)' = E \ (E \ sync[s].known)
      BY <3>1, <3>2, <3>3 DEF Voters, Content
    <3>5. sync[s].known \subseteq people'
      BY <1>0, <1>9 DEF SyncOK
    <3> HIDE DEF v, E
    <3> QED BY <3>1, <3>3, <3>4, <3>5 DEF StoreOK
  <2> QED BY <2>1, <2>2
<1>11. SyncOK(s)'
  <2>1. UsableRolls(s)' = UsableRolls(s) /\ Served(s)' = Served(s)
    BY <1>4, <1>5 DEF UsableRolls, Served
  <2>2. \A r \in Rolls : LET v == sync'[s].seen[r].version
                         IN  v # 0 => v \in UsableVersions(rows'[r])
    BY <1>0, <1>4, <1>5, <1>7 DEF SyncOK, Grows
  <2>3. \A r \in Rolls : call'[r] <= ver(r)
    <3> SUFFICES ASSUME NEW r \in Rolls PROVE call'[r] <= ver(r)
      OBVIOUS
    <3>1. call'[r] = IF r \in saved THEN ver(r) ELSE call[r]
      BY <1>1
    <3> QED BY <1>0, <1>6, <3>1 DEF SyncOK, Late
  <2>4. ASSUME NEW r \in Rolls, NEW m \in Members, votes'[r][m] # 0
        PROVE  m \in sync[s].known
    <3>1. CASE r \in saved
      BY <1>8, <2>4, <3>1, ZenonT(30)
    <3>2. CASE r \notin saved
      BY <1>0, <1>1, <2>4, <3>2 DEF SyncOK
    <3> QED BY <3>1, <3>2
  <2>5. /\ \A r \in UsableRolls(s) : sync[s].seen[r].version # 0
        /\ new.todo \subseteq UsableRolls(s) /\ lock' = s
    BY <1>0, <1>1, <1>5 DEF SyncOK, Late
  <2> QED BY <1>0, <1>4, <1>5, <1>9, <2>1, <2>2, <2>3, <2>4, <2>5 DEF SyncOK
<1>12. ASSUME NEW t \in Syncs, t # s PROVE SyncOK(t)'
  <2>1. sync[t].pc = "idle"
    BY <1>0, <1>12 DEF IInv, SyncOK
  <2>2. \A r \in Rolls : origin[r] \in Nat /\ origin[r] <= origin[r]
    BY DEF IInv, TypeOK, EditionOrNone
  <2> QED BY <1>4, <1>7, <1>9, <1>12, <2>1, <2>2, WaitingOK DEF IInv
<1>13. TypeOK'
  <2>1. call' \in [Rolls -> Nat]
    BY <1>1, <1>6 DEF IInv, TypeOK
  <2>2. votes' \in [Rolls -> [Members -> Nat]]
    <3> SUFFICES ASSUME NEW r \in Rolls PROVE votes'[r] \in [Members -> Nat]
      BY <1>1
    <3>1. CASE r \in saved
      <4>1. votes'[r] = [m \in Members |->
               IF m \in Entries[Content(r, ver(r))] \cap sync[s].known THEN ver(r) ELSE 0]
        BY <1>8, <3>1
      <4>2. ver(r) \in Nat /\ 0 \in Nat
        BY <1>6, <3>1
      <4> HIDE DEF ver
      <4> QED BY <4>1, <4>2
    <3>2. CASE r \notin saved
      <4>1. votes'[r] = votes[r]
        BY <1>1, <3>2
      <4> QED BY <4>1 DEF IInv, TypeOK
    <3> QED BY <3>1, <3>2
  <2>3. ASSUME NEW r \in Rolls
        PROVE  /\ DOMAIN records'[r] \subseteq 1..Len(rows'[r])
               /\ \A v \in DOMAIN records'[r] : records'[r][v] \subseteq Members
    <3>1. CASE r \in saved
      <4>1. ver(r) \in 1..Len(rows'[r])
        BY <1>6, <1>7, <3>1 DEF Grows, UsableVersions
      <4>2. Entries[Content(r, ver(r))] \subseteq Members
        BY <1>2, <1>6, <3>1, RollAssumption DEF IInv, WholeRows
      <4>3. /\ DOMAIN records'[r] = {ver(r)}
            /\ records'[r][ver(r)] = Entries[Content(r, ver(r))] \ sync[s].known
        BY <1>8, <3>1
      <4> HIDE DEF ver
      <4> QED BY <4>1, <4>2, <4>3
    <3>2. CASE r \notin saved
      <4>1. rows[r] \in Seq(Row) /\ rows'[r] \in Seq(Row) /\ DOMAIN rows[r] \subseteq DOMAIN rows'[r]
        BY <1>7, TypedRegistry DEF Grows, RegistryOK, IInv
      <4>2. records'[r] = records[r]
        BY <1>1, <3>2
      <4>3. 1..Len(rows[r]) \subseteq 1..Len(rows'[r])
        BY <4>1
      <4> QED BY <4>2, <4>3 DEF IInv, TypeOK
    <3> QED BY <3>1, <3>2
  <2> QED BY <1>1, <1>4, <1>7, <2>1, <2>2, <2>3
          DEF IInv, TypeOK, RegistryOK, Knowledge, world, counters
<1> QED BY <1>7, <1>10, <1>11, <1>12, <1>13 DEF IInv

(* The world moves on: a file is replaced, or a person becomes known.      *)
LEMMA WorldStep ==
    ASSUME IInv, (\E r \in Rolls : Refresh(r)) \/ (\E m \in Members : PersonLoaded(m))
    PROVE  IInv'
<1>1. UNCHANGED <<registry, warehouse, lock, sync, ledger, errors, stops>>
  BY DEF Refresh, PersonLoaded, counters
<1>2. people \subseteq people' /\ people' \subseteq Members
  BY DEF Refresh, PersonLoaded, IInv, TypeOK
<1>3. origin' \in [Rolls -> EditionOrNone] /\ \A r \in Rolls : origin[r] <= origin'[r]
  <2>0. origin \in [Rolls -> 0..LastEdition] /\ LastEdition \in Nat
    BY RollAssumption DEF IInv, TypeOK, EditionOrNone
  <2>1. ASSUME NEW r \in Rolls, Refresh(r)
        PROVE  origin' \in [Rolls -> 0..LastEdition] /\ \A q \in Rolls : origin[q] <= origin'[q]
    <3>1. origin' = [origin EXCEPT ![r] = @ + 1] /\ origin[r] + 1 \in 0..LastEdition
      BY <2>0, <2>1 DEF Refresh
    <3>2. \A q \in Rolls : origin'[q] = IF q = r THEN origin[q] + 1 ELSE origin[q]
      BY <2>0, <3>1
    <3> QED BY <2>0, <3>1, <3>2
  <2>2. CASE UNCHANGED origin
    BY <2>0, <2>2 DEF EditionOrNone
  <2>3. UNCHANGED origin \/ \E r \in Rolls : Refresh(r)
    BY DEF PersonLoaded
  <2> QED BY <2>1, <2>2, <2>3 DEF EditionOrNone
<1>4. refreshes' \in 0..MaxRefresh
  BY SyncAssumption DEF Refresh, PersonLoaded, counters, IInv, TypeOK
<1>5. WholeRows' /\ Grows
  BY <1>1, TypedRegistry, SameRegistry DEF registry, RegistryOK, WholeRows, Content, IInv
<1>6. TypeOK'
  BY <1>1, <1>2, <1>3, <1>4 DEF IInv, TypeOK, registry, warehouse
<1>7. \A s \in Syncs : SyncOK(s)'
  <2>1. \A r \in Rolls : origin'[r] \in Nat
    BY <1>3 DEF EditionOrNone
  <2> QED BY <1>1, <1>2, <1>3, <1>5, <2>1, WaitingOK DEF IInv
<1>8. \A r \in Rolls : StoreOK(r)'
  BY <1>1, <1>2, <1>5, StoreKept DEF IInv, warehouse
<1> QED BY <1>5, <1>6, <1>7, <1>8 DEF IInv

LEMMA StepInvariant ==
    ASSUME IInv, [Next]_vars
    PROVE  IInv'
<1>1. CASE UNCHANGED vars
  BY <1>1 DEF vars, world, registry, warehouse, counters, IInv, TypeOK, WholeRows, Content,
              SyncOK, Served, UsableRolls, StoreOK, Voters
<1>2. CASE Next
  BY <1>2, DiscoverStep, SelectStep, FetchStep, EvidenceStep, NormalizeStep, PublishStep,
     LoadStep, RecordStep, EndStep, WorldStep DEF Next, Work
<1> QED BY <1>1, <1>2

LEMMA InitInvariant ==
    ASSUME Init
    PROVE  IInv
<1>1. TypeOK
  <2>1. {0, 1} \subseteq EditionOrNone /\ 0 \in Nat
    BY RollAssumption DEF EditionOrNone
  <2>2. sync \in [Syncs -> Knowledge]
    BY QuietType DEF Init
  <2>3. origin \in [Rolls -> EditionOrNone]
    BY <2>1 DEF Init
  <2> QED BY <2>1, <2>2, <2>3, SyncAssumption DEF Init, TypeOK, Knowledge
<1>2. \A r \in Rolls : UsableVersions(rows[r]) = {}
  BY DEF Init, UsableVersions
<1>3. \A s \in Syncs : SyncOK(s)
  <2>1. \A r \in Rolls : 0 <= origin[r]
    BY DEF Init
  <2> QED BY <2>1 DEF Init, SyncOK, Quiet, Nothing, Late
<1>4. \A r \in Rolls : StoreOK(r)
  BY DEF Init, StoreOK
<1> QED BY <1>1, <1>2, <1>3, <1>4 DEF IInv, WholeRows

LEMMA Invariant == Spec => []IInv
<1>1. Init => IInv
  BY InitInvariant
<1> QED BY <1>1, StepInvariant, PTL DEF Spec

(* Every variable keeps its type.                                          *)
THEOREM TypeCorrect == Spec => []TypeOK
<1>1. IInv => TypeOK
  BY DEF IInv
<1> QED BY <1>1, Invariant, PTL

(* A record row means its roll call is loaded whole from that version, and *)
(* from no other: what normalize skips a roll call for.                    *)
THEOREM RecordsAreWhole == Spec => []RecordMeansLoaded
<1>1. IInv => RecordMeansLoaded
  <2> SUFFICES ASSUME IInv, NEW r \in Rolls, NEW v \in DOMAIN records[r]
               PROVE  /\ call[r] = v
                      /\ votes[r] = [m \in Members |->
                            IF m \in Entries[Content(r, v)] \ records[r][v] THEN v ELSE 0]
    BY DEF RecordMeansLoaded
  <2>1. call[r] # 0 /\ call[r] = v
    BY DEF IInv, StoreOK
  <2> QED BY <2>1 DEF IInv, StoreOK, Voters
<1> QED BY <1>1, Invariant, PTL
-----------------------------------------------------------------------------
(* What readers see                                                        *)

(* Only a batch changes what a roll call shows.                            *)
LEMMA OnlyLoads ==
    ASSUME [Next]_vars
    PROVE  UNCHANGED <<call, votes>> \/ \E s \in Syncs : Load(s)
<1>1. ASSUME NEW s \in Syncs, NEW mode \in Modes, Discover(s, mode) PROVE UNCHANGED <<call, votes>>
  BY <1>1 DEF Discover, warehouse
<1>2. ASSUME NEW s \in Syncs,
             Select(s) \/ Fetch(s) \/ FetchFails(s) \/ Evidence(s) \/ Normalize(s) \/ Publish(s)
      PROVE  UNCHANGED <<call, votes>>
  BY <1>2 DEF Select, Fetch, FetchFails, Evidence, Normalize, Publish, warehouse
<1>3. ASSUME NEW s \in Syncs, Record(s) \/ Checkpoint(s) \/ Stop(s)
      PROVE  UNCHANGED <<call, votes>>
  BY <1>3 DEF Record, Checkpoint, Stop, Close, warehouse
<1>4. CASE (\E r \in Rolls : Refresh(r)) \/ (\E m \in Members : PersonLoaded(m)) \/ UNCHANGED vars
  BY <1>4 DEF Refresh, PersonLoaded, vars, warehouse
<1> QED BY <1>1, <1>2, <1>3, <1>4 DEF Next, Work

LEMMA ShownVoters ==
    ASSUME NEW r \in Rolls
    PROVE  /\ StoreOK(r) =>
                /\ \A m \in Members : votes[r][m] \in {0, call[r]}
                /\ Shown(r) = [version |-> call[r], voters |-> {m \in Members : votes[r][m] # 0}]
           /\ StoreOK(r)' =>
                Shown(r)' = [version |-> call'[r], voters |-> {m \in Members : votes'[r][m] # 0}]
<1>1. StoreOK(r) => \A m \in Members : votes[r][m] \in {0, call[r]}
  BY DEF StoreOK
<1>2. StoreOK(r)' => \A m \in Members : votes'[r][m] \in {0, call'[r]}
  BY DEF StoreOK
<1> QED BY <1>1, <1>2 DEF Shown

(* What a batch shows of its rolls is a version that is not older, with no *)
(* vote of that version less.                                              *)
LEMMA LoadShows ==
    ASSUME IInv, IInv', NEW s \in Syncs, Load(s), NEW r \in Rolls
    PROVE  Shown(r)' = Shown(r) \/ Store!Replaced(Shown(r), Shown(r)')
<1> DEFINE v == sync[s].seen[r].version
           saved == {q \in Batch(s) : Content(q, sync[s].seen[q].version) \notin Malformed}
<1>1. /\ Shown(r) = [version |-> call[r], voters |-> {m \in Members : votes[r][m] # 0}]
      /\ Shown(r)' = [version |-> call'[r], voters |-> {m \in Members : votes'[r][m] # 0}]
      /\ \A m \in Members : votes[r][m] \in {0, call[r]}
  BY ShownVoters DEF IInv
<1>2. /\ call'[r] = IF r \in saved THEN v ELSE call[r]
      /\ votes'[r] = IF r \in saved THEN SavedVotes(s, r, v) ELSE votes[r]
  BY DEF Load
<1>3. CASE r \notin saved
  BY <1>1, <1>2, <1>3
<1>4. CASE r \in saved
  <2>1. r \in sync[s].todo /\ sync[s].pc = "load"
    BY <1>4 DEF Load, Batch
  <2>2. v # 0 /\ call[r] <= v
    BY <2>1 DEF IInv, SyncOK, Late
  <2>3. call[r] \in Nat /\ v \in Nat
    BY <1>2, <1>4 DEF IInv, TypeOK
  <2>4. \A m \in Members : call[r] = v /\ votes[r][m] # 0 => votes'[r][m] # 0
    <3> SUFFICES ASSUME NEW m \in Members, call[r] = v, votes[r][m] # 0 PROVE votes'[r][m] # 0
      OBVIOUS
    <3>1. votes[r][m] = call[r]
      BY <1>1
    <3>2. votes'[r] = SavedVotes(s, r, v)
      BY <1>2, <1>4
    <3> HIDE DEF v
    <3> QED BY <2>2, <2>3, <3>1, <3>2 DEF SavedVotes, IsOlder
  <2>5. Shown(r)'.version = v /\ Shown(r).version = call[r]
    BY <1>1, <1>2, <1>4
  <2>6. v = call[r] => Shown(r).voters \subseteq Shown(r)'.voters
    BY <1>1, <2>4
  <2> HIDE DEF v
  <2> QED BY <2>2, <2>3, <2>5, <2>6 DEF Store!Replaced
<1> QED BY <1>3, <1>4

(* The sync implements the store readers rely on: a roll call is replaced  *)
(* whole, in one step, and never by an older version of its file.          *)
THEOREM SyncImplementsStore == Spec => ImplementsStore
<1>1. Init => Store!Init
  <2> SUFFICES ASSUME Init, NEW r \in Rolls
               PROVE  Shown(r) = [version |-> 0, voters |-> {}]
    BY DEF Store!Init
  <2> QED BY DEF Init, Shown
<1>2. IInv /\ IInv' /\ [Next]_vars => [Store!Next]_([r \in Rolls |-> Shown(r)])
  <2> SUFFICES ASSUME IInv, IInv', [Next]_vars
               PROVE  Store!Next \/ UNCHANGED [r \in Rolls |-> Shown(r)]
    OBVIOUS
  <2>1. CASE UNCHANGED <<call, votes>>
    <3>1. \A r \in Rolls : Shown(r)' = Shown(r)
      BY <2>1 DEF Shown
    <3> QED BY <3>1
  <2>2. ASSUME NEW s \in Syncs, Load(s) PROVE Store!Next
    <3>1. \A r \in Rolls : Shown(r)' = Shown(r) \/ Store!Replaced(Shown(r), Shown(r)')
      BY <2>2, LoadShows
    <3>2. \A r \in Rolls : Shown(r)' \in Store!File
      <4> SUFFICES ASSUME NEW r \in Rolls PROVE Shown(r)' \in Store!File
        OBVIOUS
      <4>1. Shown(r)' = [version |-> call'[r], voters |-> {m \in Members : votes'[r][m] # 0}]
        BY ShownVoters DEF IInv
      <4>2. call'[r] \in Nat
        BY DEF IInv, TypeOK
      <4> QED BY <4>1, <4>2 DEF Store!File
    <3> QED BY <3>1, <3>2 DEF Store!Next
  <2> QED BY <2>1, <2>2, OnlyLoads
<1> QED BY <1>1, <1>2, Invariant, PTL DEF Spec, ImplementsStore, Store!Spec
-----------------------------------------------------------------------------

(* What "succeeded" means: editions                                        *)

(* A failed row has no checksum; an origin state is not from the future,   *)
(* and a usable row holds an edition no older than the one it records.     *)
EditionsOK(r) ==
    /\ \A i \in DOMAIN rows[r] : i \notin UsableVersions(rows[r]) => IsProvisional(rows[r][i])
    /\ \A i \in DOMAIN rows[r] : stamps[r][i] <= origin[r]
    /\ \A i \in UsableVersions(rows[r]) :
          \E e \in stamps[r][i]..origin[r] : Content(r, i) = Bytes[r][e]

(* What is registered is an edition no older than what its row will record.*)
Dated(r, new, stamp) ==
    new.status \in Usable =>
        \E e \in 0..origin[r] :
            /\ new.checksum = Bytes[r][e] /\ stamp <= e
            /\ stamp = 0 => \A i \in DOMAIN rows[r] : stamps[r][i] <= e

LEMMA RegisterEditions ==
    ASSUME RegistryOK, RegistryOK', NEW R \in SUBSET Rolls, NEW new, NEW stamp, NEW r \in R,
           EditionsOK(r), new[r] \in Row, stamp[r] \in EditionOrNone, stamp[r] <= origin[r],
           new[r].status \notin Usable => IsProvisional(new[r]),
           Dated(r, new[r], stamp[r]), origin \in [Rolls -> EditionOrNone],
           Register(R, new, stamp), UNCHANGED origin
    PROVE  EditionsOK(r)'
<1> DEFINE n == Len(rows[r])
           act == ArtifactAction(rows[r], new[r], Checksums)
<1>1. rows[r] \in Seq(Row) /\ stamps[r] \in Seq(EditionOrNone) /\ Len(stamps[r]) = n /\ n \in Nat
      /\ DOMAIN rows[r] = 1..n /\ DOMAIN stamps[r] = 1..n /\ origin[r] \in Nat
  BY DEF RegistryOK, EditionOrNone
<1>2. rows'[r] = Registered(rows[r], new[r], Checksums) /\ stamps'[r] = Stamped(r, act, stamp[r])
  BY DEF Register
<1>3. \A i \in 1..n : stamps[r][i] \in Nat /\ rows[r][i] \in Row
  BY <1>1, RollAssumption DEF EditionOrNone
<1>4. stamp[r] \in Nat
  BY RollAssumption DEF EditionOrNone
<1> HIDE DEF n
<1>5. SUFFICES ASSUME NEW i \in DOMAIN rows'[r]
               PROVE  /\ rows'[r][i].status \notin Usable => IsProvisional(rows'[r][i])
                      /\ stamps'[r][i] <= origin[r]
                      /\ rows'[r][i].status \in Usable =>
                            \E e \in stamps'[r][i]..origin[r] : rows'[r][i].checksum = Bytes[r][e]
  BY DEF EditionsOK, UsableVersions, Content, RegistryOK
<1>6. ASSUME i \in 1..n, rows'[r][i] = rows[r][i], stamps'[r][i] = stamps[r][i]
      PROVE  /\ rows'[r][i].status \notin Usable => IsProvisional(rows'[r][i])
             /\ stamps'[r][i] <= origin[r]
             /\ rows'[r][i].status \in Usable =>
                   \E e \in stamps'[r][i]..origin[r] : rows'[r][i].checksum = Bytes[r][e]
  BY <1>1, <1>6 DEF EditionsOK, UsableVersions, Content, n
<1>7. CASE act = "append"
  <2>1. rows'[r] = Append(rows[r], new[r]) /\ stamps'[r] = Append(stamps[r], stamp[r])
    BY <1>2, <1>7 DEF Registered, Stamped
  <2>2. i \in 1..n + 1 /\ \A j \in 1..n : rows'[r][j] = rows[r][j] /\ stamps'[r][j] = stamps[r][j]
    BY <1>1, <2>1 DEF n
  <2>3. rows'[r][n + 1] = new[r] /\ stamps'[r][n + 1] = stamp[r]
    BY <1>1, <2>1 DEF n
  <2>4. CASE i = n + 1
    <3>1. new[r].status \in Usable => \E e \in stamp[r]..origin[r] : new[r].checksum = Bytes[r][e]
      BY <1>1, <1>4 DEF Dated
    <3> QED BY <2>3, <2>4, <3>1
  <2>5. CASE i # n + 1
    <3>1. i \in 1..n
      BY <1>1, <2>2, <2>5
    <3> QED BY <1>6, <2>2, <3>1
  <2> QED BY <2>4, <2>5
<1>8. CASE act \in {"promote", "retry"} /\ rows[r] # <<>>
  <2>1. n \in 1..n
    BY <1>1, <1>8 DEF n
  <2>2. stamps'[r] = [stamps[r] EXCEPT ![n] = IF stamp[r] = 0 THEN @ ELSE stamp[r]]
    BY <1>1, <1>2, <1>8 DEF Stamped
  <2>3. \A j \in 1..n : stamps'[r][j] = IF j = n /\ stamp[r] # 0 THEN stamp[r] ELSE stamps[r][j]
    BY <1>1, <2>2
  <2>4. stamps'[r][n] <= origin[r] /\ stamps'[r][n] \in Nat
    BY <1>1, <1>3, <1>4, <2>1, <2>3 DEF EditionsOK
  <2>5. new[r].status \in Usable =>
           \E e \in stamps'[r][n]..origin[r] : new[r].checksum = Bytes[r][e]
    <3> SUFFICES ASSUME new[r].status \in Usable
                 PROVE  \E e \in stamps'[r][n]..origin[r] : new[r].checksum = Bytes[r][e]
      OBVIOUS
    <3>1. PICK e \in 0..origin[r] :
            /\ new[r].checksum = Bytes[r][e] /\ stamp[r] <= e
            /\ stamp[r] = 0 => \A j \in DOMAIN rows[r] : stamps[r][j] <= e
      BY DEF Dated
    <3>2. stamps'[r][n] <= e
      BY <1>1, <2>1, <2>3, <3>1
    <3>3. e \in stamps'[r][n]..origin[r]
      BY <1>1, <2>4, <3>2
    <3> QED BY <3>1, <3>3
  <2>6. CASE act = "promote"
    <3>1. rows'[r] = [rows[r] EXCEPT ![n] = new[r]]
      BY <1>2, <2>6 DEF Registered, n
    <3>2. DOMAIN rows'[r] = 1..n
          /\ \A j \in 1..n : rows'[r][j] = IF j = n THEN new[r] ELSE rows[r][j]
      BY <1>1, <3>1 DEF n
    <3>3. CASE i = n
      BY <2>1, <2>4, <2>5, <3>2, <3>3
    <3>4. CASE i # n
      BY <1>6, <2>3, <3>2, <3>4
    <3> QED BY <3>3, <3>4
  <2>7. CASE act = "retry"
    <3>0. /\ new[r].checksum = rows[r][n].checksum /\ new[r].status \in Usable
          /\ rows'[r] = [rows[r] EXCEPT ![n].status = new[r].status]
      BY <1>1, <1>2, <2>7, ActionCases DEF Registered, Latest, n, Row, Status
    <3>1. DOMAIN rows'[r] = 1..n
          /\ \A j \in 1..n : rows'[r][j] = IF j = n THEN [rows[r][n] EXCEPT !.status = new[r].status]
                                                    ELSE rows[r][j]
      BY <1>1, <3>0 DEF n
    <3>2. rows'[r][n].status \in Usable /\ rows'[r][n].checksum = new[r].checksum
      BY <1>3, <2>1, <3>0, <3>1 DEF Row
    <3>3. CASE i = n
      <4>1. \E e \in stamps'[r][n]..origin[r] : rows'[r][n].checksum = Bytes[r][e]
        BY <2>5, <3>0, <3>2
      <4> QED BY <2>4, <3>2, <3>3, <4>1
    <3>4. CASE i # n
      <4>1. i \in 1..n /\ rows'[r][i] = rows[r][i] /\ stamps'[r][i] = stamps[r][i]
        BY <2>3, <3>1, <3>4
      <4> QED BY <1>6, <4>1
    <3> QED BY <3>3, <3>4
  <2> QED BY <1>8, <2>6, <2>7
<1> QED BY <1>1, <1>7, <1>8, ActionCases

(* A bound on what is recorded stays one.                                  *)
LEMMA RegisterBound ==
    ASSUME RegistryOK, RegistryOK', NEW R \in SUBSET Rolls, NEW new, NEW stamp, NEW r \in Rolls,
           NEW b \in Nat, \A i \in DOMAIN rows[r] : stamps[r][i] <= b,
           r \in R => stamp[r] \in EditionOrNone /\ stamp[r] <= b,
           Register(R, new, stamp)
    PROVE  \A i \in DOMAIN rows'[r] : stamps'[r][i] <= b
<1> DEFINE n == Len(rows[r])
           act == ArtifactAction(rows[r], new[r], Checksums)
<1>1. /\ stamps[r] \in Seq(EditionOrNone) /\ Len(stamps[r]) = n /\ n \in Nat
      /\ DOMAIN rows[r] = 1..n /\ DOMAIN rows'[r] = 1..Len(stamps'[r])
  BY DEF RegistryOK
<1>2. CASE r \notin R
  <2>1. stamps'[r] = stamps[r]
    BY <1>2 DEF Register
  <2> QED BY <1>1, <2>1
<1>3. CASE r \in R
  <2>1. stamps'[r] = Stamped(r, act, stamp[r])
    BY <1>3 DEF Register
  <2> HIDE DEF n, act
  <2>2. CASE stamps'[r] = Append(stamps[r], stamp[r])
    <3>1. Len(stamps'[r]) = n + 1 /\ \A i \in 1..n + 1 : stamps'[r][i] =
             IF i = n + 1 THEN stamp[r] ELSE stamps[r][i]
      BY <1>1, <2>2
    <3> QED BY <1>1, <1>3, <3>1
  <2>3. CASE stamps'[r] = [stamps[r] EXCEPT ![n] = IF stamp[r] = 0 THEN @ ELSE stamp[r]]
    <3>1. Len(stamps'[r]) = n /\ \A i \in 1..n : stamps'[r][i] =
             IF i = n /\ stamp[r] # 0 THEN stamp[r] ELSE stamps[r][i]
      BY <1>1, <2>3
    <3> QED BY <1>1, <1>3, <3>1
  <2> QED BY <1>1, <2>1, <2>2, <2>3 DEF Stamped
<1> QED BY <1>2, <1>3
-----------------------------------------------------------------------------
(* What a run has done so far                                              *)

(* While a run is at work no row records a later edition than its HEAD saw.*)
HeadIsNewest(s) ==
    sync[s].pc \in {"extract"} \cup Late =>
        \A r \in Served(s) : \A i \in DOMAIN rows[r] : stamps[r][i] <= sync[s].head[r]

(* What it means to load was served by the origin at or after its HEAD.    *)
SeenIsServed(s) ==
    sync[s].pc \in Late \cup {"finish"} =>
        \A r \in UsableRolls(s) :
            /\ sync[s].seen[r].version # 0
            /\ \E e \in sync[s].head[r]..origin[r] :
                  Content(r, sync[s].seen[r].version) = Bytes[r][e]

(* A roll call it need not load, or has loaded without a flaw, is recorded *)
(* with nobody left unresolved.                                            *)
DoneIsRecorded(s) ==
    /\ sync[s].pc \in {"publish", "load", "record", "finish"}
    /\ sync[s].mode # "download_only" /\ ~sync[s].flawed
    => \A r \in UsableRolls(s) \ sync[s].todo :
          LET v == sync[s].seen[r].version IN v \in DOMAIN records[r] /\ records[r][v] = {}

(* The ledger is the running process's own; its target row says what the   *)
(* last record found.                                                      *)
TargetOK(s) ==
    /\ sync[s].pc # "idle" => ledger.by = s /\ ledger.run = "running"
    /\ sync[s].pc \in {"select", "extract", "normalize", "publish"} => ledger.target = "none"
    /\ sync[s].pc \in {"load", "record"} => sync[s].mode # "download_only"
    /\ sync[s].pc = "finish" =>
          /\ ledger.target = "partial" =>
                sync[s].flawed \/ sync[s].failed # {} \/ Unlisted(s)
          /\ ledger.target = "succeeded" =>
                /\ ~sync[s].flawed /\ sync[s].failed = {} /\ ~Unlisted(s)
                /\ sync[s].todo = {} /\ sync[s].mode # "download_only"

ProgressOK(s) == HeadIsNewest(s) /\ SeenIsServed(s) /\ DoneIsRecorded(s) /\ TargetOK(s)
LedgerOK == ledger.run = "succeeded" => ledger.target # "partial"

SInv ==
    /\ IInv
    /\ \A r \in Rolls : EditionsOK(r)
    /\ \A s \in Syncs : ProgressOK(s)
    /\ LedgerOK

(* Marking rolls loaded says nothing new of editions.                      *)
LEMMA MarkEditions ==
    ASSUME SInv, RegistryOK', NEW s \in Syncs, sync[s].pc \in Late,
           NEW R \in SUBSET UsableRolls(s), MarkLoaded(s, R), UNCHANGED origin
    PROVE  /\ \A r \in Rolls : EditionsOK(r)'
           /\ \A r \in Served(s) : \A i \in DOMAIN rows'[r] : stamps'[r][i] <= sync[s].head[r]
<1> DEFINE marked == {r \in R : sync[s].seen[r].status # "loaded"}
           new == [r \in marked |-> FileRow("loaded", Content(r, sync[s].seen[r].version))]
           stamp == [r \in Rolls |-> 0]
<1>1. Register(marked, new, stamp) /\ marked \in SUBSET Rolls /\ marked \subseteq UsableRolls(s)
  BY DEF MarkLoaded, UsableRolls, Served
<1>2. RegistryOK /\ 0 \in EditionOrNone /\ origin \in [Rolls -> EditionOrNone]
      /\ EditionOrNone \subseteq Nat /\ sync[s] \in Knowledge
  BY TypedRegistry, RollAssumption DEF SInv, IInv, TypeOK, EditionOrNone
<1>3. HeadIsNewest(s) /\ SeenIsServed(s) /\ SyncOK(s) /\ \A r \in Rolls : EditionsOK(r)
  BY DEF SInv, IInv, ProgressOK
<1>4. \A r \in Served(s) : \A i \in DOMAIN rows[r] : stamps[r][i] <= sync[s].head[r]
  BY <1>3 DEF HeadIsNewest
<1>5. ASSUME NEW r \in marked
      PROVE  /\ new[r] \in Row /\ new[r].status \in Usable
             /\ Dated(r, new[r], stamp[r]) /\ stamp[r] \in EditionOrNone /\ stamp[r] <= origin[r]
  <2>1. r \in Rolls /\ r \in UsableRolls(s) /\ r \in Served(s)
    BY <1>1 DEF UsableRolls, Served
  <2>2. sync[s].seen[r].version \in UsableVersions(rows[r])
    BY <1>3, <2>1 DEF SeenIsServed, SyncOK
  <2>3. Content(r, sync[s].seen[r].version) \in Checksums
    BY <2>1, <2>2 DEF SInv, IInv, WholeRows
  <2>4. new[r] = FileRow("loaded", Content(r, sync[s].seen[r].version)) /\ stamp[r] = 0
    BY <2>1
  <2>5. PICK e \in sync[s].head[r]..origin[r] :
           Content(r, sync[s].seen[r].version) = Bytes[r][e]
    BY <1>3, <2>1 DEF SeenIsServed
  <2>6. origin[r] \in Nat /\ sync[s].head[r] \in Nat
    BY <1>2, <2>1 DEF Knowledge
  <2>7. \A i \in DOMAIN rows[r] : stamps[r][i] <= e
    <3> SUFFICES ASSUME NEW i \in DOMAIN rows[r] PROVE stamps[r][i] <= e
      OBVIOUS
    <3>1. stamps[r][i] \in Nat
      <4>1. stamps[r] \in Seq(EditionOrNone) /\ i \in 1..Len(stamps[r])
        BY <1>2, <2>1 DEF RegistryOK
      <4>2. stamps[r][i] \in EditionOrNone
        BY <4>1
      <4> QED BY <1>2, <4>2
    <3> QED BY <1>4, <2>1, <2>5, <2>6, <3>1
  <2>8. e \in 0..origin[r] /\ 0 <= e
    BY <2>5, <2>6
  <2>9. new[r].checksum = Bytes[r][e] /\ new[r] \in Row /\ new[r].status \in Usable
    BY <2>3, <2>4, <2>5 DEF FileRow, Row, Status, Usable
  <2>10. Dated(r, new[r], stamp[r])
    BY <2>4, <2>7, <2>8, <2>9 DEF Dated
  <2>11. stamp[r] \in EditionOrNone /\ stamp[r] <= origin[r]
    BY <1>2, <2>4, <2>6
  <2> HIDE DEF new, stamp
  <2> QED BY <2>9, <2>10, <2>11
<1>6. \A r \in marked : new[r].status \notin Usable => IsProvisional(new[r])
  BY <1>5
<1> HIDE DEF marked, new, stamp
<1>7. ASSUME NEW r \in Rolls PROVE EditionsOK(r)'
  <2>1. CASE r \in marked
    BY <1>1, <1>2, <1>3, <1>5, <1>6, <2>1, RegisterEditions
  <2>2. CASE r \notin marked
    <3>1. rows'[r] = rows[r] /\ stamps'[r] = stamps[r]
      BY <1>1, <2>2 DEF Register
    <3> QED BY <1>3, <3>1 DEF EditionsOK, Content
  <2> QED BY <2>1, <2>2
<1>8. ASSUME NEW r \in Served(s)
      PROVE  \A i \in DOMAIN rows'[r] : stamps'[r][i] <= sync[s].head[r]
  <2>1. r \in Rolls /\ sync[s].head[r] \in Nat
    BY <1>2 DEF Served, Knowledge
  <2>2. r \in marked => stamp[r] \in EditionOrNone /\ stamp[r] <= sync[s].head[r]
    BY <1>5, <2>1 DEF stamp
  <2> QED BY <1>1, <1>2, <1>4, <2>1, <2>2, RegisterBound
<1> QED BY <1>7, <1>8

(* What a step of process s needs to show: the others are idle.            *)
LEMMA StepBy ==
    ASSUME SInv, IInv', NEW s \in Syncs, NEW new, Update(s, new),
           sync[s].pc # "idle" \/ lock = Nobody,
           \A r \in Rolls : EditionsOK(r)', ProgressOK(s)', LedgerOK'
    PROVE  SInv'
<1>1. ASSUME NEW t \in Syncs, t # s PROVE ProgressOK(t)'
  <2>1. sync[t].pc = "idle"
    BY <1>1, SyncAssumption DEF SInv, IInv, SyncOK
  <2>2. sync'[t] = sync[t]
    BY <1>1, TypedRegistry DEF Update, SInv, IInv
  <2> QED BY <2>1, <2>2
          DEF ProgressOK, HeadIsNewest, SeenIsServed, DoneIsRecorded, TargetOK, Late
<1> QED BY <1>1 DEF SInv

LEMMA SameEditions ==
    ASSUME SInv, UNCHANGED <<origin, rows, stamps>>
    PROVE  \A r \in Rolls : EditionsOK(r)'
BY DEF SInv, EditionsOK, Content

LEMMA DiscoverStarts ==
    ASSUME SInv, IInv', NEW s \in Syncs, NEW mode \in Modes, Discover(s, mode)
    PROVE  SInv'
<1>1. PICK listed \in SUBSET Rolls :
         Update(s, [Quiet EXCEPT !.pc = "select", !.mode = mode, !.listed = listed,
                                 !.seen = CurrentRows])
  BY DEF Discover
<1> DEFINE new == [Quiet EXCEPT !.pc = "select", !.mode = mode, !.listed = listed,
                                !.seen = CurrentRows]
<1>2. sync'[s] = new
  BY <1>1, TypedRegistry DEF Update, SInv, IInv
<1>3. new.pc = "select" /\ ~new.flawed
  BY DEF Quiet
<1>4. ledger' = [by |-> s, run |-> "running", target |-> "none"] /\ lock = Nobody
      /\ UNCHANGED <<world, registry>>
  BY DEF Discover
<1> HIDE DEF new
<1>5. ProgressOK(s)'
  BY <1>2, <1>3, <1>4
     DEF ProgressOK, HeadIsNewest, SeenIsServed, DoneIsRecorded, TargetOK, Late
<1>6. LedgerOK'
  BY <1>4 DEF LedgerOK
<1> QED BY <1>1, <1>4, <1>5, <1>6, SameEditions, StepBy DEF world, registry

LEMMA SelectHeads ==
    ASSUME SInv, IInv', NEW s \in Syncs, Select(s)
    PROVE  SInv'
<1>1. PICK broken \in SUBSET sync[s].listed :
         LET head == [r \in Rolls |->
                        IF r \in sync[s].listed \ broken THEN origin[r] ELSE 0]
         IN  Update(s, [sync[s] EXCEPT !.pc = "extract", !.head = head, !.failed = broken,
                  !.fetch = {r \in Rolls : head[r] # 0 /\ ~Unchanged(r, sync[s].seen[r], head[r])}])
  BY DEF Select
<1> DEFINE head == [r \in Rolls |-> IF r \in sync[s].listed \ broken THEN origin[r] ELSE 0]
           fetch == {r \in Rolls : head[r] # 0 /\ ~Unchanged(r, sync[s].seen[r], head[r])}
           new == [sync[s] EXCEPT !.pc = "extract", !.head = head, !.failed = broken,
                                  !.fetch = fetch]
<1>2. Update(s, new)
  BY <1>1
<1>3. sync[s] \in Knowledge /\ sync'[s] = new
  BY <1>2, TypedRegistry DEF Update, SInv, IInv
<1>4. \A r \in Rolls : head[r] # 0 => head[r] = origin[r]
  OBVIOUS
<1> HIDE DEF head, fetch
<1>5. new.pc = "extract" /\ new.head = head /\ new.flawed = sync[s].flawed
  BY <1>3 DEF Knowledge
<1> HIDE DEF new
<1>6. UNCHANGED <<world, registry, warehouse, lock, ledger>> /\ sync[s].pc = "select"
  BY DEF Select
<1>7. HeadIsNewest(s)'
  <2> SUFFICES ASSUME NEW r \in Rolls, head[r] # 0, NEW i \in DOMAIN rows[r]
               PROVE  stamps[r][i] <= head[r]
    BY <1>3, <1>5, <1>6 DEF HeadIsNewest, Served, registry
  <2> QED BY <1>4 DEF SInv, EditionsOK
<1>8. ProgressOK(s)'
  BY <1>3, <1>5, <1>6, <1>7
     DEF SInv, ProgressOK, SeenIsServed, DoneIsRecorded, TargetOK, Late
<1>9. LedgerOK'
  BY <1>6 DEF LedgerOK, SInv
<1> QED BY <1>2, <1>6, <1>8, <1>9, SameEditions, StepBy DEF world, registry

LEMMA FetchDates ==
    ASSUME SInv, IInv', NEW s \in Syncs, Fetch(s) \/ FetchFails(s)
    PROVE  SInv'
<1> DEFINE r == Next1(sync[s].fetch)
           got == Bytes[r][origin[r]]
<1>0. sync[s] \in Knowledge /\ sync[s].pc = "extract" /\ sync[s].fetch # {}
      /\ sync[s].fetch \in SUBSET Rolls
  BY TypedRegistry DEF SInv, IInv, Fetch, FetchFails, Knowledge
<1>1. r \in sync[s].fetch /\ r \in Rolls
  BY <1>0, NextIsIn
<1>2. /\ sync[s].head[r] # 0 /\ sync[s].head[r] <= origin[r]
      /\ origin[r] \in 0..LastEdition /\ LastEdition \in Nat
      /\ sync[s].head \in [Rolls -> EditionOrNone] /\ EditionOrNone \subseteq Nat
  <2>1. sync[s].head \in [Rolls -> EditionOrNone] /\ SyncOK(s) /\ origin \in [Rolls -> EditionOrNone]
    BY <1>0 DEF SInv, IInv, TypeOK, Knowledge
  <2>2. LastEdition \in Nat /\ EditionOrNone = 0..LastEdition /\ EditionOrNone \subseteq Nat
    BY RollAssumption DEF EditionOrNone
  <2>3. r \in Served(s) /\ sync[s].head[r] <= origin[r]
    BY <1>1, <2>1 DEF SyncOK
  <2>4. sync[s].head[r] # 0
    BY <2>3 DEF Served
  <2>5. origin[r] \in 0..LastEdition
    BY <1>1, <2>1, <2>2
  <2> HIDE DEF r
  <2> QED BY <2>1, <2>2, <2>3, <2>4, <2>5
<1>3. got \in Checksums /\ origin[r] \in Editions
  <2>1. origin[r] \in Editions
    <3> HIDE DEF r
    <3>1. sync[s].head[r] \in Nat
      BY <1>1, <1>2
    <3> QED BY <1>2, <3>1 DEF Editions
  <2> QED BY <1>1, <2>1, RollAssumption
<1> HIDE DEF r, got
<1> DEFINE news == [q \in {r} |-> FileRow("downloaded", got)]
           fails == [q \in {r} |-> FileRow("failed", NoChecksum)]
           stamp == sync[s].head
<1>4. \E new \in {news, fails} : Register({r}, new, stamp)
  BY DEF Fetch, FetchFails, r, got
<1>5. /\ news[r] \in Row /\ Dated(r, news[r], stamp[r]) /\ news[r].status \in Usable
  <2>1. news[r].checksum = Bytes[r][origin[r]] /\ news[r].status = "downloaded" /\ news[r] \in Row
    BY <1>3 DEF FileRow, Row, Status, Usable, got
  <2>2. origin[r] \in 0..origin[r] /\ stamp[r] <= origin[r] /\ stamp[r] # 0
    BY <1>2
  <2> QED BY <2>1, <2>2 DEF Dated, Usable
<1>6. /\ fails[r] \in Row /\ fails[r].status \notin Usable /\ IsProvisional(fails[r])
      /\ Dated(r, fails[r], stamp[r])
  BY DEF FileRow, Row, Status, Usable, Provisional, IsProvisional, Dated
<1>7. PICK new \in {news, fails} : Register({r}, new, stamp)
  BY <1>4
<1> HIDE DEF news, fails
<1>8. /\ new[r] \in Row /\ Dated(r, new[r], stamp[r])
      /\ new[r].status \notin Usable => IsProvisional(new[r])
  BY <1>5, <1>6
<1>9. RegistryOK /\ RegistryOK' /\ origin \in [Rolls -> EditionOrNone]
      /\ UNCHANGED <<origin, call, votes, records, lock, ledger>>
  BY TypedRegistry DEF SInv, IInv, TypeOK, RegistryOK, Fetch, FetchFails, world, warehouse
<1>10. ASSUME NEW q \in Rolls PROVE EditionsOK(q)'
  <2>1. CASE q = r
    BY <1>1, <1>2, <1>7, <1>8, <1>9, <2>1, RegisterEditions DEF SInv
  <2>2. CASE q # r
    <3>1. rows'[q] = rows[q] /\ stamps'[q] = stamps[q] /\ origin'[q] = origin[q]
      BY <1>7, <1>9, <2>2 DEF Register
    <3> QED BY <3>1 DEF SInv, EditionsOK, Content
  <2> QED BY <2>1, <2>2
<1>11. \E failed : Update(s, [sync[s] EXCEPT !.fetch = sync[s].fetch \ {r}, !.failed = failed])
  <2>1. CASE Fetch(s)
    <3> DEFINE same == Size[got] = Size[Bytes[r][sync[s].head[r]]]
               failed == IF same THEN sync[s].failed ELSE sync[s].failed \cup {r}
    <3>1. Update(s, [sync[s] EXCEPT !.fetch = sync[s].fetch \ {r}, !.failed = failed])
      BY <2>1 DEF Fetch, r, got
    <3> QED BY <3>1
  <2>2. CASE FetchFails(s)
    <3>1. Update(s, [sync[s] EXCEPT !.fetch = sync[s].fetch \ {r},
                                    !.failed = sync[s].failed \cup {r}])
      BY <2>2 DEF FetchFails, r
    <3> QED BY <3>1
  <2> QED BY <2>1, <2>2
<1>12. PICK failed : Update(s, [sync[s] EXCEPT !.fetch = sync[s].fetch \ {r}, !.failed = failed])
  BY <1>11
<1> DEFINE new2 == [sync[s] EXCEPT !.fetch = sync[s].fetch \ {r}, !.failed = failed]
<1>13. sync'[s] = new2 /\ new2.pc = sync[s].pc /\ new2.head = sync[s].head
       /\ new2.flawed = sync[s].flawed
  BY <1>0, <1>12, TypedRegistry DEF Update, SInv, IInv, Knowledge
<1> HIDE DEF new2
<1>14. HeadIsNewest(s)'
  <2> SUFFICES ASSUME NEW q \in Rolls, stamp[q] # 0
               PROVE  \A i \in DOMAIN rows'[q] : stamps'[q][i] <= stamp[q]
    BY <1>13 DEF HeadIsNewest, Served
  <2>1. \A i \in DOMAIN rows[q] : stamps[q][i] <= stamp[q]
    BY <1>0 DEF SInv, ProgressOK, HeadIsNewest, Served
  <2>2. stamp[q] \in Nat /\ stamp[q] \in EditionOrNone /\ stamp[q] <= stamp[q]
    <3>1. stamp[q] \in EditionOrNone /\ EditionOrNone \subseteq Nat
      BY <1>2
    <3>2. stamp[q] \in Nat
      BY <3>1, Zenon
    <3> HIDE DEF stamp
    <3>3. stamp[q] <= stamp[q]
      BY <3>2
    <3> QED BY <3>1, <3>2, <3>3
  <2>3. {r} \in SUBSET Rolls
    BY <1>1
  <2> HIDE DEF stamp
  <2> QED BY <1>7, <1>9, <2>1, <2>2, <2>3, RegisterBound
<1>15. ProgressOK(s)'
  BY <1>0, <1>9, <1>13, <1>14
     DEF SInv, ProgressOK, SeenIsServed, DoneIsRecorded, TargetOK, Late
<1>16. LedgerOK'
  BY <1>9 DEF LedgerOK, SInv
<1> QED BY <1>0, <1>10, <1>12, <1>15, <1>16, StepBy

(* After the evidence stage every usable roll has the row of its HEAD.     *)
LEMMA EvidenceServes ==
    ASSUME SInv, IInv', NEW s \in Syncs, Evidence(s)
    PROVE  SInv'
<1> DEFINE bad == {r \in UsableRolls(s) : \/ CurrentRow(r).version = 0
                                          \/ CurrentRow(r).stamp # sync[s].head[r]}
           new == [sync[s] EXCEPT !.pc = "normalize", !.seen = CurrentRows,
                                  !.failed = sync[s].failed \cup bad]
<1>1. Update(s, new) /\ UNCHANGED <<world, registry, warehouse, lock, ledger>>
      /\ sync[s].pc = "extract"
  BY DEF Evidence
<1>2. sync[s] \in Knowledge /\ sync'[s] = new
  BY <1>1, TypedRegistry DEF Update, SInv, IInv
<1>3. \A r \in UsableRolls(s) \ bad :
         CurrentRow(r).version # 0 /\ CurrentRow(r).stamp = sync[s].head[r]
  OBVIOUS
<1> HIDE DEF bad
<1>4. /\ new.pc = "normalize" /\ new.head = sync[s].head /\ new.seen = CurrentRows
      /\ new.failed = sync[s].failed \cup bad /\ new.flawed = sync[s].flawed
  BY <1>2 DEF Knowledge
<1> HIDE DEF new
<1>5. HeadIsNewest(s)'
  BY <1>1, <1>2, <1>4 DEF SInv, ProgressOK, HeadIsNewest, Served, registry
<1>6. SeenIsServed(s)'
  <2>1. UsableRolls(s)' \subseteq UsableRolls(s) \ bad
    BY <1>2, <1>4 DEF UsableRolls, Served
  <2>2. ASSUME NEW r \in UsableRolls(s) \ bad
        PROVE  /\ CurrentRows[r].version # 0
               /\ \E e \in sync[s].head[r]..origin[r] :
                     Content(r, CurrentRows[r].version) = Bytes[r][e]
    <3> DEFINE v == Current(rows[r])
    <3>1. r \in Rolls
      BY DEF UsableRolls, Served
    <3>2. CurrentRow(r) = CurrentRows[r] /\ CurrentRow(r).version = v
          /\ v # 0 /\ v \in UsableVersions(rows[r])
      BY <1>3, <3>1, CurrentRowsType DEF SInv, IInv
    <3>3. CurrentRow(r).stamp = stamps[r][v]
      BY <3>2 DEF CurrentRow
    <3>4. stamps[r][v] = sync[s].head[r]
      BY <1>3, <3>3
    <3> HIDE DEF v
    <3>5. \E e \in stamps[r][v]..origin[r] : Content(r, v) = Bytes[r][e]
      BY <3>1, <3>2 DEF SInv, EditionsOK
    <3> QED BY <3>2, <3>4, <3>5
  <2>3. UNCHANGED <<origin, rows>>
    BY <1>1 DEF world, registry
  <2>4. \A r \in UsableRolls(s)' :
           /\ CurrentRows[r].version # 0
           /\ \E e \in sync[s].head[r]..origin[r] :
                 rows[r][CurrentRows[r].version].checksum = Bytes[r][e]
    BY <2>1, <2>2 DEF Content
  <2> QED BY <1>2, <1>4, <2>3, <2>4 DEF SeenIsServed, Content
<1>7. ProgressOK(s)'
  BY <1>1, <1>2, <1>4, <1>5, <1>6 DEF SInv, ProgressOK, DoneIsRecorded, TargetOK, Late
<1>8. LedgerOK'
  BY <1>1 DEF LedgerOK, SInv
<1> QED BY <1>1, <1>7, <1>8, SameEditions, StepBy DEF world, registry

LEMMA NormalizeSorts ==
    ASSUME SInv, IInv', NEW s \in Syncs, Normalize(s)
    PROVE  SInv'
<1> DEFINE todo == IF sync[s].mode = "download_only" THEN {}
                   ELSE {r \in UsableRolls(s) : LeftToLoad(r, sync[s].seen[r].version)}
           new == [sync[s] EXCEPT !.pc = "publish", !.todo = todo]
<1>1. Update(s, new) /\ UNCHANGED <<world, registry, warehouse, lock, ledger>>
      /\ sync[s].pc = "normalize"
  BY DEF Normalize
<1>2. sync[s] \in Knowledge /\ sync'[s] = new
  BY <1>1, TypedRegistry DEF Update, SInv, IInv
<1>3. sync[s].mode # "download_only" =>
         \A r \in UsableRolls(s) \ todo : ~LeftToLoad(r, sync[s].seen[r].version)
  OBVIOUS
<1> HIDE DEF todo
<1>4. /\ new.pc = "publish" /\ new.head = sync[s].head /\ new.seen = sync[s].seen
      /\ new.failed = sync[s].failed /\ new.todo = todo /\ new.mode = sync[s].mode
  BY <1>2 DEF Knowledge
<1> HIDE DEF new
<1>5. UNCHANGED <<origin, rows, stamps, records, lock, ledger>>
      /\ Served(s)' = Served(s) /\ UsableRolls(s)' = UsableRolls(s)
  BY <1>1, <1>2, <1>4 DEF world, registry, warehouse, UsableRolls, Served
<1>6. HeadIsNewest(s)' /\ SeenIsServed(s)'
  BY <1>1, <1>2, <1>4, <1>5 DEF SInv, ProgressOK, HeadIsNewest, SeenIsServed, Late, Content
<1>7. DoneIsRecorded(s)'
  BY <1>2, <1>3, <1>4, <1>5 DEF DoneIsRecorded, LeftToLoad
<1>8. ProgressOK(s)'
  BY <1>1, <1>2, <1>4, <1>5, <1>6, <1>7 DEF SInv, ProgressOK, TargetOK
<1>9. LedgerOK'
  BY <1>5 DEF LedgerOK, SInv
<1> QED BY <1>1, <1>5, <1>8, <1>9, SameEditions, StepBy

LEMMA PublishSettles ==
    ASSUME SInv, IInv', NEW s \in Syncs, Publish(s)
    PROVE  SInv'
<1>0. sync[s] \in Knowledge /\ sync[s].pc = "publish" /\ sync \in [Syncs -> Knowledge]
      /\ UNCHANGED <<origin, call, votes, records, lock, ledger>>
  BY TypedRegistry DEF SInv, IInv, Publish, world, warehouse
<1>1. CASE sync[s].mode = "download_only"
  <2> DEFINE new == [sync[s] EXCEPT !.pc = "finish"]
  <2>1. Update(s, new) /\ UNCHANGED registry /\ sync'[s] = new
    BY <1>0, <1>1 DEF Publish, Update
  <2>2. /\ new.pc = "finish" /\ new.head = sync[s].head /\ new.seen = sync[s].seen
        /\ new.failed = sync[s].failed /\ new.mode = sync[s].mode
    BY <1>0 DEF Knowledge
  <2> HIDE DEF new
  <2>3. UNCHANGED <<rows, stamps>> /\ Served(s)' = Served(s) /\ UsableRolls(s)' = UsableRolls(s)
    BY <2>1, <2>2 DEF registry, UsableRolls, Served
  <2>4. ProgressOK(s)'
    BY <1>0, <1>1, <2>1, <2>2, <2>3
       DEF SInv, ProgressOK, HeadIsNewest, SeenIsServed, DoneIsRecorded, TargetOK, Late, Content
  <2>5. LedgerOK'
    BY <1>0 DEF LedgerOK, SInv
  <2> QED BY <1>0, <2>1, <2>3, <2>4, <2>5, SameEditions, StepBy
<1>2. CASE sync[s].mode # "download_only"
  <2> DEFINE new == [sync[s] EXCEPT !.known = people,
                        !.pc = IF sync[s].todo = {} THEN "record" ELSE "load"]
  <2>1. Update(s, new) /\ MarkLoaded(s, UsableRolls(s) \ sync[s].todo) /\ sync'[s] = new
    BY <1>0, <1>2 DEF Publish, Update
  <2>2. /\ new.pc \in {"load", "record"} /\ new.head = sync[s].head /\ new.seen = sync[s].seen
        /\ new.failed = sync[s].failed /\ new.mode = sync[s].mode /\ new.todo = sync[s].todo
        /\ new.flawed = sync[s].flawed
    BY <1>0 DEF Knowledge
  <2> HIDE DEF new
  <2>3. Served(s)' = Served(s) /\ UsableRolls(s)' = UsableRolls(s)
    BY <2>1, <2>2 DEF UsableRolls, Served
  <2>4. RegistryOK' /\ sync[s].pc \in Late
    BY <1>0, TypedRegistry DEF IInv, TypeOK, RegistryOK, Late
  <2>5. /\ \A r \in Rolls : EditionsOK(r)'
        /\ \A r \in Served(s) : \A i \in DOMAIN rows'[r] : stamps'[r][i] <= sync[s].head[r]
    BY <1>0, <2>1, <2>4, MarkEditions
  <2>6. Grows
    <3>1. UsableRolls(s) \ sync[s].todo \in SUBSET Rolls
      BY DEF UsableRolls, Served
    <3>2. \A r \in UsableRolls(s) \ sync[s].todo : sync[s].seen[r].version # 0
      BY <2>4 DEF SInv, ProgressOK, SeenIsServed
    <3> QED BY <2>1, <3>1, <3>2, MarkStep DEF SInv
  <2>7. HeadIsNewest(s)'
    BY <2>1, <2>2, <2>3, <2>5 DEF HeadIsNewest
  <2>8. SeenIsServed(s)'
    <3> SUFFICES ASSUME NEW r \in UsableRolls(s)
                 PROVE  LET v == sync[s].seen[r].version
                        IN  v # 0 /\ \E e \in sync[s].head[r]..origin[r] :
                                        rows'[r][v].checksum = Bytes[r][e]
      BY <1>0, <2>1, <2>2, <2>3 DEF SeenIsServed, Content
    <3>1. r \in Rolls
      BY DEF UsableRolls, Served
    <3>2. sync[s].seen[r].version # 0 /\ sync[s].seen[r].version \in UsableVersions(rows[r])
      BY <2>4, <3>1 DEF SInv, IInv, SyncOK, ProgressOK, SeenIsServed
    <3>3. rows'[r][sync[s].seen[r].version].checksum = rows[r][sync[s].seen[r].version].checksum
      BY <2>6, <3>1, <3>2 DEF Grows
    <3> QED BY <2>4, <3>2, <3>3 DEF SInv, ProgressOK, SeenIsServed, Content
  <2>9. DoneIsRecorded(s)' /\ TargetOK(s)'
    BY <1>0, <1>2, <2>1, <2>2, <2>3 DEF SInv, ProgressOK, DoneIsRecorded, TargetOK
  <2>10. LedgerOK'
    BY <1>0 DEF LedgerOK, SInv
  <2> QED BY <1>0, <2>1, <2>5, <2>7, <2>8, <2>9, <2>10, StepBy DEF ProgressOK
<1> QED BY <1>1, <1>2

(* What a batch saves without a flaw has nobody left unresolved.           *)
LEMMA LoadRecords ==
    ASSUME SInv, IInv', NEW s \in Syncs, Load(s)
    PROVE  SInv'
<1> DEFINE ver(r) == sync[s].seen[r].version
           saved == {r \in Batch(s) : Content(r, ver(r)) \notin Malformed}
           flawed == \/ sync[s].flawed \/ saved # Batch(s)
                     \/ \E r \in saved : \/ Content(r, ver(r)) \in Disputed
                                         \/ ~(Entries[Content(r, ver(r))] \subseteq sync[s].known)
           new == [sync[s] EXCEPT !.pc = "record", !.todo = sync[s].todo \ Batch(s), !.flawed = flawed]
<1>0. sync[s] \in Knowledge /\ sync[s].pc = "load" /\ SyncOK(s) /\ sync \in [Syncs -> Knowledge]
      /\ RegistryOK'
  BY TypedRegistry DEF SInv, IInv, Load, TypeOK, RegistryOK
<1>1. /\ records' = [r \in Rolls |-> IF r \in saved THEN SavedRecords(s, r, ver(r)) ELSE records[r]]
      /\ MarkLoaded(s, saved)
      /\ Update(s, new)
      /\ UNCHANGED <<world, lock, ledger>>
  BY DEF Load
<1>2. saved \subseteq UsableRolls(s) /\ UsableRolls(s) \subseteq Rolls /\ saved \subseteq Batch(s)
  BY <1>0 DEF Batch, SyncOK, Late, UsableRolls, Served
<1>3. sync'[s] = new
  BY <1>0, <1>1 DEF Update
<1>4. /\ new.pc = "record" /\ new.head = sync[s].head /\ new.seen = sync[s].seen
      /\ new.failed = sync[s].failed /\ new.mode = sync[s].mode
      /\ new.todo = sync[s].todo \ Batch(s) /\ new.flawed = flawed
  BY <1>0 DEF Knowledge
<1>5. ~flawed => /\ ~sync[s].flawed /\ saved = Batch(s)
                 /\ \A r \in saved : Entries[Content(r, ver(r))] \subseteq sync[s].known
  OBVIOUS
<1> HIDE DEF new, saved, flawed
<1>6. Served(s)' = Served(s) /\ UsableRolls(s)' = UsableRolls(s)
  BY <1>3, <1>4 DEF UsableRolls, Served
<1>7. sync[s].pc \in Late /\ UNCHANGED origin
  BY <1>0, <1>1 DEF Late, world
<1>8. /\ \A r \in Rolls : EditionsOK(r)'
      /\ \A r \in Served(s) : \A i \in DOMAIN rows'[r] : stamps'[r][i] <= sync[s].head[r]
  BY <1>0, <1>1, <1>2, <1>7, MarkEditions
<1>9. Grows
  <2>1. \A r \in saved : sync[s].seen[r].version # 0
    BY <1>2, <1>7 DEF SInv, ProgressOK, SeenIsServed
  <2> QED BY <1>1, <1>2, <2>1, MarkStep DEF SInv
<1>10. HeadIsNewest(s)'
  BY <1>3, <1>4, <1>6, <1>8 DEF HeadIsNewest
<1>11. SeenIsServed(s)'
  <2> SUFFICES ASSUME NEW r \in UsableRolls(s)
               PROVE  LET v == sync[s].seen[r].version
                      IN  v # 0 /\ \E e \in sync[s].head[r]..origin[r] :
                                      rows'[r][v].checksum = Bytes[r][e]
    BY <1>3, <1>4, <1>6, <1>7 DEF SeenIsServed, Content
  <2>1. r \in Rolls
    BY <1>2
  <2>2. sync[s].seen[r].version # 0 /\ sync[s].seen[r].version \in UsableVersions(rows[r])
    BY <1>0, <1>7, <2>1 DEF SInv, SyncOK, ProgressOK, SeenIsServed
  <2>3. rows'[r][sync[s].seen[r].version].checksum = rows[r][sync[s].seen[r].version].checksum
    BY <1>9, <2>1, <2>2 DEF Grows
  <2> QED BY <1>7, <2>2, <2>3 DEF SInv, ProgressOK, SeenIsServed, Content
<1>12. DoneIsRecorded(s)'
  <2> SUFFICES ASSUME ~flawed, sync[s].mode # "download_only",
                      NEW r \in UsableRolls(s), r \notin sync[s].todo \ Batch(s)
               PROVE  ver(r) \in DOMAIN records'[r] /\ records'[r][ver(r)] = {}
    BY <1>3, <1>4, <1>6 DEF DoneIsRecorded
  <2>0. r \in Rolls
    BY <1>2
  <2>1. CASE r \in saved
    <3>1. records'[r] = SavedRecords(s, r, ver(r))
      BY <1>1, <2>0, <2>1
    <3>2. Entries[Content(r, ver(r))] \ sync[s].known = {}
      BY <1>5, <2>1
    <3> HIDE DEF ver
    <3>3. ver(r) \in DOMAIN SavedRecords(s, r, ver(r))
          /\ SavedRecords(s, r, ver(r))[ver(r)] = Entries[Content(r, ver(r))] \ sync[s].known
      BY DEF SavedRecords
    <3> QED BY <3>1, <3>2, <3>3
  <2>2. CASE r \notin saved
    <3>1. records'[r] = records[r]
      BY <1>1, <2>0, <2>2
    <3>2. r \notin sync[s].todo
      BY <1>5, <2>2
    <3> QED BY <1>0, <1>5, <3>1, <3>2 DEF SInv, ProgressOK, DoneIsRecorded
  <2> QED BY <2>1, <2>2
<1>13. TargetOK(s)'
  BY <1>0, <1>1, <1>3, <1>4 DEF SInv, ProgressOK, TargetOK
<1>14. LedgerOK'
  BY <1>1 DEF LedgerOK, SInv
<1> QED BY <1>0, <1>1, <1>8, <1>10, <1>11, <1>12, <1>13, <1>14, StepBy DEF ProgressOK

LEMMA RecordJudges ==
    ASSUME SInv, IInv', NEW s \in Syncs, Record(s)
    PROVE  SInv'
<1> DEFINE new == [sync[s] EXCEPT !.pc = IF sync[s].todo = {} THEN "finish" ELSE "load"]
<1>0. sync[s] \in Knowledge /\ sync[s].pc = "record" /\ sync \in [Syncs -> Knowledge]
      /\ UNCHANGED <<origin, rows, stamps, records, lock>>
  BY TypedRegistry DEF SInv, IInv, Record, world, registry, warehouse
<1>1. Update(s, new) /\ sync'[s] = new
  BY <1>0 DEF Record, Update
<1>2. /\ new.pc = IF sync[s].todo = {} THEN "finish" ELSE "load"
      /\ new.head = sync[s].head /\ new.seen = sync[s].seen /\ new.listed = sync[s].listed
      /\ new.failed = sync[s].failed /\ new.mode = sync[s].mode
      /\ new.todo = sync[s].todo /\ new.flawed = sync[s].flawed
  BY <1>0 DEF Knowledge
<1> HIDE DEF new
<1>3. /\ ledger'.by = s /\ ledger'.run = "running"
      /\ ledger'.target = IF Problems(s) THEN "partial" ELSE "succeeded"
  <2>1. ledger.by = s /\ ledger.run = "running"
    BY <1>0 DEF SInv, ProgressOK, TargetOK
  <2>2. ledger' = [ledger EXCEPT !.target = IF Problems(s) THEN "partial" ELSE "succeeded"]
    BY <2>1 DEF Record
  <2>3. ledger \in [by : Syncs \cup {Nobody},
                   run : {"none", "running", "partial", "succeeded", "failed"},
                   target : {"none", "partial", "succeeded"}]
    BY DEF SInv, IInv, TypeOK
  <2> QED BY <2>1, <2>2, <2>3
<1>4. Served(s)' = Served(s) /\ UsableRolls(s)' = UsableRolls(s) /\ Unlisted(s)' = Unlisted(s)
  BY <1>1, <1>2 DEF UsableRolls, Served, Unlisted
<1>5. HeadIsNewest(s)' /\ SeenIsServed(s)' /\ DoneIsRecorded(s)'
  BY <1>0, <1>1, <1>2, <1>4
     DEF SInv, ProgressOK, HeadIsNewest, SeenIsServed, DoneIsRecorded, Late, Content
<1>6. TargetOK(s)'
  <2>1. sync[s].mode # "download_only"
    BY <1>0 DEF SInv, ProgressOK, TargetOK
  <2> QED BY <1>1, <1>2, <1>3, <1>4, <2>1 DEF TargetOK, Problems
<1>7. LedgerOK'
  BY <1>3 DEF LedgerOK
<1> QED BY <1>0, <1>1, <1>5, <1>6, <1>7, SameEditions, StepBy DEF ProgressOK

LEMMA EndCloses ==
    ASSUME SInv, IInv', NEW s \in Syncs, Checkpoint(s) \/ Stop(s)
    PROVE  SInv'
<1>0. sync[s] \in Knowledge /\ sync \in [Syncs -> Knowledge]
  BY TypedRegistry DEF SInv, IInv
<1>1. PICK status \in {"partial", "succeeded", "failed", "running"} :
         /\ Close(s, status)
         /\ status = "succeeded" =>
              sync[s].pc = "finish" /\ ~(sync[s].flawed \/ sync[s].failed # {} \/ Unlisted(s))
  BY DEF Checkpoint, Stop
<1>2. Update(s, Quiet) /\ UNCHANGED <<world, registry, warehouse>> /\ sync'[s] = Quiet
      /\ sync[s].pc # "idle"
  BY <1>0, <1>1 DEF Close, Update, Checkpoint, Stop
<1>3. ProgressOK(s)'
  BY <1>2 DEF ProgressOK, HeadIsNewest, SeenIsServed, DoneIsRecorded, TargetOK, Late, Quiet
<1>4. LedgerOK'
  <2>1. ledger.by = s /\ ledger.run = "running"
    BY <1>2 DEF SInv, ProgressOK, TargetOK
  <2>2. ledger' = [ledger EXCEPT !.run = status]
    BY <1>1, <2>1 DEF Close
  <2>3. ledger'.run = status /\ ledger'.target = ledger.target
    BY <2>2 DEF SInv, IInv, TypeOK
  <2> QED BY <1>1, <2>3 DEF LedgerOK, SInv, ProgressOK, TargetOK
<1> QED BY <1>2, <1>3, <1>4, SameEditions, StepBy DEF world, registry

LEMMA WorldMoves ==
    ASSUME SInv, IInv', (\E r \in Rolls : Refresh(r)) \/ (\E m \in Members : PersonLoaded(m))
    PROVE  SInv'
<1>1. UNCHANGED <<rows, stamps, call, votes, records, lock, sync, ledger>>
  BY DEF Refresh, PersonLoaded, registry, warehouse
<1>2. origin' \in [Rolls -> EditionOrNone] /\ origin \in [Rolls -> EditionOrNone]
      /\ EditionOrNone \subseteq Nat
  <2>1. TypeOK /\ TypeOK'
    BY DEF SInv, IInv
  <2>2. EditionOrNone \subseteq Nat
    BY RollAssumption DEF EditionOrNone
  <2> QED BY <2>1, <2>2 DEF TypeOK
<1>3. \A r \in Rolls : origin[r] \in Nat /\ origin'[r] \in Nat /\ origin[r] <= origin'[r]
  <2>0. \A r \in Rolls : origin[r] \in Nat /\ origin'[r] \in Nat
    BY <1>2
  <2>1. ASSUME NEW r \in Rolls, Refresh(r) PROVE \A q \in Rolls : origin[q] <= origin'[q]
    <3>1. \A q \in Rolls : origin'[q] = IF q = r THEN origin[q] + 1 ELSE origin[q]
      BY <1>2, <2>1 DEF Refresh
    <3> QED BY <2>0, <3>1
  <2>2. CASE UNCHANGED origin
    BY <2>0, <2>2
  <2>3. UNCHANGED origin \/ \E r \in Rolls : Refresh(r)
    BY DEF PersonLoaded
  <2> QED BY <2>0, <2>1, <2>2, <2>3
<1>4. ASSUME NEW r \in Rolls PROVE EditionsOK(r)'
  <2>1. \A i \in DOMAIN rows[r] : stamps[r][i] \in Nat
    <3>1. stamps[r] \in Seq(EditionOrNone) /\ DOMAIN rows[r] = 1..Len(stamps[r])
      BY TypedRegistry DEF SInv, IInv, RegistryOK
    <3>2. \A i \in DOMAIN rows[r] : stamps[r][i] \in EditionOrNone
      BY <3>1
    <3> QED BY <1>2, <3>2
  <2>2. EditionsOK(r)
    BY DEF SInv
  <2> HIDE DEF SInv
  <2>3. \A i \in DOMAIN rows[r] : stamps[r][i] <= origin'[r]
    BY <1>3, <2>1, <2>2 DEF EditionsOK
  <2>4. \A i \in UsableVersions(rows[r]) :
           \E e \in stamps[r][i]..origin'[r] : rows[r][i].checksum = Bytes[r][e]
    <3> SUFFICES ASSUME NEW i \in UsableVersions(rows[r])
                 PROVE  \E e \in stamps[r][i]..origin'[r] : rows[r][i].checksum = Bytes[r][e]
      OBVIOUS
    <3>1. PICK e \in stamps[r][i]..origin[r] : rows[r][i].checksum = Bytes[r][e]
      BY <2>2 DEF EditionsOK, Content
    <3>2. stamps[r][i] \in Nat
      BY <2>1 DEF UsableVersions, SInv, IInv, TypeOK
    <3> QED BY <1>3, <3>1, <3>2
  <2> QED BY <1>1, <2>2, <2>3, <2>4 DEF EditionsOK, Content
<1>5. ASSUME NEW s \in Syncs PROVE ProgressOK(s)'
  <2>1. ProgressOK(s) /\ sync[s] \in Knowledge
    BY TypedRegistry DEF SInv, IInv
  <2>2. SeenIsServed(s)'
    <3> SUFFICES ASSUME sync[s].pc \in Late \cup {"finish"}, NEW r \in UsableRolls(s)
                 PROVE  /\ sync[s].seen[r].version # 0
                        /\ \E e \in sync[s].head[r]..origin'[r] :
                              rows[r][sync[s].seen[r].version].checksum = Bytes[r][e]
      BY <1>1 DEF SeenIsServed, UsableRolls, Served, Content
    <3>1. r \in Rolls /\ sync[s].head[r] \in Nat
      BY <1>2, <2>1 DEF UsableRolls, Served, Knowledge
    <3>2. sync[s].seen[r].version # 0
      BY <2>1 DEF ProgressOK, SeenIsServed
    <3>3. PICK e \in sync[s].head[r]..origin[r] :
             rows[r][sync[s].seen[r].version].checksum = Bytes[r][e]
      BY <2>1 DEF ProgressOK, SeenIsServed, Content
    <3>4. e \in sync[s].head[r]..origin'[r]
      BY <1>3, <3>1, <3>3
    <3> QED BY <3>2, <3>3, <3>4
  <2> QED BY <1>1, <2>1, <2>2
          DEF ProgressOK, HeadIsNewest, DoneIsRecorded, TargetOK, UsableRolls, Served, Unlisted
<1> QED BY <1>1, <1>4, <1>5 DEF SInv, LedgerOK

LEMMA SuccessStep ==
    ASSUME SInv, [Next]_vars
    PROVE  SInv'
<1>0. IInv'
  BY StepInvariant DEF SInv
<1>1. CASE UNCHANGED vars
  <2>1. UNCHANGED <<origin, rows, stamps, records, sync, ledger>>
    BY <1>1 DEF vars, world, registry, warehouse
  <2>2. \A s \in Syncs : ProgressOK(s)'
    BY <2>1 DEF SInv, ProgressOK, HeadIsNewest, SeenIsServed, DoneIsRecorded, TargetOK,
                UsableRolls, Served, Unlisted, Content
  <2> QED BY <1>0, <2>1, <2>2, SameEditions DEF SInv, LedgerOK
<1>2. CASE Next
  BY <1>0, <1>2, DiscoverStarts, SelectHeads, FetchDates, EvidenceServes, NormalizeSorts,
     PublishSettles, LoadRecords, RecordJudges, EndCloses, WorldMoves DEF Next, Work
<1> QED BY <1>1, <1>2

(* A Congress whose run and target say "succeeded" has every file the      *)
(* origin served, in an edition no older than the HEAD saw, loaded whole   *)
(* and with nobody unresolved; and no run succeeds with a partial target.  *)
THEOREM SuccessIsComplete == Spec => []SucceededIsComplete
<1>1. Init => SInv
  <2> SUFFICES ASSUME Init PROVE SInv
    OBVIOUS
  <2>1. IInv
    BY InitInvariant
  <2>2. \A r \in Rolls : EditionsOK(r)
    BY DEF Init, EditionsOK, UsableVersions
  <2>3. \A s \in Syncs : ProgressOK(s)
    BY DEF Init, ProgressOK, HeadIsNewest, SeenIsServed, DoneIsRecorded, TargetOK, Late, Quiet
  <2>4. LedgerOK
    BY DEF Init, LedgerOK
  <2> QED BY <2>1, <2>2, <2>3, <2>4 DEF SInv
<1>2. SInv => SucceededIsComplete
  <2> SUFFICES ASSUME SInv PROVE SucceededIsComplete
    OBVIOUS
  <2>1. ledger.run = "succeeded" => ledger.target # "partial"
    BY DEF SInv, LedgerOK
  <2>2. ASSUME NEW s \in Syncs, ledger.by = s, ledger.target = "succeeded", sync[s].pc = "finish"
        PROVE  /\ ~Unlisted(s)
               /\ sync[s].failed = {}
               /\ \A r \in Served(s) :
                     /\ call[r] \in DOMAIN records[r] /\ records[r][call[r]] = {}
                     /\ \E e \in sync[s].head[r]..origin[r] : Content(r, call[r]) = Bytes[r][e]
    <3>1. /\ ~sync[s].flawed /\ sync[s].failed = {} /\ ~Unlisted(s)
          /\ sync[s].todo = {} /\ sync[s].mode # "download_only"
      BY <2>2 DEF SInv, ProgressOK, TargetOK
    <3>2. ASSUME NEW r \in Served(s)
          PROVE  /\ call[r] \in DOMAIN records[r] /\ records[r][call[r]] = {}
                 /\ \E e \in sync[s].head[r]..origin[r] : Content(r, call[r]) = Bytes[r][e]
      <4> DEFINE v == sync[s].seen[r].version
      <4>1. r \in Rolls /\ r \in UsableRolls(s) \ sync[s].todo
        BY <3>1 DEF UsableRolls, Served
      <4>2. v \in DOMAIN records[r] /\ records[r][v] = {}
        BY <2>2, <3>1, <4>1 DEF SInv, ProgressOK, DoneIsRecorded
      <4>3. \E e \in sync[s].head[r]..origin[r] : Content(r, v) = Bytes[r][e]
        BY <2>2, <4>1 DEF SInv, ProgressOK, SeenIsServed
      <4> HIDE DEF v
      <4>4. call[r] = v
        BY <4>1, <4>2 DEF SInv, IInv, StoreOK
      <4> QED BY <4>2, <4>3, <4>4
    <3> QED BY <3>1, <3>2
  <2> QED BY <2>1, <2>2 DEF SucceededIsComplete
<1> QED BY <1>1, <1>2, SuccessStep, PTL DEF Spec
=============================================================================
