------------------------ MODULE BillStatusSyncProofs ------------------------
(***************************************************************************)
(* Theorems about BillStatusSync, for any zips, bills, publications,       *)
(* manifests, old archives, batch size, failures and kills, with           *)
(* load-billstatus writing at any moment.                                  *)
(***************************************************************************)
EXTENDS BillStatusSync, ArtifactRegistryProofs, FiniteSetTheorems

N == Cardinality(Zips)

(* Versions whose bytes are there, and attempts that failed.               *)
FileRow == [status : Usable, checksum : Checksums, virtual : {FALSE}, lake : BOOLEAN,
            stamp : Nat \cup {None}, verdict : Verdicts]
FailedRow == [status : {"failed"}, checksum : {None}, virtual : {FALSE}, lake : BOOLEAN,
              stamp : Nat \cup {None}, verdict : {None}]
ZRow == FileRow \cup FailedRow

TablesOK ==
    /\ origin \in [Zips -> Nat] /\ listed \in [Zips -> Nat]
    /\ rows \in [Zips -> Seq(ZRow)]
    /\ \A z \in Zips, b \in Bills : children[z][b] \subseteq UsableVersions(rows[z])

Chosen == {"stage", "normalize", "publish", "committed", "zipdone", "checkpoint"}
Loading == {"publish", "committed", "zipdone"}

(* What the sync and the older loader are bound to exists.                 *)
ItemOK(z) == item[z].art \in UsableVersions(rows[z]) /\ item[z].row \in FileRow
LegacyOK == legacy # None => legacy.art \in UsableVersions(rows[legacy.zip])

(* Unless the older loader wrote the bill, it has at most one version, and *)
(* none newer than the one being loaded.                                   *)
Single ==
    \A z \in Zips, b \in Bills : ~beside[z][b] =>
        \A v, w \in children[z][b] : v = w
NoneNewer ==
    \A z \in Zips, b \in Bills : ~beside[z][b] =>
        \A v \in children[z][b] : v <= item[z].art

(* What is not left to load has its record, or the zip is known malformed. *)
LoadedOK(z) ==
    \A b \in Holds[Content(z)] \ item[z].todo :
        item[z].art \in record[z][b] \/ z \in malformed

RunOK ==
    /\ pc = "select" => at = 1
    /\ pc \in {"select", "extract"} => \A z \in Zips : item[z].head # 0
    /\ pc = "extract" => \A z \in Zips : z < at \/ item[z].reuse => UsableVersions(rows[z]) # {}
    /\ pc = "evidence" => \A z \in Zips : UsableVersions(rows[z]) # {}
    /\ pc \in {"evidence", "stage", "normalize"} => at = 1
    /\ pc \in Chosen => NoneNewer /\ \A z \in Zips : ItemOK(z)
    /\ pc \in Loading =>
          /\ at \in Zips /\ \A z \in Zips : z < at => item[z].todo = {}
          /\ \A z \in Zips : LoadedOK(z)
    /\ pc = "zipdone" => item[at].todo = {}
    /\ pc = "checkpoint" /\ ~only => \A z \in Zips : item[z].todo = {} /\ LoadedOK(z)
    /\ target = "succeeded" => pc \in {"checkpoint", "idle"}
    /\ run = "succeeded" => pc = "idle"

BInv == TypeOK /\ TablesOK /\ LegacyOK /\ Single /\ RunOK /\ SucceededIsLoaded

LEMMA Numbers ==
    /\ N \in Nat \ {0} /\ Zips = 1..N /\ Zips \subseteq Nat
    /\ Zips \cup {N + 1} \subseteq Nat
    /\ 1 \in Zips /\ 1 \in Zips \cup {Cardinality(Zips) + 1}
    /\ NoChecksum \in Nat \cup {None} /\ NoChecksum \in Verdicts
<1>1. N \in Nat /\ Zips = 1..N
  BY ZipAssumption, FS_CardinalityType DEF N
<1>2. N # 0
  BY <1>1, ZipAssumption
<1> QED BY <1>1, <1>2, ZipAssumption DEF Verdicts, N

LEMMA RowsAreFiles ==
    /\ FilesOrFailures(ZRow) /\ ZRow \subseteq ZipRow
    /\ \A row \in FileRow : row \in ZRow /\ IsFile(row)
    /\ \A row \in ZRow : IsFile(row) => row \in FileRow
<1>1. \A row \in FileRow : row \in ZRow /\ IsFile(row)
  BY DEF FileRow, ZRow, IsFile
<1>2. \A row \in FailedRow : IsFailure(row) /\ ~IsFile(row)
  BY ZipAssumption DEF FailedRow, IsFailure, IsFile, Usable
<1>3. ZRow \subseteq ZipRow
  <2>1. FileRow \subseteq ZipRow
    BY DEF FileRow, ZipRow, Status
  <2>2. FailedRow \subseteq ZipRow
    BY DEF FailedRow, ZipRow, Status, Provisional, Verdicts
  <2> QED BY <2>1, <2>2 DEF ZRow
<1> QED BY <1>1, <1>2, <1>3 DEF FilesOrFailures, ZRow

(* What a registration puts in the place of a row is a row.                *)
LEMMA RowsMerge ==
    ASSUME NEW old \in ZRow, NEW new \in ZRow
    PROVE  /\ IsFailure(old) =>
                 Merged(old, new) \in ZRow /\ Follows(Merged(old, new), old, new)
           /\ IsFile(old) /\ IsFile(new) /\ new.checksum = old.checksum =>
                 Retried(old, new) \in ZRow /\ Follows(Retried(old, new), old, new)
<1>0. NoChecksum = None /\ None \notin Checksums /\ None \in Verdicts
  BY ZipAssumption DEF Verdicts
<1>1. /\ old.stamp \in Nat \cup {None} /\ old.verdict \in Verdicts /\ old.lake \in BOOLEAN
      /\ new.stamp \in Nat \cup {None} /\ new.verdict \in Verdicts
  BY <1>0 DEF ZRow, FileRow, FailedRow
<1> DEFINE stamp == IF new.stamp = NoChecksum THEN old.stamp ELSE new.stamp
           verdict == IF new.verdict = NoChecksum THEN old.verdict ELSE new.verdict
<1>2. stamp \in Nat \cup {None} /\ verdict \in Verdicts
      /\ (verdict = old.verdict \/ verdict = new.verdict)
      /\ (new.verdict # NoChecksum => verdict = new.verdict)
  BY <1>1
<1>3. Merged(old, new) = [new EXCEPT !.stamp = stamp, !.verdict = verdict]
  BY DEF Merged
<1> HIDE DEF stamp, verdict
<1>4. CASE new \in FileRow
  <2>1. Merged(old, new) \in FileRow /\ Retried(old, new) \in FileRow
    BY <1>1, <1>2, <1>3, <1>4 DEF FileRow, Retried
  <2>2. Follows(Merged(old, new), old, new) /\ Follows(Retried(old, new), old, new)
    BY <1>1, <1>2, <1>3, <1>4 DEF FileRow, Retried, Follows
  <2> QED BY <2>1, <2>2 DEF ZRow
<1>5. CASE new \in FailedRow
  <2>1. ~IsFile(new)
    BY <1>0, <1>5 DEF FailedRow, IsFile
  <2>2. ASSUME IsFailure(old)
        PROVE  Merged(old, new) \in FailedRow /\ Follows(Merged(old, new), old, new)
    <3>1. verdict = None
      BY <1>0, <1>2, <1>5, <2>2 DEF FailedRow, IsFailure
    <3> QED BY <1>1, <1>2, <1>3, <1>5, <3>1 DEF FailedRow, Follows
  <2> QED BY <2>1, <2>2 DEF ZRow
<1> QED BY <1>4, <1>5 DEF ZRow

LEMMA MinIsLeast ==
    ASSUME NEW S \in SUBSET Nat, S # {}
    PROVE  Min(S) \in S /\ Min(S) \in Nat /\ \A k \in S : Min(S) <= k
<1>1. \E x \in S : \A y \in S : x <= y
  BY LeastExists
<1> QED BY <1>1 DEF Min

(* The rows the model registers.                                           *)
LEMMA RowsRegistered ==
    /\ \A status \in Usable, c \in Checksums, lake \in BOOLEAN, stamp \in Nat \cup {None},
          verdict \in Verdicts : GovInfoRow(status, c, lake, stamp, verdict) \in FileRow
    /\ \A stamp \in Nat \cup {None} :
          GovInfoRow("failed", NoChecksum, FALSE, stamp, None) \in FailedRow
    /\ FileRow \subseteq ZRow /\ FailedRow \subseteq ZRow
BY ZipAssumption DEF GovInfoRow, FileRow, FailedRow, ZRow

(* A registration only adds versions, so whatever exists still does.       *)
RowsGrow ==
    /\ rows' \in [Zips -> Seq(ZRow)] /\ rows' \in [Zips -> Seq(ZipRow)]
    /\ \A y \in Zips : UsableVersions(rows[y]) \subseteq UsableVersions(rows'[y])
    /\ \A y \in Zips, b \in Bills :
          /\ children'[y][b] \subseteq UsableVersions(rows'[y])
          /\ children'[y][b] \subseteq 1..Len(rows'[y])
          /\ record'[y][b] \subseteq children'[y][b]
          /\ ident'[y][b] \in 0..Len(rows'[y])
    /\ \A y \in Zips : ItemOK(y) => ItemOK(y)'

LEMMA RowsSame ==
    ASSUME BInv, UNCHANGED <<rows, children, record, ident, item>>
    PROVE  RowsGrow
<1>1. /\ rows \in [Zips -> Seq(ZRow)] /\ rows \in [Zips -> Seq(ZipRow)]
      /\ \A y \in Zips, b \in Bills :
            /\ children[y][b] \subseteq UsableVersions(rows[y])
            /\ children[y][b] \subseteq 1..Len(rows[y])
            /\ record[y][b] \subseteq children[y][b]
            /\ ident[y][b] \in 0..Len(rows[y])
  BY DEF BInv, TablesOK, TypeOK
<1>2. \A y \in Zips : ItemOK(y) => ItemOK(y)'
  BY DEF ItemOK
<1> QED BY <1>1, <1>2 DEF RowsGrow

LEMMA FileStep ==
    ASSUME BInv, NEW z \in Zips, NEW new \in ZRow,
           UNCHANGED <<children, record, ident, item>>,
           rows' = [rows EXCEPT ![z] = Filed(@, new)]
    PROVE  /\ RowsGrow
           /\ new \in FileRow => Len(rows'[z]) \in UsableVersions(rows'[z])
<1> DEFINE rs == rows[z]
<1>1. rs \in Seq(ZRow) /\ rows \in [Zips -> Seq(ZRow)]
  BY DEF BInv, TablesOK
<1> PICK fs : fs = Filed(rs, new)
  OBVIOUS
<1>2. rows'[z] = fs /\ \A y \in Zips : y # z => rows'[y] = rows[y]
  BY <1>1
<1> HIDE DEF rs
<1>3. /\ FilesOrFailures(ZRow)
      /\ \A old \in ZRow :
            /\ IsFailure(old) =>
                  Merged(old, new) \in ZRow /\ Follows(Merged(old, new), old, new)
            /\ IsFile(old) /\ IsFile(new) /\ new.checksum = old.checksum =>
                  Retried(old, new) \in ZRow /\ Follows(Retried(old, new), old, new)
  BY RowsAreFiles, RowsMerge
<1>4. /\ fs \in Seq(ZRow) /\ Len(rs) \in Nat /\ Len(fs) \in Nat \ {0} /\ Len(rs) <= Len(fs)
      /\ UsableVersions(rs) \subseteq UsableVersions(fs)
      /\ IsFile(new) => Len(fs) \in UsableVersions(fs)
  BY <1>1, <1>3, FiledRows
<1>5. rows' \in [Zips -> Seq(ZRow)]
  BY <1>1, <1>2, <1>4
<1>6. rows' \in [Zips -> Seq(ZipRow)]
  <2>1. \A y \in Zips : rows'[y] \in Seq(ZipRow)
    BY <1>5, RowsAreFiles
  <2> QED BY <1>5, <2>1
<1>7. ASSUME NEW y \in Zips
      PROVE  /\ Len(rows[y]) \in Nat /\ Len(rows'[y]) \in Nat /\ Len(rows[y]) <= Len(rows'[y])
             /\ UsableVersions(rows[y]) \subseteq UsableVersions(rows'[y])
             /\ UsableVersions(rows'[y]) \subseteq 1..Len(rows'[y])
  <2>0. UsableVersions(rows'[y]) \subseteq 1..Len(rows'[y])
    BY DEF UsableVersions
  <2>1. CASE y = z
    BY <1>2, <1>4, <2>0, <2>1 DEF rs
  <2>2. CASE y # z
    <3>1. Len(rows[y]) \in Nat /\ rows'[y] = rows[y]
      BY <1>1, <1>2, <2>2
    <3> QED BY <2>0, <3>1
  <2> QED BY <2>1, <2>2
<1>8. ASSUME NEW y \in Zips, NEW b \in Bills
      PROVE  /\ children'[y][b] \subseteq UsableVersions(rows'[y])
             /\ children'[y][b] \subseteq 1..Len(rows'[y])
             /\ record'[y][b] \subseteq children'[y][b]
             /\ ident'[y][b] \in 0..Len(rows'[y])
  <2>1. /\ children[y][b] \subseteq UsableVersions(rows[y])
        /\ record[y][b] \subseteq children[y][b] /\ ident[y][b] \in 0..Len(rows[y])
    BY DEF BInv, TypeOK, TablesOK
  <2>2. ident[y][b] \in 0..Len(rows'[y])
    BY <1>7, <2>1
  <2> QED BY <1>7, <2>1, <2>2
<1>9. \A y \in Zips : ItemOK(y) => ItemOK(y)'
  BY <1>7 DEF ItemOK
<1>10. new \in FileRow => Len(rows'[z]) \in UsableVersions(rows'[z])
  BY <1>2, <1>4, RowsAreFiles
<1> QED BY <1>5, <1>6, <1>7, <1>8, <1>9, <1>10 DEF RowsGrow

(* Steps that leave the tables and the run alone.                          *)
LEMMA SameTables ==
    ASSUME BInv, UNCHANGED <<rows, children, beside, legacy>>,
           origin' \in [Zips -> Nat], listed' \in [Zips -> Nat]
    PROVE  TablesOK' /\ LegacyOK' /\ Single'
BY DEF BInv, TablesOK, LegacyOK, Single

LEMMA SameRun ==
    ASSUME BInv, UNCHANGED <<rows, children, record, beside, pc, only, item, at, malformed, run, target>>
    PROVE  RunOK' /\ SucceededIsLoaded'
<1>1. /\ NoneNewer => NoneNewer'
      /\ \A z \in Zips : (ItemOK(z) => ItemOK(z)') /\ (LoadedOK(z) => LoadedOK(z)')
  BY DEF NoneNewer, ItemOK, LoadedOK, Content
<1>2. RunOK'
  BY <1>1 DEF BInv, RunOK
<1>3. SucceededIsLoaded'
  BY DEF BInv, SucceededIsLoaded, AllLoaded, Content
<1> QED BY <1>2, <1>3

(* Steps of the sync that leave every table alone.                         *)
LEMMA TypeStays ==
    ASSUME BInv, UNCHANGED <<origin, listed, partial, tables, legacy>>,
           pc' \in Stages \cup {"idle"}, only' \in BOOLEAN, item' \in [Zips -> Item],
           at' \in Zips \cup {Cardinality(Zips) + 1}, malformed' \subseteq Zips,
           run' \in {"none", "running", "failed", "partial", "succeeded"},
           target' \in {"none", "partial", "succeeded"},
           faults' \in 0..MaxFaults, legacies' \in 0..MaxLegacy
    PROVE  TypeOK' /\ TablesOK' /\ LegacyOK' /\ Single'
<1>1. UNCHANGED <<rows, children, record, ident, beside>>
  BY DEF tables
<1>2. TypeOK'
  BY <1>1 DEF BInv, TypeOK
<1>3. TablesOK' /\ LegacyOK' /\ Single'
  BY <1>1, SameTables DEF BInv, TablesOK
<1> QED BY <1>2, <1>3

LEMMA WorldStep ==
    ASSUME BInv, NEW z \in Zips, Publish(z) \/ Relist(z)
    PROVE  BInv'
<1>1. UNCHANGED <<partial, tables, sync, legacy, counters>>
  BY DEF Publish, Relist
<1>2. UNCHANGED <<partial, rows, children, record, ident, beside, pc, only, item, at, malformed, run,
                  target, legacy, faults, legacies>>
  BY <1>1 DEF tables, sync, counters
<1>3. \A y \in Zips : Len(Published[y]) \in Nat /\ {origin[y], listed[y]} \subseteq 1..Len(Published[y])
  BY ContentAssumption DEF BInv, TypeOK
<1>4. origin \in [Zips -> Nat] /\ listed \in [Zips -> Nat]
  BY DEF BInv, TablesOK
<1>5. /\ origin' \in [Zips -> Nat] /\ listed' \in [Zips -> Nat]
      /\ \A y \in Zips : {origin'[y], listed'[y]} \subseteq 1..Len(Published[y])
  <2>1. CASE Publish(z)
    <3>1. /\ origin[z] < Len(Published[z]) /\ listed' = listed
          /\ origin' = [origin EXCEPT ![z] = origin[z] + 1]
      BY <2>1 DEF Publish
    <3>2. origin' \in [Zips -> Nat] /\ origin'[z] \in 1..Len(Published[z])
          /\ \A y \in Zips : y # z => origin'[y] = origin[y]
      BY <1>3, <1>4, <3>1
    <3> QED BY <1>3, <1>4, <3>1, <3>2
  <2>2. CASE Relist(z)
    <3>1. /\ listed[z] < Len(Published[z]) /\ origin' = origin
          /\ listed' = [listed EXCEPT ![z] = listed[z] + 1]
      BY <2>2 DEF Relist
    <3>2. listed' \in [Zips -> Nat] /\ listed'[z] \in 1..Len(Published[z])
          /\ \A y \in Zips : y # z => listed'[y] = listed[y]
      BY <1>3, <1>4, <3>1
    <3> QED BY <1>3, <1>4, <3>1, <3>2
  <2> QED BY <2>1, <2>2
<1>6. TypeOK'
  BY <1>2, <1>5 DEF BInv, TypeOK
<1> QED BY <1>2, <1>5, <1>6, SameTables, SameRun DEF BInv

LEMMA DiscoverStep ==
    ASSUME BInv, NEW downloadOnly \in BOOLEAN, Discover(downloadOnly)
    PROVE  BInv'
<1>1. /\ UNCHANGED <<origin, listed, partial, tables, legacy, counters>>
      /\ pc' = "select" /\ only' = downloadOnly /\ at' = 1 /\ malformed' = {}
      /\ run' = "running" /\ target' = "none"
      /\ item' = [z \in Zips |-> [Blank EXCEPT !.head = origin[z]]]
  BY DEF Discover
<1>2. item' \in [Zips -> Item]
  <2>1. Blank \in Item
    BY DEF Blank, Item, Verdicts
  <2>2. \A z \in Zips : [Blank EXCEPT !.head = origin[z]] \in Item
    BY <2>1 DEF Item, BInv, TablesOK
  <2> QED BY <1>1, <2>2
<1>3. faults' \in 0..MaxFaults /\ legacies' \in 0..MaxLegacy
  BY <1>1 DEF BInv, TypeOK, counters
<1>4. TypeOK' /\ TablesOK' /\ LegacyOK' /\ Single'
  BY <1>1, <1>2, <1>3, Numbers, TypeStays DEF Stages
<1>5. \A z \in Zips : item'[z].head # 0
  <2>1. \A z \in Zips : item'[z].head = origin[z]
    BY <1>1 DEF Blank
  <2>2. \A z \in Zips : origin[z] \in 1..Len(Published[z])
    BY DEF BInv, TypeOK
  <2> QED BY <2>1, <2>2
<1>6. RunOK' /\ SucceededIsLoaded'
  BY <1>1, <1>5 DEF RunOK, SucceededIsLoaded, Chosen, Loading
<1> QED BY <1>4, <1>6 DEF BInv

(* A stage that fails, or stops, leaves what was loaded as it was.         *)
LEMMA HaltStep ==
    ASSUME BInv, RowsGrow, partial' \in [Zips -> Part \cup {None}],
           UNCHANGED <<origin, listed, children, record, ident, beside, only, item, at,
                       malformed, target, legacy>>,
           pc' = "idle", run' \in {"none", "running", "failed", "partial", "succeeded"},
           run' = "succeeded" /\ run # "succeeded" => (~only => AllLoaded),
           faults' \in 0..MaxFaults, legacies' \in 0..MaxLegacy
    PROVE  BInv'
<1>1. TypeOK'
  BY DEF BInv, TypeOK, RowsGrow
<1>2. TablesOK' /\ Single'
  BY DEF BInv, TablesOK, Single, RowsGrow
<1>3. LegacyOK'
  <2>1. legacy # None => legacy.zip \in Zips
    BY DEF BInv, TypeOK, Load
  <2> QED BY <2>1 DEF BInv, LegacyOK, RowsGrow
<1>4. RunOK'
  BY DEF BInv, RunOK, Chosen, Loading
<1>5. SucceededIsLoaded'
  <2>1. AllLoaded' = AllLoaded
    BY DEF AllLoaded, Content
  <2> QED BY <2>1 DEF BInv, SucceededIsLoaded
<1> QED BY <1>1, <1>2, <1>3, <1>4, <1>5 DEF BInv

LEMMA StopStep ==
    ASSUME BInv, UNCHANGED <<origin, listed, partial, tables, only, item, at, malformed, target, legacy>>,
           pc' = "idle", run' \in {"none", "running", "failed", "partial", "succeeded"},
           run' = "succeeded" /\ run # "succeeded" => (~only => AllLoaded),
           faults' \in 0..MaxFaults, legacies' \in 0..MaxLegacy
    PROVE  BInv'
<1>1. UNCHANGED <<rows, children, record, ident, beside>>
  BY DEF tables
<1>2. partial' \in [Zips -> Part \cup {None}]
  BY DEF BInv, TypeOK
<1> QED BY <1>1, <1>2, RowsSame, HaltStep

(* Staging files, whole or not, hold bytes that were served.               *)
LEMMA Staged ==
    ASSUME BInv, NEW z \in Zips
    PROVE  /\ Resumable(z) \in Part \cup {None}
           /\ \A c \in Checksums : Joined(Resumable(z), c) \in Checksums
           /\ Served(z) \in Checksums /\ origin[z] \in Nat /\ item[z].head \in Nat
<1>1. partial[z] \in Part \cup {None} /\ origin[z] \in 1..Len(Published[z]) /\ item[z] \in Item
  BY DEF BInv, TypeOK
<1>2. Resumable(z) \in Part \cup {None}
  BY <1>1 DEF Resumable
<1>3. Published[z] \in Seq(Checksums) /\ Len(Published[z]) \in Nat
  BY ContentAssumption
<1>4. Served(z) \in Checksums /\ origin[z] \in Nat /\ item[z].head \in Nat
  BY <1>1, <1>3 DEF Served, Item
<1>5. ASSUME NEW c \in Checksums PROVE Joined(Resumable(z), c) \in Checksums
  <2>1. CASE Resumable(z) = None \/ Resumable(z).of = c
    BY <2>1 DEF Joined
  <2>2. CASE Resumable(z) # None /\ Resumable(z).of # c
    <3>1. Resumable(z).of \in Checksums
      BY <1>2, <2>2 DEF Part
    <3> QED BY <2>2, <3>1, ContentAssumption DEF Joined
  <2> QED BY <2>1, <2>2
<1> QED BY <1>2, <1>4, <1>5

LEMMA BreakOffType ==
    ASSUME BInv, NEW z \in Zips, BreakOff(z)
    PROVE  partial' \in [Zips -> Part \cup {None}]
<1>1. pc = "extract" /\ item[z].head # 0
  BY DEF BreakOff, InTransfer, BInv, RunOK
<1> PICK p \in LeftBehind(z) : partial' = [partial EXCEPT ![z] = p]
  BY DEF BreakOff
<1>2. CASE p \in {Resumable(z), None}
  BY <1>2, Staged DEF BInv, TypeOK
<1>3. CASE \E c \in {Published[z][v] : v \in item[z].head..origin[z]} :
             \E n \in (IF Resumable(z) = None THEN 0 ELSE Resumable(z).size) + 1..Size[c] :
                p = [of |-> Joined(Resumable(z), c), size |-> n, at |-> origin[z]]
  <2>1. PICK v \in item[z].head..origin[z] :
           \E n \in (IF Resumable(z) = None THEN 0 ELSE Resumable(z).size) + 1..Size[Published[z][v]] :
              p = [of |-> Joined(Resumable(z), Published[z][v]), size |-> n, at |-> origin[z]]
    BY <1>3
  <2> PICK n \in (IF Resumable(z) = None THEN 0 ELSE Resumable(z).size) + 1..Size[Published[z][v]] :
              p = [of |-> Joined(Resumable(z), Published[z][v]), size |-> n, at |-> origin[z]]
    BY <2>1
  <2>2. origin[z] \in 1..Len(Published[z]) /\ Len(Published[z]) \in Nat
        /\ Published[z] \in Seq(Checksums)
    BY ContentAssumption DEF BInv, TypeOK
  <2>3. v \in 1..Len(Published[z])
    BY <1>1, <2>1, <2>2, Staged
  <2>4. Published[z][v] \in Checksums
    BY <2>2, <2>3
  <2>5. (IF Resumable(z) = None THEN 0 ELSE Resumable(z).size) \in Nat
    BY Staged DEF Part
  <2>6. n \in Nat
    <3> DEFINE had == IF Resumable(z) = None THEN 0 ELSE Resumable(z).size
    <3>1. n \in had + 1..Size[Published[z][v]] /\ had \in Nat
      BY <2>1, <2>5
    <3>2. Size[Published[z][v]] \in Nat
      BY <2>4, ContentAssumption
    <3> HIDE DEF had
    <3> QED BY <3>1, <3>2
  <2>7. p \in Part
    BY <2>1, <2>4, <2>6, Staged DEF Part
  <2> QED BY <2>7 DEF BInv, TypeOK
<1> QED BY <1>2, <1>3 DEF LeftBehind

LEMMA EndStep ==
    ASSUME BInv, Checkpoint \/ Fail \/ Kill \/ RangeRefused \/ MemberCorrupt
    PROVE  BInv'
<1>1. /\ UNCHANGED <<origin, listed, children, record, ident, beside, only, item, at,
                     malformed, target, legacy>>
      /\ pc' = "idle"
  BY DEF Checkpoint, Fail, Kill, RangeRefused, MemberCorrupt, Close, tables
<1>2. run' \in {"none", "running", "failed", "partial", "succeeded"}
  BY DEF Checkpoint, Fail, Kill, RangeRefused, MemberCorrupt, Close, BInv, TypeOK
<1>3. faults' \in 0..MaxFaults /\ legacies' \in 0..MaxLegacy
  BY BoundAssumption DEF Checkpoint, Fail, Kill, RangeRefused, MemberCorrupt, BInv, TypeOK, counters
<1>4. ASSUME run' = "succeeded", run # "succeeded", ~only PROVE AllLoaded
  <2>1. pc = "checkpoint" /\ ~Incomplete
    BY <1>4 DEF Checkpoint, Fail, Kill, RangeRefused, MemberCorrupt, Close
  <2>2. malformed = {} /\ \A z \in Zips : item[z].todo = {} /\ LoadedOK(z)
    BY <1>4, <2>1 DEF Incomplete, BInv, RunOK
  <2> QED BY <2>2 DEF AllLoaded, LoadedOK
<1>5. RowsGrow
  <2>1. rows' = rows \/ \E z \in Zips : FileFailure(z)
    BY DEF Checkpoint, Fail, Kill, RangeRefused, MemberCorrupt, tables
  <2>2. CASE rows' = rows
    BY <1>1, <2>2, RowsSame
  <2>3. ASSUME NEW z \in Zips, FileFailure(z) PROVE RowsGrow
    <3>1. GovInfoRow("failed", NoChecksum, FALSE, item[z].head, None) \in ZRow
      BY Staged, RowsRegistered
    <3> QED BY <1>1, <2>3, <3>1, FileStep DEF FileFailure
  <2> QED BY <2>1, <2>2, <2>3
<1>6. partial' \in [Zips -> Part \cup {None}]
  <2>1. partial' = partial \/ \E z \in Zips : BreakOff(z)
    BY DEF Checkpoint, Fail, Kill, RangeRefused, MemberCorrupt
  <2> QED BY <2>1, BreakOffType DEF BInv, TypeOK
<1> QED BY <1>1, <1>2, <1>3, <1>4, <1>5, <1>6, HaltStep

LEMMA SelectStep ==
    ASSUME BInv, Select
    PROVE  BInv'
<1>1. /\ pc = "select" /\ pc' = "extract"
      /\ UNCHANGED <<origin, listed, partial, tables, only, at, malformed, run, target, legacy, counters>>
      /\ item' = [z \in Zips |-> [item[z] EXCEPT !.reuse = Reusable(z)]]
  BY DEF Select
<1>2. item' \in [Zips -> Item]
      /\ \A z \in Zips : item'[z].reuse = Reusable(z) /\ item'[z].head = item[z].head
  <2>1. \A z \in Zips : Reusable(z) \in BOOLEAN
    BY DEF Reusable
  <2> QED BY <1>1, <2>1, ZenonT(90) DEF Item, BInv, TypeOK
<1>3. TypeOK' /\ TablesOK' /\ LegacyOK' /\ Single'
  <2>1. /\ only' \in BOOLEAN /\ at' \in Zips \cup {Cardinality(Zips) + 1} /\ malformed' \subseteq Zips
        /\ run' \in {"none", "running", "failed", "partial", "succeeded"}
        /\ target' \in {"none", "partial", "succeeded"}
        /\ faults' \in 0..MaxFaults /\ legacies' \in 0..MaxLegacy
    BY <1>1 DEF BInv, TypeOK, counters
  <2> QED BY <1>1, <1>2, <2>1, TypeStays DEF Stages
<1>4. \A z \in Zips : Reusable(z) => UsableVersions(rows[z]) # {}
  <2> SUFFICES ASSUME NEW z \in Zips, Reusable(z) PROVE UsableVersions(rows[z]) # {}
    OBVIOUS
  <2>1. rows[z] \in Seq(ZRow)
    BY DEF BInv, TablesOK
  <2>2. Current(rows[z]) # 0 => Current(rows[z]) \in UsableVersions(rows[z])
    BY <2>1, NewestUsable
  <2> QED BY <2>2 DEF Reusable
<1>5. \A z \in Zips : z < at \/ item'[z].reuse => UsableVersions(rows'[z]) # {}
  <2>1. at = 1 /\ \A z \in Zips : ~(z < 1)
    BY <1>1, Numbers DEF BInv, RunOK
  <2> QED BY <1>1, <1>2, <1>4, <2>1 DEF tables
<1>6. target # "succeeded" /\ run # "succeeded"
  BY <1>1 DEF BInv, RunOK
<1>7. RunOK' /\ SucceededIsLoaded'
  BY <1>1, <1>2, <1>5, <1>6 DEF BInv, RunOK, SucceededIsLoaded, Chosen, Loading
<1> QED BY <1>3, <1>7 DEF BInv

LEMMA ExtractStep ==
    ASSUME BInv, Extract
    PROVE  BInv'
<1> PICK z \in Zips :
        /\ InTransfer(z)
        /\ rows' = [rows EXCEPT ![z] = Filed(@,
               GovInfoRow("downloaded", Joined(Resumable(z), Served(z)), FALSE, item[z].head, None))]
        /\ partial' = [partial EXCEPT ![z] = None]
        /\ \/ at' = z + 1 /\ pc' = pc /\ run' = run
           \/ at' = at /\ pc' = "idle" /\ run' = "failed"
  BY DEF Extract, Close
<1> DEFINE new == GovInfoRow("downloaded", Joined(Resumable(z), Served(z)), FALSE, item[z].head, None)
<1>1. /\ pc = "extract" /\ ToFetch # {} /\ z = Min(ToFetch)
      /\ UNCHANGED <<origin, listed, children, record, ident, beside, only, item,
                     malformed, target, legacy, counters>>
  BY DEF Extract, InTransfer
<1>2. ToFetch \in SUBSET Nat /\ ToFetch \subseteq Zips
  BY Numbers DEF ToFetch
<1>3. z \in Nat /\ \A y \in ToFetch : z <= y
  BY <1>1, <1>2, MinIsLeast
<1>4. new \in FileRow /\ new \in ZRow
  <2>1. "downloaded" \in Usable /\ None \in Verdicts /\ FALSE \in BOOLEAN
        /\ Joined(Resumable(z), Served(z)) \in Checksums /\ item[z].head \in Nat \cup {None}
    BY Staged DEF Usable, Verdicts
  <2> QED BY <2>1, RowsRegistered
<1> HIDE DEF new
<1>5. RowsGrow /\ Len(rows'[z]) \in UsableVersions(rows'[z])
  <2>1. UNCHANGED <<children, record, ident, item>> /\ rows' = [rows EXCEPT ![z] = Filed(@, new)]
    BY <1>1 DEF new
  <2> QED BY <1>4, <2>1, FileStep
<1>6. partial' \in [Zips -> Part \cup {None}]
  BY DEF BInv, TypeOK
<1>7. at' \in Zips \cup {Cardinality(Zips) + 1}
  <2>1. z + 1 \in Zips \cup {N + 1}
    BY Numbers
  <2> QED BY <2>1 DEF N, BInv, TypeOK
<1>8. TypeOK'
  BY <1>1, <1>5, <1>6, <1>7 DEF BInv, TypeOK, counters, Stages, RowsGrow
<1>9. TablesOK' /\ LegacyOK' /\ Single'
  <2>1. legacy # None => legacy.zip \in Zips
    BY DEF BInv, TypeOK, Load
  <2> QED BY <1>1, <1>5, <2>1 DEF BInv, TablesOK, LegacyOK, Single, RowsGrow
<1>10. pc' = "extract" => \A y \in Zips : y < at' \/ item[y].reuse => UsableVersions(rows'[y]) # {}
  <2> SUFFICES ASSUME pc' = "extract", NEW y \in Zips, y < at' \/ item[y].reuse
               PROVE  UsableVersions(rows'[y]) # {}
    OBVIOUS
  <2>0. CASE y = z \/ UsableVersions(rows[y]) # {}
    BY <1>5, <2>0 DEF RowsGrow
  <2> SUFFICES ASSUME y # z, UsableVersions(rows[y]) = {}
               PROVE  FALSE
    BY <2>0
  <2>a. y < z + 1 \/ item[y].reuse
    OBVIOUS
  <2>1. y \in Nat /\ at \in Nat
    BY Numbers DEF BInv, TypeOK, N
  <2>2. ~(y < at) /\ ~item[y].reuse
    BY <1>1 DEF BInv, RunOK
  <2>3. y \in ToFetch
    BY <2>1, <2>2 DEF ToFetch
  <2> QED BY <1>3, <2>a, <2>1, <2>2, <2>3
<1>11. target # "succeeded" /\ run' # "succeeded" /\ \A y \in Zips : item'[y].head # 0
  BY <1>1 DEF BInv, RunOK
<1>12. RunOK' /\ SucceededIsLoaded'
  BY <1>1, <1>10, <1>11 DEF RunOK, SucceededIsLoaded, Chosen, Loading
<1> QED BY <1>8, <1>9, <1>12 DEF BInv

(* The stages that only move on.                                           *)
LEMMA MoveStep ==
    ASSUME BInv, Extracted \/ RecordBatch
    PROVE  BInv'
<1>1. /\ UNCHANGED <<origin, listed, partial, tables, only, item, malformed, run, legacy, counters>>
      /\ at' \in {1, at} /\ pc' \in Stages /\ target' \in {"none", "partial", "succeeded"}
  BY DEF Extracted, RecordBatch, Stages, BInv, TypeOK
<1>2. TypeOK' /\ TablesOK' /\ LegacyOK' /\ Single'
  <2>1. /\ only' \in BOOLEAN /\ item' \in [Zips -> Item] /\ malformed' \subseteq Zips
        /\ run' \in {"none", "running", "failed", "partial", "succeeded"}
        /\ at' \in Zips \cup {Cardinality(Zips) + 1}
        /\ faults' \in 0..MaxFaults /\ legacies' \in 0..MaxLegacy
    BY <1>1, Numbers DEF BInv, TypeOK, counters
  <2> QED BY <1>1, <2>1, TypeStays
<1>3. UNCHANGED <<rows, children, record, beside>>
  BY <1>1 DEF tables
<1>4. run' # "succeeded" /\ target' # "succeeded"
  BY DEF Extracted, RecordBatch, BInv, RunOK
<1>5. CASE Extracted
  <2>1. at \in Nat /\ \A z \in Zips : z \in Nat
    BY Numbers DEF BInv, TypeOK, N
  <2>2. pc = "extract" /\ \A z \in Zips : ~(z >= at /\ ~item[z].reuse)
    BY <1>5 DEF Extracted, ToFetch
  <2>3. \A z \in Zips : z < at \/ item[z].reuse
    BY <2>1, <2>2
  <2>4. \A z \in Zips : UsableVersions(rows[z]) # {}
    BY <2>2, <2>3 DEF BInv, RunOK
  <2>5. pc' = "evidence" /\ at' = 1
    BY <1>5 DEF Extracted
  <2> QED BY <1>2, <1>3, <1>4, <2>4, <2>5 DEF BInv, RunOK, SucceededIsLoaded, Chosen, Loading
<1>6. CASE RecordBatch
  <2>1. pc = "committed" /\ pc' = "publish" /\ at' = at
    BY <1>6 DEF RecordBatch
  <2>2. NoneNewer' /\ \A z \in Zips : ItemOK(z)' /\ LoadedOK(z)'
    BY <1>1, <1>3, <2>1 DEF BInv, RunOK, NoneNewer, ItemOK, LoadedOK, Content, Chosen, Loading
  <2> QED BY <1>1, <1>2, <1>4, <2>1, <2>2 DEF BInv, RunOK, SucceededIsLoaded, Chosen, Loading
<1> QED BY <1>5, <1>6

LEMMA EvidenceStep ==
    ASSUME BInv, Evidence
    PROVE  BInv'
<1> DEFINE bound == [z \in Zips |-> [item[z] EXCEPT !.art = Current(rows[z]), !.row = CurrentFile(rows[z])]]
<1>1. /\ pc = "evidence"
      /\ UNCHANGED <<origin, listed, partial, tables, only, at, malformed, target, legacy, counters>>
      /\ \/ pc' = "stage" /\ item' = bound /\ run' = run
         \/ pc' = "idle" /\ run' = "failed" /\ item' = item
  BY DEF Evidence, Close
<1>2. faults' \in 0..MaxFaults /\ legacies' \in 0..MaxLegacy
  BY <1>1 DEF BInv, TypeOK, counters
<1>3. CASE pc' = "idle" /\ run' = "failed" /\ item' = item
  BY <1>1, <1>2, <1>3, StopStep
<1>4. CASE pc' = "stage" /\ item' = bound /\ run' = run
  <2>1. ASSUME NEW z \in Zips
        PROVE  /\ Current(rows[z]) \in UsableVersions(rows[z]) /\ Current(rows[z]) \in Nat
               /\ \A i \in UsableVersions(rows[z]) : i <= Current(rows[z])
               /\ CurrentFile(rows[z]) \in FileRow /\ CurrentFile(rows[z]) \in ZipRow
    <3>1. rows[z] \in Seq(ZRow) /\ UsableVersions(rows[z]) # {}
      BY <1>1 DEF BInv, TablesOK, RunOK
    <3>2. /\ Current(rows[z]) \in UsableVersions(rows[z]) /\ Current(rows[z]) \in Nat
          /\ \A i \in UsableVersions(rows[z]) : i <= Current(rows[z])
          /\ CurrentFile(rows[z]) \in ZRow /\ IsFile(CurrentFile(rows[z]))
      BY <3>1, CurrentIsFile, RowsAreFiles
    <3> QED BY <3>2, RowsAreFiles
  <2>2. bound \in [Zips -> Item]
    <3>1. \A z \in Zips : item[z] \in Item
      BY DEF BInv, TypeOK
    <3>2. ASSUME NEW z \in Zips
          PROVE  [item[z] EXCEPT !.art = Current(rows[z]), !.row = CurrentFile(rows[z])] \in Item
      <4>1. Current(rows[z]) \in Nat /\ CurrentFile(rows[z]) \in ZipRow \cup {None}
        BY <2>1
      <4> QED BY <3>1, <4>1 DEF Item
    <3> QED BY <3>2
  <2>3. \A z \in Zips : bound[z].art = Current(rows[z]) /\ bound[z].row = CurrentFile(rows[z])
    BY <2>1 DEF BInv, TypeOK, Item
  <2> HIDE DEF bound
  <2>4. TypeOK' /\ TablesOK' /\ LegacyOK' /\ Single'
    <3>1. /\ only' \in BOOLEAN /\ at' \in Zips \cup {Cardinality(Zips) + 1} /\ malformed' \subseteq Zips
          /\ run' \in {"none", "running", "failed", "partial", "succeeded"}
          /\ target' \in {"none", "partial", "succeeded"}
      BY <1>1, <1>4 DEF BInv, TypeOK
    <3> QED BY <1>1, <1>2, <1>4, <2>2, <3>1, TypeStays DEF Stages
  <2>5. UNCHANGED <<rows, children, record, beside>>
    BY <1>1 DEF tables
  <2>6. \A z \in Zips : ItemOK(z)'
    BY <1>4, <2>1, <2>3, <2>5 DEF ItemOK
  <2>7. NoneNewer'
    <3> SUFFICES ASSUME NEW z \in Zips, NEW b \in Bills, NEW v \in children[z][b]
                 PROVE  v <= Current(rows[z])
      BY <1>4, <2>3, <2>5 DEF NoneNewer
    <3>1. v \in UsableVersions(rows[z])
      BY DEF BInv, TablesOK
    <3> QED BY <2>1, <3>1
  <2>8. target' # "succeeded" /\ run' # "succeeded" /\ at' = 1
    BY <1>1, <1>4 DEF BInv, RunOK
  <2> QED BY <1>4, <2>4, <2>6, <2>7, <2>8 DEF BInv, RunOK, SucceededIsLoaded, Chosen, Loading
<1> QED BY <1>1, <1>3, <1>4

(* A step that gives zips verdicts or work leaves what they are bound to.  *)
LEMMA SameVersions ==
    ASSUME BInv, UNCHANGED tables,
           \A z \in Zips : item'[z].art = item[z].art /\ item'[z].row = item[z].row
    PROVE  /\ NoneNewer => NoneNewer'
           /\ \A z \in Zips : (ItemOK(z) => ItemOK(z)') /\ Content(z)' = Content(z)
BY DEF NoneNewer, ItemOK, Content, tables

LEMMA StageStep ==
    ASSUME BInv, Stage
    PROVE  BInv'
<1>1. /\ pc = "stage"
      /\ UNCHANGED <<origin, listed, partial, tables, only, at, malformed, target, legacy, counters>>
      /\ \/ /\ pc' = "normalize" /\ run' = run
            /\ item' = [z \in Zips |-> [item[z] EXCEPT !.verdict = Verdict(z)]]
         \/ pc' = "idle" /\ run' = "failed" /\ item' = item
  BY DEF Stage, Close
<1>2. faults' \in 0..MaxFaults /\ legacies' \in 0..MaxLegacy
  BY <1>1 DEF BInv, TypeOK, counters
<1>3. CASE pc' = "idle" /\ run' = "failed" /\ item' = item
  BY <1>1, <1>2, <1>3, StopStep
<1>4. CASE /\ pc' = "normalize" /\ run' = run
           /\ item' = [z \in Zips |-> [item[z] EXCEPT !.verdict = Verdict(z)]]
  <2>1. \A z \in Zips : ItemOK(z) /\ item[z] \in Item
    BY <1>1 DEF BInv, RunOK, Chosen, TypeOK
  <2>2. \A z \in Zips : Verdict(z) \in Verdicts
    BY <2>1 DEF Verdict, Compared, Verdicts, ItemOK, FileRow
  <2>3. item' \in [Zips -> Item]
        /\ \A z \in Zips : item'[z].art = item[z].art /\ item'[z].row = item[z].row
    BY <1>4, <2>1, <2>2 DEF Item
  <2>4. TypeOK' /\ TablesOK' /\ LegacyOK' /\ Single'
    <3>1. /\ only' \in BOOLEAN /\ at' \in Zips \cup {Cardinality(Zips) + 1} /\ malformed' \subseteq Zips
          /\ run' \in {"none", "running", "failed", "partial", "succeeded"}
          /\ target' \in {"none", "partial", "succeeded"}
      BY <1>1, <1>4 DEF BInv, TypeOK
    <3> QED BY <1>1, <1>2, <1>4, <2>3, <3>1, TypeStays DEF Stages
  <2>5. NoneNewer' /\ \A z \in Zips : ItemOK(z)'
    BY <1>1, <2>3, SameVersions DEF BInv, RunOK, Chosen
  <2>6. target' # "succeeded" /\ run' # "succeeded" /\ at' = 1
    BY <1>1, <1>4 DEF BInv, RunOK
  <2> QED BY <1>4, <2>4, <2>5, <2>6 DEF BInv, RunOK, SucceededIsLoaded, Chosen, Loading
<1> QED BY <1>1, <1>3, <1>4

LEMMA NormalizeStep ==
    ASSUME BInv, Normalize
    PROVE  BInv'
<1> DEFINE work(z) == IF only THEN {} ELSE Todo(z)
<1>1. /\ pc = "normalize"
      /\ UNCHANGED <<origin, listed, partial, tables, only, at, malformed, target, legacy, counters>>
      /\ \/ /\ pc' = (IF only THEN "checkpoint" ELSE "publish") /\ run' = run
            /\ item' = [z \in Zips |-> [item[z] EXCEPT !.todo = work(z)]]
         \/ pc' = "idle" /\ run' = "failed" /\ item' = item
  BY DEF Normalize, Close
<1>2. faults' \in 0..MaxFaults /\ legacies' \in 0..MaxLegacy
  BY <1>1 DEF BInv, TypeOK, counters
<1>3. CASE pc' = "idle" /\ run' = "failed" /\ item' = item
  BY <1>1, <1>2, <1>3, StopStep
<1>4. CASE /\ pc' = (IF only THEN "checkpoint" ELSE "publish") /\ run' = run
           /\ item' = [z \in Zips |-> [item[z] EXCEPT !.todo = work(z)]]
  <2>1. \A z \in Zips : ItemOK(z) /\ item[z] \in Item
    BY <1>1 DEF BInv, RunOK, Chosen, TypeOK
  <2>2. \A z \in Zips : Content(z) \in Checksums /\ Holds[Content(z)] \subseteq Bills
    BY <2>1, ContentAssumption DEF ItemOK, FileRow, Content
  <2>3. item' \in [Zips -> Item]
        /\ \A z \in Zips : /\ item'[z].art = item[z].art /\ item'[z].row = item[z].row
                           /\ item'[z].todo = work(z)
    <3>1. \A z \in Zips : work(z) \subseteq Bills
      BY <2>2 DEF Todo
    <3> HIDE DEF work
    <3> QED BY <1>4, <2>1, <3>1 DEF Item
  <2>4. TypeOK' /\ TablesOK' /\ LegacyOK' /\ Single'
    <3>1. /\ only' \in BOOLEAN /\ at' \in Zips \cup {Cardinality(Zips) + 1} /\ malformed' \subseteq Zips
          /\ run' \in {"none", "running", "failed", "partial", "succeeded"}
          /\ target' \in {"none", "partial", "succeeded"} /\ pc' \in Stages
      BY <1>1, <1>4 DEF BInv, TypeOK, Stages
    <3> QED BY <1>1, <1>2, <2>3, <3>1, TypeStays
  <2>5. NoneNewer' /\ \A z \in Zips : ItemOK(z)' /\ Content(z)' = Content(z)
    BY <1>1, <2>1, <2>3, SameVersions DEF BInv, RunOK, Chosen
  <2>6. ASSUME ~only, NEW z \in Zips PROVE LoadedOK(z)'
    <3>1. \A b \in Holds[Content(z)] \ item'[z].todo : item[z].art \in record[z][b]
      BY <2>3, <2>6 DEF Todo
    <3> QED BY <1>1, <2>3, <2>5, <3>1 DEF LoadedOK, tables
  <2>7. target' # "succeeded" /\ run' # "succeeded" /\ at' = 1 /\ only' = only /\ only \in BOOLEAN
    BY <1>1, <1>4 DEF BInv, RunOK, TypeOK
  <2>8. 1 \in Zips /\ \A z \in Zips : ~(z < 1)
    BY Numbers
  <2> QED BY <1>4, <2>4, <2>5, <2>6, <2>7, <2>8 DEF BInv, RunOK, SucceededIsLoaded, Chosen, Loading
<1> QED BY <1>1, <1>3, <1>4

(* The rows of the rewritten bills are those of this version and of newer  *)
(* ones; nothing else changes.                                             *)
Kept(versions, art) == {v \in versions \cup {art} : v >= art}

LEMMA LoadBatchStep ==
    ASSUME BInv, LoadBatch
    PROVE  /\ BInv'
           /\ \A z \in Zips, b \in Bills : \A v \in children[z][b] \ children'[z][b] :
                 \E w \in record'[z][b] : w > v
<1> DEFINE good == Batch \cap Readable(Content(at))
           bad == Batch \ good
           art == item[at].art
           seen(b) == b \in good /\ \A v \in children[at][b] : v <= art
<1>1. /\ pc = "publish" /\ pc' = "committed" /\ at \in Zips
      /\ children' = [children EXCEPT ![at] = [b \in Bills |->
            IF b \in good THEN Kept(@[b], art) ELSE @[b]]]
      /\ record' = [record EXCEPT ![at] = [b \in Bills |->
            IF b \in good THEN Kept(@[b], art) ELSE @[b]]]
      /\ ident' = [ident EXCEPT ![at] = [b \in Bills |-> IF b \in good THEN art ELSE @[b]]]
      /\ beside' = [beside EXCEPT ![at] = [b \in Bills |-> @[b] /\ ~seen(b)]]
      /\ malformed' = IF bad = {} THEN malformed ELSE malformed \cup {at}
      /\ item' = [item EXCEPT ![at].todo = @ \ Batch]
      /\ UNCHANGED <<origin, listed, partial, rows, only, at, run, target, legacy, counters>>
  BY DEF LoadBatch, Supersede, SupersedeRecords, SavedBill, Kept
<1>2. /\ \A z \in Zips : ItemOK(z) /\ LoadedOK(z) /\ item[z] \in Item
      /\ NoneNewer /\ Single /\ \A z \in Zips : z < at => item[z].todo = {}
      /\ target # "succeeded" /\ run # "succeeded"
  BY <1>1 DEF BInv, RunOK, Chosen, Loading, TypeOK
<1>3. art \in 1..Len(rows[at]) /\ art \in Nat /\ Len(rows[at]) \in Nat
  BY <1>1, <1>2 DEF ItemOK, BInv, TypeOK, Item, TablesOK, UsableVersions
<1>4. /\ children \in [Zips -> [Bills -> SUBSET Nat]] /\ record \in [Zips -> [Bills -> SUBSET Nat]]
      /\ ident \in [Zips -> [Bills -> Nat]] /\ beside \in [Zips -> [Bills -> BOOLEAN]]
      /\ item \in [Zips -> Item]
      /\ \A z \in Zips, b \in Bills :
            /\ children[z][b] \subseteq UsableVersions(rows[z])
            /\ record[z][b] \subseteq children[z][b]
            /\ ident[z][b] \in 0..Len(rows[z])
      /\ \A z \in Zips : UsableVersions(rows[z]) \subseteq 1..Len(rows[z])
      /\ art \in UsableVersions(rows[at])
  BY <1>1, <1>2 DEF BInv, TypeOK, TablesOK, UsableVersions, ItemOK
<1> HIDE DEF good, bad, art
<1>5. \A b \in Bills :
         \/ /\ b \in good
            /\ children'[at][b] = Kept(children[at][b], art)
            /\ record'[at][b] = Kept(record[at][b], art)
            /\ ident'[at][b] = art
         \/ /\ b \notin good
            /\ children'[at][b] = children[at][b]
            /\ record'[at][b] = record[at][b]
            /\ ident'[at][b] = ident[at][b]
  BY <1>1, <1>4
<1>6. \A b \in Bills : beside'[at][b] = (beside[at][b] /\ ~seen(b))
  BY <1>1, <1>4
<1>7. \A z \in Zips : z # at => /\ children'[z] = children[z] /\ record'[z] = record[z]
                                /\ ident'[z] = ident[z] /\ beside'[z] = beside[z]
  BY <1>1, <1>4
<1>8. /\ item' \in [Zips -> Item] /\ item'[at].todo = item[at].todo \ Batch
      /\ \A z \in Zips : /\ item'[z].art = item[z].art /\ item'[z].row = item[z].row
                         /\ z # at => item'[z].todo = item[z].todo
  BY <1>1, <1>2, <1>4 DEF Item
<1>9. Batch \subseteq item[at].todo /\ good \subseteq Batch
  BY DEF Batch, good
<1>10. ASSUME NEW S \in SUBSET UsableVersions(rows[at])
       PROVE  Kept(S, art) \subseteq UsableVersions(rows[at]) /\ Kept(S, art) \in SUBSET Nat /\ art \in Kept(S, art)
  <2>1. Kept(S, art) \subseteq UsableVersions(rows[at])
    BY <1>4 DEF Kept
  <2>2. UsableVersions(rows[at]) \subseteq Nat /\ art >= art
    <3>1. UsableVersions(rows[at]) \subseteq 1..Len(rows[at]) /\ 1..Len(rows[at]) \subseteq Nat
      BY <1>1, <1>3, <1>4
    <3> QED BY <1>3, <3>1
  <2>3. art \in Kept(S, art)
    BY <2>2 DEF Kept
  <2> QED BY <2>1, <2>2, <2>3
<1>11. ASSUME NEW z \in Zips, NEW b \in Bills
       PROVE  /\ children'[z][b] \subseteq UsableVersions(rows[z])
              /\ children'[z][b] \subseteq 1..Len(rows[z]) /\ children'[z][b] \in SUBSET Nat
              /\ record'[z][b] \subseteq children'[z][b]
              /\ ident'[z][b] \in 0..Len(rows[z])
  <2>1. CASE z = at /\ b \in good
    <3>1. children'[z][b] = Kept(children[at][b], art) /\ record'[z][b] = Kept(record[at][b], art)
          /\ ident'[z][b] = art
      BY <1>5, <2>1
    <3>2. Kept(record[at][b], art) \subseteq Kept(children[at][b], art)
      BY <1>4, <2>1 DEF Kept
    <3>3. children[at][b] \in SUBSET UsableVersions(rows[at]) /\ art \in 0..Len(rows[at])
      BY <1>3, <1>4, <2>1
    <3> QED BY <1>4, <1>10, <2>1, <3>1, <3>2, <3>3
  <2>2. CASE ~(z = at /\ b \in good)
    <3>1. children'[z][b] = children[z][b] /\ record'[z][b] = record[z][b] /\ ident'[z][b] = ident[z][b]
      BY <1>5, <1>7, <2>2
    <3>2. children[z][b] \in SUBSET Nat
      BY <1>4
    <3> QED BY <1>4, <3>1, <3>2
  <2> QED BY <2>1, <2>2
<1>12. TypeOK'
  <2>1. children' \in [Zips -> [Bills -> SUBSET Nat]]
    <3>1. \A b \in Bills : children'[at][b] \in SUBSET Nat
      BY <1>1, <1>11
    <3>2. children' \in [Zips -> [Bills -> SUBSET Nat]]
          <=> [b \in Bills |-> IF b \in good THEN Kept(children[at][b], art) ELSE children[at][b]]
              \in [Bills -> SUBSET Nat]
      BY <1>1, <1>4
    <3>3. \A b \in Bills : (IF b \in good THEN Kept(children[at][b], art) ELSE children[at][b]) \in SUBSET Nat
      BY <1>5, <3>1
    <3> QED BY <3>2, <3>3
  <2>2. record' \in [Zips -> [Bills -> SUBSET Nat]]
    <3>1. \A b \in Bills : record'[at][b] \in SUBSET Nat
      BY <1>1, <1>11
    <3>2. record' \in [Zips -> [Bills -> SUBSET Nat]]
          <=> [b \in Bills |-> IF b \in good THEN Kept(record[at][b], art) ELSE record[at][b]]
              \in [Bills -> SUBSET Nat]
      BY <1>1, <1>4
    <3>3. \A b \in Bills : (IF b \in good THEN Kept(record[at][b], art) ELSE record[at][b]) \in SUBSET Nat
      BY <1>5, <3>1
    <3> QED BY <3>2, <3>3
  <2>3. ident' \in [Zips -> [Bills -> Nat]]
    BY <1>1, <1>3, <1>4
  <2>4. beside' \in [Zips -> [Bills -> BOOLEAN]]
    <3>1. \A b \in Bills : (beside[at][b] /\ ~seen(b)) \in BOOLEAN
      OBVIOUS
    <3> HIDE DEF seen
    <3> QED BY <1>1, <1>4, <3>1
  <2>5. malformed' \subseteq Zips /\ pc' \in Stages
    BY <1>1 DEF BInv, TypeOK, Stages
  <2> QED BY <1>1, <1>8, <1>11, <2>1, <2>2, <2>3, <2>4, <2>5 DEF BInv, TypeOK, counters
<1>13. ASSUME NEW z \in Zips, NEW b \in Bills, ~beside'[z][b]
       PROVE  /\ \A v, w \in children'[z][b] : v = w
              /\ \A v \in children'[z][b] : v <= item'[z].art
  <2>1. CASE z = at /\ b \in good
    <3>1. \A v \in children[at][b] : v <= art
      BY <1>2, <1>6, <1>13, <2>1 DEF NoneNewer, art
    <3>2. \A v \in children'[z][b] : v = art
      <4> SUFFICES ASSUME NEW v \in Kept(children[at][b], art) PROVE v = art
        BY <1>5, <2>1
      <4>1. v = art \/ (v \in children[at][b] /\ v >= art)
        BY DEF Kept
      <4>2. v \in children[at][b] => v \in Nat /\ v <= art
        BY <1>4, <2>1, <3>1
      <4> QED BY <1>3, <4>1, <4>2
    <3>3. item'[z].art = art /\ art <= art
      BY <1>3, <1>8, <2>1 DEF art
    <3> QED BY <3>2, <3>3
  <2>2. CASE ~(z = at /\ b \in good)
    <3>1. children'[z][b] = children[z][b]
      BY <1>5, <1>7, <2>2
    <3>2. ~beside[z][b]
      BY <1>6, <1>7, <1>13, <2>2
    <3> QED BY <1>2, <1>8, <3>1, <3>2 DEF Single, NoneNewer
  <2> QED BY <2>1, <2>2
<1>14. Single' /\ NoneNewer'
  BY <1>13 DEF Single, NoneNewer
<1>15. TablesOK' /\ LegacyOK'
  BY <1>1, <1>11 DEF BInv, TablesOK, LegacyOK
<1>16. \A z \in Zips : ItemOK(z)' /\ Content(z)' = Content(z)
  BY <1>1, <1>2, <1>8 DEF ItemOK, Content
<1>17. ASSUME NEW z \in Zips PROVE LoadedOK(z)'
  <2> SUFFICES ASSUME NEW b \in Holds[Content(z)], b \notin item'[z].todo
               PROVE  item[z].art \in record'[z][b] \/ z \in malformed'
    BY <1>8, <1>16 DEF LoadedOK
  <2>1. b \in Bills
    BY <1>2, ContentAssumption DEF ItemOK, FileRow, Content
  <2>2. malformed \subseteq malformed'
    BY <1>1
  <2>3. CASE z = at /\ b \in good
    <3>1. record'[z][b] = Kept(record[at][b], art)
      BY <1>5, <2>1, <2>3
    <3>2. art \in Kept(record[at][b], art)
      BY <1>3 DEF Kept
    <3> QED BY <2>3, <3>1, <3>2 DEF art
  <2>4. CASE z = at /\ b \in Batch /\ b \notin good
    <3>1. bad # {}
      BY <2>4 DEF bad
    <3> QED BY <1>1, <2>4, <3>1
  <2>5. CASE z = at /\ b \notin Batch
    <3>1. b \notin item[z].todo /\ b \notin good
      BY <1>8, <1>9, <2>5
    <3>2. record'[z][b] = record[z][b]
      BY <1>5, <2>1, <2>5, <3>1
    <3> QED BY <1>2, <2>2, <3>1, <3>2 DEF LoadedOK
  <2>6. CASE z # at
    <3>1. b \notin item[z].todo /\ record'[z] = record[z]
      BY <1>7, <1>8, <2>6
    <3> QED BY <1>2, <2>2, <3>1 DEF LoadedOK
  <2> QED BY <2>3, <2>4, <2>5, <2>6
<1>18. \A z \in Zips : z < at => item'[z].todo = {}
  <2>1. at \in Nat /\ ~(at < at)
    BY <1>1, Numbers
  <2> QED BY <1>2, <1>8, <2>1
<1>19. RunOK' /\ SucceededIsLoaded'
  BY <1>1, <1>2, <1>14, <1>16, <1>17, <1>18 DEF RunOK, SucceededIsLoaded, Chosen, Loading
<1>20. ASSUME NEW z \in Zips, NEW b \in Bills, NEW v \in children[z][b] \ children'[z][b]
       PROVE  \E w \in record'[z][b] : w > v
  <2>1. z = at /\ b \in good
    BY <1>5, <1>7
  <2>2. children'[z][b] = Kept(children[at][b], art) /\ record'[z][b] = Kept(record[at][b], art)
    BY <1>5, <2>1
  <2>3. v \in Nat /\ ~(v >= art)
    BY <1>4, <2>1, <2>2 DEF Kept
  <2>4. art \in record'[z][b]
    BY <1>3, <2>2 DEF Kept
  <2> QED BY <1>3, <2>3, <2>4
<1> QED BY <1>12, <1>14, <1>15, <1>19, <1>20 DEF BInv

LEMMA FinishZipStep ==
    ASSUME BInv, FinishZip
    PROVE  BInv'
<1> DEFINE new == GovInfoRow("loaded", Content(at), FALSE, None, item[at].verdict)
<1>1. /\ pc = "publish" /\ pc' = "zipdone" /\ at \in Zips /\ item[at].todo = {}
      /\ UNCHANGED <<origin, listed, partial, children, record, ident, beside, only, item,
                     at, malformed, run, target, legacy, counters>>
      /\ rows' = rows \/ rows' = [rows EXCEPT ![at] = Filed(@, new)]
  BY DEF FinishZip
<1>2. /\ \A y \in Zips : ItemOK(y) /\ LoadedOK(y)
      /\ NoneNewer /\ \A y \in Zips : y < at => item[y].todo = {}
      /\ target # "succeeded" /\ run # "succeeded"
  BY <1>1 DEF BInv, RunOK, Chosen, Loading
<1>3. new \in ZRow
  <2>1. Content(at) \in Checksums /\ item[at].verdict \in Verdicts /\ "loaded" \in Usable
        /\ FALSE \in BOOLEAN /\ None \in Nat \cup {None}
    BY <1>1, <1>2 DEF ItemOK, FileRow, Content, BInv, TypeOK, Item, Usable
  <2> QED BY <2>1, RowsRegistered
<1> HIDE DEF new
<1>4. RowsGrow
  BY <1>1, <1>3, RowsSame, FileStep
<1>5. TypeOK'
  BY <1>1, <1>4 DEF BInv, TypeOK, counters, Stages, RowsGrow
<1>6. TablesOK' /\ LegacyOK' /\ Single'
  <2>1. legacy # None => legacy.zip \in Zips
    BY DEF BInv, TypeOK, Load
  <2> QED BY <1>1, <1>4, <2>1 DEF BInv, TablesOK, LegacyOK, Single, RowsGrow
<1>7. NoneNewer' /\ \A y \in Zips : ItemOK(y)' /\ LoadedOK(y)'
  <2>1. \A y \in Zips : ItemOK(y)'
    BY <1>2, <1>4 DEF RowsGrow
  <2> QED BY <1>1, <1>2, <2>1 DEF NoneNewer, LoadedOK, Content
<1>8. RunOK' /\ SucceededIsLoaded'
  BY <1>1, <1>2, <1>7 DEF RunOK, SucceededIsLoaded, Chosen, Loading
<1> QED BY <1>5, <1>6, <1>8 DEF BInv

LEMMA RecordZipStep ==
    ASSUME BInv, RecordZip
    PROVE  BInv'
<1>1. /\ pc = "zipdone" /\ at' = at + 1 /\ target' = TargetStatus
      /\ pc' = IF at + 1 \in Zips THEN "publish" ELSE "checkpoint"
      /\ UNCHANGED <<origin, listed, partial, tables, only, item, malformed, run, legacy, counters>>
  BY DEF RecordZip
<1>2. /\ \A z \in Zips : ItemOK(z) /\ LoadedOK(z)
      /\ NoneNewer /\ at \in Zips /\ \A z \in Zips : z < at => item[z].todo = {}
      /\ run # "succeeded" /\ item[at].todo = {}
  BY <1>1 DEF BInv, RunOK, Chosen, Loading
<1>3. at \in 1..N /\ N \in Nat /\ Zips = 1..N
  BY <1>2, Numbers
<1>4. \A z \in Zips : z < at + 1 => item[z].todo = {}
  <2>1. \A z \in Zips : z < at + 1 => z < at \/ z = at
    BY <1>3
  <2> QED BY <1>2, <2>1
<1>5. at + 1 \notin Zips => \A z \in Zips : z < at + 1
  BY <1>3
<1>6. TypeOK' /\ TablesOK' /\ LegacyOK' /\ Single'
  <2>1. at' \in Zips \cup {Cardinality(Zips) + 1}
    BY <1>1, <1>3 DEF N
  <2>2. /\ only' \in BOOLEAN /\ item' \in [Zips -> Item] /\ malformed' \subseteq Zips
        /\ run' \in {"none", "running", "failed", "partial", "succeeded"}
        /\ target' \in {"none", "partial", "succeeded"} /\ pc' \in Stages
        /\ faults' \in 0..MaxFaults /\ legacies' \in 0..MaxLegacy
    BY <1>1 DEF BInv, TypeOK, counters, TargetStatus, Stages
  <2> QED BY <1>1, <2>1, <2>2, TypeStays
<1>7. NoneNewer' /\ \A z \in Zips : ItemOK(z)' /\ LoadedOK(z)'
  BY <1>1, <1>2 DEF NoneNewer, ItemOK, LoadedOK, Content, tables
<1>8. target' = "succeeded" => at + 1 \notin Zips /\ ~Incomplete
  BY <1>1 DEF TargetStatus
<1>9. RunOK'
  BY <1>1, <1>2, <1>4, <1>5, <1>7, <1>8 DEF RunOK, Chosen, Loading
<1>10. target' = "succeeded" => AllLoaded
  <2> SUFFICES ASSUME target' = "succeeded" PROVE AllLoaded
    OBVIOUS
  <2>1. malformed = {} /\ \A z \in Zips : item[z].todo = {}
    BY <1>4, <1>5, <1>8 DEF Incomplete
  <2> QED BY <1>2, <2>1 DEF AllLoaded, LoadedOK
<1>11. SucceededIsLoaded'
  BY <1>1, <1>2, <1>10 DEF SucceededIsLoaded, AllLoaded, Content, tables
<1> QED BY <1>6, <1>9, <1>11 DEF BInv
-----------------------------------------------------------------------------
LEMMA LegacyStartStep ==
    ASSUME BInv, NEW z \in Zips, NEW c \in Lake[z], LegacyStart(z, c)
    PROVE  BInv'
<1> DEFINE new == GovInfoRow("downloaded", c, TRUE, None, "word")
<1>1. /\ UNCHANGED <<origin, listed, partial, children, record, ident, beside, sync, faults>>
      /\ legacies < MaxLegacy /\ legacies' = legacies + 1
      /\ rows' = [rows EXCEPT ![z] = Filed(@, new)]
      /\ legacy' = [zip |-> z, art |-> Len(rows'[z]),
                    todo |-> {b \in Holds[c] : ident[z][b] # Len(rows'[z])}]
  BY DEF LegacyStart
<1>2. c \in Checksums /\ Holds[c] \subseteq Bills
  BY ContentAssumption
<1>3. UNCHANGED <<pc, only, item, at, malformed, run, target>>
  BY <1>1 DEF sync
<1>4. new \in FileRow /\ new \in ZRow
  <2>1. "downloaded" \in Usable /\ TRUE \in BOOLEAN /\ None \in Nat \cup {None} /\ "word" \in Verdicts
    BY DEF Usable, Verdicts
  <2> QED BY <1>2, <2>1, RowsRegistered
<1> HIDE DEF new
<1>5. RowsGrow /\ Len(rows'[z]) \in UsableVersions(rows'[z])
  BY <1>1, <1>3, <1>4, FileStep
<1>6. legacy' \in Load /\ LegacyOK'
  <2>1. Len(rows'[z]) \in Nat
    BY <1>5 DEF RowsGrow
  <2> QED BY <1>1, <1>2, <1>5, <2>1 DEF Load, LegacyOK
<1>7. legacies' \in 0..MaxLegacy
  BY <1>1, BoundAssumption DEF BInv, TypeOK
<1>8. TypeOK'
  BY <1>1, <1>3, <1>5, <1>6, <1>7 DEF BInv, TypeOK, RowsGrow
<1>9. TablesOK' /\ Single'
  BY <1>1, <1>5 DEF BInv, TablesOK, Single, RowsGrow
<1>10. /\ NoneNewer => NoneNewer'
       /\ \A y \in Zips : (ItemOK(y) => ItemOK(y)') /\ (LoadedOK(y) => LoadedOK(y)')
  BY <1>1, <1>3, <1>5 DEF NoneNewer, LoadedOK, Content, RowsGrow
<1>11. RunOK'
  <2>1. \A y \in Zips : UsableVersions(rows[y]) # {} => UsableVersions(rows'[y]) # {}
    BY <1>5 DEF RowsGrow
  <2> QED BY <1>3, <1>10, <2>1 DEF BInv, RunOK
<1>12. SucceededIsLoaded'
  BY <1>1, <1>3 DEF BInv, SucceededIsLoaded, AllLoaded, Content
<1> QED BY <1>6, <1>8, <1>9, <1>11, <1>12 DEF BInv

(* The older loader marks each bill it writes as beside.                   *)
LEMMA LegacySaveStep ==
    ASSUME BInv, LegacySave
    PROVE  /\ BInv'
           /\ \A z \in Zips, b \in Bills : children[z][b] \subseteq children'[z][b]
<1> DEFINE b == Min(legacy.todo)
           z == legacy.zip
           art == legacy.art
<1>1. /\ legacy # None /\ legacy.todo # {}
      /\ UNCHANGED <<origin, listed, partial, rows, record, sync, counters>>
      /\ \/ legacy' = None /\ UNCHANGED <<children, ident, beside>>
         \/ /\ children' = [children EXCEPT ![z][b] = @ \cup {art}]
            /\ ident' = [ident EXCEPT ![z][b] = art]
            /\ beside' = [beside EXCEPT ![z][b] = TRUE]
            /\ legacy' = [legacy EXCEPT !.todo = @ \ {b}]
  BY DEF LegacySave, SavedBill
<1>2. legacy \in Load /\ z \in Zips /\ legacy.todo \subseteq Bills /\ art \in Nat
      /\ art \in UsableVersions(rows[z]) /\ art \in 1..Len(rows[z])
  BY <1>1 DEF BInv, TypeOK, Load, LegacyOK, UsableVersions
<1>3. b \in Bills
  <2>1. legacy.todo \in SUBSET Nat
    BY <1>2, ZipAssumption
  <2> QED BY <1>1, <1>2, <2>1, MinIsLeast
<1>4. UNCHANGED <<pc, only, item, at, malformed, run, target, faults, legacies>>
  BY <1>1 DEF sync, counters
<1>5. /\ children \in [Zips -> [Bills -> SUBSET Nat]] /\ ident \in [Zips -> [Bills -> Nat]]
      /\ beside \in [Zips -> [Bills -> BOOLEAN]]
      /\ \A y \in Zips, d \in Bills :
            /\ children[y][d] \subseteq 1..Len(rows[y]) /\ record[y][d] \subseteq children[y][d]
            /\ ident[y][d] \in 0..Len(rows[y]) /\ children[y][d] \subseteq UsableVersions(rows[y])
      /\ \A y \in Zips : Len(rows[y]) \in Nat
  BY DEF BInv, TypeOK, TablesOK
<1> HIDE DEF b, z, art
<1>6. /\ children' \in [Zips -> [Bills -> SUBSET Nat]] /\ ident' \in [Zips -> [Bills -> Nat]]
      /\ beside' \in [Zips -> [Bills -> BOOLEAN]] /\ legacy' \in Load \cup {None}
      /\ legacy' # None => legacy'.art = legacy.art /\ legacy'.zip = legacy.zip
  <2>1. children' \in [Zips -> [Bills -> SUBSET Nat]]
    <3>1. CASE children' = children
      BY <1>5, <3>1
    <3>2. CASE children' = [children EXCEPT ![z][b] = @ \cup {art}]
      <4>1. children[z] \in [Bills -> SUBSET Nat] /\ children[z][b] \cup {art} \in SUBSET Nat
        BY <1>2, <1>3, <1>5
      <4>2. [children[z] EXCEPT ![b] = children[z][b] \cup {art}] \in [Bills -> SUBSET Nat]
        BY <4>1
      <4> QED BY <1>2, <1>5, <3>2, <4>2
    <3> QED BY <1>1, <3>1, <3>2
  <2>2. ident' \in [Zips -> [Bills -> Nat]] /\ beside' \in [Zips -> [Bills -> BOOLEAN]]
    <3>1. ident[z] \in [Bills -> Nat] /\ beside[z] \in [Bills -> BOOLEAN]
      BY <1>2, <1>5
    <3>2. [ident[z] EXCEPT ![b] = art] \in [Bills -> Nat]
          /\ [beside[z] EXCEPT ![b] = TRUE] \in [Bills -> BOOLEAN]
      BY <1>2, <3>1
    <3>3. ident' = ident \/ ident' = [ident EXCEPT ![z] = [ident[z] EXCEPT ![b] = art]]
      BY <1>1
    <3>4. beside' = beside \/ beside' = [beside EXCEPT ![z] = [beside[z] EXCEPT ![b] = TRUE]]
      BY <1>1
    <3>5. ident' \in [Zips -> [Bills -> Nat]]
      BY <1>2, <1>5, <3>2, <3>3
    <3>6. beside' \in [Zips -> [Bills -> BOOLEAN]]
      BY <1>2, <1>5, <3>2, <3>4
    <3> QED BY <3>5, <3>6
  <2>3. /\ legacy' \in Load \cup {None}
        /\ legacy' # None => legacy'.art = legacy.art /\ legacy'.zip = legacy.zip
    BY <1>1, <1>2 DEF Load
  <2> QED BY <2>1, <2>2, <2>3
<1>7. \A y \in Zips, d \in Bills :
         \/ /\ children'[y][d] = children[y][d] /\ ident'[y][d] = ident[y][d]
            /\ beside'[y][d] = beside[y][d]
         \/ /\ y = z /\ d = b /\ children'[y][d] = children[y][d] \cup {art}
            /\ ident'[y][d] = art /\ beside'[y][d] = TRUE
  BY <1>1, <1>2, <1>3, <1>5
<1>8. ASSUME NEW y \in Zips, NEW d \in Bills
      PROVE  /\ children'[y][d] \subseteq 1..Len(rows[y]) /\ record[y][d] \subseteq children'[y][d]
             /\ ident'[y][d] \in 0..Len(rows[y]) /\ children[y][d] \subseteq children'[y][d]
             /\ children'[y][d] \subseteq UsableVersions(rows[y])
  <2>1. art \in 0..Len(rows[z])
    BY <1>2, <1>5
  <2>2. CASE children'[y][d] = children[y][d] /\ ident'[y][d] = ident[y][d]
    BY <1>5, <2>2
  <2>3. CASE y = z /\ children'[y][d] = children[y][d] \cup {art} /\ ident'[y][d] = art
    BY <1>2, <1>5, <2>1, <2>3
  <2> QED BY <1>7, <2>2, <2>3
<1>9. TypeOK'
  BY <1>1, <1>4, <1>6, <1>8 DEF BInv, TypeOK
<1>10. TablesOK' /\ LegacyOK'
  BY <1>1, <1>6, <1>8 DEF BInv, TablesOK, LegacyOK
<1>11. \A y \in Zips, d \in Bills : ~beside'[y][d] =>
          ~beside[y][d] /\ children'[y][d] = children[y][d]
  BY <1>7
<1>12. Single' /\ (NoneNewer => NoneNewer')
  BY <1>4, <1>11 DEF BInv, Single, NoneNewer
<1>13. \A y \in Zips : (ItemOK(y) => ItemOK(y)') /\ (LoadedOK(y) => LoadedOK(y)')
  BY <1>1, <1>4 DEF ItemOK, LoadedOK, Content
<1>14. RunOK'
  BY <1>1, <1>4, <1>12, <1>13 DEF BInv, RunOK
<1>15. SucceededIsLoaded'
  BY <1>1, <1>4 DEF BInv, SucceededIsLoaded, AllLoaded, Content
<1> QED BY <1>8, <1>9, <1>10, <1>12, <1>14, <1>15 DEF BInv

LEMMA LegacyEndStep ==
    ASSUME BInv, LegacyFinish \/ LegacyStop
    PROVE  BInv'
<1> DEFINE z == legacy.zip
           new == GovInfoRow("loaded", LegacyContent, TRUE, None, None)
<1>1. /\ legacy # None /\ legacy' = None
      /\ UNCHANGED <<origin, listed, partial, children, record, ident, beside, sync, counters>>
      /\ rows' = rows \/ rows' = [rows EXCEPT ![z] = Filed(@, new)]
  BY DEF LegacyFinish, LegacyStop, tables
<1>2. z \in Zips /\ new \in ZRow
  <2>1. z \in Zips /\ legacy.art \in UsableVersions(rows[z]) /\ rows[z] \in Seq(ZRow)
    BY <1>1 DEF BInv, TypeOK, Load, LegacyOK, TablesOK
  <2>2. rows[z][legacy.art] \in ZRow /\ rows[z][legacy.art].status \in Usable
    BY <2>1 DEF UsableVersions
  <2>3. LegacyContent \in Checksums
    BY <2>2 DEF LegacyContent, ZRow, FileRow, FailedRow, Usable
  <2>4. "loaded" \in Usable /\ TRUE \in BOOLEAN /\ None \in Nat \cup {None} /\ None \in Verdicts
    BY DEF Usable, Verdicts
  <2> QED BY <2>1, <2>3, <2>4, RowsRegistered
<1>3. UNCHANGED <<pc, only, item, at, malformed, run, target, faults, legacies>>
  BY <1>1 DEF sync, counters
<1> HIDE DEF z, new
<1>4. RowsGrow
  BY <1>1, <1>2, <1>3, RowsSame, FileStep
<1>5. TypeOK'
  BY <1>1, <1>3, <1>4 DEF BInv, TypeOK, RowsGrow
<1>6. TablesOK' /\ LegacyOK' /\ Single'
  BY <1>1, <1>4 DEF BInv, TablesOK, LegacyOK, Single, RowsGrow
<1>7. /\ NoneNewer => NoneNewer'
      /\ \A y \in Zips : (ItemOK(y) => ItemOK(y)') /\ (LoadedOK(y) => LoadedOK(y)')
  BY <1>1, <1>3, <1>4 DEF NoneNewer, LoadedOK, Content, RowsGrow
<1>8. RunOK'
  <2>1. \A y \in Zips : UsableVersions(rows[y]) # {} => UsableVersions(rows'[y]) # {}
    BY <1>4 DEF RowsGrow
  <2> QED BY <1>3, <1>7, <2>1 DEF BInv, RunOK
<1>9. SucceededIsLoaded'
  BY <1>1, <1>3 DEF BInv, SucceededIsLoaded, AllLoaded, Content
<1> QED BY <1>5, <1>6, <1>8, <1>9 DEF BInv
-----------------------------------------------------------------------------
LEMMA InitInvariant == Init => BInv
<1> SUFFICES ASSUME Init PROVE BInv
  OBVIOUS
<1>1. \A z \in Zips : 1 \in 1..Len(Published[z])
  BY ContentAssumption
<1>2. item \in [Zips -> Item]
  <2>1. Blank \in Item
    BY DEF Blank, Item, Verdicts
  <2> QED BY <2>1 DEF Init
<1>3. 0 \in 0..MaxFaults /\ 0 \in 0..MaxLegacy
  BY BoundAssumption
<1>4. rows \in [Zips -> Seq(ZipRow)] /\ rows \in [Zips -> Seq(ZRow)]
  BY DEF Init
<1>5. /\ children \in [Zips -> [Bills -> SUBSET Nat]] /\ record \in [Zips -> [Bills -> SUBSET Nat]]
      /\ ident \in [Zips -> [Bills -> Nat]] /\ beside \in [Zips -> [Bills -> BOOLEAN]]
      /\ \A z \in Zips, b \in Bills :
            children[z][b] = {} /\ record[z][b] = {} /\ ident[z][b] = 0 /\ rows[z] = <<>>
  BY DEF Init
<1>6. \A z \in Zips, b \in Bills :
         /\ children[z][b] \subseteq 1..Len(rows[z]) /\ record[z][b] \subseteq children[z][b]
         /\ ident[z][b] \in 0..Len(rows[z])
  BY <1>5
<1>7. TypeOK
  <2>1. /\ \A z \in Zips : {origin[z], listed[z]} \subseteq 1..Len(Published[z])
        /\ 1 \in Zips \cup {Cardinality(Zips) + 1}
    BY <1>1, Numbers DEF Init
  <2>2. /\ pc = "idle" /\ only = FALSE /\ at = 1 /\ malformed = {} /\ run = "none" /\ target = "none"
        /\ legacy = None /\ faults = 0 /\ legacies = 0
    BY DEF Init
  <2>3. partial \in [Zips -> Part \cup {None}]
    BY DEF Init
  <2> QED BY <1>2, <1>3, <1>4, <1>5, <1>6, <2>1, <2>2, <2>3 DEF TypeOK
<1>8. TablesOK /\ LegacyOK /\ Single
  BY <1>1, <1>4, <1>5 DEF Init, TablesOK, LegacyOK, Single
<1>9. RunOK /\ SucceededIsLoaded
  BY DEF Init, RunOK, SucceededIsLoaded, Chosen, Loading
<1> QED BY <1>7, <1>8, <1>9 DEF BInv

LEMMA StepInvariant == BInv /\ [Next]_vars => BInv'
<1> SUFFICES ASSUME BInv, [Next]_vars PROVE BInv'
  OBVIOUS
<1>1. CASE UNCHANGED vars
  <2>1. UNCHANGED <<origin, listed, partial, rows, children, record, ident, beside, pc, only, item, at,
                    malformed, run, target, legacy, faults, legacies>>
    BY <1>1 DEF vars, tables, sync, counters
  <2>2. TypeOK' /\ TablesOK'
    BY <2>1 DEF BInv, TypeOK, TablesOK
  <2> QED BY <2>1, <2>2, SameTables, SameRun DEF BInv, TablesOK
<1>2. CASE \E z \in Zips : Publish(z) \/ Relist(z)
  BY <1>2, WorldStep
<1>3. CASE \E downloadOnly \in BOOLEAN : Discover(downloadOnly)
  BY <1>3, DiscoverStep
<1>4. CASE SyncNext
  BY <1>4, SelectStep, ExtractStep, MoveStep, EvidenceStep, StageStep, NormalizeStep,
     LoadBatchStep, FinishZipStep, RecordZipStep, EndStep DEF SyncNext
<1>5. CASE Fail \/ Kill
  BY <1>5, EndStep
<1>6. CASE \E z \in Zips : \E c \in Lake[z] : LegacyStart(z, c)
  BY <1>6, LegacyStartStep
<1>7. CASE LegacySave \/ LegacyFinish \/ LegacyStop
  BY <1>7, LegacySaveStep, LegacyEndStep
<1> QED BY <1>1, <1>2, <1>3, <1>4, <1>5, <1>6, <1>7 DEF Next

(* BInv holds in every state: it is inductive, and the parts below are its *)
(* conjuncts or follow from them.                                          *)
THEOREM Invariant == Spec => []BInv
BY InitInvariant, StepInvariant, PTL DEF Spec
-----------------------------------------------------------------------------
(* Every variable has its type; a bill's rows are of versions there are,   *)
(* and a bill with a record of a version has its child rows.               *)
THEOREM TypeCorrect == Spec => []TypeOK
<1>1. BInv => TypeOK
  BY DEF BInv
<1> QED BY <1>1, Invariant, PTL

(* Only bills load-billstatus wrote can show the rows of two versions.     *)
THEOREM OneVersion == Spec => []OneVersionUnlessBeside
<1>1. BInv => OneVersionUnlessBeside
  <2> SUFFICES ASSUME BInv, NEW z \in Zips, NEW b \in Bills, ~beside[z][b]
               PROVE  ~(Cardinality(children[z][b]) > 1)
    BY DEF OneVersionUnlessBeside
  <2> DEFINE S == children[z][b]
  <2>1. CASE S = {}
    <3>1. Cardinality(S) = 0
      BY <2>1, FS_EmptySet
    <3> QED BY <3>1
  <2>2. CASE S # {}
    <3>1. PICK v \in S : TRUE
      BY <2>2
    <3>2. S = {v}
      BY <3>1 DEF BInv, Single
    <3>3. Cardinality({v}) = 1
      BY FS_Singleton
    <3> QED BY <3>2, <3>3
  <2> QED BY <2>1, <2>2
<1> QED BY <1>1, Invariant, PTL

(* What the ledger calls succeeded has a record of every bill of every     *)
(* zip, at the version the run compared.                                   *)
THEOREM SuccessIsLoaded == Spec => []SucceededIsLoaded
<1>1. BInv => SucceededIsLoaded
  BY DEF BInv
<1> QED BY <1>1, Invariant, PTL

(* Rows of a version go away only where a newer version's record arrives.  *)
THEOREM OnlyReplaced == Spec => ReplacedByNewer
<1> DEFINE Replaced == \A z \in Zips, b \in Bills :
                          \A v \in children[z][b] \ children'[z][b] : \E w \in record'[z][b] : w > v
<1>1. BInv /\ [Next]_vars => [Replaced]_vars
  <2> SUFFICES ASSUME BInv, Next PROVE Replaced
    OBVIOUS
  <2>1. CASE LoadBatch
    BY <2>1, LoadBatchStep
  <2>2. CASE LegacySave
    BY <2>2, LegacySaveStep
  <2>3. CASE ~LoadBatch /\ ~LegacySave
    <3>1. children' = children
      BY <2>3 DEF Next, SyncNext, Publish, Relist, Discover, Select, Extract, RangeRefused, Extracted, Evidence, Stage,
              Normalize, MemberCorrupt, RecordBatch, FinishZip, RecordZip, Checkpoint, Fail, Kill, LegacyStart,
              LegacyFinish, LegacyStop, tables
    <3> QED BY <3>1
  <2> QED BY <2>1, <2>2, <2>3
<1> QED BY <1>1, Invariant, PTL DEF Spec, ReplacedByNewer
=============================================================================
