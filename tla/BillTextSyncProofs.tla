------------------------- MODULE BillTextSyncProofs -------------------------
(***************************************************************************)
(* Theorems about BillTextSync, for any texts, bills, publications, batch  *)
(* size, failures and kills.                                               *)
(***************************************************************************)
EXTENDS BillTextSync, ArtifactRegistryProofs, FiniteSetTheorems

N == Cardinality(Texts)
Told3 == {None, "complete", "partial"}

(* Versions whose bytes are there, and attempts that failed.               *)
FileRow == [status : Usable, checksum : Checksums, virtual : {FALSE}, lake : {FALSE},
            stamp : Nat \cup {None}, verdict : Told3]
FailedRow == [status : {"failed"}, checksum : {None}, virtual : {FALSE}, lake : {FALSE},
              stamp : Nat \cup {None}, verdict : {None}]
FRow == FileRow \cup FailedRow

(* The manifest of some publication so far lists exactly what c holds.     *)
Told(c) == \E p \in 1..origin : Holds[c] = Publications[p].list

(* An XML file has the same bytes in every version and while it is staged, *)
(* and a verdict of a whole zip has its manifest.                          *)
RowsOK ==
    /\ rows \in [Keys -> Seq(FRow)]
    /\ \A m \in Texts : \A i \in UsableVersions(rows[m]) : rows[m][i].checksum = XmlOf[m]
    /\ \A i \in UsableVersions(rows[0]) :
          rows[0][i].verdict = "complete" => Told(rows[0][i].checksum)
StagedOK == \A m \in Texts : partial[m] # None => partial[m].of = XmlOf[m]

(* A record's version holds its text, readable, and its document.          *)
RecordsOK ==
    \A m \in Texts : record[m] # None =>
        /\ record[m].key \in Keys /\ record[m].art \in UsableVersions(rows[record[m].key])
        /\ m \in Readable(rows[record[m].key][record[m].art].checksum)
        /\ record[m].attached =>
              document[m] = [key |-> record[m].key, art |-> record[m].art]

Chosen == {"stage", "normalize", "publish", "committed", "drop", "mark", "done", "checkpoint"}
Judged == Chosen \ {"stage"}
Loading == {"publish", "committed", "drop", "mark", "done"}

(* The version of an item, which no record is ahead of.                    *)
BoundOK(k) ==
    /\ item[k].art \in UsableVersions(rows[k]) /\ item[k].row \in FileRow
    /\ Content(k) = rows[k][item[k].art].checksum
    /\ k = 0 /\ item[k].row.verdict = "complete" => Told(Content(k))
NoneNewer(k) ==
    \A m \in Texts : record[m] # None /\ record[m].key = k => record[m].art <= item[k].art

(* What is not left to load is attached, or the run knows of a flaw.       *)
LoadedOK(k) ==
    /\ item[k].todo \subseteq Holds[Content(k)]
    /\ \A m \in Holds[Content(k)] \ item[k].todo :
          \/ Moved(k, m) /\ record[m].attached
          \/ malformed \/ unknown

(* A whole readable zip has no record but its own texts'.                  *)
Swept ==
    Readable(Content(0)) = Holds[Content(0)] /\ item[0].verdict = "complete" =>
        \A m \in Texts \ Holds[Content(0)] : record[m] # None => record[m].key # 0

RunOK ==
    /\ pc # "idle" => items # {}
    /\ pc = "select" => at = 0
    /\ pc \in {"select", "extract"} => \A k \in items : item[k].head # 0
    /\ pc = "extract" =>
          \A k \in items : k < at \/ item[k].reuse => UsableVersions(rows[k]) # {}
    /\ pc = "evidence" => \A k \in items : UsableVersions(rows[k]) # {}
    /\ pc \in Chosen => \A k \in items : BoundOK(k) /\ NoneNewer(k)
    /\ pc \in Judged /\ 0 \in items /\ item[0].verdict = "complete" => Told(Content(0))
    /\ pc \in Judged => \A k \in items : item[k].verdict # None
    /\ pc \in Loading =>
          /\ at \in items /\ \A k \in items : k < at => item[k].todo = {}
          /\ \A k \in items : LoadedOK(k)
    /\ pc \in {"drop", "mark", "done"} => item[at].todo = {}
    /\ pc = "drop" => Readable(Content(at)) = Holds[Content(at)]
    /\ pc \in {"mark", "done"} /\ at = 0 => Swept
    /\ target = "succeeded" => pc \in {"checkpoint", "idle"}

BInv == TypeOK /\ RowsOK /\ StagedOK /\ RecordsOK /\ RunOK /\ SucceededIsExact

(* The numbers and sets everything is made of.                             *)
LEMMA Numbers ==
    /\ N \in Nat \ {0} /\ Texts = 1..N /\ Keys = 0..N /\ Keys \subseteq Nat
    /\ Len(Publications) \in Nat \ {0}
    /\ \A p \in 1..Len(Publications) :
          /\ Publications[p].zip \in Checksums \cup {None}
          /\ Publications[p].list \subseteq Texts /\ Publications[p].xml \subseteq Texts
    /\ NoChecksum \in Checksums \cup {None} /\ NoChecksum \in Told3
    /\ None # "complete"
<1>1. N \in Nat /\ Texts = 1..N
  BY TextAssumption, FS_CardinalityType DEF N
<1>2. N # 0
  BY <1>1, TextAssumption
<1>3. Keys = 0..N
  BY <1>1 DEF Keys
<1> DEFINE P == [zip : Checksums \cup {None}, list : SUBSET Texts, xml : SUBSET Texts]
<1>4. Publications # <<>> /\ Publications \in Seq(P)
  BY PublicationAssumption
<1> HIDE DEF P
<1>5. Len(Publications) \in Nat \ {0} /\ \A p \in 1..Len(Publications) : Publications[p] \in P
  BY <1>4
<1>6. \A p \in 1..Len(Publications) :
         /\ Publications[p].zip \in Checksums \cup {None}
         /\ Publications[p].list \subseteq Texts /\ Publications[p].xml \subseteq Texts
  BY <1>5 DEF P
<1>7. NoChecksum \in Checksums \cup {None} /\ NoChecksum \in Told3 /\ None # "complete"
  BY TextAssumption DEF Told3
<1>8. Keys \subseteq Nat
  BY <1>1, <1>3
<1> QED BY <1>1, <1>2, <1>3, <1>5, <1>6, <1>7, <1>8

LEMMA RowsAreFiles ==
    /\ FilesOrFailures(FRow) /\ FRow \subseteq TextRow
    /\ \A row \in FileRow : row \in FRow /\ IsFile(row)
    /\ \A row \in FRow : IsFile(row) => row \in FileRow
    /\ \A row \in FRow : row.status \in Usable => row \in FileRow
<1>1. \A row \in FileRow : row \in FRow /\ IsFile(row)
  BY DEF FileRow, FRow, IsFile
<1>2. \A row \in FailedRow : IsFailure(row) /\ ~IsFile(row) /\ row.status \notin Usable
  BY TextAssumption DEF FailedRow, IsFailure, IsFile, Usable
<1>3. FRow \subseteq TextRow
  <2>1. FileRow \subseteq TextRow
    BY DEF FileRow, TextRow, Status, Told3
  <2>2. FailedRow \subseteq TextRow
    BY DEF FailedRow, TextRow, Status, Provisional
  <2> QED BY <2>1, <2>2 DEF FRow
<1> QED BY <1>1, <1>2, <1>3 DEF FilesOrFailures, FRow

(* What a registration puts in the place of a row is a row.                *)
LEMMA RowsMerge ==
    ASSUME NEW old \in FRow, NEW new \in FRow
    PROVE  /\ IsFailure(old) =>
                 Merged(old, new) \in FRow /\ Follows(Merged(old, new), old, new)
           /\ IsFile(old) /\ IsFile(new) /\ new.checksum = old.checksum =>
                 Retried(old, new) \in FRow /\ Follows(Retried(old, new), old, new)
<1>0. NoChecksum = None /\ None \notin Checksums /\ None \in Told3
  BY TextAssumption DEF Told3
<1>1. /\ old.stamp \in Nat \cup {None} /\ old.verdict \in Told3 /\ old.lake = FALSE
      /\ new.stamp \in Nat \cup {None} /\ new.verdict \in Told3
  BY <1>0 DEF FRow, FileRow, FailedRow
<1> DEFINE stamp == IF new.stamp = NoChecksum THEN old.stamp ELSE new.stamp
           verdict == IF new.verdict = NoChecksum THEN old.verdict ELSE new.verdict
<1>2. stamp \in Nat \cup {None} /\ verdict \in Told3
      /\ (verdict = old.verdict \/ verdict = new.verdict)
      /\ (new.verdict # NoChecksum => verdict = new.verdict)
  BY <1>1
<1>3. Merged(old, new) = [new EXCEPT !.stamp = stamp, !.verdict = verdict]
  BY DEF Merged
<1> HIDE DEF stamp, verdict
<1>4. CASE new \in FileRow
  <2>1. Merged(old, new) \in FileRow /\ Retried(old, new) \in FileRow
    BY <1>1, <1>2, <1>3, <1>4 DEF FileRow, Retried
  <2>2. Follows(Merged(old, new), old, new) /\ Follows(Retried(old, new), old, new)
    BY <1>1, <1>2, <1>3, <1>4 DEF FileRow, Retried, Follows
  <2> QED BY <2>1, <2>2 DEF FRow
<1>5. CASE new \in FailedRow
  <2>1. ~IsFile(new)
    BY <1>0, <1>5 DEF FailedRow, IsFile
  <2>2. ASSUME IsFailure(old)
        PROVE  Merged(old, new) \in FailedRow /\ Follows(Merged(old, new), old, new)
    <3>1. verdict = None
      BY <1>0, <1>2, <1>5, <2>2 DEF FailedRow, IsFailure
    <3> QED BY <1>1, <1>2, <1>3, <1>5, <3>1 DEF FailedRow, Follows
  <2> QED BY <2>1, <2>2 DEF FRow
<1> QED BY <1>4, <1>5 DEF FRow

(* The rows the model registers.                                           *)
LEMMA RowsRegistered ==
    /\ \A status \in Usable, c \in Checksums, stamp \in Nat \cup {None}, verdict \in Told3 :
          GovInfoRow(status, c, FALSE, stamp, verdict) \in FileRow
    /\ \A stamp \in Nat \cup {None} :
          GovInfoRow("failed", NoChecksum, FALSE, stamp, None) \in FailedRow
    /\ FileRow \subseteq FRow /\ FailedRow \subseteq FRow
    /\ \A row \in FailedRow : row \notin FileRow /\ row.verdict # "complete"
BY TextAssumption DEF GovInfoRow, FileRow, FailedRow, FRow, Told3, Usable

LEMMA ToldStays ==
    ASSUME origin \in Nat, origin' \in Nat, origin <= origin', NEW c, Told(c)
    PROVE  \E p \in 1..origin' : Holds[c] = Publications[p].list
BY DEF Told

(* A step that leaves the tables alone leaves what they say.               *)
LEMMA SameTables ==
    ASSUME BInv, UNCHANGED <<partial, tables>>, origin' \in Nat, origin <= origin'
    PROVE  RowsOK' /\ StagedOK' /\ RecordsOK'
<1>1. UNCHANGED <<rows, record, document>> /\ origin \in Nat
  BY Numbers DEF tables, BInv, TypeOK
<1>2. RowsOK'
  <2>1. ASSUME NEW i \in UsableVersions(rows'[0]), rows'[0][i].verdict = "complete"
        PROVE  \E p \in 1..origin' : Holds[rows'[0][i].checksum] = Publications[p].list
    <3>1. Told(rows[0][i].checksum)
      BY <1>1, <2>1 DEF BInv, RowsOK
    <3> QED BY <1>1, <3>1, ToldStays
  <2> QED BY <1>1, <2>1 DEF BInv, RowsOK, Told
<1>3. RecordsOK'
  BY <1>1 DEF BInv, RecordsOK, Readable
<1>4. StagedOK'
  BY DEF BInv, StagedOK
<1> QED BY <1>2, <1>3, <1>4

(* A step that moves only the place, the flaws or the ledger.              *)
LEMMA SameItems ==
    ASSUME UNCHANGED <<origin, rows, record, items, item, malformed, unknown>>, RunOK
    PROVE  /\ \A k \in items : BoundOK(k) => BoundOK(k)'
           /\ \A k \in items : NoneNewer(k) => NoneNewer(k)'
           /\ \A k \in items : LoadedOK(k) => LoadedOK(k)'
           /\ Swept => Swept'
           /\ Told(Content(0)) => Told(Content(0))'
BY DEF BoundOK, NoneNewer, LoadedOK, Moved, Content, Told, Swept

LEMMA WorldStep ==
    ASSUME BInv, Publish \/ \E b \in Bills : BillSaved(b)
    PROVE  BInv'
<1>1. UNCHANGED <<partial, tables, sync, faults>>
  BY DEF Publish, BillSaved
<1>2. UNCHANGED <<rows, record, document, pc, only, items, item, at, malformed, unknown, run, target>>
  BY <1>1 DEF tables, sync
<1>3. /\ origin' \in 1..Len(Publications) /\ known' \subseteq Bills
      /\ origin \in Nat /\ origin' \in Nat /\ origin <= origin'
  BY Numbers DEF Publish, BillSaved, BInv, TypeOK
<1>4. TypeOK'
  BY <1>1, <1>2, <1>3 DEF BInv, TypeOK
<1>5. RowsOK' /\ StagedOK' /\ RecordsOK'
  BY <1>1, <1>3, SameTables
<1>6. \A c : Told(c) => \E p \in 1..origin' : Holds[c] = Publications[p].list
  BY <1>3, ToldStays
<1>7. RunOK'
  <2>1. \A k \in items : BoundOK(k) => BoundOK(k)'
    BY <1>2, <1>6 DEF BoundOK, Content, Told
  <2>2. (\A k \in items : LoadedOK(k) => LoadedOK(k)') /\ (Swept => Swept')
    BY <1>2 DEF LoadedOK, Moved, Content, Swept
  <2>5. \A k \in items : NoneNewer(k) => NoneNewer(k)'
    BY <1>2 DEF NoneNewer
  <2>3. Told(Content(0)) => Told(Content(0))'
    BY <1>2, <1>6 DEF Told, Content
  <2>4. Content(at)' = Content(at)
    BY <1>2 DEF Content
  <2> QED BY <1>2, <2>1, <2>2, <2>3, <2>4, <2>5 DEF BInv, RunOK
<1>8. SucceededIsExact'
  BY <1>2 DEF BInv, SucceededIsExact, Moved, Content
<1> QED BY <1>4, <1>5, <1>7, <1>8 DEF BInv

LEMMA ContentsAreKnown ==
    ASSUME NEW p \in 1..Len(Publications), NEW k \in Keys
    PROVE  /\ ContentAt(k, p) \in Checksums \cup {None}
           /\ k # 0 /\ ContentAt(k, p) # None => ContentAt(k, p) = XmlOf[k]
<1>1. Publications[p].zip \in Checksums \cup {None}
  BY Numbers
<1>2. k # 0 => XmlOf[k] \in Checksums
  BY ContentAssumption DEF Keys
<1> QED BY <1>1, <1>2 DEF ContentAt

LEMMA OriginIsNat ==
    ASSUME TypeOK
    PROVE  origin \in Nat /\ origin <= origin /\ Served = Publications[origin]
           /\ Served.zip \in Checksums \cup {None}
           /\ Served.list \subseteq Texts /\ Served.xml \subseteq Texts
           /\ \A k \in Keys : ServedContent(k) \in Checksums \cup {None}
           /\ origin \in 1..Len(Publications)
<1>1. origin \in 1..Len(Publications) /\ Len(Publications) \in Nat
  BY Numbers DEF TypeOK
<1>2. Served.zip \in Checksums \cup {None}
      /\ Served.list \subseteq Texts /\ Served.xml \subseteq Texts
  BY <1>1, Numbers DEF Served
<1>3. \A k \in Keys : ServedContent(k) \in Checksums \cup {None}
  BY <1>1, ContentsAreKnown DEF ServedContent
<1> QED BY <1>1, <1>2, <1>3 DEF Served

LEMMA MinOfNumbers ==
    ASSUME NEW S \in SUBSET Nat, S # {}
    PROVE  Min(S) \in S /\ Min(S) \in Nat /\ \A k \in S : Min(S) <= k
<1>1. \E x \in S : \A y \in S : x <= y
  BY LeastExists
<1> QED BY <1>1 DEF Min

LEMMA MinIsLeast ==
    ASSUME NEW S \in SUBSET Keys, S # {}
    PROVE  Min(S) \in S /\ Min(S) \in Nat /\ \A k \in S : Min(S) <= k
<1>1. S \in SUBSET Nat
  BY Numbers
<1> QED BY <1>1, MinOfNumbers

(* What a HEAD is dated is a publication so far.                           *)
LEMMA SinceIsPublication ==
    ASSUME TypeOK, NEW k
    PROVE  Since(k) \in 1..origin /\ Since(k) \in Nat /\ Since(k) # 0
<1> DEFINE S == {p \in 1..origin : \A q \in p..origin : ContentAt(k, q) = ServedContent(k)}
<1>1. origin \in 1..Len(Publications) /\ origin \in Nat /\ origin \in 1..origin
  BY Numbers DEF TypeOK
<1>2. \A q \in origin..origin : q = origin
  BY <1>1
<1>3. origin \in S
  BY <1>1, <1>2 DEF ServedContent
<1>4. S \in SUBSET Nat /\ S # {} /\ S \subseteq 1..origin
  <2>1. S \subseteq 1..origin
    OBVIOUS
  <2>2. 1..origin \subseteq Nat
    BY <1>1
  <2> HIDE DEF S
  <2> QED BY <1>3, <2>1, <2>2
<1> HIDE DEF S
<1>5. Min(S) \in S /\ Min(S) \in Nat
  BY <1>4, MinOfNumbers
<1>6. Since(k) = Min(S)
  BY DEF Since, S
<1> QED BY <1>1, <1>4, <1>5, <1>6

LEMMA DiscoverStep ==
    ASSUME BInv, NEW downloadOnly \in BOOLEAN, Discover(downloadOnly)
    PROVE  BInv'
<1>1. UNCHANGED <<origin, known, partial, tables, faults>> /\ items' = Offered /\ only' = downloadOnly
      /\ malformed' = FALSE /\ unknown' = FALSE /\ target' = "none" /\ at' = 0
      /\ \/ Offered = {} /\ pc' = "idle" /\ run' = "failed"
         \/ Offered # {} /\ pc' = "select" /\ run' = "running"
  BY DEF Discover, Close
<1>2. item' = [k \in Keys |-> IF k \in Offered
                              THEN [Blank EXCEPT !.head = Since(k)] ELSE Blank]
  BY DEF Discover
<1>3. Offered \subseteq Keys /\ (0 \in Offered => Offered = {0})
  BY OriginIsNat, Numbers DEF Offered, Keys, BInv
<1>4. item' \in [Keys -> Item]
  <2>1. Blank \in Item
    BY DEF Blank, Item
  <2>2. \A k \in Keys : [Blank EXCEPT !.head = Since(k)] \in Item
    BY <2>1, SinceIsPublication DEF BInv, Item, Blank
  <2> QED BY <1>2, <2>1, <2>2
<1>5. 0 \in 0..Cardinality(Texts) + 1
  BY Numbers DEF N
<1>6. TypeOK'
  BY <1>1, <1>3, <1>4, <1>5 DEF BInv, TypeOK, tables, Stages
<1>7. RowsOK' /\ StagedOK' /\ RecordsOK'
  BY <1>1, OriginIsNat, SameTables DEF BInv
<1>8. \A k \in items' : item'[k].head # 0
  <2> SUFFICES ASSUME NEW k \in Offered PROVE item'[k].head # 0
    BY <1>1
  <2>1. item'[k].head = Since(k)
    BY <1>2, <1>3 DEF Blank
  <2> QED BY <2>1, SinceIsPublication DEF BInv
<1>9. RunOK' /\ SucceededIsExact'
  BY <1>1, <1>8 DEF RunOK, SucceededIsExact, Chosen, Judged, Loading
<1> QED BY <1>6, <1>7, <1>9 DEF BInv

LEMMA SelectStep ==
    ASSUME BInv, Select
    PROVE  BInv'
<1>1. /\ pc = "select" /\ pc' = "extract"
      /\ UNCHANGED <<origin, known, partial, tables, only, items, at, malformed, unknown, run, target, faults>>
      /\ item' = [k \in Keys |->
            IF k \in items THEN [item[k] EXCEPT !.reuse = Reusable(k)] ELSE item[k]]
  BY DEF Select
<1>2. item \in [Keys -> Item] /\ items \subseteq Keys
  BY DEF BInv, TypeOK
<1>3. item' \in [Keys -> Item] /\ \A k \in items : item'[k].reuse = Reusable(k) /\ item'[k].head = item[k].head
  <2>1. \A k \in Keys : Reusable(k) \in BOOLEAN
    BY DEF Reusable
  <2> QED BY <1>1, <1>2, <2>1 DEF Item
<1>4. TypeOK'
  BY <1>1, <1>3 DEF BInv, TypeOK, tables, Stages
<1>5. RowsOK' /\ StagedOK' /\ RecordsOK'
  BY <1>1, OriginIsNat, SameTables DEF BInv
<1>6. \A k \in items : Reusable(k) => UsableVersions(rows[k]) # {}
  <2> SUFFICES ASSUME NEW k \in items, Reusable(k) PROVE UsableVersions(rows[k]) # {}
    OBVIOUS
  <2>1. rows[k] \in Seq(FRow)
    BY <1>2 DEF BInv, RowsOK
  <2>2. Current(rows[k]) # 0 => Current(rows[k]) \in UsableVersions(rows[k])
    BY <2>1, NewestUsable
  <2> QED BY <2>2 DEF Reusable
<1>7. RunOK'
  <2>1. \A k \in items : k < at \/ item'[k].reuse => UsableVersions(rows[k]) # {}
    <3>1. \A k \in items : ~(k < at)
      BY <1>1, <1>2, Numbers DEF BInv, RunOK
    <3> QED BY <1>3, <1>6, <3>1
  <2> QED BY <1>1, <1>3, <2>1 DEF BInv, RunOK, Chosen, Judged, Loading, tables
<1>8. SucceededIsExact'
  BY <1>1 DEF BInv, RunOK, SucceededIsExact
<1> QED BY <1>4, <1>5, <1>7, <1>8 DEF BInv

(* A registration only adds versions, so whatever exists still does.       *)
RowsGrow ==
    /\ rows' \in [Keys -> Seq(TextRow)]
    /\ \A q \in Keys : \A i \in UsableVersions(rows[q]) :
          i \in UsableVersions(rows'[q]) /\ rows'[q][i].checksum = rows[q][i].checksum

LEMMA FileStep ==
    ASSUME BInv, NEW k \in Keys, NEW new \in FRow,
           k # 0 /\ new \in FileRow => new.checksum = XmlOf[k],
           k = 0 /\ new.verdict = "complete" => Told(new.checksum),
           UNCHANGED <<origin, record, document>>,
           rows' = [rows EXCEPT ![k] = Filed(@, new)]
    PROVE  /\ RowsOK' /\ RecordsOK' /\ RowsGrow
           /\ new \in FileRow => UsableVersions(rows'[k]) # {}
<1> DEFINE rs == rows[k]
<1>1. rs \in Seq(FRow) /\ rows \in [Keys -> Seq(FRow)]
  BY DEF BInv, RowsOK
<1> PICK fs : fs = Filed(rs, new)
  OBVIOUS
<1>2. rows'[k] = fs /\ \A q \in Keys : q # k => rows'[q] = rows[q]
  BY <1>1
<1> HIDE DEF rs
<1>3. /\ FilesOrFailures(FRow)
      /\ \A old \in FRow :
            /\ IsFailure(old) =>
                  Merged(old, new) \in FRow /\ Follows(Merged(old, new), old, new)
            /\ IsFile(old) /\ IsFile(new) /\ new.checksum = old.checksum =>
                  Retried(old, new) \in FRow /\ Follows(Retried(old, new), old, new)
  BY RowsAreFiles, RowsMerge
<1>4. /\ fs \in Seq(FRow)
      /\ \A i \in UsableVersions(rs) :
            i \in UsableVersions(fs) /\ fs[i].checksum = rs[i].checksum
      /\ IsFile(new) => Len(fs) \in UsableVersions(fs)
      /\ \A i \in UsableVersions(fs) :
            \/ i \in UsableVersions(rs) /\ fs[i].verdict = rs[i].verdict
            \/ fs[i].verdict = new.verdict /\ fs[i].checksum = new.checksum
  BY <1>1, <1>3, FiledRows
<1>5. rows' \in [Keys -> Seq(FRow)] /\ rows' \in [Keys -> Seq(TextRow)]
  <2>1. rows' \in [Keys -> Seq(FRow)]
    BY <1>1, <1>2, <1>4
  <2>2. \A q \in Keys : rows'[q] \in Seq(TextRow)
    BY <2>1, RowsAreFiles
  <2> QED BY <2>1, <2>2
<1>6. ASSUME NEW q \in Keys, NEW i \in UsableVersions(rows[q])
      PROVE  i \in UsableVersions(rows'[q]) /\ rows'[q][i].checksum = rows[q][i].checksum
  <2>1. CASE q = k
    BY <1>2, <1>4, <2>1 DEF rs
  <2>2. CASE q # k
    BY <1>2, <2>2
  <2> QED BY <2>1, <2>2
<1>7. RowsOK'
  <2>1. ASSUME NEW m \in Texts, NEW i \in UsableVersions(rows'[m])
        PROVE  rows'[m][i].checksum = XmlOf[m]
    <3>1. m \in Keys /\ m # 0
      BY Numbers DEF Keys
    <3>2. CASE m = k
      <4>1. CASE i \in UsableVersions(rs)
        <5>1. rs[i].checksum = XmlOf[m]
          BY <3>2, <4>1 DEF rs, BInv, RowsOK
        <5> QED BY <1>2, <1>4, <3>2, <4>1, <5>1
      <4>2. CASE fs[i].checksum = new.checksum
        <5>1. fs[i] \in FRow /\ fs[i].status \in Usable
          BY <1>2, <1>4, <2>1, <3>2 DEF UsableVersions
        <5>2. new.checksum \in Checksums
          BY <4>2, <5>1, RowsAreFiles DEF FileRow
        <5>3. new \in FileRow
          BY <5>2, TextAssumption DEF FRow, FailedRow
        <5> QED BY <1>2, <3>1, <3>2, <4>2, <5>3
      <4> QED BY <1>2, <1>4, <2>1, <3>2, <4>1, <4>2
    <3>3. CASE m # k
      BY <1>2, <2>1, <3>1, <3>3 DEF BInv, RowsOK
    <3> QED BY <3>2, <3>3
  <2>2. ASSUME NEW i \in UsableVersions(rows'[0]), rows'[0][i].verdict = "complete"
        PROVE  Told(rows'[0][i].checksum)
    <3>0. 0 \in Keys
      BY DEF Keys
    <3>1. CASE k = 0
      <4>1. CASE i \in UsableVersions(rs) /\ fs[i].verdict = rs[i].verdict
        <5>1. fs[i].checksum = rs[i].checksum /\ rs[i].verdict = "complete"
          BY <1>2, <1>4, <2>2, <3>1, <4>1
        <5>2. Told(rs[i].checksum)
          BY <3>1, <4>1, <5>1 DEF rs, BInv, RowsOK
        <5> QED BY <1>2, <3>1, <5>1, <5>2
      <4>2. CASE fs[i].verdict = new.verdict /\ fs[i].checksum = new.checksum
        BY <1>2, <2>2, <3>1, <4>2
      <4> QED BY <1>2, <1>4, <2>2, <3>1, <4>1, <4>2
    <3>2. CASE k # 0
      BY <1>2, <2>2, <3>0, <3>2 DEF BInv, RowsOK
    <3> QED BY <3>1, <3>2
  <2>3. \A i \in UsableVersions(rows'[0]) : rows'[0][i].verdict = "complete" =>
           \E p \in 1..origin' : Holds[rows'[0][i].checksum] = Publications[p].list
    BY <2>2 DEF Told
  <2> QED BY <1>5, <2>1, <2>3 DEF RowsOK, Told
<1>8. RecordsOK'
  <2> SUFFICES ASSUME NEW m \in Texts, record[m] # None
               PROVE  /\ record[m].key \in Keys
                      /\ record[m].art \in UsableVersions(rows'[record[m].key])
                      /\ m \in Readable(rows'[record[m].key][record[m].art].checksum)
                      /\ record[m].attached =>
                            document[m] = [key |-> record[m].key, art |-> record[m].art]
    BY DEF RecordsOK, Readable
  <2>1. /\ record[m].key \in Keys
        /\ record[m].art \in UsableVersions(rows[record[m].key])
        /\ m \in Readable(rows[record[m].key][record[m].art].checksum)
        /\ record[m].attached =>
              document[m] = [key |-> record[m].key, art |-> record[m].art]
    BY DEF BInv, RecordsOK
  <2>2. /\ record[m].art \in UsableVersions(rows'[record[m].key])
        /\ rows'[record[m].key][record[m].art].checksum
              = rows[record[m].key][record[m].art].checksum
    BY <1>6, <2>1
  <2> QED BY <2>1, <2>2
<1>9. new \in FileRow => UsableVersions(rows'[k]) # {}
  BY <1>2, <1>4, RowsAreFiles
<1> QED BY <1>5, <1>6, <1>7, <1>8, <1>9 DEF RowsGrow

(* What versions a state's rows have, TypeOK says of records too.          *)
LEMMA RecordsHaveType ==
    ASSUME RecordsOK
    PROVE  \A m \in Texts : record[m] # None => record[m].art \in 1..Len(rows[record[m].key])
BY DEF RecordsOK, UsableVersions

(* Staging files hold bytes that were served, XML files' their own.        *)
LEMMA Staged ==
    ASSUME BInv, NEW k \in Keys
    PROVE  /\ Resumable(k) \in Part \cup {None}
           /\ k # 0 /\ Resumable(k) # None => Resumable(k).of = XmlOf[k]
           /\ \A c \in Checksums :
                 /\ Joined(Resumable(k), c) \in Checksums
                 /\ k # 0 /\ c = XmlOf[k] => Joined(Resumable(k), c) = XmlOf[k]
<1>1. partial[k] \in Part \cup {None}
  BY DEF BInv, TypeOK
<1>2. Resumable(k) \in {partial[k], None}
  BY DEF Resumable
<1>3. k # 0 => k \in Texts
  BY DEF Keys
<1>4. k # 0 /\ Resumable(k) # None => Resumable(k).of = XmlOf[k]
  BY <1>2, <1>3 DEF BInv, StagedOK
<1>5. ASSUME NEW c \in Checksums PROVE Joined(Resumable(k), c) \in Checksums
  <2>1. CASE Resumable(k) = None \/ Resumable(k).of = c
    BY <2>1 DEF Joined
  <2>2. CASE Resumable(k) # None /\ Resumable(k).of # c
    <3>1. Resumable(k).of \in Checksums
      BY <1>1, <1>2, <2>2 DEF Part
    <3> QED BY <2>2, <3>1, ContentAssumption DEF Joined
  <2> QED BY <2>1, <2>2
<1>6. ASSUME NEW c \in Checksums, k # 0, c = XmlOf[k] PROVE Joined(Resumable(k), c) = XmlOf[k]
  BY <1>4, <1>6 DEF Joined
<1> QED BY <1>1, <1>2, <1>4, <1>5, <1>6

LEMMA BreakOffStep ==
    ASSUME BInv, NEW k \in items, BreakOff(k)
    PROVE  partial' \in [Keys -> Part \cup {None}] /\ StagedOK'
<1>1. pc = "extract" /\ item[k].head # 0 /\ k \in Keys /\ item[k].head \in Nat
  BY DEF BreakOff, InTransfer, BInv, RunOK, TypeOK, Item
<1> PICK p \in LeftBehind(k) : partial' = [partial EXCEPT ![k] = p]
  BY DEF BreakOff
<1>2. p \in Part \cup {None} /\ (k # 0 /\ p # None => p.of = XmlOf[k])
  <2>1. CASE p \in {Resumable(k), None}
    BY <1>1, <2>1, Staged
  <2>2. CASE \E c \in {ContentAt(k, v) : v \in item[k].head..origin} \ {None} :
               \E n \in (IF Resumable(k) = None THEN 0 ELSE Resumable(k).size) + 1..Size[c] :
                  p = [of |-> Joined(Resumable(k), c), size |-> n, at |-> origin]
    <3> PICK c \in {ContentAt(k, v) : v \in item[k].head..origin} \ {None} :
               \E n \in (IF Resumable(k) = None THEN 0 ELSE Resumable(k).size) + 1..Size[c] :
                  p = [of |-> Joined(Resumable(k), c), size |-> n, at |-> origin]
      BY <2>2
    <3> PICK n \in (IF Resumable(k) = None THEN 0 ELSE Resumable(k).size) + 1..Size[c] :
                  p = [of |-> Joined(Resumable(k), c), size |-> n, at |-> origin]
      OBVIOUS
    <3>1. c \in Checksums /\ (k # 0 => c = XmlOf[k])
      <4>1. PICK v \in item[k].head..origin : c = ContentAt(k, v)
        OBVIOUS
      <4>2. origin \in 1..Len(Publications) /\ Len(Publications) \in Nat
        BY Numbers DEF BInv, TypeOK
      <4>3. v \in 1..Len(Publications)
        BY <1>1, <4>1, <4>2
      <4> QED BY <1>1, <4>1, <4>3, ContentsAreKnown
    <3>2. n \in Nat /\ origin \in Nat
      <4> DEFINE had == IF Resumable(k) = None THEN 0 ELSE Resumable(k).size
      <4>1. had \in Nat /\ n \in had + 1..Size[c]
        BY <1>1, Staged DEF Part
      <4>2. Size[c] \in Nat /\ origin \in Nat
        BY <3>1, ContentAssumption, OriginIsNat DEF BInv
      <4> HIDE DEF had
      <4> QED BY <4>1, <4>2
    <3> QED BY <1>1, <3>1, <3>2, Staged DEF Part
  <2> QED BY <2>1, <2>2 DEF LeftBehind
<1>3. partial' \in [Keys -> Part \cup {None}]
  BY <1>2 DEF BInv, TypeOK
<1>4. StagedOK'
  <2> SUFFICES ASSUME NEW m \in Texts, partial'[m] # None PROVE partial'[m].of = XmlOf[m]
    BY DEF StagedOK
  <2>1. m \in Keys /\ m # 0
    BY Numbers DEF Keys
  <2>2. partial \in [Keys -> Part \cup {None}]
    BY DEF BInv, TypeOK
  <2>3. CASE m = k
    BY <1>1, <1>2, <2>1, <2>2, <2>3
  <2>4. CASE m # k
    BY <2>1, <2>2, <2>4 DEF BInv, StagedOK
  <2> QED BY <2>3, <2>4
<1> QED BY <1>3, <1>4

LEMMA ExtractStep ==
    ASSUME BInv, Extract
    PROVE  BInv'
<1> PICK k \in items :
        /\ InTransfer(k) /\ Obtainable(k)
        /\ rows' = [rows EXCEPT ![k] = Filed(@, GovInfoRow("downloaded",
               Joined(Resumable(k), ServedContent(k)), FALSE, item[k].head, None))]
        /\ partial' = [partial EXCEPT ![k] = None]
        /\ at' = k + 1
        /\ UNCHANGED <<pc, run>> \/ (pc' = "idle" /\ run' = "failed")
  BY DEF Extract, Close
<1> DEFINE c == Joined(Resumable(k), ServedContent(k))
           new == GovInfoRow("downloaded", c, FALSE, item[k].head, None)
<1>1. /\ pc = "extract" /\ ToFetch # {} /\ k = Min(ToFetch)
      /\ UNCHANGED <<origin, known, record, document, only, items, item, malformed, unknown,
                     target, faults>>
  BY DEF Extract, InTransfer
<1>2. ToFetch \in SUBSET Keys /\ items \subseteq Keys /\ item \in [Keys -> Item]
  BY DEF ToFetch, BInv, TypeOK
<1>3. k \in Keys /\ k \in 0..N /\ \A q \in ToFetch : k <= q
  BY <1>1, <1>2, MinIsLeast, Numbers
<1>4. c \in Checksums /\ (k # 0 => c = XmlOf[k])
  <2>1. origin \in 1..Len(Publications)
    BY DEF BInv, TypeOK
  <2>2. ServedContent(k) \in Checksums /\ (k # 0 => ServedContent(k) = XmlOf[k])
    BY <1>3, <2>1, ContentsAreKnown DEF Obtainable, ServedContent
  <2> QED BY <1>3, <2>2, Staged
<1> HIDE DEF c
<1>5. new \in FileRow /\ new \in FRow /\ new.checksum = c /\ new.verdict # "complete"
  <2>1. "downloaded" \in Usable /\ None \in Told3 /\ item[k].head \in Nat \cup {None}
    BY <1>2, <1>3 DEF Usable, Told3, Item
  <2>2. new \in FileRow
    BY <1>4, <2>1, RowsRegistered
  <2> QED BY <2>2, RowsRegistered, TextAssumption DEF GovInfoRow
<1>6. rows' = [rows EXCEPT ![k] = Filed(@, new)]
  BY DEF c
<1> HIDE DEF new
<1>7. RowsOK' /\ RecordsOK' /\ RowsGrow /\ UsableVersions(rows'[k]) # {}
  BY <1>1, <1>3, <1>4, <1>5, <1>6, FileStep
<1>8. partial' \in [Keys -> Part \cup {None}] /\ StagedOK'
  <2>1. partial \in [Keys -> Part \cup {None}]
    BY DEF BInv, TypeOK
  <2>2. \A m \in Texts : m \in Keys
    BY DEF Keys
  <2> QED BY <2>1, <2>2 DEF BInv, StagedOK
<1>9. at' \in 0..Cardinality(Texts) + 1
  BY <1>3, Numbers DEF N
<1>10. \A m \in Texts : record'[m] # None => record'[m].art \in 1..Len(rows'[record'[m].key])
  BY <1>7 DEF RecordsOK, UsableVersions
<1>11. TypeOK'
  <2>1. /\ origin' \in 1..Len(Publications) /\ known' \subseteq Bills
        /\ record' \in [Texts -> Record \cup {None}] /\ document' \in [Texts -> Source \cup {None}]
        /\ only' \in BOOLEAN /\ items' \subseteq Keys /\ (0 \in items' => items' = {0})
        /\ item' \in [Keys -> Item] /\ {malformed', unknown'} \subseteq BOOLEAN
        /\ target' \in {"none", "partial", "succeeded"} /\ faults' \in 0..MaxFaults
    BY <1>1 DEF BInv, TypeOK
  <2>2. pc' \in Stages \cup {"idle"} /\ run' \in {"none", "running", "failed", "partial", "succeeded"}
    BY DEF BInv, TypeOK
  <2>3. rows' \in [Keys -> Seq(TextRow)]
    BY <1>7 DEF RowsGrow
  <2> QED BY <1>8, <1>9, <1>10, <2>1, <2>2, <2>3 DEF TypeOK
<1>12. pc' = "extract" => \A q \in items : q < at' \/ item[q].reuse => UsableVersions(rows'[q]) # {}
  <2> SUFFICES ASSUME NEW q \in items, q < k + 1 \/ item[q].reuse
               PROVE  UsableVersions(rows'[q]) # {}
    OBVIOUS
  <2>1. CASE q = k \/ UsableVersions(rows[q]) # {}
    BY <1>2, <1>7, <2>1 DEF RowsGrow
  <2>2. CASE q # k /\ UsableVersions(rows[q]) = {}
    <3>1. q \in Nat /\ k \in Nat /\ at \in Nat
      <4>1. q \in Keys /\ k \in Keys /\ Keys \subseteq Nat
        BY <1>2, <1>3, Numbers
      <4>2. at \in 0..N + 1 /\ N \in Nat
        BY Numbers DEF BInv, TypeOK, N
      <4> QED BY <4>1, <4>2
    <3>2. ~(q < at) /\ ~item[q].reuse
      BY <1>1, <2>2 DEF BInv, RunOK
    <3>3. q \in ToFetch
      BY <3>1, <3>2 DEF ToFetch
    <3> QED BY <1>3, <2>2, <3>1, <3>2, <3>3
  <2> QED BY <2>1, <2>2
<1>13. RunOK'
  BY <1>1, <1>12 DEF BInv, RunOK, Chosen, Judged, Loading
<1>14. SucceededIsExact'
  BY <1>1 DEF BInv, RunOK, SucceededIsExact
<1> QED BY <1>7, <1>8, <1>11, <1>13, <1>14 DEF BInv

(* A stage that fails, or stops, leaves what was loaded as it was.         *)
LEMMA HaltStep ==
    ASSUME BInv, RowsOK', RecordsOK', RowsGrow, StagedOK',
           partial' \in [Keys -> Part \cup {None}],
           UNCHANGED <<origin, known, record, document, only, items, item, malformed,
                       unknown, target>>,
           pc' = "idle", run' \in {run, "failed", "partial", "succeeded"},
           faults' \in 0..MaxFaults, at' = at
    PROVE  BInv'
<1>1. \A m \in Texts : record'[m] # None => record'[m].art \in 1..Len(rows'[record'[m].key])
  BY DEF RecordsOK, UsableVersions
<1>2. TypeOK'
  BY <1>1 DEF BInv, TypeOK, RowsGrow
<1>3. RunOK'
  BY DEF BInv, RunOK, Chosen, Judged, Loading
<1>4. SucceededIsExact'
  BY DEF BInv, SucceededIsExact, Moved, Content
<1> QED BY <1>2, <1>3, <1>4 DEF BInv

LEMMA StopStep ==
    ASSUME BInv, UNCHANGED <<origin, known, partial, tables, only, items, item, malformed, unknown, target>>,
           pc' = "idle", run' \in {run, "failed", "partial", "succeeded"},
           faults' \in 0..MaxFaults, at' = at
    PROVE  BInv'
<1>1. UNCHANGED <<rows, record, document>>
  BY DEF tables
<1>2. RowsOK' /\ StagedOK' /\ RecordsOK'
  BY OriginIsNat, SameTables DEF BInv
<1>3. RowsGrow /\ partial' \in [Keys -> Part \cup {None}]
  BY <1>1 DEF BInv, TypeOK, RowsGrow
<1> QED BY <1>1, <1>2, <1>3, HaltStep

LEMMA FailureStep ==
    ASSUME BInv, NEW k \in items, FileFailure(k), UNCHANGED <<origin, record, document>>
    PROVE  RowsOK' /\ RecordsOK' /\ RowsGrow
<1> DEFINE new == GovInfoRow("failed", NoChecksum, FALSE, item[k].head, None)
<1>1. k \in Keys /\ item[k].head \in Nat \cup {None}
  BY DEF BInv, TypeOK, Item
<1>2. new \in FailedRow
  BY <1>1, RowsRegistered
<1>3. rows' = [rows EXCEPT ![k] = Filed(@, new)]
  BY DEF FileFailure
<1> HIDE DEF new
<1>4. new \in FRow /\ new \notin FileRow /\ new.verdict # "complete"
  BY <1>2, RowsRegistered
<1> QED BY <1>1, <1>3, <1>4, FileStep

LEMMA EndStep ==
    ASSUME BInv, Checkpoint \/ Fail \/ Kill \/ DownloadRefused \/ MemberCorrupt
    PROVE  BInv'
<1>1. /\ UNCHANGED <<origin, known, record, document, only, items, item, malformed,
                     unknown, target, at>>
      /\ pc' = "idle"
  BY DEF Checkpoint, Fail, Kill, DownloadRefused, MemberCorrupt, Close, tables
<1>2. run' \in {run, "failed", "partial", "succeeded"}
  BY DEF Checkpoint, Fail, Kill, DownloadRefused, MemberCorrupt, Close
<1>3. faults' \in 0..MaxFaults
  BY BoundAssumption DEF Checkpoint, Fail, Kill, DownloadRefused, MemberCorrupt, BInv, TypeOK
<1>4. RowsOK' /\ RecordsOK' /\ RowsGrow
  <2>1. rows' = rows \/ \E k \in items : FileFailure(k)
    BY DEF Checkpoint, Fail, Kill, DownloadRefused, MemberCorrupt, tables
  <2>2. CASE rows' = rows
    <3>1. RowsOK' /\ RecordsOK'
      BY <1>1, <2>2 DEF BInv, RowsOK, RecordsOK, Told, Readable
    <3>2. RowsGrow
      BY <2>2 DEF BInv, TypeOK, RowsGrow
    <3> QED BY <3>1, <3>2
  <2>3. CASE \E k \in items : FileFailure(k)
    BY <1>1, <2>3, FailureStep
  <2> QED BY <2>1, <2>2, <2>3
<1>5. partial' \in [Keys -> Part \cup {None}] /\ StagedOK'
  <2>1. partial' = partial \/ (\E k \in items : BreakOff(k))
        \/ \E k \in items : partial' = [partial EXCEPT ![k] = Resumable(k)]
    BY DEF Checkpoint, Fail, Kill, DownloadRefused, MemberCorrupt
  <2>2. CASE partial' = partial
    BY <2>2 DEF BInv, TypeOK, StagedOK
  <2>3. CASE \E k \in items : BreakOff(k)
    BY <2>3, BreakOffStep
  <2>4. ASSUME NEW k \in items, partial' = [partial EXCEPT ![k] = Resumable(k)]
        PROVE  partial' \in [Keys -> Part \cup {None}] /\ StagedOK'
    <3>1. k \in Keys /\ partial \in [Keys -> Part \cup {None}]
      BY DEF BInv, TypeOK
    <3>2. Resumable(k) \in Part \cup {None}
          /\ (k # 0 /\ Resumable(k) # None => Resumable(k).of = XmlOf[k])
      BY <3>1, Staged
    <3>3. StagedOK'
      <4> SUFFICES ASSUME NEW m \in Texts, partial'[m] # None PROVE partial'[m].of = XmlOf[m]
        BY DEF StagedOK
      <4>1. m \in Keys /\ m # 0
        BY Numbers DEF Keys
      <4>2. CASE m = k
        BY <2>4, <3>1, <3>2, <4>1, <4>2
      <4>3. CASE m # k
        BY <2>4, <3>1, <4>1, <4>3 DEF BInv, StagedOK
      <4> QED BY <4>2, <4>3
    <3> QED BY <2>4, <3>1, <3>2, <3>3
  <2> QED BY <2>1, <2>2, <2>3, <2>4
<1> QED BY <1>1, <1>2, <1>3, <1>4, <1>5, HaltStep

LEMMA EvidenceStep ==
    ASSUME BInv, Evidence
    PROVE  BInv'
<1> DEFINE bound == [k \in Keys |-> IF k \in items
                        THEN [item[k] EXCEPT !.art = Current(rows[k]), !.row = CurrentFile(rows[k])]
                        ELSE item[k]]
<1>1. /\ pc = "evidence"
      /\ UNCHANGED <<origin, known, partial, tables, only, items, at, malformed, unknown, target, faults>>
      /\ \/ pc' = "stage" /\ run' = run /\ item' = bound
         \/ pc' = "idle" /\ run' = "failed" /\ item' = item
  BY DEF Evidence, Close
<1>2. CASE pc' = "idle" /\ run' = "failed" /\ item' = item
  <2>1. faults' \in 0..MaxFaults
    BY <1>1 DEF BInv, TypeOK
  <2> QED BY <1>1, <1>2, <2>1, StopStep
<1>3. CASE pc' = "stage" /\ run' = run /\ item' = bound
  <2>1. items \subseteq Keys /\ item \in [Keys -> Item] /\ UNCHANGED <<rows, record, document>>
    BY <1>1 DEF BInv, TypeOK, tables
  <2>2. ASSUME NEW k \in items
        PROVE  /\ Current(rows[k]) \in UsableVersions(rows[k]) /\ Current(rows[k]) \in Nat
               /\ \A i \in UsableVersions(rows[k]) : i <= Current(rows[k])
               /\ CurrentFile(rows[k]) \in FileRow
               /\ CurrentFile(rows[k]) = rows[k][Current(rows[k])]
    <3>1. k \in Keys /\ rows[k] \in Seq(FRow) /\ UsableVersions(rows[k]) # {}
      BY <1>1, <2>1 DEF BInv, RowsOK, RunOK
    <3>2. /\ Current(rows[k]) \in UsableVersions(rows[k]) /\ Current(rows[k]) \in Nat
          /\ \A i \in UsableVersions(rows[k]) : i <= Current(rows[k])
          /\ CurrentFile(rows[k]) \in FRow /\ IsFile(CurrentFile(rows[k]))
      BY <3>1, CurrentIsFile, RowsAreFiles
    <3> QED BY <3>2, RowsAreFiles DEF CurrentFile
  <2>3. FileRow \subseteq TextRow
    BY DEF FileRow, TextRow, Told3, Status
  <2>4. ASSUME NEW k \in items
        PROVE  [item[k] EXCEPT !.art = Current(rows[k]), !.row = CurrentFile(rows[k])] \in Item
    <3>1. item[k] \in Item /\ Current(rows[k]) \in Nat /\ CurrentFile(rows[k]) \in TextRow \cup {None}
      BY <2>1, <2>2, <2>3
    <3> QED BY <3>1 DEF Item
  <2>5. bound \in [Keys -> Item]
    BY <2>1, <2>4
  <2>6. \A k \in items : bound[k].art = Current(rows[k]) /\ bound[k].row = rows[k][Current(rows[k])]
    BY <2>1, <2>2 DEF Item
  <2> HIDE DEF bound
  <2>7. TypeOK'
    BY <1>1, <1>3, <2>1, <2>5 DEF BInv, TypeOK, Stages
  <2>8. RowsOK' /\ StagedOK' /\ RecordsOK'
    BY <1>1, OriginIsNat, SameTables DEF BInv
  <2>9. \A k \in items : BoundOK(k)'
    <3> SUFFICES ASSUME NEW k \in items PROVE BoundOK(k)'
      OBVIOUS
    <3>1. /\ bound[k].art \in UsableVersions(rows[k]) /\ bound[k].row \in FileRow
          /\ bound[k].row.checksum = rows[k][bound[k].art].checksum
      BY <2>2, <2>6
    <3>2. k = 0 /\ bound[k].row.verdict = "complete" => Told(bound[k].row.checksum)
      BY <2>2, <2>6 DEF BInv, RowsOK
    <3> QED BY <1>1, <1>3, <2>1, <2>6, <3>1, <3>2 DEF BoundOK, Content, Told
  <2>12. \A k \in items : NoneNewer(k)'
    <3> SUFFICES ASSUME NEW k \in items, NEW m \in Texts, record[m] # None, record[m].key = k
                 PROVE  record[m].art <= bound[k].art
      BY <1>1, <1>3, <2>1 DEF NoneNewer
    <3>1. record[m].art \in UsableVersions(rows[k])
      BY DEF BInv, RecordsOK
    <3> QED BY <2>2, <2>6, <3>1
  <2>10. RunOK'
    BY <1>1, <1>3, <2>9, <2>12 DEF BInv, RunOK, Chosen, Judged, Loading
  <2>11. SucceededIsExact'
    BY <1>1 DEF BInv, RunOK, SucceededIsExact
  <2> QED BY <2>7, <2>8, <2>10, <2>11 DEF BInv
<1> QED BY <1>1, <1>2, <1>3

(* The stages that only move on: what they know stays as it was.           *)
LEMMA MoveStep ==
    ASSUME BInv, Extracted \/ RecordBatch \/ ItemLoaded
    PROVE  BInv'
<1>1. /\ UNCHANGED <<origin, known, partial, tables, only, items, item, malformed, unknown, run, faults>>
      /\ at' \in {0, at} /\ pc' \in Stages
  BY DEF Extracted, RecordBatch, ItemLoaded, Stages
<1>2. UNCHANGED <<rows, record, document>>
  BY <1>1 DEF tables
<1>3. at' \in 0..Cardinality(Texts) + 1 /\ target' \in {"none", "partial", "succeeded"}
  BY <1>1, Numbers DEF N, BInv, TypeOK, Extracted, RecordBatch, ItemLoaded
<1>4. TypeOK'
  BY <1>1, <1>2, <1>3 DEF BInv, TypeOK
<1>5. RowsOK' /\ StagedOK' /\ RecordsOK'
  BY <1>1, OriginIsNat, SameTables DEF BInv
<1>6. SucceededIsExact'
  BY <1>1, <1>2 DEF BInv, RunOK, SucceededIsExact, Extracted, RecordBatch, ItemLoaded
<1>7. CASE Extracted
  <2>1. \A k \in items : UsableVersions(rows[k]) # {}
    <3>1. pc = "extract" /\ \A k \in items : ~(k >= at /\ ~item[k].reuse)
      BY <1>7 DEF Extracted, ToFetch
    <3>2. at \in Nat /\ \A k \in items : k \in Nat
      BY Numbers DEF BInv, TypeOK, N
    <3>3. \A k \in items : k < at \/ item[k].reuse
      BY <3>1, <3>2
    <3> QED BY <3>1, <3>3 DEF BInv, RunOK
  <2> QED BY <1>1, <1>2, <1>4, <1>5, <1>6, <1>7, <2>1
          DEF Extracted, BInv, RunOK, Chosen, Judged, Loading
<1>8. CASE RecordBatch \/ ItemLoaded
  <2>1. /\ pc \in Loading /\ pc \in Judged /\ pc \in Chosen
        /\ at' = at /\ pc' \in {"publish", "done", "drop"}
    BY <1>8 DEF RecordBatch, ItemLoaded, Loading, Judged, Chosen
  <2>2. /\ \A k \in items : BoundOK(k)' /\ NoneNewer(k)' /\ LoadedOK(k)'
        /\ 0 \in items /\ item[0].verdict = "complete" => Told(Content(0))'
    BY <1>1, <1>2, <2>1, SameItems DEF BInv, RunOK
  <2>3. Content(at)' = Content(at)
    BY <1>1, <2>1 DEF Content
  <2>4. pc' \in {"drop", "done"} => item[at].todo = {}
    BY <1>8 DEF RecordBatch, ItemLoaded
  <2>5. pc' = "drop" => Readable(Content(at)) = Holds[Content(at)]
    BY <1>8 DEF RecordBatch, ItemLoaded
  <2>6. pc' = "done" /\ at = 0 => Swept'
    BY <1>1, <1>8, <2>3 DEF RecordBatch, ItemLoaded, Swept, Content
  <2>7. target' = "succeeded" => FALSE
    BY <1>8 DEF RecordBatch, ItemLoaded, BInv, RunOK
  <2>8. RunOK'
    BY <1>1, <2>1, <2>2, <2>3, <2>4, <2>5, <2>6, <2>7 DEF BInv, RunOK, Chosen, Judged, Loading
  <2> QED BY <1>4, <1>5, <1>6, <2>8 DEF BInv
<1> QED BY <1>7, <1>8

(* A step that gives items verdicts or work leaves what they are bound to. *)
LEMMA SameVersions ==
    ASSUME UNCHANGED <<origin, rows>>, NEW k, BoundOK(k),
           item'[k].art = item[k].art, item'[k].row = item[k].row
    PROVE  /\ BoundOK(k)' /\ Content(k)' = Content(k)
           /\ UNCHANGED record /\ NoneNewer(k) => NoneNewer(k)'
BY DEF BoundOK, NoneNewer, Content, Told

LEMMA StageStep ==
    ASSUME BInv, Stage
    PROVE  BInv'
<1>1. /\ pc = "stage" /\ pc' = "normalize"
      /\ UNCHANGED <<origin, known, partial, tables, only, items, at, malformed, unknown, run, target, faults>>
      /\ item' = [k \in Keys |->
            IF k \in items THEN [item[k] EXCEPT !.verdict = Verdict(k)] ELSE item[k]]
  BY DEF Stage
<1>2. items \subseteq Keys /\ item \in [Keys -> Item] /\ UNCHANGED <<rows, record, document>>
  BY <1>1 DEF BInv, TypeOK, tables
<1>3. \A k \in items : BoundOK(k) /\ NoneNewer(k)
  BY <1>1 DEF BInv, RunOK, Chosen
<1>4. \A k \in items : Verdict(k) \in {"complete", "partial"}
  BY <1>3 DEF Verdict, BoundOK, FileRow, Told3
<1>5. item' \in [Keys -> Item]
  <2>1. \A k \in items : [item[k] EXCEPT !.verdict = Verdict(k)] \in Item
    BY <1>2, <1>4 DEF Item
  <2> QED BY <1>1, <1>2, <2>1
<1>6. \A k \in items : /\ item'[k].verdict = Verdict(k)
                       /\ item'[k].art = item[k].art /\ item'[k].row = item[k].row
  BY <1>1, <1>2 DEF Item
<1>7. TypeOK'
  BY <1>1, <1>2, <1>5 DEF BInv, TypeOK, Stages
<1>8. RowsOK' /\ StagedOK' /\ RecordsOK'
  BY <1>1, OriginIsNat, SameTables DEF BInv
<1>9. \A k \in items : BoundOK(k)' /\ NoneNewer(k)' /\ Content(k)' = Content(k)
  BY <1>1, <1>2, <1>3, <1>6, SameVersions
<1>10. ASSUME 0 \in items, Verdict(0) = "complete" PROVE Told(Content(0))
  <2>1. CASE item[0].row.verdict = "complete"
    BY <1>3, <1>10, <2>1 DEF BoundOK
  <2>2. CASE Holds[Content(0)] = Served.list
    <3>1. origin \in 1..origin
      BY <1>1, Numbers DEF BInv, TypeOK
    <3> QED BY <2>2, <3>1 DEF Told, Served
  <2> QED BY <1>10, <2>1, <2>2 DEF Verdict
<1>11. 0 \in items /\ item'[0].verdict = "complete" => Told(Content(0))'
  BY <1>1, <1>6, <1>9, <1>10 DEF Told
<1>12. RunOK'
  BY <1>1, <1>4, <1>6, <1>9, <1>11, TextAssumption DEF BInv, RunOK, Chosen, Judged, Loading
<1>13. SucceededIsExact'
  BY <1>1 DEF BInv, RunOK, SucceededIsExact
<1> QED BY <1>7, <1>8, <1>12, <1>13 DEF BInv

LEMMA NormalizeStep ==
    ASSUME BInv, Normalize
    PROVE  BInv'
<1> DEFINE given == [k \in Keys |-> IF k \in items /\ ~only
                        THEN [item[k] EXCEPT !.todo = Holds[Content(k)] \ LoadedMembers(k)]
                        ELSE item[k]]
<1>1. /\ pc = "normalize"
      /\ UNCHANGED <<origin, known, partial, tables, only, items, malformed, unknown, target, faults>>
      /\ \/ pc' = "idle" /\ run' = "failed" /\ item' = item /\ at' = at
         \/ /\ item' = given /\ at' = Min(items) /\ run' = run
            /\ \/ only /\ pc' = "checkpoint"
               \/ ~only /\ pc' = "publish"
  BY DEF Normalize, Close
<1>2. CASE pc' = "idle" /\ run' = "failed" /\ item' = item /\ at' = at
  <2>1. faults' \in 0..MaxFaults
    BY <1>1 DEF BInv, TypeOK
  <2> QED BY <1>1, <1>2, <2>1, StopStep
<1>3. CASE /\ item' = given /\ at' = Min(items) /\ run' = run
           /\ \/ only /\ pc' = "checkpoint"
              \/ ~only /\ pc' = "publish"
  <2>1. /\ items \in SUBSET Keys /\ items # {} /\ item \in [Keys -> Item]
        /\ UNCHANGED <<rows, record, document>> /\ only \in BOOLEAN
    BY <1>1 DEF BInv, TypeOK, RunOK, tables
  <2>2. at' \in items /\ at' \in Nat /\ at' \in 0..Cardinality(Texts) + 1
        /\ \A k \in items : at' <= k
    BY <1>3, <2>1, MinIsLeast, Numbers DEF N
  <2>3. \A k \in items : BoundOK(k) /\ NoneNewer(k)
    BY <1>1 DEF BInv, RunOK, Chosen
  <2>4. ASSUME NEW k \in items
        PROVE  Content(k) \in Checksums /\ Holds[Content(k)] \subseteq Texts
    BY <2>3, ContentAssumption DEF BoundOK, FileRow, Content
  <2>5. item' \in [Keys -> Item]
    <3>1. \A k \in items : [item[k] EXCEPT !.todo = Holds[Content(k)] \ LoadedMembers(k)] \in Item
      BY <2>1, <2>4 DEF Item
    <3> QED BY <1>3, <2>1, <3>1
  <2>6. \A k \in items : /\ item'[k].verdict = item[k].verdict
                         /\ item'[k].art = item[k].art /\ item'[k].row = item[k].row
    BY <1>3, <2>1 DEF Item
  <2>7. ~only => \A k \in items : item'[k].todo = Holds[Content(k)] \ LoadedMembers(k)
    BY <1>3, <2>1 DEF Item
  <2> HIDE DEF given
  <2>8. TypeOK'
    BY <1>1, <1>3, <2>1, <2>2, <2>5 DEF BInv, TypeOK, Stages
  <2>9. RowsOK' /\ StagedOK' /\ RecordsOK'
    BY <1>1, OriginIsNat, SameTables DEF BInv
  <2>10. \A k \in items : BoundOK(k)' /\ NoneNewer(k)' /\ Content(k)' = Content(k)
    BY <1>1, <2>1, <2>3, <2>6, SameVersions
  <2>11. ASSUME ~only, NEW k \in items PROVE LoadedOK(k)'
    <3>1. Content(k)' = Content(k) /\ item'[k].todo = Holds[Content(k)] \ LoadedMembers(k)
      BY <2>7, <2>10, <2>11
    <3>2. \A m \in Holds[Content(k)] \ item'[k].todo : Moved(k, m) /\ record[m].attached
      BY <3>1 DEF LoadedMembers
    <3>3. \A m : Moved(k, m)' <=> Moved(k, m)
      BY <2>1, <2>6 DEF Moved
    <3> QED BY <2>1, <3>1, <3>2, <3>3 DEF LoadedOK
  <2>12. 0 \in items /\ item'[0].verdict = "complete" => Told(Content(0))'
    BY <1>1, <2>6, <2>10 DEF Told, BInv, RunOK, Judged, Chosen
  <2>13. \A k \in items : ~(k < at')
    BY <2>1, <2>2, Numbers
  <2>14. \A k \in items : item'[k].verdict # None
    BY <1>1, <2>6 DEF BInv, RunOK, Judged, Chosen
  <2>15. target' # "succeeded"
    BY <1>1 DEF BInv, RunOK
  <2>16. RunOK'
    BY <1>1, <1>3, <2>1, <2>2, <2>10, <2>11, <2>12, <2>13, <2>14, <2>15
       DEF RunOK, Chosen, Judged, Loading
  <2> QED BY <2>8, <2>9, <2>15, <2>16 DEF BInv, SucceededIsExact
<1> QED BY <1>1, <1>2, <1>3

(* The zip comes alone, and the other items hold one text each, their own. *)
LEMMA ItemsAreApart ==
    ASSUME BInv, NEW k \in items, BoundOK(k)
    PROVE  /\ Content(k) \in Checksums /\ Holds[Content(k)] \subseteq Texts
           /\ k # 0 => Content(k) = XmlOf[k] /\ Holds[Content(k)] = {k} /\ k \in Texts
           /\ k = 0 => items = {0}
           /\ item[k].art \in 1..Len(rows[k]) /\ item[k].art \in Nat \ {0}
           /\ item[k].art \in UsableVersions(rows[k])
<1>1. k \in Keys /\ (k = 0 => items = {0}) /\ (k # 0 => k \in Texts)
  BY DEF BInv, TypeOK, Keys
<1>2. rows[k] \in Seq(FRow) /\ item[k].art \in UsableVersions(rows[k])
      /\ Content(k) = rows[k][item[k].art].checksum
  BY <1>1 DEF BInv, RowsOK, BoundOK
<1>3. item[k].art \in 1..Len(rows[k]) /\ rows[k][item[k].art].status \in Usable
  BY <1>2 DEF UsableVersions
<1>4. rows[k][item[k].art] \in FRow
  BY <1>2, <1>3
<1>5. Content(k) \in Checksums /\ Holds[Content(k)] \subseteq Texts
  BY <1>2, <1>3, <1>4, RowsAreFiles, ContentAssumption DEF FileRow
<1>6. k # 0 => Content(k) = XmlOf[k] /\ Holds[Content(k)] = {k}
  <2>1. k # 0 => rows[k][item[k].art].checksum = XmlOf[k]
    BY <1>1, <1>2 DEF BInv, RowsOK
  <2> QED BY <1>1, <1>2, <2>1, ContentAssumption
<1> QED BY <1>1, <1>2, <1>3, <1>5, <1>6

LEMMA LoadBatchStep ==
    ASSUME BInv, LoadBatch
    PROVE  BInv'
<1> DEFINE good == Batch \cap Readable(Content(at))
           bad == Batch \ good
           fresh == {m \in good : BillOf[m] \in known}
<1>1. /\ pc = "publish" /\ pc' = "committed"
      /\ UNCHANGED <<origin, known, partial, rows, only, items, at, run, target, faults>>
      /\ record' = [m \in Texts |-> IF m \in good THEN Saved(m) ELSE record[m]]
      /\ document' = [m \in Texts |-> IF m \in fresh THEN Here ELSE document[m]]
      /\ malformed' = (malformed \/ bad # {})
      /\ unknown' = (unknown \/ good # fresh)
      /\ item' = [item EXCEPT ![at].todo = @ \ Batch]
  BY DEF LoadBatch, UpsertedDocument
<1>2. /\ items \subseteq Keys /\ at \in items /\ at \in Keys /\ item \in [Keys -> Item]
      /\ \A k \in items : BoundOK(k) /\ NoneNewer(k) /\ LoadedOK(k)
      /\ \A k \in items : k < at => item[k].todo = {}
  BY <1>1 DEF BInv, TypeOK, RunOK, Chosen, Loading
<1>3. /\ Content(at) \in Checksums /\ Holds[Content(at)] \subseteq Texts
      /\ item[at].art \in 1..Len(rows[at]) /\ item[at].art \in Nat \ {0}
      /\ item[at].art \in UsableVersions(rows[at])
      /\ Content(at) = rows[at][item[at].art].checksum
      /\ at # 0 => Holds[Content(at)] = {at}
      /\ at = 0 => items = {0}
  <2>1. rows[at] \in Seq(FRow)
    BY <1>2 DEF BInv, RowsOK
  <2> QED BY <1>2, <2>1, ItemsAreApart DEF BoundOK
<1>4. Batch \subseteq item[at].todo /\ good \subseteq Batch
      /\ \A m \in good : m \in Readable(Content(at)) /\ m \in Holds[Content(at)] /\ m \in Texts
  BY <1>3 DEF Batch, Readable
<1>5. \A m \in Texts : IF m \in good THEN record'[m] = Saved(m) ELSE record'[m] = record[m]
  BY <1>1
<1>6. \A m \in Texts : IF m \in fresh THEN document'[m] = Here ELSE document'[m] = document[m]
  BY <1>1
<1>7. \A k \in items : /\ item'[k].verdict = item[k].verdict
                       /\ item'[k].art = item[k].art /\ item'[k].row = item[k].row
                       /\ k # at => item'[k].todo = item[k].todo
  BY <1>1, <1>2 DEF Item
<1>8. item'[at].todo = item[at].todo \ Batch /\ item' \in [Keys -> Item]
  BY <1>1, <1>2 DEF Item
<1>9. \A m \in good : /\ Saved(m) # None
                      /\ Saved(m).key = at /\ Saved(m).art = item[at].art
                      /\ Saved(m).attached = (BillOf[m] \in known)
                      /\ Saved(m) \in Record
  <2>1. \A m \in good : Saved(m) \in Record
    BY <1>2, <1>3 DEF Saved, Record
  <2> QED BY <2>1, TextAssumption DEF Saved
<1>10. Here = [key |-> at, art |-> item[at].art] /\ Here \in Source
  BY <1>2, <1>3 DEF Here, Source
<1> HIDE DEF good, bad, fresh
<1>11. TypeOK'
  <2>1. record' \in [Texts -> Record \cup {None}]
    BY <1>1, <1>9 DEF BInv, TypeOK
  <2>2. document' \in [Texts -> Source \cup {None}]
    BY <1>1, <1>10 DEF BInv, TypeOK
  <2>3. \A m \in Texts : record'[m] # None => record'[m].art \in 1..Len(rows[record'[m].key])
    BY <1>3, <1>5, <1>9 DEF BInv, TypeOK
  <2>4. {malformed', unknown'} \subseteq BOOLEAN
    BY <1>1 DEF BInv, TypeOK
  <2> QED BY <1>1, <1>8, <2>1, <2>2, <2>3, <2>4 DEF BInv, TypeOK, Stages
<1>12. RowsOK'
  BY <1>1 DEF BInv, RowsOK, Told
<1>21. StagedOK'
  BY <1>1 DEF BInv, StagedOK
<1>13. RecordsOK'
  <2> SUFFICES ASSUME NEW m \in Texts, record'[m] # None
               PROVE  /\ record'[m].key \in Keys /\ record'[m].art \in UsableVersions(rows[record'[m].key])
                      /\ m \in Readable(rows[record'[m].key][record'[m].art].checksum)
                      /\ record'[m].attached =>
                            document'[m] = [key |-> record'[m].key, art |-> record'[m].art]
    BY <1>1 DEF RecordsOK, Readable
  <2>1. CASE m \in good
    <3>1. record'[m].key = at /\ record'[m].art = item[at].art
          /\ record'[m].attached = (BillOf[m] \in known)
      BY <1>5, <1>9, <2>1
    <3>2. record'[m].attached => document'[m] = [key |-> at, art |-> item[at].art]
      BY <1>6, <1>10, <2>1, <3>1 DEF fresh
    <3>3. m \in Readable(rows[at][item[at].art].checksum)
      BY <1>3, <1>4, <2>1
    <3> QED BY <1>2, <1>3, <3>1, <3>2, <3>3
  <2>2. CASE m \notin good
    <3>1. record'[m] = record[m] /\ document'[m] = document[m]
      BY <1>5, <1>6, <2>2 DEF fresh
    <3> QED BY <3>1 DEF BInv, RecordsOK
  <2> QED BY <2>1, <2>2
<1>14. \A k \in items : BoundOK(k)' /\ Content(k)' = Content(k)
  BY <1>1, <1>2, <1>7, SameVersions
<1>22. \A k \in items : NoneNewer(k)'
  <2> SUFFICES ASSUME NEW k \in items, NEW m \in Texts, record'[m] # None, record'[m].key = k
               PROVE  record'[m].art <= item'[k].art
    BY <1>1 DEF NoneNewer
  <2>1. CASE m \in good
    <3>1. record'[m].key = at /\ record'[m].art = item[at].art
      BY <1>5, <1>9, <2>1
    <3>2. k = at /\ item'[k].art = item[at].art /\ item[at].art <= item[at].art
      BY <1>3, <1>7, <3>1
    <3> QED BY <3>1, <3>2
  <2>2. CASE m \notin good
    BY <1>2, <1>5, <1>7, <2>2 DEF NoneNewer
  <2> QED BY <2>1, <2>2
<1>15. ASSUME NEW k \in items PROVE LoadedOK(k)'
  <2>1. \A m \in Texts \ good : (Moved(k, m) /\ record[m].attached) =>
                                 (Moved(k, m) /\ record[m].attached)'
    BY <1>5, <1>7 DEF Moved
  <2>2. malformed \/ unknown => malformed' \/ unknown'
    BY <1>1
  <2>3. Content(k) \in Checksums /\ Holds[Content(k)] \subseteq Texts
        /\ (k # 0 => Holds[Content(k)] = {k})
    BY <1>2, ItemsAreApart
  <2>4. Content(k)' = Content(k)
    BY <1>14
  <2>5. CASE k = at
    <3>1. ASSUME NEW m \in Holds[Content(k)], m \notin item[at].todo \ Batch
          PROVE  (Moved(k, m) /\ record[m].attached)' \/ malformed' \/ unknown'
      <4>1. CASE m \in good /\ m \in fresh
        <5>1. m \in Texts /\ record'[m] = Saved(m) /\ BillOf[m] \in known
          BY <1>4, <1>5, <4>1 DEF fresh
        <5>2. record'[m].key = at /\ record'[m].art = item'[at].art /\ record'[m].attached
          BY <1>2, <1>7, <1>9, <4>1, <5>1, ZenonT(30)
        <5>3. record'[m] # None
          BY <1>9, <4>1, <5>1
        <5> QED BY <2>5, <5>2, <5>3 DEF Moved
      <4>2. CASE m \in good /\ m \notin fresh
        BY <1>1, <4>2
      <4>3. CASE m \in Batch /\ m \notin good
        BY <1>1, <4>3 DEF bad
      <4>4. CASE m \notin Batch
        BY <1>2, <1>4, <2>1, <2>2, <2>3, <2>5, <3>1, <4>4 DEF LoadedOK
      <4> QED BY <4>1, <4>2, <4>3, <4>4
    <3>2. item[at].todo \ Batch \subseteq Holds[Content(k)]
      BY <1>2, <2>5 DEF LoadedOK
    <3> QED BY <1>8, <2>4, <2>5, <3>1, <3>2 DEF LoadedOK
  <2>6. CASE k # at
    <3>1. k # 0 /\ at # 0
      BY <1>2, <1>3, <2>6 DEF BInv, TypeOK
    <3>2. Holds[Content(k)] \cap good = {}
      BY <1>3, <1>4, <2>3, <2>6, <3>1
    <3>3. item'[k].todo = item[k].todo
      BY <1>7, <2>6
    <3> QED BY <1>2, <2>1, <2>2, <2>3, <2>4, <3>2, <3>3 DEF LoadedOK
  <2> QED BY <2>5, <2>6
<1>16. 0 \in items /\ item'[0].verdict = "complete" => Told(Content(0))'
  BY <1>1, <1>7, <1>14 DEF Told, BInv, RunOK, Judged, Chosen
<1>17. \A k \in items : k < at => item'[k].todo = {}
  <2>1. at \in Nat
    BY <1>2, Numbers
  <2>2. ~(at < at)
    BY <2>1
  <2> QED BY <1>2, <1>7, <2>2
<1>18. \A k \in items : item'[k].verdict # None
  BY <1>1, <1>7 DEF BInv, RunOK, Judged, Chosen
<1>19. target' # "succeeded"
  BY <1>1 DEF BInv, RunOK
<1>20. RunOK'
  BY <1>1, <1>2, <1>14, <1>15, <1>16, <1>17, <1>18, <1>19, <1>22 DEF RunOK, Chosen, Judged, Loading
<1> QED BY <1>11, <1>12, <1>13, <1>19, <1>20, <1>21 DEF BInv, SucceededIsExact

(* A record at the newest version of the zip is of a text that zip holds.  *)
LEMMA NewestHolds ==
    ASSUME BInv, 0 \in items, BoundOK(0), NoneNewer(0), NEW m \in Texts, record[m] # None,
           record[m].key = 0, ~(record[m].art < item[0].art)
    PROVE  m \in Readable(Content(0)) /\ record[m].art = item[0].art
<1>1. record[m].art \in UsableVersions(rows[0]) /\ m \in Readable(rows[0][record[m].art].checksum)
  BY DEF BInv, RecordsOK
<1>2. record[m].art \in Nat /\ item[0].art \in Nat /\ Content(0) = rows[0][item[0].art].checksum
  BY <1>1, ItemsAreApart DEF UsableVersions, BoundOK
<1>3. record[m].art <= item[0].art
  BY DEF NoneNewer
<1>4. record[m].art = item[0].art
  BY <1>2, <1>3
<1> QED BY <1>1, <1>2, <1>4

LEMMA DropStep ==
    ASSUME BInv, Drop
    PROVE  BInv'
<1>1. /\ pc = "drop" /\ pc' = "mark"
      /\ UNCHANGED <<origin, known, partial, rows, document, only, items, item, at,
                     malformed, unknown, run, target, faults>>
      /\ record' = [m \in Texts |-> IF MayDrop /\ Gone(m) THEN None ELSE record[m]]
  BY DEF Drop
<1>2. /\ items \subseteq Keys /\ at \in items /\ (0 \in items => items = {0})
      /\ \A k \in items : BoundOK(k) /\ NoneNewer(k) /\ LoadedOK(k)
      /\ \A k \in items : k < at => item[k].todo = {}
      /\ item[at].todo = {} /\ Readable(Content(at)) = Holds[Content(at)]
  BY <1>1 DEF BInv, TypeOK, RunOK, Chosen, Loading
<1>3. \A m \in Texts : \/ record'[m] = record[m]
                       \/ record'[m] = None /\ MayDrop /\ Gone(m)
  BY <1>1
<1>4. TypeOK'
  <2>1. record' \in [Texts -> Record \cup {None}]
    BY <1>1 DEF BInv, TypeOK
  <2>2. \A m \in Texts : record'[m] # None => record'[m].art \in 1..Len(rows[record'[m].key])
    BY <1>3 DEF BInv, TypeOK
  <2> QED BY <1>1, <2>1, <2>2 DEF BInv, TypeOK, Stages
<1>5. RowsOK' /\ StagedOK'
  BY <1>1 DEF BInv, RowsOK, StagedOK, Told
<1>6. RecordsOK'
  <2> SUFFICES ASSUME NEW m \in Texts, record'[m] # None
               PROVE  /\ record'[m].key \in Keys /\ record'[m].art \in UsableVersions(rows[record'[m].key])
                      /\ m \in Readable(rows[record'[m].key][record'[m].art].checksum)
                      /\ record'[m].attached =>
                            document[m] = [key |-> record'[m].key, art |-> record'[m].art]
    BY <1>1 DEF RecordsOK, Readable
  <2>1. record'[m] = record[m]
    BY <1>3
  <2> QED BY <2>1 DEF BInv, RecordsOK
<1>7. \A k \in items : BoundOK(k)' /\ Content(k)' = Content(k)
  BY <1>1, <1>2, SameVersions
<1>14. \A k \in items : NoneNewer(k)'
  BY <1>1, <1>2, <1>3 DEF NoneNewer
<1>8. ASSUME NEW k \in items, NEW m \in Texts, Moved(k, m)
      PROVE  record'[m] = record[m]
  <2> SUFFICES ASSUME MayDrop, Gone(m) PROVE FALSE
    BY <1>3
  <2>1. at = 0 /\ k = 0
    BY <1>2 DEF MayDrop
  <2>2. record[m].art = item[0].art /\ record[m].art < item[0].art
    BY <2>1, <1>8 DEF Moved, Gone
  <2>3. item[0].art \in Nat
    BY <1>2, <2>1 DEF BInv, TypeOK, Item
  <2> QED BY <2>2, <2>3
<1>9. ASSUME NEW k \in items PROVE LoadedOK(k)'
  <2>1. Content(k)' = Content(k) /\ Holds[Content(k)] \subseteq Texts
    BY <1>2, <1>7, ItemsAreApart
  <2>2. \A m \in Texts : Moved(k, m) /\ record[m].attached => (Moved(k, m) /\ record[m].attached)'
    BY <1>1, <1>8 DEF Moved
  <2> QED BY <1>1, <1>2, <2>1, <2>2 DEF LoadedOK
<1>10. at = 0 => Swept'
  <2> SUFFICES ASSUME at = 0, item[0].verdict = "complete", NEW m \in Texts \ Holds[Content(0)],
                      record'[m] # None, record'[m].key = 0
               PROVE  FALSE
    BY <1>1 DEF Swept, Content
  <2>1. record'[m] = record[m] /\ ~Gone(m)
    BY <1>1, <1>3 DEF MayDrop
  <2>2. ~(record[m].art < item[0].art)
    BY <2>1 DEF Gone
  <2>3. m \in Readable(Content(0))
    BY <1>2, <2>1, <2>2, NewestHolds
  <2> QED BY <2>3 DEF Readable
<1>11. 0 \in items /\ item'[0].verdict = "complete" => Told(Content(0))'
  BY <1>1, <1>7 DEF Told, BInv, RunOK, Judged, Chosen
<1>12. target' # "succeeded" /\ \A k \in items : item'[k].verdict # None
  BY <1>1 DEF BInv, RunOK, Judged, Chosen
<1>13. RunOK'
  BY <1>1, <1>2, <1>7, <1>9, <1>10, <1>11, <1>12, <1>14 DEF RunOK, Chosen, Judged, Loading
<1> QED BY <1>4, <1>5, <1>6, <1>12, <1>13 DEF BInv, SucceededIsExact

LEMMA MarkStep ==
    ASSUME BInv, Mark
    PROVE  BInv'
<1> DEFINE c == Content(at)
           verdict == item[at].verdict
           new == GovInfoRow("loaded", c, FALSE, None, verdict)
<1>1. /\ pc = "mark" /\ pc' = "done"
      /\ UNCHANGED <<origin, known, partial, record, document, only, items, item, at,
                     malformed, unknown, run, target, faults>>
      /\ rows' = rows \/ rows' = [rows EXCEPT ![at] = Filed(@, new)]
  BY DEF Mark
<1>2. /\ items \subseteq Keys /\ at \in items /\ at \in Keys /\ (0 \in items => items = {0})
      /\ \A k \in items : BoundOK(k) /\ NoneNewer(k) /\ LoadedOK(k)
      /\ \A k \in items : k < at => item[k].todo = {}
      /\ item[at].todo = {} /\ (at = 0 => Swept) /\ target # "succeeded"
      /\ \A k \in items : item[k].verdict # None
  BY <1>1 DEF BInv, TypeOK, RunOK, Chosen, Judged, Loading
<1>3. c \in Checksums /\ (at # 0 => c = XmlOf[at])
  BY <1>2, ItemsAreApart
<1>4. verdict \in Told3 /\ (at = 0 /\ verdict = "complete" => Told(c))
  BY <1>1, <1>2 DEF BInv, TypeOK, Item, Told3, RunOK, Judged, Chosen
<1> HIDE DEF c, verdict
<1>5. new \in FRow /\ new.checksum = c /\ new.verdict = verdict
  <2>1. "loaded" \in Usable /\ None \in Nat \cup {None}
    BY DEF Usable
  <2> QED BY <1>3, <1>4, <2>1, RowsRegistered DEF GovInfoRow
<1> HIDE DEF new
<1>6. RowsOK' /\ StagedOK' /\ RecordsOK' /\ RowsGrow
  <2>0. StagedOK'
    BY <1>1 DEF BInv, StagedOK
  <2>1. CASE rows' = rows
    <3>1. RowsOK' /\ RecordsOK'
      BY <1>1, <2>1, OriginIsNat, SameTables DEF BInv, tables
    <3> QED BY <2>0, <2>1, <3>1 DEF BInv, TypeOK, RowsGrow
  <2>2. CASE rows' = [rows EXCEPT ![at] = Filed(@, new)]
    <3>1. RowsOK' /\ RecordsOK' /\ RowsGrow
      <4> PICK k \in Keys : k = at
        BY <1>2
      <4>1. /\ k # 0 /\ new \in FileRow => new.checksum = XmlOf[k]
            /\ k = 0 /\ new.verdict = "complete" => Told(new.checksum)
            /\ UNCHANGED <<origin, record, document>>
            /\ rows' = [rows EXCEPT ![k] = Filed(@, new)]
        BY <1>1, <1>3, <1>4, <1>5, <2>2
      <4> QED BY <1>5, <4>1, FileStep
    <3> QED BY <2>0, <3>1
  <2> QED BY <1>1, <2>1, <2>2
<1>7. TypeOK'
  <2>1. \A m \in Texts : record'[m] # None => record'[m].art \in 1..Len(rows'[record'[m].key])
    BY <1>6 DEF RecordsOK, UsableVersions
  <2> QED BY <1>1, <1>6, <2>1 DEF BInv, TypeOK, Stages, RowsGrow
<1>8. ASSUME NEW k \in items PROVE BoundOK(k)'
  <2>1. BoundOK(k) /\ k \in Keys /\ item[k].art \in UsableVersions(rows[k])
    BY <1>2, ItemsAreApart
  <2>2. item[k].art \in UsableVersions(rows'[k])
        /\ rows'[k][item[k].art].checksum = rows[k][item[k].art].checksum
    BY <1>6, <2>1 DEF RowsGrow
  <2> QED BY <1>1, <2>1, <2>2 DEF BoundOK, Content, Told
<1>9. /\ \A k \in items : LoadedOK(k)' /\ NoneNewer(k)'
      /\ at = 0 => Swept'
      /\ Content(0)' = Content(0)
  BY <1>1, <1>2 DEF LoadedOK, NoneNewer, Moved, Content, Swept
<1>10. 0 \in items /\ item'[0].verdict = "complete" => Told(Content(0))'
  BY <1>1, <1>9 DEF Told, BInv, RunOK, Judged, Chosen
<1>11. RunOK'
  BY <1>1, <1>2, <1>8, <1>9, <1>10 DEF RunOK, Chosen, Judged, Loading
<1> QED BY <1>1, <1>2, <1>6, <1>7, <1>11 DEF BInv, SucceededIsExact

LEMMA RecordItemStep ==
    ASSUME BInv, RecordItem
    PROVE  BInv'
<1>1. /\ pc = "done"
      /\ target' = IF Left # {} \/ Partial THEN "partial" ELSE "succeeded"
      /\ at' = IF Left # {} THEN Min(Left) ELSE at
      /\ pc' = IF Left # {} THEN "publish" ELSE "checkpoint"
      /\ UNCHANGED <<origin, known, partial, tables, only, items, item, malformed, unknown, run, faults>>
  BY DEF RecordItem
<1>2. /\ items \subseteq Keys /\ at \in items /\ (0 \in items => items = {0})
      /\ \A k \in items : BoundOK(k) /\ NoneNewer(k) /\ LoadedOK(k)
      /\ \A k \in items : k < at => item[k].todo = {}
      /\ item[at].todo = {} /\ (at = 0 => Swept)
      /\ \A k \in items : item[k].verdict # None
      /\ item \in [Keys -> Item] /\ malformed \in BOOLEAN /\ unknown \in BOOLEAN
  BY <1>1 DEF BInv, TypeOK, RunOK, Chosen, Judged, Loading
<1>3. UNCHANGED <<rows, record, document>>
  BY <1>1 DEF tables
<1>4. at \in Nat /\ \A k \in items : k \in Nat
  BY <1>2, Numbers
<1>5. \A k \in items : ~(k > at) => item[k].todo = {}
  <2>1. \A k \in items : ~(k > at) => k < at \/ k = at
    BY <1>4
  <2> QED BY <1>2, <2>1
<1>6. Left # {} => /\ Min(Left) \in Left /\ Min(Left) \in Nat /\ Min(Left) \in items
                  /\ \A k \in Left : Min(Left) <= k
  <2>1. Left \in SUBSET Keys /\ Left \subseteq items
    BY <1>2 DEF Left
  <2> QED BY <2>1, MinIsLeast
<1>7. at' \in items /\ at' \in 0..Cardinality(Texts) + 1
  <2>1. at' \in items
    BY <1>1, <1>2, <1>6
  <2> QED BY <1>2, <2>1, Numbers DEF N
<1>8. TypeOK'
  BY <1>1, <1>3, <1>7 DEF BInv, TypeOK, Stages
<1>9. RowsOK' /\ StagedOK' /\ RecordsOK'
  BY <1>1, OriginIsNat, SameTables DEF BInv
<1>10. \A k \in items : BoundOK(k)' /\ NoneNewer(k)' /\ LoadedOK(k)'
  BY <1>1, <1>2, <1>3, SameItems DEF BInv
<1>11. 0 \in items /\ item[0].verdict = "complete" => Told(Content(0))'
  BY <1>1, <1>2, <1>3, SameItems DEF BInv, RunOK, Judged, Chosen
<1>12. Left # {} => \A k \in items : k < at' => item[k].todo = {}
  <2> SUFFICES ASSUME Left # {}, NEW k \in items, k < Min(Left) PROVE item[k].todo = {}
    BY <1>1
  <2>1. k \notin Left
    BY <1>4, <1>6
  <2> QED BY <1>5, <2>1 DEF Left
<1>13. RunOK'
  BY <1>1, <1>2, <1>7, <1>10, <1>11, <1>12 DEF RunOK, Chosen, Judged, Loading
<1>14. ASSUME target' = "succeeded" PROVE SucceededIsExact'
  <2>1. Left = {} /\ ~malformed /\ ~unknown /\ ~Incomplete
    BY <1>1, <1>14 DEF Partial
  <2>2. ASSUME NEW k \in items, NEW m \in Holds[Content(k)]
        PROVE  Moved(k, m) /\ record[m].attached
    <3>1. item[k].todo = {}
      BY <1>5, <2>1 DEF Left
    <3> QED BY <1>2, <2>1, <3>1 DEF LoadedOK
  <2>3. ASSUME 0 \in items, NEW m \in Texts \ Holds[Content(0)], record[m] # None
        PROVE  record[m].key # 0
    <3>1. at = 0 /\ item[0].verdict # None /\ item[0].verdict # "partial"
      BY <1>2, <2>1, <2>3 DEF Incomplete
    <3>2. item[0].verdict = "complete"
      BY <1>2, <3>1 DEF Item
    <3>3. Content(0) \in Checksums /\ Holds[Content(0)] \subseteq Texts
      BY <1>2, <2>3, ItemsAreApart
    <3>4. Readable(Content(0)) = Holds[Content(0)]
      <4> SUFFICES ASSUME NEW u \in Holds[Content(0)] PROVE u \in Readable(Content(0))
        BY DEF Readable
      <4>1. u \in Holds[Content(0)] /\ u \in Texts
        BY <3>3
      <4>2. Moved(0, u)
        BY <2>2, <2>3, <4>1
      <4>3. item[0].art \in Nat /\ ~(item[0].art < item[0].art)
        BY <1>2, <2>3 DEF Item
      <4>4. u \in Readable(Content(0))
        BY <1>2, <2>3, <4>1, <4>2, <4>3, NewestHolds DEF Moved
      <4> QED BY <4>4
    <3> QED BY <1>2, <2>3, <3>1, <3>2, <3>4 DEF Swept
  <2> QED BY <1>1, <1>3, <2>2, <2>3 DEF SucceededIsExact, Moved, Content
<1>15. SucceededIsExact'
  BY <1>14 DEF SucceededIsExact
<1> QED BY <1>8, <1>9, <1>13, <1>15 DEF BInv

LEMMA InitInvariant == Init => BInv
<1> SUFFICES ASSUME Init PROVE BInv
  OBVIOUS
<1>1. 1 \in 1..Len(Publications) /\ 0 \in 0..Cardinality(Texts) + 1 /\ 0 \in 0..MaxFaults
  BY Numbers, BoundAssumption DEF N
<1>2. item \in [Keys -> Item]
  <2>1. Blank \in Item
    BY DEF Blank, Item
  <2> QED BY <2>1 DEF Init
<1>3. TypeOK
  <2>1. rows \in [Keys -> Seq(TextRow)]
    BY DEF Init
  <2>2. record \in [Texts -> Record \cup {None}] /\ document \in [Texts -> Source \cup {None}]
    BY DEF Init
  <2>3. \A m \in Texts : record[m] = None
    BY DEF Init
  <2>4. partial \in [Keys -> Part \cup {None}]
    BY DEF Init
  <2> QED BY <1>1, <1>2, <2>1, <2>2, <2>3, <2>4 DEF Init, TypeOK
<1>4. RowsOK /\ StagedOK
  <2>1. \A k \in Keys : rows[k] = <<>> /\ partial[k] = None
    BY DEF Init
  <2>2. rows \in [Keys -> Seq(FRow)]
    BY DEF Init
  <2>3. UsableVersions(<<>>) = {}
    BY DEF UsableVersions
  <2>4. Texts \subseteq Keys /\ 0 \in Keys
    BY DEF Keys
  <2> QED BY <2>1, <2>2, <2>3, <2>4 DEF RowsOK, StagedOK
<1>5. RecordsOK /\ RunOK /\ SucceededIsExact
  BY DEF Init, RecordsOK, RunOK, SucceededIsExact, Chosen, Judged, Loading
<1> QED BY <1>3, <1>4, <1>5 DEF BInv

LEMMA StepInvariant == BInv /\ [Next]_vars => BInv'
<1> SUFFICES ASSUME BInv, [Next]_vars PROVE BInv'
  OBVIOUS
<1>1. CASE UNCHANGED vars
  <2>1. UNCHANGED <<origin, known, partial, rows, record, document, pc, only, items, item, at,
                    malformed, unknown, run, target, faults>>
    BY <1>1 DEF vars, tables, sync
  <2>2. TypeOK' /\ SucceededIsExact'
    BY <2>1 DEF BInv, TypeOK, SucceededIsExact, Moved, Content
  <2>3. RowsOK' /\ StagedOK' /\ RecordsOK'
    BY <2>1, OriginIsNat, SameTables DEF BInv, tables
  <2>4. /\ \A k \in items : (BoundOK(k) => BoundOK(k)') /\ (NoneNewer(k) => NoneNewer(k)') /\ (LoadedOK(k) => LoadedOK(k)')
        /\ Swept => Swept'
        /\ Told(Content(0)) => Told(Content(0))'
    BY <2>1, SameItems DEF BInv
  <2>5. Content(at)' = Content(at)
    BY <2>1 DEF Content
  <2>6. RunOK'
    BY <2>1, <2>4, <2>5 DEF BInv, RunOK
  <2> QED BY <2>2, <2>3, <2>6 DEF BInv
<1>2. CASE Publish \/ \E b \in Bills : BillSaved(b)
  BY <1>2, WorldStep
<1>3. CASE \E downloadOnly \in BOOLEAN : Discover(downloadOnly)
  BY <1>3, DiscoverStep
<1>4. CASE SyncNext
  BY <1>4, SelectStep, ExtractStep, MoveStep, EvidenceStep, StageStep, NormalizeStep,
     LoadBatchStep, DropStep, MarkStep, RecordItemStep, EndStep DEF SyncNext
<1>5. CASE Fail \/ Kill
  BY <1>5, EndStep
<1> QED BY <1>1, <1>2, <1>3, <1>4, <1>5 DEF Next

(* BInv holds in every state: it is inductive, and the parts below are its *)
(* conjuncts or follow from them.                                          *)
THEOREM Invariant == Spec => []BInv
BY InitInvariant, StepInvariant, PTL DEF Spec
-----------------------------------------------------------------------------
(* Every variable has its type; a record points at a version there is.     *)
THEOREM TypeCorrect == Spec => []TypeOK
<1>1. BInv => TypeOK
  BY DEF BInv
<1> QED BY <1>1, Invariant, PTL

(* A record that is attached has the document of the very version it is    *)
(* from, whatever zips and XML files it moved between.                     *)
THEOREM DocumentsFollow == Spec => []DocumentFollowsRecord
<1>1. BInv => DocumentFollowsRecord
  BY DEF BInv, RecordsOK, DocumentFollowsRecord
<1> QED BY <1>1, Invariant, PTL

(* A ledger that says succeeded has each text of its artifacts at the      *)
(* version it compared, attached to a bill, and of a zip no text more.     *)
THEOREM SuccessIsExact == Spec => []SucceededIsExact
<1>1. BInv => SucceededIsExact
  BY DEF BInv
<1> QED BY <1>1, Invariant, PTL

(* No text's record goes away unless some manifest went without the text.  *)
THEOREM LostIfDelisted == Spec => LostOnlyIfDelisted
<1> DEFINE Kept == \A m \in Texts : record[m] # None /\ record'[m] = None =>
                      \E p \in 1..origin : m \notin Publications[p].list
<1>1. BInv /\ [Next]_vars => [Kept]_vars
  <2> SUFFICES ASSUME BInv, Next, NEW m \in Texts, record[m] # None, record'[m] = None
               PROVE  \E p \in 1..origin : m \notin Publications[p].list
    BY DEF vars, tables
  <2>1. CASE Drop
    <3>1. MayDrop /\ Gone(m)
      BY <2>1 DEF Drop
    <3>2. at = 0 /\ at \in items /\ item[0].verdict = "complete" /\ m \notin Holds[Content(0)]
      BY <2>1, <3>1 DEF MayDrop, Gone, Drop, BInv, RunOK, Loading
    <3>3. Told(Content(0))
      BY <2>1, <3>2 DEF Drop, BInv, RunOK, Judged, Chosen
    <3> QED BY <3>2, <3>3 DEF Told
  <2>2. CASE LoadBatch
    <3>1. \/ record'[m] = record[m]
          \/ record'[m] = Saved(m)
      BY <2>2 DEF LoadBatch
    <3>2. at \in items /\ BoundOK(at)
      BY <2>2 DEF LoadBatch, BInv, RunOK, Chosen, Loading
    <3>3. at \in Keys /\ item[at].art \in 1..Len(rows[at]) /\ rows[at] \in Seq(FRow)
      BY <3>2, ItemsAreApart DEF BInv, TypeOK, RowsOK
    <3>4. Saved(m) \in Record
      BY <3>3 DEF Saved, Record
    <3> QED BY <3>1, <3>4, TextAssumption
  <2>3. CASE ~Drop /\ ~LoadBatch
    <3>1. record' = record
      BY <2>3 DEF Next, SyncNext, Publish, BillSaved, Discover, Select, Extract, DownloadRefused, Extracted, Evidence,
              Stage, Normalize, MemberCorrupt, RecordBatch, ItemLoaded, Mark, RecordItem, Checkpoint, Fail, Kill, tables
    <3> QED BY <3>1
  <2> QED BY <2>1, <2>2, <2>3
<1> QED BY <1>1, Invariant, PTL DEF Spec, LostOnlyIfDelisted
=============================================================================
