----------------------- MODULE ArtifactRegistryProofs -----------------------
(***************************************************************************)
(* What register_artifact does to a version history, for every history,    *)
(* and to the history of a GovInfo artifact, for every history of usable   *)
(* rows.                                                                   *)
(***************************************************************************)
EXTENDS GovInfoArtifacts, WellFoundedInduction, TLAPS

(* The row of the newest version exists in every non-empty history.        *)
LEMMA LatestIsRow ==
    ASSUME NEW rows \in Seq(Row), rows # <<>>
    PROVE  /\ Len(rows) \in DOMAIN rows
           /\ Latest(rows) \in Row
<1>1. Len(rows) \in Nat /\ Len(rows) # 0
  OBVIOUS
<1>2. Len(rows) \in 1..Len(rows)
  BY <1>1
<1> QED BY <1>2 DEF Latest

(* _artifact_action promotes only a provisional newest row and retries     *)
(* only one that carries the same checksum.                                *)
LEMMA ActionCases ==
    ASSUME NEW rows \in Seq(Row), NEW new \in Row, NEW intact
    PROVE  \/ ArtifactAction(rows, new, intact) = "append"
           \/ /\ ArtifactAction(rows, new, intact) = "promote"
              /\ rows # <<>> /\ IsProvisional(Latest(rows))
           \/ /\ ArtifactAction(rows, new, intact) = "retry"
              /\ rows # <<>> /\ ~IsProvisional(Latest(rows))
              /\ new.checksum = Latest(rows).checksum
              /\ new.status \notin Provisional
<1>1. CASE rows = <<>>
  BY <1>1 DEF ArtifactAction
<1>2. CASE rows # <<>> /\ IsProvisional(Latest(rows))
  BY <1>2 DEF ArtifactAction
<1>3. CASE rows # <<>> /\ ~IsProvisional(Latest(rows))
  BY <1>3 DEF ArtifactAction
<1> QED BY <1>1, <1>2, <1>3

(* A registration appends the new row, puts it in the place of a           *)
(* provisional newest row, or changes the newest row's status.             *)
LEMMA RegisteredCases ==
    ASSUME NEW rows \in Seq(Row), NEW new \in Row, NEW intact
    PROVE  \/ Registered(rows, new, intact) = Append(rows, new)
           \/ /\ rows # <<>> /\ IsProvisional(Latest(rows))
              /\ Registered(rows, new, intact) = [rows EXCEPT ![Len(rows)] = new]
           \/ /\ rows # <<>> /\ ~IsProvisional(Latest(rows))
              /\ new.status \notin Provisional
              /\ Registered(rows, new, intact) =
                    [rows EXCEPT ![Len(rows)].status = new.status]
<1>1. CASE ArtifactAction(rows, new, intact) = "append"
  BY <1>1 DEF Registered
<1>2. CASE /\ ArtifactAction(rows, new, intact) = "promote"
           /\ rows # <<>> /\ IsProvisional(Latest(rows))
  BY <1>2 DEF Registered
<1>3. CASE /\ ArtifactAction(rows, new, intact) = "retry"
           /\ rows # <<>> /\ ~IsProvisional(Latest(rows))
           /\ new.status \notin Provisional
  BY <1>3 DEF Registered
<1> QED BY <1>1, <1>2, <1>3, ActionCases

(* A registration yields a history that is no shorter.                     *)
LEMMA RegisteredType ==
    ASSUME NEW rows \in Seq(Row), NEW new \in Row, NEW intact
    PROVE  /\ Registered(rows, new, intact) \in Seq(Row)
           /\ DOMAIN rows \subseteq DOMAIN Registered(rows, new, intact)
<1> DEFINE n == Len(rows)
<1>1. CASE Registered(rows, new, intact) = Append(rows, new)
  BY <1>1
<1>2. CASE rows # <<>> /\ Registered(rows, new, intact) = [rows EXCEPT ![n] = new]
  BY <1>2, LatestIsRow
<1>3. CASE /\ rows # <<>>
           /\ Registered(rows, new, intact) = [rows EXCEPT ![n].status = new.status]
  <2>1. n \in DOMAIN rows /\ rows[n] \in Row
    BY <1>3, LatestIsRow DEF Latest
  <2>2. [rows[n] EXCEPT !.status = new.status] \in Row
    BY <2>1 DEF Row
  <2>3. Registered(rows, new, intact)
           = [rows EXCEPT ![n] = [rows[n] EXCEPT !.status = new.status]]
    BY <1>3
  <2> QED BY <2>1, <2>2, <2>3
<1> QED BY <1>1, <1>2, <1>3, RegisteredCases

(* A checksummed row keeps its place and its checksum.                     *)
LEMMA RegisteredKeepsChecksums ==
    ASSUME NEW rows \in Seq(Row), NEW new \in Row, NEW intact,
           NEW i \in DOMAIN rows, rows[i].checksum # NoChecksum
    PROVE  /\ i \in DOMAIN Registered(rows, new, intact)
           /\ Registered(rows, new, intact)[i].checksum = rows[i].checksum
<1> DEFINE n == Len(rows)
<1>0. i \in 1..n /\ rows[i] \in Row /\ n \in Nat
  OBVIOUS
<1>1. CASE Registered(rows, new, intact) = Append(rows, new)
  BY <1>0, <1>1
<1>2. CASE /\ rows # <<>> /\ IsProvisional(Latest(rows))
           /\ Registered(rows, new, intact) = [rows EXCEPT ![n] = new]
  <2>1. i # n
    BY <1>2 DEF IsProvisional, Latest
  <2> QED BY <1>2, <2>1
<1>3. CASE /\ rows # <<>>
           /\ Registered(rows, new, intact) = [rows EXCEPT ![n].status = new.status]
  <2>1. CASE i = n
    BY <1>0, <1>3, <2>1 DEF Row
  <2>2. CASE i # n
    BY <1>3, <2>2
  <2> QED BY <2>1, <2>2
<1> QED BY <1>1, <1>2, <1>3, RegisteredCases

(* Every checksum of the result was there before or is the new one.        *)
LEMMA RegisteredChecksums ==
    ASSUME NEW rows \in Seq(Row), NEW new \in Row, NEW intact,
           NEW i \in DOMAIN Registered(rows, new, intact)
    PROVE  \/ Registered(rows, new, intact)[i].checksum = new.checksum
           \/ /\ i \in DOMAIN rows
              /\ Registered(rows, new, intact)[i].checksum = rows[i].checksum
<1> DEFINE n == Len(rows)
<1>0. n \in Nat
  OBVIOUS
<1>1. CASE Registered(rows, new, intact) = Append(rows, new)
  <2>1. i \in 1..(n + 1)
    BY <1>1
  <2>2. CASE i = n + 1
    BY <1>1, <2>2
  <2>3. CASE i \in 1..n
    BY <1>1, <2>3
  <2> QED BY <2>1, <2>2, <2>3, <1>0
<1>2. CASE rows # <<>> /\ Registered(rows, new, intact) = [rows EXCEPT ![n] = new]
  <2>1. CASE i = n
    BY <1>2, <2>1
  <2>2. CASE i # n
    BY <1>2, <2>2
  <2> QED BY <2>1, <2>2
<1>3. CASE /\ rows # <<>>
           /\ Registered(rows, new, intact) = [rows EXCEPT ![n].status = new.status]
  <2>0. i \in DOMAIN rows /\ rows[i] \in Row
    BY <1>3
  <2>1. CASE i = n
    BY <1>3, <2>0, <2>1 DEF Row
  <2>2. CASE i # n
    BY <1>3, <2>0, <2>2
  <2> QED BY <2>1, <2>2
<1> QED BY <1>1, <1>2, <1>3, RegisteredCases

(* Registering a failed attempt leaves the usable versions as they were,   *)
(* so the version consumers read stays the same.                           *)
LEMMA FailureKeepsUsable ==
    ASSUME NEW rows \in Seq(Row), NEW new \in Row, NEW intact,
           new.status \in Provisional
    PROVE  UsableVersions(Registered(rows, new, intact)) = UsableVersions(rows)
<1> DEFINE n == Len(rows)
<1>0. n \in Nat /\ new.status \notin Usable
  BY DEF Provisional, Usable
<1>1. CASE Registered(rows, new, intact) = Append(rows, new)
  <2>1. Len(Append(rows, new)) = n + 1 /\ Append(rows, new)[n + 1] = new
    OBVIOUS
  <2>2. \A i \in 1..n : Append(rows, new)[i] = rows[i]
    OBVIOUS
  <2> QED BY <1>0, <1>1, <2>1, <2>2 DEF UsableVersions
<1>2. CASE /\ rows # <<>> /\ IsProvisional(Latest(rows))
           /\ Registered(rows, new, intact) = [rows EXCEPT ![n] = new]
  <2>1. rows[n].status \notin Usable /\ n \in 1..n
    BY <1>2, LatestIsRow DEF IsProvisional, Latest, Provisional, Usable
  <2>2. Len([rows EXCEPT ![n] = new]) = n
    OBVIOUS
  <2> QED BY <1>0, <1>2, <2>1, <2>2 DEF UsableVersions
<1> QED BY <1>1, <1>2, RegisteredCases

(* No registration makes a usable version unusable.                        *)
LEMMA RegisteredKeepsUsable ==
    ASSUME NEW rows \in Seq(Row), NEW new \in Row, NEW intact
    PROVE  UsableVersions(rows) \subseteq UsableVersions(Registered(rows, new, intact))
<1> DEFINE n == Len(rows)
<1> SUFFICES ASSUME NEW i \in UsableVersions(rows)
             PROVE  i \in UsableVersions(Registered(rows, new, intact))
  OBVIOUS
<1>0. n \in Nat /\ i \in 1..n /\ rows[i] \in Row /\ rows[i].status \in Usable
  BY DEF UsableVersions
<1>1. CASE Registered(rows, new, intact) = Append(rows, new)
  <2>1. Len(Append(rows, new)) = n + 1 /\ Append(rows, new)[i] = rows[i]
    BY <1>0
  <2> QED BY <1>0, <1>1, <2>1 DEF UsableVersions
<1>2. CASE /\ rows # <<>> /\ IsProvisional(Latest(rows))
           /\ Registered(rows, new, intact) = [rows EXCEPT ![n] = new]
  <2>1. i # n
    BY <1>0, <1>2 DEF IsProvisional, Latest, Provisional, Usable
  <2>2. Len([rows EXCEPT ![n] = new]) = n /\ [rows EXCEPT ![n] = new][i] = rows[i]
    BY <1>0, <2>1
  <2> QED BY <1>0, <1>2, <2>2 DEF UsableVersions
<1>3. CASE /\ new.status \notin Provisional
           /\ Registered(rows, new, intact) = [rows EXCEPT ![n].status = new.status]
  <2>1. new.status \in Usable
    BY <1>3 DEF Row, Status
  <2> DEFINE rs == [rows EXCEPT ![n].status = new.status]
  <2>2. Len(rs) = n
    OBVIOUS
  <2>3. rs[i].status \in Usable
    BY <1>0, <2>1 DEF Row
  <2> QED BY <1>0, <1>3, <2>2, <2>3 DEF UsableVersions
<1> QED BY <1>1, <1>2, <1>3, RegisteredCases

(* The version consumers read is the newest usable one.                    *)
LEMMA NewestUsable ==
    ASSUME NEW F, NEW rows \in Seq(F)
    PROVE  /\ Current(rows) \in 0..Len(rows)
           /\ Current(rows) # 0 => Current(rows) \in UsableVersions(rows)
           /\ \A i \in UsableVersions(rows) : i <= Current(rows)
<1> DEFINE n == Len(rows)
           S == UsableVersions(rows)
<1>0. n \in Nat /\ S \subseteq 1..n
  BY DEF UsableVersions
<1>1. CASE S = {}
  BY <1>0, <1>1 DEF Current
<1>2. CASE S # {}
  <2> DEFINE T == {k \in Nat : n - k \in S}
  <2> HIDE DEF S
  <2>1. PICK i \in S : TRUE
    BY <1>2
  <2>2. n - i \in Nat /\ n - (n - i) = i
    BY <1>0, <2>1
  <2>3. T # {} /\ T \in SUBSET Nat
    BY <2>1, <2>2
  <2>4. PICK k \in T : \A j \in T : ~(<<j, k>> \in OpToRel(<, Nat))
    BY <2>3, WFMin, NatLessThanWellFounded
  <2>5. \A j \in S : j <= n - k
    <3> SUFFICES ASSUME NEW j \in S PROVE j <= n - k
      OBVIOUS
    <3>1. n - j \in Nat /\ n - (n - j) = j /\ k \in Nat
      BY <1>0
    <3>2. n - j \in T
      BY <3>1
    <3>3. ~(n - j < k)
      BY <2>4, <3>1, <3>2 DEF OpToRel
    <3> QED BY <1>0, <3>1, <3>3
  <2>6. n - k \in S
    BY <2>4
  <2>7. IsCurrent(rows, n - k)
    BY <2>5, <2>6 DEF IsCurrent, S
  <2>8. Current(rows) \in S /\ IsCurrent(rows, Current(rows))
    BY <1>2, <2>6, <2>7 DEF Current, S
  <2>9. \A j \in S : j <= Current(rows)
    BY <2>8 DEF IsCurrent, S
  <2> QED BY <1>0, <2>8, <2>9 DEF S
<1> QED BY <1>1, <1>2

LEMMA CurrentIsNewest ==
    ASSUME NEW rows \in Seq(Row)
    PROVE  /\ Current(rows) \in 0..Len(rows)
           /\ Current(rows) # 0 => Current(rows) \in UsableVersions(rows)
           /\ \A i \in UsableVersions(rows) : i <= Current(rows)
BY NewestUsable

(* ... and it never moves back.                                            *)
LEMMA CurrentGrows ==
    ASSUME NEW rows \in Seq(Row), NEW new \in Row, NEW intact
    PROVE  Current(rows) <= Current(Registered(rows, new, intact))
<1> DEFINE rs == Registered(rows, new, intact)
<1>1. rs \in Seq(Row) /\ UsableVersions(rows) \subseteq UsableVersions(rs)
  BY RegisteredType, RegisteredKeepsUsable
<1>2. /\ Current(rows) \in 0..Len(rows) /\ Len(rows) \in Nat
      /\ Current(rows) # 0 => Current(rows) \in UsableVersions(rows)
  BY CurrentIsNewest
<1> HIDE DEF rs
<1>3. /\ Current(rs) \in 0..Len(rs) /\ Len(rs) \in Nat
      /\ \A i \in UsableVersions(rs) : i <= Current(rs)
  BY <1>1, CurrentIsNewest
<1>4. CASE Current(rows) = 0
  BY <1>3, <1>4 DEF rs
<1>5. CASE Current(rows) # 0
  BY <1>1, <1>2, <1>3, <1>5 DEF rs
<1> QED BY <1>4, <1>5
-----------------------------------------------------------------------------
(* Registrations of GovInfo artifacts                                      *)

(* Versions whose bytes are there, and attempts that failed.               *)
IsFile(row) == row.status \in Usable /\ row.checksum \in Checksums /\ ~row.virtual
IsFailure(row) ==
    row.status = "failed" /\ row.checksum = NoChecksum /\ row.verdict = NoChecksum
FilesOrFailures(F) == \A row \in F : IsFile(row) \/ IsFailure(row)

(* Every set of numbers that is not empty has a least one.                 *)
LEMMA LeastExists ==
    ASSUME NEW S \in SUBSET Nat, S # {}
    PROVE  \E x \in S : \A y \in S : x <= y
<1>1. PICK x \in S : \A y \in S : ~(<<y, x>> \in OpToRel(<, Nat))
  BY WFMin, NatLessThanWellFounded
<1>2. \A y \in S : x <= y
  <2> SUFFICES ASSUME NEW y \in S PROVE x <= y
    OBVIOUS
  <2>1. x \in Nat /\ y \in Nat
    OBVIOUS
  <2>2. ~(y < x)
    BY <1>1, <2>1 DEF OpToRel
  <2> QED BY <2>1, <2>2
<1> QED BY <1>2

(* The version consumers read is a file, and no usable one is newer.       *)
LEMMA CurrentIsFile ==
    ASSUME NEW F, FilesOrFailures(F), NEW rs \in Seq(F), UsableVersions(rs) # {}
    PROVE  /\ Current(rs) \in UsableVersions(rs) /\ Current(rs) \in Nat \ {0}
           /\ \A i \in UsableVersions(rs) : i <= Current(rs)
           /\ CurrentFile(rs) \in F /\ IsFile(CurrentFile(rs))
<1>1. /\ Current(rs) \in 0..Len(rs) /\ Len(rs) \in Nat
      /\ Current(rs) # 0 => Current(rs) \in UsableVersions(rs)
      /\ \A i \in UsableVersions(rs) : i <= Current(rs)
  BY NewestUsable
<1>2. PICK i \in UsableVersions(rs) : TRUE
  OBVIOUS
<1>3. i \in 1..Len(rs) /\ i <= Current(rs)
  BY <1>1, <1>2 DEF UsableVersions
<1>4. Current(rs) # 0 /\ Current(rs) \in Nat \ {0}
  BY <1>1, <1>3
<1>5. Current(rs) \in UsableVersions(rs)
  BY <1>1, <1>4
<1>6. Current(rs) \in 1..Len(rs) /\ rs[Current(rs)].status \in Usable
  BY <1>5 DEF UsableVersions
<1>7. rs[Current(rs)] \in F
  BY <1>6
<1>8. IsFile(rs[Current(rs)])
  BY <1>6, <1>7 DEF FilesOrFailures, IsFailure, Usable
<1> QED BY <1>1, <1>4, <1>5, <1>7, <1>8 DEF CurrentFile

(* The newest row after a retry.                                           *)
Retried(old, new) == [Merged(old, new) EXCEPT !.lake = old.lake]

(* What a row says that a registration puts in the place of another.       *)
Follows(row, old, new) ==
    /\ row.status = new.status /\ row.checksum = new.checksum
    /\ row.verdict = old.verdict \/ row.verdict = new.verdict
    /\ new.verdict # NoChecksum => row.verdict = new.verdict

(* A registration appends the new row, puts it in the place of a failure,  *)
(* or merges it into the newest row, which then had the same bytes.        *)
LEMMA FiledCases ==
    ASSUME NEW F, FilesOrFailures(F), NEW rs \in Seq(F), NEW new \in F
    PROVE  \/ /\ Filed(rs, new) = Append(rs, new)
              /\ ~(rs # <<>> /\ IsFile(new) /\ Latest(rs).checksum = new.checksum)
           \/ /\ rs # <<>> /\ IsFailure(Latest(rs))
              /\ Filed(rs, new) = [rs EXCEPT ![Len(rs)] = Merged(rs[Len(rs)], new)]
           \/ /\ rs # <<>> /\ IsFile(Latest(rs)) /\ IsFile(new)
              /\ new.checksum = Latest(rs).checksum
              /\ Filed(rs, new) = [rs EXCEPT ![Len(rs)] = Retried(rs[Len(rs)], new)]
<1> DEFINE n == Len(rs)
           last == Latest(rs)
<1>1. CASE rs = <<>>
  BY <1>1 DEF Filed, ArtifactAction
<1>2. CASE rs # <<>>
  <2>1. n \in Nat /\ n \in 1..n /\ rs[n] \in F
    BY <1>2
  <2>2. IsFile(last) \/ IsFailure(last)
    BY <2>1 DEF Latest, FilesOrFailures
  <2>3. CASE IsFailure(last)
    <3>1. IsProvisional(last)
      BY <2>3 DEF IsProvisional, IsFailure, Provisional
    <3>2. ArtifactAction(rs, new, Checksums) = "promote"
      BY <1>2, <3>1 DEF ArtifactAction
    <3> QED BY <1>2, <2>3, <3>2 DEF Filed
  <2>4. CASE IsFile(last)
    <3>1. ~IsProvisional(last) /\ Valid(last, Checksums) /\ ~last.virtual
          /\ last.checksum \in Checksums
      BY <2>4 DEF IsFile, IsProvisional, Usable, Provisional, Valid
    <3>2. CASE IsFile(new) /\ new.checksum = last.checksum
      <4>1. new.status \notin Provisional
        BY <3>2 DEF IsFile, Usable, Provisional
      <4>2. ArtifactAction(rs, new, Checksums) = "retry"
        BY <1>2, <3>1, <3>2, <4>1 DEF ArtifactAction
      <4> QED BY <1>2, <2>4, <3>2, <4>2 DEF Filed, Retried
    <3>3. CASE ~(IsFile(new) /\ new.checksum = last.checksum)
      <4>1. ~(new.checksum = last.checksum /\ new.status \notin Provisional)
        BY <3>1, <3>3, ChecksumAssumption DEF FilesOrFailures, IsFailure
      <4>2. ArtifactAction(rs, new, Checksums) = "append"
        BY <1>2, <3>1, <4>1 DEF ArtifactAction
      <4> QED BY <3>3, <4>2 DEF Filed
    <3> QED BY <3>2, <3>3
  <2> QED BY <2>2, <2>3, <2>4
<1> QED BY <1>1, <1>2

(* So no usable version goes away or changes its bytes, new bytes are the  *)
(* last version, and a verdict stays with the bytes it was given for.      *)
LEMMA FiledRows ==
    ASSUME NEW F, FilesOrFailures(F), NEW rs \in Seq(F), NEW new \in F,
           \A old \in F : /\ IsFailure(old) =>
                                /\ Merged(old, new) \in F
                                /\ Follows(Merged(old, new), old, new)
                          /\ IsFile(old) /\ IsFile(new) /\ new.checksum = old.checksum =>
                                /\ Retried(old, new) \in F
                                /\ Follows(Retried(old, new), old, new),
           NEW fs, fs = Filed(rs, new)
    PROVE  /\ fs \in Seq(F)
           /\ Len(rs) \in Nat /\ Len(fs) \in Nat \ {0} /\ Len(rs) <= Len(fs)
           /\ \A i \in UsableVersions(rs) :
                 i \in UsableVersions(fs) /\ fs[i].checksum = rs[i].checksum
           /\ IsFile(new) =>
                 Len(fs) \in UsableVersions(fs) /\ fs[Len(fs)].checksum = new.checksum
           /\ \A i \in UsableVersions(fs) :
                 \/ i \in UsableVersions(rs) /\ fs[i].verdict = rs[i].verdict
                 \/ fs[i].verdict = new.verdict /\ fs[i].checksum = new.checksum
           /\ rs # <<>> /\ IsFile(new) /\ rs[Len(rs)].checksum = new.checksum =>
                 Len(fs) = Len(rs)
<1> DEFINE n == Len(rs)
           Stays == \A i \in UsableVersions(rs) :
                       i \in UsableVersions(fs) /\ fs[i].checksum = rs[i].checksum
           Arrives == IsFile(new) =>
                         Len(fs) \in UsableVersions(fs) /\ fs[Len(fs)].checksum = new.checksum
           Kept == \A i \in UsableVersions(fs) :
                         \/ i \in UsableVersions(rs) /\ fs[i].verdict = rs[i].verdict
                         \/ fs[i].verdict = new.verdict /\ fs[i].checksum = new.checksum
<1>1. n \in Nat /\ \A i \in 1..n : rs[i] \in F
  OBVIOUS
<1>2. CASE /\ fs = Append(rs, new)
           /\ ~(rs # <<>> /\ IsFile(new) /\ Latest(rs).checksum = new.checksum)
  <2>1. fs \in Seq(F) /\ Len(fs) = n + 1
        /\ \A i \in 1..n + 1 : fs[i] = IF i = n + 1 THEN new ELSE rs[i]
    BY <1>2
  <2>2. \A i \in UsableVersions(rs) : i \in UsableVersions(fs) /\ fs[i] = rs[i]
    <3> SUFFICES ASSUME NEW i \in UsableVersions(rs) PROVE i \in UsableVersions(fs) /\ fs[i] = rs[i]
      OBVIOUS
    <3>1. i \in 1..n /\ rs[i].status \in Usable
      BY DEF UsableVersions
    <3>2. i \in 1..n + 1 /\ i # n + 1
      BY <1>1, <3>1
    <3> QED BY <2>1, <3>1, <3>2 DEF UsableVersions
  <2>3. IsFile(new) => n + 1 \in UsableVersions(fs) /\ fs[n + 1].checksum = new.checksum
    <3>1. n + 1 \in 1..n + 1
      BY <1>1
    <3> QED BY <2>1, <3>1 DEF UsableVersions, IsFile
  <2>4. ASSUME NEW i \in UsableVersions(fs)
        PROVE  \/ i \in UsableVersions(rs) /\ fs[i].verdict = rs[i].verdict
               \/ fs[i] = new
    <3>1. i \in 1..n + 1 /\ fs[i].status \in Usable
      BY <2>1 DEF UsableVersions
    <3>2. i # n + 1 => i \in 1..n
      BY <1>1, <3>1
    <3> QED BY <2>1, <3>1, <3>2 DEF UsableVersions
  <2>5. Len(fs) \in Nat \ {0} /\ n <= Len(fs)
    BY <1>1, <2>1
  <2>6. ~(rs # <<>> /\ IsFile(new) /\ rs[n].checksum = new.checksum)
    BY <1>2 DEF Latest
  <2> QED BY <1>1, <2>1, <2>2, <2>3, <2>4, <2>5, <2>6
<1>3. ASSUME rs # <<>>, NEW row \in F, fs = [rs EXCEPT ![n] = row], Follows(row, rs[n], new),
             n \in UsableVersions(rs) => IsFile(new) /\ rs[n].checksum = new.checksum,
             n \notin UsableVersions(rs) => rs[n].verdict = NoChecksum
      PROVE  /\ fs \in Seq(F)
             /\ Len(fs) \in Nat \ {0} /\ Len(fs) = n
             /\ Stays /\ Arrives /\ Kept
  <2>1. n \in 1..n /\ n # 0
    BY <1>1, <1>3
  <2>2. fs \in Seq(F) /\ Len(fs) = n
        /\ \A i \in 1..n : fs[i] = IF i = n THEN row ELSE rs[i]
    BY <1>1, <1>3, <2>1
  <2>3. fs[n].status = new.status /\ fs[n].checksum = new.checksum
        /\ (fs[n].verdict = rs[n].verdict \/ fs[n].verdict = new.verdict)
        /\ (new.verdict # NoChecksum => fs[n].verdict = new.verdict)
    BY <1>3, <2>1, <2>2 DEF Follows
  <2>4. IsFile(new) => n \in UsableVersions(fs) /\ fs[n].checksum = new.checksum
    BY <2>1, <2>2, <2>3 DEF UsableVersions, IsFile
  <2>5. ASSUME NEW i \in UsableVersions(rs)
        PROVE  i \in UsableVersions(fs) /\ fs[i].checksum = rs[i].checksum
    <3>1. i \in 1..n /\ rs[i].status \in Usable
      BY DEF UsableVersions
    <3>2. CASE i = n
      BY <1>3, <2>4, <3>2
    <3>3. CASE i # n
      BY <2>2, <3>1, <3>3 DEF UsableVersions
    <3> QED BY <3>2, <3>3
  <2>6. ASSUME NEW i \in UsableVersions(fs)
        PROVE  \/ i \in UsableVersions(rs) /\ fs[i].verdict = rs[i].verdict
               \/ fs[i].verdict = new.verdict /\ fs[i].checksum = new.checksum
    <3>1. i \in 1..n /\ fs[i].status \in Usable
      BY <2>2 DEF UsableVersions
    <3>2. CASE i = n
      <4>1. CASE n \in UsableVersions(rs)
        BY <2>3, <3>2, <4>1
      <4>2. CASE n \notin UsableVersions(rs)
        <5>1. fs[n].verdict = new.verdict
          BY <1>3, <2>3, <4>2
        <5> QED BY <2>3, <3>2, <5>1
      <4> QED BY <4>1, <4>2
    <3>3. CASE i # n
      BY <2>2, <3>1, <3>3 DEF UsableVersions
    <3> QED BY <3>2, <3>3
  <2>7. Len(fs) \in Nat \ {0}
    BY <1>1, <2>1, <2>2
  <2> QED BY <2>2, <2>4, <2>5, <2>6, <2>7
<1>4. CASE /\ rs # <<>> /\ IsFailure(Latest(rs))
           /\ fs = [rs EXCEPT ![n] = Merged(rs[n], new)]
  <2>1. n \in 1..n /\ rs[n] \in F /\ IsFailure(rs[n])
    BY <1>1, <1>4 DEF Latest
  <2>2. n \notin UsableVersions(rs) /\ rs[n].verdict = NoChecksum /\ rs[n].checksum = NoChecksum
    BY <2>1 DEF UsableVersions, IsFailure, Usable
  <2> DEFINE row == Merged(rs[n], new)
  <2>3. row \in F /\ Follows(row, rs[n], new)
    BY <2>1
  <2> HIDE DEF row
  <2>4. fs = [rs EXCEPT ![n] = row]
    BY <1>4 DEF row
  <2>5. ~(IsFile(new) /\ rs[n].checksum = new.checksum)
    BY <2>2, ChecksumAssumption DEF IsFile
  <2>6. fs \in Seq(F) /\ Len(fs) \in Nat \ {0} /\ Len(fs) = n /\ Stays /\ Arrives /\ Kept
    BY <1>3, <1>4, <2>2, <2>3, <2>4
  <2> HIDE DEF Stays, Arrives, Kept
  <2>7. Len(rs) <= Len(fs)
    BY <1>1, <2>6
  <2> QED BY ONLY <1>1, <2>5, <2>6, <2>7 DEF Stays, Arrives, Kept
<1>5. CASE /\ rs # <<>> /\ IsFile(Latest(rs)) /\ IsFile(new)
           /\ new.checksum = Latest(rs).checksum
           /\ fs = [rs EXCEPT ![n] = Retried(rs[n], new)]
  <2>1. n \in 1..n /\ rs[n] \in F /\ IsFile(rs[n]) /\ new.checksum = rs[n].checksum
    BY <1>1, <1>5 DEF Latest
  <2>2. n \in UsableVersions(rs)
    BY <2>1 DEF UsableVersions, IsFile
  <2> DEFINE row == Retried(rs[n], new)
  <2>3. row \in F /\ Follows(row, rs[n], new)
    BY <1>5, <2>1
  <2> HIDE DEF row
  <2>4. fs = [rs EXCEPT ![n] = row]
    BY <1>5 DEF row
  <2>5. fs \in Seq(F) /\ Len(fs) \in Nat \ {0} /\ Len(fs) = n /\ Stays /\ Arrives /\ Kept
    BY <1>3, <1>5, <2>1, <2>2, <2>3, <2>4
  <2> HIDE DEF Stays, Arrives, Kept
  <2>6. Len(rs) <= Len(fs)
    BY <1>1, <2>5
  <2> QED BY ONLY <1>1, <2>5, <2>6 DEF Stays, Arrives, Kept
<1> QED BY <1>2, <1>4, <1>5, FiledCases

=============================================================================
