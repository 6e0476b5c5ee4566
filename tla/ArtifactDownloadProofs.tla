----------------------- MODULE ArtifactDownloadProofs -----------------------
(***************************************************************************)
(* Theorems about ArtifactDownload, for any processes, versions, sizes,    *)
(* caller policies and bounds.                                             *)
(***************************************************************************)
EXTENDS ArtifactDownload, ArtifactRegistryProofs, SequenceTheorems, TLAPS

-----------------------------------------------------------------------------
(* Files and rows                                                          *)

(* The complete content of a version is a possible digest.                 *)
LEMMA ContentIsChecksum ==
    ASSUME NEW v \in Versions
    PROVE  /\ Content(v) \in Checksums
           /\ Whole(Content(v))
<1>1. Size[v] \in 1..MaxSize
  BY SizeAssumption
<1>2. Content(v) \in [1..Size[v] -> Versions]
  BY <1>1 DEF Content
<1>3. Content(v) \in Checksums
  BY <1>1, <1>2, DigestAssumption
<1> QED BY <1>3 DEF Whole

(* A file other than None is a sequence of at most MaxSize chunks.         *)
LEMMA FileIsSeq ==
    ASSUME NEW f \in Checksums \cup {<<>>}
    PROVE  /\ f \in Seq(Versions) /\ f # None
           /\ Len(f) \in 0..MaxSize
           /\ DOMAIN f = 1..Len(f)
           /\ f # <<>> => f \in Checksums
<1>0. f # None /\ MaxSize \in Nat
  BY NoneAssumption, SizeAssumption
<1>1. CASE f = <<>>
  BY <1>0, <1>1
<1>2. CASE f \in Checksums
  <2>1. PICK n \in 1..MaxSize : f \in [1..n -> Versions]
    BY <1>2, DigestAssumption
  <2>2. f \in Seq(Versions) /\ Len(f) = n
    BY <2>1
  <2> QED BY <1>0, <1>2, <2>1, <2>2
<1> QED BY <1>1, <1>2

(* One more chunk of v keeps the file within MaxSize.                      *)
LEMMA AppendIsChecksum ==
    ASSUME NEW f \in Checksums \cup {<<>>}, NEW v \in Versions, Len(f) < MaxSize
    PROVE  /\ Append(f, v) \in Checksums
           /\ Len(Append(f, v)) = Len(f) + 1
           /\ \A i \in DOMAIN Append(f, v) :
                 Append(f, v)[i] = v \/ (i \in DOMAIN f /\ Append(f, v)[i] = f[i])
<1>1. f \in Seq(Versions) /\ Len(f) \in Nat /\ Len(f) + 1 \in 1..MaxSize
  BY FileIsSeq, SizeAssumption
<1>2. /\ Append(f, v) \in Seq(Versions)
      /\ Len(Append(f, v)) = Len(f) + 1
      /\ Append(f, v) \in [1..(Len(f) + 1) -> Versions]
  BY <1>1, AppendProperties, LenProperties
<1>3. Append(f, v) \in Checksums
  BY <1>1, <1>2, DigestAssumption
<1> QED BY <1>1, <1>2, <1>3

(* The rows this module registers are rows.                                *)
LEMMA FileRowIsRow ==
    ASSUME NEW status \in Status, NEW d \in Checksums \cup {NoChecksum}
    PROVE  /\ FileRow(status, d) \in Row
           /\ FileRow(status, d).checksum = d
           /\ FileRow(status, d).status = status
BY DEF FileRow, Row

(* A registration keeps the history a sequence of rows.                    *)
LEMMA RegisterType ==
    ASSUME TypeOK, NEW status \in Status, NEW d \in Checksums \cup {NoChecksum},
           Register(status, d)
    PROVE  rows' \in Seq(Row)
BY FileRowIsRow, RegisteredType DEF Register, TypeOK
-----------------------------------------------------------------------------
(* The invariant that holds for every caller policy                        *)

BaseInv == TypeOK /\ LockInv /\ PlaceInv /\ LocalInv

(* The initial states: nobody downloads, nothing is retained.              *)
LEMMA InitBase == Init => BaseInv
<1> SUFFICES ASSUME Init PROVE BaseInv
  OBVIOUS
<1>1. rows \in Seq(Row)
  <2>1. FileRow("downloaded", NoChecksum) \in Row
    BY FileRowIsRow DEF Status, Usable, Provisional
  <2>2. <<FileRow("downloaded", NoChecksum)>> \in Seq(Row)
    BY <2>1
  <2>3. rows = <<>> \/ rows = <<FileRow("downloaded", NoChecksum)>>
    BY DEF Init
  <2>4. CASE rows = <<>>
    BY <2>4, EmptySeq
  <2>5. CASE rows = <<FileRow("downloaded", NoChecksum)>>
    BY <2>2, <2>5
  <2> QED BY <2>3, <2>4, <2>5
<1>2. target \in Checksums \cup {None}
  BY ContentIsChecksum DEF Init
<1>3. TypeOK
  <2>1. retained \in [Checksums -> Files] /\ part \in Files /\ links \subseteq Checksums
    BY DEF Init, Files
  <2>2. /\ pc \in [Procs -> Places] /\ lock \in Procs \cup {None}
        /\ served \in [Procs -> Versions \cup {None}]
        /\ sent \in [Procs -> 0..MaxSize]
        /\ digest \in [Procs -> Checksums \cup {None}]
    BY SizeAssumption DEF Init, Places
  <2>3. /\ refreshes \in 0..MaxRefresh /\ crashes \in 0..MaxCrashes
        /\ errors \in 0..MaxErrors /\ locals \in 0..MaxLocal
    BY BoundAssumption DEF Init
  <2>4. local \in [at : {"idle", "retained", "registered"}, file : Checksums \cup {None}]
    BY DEF Init, NotRunning
  <2> QED BY <1>1, <1>2, <2>1, <2>2, <2>3, <2>4 DEF Init, TypeOK
<1>4. LockInv
  BY NoneAssumption DEF Init, LockInv
<1>5. PlaceInv
  BY DEF Init, PlaceInv
<1>6. LocalInv
  BY DEF Init, LocalInv, NotRunning
<1> QED BY <1>3, <1>4, <1>5, <1>6 DEF BaseInv

(* While p is inside download(), or the lock is free, nobody else is in.   *)
LEMMA Alone ==
    ASSUME LockInv, NEW p \in Procs, pc[p] # "idle" \/ lock = None
    PROVE  \A q \in Procs \ {p} : pc[q] = "idle"
BY NoneAssumption DEF LockInv

(* A step of p that leaves p at "place", holding the lock, keeps LockInv.  *)
LEMMA LockStays ==
    ASSUME TypeOK, LockInv, NEW p \in Procs, pc[p] # "idle" \/ lock = None,
           NEW place \in Places, Goto(p, place),
           \/ place = "idle" /\ lock' = None
           \/ place # "idle" /\ lock' = p
    PROVE  /\ LockInv' /\ pc' \in [Procs -> Places]
           /\ lock' \in Procs \cup {None}
           /\ pc'[p] = place
           /\ \A q \in Procs \ {p} : pc'[q] = "idle"
<1>1. \A q \in Procs \ {p} : pc[q] = "idle"
  BY Alone
<1>2. pc' = [pc EXCEPT ![p] = place] /\ pc \in [Procs -> Places]
  BY DEF Goto, TypeOK
<1>3. /\ pc'[p] = place
      /\ \A q \in Procs \ {p} : pc'[q] = "idle"
  BY <1>1, <1>2
<1>4. None \notin Procs
  BY NoneAssumption
<1>5. LockInv'
  BY <1>3, <1>4 DEF LockInv
<1> QED BY <1>2, <1>3, <1>5

(* Returning forgets everything about the call.                            *)
LEMMA ReturnStays ==
    ASSUME BaseInv, NEW p \in Procs, pc[p] # "idle" \/ lock = None, Return(p)
    PROVE  /\ LockInv' /\ PlaceInv'
           /\ pc' \in [Procs -> Places]
           /\ \A q \in Procs : pc'[q] = "idle"
           /\ lock' \in Procs \cup {None}
           /\ served' \in [Procs -> Versions \cup {None}]
           /\ sent' \in [Procs -> 0..MaxSize]
           /\ digest' \in [Procs -> Checksums \cup {None}]
<1>1. /\ LockInv' /\ pc' \in [Procs -> Places] /\ pc'[p] = "idle"
      /\ \A q \in Procs \ {p} : pc'[q] = "idle"
      /\ lock' \in Procs \cup {None}
  BY LockStays DEF BaseInv, Return, Places
<1>2. \A q \in Procs : pc'[q] = "idle"
  BY <1>1
<1>3. PlaceInv'
  BY <1>2 DEF PlaceInv
<1>4. /\ served' \in [Procs -> Versions \cup {None}]
      /\ sent' \in [Procs -> 0..MaxSize]
      /\ digest' \in [Procs -> Checksums \cup {None}]
  BY SizeAssumption DEF BaseInv, TypeOK, Return
<1> QED BY <1>1, <1>2, <1>3, <1>4

(* Rewriting the staging file rewrites every name of its inode.            *)
LEMMA WritePartType ==
    ASSUME TypeOK, NEW bytes \in Checksums \cup {<<>>}, WritePart(bytes)
    PROVE  /\ part' = bytes /\ part' \in Files /\ stale' \in BOOLEAN
           /\ links' \subseteq Checksums
           /\ retained' \in [Checksums -> Files]
BY DEF TypeOK, WritePart, Files

(* Removing the staging file keeps the types and the retained names.       *)
LEMMA UnlinkPartType ==
    ASSUME TypeOK, UnlinkPart
    PROVE  /\ part' = None /\ part' \in Files /\ stale' \in BOOLEAN
           /\ links' \subseteq Checksums
           /\ retained' \in [Checksums -> Files]
BY DEF TypeOK, UnlinkPart, Files

(* Publishing a verified copy adds one retained name.                      *)
LEMMA RetainCopyType ==
    ASSUME TypeOK, NEW d \in Checksums, RetainCopy(d)
    PROVE  /\ part' = part /\ part' \in Files /\ stale' \in BOOLEAN
           /\ links' \subseteq Checksums
           /\ retained' \in [Checksums -> Files]
BY DEF TypeOK, RetainCopy, Files

(* Every step of a download keeps the invariant.                           *)
LEMMA TransferBase ==
    ASSUME BaseInv, NEW p \in Procs, Transfer(p)
    PROVE  BaseInv'
<1> USE DEF BaseInv
<1>0. LocalInv'
  BY DEF Transfer, LocalInv, Adopt, AdoptRegister, Start, Respond, WriteChunk,
         Finish, AlreadyRetained, Link, CopyInstead, Unlink, RegisterDownload,
         RecordFailure
<1>1. CASE Adopt(p)
  <2>1. target \in Checksums
    BY <1>1 DEF Adopt, Adoptable, TypeOK
  <2>2. /\ LockInv' /\ pc' \in [Procs -> Places] /\ pc'[p] = "adopted"
        /\ \A q \in Procs \ {p} : pc'[q] = "idle" /\ lock' \in Procs \cup {None}
    BY <1>1, LockStays DEF Adopt, Call, Places
  <2>3. digest' \in [Procs -> Checksums \cup {None}] /\ digest'[p] = target
    BY <1>1, <2>1 DEF Adopt, TypeOK
  <2>4. PlaceInv'
    BY <2>1, <2>2, <2>3 DEF PlaceInv
  <2>5. TypeOK'
    BY <1>1, <2>1, <2>2, <2>3, RetainCopyType DEF Adopt, TypeOK, settings, counters
  <2> QED BY <1>0, <2>2, <2>4, <2>5
<1>2. CASE AdoptRegister(p)
  <2>1. digest[p] \in Checksums
    BY <1>2 DEF AdoptRegister, PlaceInv
  <2>2. rows' \in Seq(Row)
    <3>1. CASE ValidRetained(digest[p])
      BY <1>2, <2>1, <3>1, RegisterType DEF AdoptRegister, Status, Usable
    <3>2. CASE ~ValidRetained(digest[p])
      BY <1>2, <3>2 DEF AdoptRegister, TypeOK
    <3> QED BY <3>1, <3>2
  <2>3. TypeOK'
    BY <1>2, <2>2, ReturnStays DEF AdoptRegister, TypeOK, settings, files, counters
  <2> QED BY <1>0, <1>2, <2>3, ReturnStays DEF AdoptRegister
<1>3. ASSUME NEW overwrite \in BOOLEAN, Start(p, overwrite) PROVE BaseInv'
  <2>1. /\ LockInv' /\ pc' \in [Procs -> Places] /\ pc'[p] = "request"
        /\ \A q \in Procs \ {p} : pc'[q] = "idle" /\ lock' \in Procs \cup {None}
    BY <1>3, LockStays DEF Start, Call, Places
  <2>2. PlaceInv'
    BY <2>1 DEF PlaceInv
  <2>3. /\ part' \in Files /\ stale' \in BOOLEAN
        /\ links' \subseteq Checksums /\ retained' \in [Checksums -> Files]
    BY <1>3, UnlinkPartType DEF Start, TypeOK, files
  <2>4. TypeOK'
    BY <1>3, <2>1, <2>3 DEF Start, TypeOK, settings, counters
  <2> QED BY <1>0, <2>1, <2>2, <2>4
<1>4. CASE Respond(p)
  <2>0. pc[p] = "request" /\ lock' = lock /\ lock = p
    BY <1>4 DEF Respond, LockInv
  <2>1. CASE Refused
    <3>1. Goto(p, "failing")
      BY <1>4, <2>1 DEF Respond
    <3>2. /\ LockInv' /\ pc' \in [Procs -> Places] /\ pc'[p] = "failing"
          /\ \A q \in Procs \ {p} : pc'[q] = "idle"
      BY <2>0, <3>1, LockStays DEF Places
    <3>3. PlaceInv'
      BY <3>2 DEF PlaceInv
    <3>4. TypeOK'
      BY <1>4, <2>1, <3>2 DEF Respond, TypeOK, settings, counters, files
    <3> QED BY <1>0, <3>2, <3>3, <3>4
  <2>2. CASE ~Refused
    <3>1. Goto(p, "write")
      BY <1>4, <2>2 DEF Respond
    <3>2. /\ LockInv' /\ pc' \in [Procs -> Places] /\ pc'[p] = "write"
          /\ \A q \in Procs \ {p} : pc'[q] = "idle"
      BY <2>0, <3>1, LockStays DEF Places
    <3>3. Size[origin] \in 1..MaxSize /\ MaxSize \in Nat
      BY SizeAssumption DEF TypeOK
    <3>4. /\ part' \in Files /\ stale' \in BOOLEAN
          /\ links' \subseteq Checksums /\ retained' \in [Checksums -> Files]
          /\ part' # None /\ Len(part') = BodyStart
          /\ BodyStart \in 0..MaxSize /\ BodyStart <= Size[origin]
      <4>1. CASE Truncates
        <5>1. WritePart(<<>>) /\ BodyStart = 0
          BY <1>4, <2>2, <4>1 DEF Respond, Truncates, BodyStart
        <5> QED BY <3>3, <5>1, WritePartType, NoneAssumption
      <4>2. CASE ~Truncates
        <5>1. /\ Existing > 0 /\ BodyStart = Existing /\ ~(Existing >= Size[origin])
              /\ UNCHANGED files
          BY <1>4, <2>2, <4>2 DEF Respond, Truncates, BodyStart, Asks, Refused
        <5>2. part # None /\ Existing = Len(part)
          BY <5>1 DEF Existing
        <5>3. part \in Checksums \cup {<<>>}
          BY <5>2 DEF TypeOK, Files
        <5>4. Len(part) \in 0..MaxSize
          BY <5>3, FileIsSeq
        <5> QED BY <3>3, <5>1, <5>2, <5>4 DEF TypeOK, files
      <4> QED BY <4>1, <4>2
    <3>5. /\ served' \in [Procs -> Versions \cup {None}] /\ served'[p] = origin
          /\ sent' \in [Procs -> 0..MaxSize] /\ sent'[p] = BodyStart
          /\ origin \in Versions
      BY <1>4, <2>2, <3>4, ZenonT(30) DEF Respond, TypeOK
    <3>6. PlaceInv'
      BY <3>2, <3>4, <3>5 DEF PlaceInv
    <3>7. TypeOK'
      BY <1>4, <3>2, <3>4, <3>5 DEF Respond, TypeOK, settings, counters
    <3> QED BY <1>0, <3>2, <3>6, <3>7
  <2> QED BY <2>1, <2>2
<1>5. CASE WriteChunk(p)
  <2>1. /\ pc[p] = "write" /\ pc' = pc /\ lock' = lock /\ served' = served
        /\ sent[p] < Size[served[p]] /\ Len(part) = sent[p]
        /\ served[p] \in Versions /\ part \in Checksums \cup {<<>>}
    BY <1>5 DEF WriteChunk, PlaceInv, TypeOK, Files
  <2>2. Size[served[p]] \in 1..MaxSize /\ sent[p] \in 0..MaxSize /\ MaxSize \in Nat
    BY <2>1, SizeAssumption DEF TypeOK
  <2>3. /\ Append(part, served[p]) \in Checksums
        /\ Len(Append(part, served[p])) = sent[p] + 1
    BY <2>1, <2>2, AppendIsChecksum
  <2>4. /\ part' = Append(part, served[p]) /\ part' \in Files /\ stale' \in BOOLEAN
        /\ links' \subseteq Checksums /\ retained' \in [Checksums -> Files]
    BY <1>5, <2>3, WritePartType DEF WriteChunk
  <2>5. sent' \in [Procs -> 0..MaxSize] /\ sent'[p] = sent[p] + 1
    BY <1>5, <2>1, <2>2 DEF WriteChunk, TypeOK
  <2>6. LockInv' /\ \A q \in Procs \ {p} : pc'[q] = "idle"
    BY <2>1, Alone DEF LockInv
  <2>7. PlaceInv'
    <3>1. pc'[p] = "write" /\ served'[p] \in Versions
      BY <2>1
    <3>2. part' # None
      BY <2>3, <2>4, NoneAssumption
    <3>3. Len(part') = sent'[p]
      BY <2>3, <2>4, <2>5
    <3>4. sent'[p] <= Size[served'[p]]
      <4>1. \A m, n \in Nat : m < n => m + 1 <= n
        OBVIOUS
      <4> QED BY <2>1, <2>2, <2>5, <4>1
    <3> QED BY <2>6, <3>1, <3>2, <3>3, <3>4 DEF PlaceInv
  <2>8. TypeOK'
    BY <1>5, <2>1, <2>4, <2>5 DEF WriteChunk, TypeOK, settings, counters
  <2> QED BY <1>0, <2>6, <2>7, <2>8
<1>6. CASE Finish(p)
  <2>0. /\ pc[p] = "write" /\ lock' = lock /\ lock = p /\ part' = part
        /\ part \in Checksums \cup {<<>>}
        /\ Len(part) = Size[served[p]] /\ served[p] \in Versions
    BY <1>6 DEF Finish, LockInv, PlaceInv, TypeOK, Files, files
  <2>1. Len(part) > 0
    BY <2>0, SizeAssumption
  <2>2. part \in Checksums
    BY <2>0, <2>1, FileIsSeq
  <2>3. CASE Goto(p, "failing") /\ UNCHANGED digest
    <3>1. /\ LockInv' /\ pc' \in [Procs -> Places] /\ pc'[p] = "failing"
          /\ \A q \in Procs \ {p} : pc'[q] = "idle"
      BY <2>0, <2>3, LockStays DEF Places
    <3>2. PlaceInv'
      BY <3>1 DEF PlaceInv
    <3>3. TypeOK'
      BY <1>6, <2>3, <3>1 DEF Finish, TypeOK, settings, counters, files
    <3> QED BY <1>0, <3>1, <3>2, <3>3
  <2>4. CASE Goto(p, "link") /\ digest' = [digest EXCEPT ![p] = part]
    <3>1. /\ LockInv' /\ pc' \in [Procs -> Places] /\ pc'[p] = "link"
          /\ \A q \in Procs \ {p} : pc'[q] = "idle"
      BY <2>0, <2>4, LockStays DEF Places
    <3>2. digest' \in [Procs -> Checksums \cup {None}] /\ digest'[p] = part
      BY <2>2, <2>4 DEF TypeOK
    <3>3. PlaceInv'
      BY <2>0, <2>2, <3>1, <3>2 DEF PlaceInv
    <3>4. TypeOK'
      BY <1>6, <3>1, <3>2 DEF Finish, TypeOK, settings, counters, files
    <3> QED BY <1>0, <3>1, <3>3, <3>4
  <2> QED BY <1>6, <2>3, <2>4 DEF Finish
<1>7. CASE AlreadyRetained(p)
  <2>0. /\ pc[p] = "link" /\ lock' = lock /\ lock = p /\ digest' = digest
        /\ digest[p] \in Checksums
    BY <1>7 DEF AlreadyRetained, LockInv, PlaceInv
  <2>1. PICK place \in {"unlink", "failing"} : Goto(p, place)
    BY <1>7 DEF AlreadyRetained
  <2>2. /\ LockInv' /\ pc' \in [Procs -> Places] /\ pc'[p] = place
        /\ \A q \in Procs \ {p} : pc'[q] = "idle"
    BY <2>0, <2>1, LockStays DEF Places
  <2>3. PlaceInv'
    BY <2>0, <2>2 DEF PlaceInv
  <2>4. TypeOK'
    BY <1>7, <2>2 DEF AlreadyRetained, TypeOK, settings, counters, files
  <2> QED BY <1>0, <2>2, <2>3, <2>4
<1>8. CASE Link(p)
  <2>0. /\ pc[p] = "link" /\ lock' = lock /\ lock = p /\ digest' = digest
        /\ digest[p] \in Checksums /\ part = digest[p]
    BY <1>8 DEF Link, LockInv, PlaceInv
  <2>1. /\ LockInv' /\ pc' \in [Procs -> Places] /\ pc'[p] = "unlink"
        /\ \A q \in Procs \ {p} : pc'[q] = "idle"
    BY <1>8, <2>0, LockStays DEF Link, Places
  <2>2. PlaceInv'
    BY <2>0, <2>1 DEF PlaceInv
  <2>3. TypeOK'
    BY <1>8, <2>0, <2>1 DEF Link, TypeOK, Files, settings, counters
  <2> QED BY <1>0, <2>1, <2>2, <2>3
<1>9. CASE CopyInstead(p)
  <2>0. /\ pc[p] = "link" /\ lock' = lock /\ lock = p /\ digest' = digest
        /\ digest[p] \in Checksums
    BY <1>9 DEF CopyInstead, LockInv, PlaceInv
  <2>1. /\ LockInv' /\ pc' \in [Procs -> Places] /\ pc'[p] = "register"
        /\ \A q \in Procs \ {p} : pc'[q] = "idle"
    BY <1>9, <2>0, LockStays DEF CopyInstead, Places
  <2>2. PlaceInv'
    BY <2>0, <2>1 DEF PlaceInv
  <2>3. TypeOK'
    BY <1>9, <2>0, <2>1, RetainCopyType DEF CopyInstead, TypeOK, settings, counters
  <2> QED BY <1>0, <2>1, <2>2, <2>3
<1>10. CASE Unlink(p)
  <2>0. /\ pc[p] = "unlink" /\ lock' = lock /\ lock = p /\ digest' = digest
        /\ digest[p] \in Checksums
    BY <1>10 DEF Unlink, LockInv, PlaceInv
  <2>1. /\ LockInv' /\ pc' \in [Procs -> Places] /\ pc'[p] = "register"
        /\ \A q \in Procs \ {p} : pc'[q] = "idle"
    BY <1>10, <2>0, LockStays DEF Unlink, Places
  <2>2. PlaceInv'
    BY <2>0, <2>1 DEF PlaceInv
  <2>3. TypeOK'
    BY <1>10, <2>1, UnlinkPartType DEF Unlink, TypeOK, settings, counters
  <2> QED BY <1>0, <2>1, <2>2, <2>3
<1>11. CASE RegisterDownload(p)
  <2>0. /\ pc[p] = "register" /\ lock = p /\ digest[p] \in Checksums
    BY <1>11 DEF RegisterDownload, LockInv, PlaceInv
  <2>1. CASE ValidRetained(digest[p])
    <3>1. Register("downloaded", digest[p]) /\ Return(p)
      BY <1>11, <2>1 DEF RegisterDownload
    <3>2. rows' \in Seq(Row)
      BY <2>0, <3>1, RegisterType DEF Status, Usable
    <3>3. TypeOK'
      BY <1>11, <2>0, <3>1, <3>2, ReturnStays
         DEF RegisterDownload, TypeOK, settings, files, counters
    <3> QED BY <1>0, <2>0, <3>1, <3>3, ReturnStays
  <2>2. CASE ~ValidRetained(digest[p])
    <3>1. Goto(p, "failing") /\ UNCHANGED <<rows, lock, served, sent, digest>>
      BY <1>11, <2>2 DEF RegisterDownload
    <3>2. /\ LockInv' /\ pc' \in [Procs -> Places] /\ pc'[p] = "failing"
          /\ \A q \in Procs \ {p} : pc'[q] = "idle"
      BY <2>0, <3>1, LockStays DEF Places
    <3>3. PlaceInv'
      BY <3>2 DEF PlaceInv
    <3>4. TypeOK'
      BY <1>11, <3>1, <3>2 DEF RegisterDownload, TypeOK, settings, files, counters
    <3> QED BY <1>0, <3>2, <3>3, <3>4
  <2> QED BY <2>1, <2>2
<1>12. CASE RecordFailure(p)
  <2>0. pc[p] = "failing" /\ Register("failed", NoChecksum) /\ Return(p)
    BY <1>12 DEF RecordFailure
  <2>1. rows' \in Seq(Row)
    BY <2>0, RegisterType DEF Status, Provisional
  <2>2. TypeOK'
    BY <1>12, <2>0, <2>1, ReturnStays DEF RecordFailure, TypeOK, settings, files, counters
  <2> QED BY <1>0, <2>0, <2>2, ReturnStays
<1> QED
  BY <1>1, <1>2, <1>3, <1>4, <1>5, <1>6, <1>7, <1>8, <1>9, <1>10, <1>11, <1>12
     DEF Transfer

(* Errors and kills keep the invariant.                                    *)
LEMMA FaultBase ==
    ASSUME BaseInv, NEW p \in Procs, ResponseFails(p) \/ Crash(p)
    PROVE  BaseInv'
<1> USE DEF BaseInv
<1>0. LocalInv'
  BY DEF LocalInv, ResponseFails, Crash
<1>1. CASE ResponseFails(p)
  <2>0. pc[p] # "idle" /\ lock' = lock /\ lock = p
    BY <1>1 DEF ResponseFails, CopyRefused, LockInv
  <2>1. /\ LockInv' /\ pc' \in [Procs -> Places] /\ pc'[p] = "failing"
        /\ \A q \in Procs \ {p} : pc'[q] = "idle"
    BY <1>1, <2>0, LockStays DEF ResponseFails, Places
  <2>2. PlaceInv'
    BY <2>1 DEF PlaceInv
  <2>3. errors' \in 0..MaxErrors
    BY <1>1, BoundAssumption DEF ResponseFails, TypeOK
  <2>4. TypeOK'
    BY <1>1, <2>1, <2>3 DEF ResponseFails, TypeOK, settings, files
  <2> QED BY <1>0, <2>1, <2>2, <2>4
<1>2. CASE Crash(p)
  <2>1. crashes' \in 0..MaxCrashes
    BY <1>2, BoundAssumption DEF Crash, TypeOK
  <2>2. TypeOK'
    BY <1>2, <2>1, ReturnStays DEF Crash, TypeOK, settings, files
  <2> QED BY <1>0, <1>2, <2>2, ReturnStays DEF Crash
<1> QED BY <1>1, <1>2

(* The operator's command and the publisher leave downloads alone.         *)
LEMMA OutsideBase ==
    ASSUME BaseInv,
           \/ Operator
           \/ \E v \in Versions : OriginChanges(v)
    PROVE  BaseInv'
<1> USE DEF BaseInv
<1>0. LockInv'
  BY DEF LockInv, Operator, LocalRetain, LocalRegister, LocalLoaded, LocalStop,
         OriginChanges, procs
<1>1. PlaceInv'
  BY DEF PlaceInv, Operator, LocalRetain, LocalRegister, LocalLoaded, LocalStop,
         OriginChanges, procs, files, RetainCopy
<1>2. ASSUME NEW v \in Versions, LocalRetain(v) PROVE BaseInv'
  <2>1. local' = [at |-> "retained", file |-> Content(v)] /\ Content(v) \in Checksums
    BY <1>2, ContentIsChecksum DEF LocalRetain
  <2>2. LocalInv'
    BY <2>1 DEF LocalInv
  <2>3. locals' \in 0..MaxLocal
    BY <1>2, BoundAssumption DEF LocalRetain, TypeOK
  <2>4. TypeOK'
    BY <1>2, <2>1, <2>3, RetainCopyType DEF LocalRetain, TypeOK, settings, procs
  <2> QED BY <1>0, <1>1, <2>2, <2>4
<1>3. CASE LocalRegister \/ LocalLoaded
  <2>1. PICK v \in Versions : local.file = Content(v)
    BY <1>3 DEF LocalRegister, LocalLoaded, LocalInv
  <2>2. local.file \in Checksums
    BY <2>1, ContentIsChecksum
  <2>3. rows' \in Seq(Row)
    <3>1. CASE Register("downloaded", local.file) \/ Register("loaded", local.file)
      BY <2>2, <3>1, RegisterType DEF Status, Usable
    <3>2. CASE UNCHANGED rows
      BY <3>2 DEF TypeOK
    <3> QED BY <1>3, <3>1, <3>2 DEF LocalRegister, LocalLoaded
  <2>4. local' = NotRunning \/ local' = [local EXCEPT !.at = "registered"]
    BY <1>3 DEF LocalRegister, LocalLoaded
  <2>5. /\ local' \in [at : {"idle", "retained", "registered"}, file : Checksums \cup {None}]
        /\ LocalInv'
    BY <2>1, <2>4 DEF TypeOK, NotRunning, LocalInv
  <2>6. TypeOK'
    BY <1>3, <2>3, <2>5
       DEF LocalRegister, LocalLoaded, TypeOK, settings, files, procs, counters
  <2> QED BY <1>0, <1>1, <2>5, <2>6
<1>4. CASE LocalStop
  <2>1. LocalInv'
    BY <1>4 DEF LocalStop, LocalInv, NotRunning
  <2>2. TypeOK'
    BY <1>4 DEF LocalStop, TypeOK, NotRunning, settings, files, procs, counters
  <2> QED BY <1>0, <1>1, <2>1, <2>2
<1>5. ASSUME NEW v \in Versions, OriginChanges(v) PROVE BaseInv'
  <2>1. LocalInv'
    BY <1>5 DEF OriginChanges, LocalInv
  <2>2. refreshes' \in 0..MaxRefresh
    BY <1>5, BoundAssumption DEF OriginChanges, TypeOK
  <2>3. TypeOK'
    BY <1>5, <2>2 DEF OriginChanges, TypeOK, settings, procs
  <2> QED BY <1>0, <1>1, <2>1, <2>3
<1> QED BY <1>2, <1>3, <1>4, <1>5 DEF Operator

(* The invariant is inductive.                                             *)
LEMMA NextBase == BaseInv /\ [Next]_vars => BaseInv'
<1> SUFFICES ASSUME BaseInv, [Next]_vars PROVE BaseInv'
  OBVIOUS
<1>1. CASE Next
  BY <1>1, TransferBase, FaultBase, OutsideBase DEF Next
<1>2. CASE UNCHANGED vars
  BY <1>2 DEF vars, settings, files, procs, counters, BaseInv, TypeOK, LockInv,
              PlaceInv, LocalInv
<1> QED BY <1>1, <1>2

(* Type correctness and the staging-file invariant: the flock admits one   *)
(* process, and while it writes, the staging file is exactly what was      *)
(* resumed and received (download, _download_locked).                      *)
THEOREM BaseInvariant == Spec => []BaseInv
<1>1. Init => BaseInv
  BY InitBase
<1>2. BaseInv /\ [Next]_vars => BaseInv'
  BY NextBase
<1> QED BY <1>1, <1>2, PTL DEF Spec

(* Every variable keeps its type (a digest is a digest of some content, a  *)
(* file has at most MaxSize chunks, rows are registry rows).               *)
THEOREM TypeCorrect == Spec => []TypeOK
<1>1. BaseInv => TypeOK
  BY DEF BaseInv
<1> QED BY <1>1, BaseInvariant, PTL
-----------------------------------------------------------------------------
(* The version history                                                     *)

(* A registration that validate_retained let pass.                         *)
Registration(status, d) ==
    /\ Register(status, d)
    /\ d # NoChecksum => ValidRetained(d)
    /\ UNCHANGED files

(* A step leaves the rows alone or makes one registration; a checksum that *)
(* is registered passed validate_retained in the same step.                *)
LEMMA RowsStep ==
    ASSUME BaseInv, [Next]_vars
    PROVE  \/ UNCHANGED rows
           \/ \E status \in Status, d \in Checksums \cup {NoChecksum} :
                 /\ Registration(status, d)
                 /\ \/ d = NoChecksum
                    \/ \E p \in Procs : pc[p] \in {"adopted", "register"} /\ d = digest[p]
                    \/ local.at # "idle" /\ d = local.file
<1> USE DEF BaseInv
<1>1. ASSUME NEW p \in Procs, AdoptRegister(p), ~UNCHANGED rows
      PROVE  /\ Registration("skipped", digest[p])
             /\ pc[p] = "adopted" /\ digest[p] \in Checksums
  BY <1>1 DEF AdoptRegister, Registration, PlaceInv
<1>2. ASSUME NEW p \in Procs, RegisterDownload(p), ~UNCHANGED rows
      PROVE  /\ Registration("downloaded", digest[p])
             /\ pc[p] = "register" /\ digest[p] \in Checksums
  BY <1>2 DEF RegisterDownload, Registration, PlaceInv
<1>3. ASSUME NEW p \in Procs, RecordFailure(p)
      PROVE  Registration("failed", NoChecksum)
  BY <1>3 DEF RecordFailure, Registration
<1>4. ASSUME LocalRegister \/ LocalLoaded, ~UNCHANGED rows
      PROVE  /\ Registration("downloaded", local.file) \/ Registration("loaded", local.file)
             /\ local.at # "idle" /\ local.file \in Checksums
  <2>1. \E v \in Versions : local.file = Content(v)
    BY <1>4 DEF LocalRegister, LocalLoaded, LocalInv
  <2> QED
    BY <1>4, <2>1, ContentIsChecksum
       DEF LocalRegister, LocalLoaded, Registration, NotRunning
<1>5. {"skipped", "downloaded", "failed", "loaded"} \subseteq Status
  BY DEF Status, Usable, Provisional
<1>6. ASSUME NEW p \in Procs, Transfer(p) \/ ResponseFails(p) \/ Crash(p),
             ~AdoptRegister(p), ~RegisterDownload(p), ~RecordFailure(p)
      PROVE  UNCHANGED rows
  BY <1>6 DEF Transfer, ResponseFails, Crash, Adopt, Start, Respond, WriteChunk,
              Finish, AlreadyRetained, Link, CopyInstead, Unlink
<1>7. ASSUME (\E v \in Versions : LocalRetain(v)) \/ LocalStop
             \/ (\E v \in Versions : OriginChanges(v)) \/ UNCHANGED vars
      PROVE  UNCHANGED rows
  BY <1>7 DEF LocalRetain, LocalStop, OriginChanges, vars
<1> QED BY <1>1, <1>2, <1>3, <1>4, <1>5, <1>6, <1>7 DEF Next, Operator

(* No step removes a checksummed row or changes its checksum.              *)
THEOREM EvidenceIsImmutable == Spec => EvidenceImmutable
<1> DEFINE Kept == \A i \in DOMAIN rows :
                      rows[i].checksum # NoChecksum =>
                         i \in DOMAIN rows' /\ rows'[i].checksum = rows[i].checksum
<1>1. ASSUME BaseInv, [Next]_vars PROVE Kept
  <2>1. CASE UNCHANGED rows
    BY <2>1
  <2>2. ASSUME NEW status \in Status, NEW d \in Checksums \cup {NoChecksum},
               Registration(status, d)
        PROVE  Kept
    <3>1. rows \in Seq(Row) /\ FileRow(status, d) \in Row
      BY <1>1, FileRowIsRow DEF BaseInv, TypeOK
    <3>2. rows' = Registered(rows, FileRow(status, d), Intact)
      BY <2>2 DEF Registration, Register
    <3> QED BY <3>1, <3>2, RegisteredKeepsChecksums
  <2> QED BY <1>1, <2>1, <2>2, RowsStep
<1>2. BaseInv /\ [Next]_vars => [Kept]_vars
  BY <1>1
<1> QED BY <1>2, BaseInvariant, PTL DEF Spec, EvidenceImmutable

(* A recorded failure leaves the version that consumers read in place.     *)
THEOREM FailuresKeepCurrent == Spec => FailureKeepsCurrent
<1> DEFINE Kept == \A p \in Procs : RecordFailure(p) => Current(rows') = Current(rows)
<1>1. ASSUME BaseInv, NEW p \in Procs, RecordFailure(p)
      PROVE  Current(rows') = Current(rows)
  <2>1. rows' = Registered(rows, FileRow("failed", NoChecksum), Intact)
    BY <1>1 DEF RecordFailure, Register
  <2>2. /\ rows \in Seq(Row) /\ FileRow("failed", NoChecksum) \in Row
        /\ FileRow("failed", NoChecksum).status \in Provisional
    BY <1>1, FileRowIsRow DEF BaseInv, TypeOK, Status, Provisional
  <2>3. UsableVersions(rows') = UsableVersions(rows)
    BY <2>1, <2>2, FailureKeepsUsable
  <2> QED BY <2>3 DEF Current, IsCurrent
<1>2. BaseInv /\ [Next]_vars => [Kept]_vars
  BY <1>1
<1> QED BY <1>2, BaseInvariant, PTL DEF Spec, FailureKeepsCurrent
-----------------------------------------------------------------------------
(* The caller that always starts afresh                                    *)

(* A file whose chunks all come from v and that is as long as v is v.      *)
LEMMA FullPrefixIsWhole ==
    ASSUME NEW v \in Versions, NEW f \in Checksums \cup {<<>>},
           Len(f) = Size[v], \A i \in DOMAIN f : f[i] = v
    PROVE  Whole(f)
<1>1. f \in Seq(Versions) /\ DOMAIN f = 1..Len(f)
  BY FileIsSeq
<1>2. f = [i \in 1..Size[v] |-> v]
  BY <1>1
<1> QED BY <1>2 DEF Whole, Content

(* Nobody writes through the staging name while a retained name shares its *)
(* inode, so retained names keep their bytes and never lose them.          *)
LEMMA RetainedStep ==
    ASSUME BaseInv, WriterOwnsInode, NamesKeepBytes, [Next]_vars
    PROVE  /\ NamesKeepBytes'
           /\ \A d \in Checksums : retained[d] = d => retained'[d] = d
<1> USE DEF BaseInv
<1> DEFINE Kept == /\ NamesKeepBytes'
                   /\ \A d \in Checksums : retained[d] = d => retained'[d] = d
<1>0. retained \in [Checksums -> Files]
  BY DEF TypeOK
<1>1. CASE UNCHANGED retained
  BY <1>1 DEF NamesKeepBytes
<1>2. ASSUME NEW bytes, WritePart(bytes), links = {} PROVE Kept
  BY <1>0, <1>2 DEF WritePart, NamesKeepBytes
<1>3. ASSUME NEW d \in Checksums, RetainCopy(d) PROVE Kept
  BY <1>0, <1>3 DEF RetainCopy, NamesKeepBytes
<1>4. ASSUME NEW p \in Procs, Transfer(p) PROVE Kept
  <2>1. CASE Adopt(p)
    BY <2>1, <1>3 DEF Adopt, Adoptable, TypeOK
  <2>2. CASE Link(p)
    <3>1. digest[p] \in Checksums /\ part = digest[p]
      BY <2>2 DEF Link, PlaceInv
    <3> QED BY <1>0, <2>2, <3>1 DEF Link, NamesKeepBytes
  <2>3. CASE CopyInstead(p)
    BY <2>3, <1>3 DEF CopyInstead, PlaceInv
  <2>4. CASE Respond(p)
    BY <2>4, <1>1, <1>2 DEF Respond, WriterOwnsInode, files
  <2>5. CASE WriteChunk(p)
    BY <2>5, <1>2 DEF WriteChunk, WriterOwnsInode
  <2>6. CASE ~(Adopt(p) \/ Link(p) \/ CopyInstead(p) \/ Respond(p) \/ WriteChunk(p))
    <3>1. UNCHANGED retained
      BY <1>4, <2>6
         DEF Transfer, AdoptRegister, Start, Finish, AlreadyRetained, Unlink,
             RegisterDownload, RecordFailure, UnlinkPart, files
    <3> QED BY <3>1, <1>1
  <2> QED BY <2>1, <2>2, <2>3, <2>4, <2>5, <2>6
<1>5. ASSUME NEW v \in Versions, LocalRetain(v) PROVE Kept
  BY <1>5, <1>3, ContentIsChecksum DEF LocalRetain
<1>6. CASE \/ \E p \in Procs : ResponseFails(p) \/ Crash(p)
           \/ LocalRegister \/ LocalLoaded \/ LocalStop
           \/ \E v \in Versions : OriginChanges(v)
           \/ UNCHANGED vars
  BY <1>6, <1>1 DEF ResponseFails, Crash, LocalRegister, LocalLoaded, LocalStop,
                    OriginChanges, files, vars
<1> QED BY <1>4, <1>5, <1>6 DEF Next, Operator

(* A process that takes a step is the only one inside download(), and      *)
(* stays the only one.                                                     *)
LEMMA OthersIdle ==
    ASSUME BaseInv, NEW p \in Procs, Transfer(p) \/ ResponseFails(p) \/ Crash(p)
    PROVE  \A q \in Procs \ {p} : pc[q] = "idle" /\ pc'[q] = "idle"
<1> USE DEF BaseInv
<1>1. \A q \in Procs \ {p} : pc[q] = "idle"
  BY Alone DEF Transfer, Adopt, AdoptRegister, Start, Call, Respond, WriteChunk,
     Finish, AlreadyRetained, Link, CopyInstead, Unlink, RegisterDownload,
     RecordFailure, ResponseFails, CopyRefused, Crash
<1>2. PICK place \in Places : pc' = [pc EXCEPT ![p] = place] \/ pc' = pc
  BY DEF Transfer, Adopt, AdoptRegister, Start, Respond, WriteChunk, Finish,
     AlreadyRetained, Link, CopyInstead, Unlink, RegisterDownload,
     RecordFailure, ResponseFails, Crash, Goto, Return, Places
<1> QED BY <1>1, <1>2 DEF TypeOK

(* What is on its way to a registration stays whole, when what is finished *)
(* is whole: a digest is set by an adoption or by the end of a transfer.   *)
LEMMA CarriesStep ==
    ASSUME BaseInv, TargetInv, CarriesWhole, [Next]_vars,
           \A p \in Procs : Finish(p) => Whole(part)
    PROVE  CarriesWhole'
<1> USE DEF BaseInv
<1>0. ASSUME NEW d, Whole(d) PROVE Whole(d)'
  BY <1>0 DEF Whole, Content
<1>1. ASSUME NEW p \in Procs, Transfer(p) PROVE CarriesWhole'
  <2>0. ASSUME \A q \in Procs \ {p} : pc'[q] = "idle",
               pc'[p] \in {"adopted", "link", "unlink", "register"} => Whole(digest'[p])
        PROVE  CarriesWhole'
    BY <2>0, <1>0 DEF CarriesWhole, Whole, Content
  <2>2. \A q \in Procs \ {p} : pc'[q] = "idle"
    BY <1>1, OthersIdle
  <2>3. CASE Adopt(p)
    BY <2>0, <2>2, <2>3 DEF Adopt, Adoptable, TargetInv, TypeOK
  <2>4. CASE Finish(p)
    <3>1. pc'[p] = "failing" \/ (pc'[p] = "link" /\ digest'[p] = part)
      BY <2>4 DEF Finish, Goto, TypeOK
    <3> QED BY <2>0, <2>2, <2>4, <3>1
  <2>5. CASE AlreadyRetained(p) \/ Link(p) \/ CopyInstead(p) \/ Unlink(p)
    <3>1. digest' = digest /\ Whole(digest[p])
      BY <2>5 DEF AlreadyRetained, Link, CopyInstead, Unlink, CarriesWhole
    <3> QED BY <2>0, <2>2, <3>1
  <2>6. CASE \/ AdoptRegister(p) \/ RegisterDownload(p) \/ RecordFailure(p)
             \/ (\E overwrite \in BOOLEAN : Start(p, overwrite))
             \/ Respond(p) \/ WriteChunk(p)
    <3>1. pc'[p] \in {"idle", "request", "write", "failing"}
      BY <2>6 DEF AdoptRegister, RegisterDownload, RecordFailure, Start, Respond,
         WriteChunk, Return, Goto, TypeOK
    <3> QED BY <2>0, <2>2, <3>1
  <2> QED BY <1>1, <2>3, <2>4, <2>5, <2>6 DEF Transfer
<1>2. ASSUME NEW p \in Procs, ResponseFails(p) \/ Crash(p) PROVE CarriesWhole'
  <2>0. pc'[p] \in {"idle", "failing"}
    BY <1>2 DEF ResponseFails, Crash, Return, Goto, TypeOK
  <2>1. \A q \in Procs : pc'[q] \in {"idle", "failing"}
    BY <1>2, <2>0, OthersIdle
  <2> QED BY <2>1 DEF CarriesWhole
<1>3. CASE Operator \/ (\E v \in Versions : OriginChanges(v)) \/ UNCHANGED vars
  <2>1. UNCHANGED procs
    BY <1>3 DEF Operator, LocalRetain, LocalRegister, LocalLoaded, LocalStop,
                OriginChanges, vars
  <2> QED BY <2>1, <1>0 DEF CarriesWhole, procs, Whole, Content
<1> QED BY <1>1, <1>2, <1>3 DEF Next

(* A fresh caller's writer owns the inode it writes, and all it holds is   *)
(* of the version it is served.                                            *)
LEMMA PlacesStep ==
    ASSUME BaseInv, BaseInv', policy = "fresh",
           FreshPlaces, WriterOwnsInode, [Next]_vars
    PROVE  FreshPlaces' /\ WriterOwnsInode'
<1> USE DEF BaseInv
<1> DEFINE Kept == FreshPlaces' /\ WriterOwnsInode'
<1>1. ASSUME NEW p \in Procs, Transfer(p) PROVE Kept
  <2>0. ASSUME \A q \in Procs \ {p} : pc'[q] = "idle",
               /\ pc'[p] # "adopted"
               /\ pc'[p] \in {"request", "write", "link"} => links' = {}
               /\ pc'[p] = "request" => part' = None
               /\ pc'[p] = "write" => \A i \in DOMAIN part' : part'[i] = served'[p]
        PROVE  Kept
    BY <2>0 DEF FreshPlaces, WriterOwnsInode
  <2>2. \A q \in Procs \ {p} : pc'[q] = "idle"
    BY <1>1, OthersIdle
  <2>3. CASE Adopt(p) \/ AdoptRegister(p)
    BY <2>3 DEF Adopt, AdoptRegister, FreshPlaces
  <2>4. ASSUME NEW overwrite \in BOOLEAN, Start(p, overwrite) PROVE Kept
    <3>1. DiscardsPart /\ pc'[p] = "request"
      BY <2>4 DEF DiscardsPart, Start, Goto, TypeOK
    <3> QED BY <2>0, <2>2, <2>4, <3>1 DEF Start, UnlinkPart
  <2>5. CASE Respond(p)
    <3>1. pc[p] = "request" /\ part = None /\ links = {}
      BY <2>5 DEF Respond, FreshPlaces, WriterOwnsInode
    <3>2. ~Asks /\ Truncates /\ ~Refused
      BY <3>1 DEF Asks, Existing, Truncates, Refused
    <3>3. pc'[p] = "write" /\ part' = <<>> /\ links' = {}
      BY <2>5, <3>1, <3>2 DEF Respond, Goto, WritePart, TypeOK
    <3> QED BY <2>0, <2>2, <3>3
  <2>6. CASE WriteChunk(p)
    <3>1. /\ pc[p] = "write" /\ pc'[p] = "write" /\ served' = served /\ links = {}
          /\ part' = Append(part, served[p]) /\ links' = {}
      BY <2>6 DEF WriteChunk, WritePart, WriterOwnsInode
    <3>2. /\ served[p] \in Versions /\ part \in Checksums \cup {<<>>}
          /\ Len(part) < MaxSize
      <4>1. /\ Len(part) = sent[p] /\ sent[p] < Size[served[p]]
            /\ served[p] \in Versions /\ part # None /\ sent[p] \in 0..MaxSize
        BY <2>6 DEF WriteChunk, PlaceInv, TypeOK
      <4>2. Size[served[p]] \in 1..MaxSize
        BY <4>1, SizeAssumption
      <4>3. part \in Checksums \cup {<<>>}
        BY <4>1 DEF TypeOK, Files
      <4> QED BY <4>1, <4>2, <4>3, SizeAssumption
    <3>3. \A i \in DOMAIN part : part[i] = served[p]
      BY <3>1 DEF FreshPlaces, WriterOwnsInode
    <3>4. \A i \in DOMAIN Append(part, served[p]) : Append(part, served[p])[i] = served[p]
      BY <3>2, <3>3, AppendIsChecksum
    <3> QED BY <2>0, <2>2, <3>1, <3>4
  <2>7. CASE Finish(p)
    <3>1. links' = {}
      BY <2>7 DEF Finish, WriterOwnsInode, files
    <3>2. pc'[p] \in {"failing", "link"}
      BY <2>7 DEF Finish, Goto, TypeOK
    <3> QED BY <2>0, <2>2, <3>1, <3>2
  <2>8. CASE AlreadyRetained(p) \/ Link(p) \/ CopyInstead(p) \/ Unlink(p)
    <3>1. pc'[p] \in {"unlink", "register", "failing"}
      BY <2>8 DEF AlreadyRetained, Link, CopyInstead, Unlink, Goto, TypeOK
    <3> QED BY <2>0, <2>2, <3>1
  <2>9. CASE RegisterDownload(p) \/ RecordFailure(p)
    <3>1. pc'[p] \in {"idle", "failing"}
      BY <2>9 DEF RegisterDownload, RecordFailure, Return, Goto, TypeOK
    <3> QED BY <2>0, <2>2, <3>1
  <2> QED BY <1>1, <2>3, <2>4, <2>5, <2>6, <2>7, <2>8, <2>9 DEF Transfer
<1>2. ASSUME NEW p \in Procs, ResponseFails(p) \/ Crash(p) PROVE Kept
  <2>0. pc'[p] \in {"idle", "failing"}
    BY <1>2 DEF ResponseFails, Crash, Return, Goto, TypeOK
  <2>1. \A q \in Procs : pc'[q] \in {"idle", "failing"}
    BY <1>2, <2>0, OthersIdle
  <2> QED BY <2>1 DEF FreshPlaces, WriterOwnsInode
<1>3. CASE Operator \/ (\E v \in Versions : OriginChanges(v)) \/ UNCHANGED vars
  <2>1. UNCHANGED <<procs, part, links>>
    BY <1>3 DEF Operator, LocalRetain, LocalRegister, LocalLoaded, LocalStop,
                OriginChanges, RetainCopy, files, vars
  <2> QED BY <2>1 DEF FreshPlaces, WriterOwnsInode, procs
<1> QED BY <1>1, <1>2, <1>3 DEF Next

(* A property of checksums that each registered digest has, and keeps, is  *)
(* a property of every checksummed row.                                    *)
LEMMA ChecksumsStep ==
    ASSUME BaseInv, [Next]_vars,
           NEW Good \in SUBSET Checksums, NEW Better \in SUBSET Checksums,
           Good \subseteq Better,
           \A i \in DOMAIN rows : rows[i].checksum # NoChecksum => rows[i].checksum \in Good,
           \A d \in Checksums :
              /\ retained[d] = d
              /\ \/ \E p \in Procs : pc[p] \in {"adopted", "register"} /\ d = digest[p]
                 \/ local.at # "idle" /\ d = local.file
              => d \in Better
    PROVE  \A i \in DOMAIN rows' :
              rows'[i].checksum # NoChecksum => rows'[i].checksum \in Better
<1> USE DEF BaseInv
<1>1. rows \in Seq(Row)
  BY DEF TypeOK
<1>2. CASE UNCHANGED rows
  BY <1>2
<1>3. ASSUME NEW status \in Status, NEW d \in Checksums \cup {NoChecksum},
             Registration(status, d),
             \/ d = NoChecksum
             \/ \E p \in Procs : pc[p] \in {"adopted", "register"} /\ d = digest[p]
             \/ local.at # "idle" /\ d = local.file,
             NEW i \in DOMAIN rows', rows'[i].checksum # NoChecksum
      PROVE  rows'[i].checksum \in Better
  <2>1. d # NoChecksum => d \in Better
    BY <1>3 DEF Registration, ValidRetained, Intact
  <2>2. /\ rows' = Registered(rows, FileRow(status, d), Intact)
        /\ FileRow(status, d) \in Row /\ FileRow(status, d).checksum = d
    BY <1>3, FileRowIsRow DEF Registration, Register
  <2>3. \/ rows'[i].checksum = d
        \/ i \in DOMAIN rows /\ rows'[i].checksum = rows[i].checksum
    BY <1>1, <1>3, <2>2, RegisteredChecksums
  <2> QED BY <1>3, <2>1, <2>3
<1> QED BY <1>2, <1>3, RowsStep

(* The checksums of rows are checksums.                                    *)
LEMMA RowChecksums ==
    ASSUME rows \in Seq(Row), NEW i \in DOMAIN rows, rows[i].checksum # NoChecksum
    PROVE  rows[i].checksum \in Checksums
<1>1. rows[i] \in Row
  OBVIOUS
<1> QED BY <1>1 DEF Row

(* What is registered is intact; what was registered stays so.             *)
LEMMA IntactStep ==
    ASSUME BaseInv, WriterOwnsInode, NamesKeepBytes, EvidenceIntact, [Next]_vars
    PROVE  EvidenceIntact'
<1> DEFINE Good == {d \in Checksums : retained[d] = d}
           Better == {d \in Checksums : retained'[d] = d}
<1>1. Good \subseteq Better
  BY RetainedStep
<1>2. \A i \in DOMAIN rows : rows[i].checksum # NoChecksum => rows[i].checksum \in Good
  BY RowChecksums DEF EvidenceIntact, BaseInv, TypeOK
<1>3. \A d \in Checksums : retained[d] = d => d \in Better
  BY <1>1
<1> HIDE DEF Good, Better
<1>4. Good \in SUBSET Checksums /\ Better \in SUBSET Checksums
  BY DEF Good, Better
<1>5. \A i \in DOMAIN rows' :
         rows'[i].checksum # NoChecksum => rows'[i].checksum \in Better
  BY <1>1, <1>2, <1>3, <1>4, ChecksumsStep
<1> QED BY <1>5 DEF EvidenceIntact, Better

(* What is registered is whole.                                            *)
LEMMA WholeStep ==
    ASSUME BaseInv, CarriesWhole, EvidenceIsWhole, [Next]_vars
    PROVE  EvidenceIsWhole'
<1> DEFINE Good == {d \in Checksums : Whole(d)}
<1>1. \A i \in DOMAIN rows : rows[i].checksum # NoChecksum => rows[i].checksum \in Good
  BY RowChecksums DEF EvidenceIsWhole, BaseInv, TypeOK
<1>2. ASSUME NEW d \in Checksums,
             \/ \E p \in Procs : pc[p] \in {"adopted", "register"} /\ d = digest[p]
             \/ local.at # "idle" /\ d = local.file
      PROVE  d \in Good
  <2>1. CASE \E p \in Procs : pc[p] \in {"adopted", "register"} /\ d = digest[p]
    BY <2>1 DEF CarriesWhole
  <2>2. CASE local.at # "idle" /\ d = local.file
    BY <2>2, ContentIsChecksum DEF LocalInv, BaseInv
  <2> QED BY <1>2, <2>1, <2>2
<1> HIDE DEF Good
<1>3. Good \in SUBSET Checksums
  BY DEF Good
<1>4. \A i \in DOMAIN rows' :
         rows'[i].checksum # NoChecksum => rows'[i].checksum \in Good
  BY <1>1, <1>2, <1>3, ChecksumsStep
<1> QED BY <1>4 DEF EvidenceIsWhole, Good, Whole, Content

-----------------------------------------------------------------------------
(* The inductive invariant and what follows from it                        *)

(* Nothing is registered with a checksum, or retained, at the start.       *)
LEMMA InitRest == Init => TargetInv /\ FreshInv /\ UnkilledInv /\ UnrefreshedInv
<1> SUFFICES ASSUME Init
             PROVE  /\ TargetInv /\ FreshPlaces /\ WriterOwnsInode /\ CarriesWhole
                    /\ NamesKeepBytes /\ EvidenceIntact /\ EvidenceIsWhole
                    /\ SharedAtUnlink /\ OneVersion
  BY DEF FreshInv, UnkilledInv, UnrefreshedInv
<1>1. TargetInv
  BY DEF Init, TargetInv, Whole
<1>2. FreshPlaces /\ WriterOwnsInode /\ CarriesWhole /\ SharedAtUnlink /\ OneVersion
  BY DEF Init, FreshPlaces, WriterOwnsInode, CarriesWhole, SharedAtUnlink, OneVersion
<1>3. NamesKeepBytes
  <2>1. retained = [d \in Checksums |-> None]
    BY DEF Init
  <2>2. \A d \in Checksums : retained[d] = None
    BY <2>1
  <2> QED BY <2>2 DEF NamesKeepBytes
<1>4. \A i \in DOMAIN rows : rows[i].checksum = NoChecksum
  BY DEF Init, FileRow
<1> QED BY <1>1, <1>2, <1>3, <1>4 DEF EvidenceIntact, EvidenceIsWhole

(* What a caller does with old staging files and the legacy file never     *)
(* change; kills and refreshes are only ever added.                        *)
LEMMA SettingsStay ==
    ASSUME TypeOK, [Next]_vars
    PROVE  /\ UNCHANGED <<policy, target>>
           /\ crashes' = 0 => crashes = 0 /\ ~\E p \in Procs : Crash(p)
           /\ refreshes' = 0 => refreshes = 0 /\ origin' = origin
<1>0. /\ crashes \in Nat /\ refreshes \in Nat
      /\ \A n \in Nat : n + 1 # 0
  BY BoundAssumption DEF TypeOK
<1>1. ASSUME NEW p \in Procs, Transfer(p)
      PROVE  UNCHANGED <<policy, target, crashes, refreshes, origin>>
  BY <1>1 DEF Transfer, Adopt, AdoptRegister, Start, Respond, WriteChunk, Finish,
     AlreadyRetained, Link, CopyInstead, Unlink, RegisterDownload, RecordFailure,
     settings, counters
<1>2. ASSUME NEW p \in Procs, ResponseFails(p)
      PROVE  UNCHANGED <<policy, target, crashes, refreshes, origin>>
  BY <1>2 DEF ResponseFails, settings
<1>3. ASSUME NEW p \in Procs, Crash(p)
      PROVE  UNCHANGED <<policy, target, refreshes, origin>> /\ crashes' = crashes + 1
  BY <1>3 DEF Crash, settings
<1>4. ASSUME Operator \/ UNCHANGED vars
      PROVE  UNCHANGED <<policy, target, crashes, refreshes, origin>>
  BY <1>4 DEF Operator, LocalRetain, LocalRegister, LocalLoaded, LocalStop,
              settings, counters, vars
<1>5. ASSUME NEW v \in Versions, OriginChanges(v)
      PROVE  UNCHANGED <<policy, target, crashes>> /\ refreshes' = refreshes + 1
  BY <1>5 DEF OriginChanges, settings
<1>6. \/ UNCHANGED <<policy, target, crashes, refreshes, origin>>
      \/ UNCHANGED <<policy, target, refreshes, origin>> /\ crashes' = crashes + 1
      \/ UNCHANGED <<policy, target, crashes>> /\ refreshes' = refreshes + 1
  BY <1>1, <1>2, <1>3, <1>4, <1>5 DEF Next
<1>7. crashes' = 0 => crashes = 0
  BY <1>0, <1>6
<1>8. refreshes' = 0 => refreshes = 0 /\ origin' = origin
  BY <1>0, <1>6
<1>9. crashes' = 0 => ~\E p \in Procs : Crash(p)
  BY <1>0, <1>3
<1>10. UNCHANGED <<policy, target>>
  BY <1>6
<1> QED BY <1>7, <1>8, <1>9, <1>10

(* The fresh caller: a new staging file for every download.                *)
LEMMA FreshStep ==
    ASSUME BaseInv, BaseInv', TargetInv, FreshInv, [Next]_vars
    PROVE  FreshInv'
<1>1. policy' = policy
  BY SettingsStay DEF BaseInv
<1>2. CASE policy = "fresh"
  <2>1. /\ FreshPlaces /\ WriterOwnsInode /\ CarriesWhole
        /\ NamesKeepBytes /\ EvidenceIntact /\ EvidenceIsWhole
    BY <1>2 DEF FreshInv
  <2>2. ASSUME NEW p \in Procs, Finish(p) PROVE Whole(part)
    <3>1. /\ served[p] \in Versions /\ part \in Checksums \cup {<<>>}
          /\ Len(part) = Size[served[p]]
          /\ \A i \in DOMAIN part : part[i] = served[p]
      BY <2>1, <2>2 DEF Finish, FreshPlaces, BaseInv, PlaceInv, TypeOK, Files
    <3> QED BY <3>1, FullPrefixIsWhole
  <2>3. CarriesWhole'
    BY <2>1, <2>2, CarriesStep
  <2> QED BY <1>1, <1>2, <2>1, <2>3, PlacesStep, RetainedStep, IntactStep, WholeStep
          DEF FreshInv
<1>3. CASE policy # "fresh"
  BY <1>1, <1>3 DEF FreshInv
<1> QED BY <1>2, <1>3

(* While no process has been killed, whoever left the place "unlink" has   *)
(* given the inode to the retained name for good.                          *)
LEMMA SharedStep ==
    ASSUME BaseInv, BaseInv', SharedAtUnlink, [Next]_vars, ~\E p \in Procs : Crash(p)
    PROVE  SharedAtUnlink' /\ WriterOwnsInode
<1> USE DEF BaseInv
<1>0. WriterOwnsInode
  <2> SUFFICES ASSUME NEW p \in Procs, pc[p] \in {"request", "write", "link"}, links # {}
               PROVE  FALSE
    BY DEF WriterOwnsInode
  <2>1. PICK q \in Procs : pc[q] = "unlink"
    BY DEF SharedAtUnlink
  <2> QED BY <2>1, Alone
<1>1. ASSUME NEW p \in Procs, Transfer(p) PROVE SharedAtUnlink'
  <2>1. links # {} => pc[p] = "unlink"
    BY <1>1, OthersIdle DEF SharedAtUnlink
  <2>2. CASE Link(p)
    <3>1. pc'[p] = "unlink"
      BY <2>2 DEF Link, Goto, TypeOK
    <3> QED BY <3>1 DEF SharedAtUnlink
  <2>3. CASE Unlink(p)
    BY <2>3 DEF Unlink, UnlinkPart, SharedAtUnlink
  <2>4. CASE ~Link(p) /\ ~Unlink(p)
    <3>1. pc[p] # "unlink" /\ (links' = links \/ links' = {})
      BY <1>1, <2>4 DEF Transfer, Adopt, Call, AdoptRegister, Start, Respond,
         WriteChunk, Finish, AlreadyRetained, CopyInstead, RegisterDownload,
         RecordFailure, RetainCopy, UnlinkPart, WritePart, files
    <3> QED BY <2>1, <3>1 DEF SharedAtUnlink
  <2> QED BY <2>2, <2>3, <2>4
<1>2. ASSUME NEW p \in Procs, ResponseFails(p) PROVE SharedAtUnlink'
  <2>1. links' = links /\ pc[p] # "unlink"
    BY <1>2 DEF ResponseFails, CopyRefused, files
  <2>2. links # {} => pc[p] = "unlink"
    BY <1>2, OthersIdle DEF SharedAtUnlink
  <2> QED BY <2>1, <2>2 DEF SharedAtUnlink
<1>3. ASSUME Operator \/ (\E v \in Versions : OriginChanges(v)) \/ UNCHANGED vars
      PROVE  SharedAtUnlink'
  <2>1. UNCHANGED <<procs, links>>
    BY <1>3 DEF Operator, LocalRetain, LocalRegister, LocalLoaded, LocalStop,
                OriginChanges, RetainCopy, files, vars
  <2> QED BY <2>1 DEF SharedAtUnlink, procs
<1> QED BY <1>0, <1>1, <1>2, <1>3 DEF Next

(* The caller that resumes, before any kill.                               *)
LEMMA UnkilledStep ==
    ASSUME BaseInv, BaseInv', UnkilledInv, [Next]_vars
    PROVE  UnkilledInv'
<1> SUFFICES ASSUME crashes' = 0
             PROVE  SharedAtUnlink' /\ NamesKeepBytes' /\ EvidenceIntact'
  BY DEF UnkilledInv
<1>1. crashes = 0 /\ ~\E p \in Procs : Crash(p)
  BY SettingsStay DEF BaseInv
<1>2. SharedAtUnlink /\ NamesKeepBytes /\ EvidenceIntact
  BY <1>1 DEF UnkilledInv
<1>3. SharedAtUnlink' /\ WriterOwnsInode
  BY <1>1, <1>2, SharedStep
<1> QED BY <1>2, <1>3, RetainedStep, IntactStep

(* While the origin serves one version, the staging file stays a prefix of *)
(* it, whoever truncates it, resumes it or leaves it behind.               *)
LEMMA OneVersionStep ==
    ASSUME BaseInv, BaseInv', OneVersion, [Next]_vars, origin' = origin
    PROVE  OneVersion'
<1> USE DEF BaseInv
<1>0. /\ origin \in Versions /\ Size[origin] \in Nat
      /\ part \in Checksums \cup {<<>>, None}
  BY SizeAssumption DEF TypeOK, Files
<1>1. CASE UNCHANGED part /\ \A p \in Procs : pc'[p] = "write" => pc[p] = "write" /\ served'[p] = served[p]
  BY <1>1 DEF OneVersion
<1>2. ASSUME NEW p \in Procs, Transfer(p) PROVE OneVersion'
  <2>0. \A q \in Procs \ {p} : pc'[q] = "idle"
    BY <1>2, OthersIdle
  <2>1. ASSUME NEW overwrite \in BOOLEAN, Start(p, overwrite) PROVE OneVersion'
    <3>1. pc'[p] = "request" /\ (part' = part \/ part' = None)
      BY <2>1 DEF Start, UnlinkPart, Goto, TypeOK, files
    <3> QED BY <2>0, <3>1 DEF OneVersion
  <2>2. CASE Respond(p)
    <3>1. CASE Refused
      <4>1. pc'[p] = "failing" /\ part' = part
        BY <2>2, <3>1 DEF Respond, Goto, TypeOK, files
      <4> QED BY <2>0, <4>1 DEF OneVersion
    <3>2. CASE ~Refused
      <4>1. served'[p] = origin /\ (part' = <<>> \/ part' = part)
        BY <2>2, <3>2 DEF Respond, WritePart, TypeOK, files
      <4>2. Len(<<>>) = 0 /\ DOMAIN <<>> = {}
        OBVIOUS
      <4> QED BY <1>0, <2>0, <4>1, <4>2 DEF OneVersion
    <3> QED BY <3>1, <3>2
  <2>3. CASE WriteChunk(p)
    <3>1. /\ pc[p] = "write" /\ pc' = pc /\ served' = served /\ served[p] = origin
          /\ part' = Append(part, origin) /\ part \in Checksums \cup {<<>>}
          /\ Len(part) < Size[origin]
      BY <2>3 DEF WriteChunk, WritePart, OneVersion, PlaceInv, TypeOK, Files
    <3>2. Len(part) < MaxSize
      BY <1>0, <3>1, FileIsSeq, SizeAssumption
    <3>3. /\ Len(part') = Len(part) + 1 /\ Len(part) \in Nat
          /\ \A i \in DOMAIN part' : part'[i] = origin \/ (i \in DOMAIN part /\ part'[i] = part[i])
      BY <1>0, <3>1, <3>2, AppendIsChecksum, FileIsSeq
    <3>4. part # None
      BY <3>1, NoneAssumption
    <3>5. Len(part') <= Size[origin] /\ \A i \in DOMAIN part' : part'[i] = origin
      BY <1>0, <3>1, <3>3, <3>4 DEF OneVersion
    <3> QED BY <2>0, <3>1, <3>5 DEF OneVersion
  <2>4. CASE Unlink(p)
    <3>1. part' = None /\ pc'[p] = "register"
      BY <2>4 DEF Unlink, UnlinkPart, Goto, TypeOK
    <3> QED BY <2>0, <3>1 DEF OneVersion
  <2>5. CASE \/ Adopt(p) \/ AdoptRegister(p) \/ Finish(p) \/ AlreadyRetained(p)
             \/ Link(p) \/ CopyInstead(p) \/ RegisterDownload(p) \/ RecordFailure(p)
    <3>1. part' = part /\ pc'[p] # "write"
      BY <2>5 DEF Adopt, AdoptRegister, Finish, AlreadyRetained, Link, CopyInstead,
         RegisterDownload, RecordFailure, RetainCopy, Return, Goto, TypeOK, files
    <3> QED BY <2>0, <3>1 DEF OneVersion
  <2> QED BY <1>2, <2>1, <2>2, <2>3, <2>4, <2>5 DEF Transfer
<1>3. ASSUME NEW p \in Procs, ResponseFails(p) \/ Crash(p) PROVE OneVersion'
  <2>0. part' = part /\ pc'[p] # "write"
    BY <1>3 DEF ResponseFails, Crash, Return, Goto, TypeOK, files
  <2>1. part' = part /\ \A q \in Procs : pc'[q] # "write"
    BY <1>3, <2>0, OthersIdle
  <2> QED BY <2>1 DEF OneVersion
<1>4. CASE Operator \/ (\E v \in Versions : OriginChanges(v)) \/ UNCHANGED vars
  <2>1. UNCHANGED <<procs, part>>
    BY <1>4 DEF Operator, LocalRetain, LocalRegister, LocalLoaded, LocalStop,
                OriginChanges, RetainCopy, files, vars
  <2> QED BY <2>1, <1>1 DEF procs
<1> QED BY <1>2, <1>3, <1>4 DEF Next

(* The caller that resumes, before any refresh.                            *)
LEMMA UnrefreshedStep ==
    ASSUME BaseInv, BaseInv', TargetInv, UnrefreshedInv, [Next]_vars
    PROVE  UnrefreshedInv'
<1> SUFFICES ASSUME refreshes' = 0
             PROVE  OneVersion' /\ CarriesWhole' /\ EvidenceIsWhole'
  BY DEF UnrefreshedInv
<1>1. refreshes = 0 /\ origin' = origin
  BY SettingsStay DEF BaseInv
<1>2. OneVersion /\ CarriesWhole /\ EvidenceIsWhole
  BY <1>1 DEF UnrefreshedInv
<1>3. ASSUME NEW p \in Procs, Finish(p) PROVE Whole(part)
  <2>1. /\ origin \in Versions /\ part \in Checksums \cup {<<>>}
        /\ Len(part) = Size[origin]
        /\ \A i \in DOMAIN part : part[i] = origin
    BY <1>2, <1>3 DEF Finish, OneVersion, BaseInv, PlaceInv, TypeOK, Files
  <2> QED BY <2>1, FullPrefixIsWhole
<1> QED BY <1>1, <1>2, <1>3, OneVersionStep, CarriesStep, WholeStep

(* IInv is inductive.  The flock gives each writer the staging file, the   *)
(* fresh start (or the absence of kills) an inode of its own, so retained  *)
(* names keep their bytes, so every row that was validated once stays      *)
(* valid; the fresh start (or the absence of refreshes) makes what is      *)
(* finished one complete version.                                          *)
THEOREM InductiveInvariant == Spec => []IInv
<1> DEFINE Rest == TargetInv /\ FreshInv /\ UnkilledInv /\ UnrefreshedInv
<1>1. IInv <=> BaseInv /\ Rest
  BY DEF IInv, BaseInv
<1>2. Init => IInv
  BY <1>1, InitBase, InitRest
<1>3. IInv /\ [Next]_vars => IInv'
  <2> SUFFICES ASSUME BaseInv, Rest, [Next]_vars PROVE BaseInv' /\ Rest'
    BY DEF IInv, BaseInv
  <2>1. BaseInv'
    BY NextBase
  <2>2. TargetInv'
    BY SettingsStay DEF BaseInv, TargetInv, Whole, Content
  <2> QED BY <2>1, <2>2, FreshStep, UnkilledStep, UnrefreshedStep
<1> QED BY <1>2, <1>3, PTL DEF Spec

(* For a caller that always starts afresh (sync-roll-call-votes), every    *)
(* checksummed row can be verified against its retained file for ever,     *)
(* whatever crashes, broken connections, refreshes and second processes.   *)
THEOREM FreshEvidenceIntact == Spec => [](policy = "fresh" => EvidenceIntact)
<1>1. IInv => (policy = "fresh" => EvidenceIntact)
  BY DEF IInv, FreshInv
<1> QED BY <1>1, InductiveInvariant, PTL

(* ... and every checksummed row is one complete version of the artifact.  *)
THEOREM FreshEvidenceWhole == Spec => [](policy = "fresh" => EvidenceIsWhole)
<1>1. IInv => (policy = "fresh" => EvidenceIsWhole)
  BY DEF IInv, FreshInv
<1> QED BY <1>1, InductiveInvariant, PTL

(* For callers that resume a staging file the rows stay verifiable until a *)
(* process is killed: only a kill between os.link and unlink leaves the    *)
(* staging name on the inode of retained evidence.                         *)
THEOREM UnkilledEvidenceIntact == Spec => []EvidenceIntactUnlessKilled
<1>1. IInv => EvidenceIntactUnlessKilled
  BY DEF IInv, UnkilledInv, EvidenceIntactUnlessKilled
<1> QED BY <1>1, InductiveInvariant, PTL

(* ... and every checksummed row is one complete version as long as the    *)
(* origin has not replaced the file, whatever kills, broken connections,   *)
(* servers that ignore Range and second processes.                         *)
THEOREM UnrefreshedEvidenceWhole == Spec => []WholeUnlessRefreshed
<1>1. IInv => WholeUnlessRefreshed
  BY DEF IInv, UnrefreshedInv, WholeUnlessRefreshed
<1> QED BY <1>1, InductiveInvariant, PTL
=============================================================================
