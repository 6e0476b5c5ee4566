-------------------------- MODULE ArtifactDownload --------------------------
(***************************************************************************)
(* How the bytes of ONE artifact travel from its origin to retained,       *)
(* registered evidence: ingestion/bulk.py (download, register_local) over  *)
(* artifact_storage.py and register_artifact.                              *)
(*                                                                         *)
(* Bytes are abstract: a file is the sequence of the origin versions its   *)
(* chunks came from, so the complete content of version v is <<v, .., v>>  *)
(* and a stitched file mixes versions.  A SHA-256 digest is the sequence   *)
(* itself (a collision-free hash).  <<>> is an empty file.                 *)
(*                                                                         *)
(* Hard links matter: retain_artifact_bytes publishes the staging file by  *)
(* os.link and unlinks it afterwards, so between the two calls the staging *)
(* name and the retained name are one inode ("links").                     *)
(*                                                                         *)
(* The callers differ in what they do with a staging file left by an       *)
(* earlier call ("policy"):                                                *)
(*   resume  bulk plans, census, openstates: download() resumes it         *)
(*   fresh   sync-roll-call-votes: unlinked before every download          *)
(*   mtime   sync-billstatus, sync-bill-text: unlinked when its last write *)
(*           is older than the origin's Last-Modified                      *)
(* fresh and mtime callers hold the source's session advisory lock around  *)
(* the unlink and the download, so for them the unlink is part of Start.   *)
(***************************************************************************)
EXTENDS ArtifactRegistry, FiniteSets

CONSTANTS
    Procs,          \* processes that may run the download
    Versions,       \* the contents the origin may serve over time
    Size,           \* Size[v]: number of chunks of version v
    MaxSize,
    None,           \* no process, no file, no version
    Policies,       \* the caller policies to consider
    HardLinks,      \* can the lake's filesystem hard-link?  subset of BOOLEAN
    RangeSupport,   \* does the origin honour Range?  subset of BOOLEAN
    ExpectedSizes,  \* values of ArtifactSpec.expected_bytes; 0 is "not given"
    MaxRefresh, MaxCrashes, MaxErrors, MaxLocal   \* bounds on the environment

Content(v) == [i \in 1..Size[v] |-> v]

ASSUME SizeAssumption ==
    /\ MaxSize \in Nat \ {0}
    /\ Size \in [Versions -> 1..MaxSize]
ASSUME DigestAssumption ==
    Checksums = UNION {[1..n -> Versions] : n \in 1..MaxSize}
ASSUME NoneAssumption ==
    None \notin Procs \cup Versions \cup Checksums \cup {<<>>}
ASSUME PolicyAssumption ==
    /\ Policies \subseteq {"resume", "fresh", "mtime"}
    /\ HardLinks \subseteq BOOLEAN
    /\ RangeSupport \subseteq BOOLEAN
    /\ ExpectedSizes \subseteq 0..MaxSize
ASSUME BoundAssumption ==
    /\ MaxRefresh \in Nat
    /\ MaxCrashes \in Nat
    /\ MaxErrors \in Nat
    /\ MaxLocal \in Nat

VARIABLES
    policy, hardLinks, ranged, expected,   \* chosen once, at Init
    origin,     \* the version the origin serves now
    target,     \* the legacy file at artifact_path(spec), or None
    part,       \* the staging file, or None
    stale,      \* was the origin replaced after the last write to part?
    links,      \* the retained names that share the inode of part
    retained,   \* checksum-specific path -> file, or None
    rows,       \* the artifact's versions in ingest.artifact
    lock,       \* the flock on <target>.lock
    pc, served, sent, digest,   \* per process: its place, the version it
                                \* is served, chunks received, digest
    local,      \* the operator's command: its place and its file
    refreshes, crashes, errors, locals

settings == <<policy, hardLinks, ranged, expected>>
files == <<part, stale, links, retained>>
procs == <<lock, pc, served, sent, digest>>
counters == <<refreshes, crashes, errors, locals>>
vars == <<settings, origin, target, files, rows, procs, local, counters>>

Files == Checksums \cup {<<>>, None}
Places == {"idle", "adopted", "request", "write", "link", "unlink",
           "register", "failing"}
NotRunning == [at |-> "idle", file |-> None]

TypeOK ==
    /\ policy \in Policies /\ hardLinks \in HardLinks
    /\ ranged \in RangeSupport /\ expected \in ExpectedSizes
    /\ origin \in Versions
    /\ target \in Checksums \cup {None}
    /\ part \in Files /\ stale \in BOOLEAN
    /\ links \subseteq Checksums
    /\ retained \in [Checksums -> Files]
    /\ rows \in Seq(Row)
    /\ lock \in Procs \cup {None}
    /\ pc \in [Procs -> Places]
    /\ served \in [Procs -> Versions \cup {None}]
    /\ sent \in [Procs -> 0..MaxSize]
    /\ digest \in [Procs -> Checksums \cup {None}]
    /\ local \in [at : {"idle", "retained", "registered"},
                  file : Checksums \cup {None}]
    /\ refreshes \in 0..MaxRefresh /\ crashes \in 0..MaxCrashes
    /\ errors \in 0..MaxErrors /\ locals \in 0..MaxLocal

(* The checksums whose retained file still hashes to its name.             *)
Intact == {d \in Checksums : retained[d] = d}

FileRow(status, checksum) ==
    [status |-> status, checksum |-> checksum, virtual |-> FALSE]

(* A legacy file from before checksums may be there, with or without the   *)
(* un-checksummed row that described it.                                   *)
Init ==
    /\ policy \in Policies /\ hardLinks \in HardLinks
    /\ ranged \in RangeSupport /\ expected \in ExpectedSizes
    /\ origin \in Versions
    /\ \/ target = None /\ rows = <<>>
       \/ /\ target \in {Content(v) : v \in Versions}
          /\ rows \in {<<>>, <<FileRow("downloaded", NoChecksum)>>}
    /\ part = None /\ stale = FALSE /\ links = {}
    /\ retained = [d \in Checksums |-> None]
    /\ lock = None
    /\ pc = [p \in Procs |-> "idle"]
    /\ served = [p \in Procs |-> None]
    /\ sent = [p \in Procs |-> 0]
    /\ digest = [p \in Procs |-> None]
    /\ local = NotRunning
    /\ refreshes = 0 /\ crashes = 0 /\ errors = 0 /\ locals = 0
-----------------------------------------------------------------------------
(* Files                                                                   *)

Existing == IF part = None THEN 0 ELSE Len(part)

(* Writing through the staging name reaches every name of its inode.       *)
WritePart(bytes) ==
    /\ part' = bytes
    /\ retained' = [d \in Checksums |-> IF d \in links THEN bytes ELSE retained[d]]
    /\ stale' = FALSE
    /\ UNCHANGED links

UnlinkPart ==
    /\ part' = None /\ links' = {} /\ stale' = FALSE
    /\ UNCHANGED retained

(* validate_retained: the file is there and hashes to the checksum.        *)
ValidRetainedExistsOnly(d) == retained[d] # None   \* mutant: no re-hash
ValidRetained(d) == d \in Intact

(* retain_artifact_bytes for a source we do not control: an existing name  *)
(* must be intact, otherwise a verified copy is published.                 *)
CanRetainCopy(d) == retained[d] = None \/ ValidRetained(d)
RetainCopy(d) ==
    /\ retained' = [retained EXCEPT ![d] = d]
    /\ UNCHANGED <<part, stale, links>>

(* register_artifact, its own validate_retained passed.                    *)
Register(status, d) == rows' = Registered(rows, FileRow(status, d), Intact)
-----------------------------------------------------------------------------
(* download(): everything between flock and the return of the lock         *)

Goto(p, place) == pc' = [pc EXCEPT ![p] = place]

Return(p) ==
    /\ lock' = None
    /\ Goto(p, "idle")
    /\ served' = [served EXCEPT ![p] = None]
    /\ sent' = [sent EXCEPT ![p] = 0]
    /\ digest' = [digest EXCEPT ![p] = None]

Call(p) == pc[p] = "idle" /\ lock = None

LatestProvisional == rows # <<>> /\ Latest(rows).status \in Provisional

(* Without overwrite an intact latest version is simply returned ...       *)
Reusable ==
    /\ rows # <<>>
    /\ Latest(rows).checksum # NoChecksum
    /\ ~Latest(rows).virtual
    /\ ~LatestProvisional
    /\ Latest(rows).checksum \in Intact

(* ... and otherwise a legacy file is retained and registered.             *)
Adoptable == target # None /\ ~LatestProvisional

Adopt(p) ==
    /\ Call(p) /\ policy = "resume"
    /\ ~Reusable /\ Adoptable /\ CanRetainCopy(target)
    /\ RetainCopy(target)
    /\ lock' = p
    /\ Goto(p, "adopted")
    /\ digest' = [digest EXCEPT ![p] = target]
    /\ UNCHANGED <<settings, origin, target, rows, served, sent, local, counters>>

AdoptRegister(p) ==
    /\ pc[p] = "adopted"
    /\ IF ValidRetained(digest[p]) THEN Register("skipped", digest[p])
                                ELSE UNCHANGED rows
    /\ Return(p)
    /\ UNCHANGED <<settings, origin, target, files, local, counters>>

(* The caller drops a staging file it does not want resumed.               *)
DiscardsPartNever == FALSE   \* mutant: the unlink before the download is lost
DiscardsPart == policy = "fresh" \/ (policy = "mtime" /\ stale)

Start(p, overwrite) ==
    /\ Call(p)
    /\ overwrite \/ (policy = "resume" /\ ~Reusable /\ ~Adoptable)
    /\ lock' = p
    /\ Goto(p, "request")
    /\ IF DiscardsPart THEN UnlinkPart ELSE UNCHANGED files
    /\ UNCHANGED <<settings, origin, target, rows, served, sent, digest, local, counters>>

(* The server: a Range that starts at or past the end is a 416, otherwise  *)
(* it is honoured (206) or ignored (200, the whole body).                  *)
Asks == Existing > 0
Refused == Asks /\ ranged /\ Existing >= Size[origin]
BodyStart == IF Asks /\ ranged THEN Existing ELSE 0

(* The client: anything but a 206 to its Range restarts the staging file.  *)
TruncatesUnlessAsked == ~Asks   \* mutant: a 200 to a Range is appended
Truncates == ~(Asks /\ ranged)

(* The request and the opening of the staging file; raise_for_status turns *)
(* a 416 into a failure before the file is touched.                        *)
Respond(p) ==
    /\ pc[p] = "request"
    /\ IF Refused
       THEN Goto(p, "failing") /\ UNCHANGED <<files, served, sent>>
       ELSE /\ Goto(p, "write")
            /\ served' = [served EXCEPT ![p] = origin]
            /\ sent' = [sent EXCEPT ![p] = BodyStart]
            /\ IF Truncates THEN WritePart(<<>>) ELSE UNCHANGED files
    /\ UNCHANGED <<settings, origin, target, rows, lock, digest, local, counters>>

(* 5xx, a timeout, a refused content type or host: no response body is     *)
(* accepted.  Or the connection breaks in the middle of the body, or the   *)
(* copy that stands in for a refused link does not fit on the disk.        *)
CopyRefused(p) == pc[p] = "link" /\ retained[digest[p]] = None /\ ~hardLinks

ResponseFails(p) ==
    /\ pc[p] \in {"request", "write"} \/ CopyRefused(p)
    /\ errors < MaxErrors
    /\ errors' = errors + 1
    /\ Goto(p, "failing")
    /\ UNCHANGED <<settings, origin, target, files, rows, lock, served, sent, digest,
                   local, refreshes, crashes, locals>>

WriteChunk(p) ==
    /\ pc[p] = "write" /\ sent[p] < Size[served[p]]
    /\ sent' = [sent EXCEPT ![p] = @ + 1]
    /\ WritePart(Append(part, served[p]))
    /\ UNCHANGED <<settings, origin, target, rows, lock, pc, served, digest,
                   local, counters>>

(* The body is complete: the size check, then the digest.                  *)
FinishEarly(p) ==   \* mutant: a broken connection passes for the end of the body
    /\ pc[p] = "write" /\ Existing > 0
    /\ Goto(p, "link")
    /\ digest' = [digest EXCEPT ![p] = part]
    /\ UNCHANGED <<settings, origin, target, files, rows, lock, served, sent, local, counters>>

Finish(p) ==
    /\ pc[p] = "write" /\ sent[p] = Size[served[p]]
    /\ IF expected # 0 /\ Existing # expected
       THEN Goto(p, "failing") /\ UNCHANGED digest
       ELSE /\ Goto(p, "link")
            /\ digest' = [digest EXCEPT ![p] = part]
    /\ UNCHANGED <<settings, origin, target, files, rows, lock, served, sent, local, counters>>

(* retain_artifact_bytes(move=True) finds the name already taken.          *)
AlreadyRetained(p) ==
    /\ pc[p] = "link" /\ retained[digest[p]] # None
    /\ IF ValidRetained(digest[p]) THEN Goto(p, "unlink") ELSE Goto(p, "failing")
    /\ UNCHANGED <<settings, origin, target, files, rows, lock, served, sent, digest,
                   local, counters>>

(* os.link succeeds: one inode, two names, until the unlink.               *)
Link(p) ==
    /\ pc[p] = "link" /\ retained[digest[p]] = None /\ hardLinks
    /\ retained' = [retained EXCEPT ![digest[p]] = part]
    /\ links' = links \cup {digest[p]}
    /\ Goto(p, "unlink")
    /\ UNCHANGED <<settings, origin, target, part, stale, rows, lock, served,
                   sent, digest, local, counters>>

(* os.link is refused by the filesystem: a verified copy is published, and *)
(* the staging file stays where it is.                                     *)
CopyInstead(p) ==
    /\ pc[p] = "link" /\ retained[digest[p]] = None /\ ~hardLinks
    /\ RetainCopy(digest[p])
    /\ Goto(p, "register")
    /\ UNCHANGED <<settings, origin, target, rows, lock, served, sent, digest, local, counters>>

UnlinkForgotten(p) ==   \* mutant: the staging name outlives the download
    /\ pc[p] = "unlink"
    /\ Goto(p, "register")
    /\ UNCHANGED <<settings, origin, target, files, rows, lock, served, sent, digest,
                   local, counters>>

Unlink(p) ==
    /\ pc[p] = "unlink"
    /\ UnlinkPart
    /\ Goto(p, "register")
    /\ UNCHANGED <<settings, origin, target, rows, lock, served, sent, digest, local, counters>>

RegisterDownload(p) ==
    /\ pc[p] = "register"
    /\ IF ValidRetained(digest[p])
       THEN Register("downloaded", digest[p]) /\ Return(p)
       ELSE Goto(p, "failing") /\ UNCHANGED <<rows, lock, served, sent, digest>>
    /\ UNCHANGED <<settings, origin, target, files, local, counters>>

(* except Exception: the failure is recorded and re-raised.                *)
RecordFailure(p) ==
    /\ pc[p] = "failing"
    /\ Register("failed", NoChecksum)
    /\ Return(p)
    /\ UNCHANGED <<settings, origin, target, files, local, counters>>

(* A kill drops the flock and whatever the process knew; files stay.  (A   *)
(* database that refuses even the failure's row ends the call alike.)      *)
Crash(p) ==
    /\ pc[p] # "idle"
    /\ crashes < MaxCrashes
    /\ crashes' = crashes + 1
    /\ Return(p)
    /\ UNCHANGED <<settings, origin, target, files, rows, local, refreshes,
                   errors, locals>>
-----------------------------------------------------------------------------
(* register_local and billstatusload: a complete file the operator has,    *)
(* admitted without taking the download lock.  billstatusload marks it     *)
(* loaded once its members are saved; register_local stops before that.    *)

LocalRetain(v) ==
    /\ local = NotRunning /\ locals < MaxLocal
    /\ locals' = locals + 1
    /\ CanRetainCopy(Content(v))
    /\ RetainCopy(Content(v))
    /\ local' = [at |-> "retained", file |-> Content(v)]
    /\ UNCHANGED <<settings, origin, target, rows, procs, refreshes, crashes, errors>>

LocalRegister ==
    /\ local.at = "retained"
    /\ IF ValidRetained(local.file)
       THEN Register("downloaded", local.file) /\ local' = [local EXCEPT !.at = "registered"]
       ELSE UNCHANGED rows /\ local' = NotRunning
    /\ UNCHANGED <<settings, origin, target, files, procs, counters>>

LocalLoaded ==
    /\ local.at = "registered"
    /\ IF ValidRetained(local.file) THEN Register("loaded", local.file)
                                 ELSE UNCHANGED rows
    /\ local' = NotRunning
    /\ UNCHANGED <<settings, origin, target, files, procs, counters>>

LocalStop ==
    /\ local.at = "registered"
    /\ local' = NotRunning
    /\ UNCHANGED <<settings, origin, target, files, rows, procs, counters>>

(* The publisher replaces the file behind the URL.                         *)
OriginChanges(v) ==
    /\ v # origin /\ refreshes < MaxRefresh
    /\ refreshes' = refreshes + 1
    /\ origin' = v
    /\ stale' = (part # None)
    /\ UNCHANGED <<settings, target, part, links, retained, rows, procs, local,
                   crashes, errors, locals>>
-----------------------------------------------------------------------------
Transfer(p) ==
    \/ Adopt(p) \/ AdoptRegister(p)
    \/ \E overwrite \in BOOLEAN : Start(p, overwrite)
    \/ Respond(p) \/ WriteChunk(p) \/ Finish(p)
    \/ AlreadyRetained(p) \/ Link(p) \/ CopyInstead(p) \/ Unlink(p)
    \/ RegisterDownload(p) \/ RecordFailure(p)

Operator ==
    \/ \E v \in Versions : LocalRetain(v)
    \/ LocalRegister \/ LocalLoaded \/ LocalStop

Next ==
    \/ \E p \in Procs : Transfer(p) \/ ResponseFails(p) \/ Crash(p)
    \/ Operator
    \/ \E v \in Versions : OriginChanges(v)

Spec == Init /\ [][Next]_vars

(* The download is called again and again (a scheduled or repeated plan    *)
(* run) and a process that is not killed goes on; errors, crashes and      *)
(* origin changes are never promised.                                      *)
FairSpec == Spec /\ WF_vars(\E p \in Procs : Transfer(p))
-----------------------------------------------------------------------------
(* Properties                                                              *)

(* Registered evidence can be verified at any later time: the file at the  *)
(* checksum-specific path of every checksummed row hashes to that checksum *)
(* (validate_retained would still accept every row ever admitted).         *)
EvidenceIntact ==
    \A i \in DOMAIN rows :
        rows[i].checksum # NoChecksum => retained[rows[i].checksum] = rows[i].checksum

(* For callers that resume a staging file the same holds until a process   *)
(* is killed: only a kill between os.link and unlink leaves the staging    *)
(* name on the inode of retained evidence.                                 *)
EvidenceIntactUnlessKilled == crashes = 0 => EvidenceIntact

(* What is admitted as one artifact is one complete response of the origin *)
(* (or one complete local file): never a prefix, never chunks of two       *)
(* versions stitched by a resumed transfer.                                *)
Whole(bytes) == \E v \in Versions : bytes = Content(v)
EvidenceIsWhole ==
    \A i \in DOMAIN rows : rows[i].checksum # NoChecksum => Whole(rows[i].checksum)

(* The same for callers that resume, as long as the origin has not         *)
(* replaced the file: crashes, broken connections, servers that ignore     *)
(* Range and second processes do not corrupt what is admitted.             *)
WholeUnlessRefreshed == refreshes = 0 => EvidenceIsWhole

(* The version history is append-only evidence: no step removes a row or   *)
(* changes the checksum of a row that has one ("without redefining prior   *)
(* evidence", register_artifact).                                          *)
EvidenceImmutable ==
    [][\A i \in DOMAIN rows :
          rows[i].checksum # NoChecksum =>
              i \in DOMAIN rows' /\ rows'[i].checksum = rows[i].checksum]_vars

(* Recording a failed attempt never changes which version consumers of     *)
(* ingest.current_artifact read.                                           *)
FailureKeepsCurrent ==
    [][\A p \in Procs : RecordFailure(p) => Current(rows') = Current(rows)]_vars

(* For a caller that always starts afresh, calling the download again and  *)
(* again ends with the version the origin serves, once it has stopped      *)
(* changing, as the latest for good, however the earlier calls ended.      *)
EventuallyCurrent ==
    <>[](rows # <<>> /\ Latest(rows).checksum = Content(origin))
-----------------------------------------------------------------------------
(* The inductive invariant behind the theorems                             *)

(* The flock: at most one process is inside download().                    *)
LockInv == \A p \in Procs : pc[p] # "idle" <=> lock = p

(* The staging file holds what was resumed and received, no more and no    *)
(* less; its digest is taken from the complete file.                       *)
PlaceInv ==
    \A p \in Procs :
        /\ pc[p] = "write" =>
              /\ served[p] \in Versions /\ part # None
              /\ Len(part) = sent[p] /\ sent[p] <= Size[served[p]]
        /\ pc[p] \in {"adopted", "link", "unlink", "register"} => digest[p] \in Checksums
        /\ pc[p] = "link" => part = digest[p]

LocalInv == local.at # "idle" => \E v \in Versions : local.file = Content(v)

(* Whoever may write the staging file writes an inode of its own, and so a *)
(* retained name keeps its bytes.                                          *)
WriterOwnsInode ==
    \A p \in Procs : pc[p] \in {"request", "write", "link"} => links = {}

NamesKeepBytes == \A d \in Checksums : retained[d] \in {None, d}

(* What is on its way to a registration is complete.                       *)
CarriesWhole ==
    \A p \in Procs :
        pc[p] \in {"adopted", "link", "unlink", "register"} => Whole(digest[p])

(* A caller that always starts afresh has the lock and a new staging file. *)
FreshPlaces ==
    \A p \in Procs :
        /\ pc[p] # "adopted"
        /\ pc[p] = "request" => part = None
        /\ pc[p] = "write" => \A i \in DOMAIN part : part[i] = served[p]

FreshInv ==
    policy = "fresh" =>
        /\ FreshPlaces /\ WriterOwnsInode /\ CarriesWhole
        /\ NamesKeepBytes /\ EvidenceIntact /\ EvidenceIsWhole

(* Without a kill the two names share an inode only at "unlink".           *)
SharedAtUnlink == links # {} => \E p \in Procs : pc[p] = "unlink"

UnkilledInv ==
    crashes = 0 => SharedAtUnlink /\ NamesKeepBytes /\ EvidenceIntact

(* Without a refresh the staging file, whoever left it, is a prefix of the *)
(* only version there is.                                                  *)
OneVersion ==
    /\ part # None => /\ Len(part) <= Size[origin]
                      /\ \A i \in DOMAIN part : part[i] = origin
    /\ \A p \in Procs : pc[p] = "write" => served[p] = origin

UnrefreshedInv ==
    refreshes = 0 => OneVersion /\ CarriesWhole /\ EvidenceIsWhole

(* A legacy file was complete when it was put there.                       *)
TargetInv == target # None => Whole(target)

IInv ==
    /\ TypeOK /\ LockInv /\ PlaceInv /\ LocalInv /\ TargetInv
    /\ FreshInv /\ UnkilledInv /\ UnrefreshedInv
=============================================================================
