---------------------------- MODULE BillStatusSync ----------------------------
(***************************************************************************)
(* sync-billstatus (ingestion/billstatus.py): one zip of bills per bill    *)
(* type travels through the ten Connector stages into core.bill and its    *)
(* child tables.  Beside it runs load-billstatus (legload.py), the older   *)
(* loader of archives already on disk, which takes no lock and never       *)
(* supersedes anything.                                                    *)
(*                                                                         *)
(* A zip's content is a model value that says which bills it holds, which  *)
(* of them cannot be read and how large it is.  GovInfo publishes a        *)
(* sequence of contents per zip; a position in it is what a HEAD returns   *)
(* (size and Last-Modified).  The directory manifest is a second document: *)
(* it lists the bills of a publication, not always the one being served.   *)
(*                                                                         *)
(* A download appends to the staging file an earlier one left, unless the  *)
(* file is older than the Last-Modified of the HEAD, which is taken to be  *)
(* the moment of publication; GovInfo is taken to serve the Range asked    *)
(* for.  Bytes of two publications joined in one file are a content too.   *)
(*                                                                         *)
(* A version of a zip is a position in rows[z], and a child row of a bill  *)
(* carries the version it came from.                                       *)
(***************************************************************************)
EXTENDS GovInfoArtifacts, FiniteSets, FiniteSetsExt

CONSTANTS
    Zips,        \* 1..n, in the order the run visits them; one Congress
    Bills,       \* bill numbers
    Published,   \* Published[z]: the contents GovInfo publishes over time
    Holds,       \* Holds[c]: the bills content c has a member for
    Unreadable,  \* Unreadable[c]: those whose XML is refused
    Corrupt,     \* Corrupt[c]: those whose bytes the zip cannot return
    Size,        \* Size[c]: the bytes of content c
    Splice,      \* Splice[c][d]: the content with a beginning of c, then d
    Lake,        \* Lake[z]: the archives of zip z load-billstatus may find
    BatchSize,
    None,
    MaxFaults, MaxLegacy   \* bounds on failures and kills, and legacy loads

ASSUME ZipAssumption ==
    /\ Zips # {} /\ IsFiniteSet(Zips) /\ Zips = 1..Cardinality(Zips)
    /\ Bills \subseteq Nat
    /\ None \notin Checksums /\ NoChecksum = None
ASSUME ContentAssumption ==
    /\ \A z \in Zips : Published[z] \in Seq(Checksums) \ {<<>>}
    /\ Holds \in [Checksums -> SUBSET Bills]
    /\ \A c \in Checksums : Unreadable[c] \cup Corrupt[c] \subseteq Holds[c]
    /\ Size \in [Checksums -> Nat]
    /\ \A c, d \in Checksums :
          Splice[c][d] \in Checksums /\ Size[Splice[c][d]] = Size[d]
    /\ Lake \in [Zips -> SUBSET Checksums]
ASSUME BoundAssumption ==
    /\ BatchSize \in Nat \ {0}
    /\ MaxFaults \in Nat /\ MaxLegacy \in Nat

VARIABLES
    origin,     \* the publication each zip is served from
    listed,     \* the publication whose bills the manifest lists
    partial,    \* the staging file of each zip, or None
    rows,       \* the versions of each zip in ingest.artifact
    children,   \* the versions a bill has child rows of
    record,     \* the versions a bill has its core.bill_source_record of
    ident,      \* the version its govinfo.package identifier names; 0: none
    beside,     \* load-billstatus wrote the bill, and no newer version since
    pc,         \* the stage the sync is in; "idle" when none runs
    only,       \* download_only
    item,       \* what the run knows of each zip
    at,         \* the zip being published
    malformed,  \* the zips with a member this run could not read
    run,        \* the last run's status in ingest.run
    target,     \* its core.bill status in ingest.run_target
    legacy,     \* load-billstatus: its zip, version and members left, or None
    faults, legacies

tables == <<rows, children, record, ident, beside>>
sync == <<pc, only, item, at, malformed, run, target>>
counters == <<faults, legacies>>
vars == <<origin, listed, partial, tables, sync, legacy, counters>>

(* metadata.coverage of a version: no verdict yet, the verdict of a stage, *)
(* or the bare word load-billstatus stores under the same key.             *)
Verdicts == {None, "complete", "partial", "word"}
ZipRow == [status : Status, checksum : Checksums \cup {None}, virtual : {FALSE},
           lake : BOOLEAN, stamp : Nat \cup {None}, verdict : Verdicts]
Stages == {"select", "extract", "evidence", "stage", "normalize", "publish",
           "committed", "zipdone", "checkpoint"}
Item == [head : Nat, reuse : BOOLEAN, art : Nat, row : ZipRow \cup {None},
         verdict : Verdicts, todo : SUBSET Bills]
Part == [of : Checksums, size : Nat, at : Nat]  \* at: served when last written
Load == [zip : Zips, art : Nat, todo : SUBSET Bills]

TypeOK ==
    /\ \A z \in Zips : {origin[z], listed[z]} \subseteq 1..Len(Published[z])
    /\ partial \in [Zips -> Part \cup {None}]
    /\ rows \in [Zips -> Seq(ZipRow)]
    /\ children \in [Zips -> [Bills -> SUBSET Nat]]
    /\ record \in [Zips -> [Bills -> SUBSET Nat]]
    /\ ident \in [Zips -> [Bills -> Nat]]
    /\ \A z \in Zips, b \in Bills :
          /\ children[z][b] \subseteq 1..Len(rows[z])
          /\ record[z][b] \subseteq children[z][b]
          /\ ident[z][b] \in 0..Len(rows[z])
    /\ beside \in [Zips -> [Bills -> BOOLEAN]]
    /\ pc \in Stages \cup {"idle"} /\ only \in BOOLEAN
    /\ item \in [Zips -> Item]
    /\ at \in Zips \cup {Cardinality(Zips) + 1}
    /\ malformed \subseteq Zips
    /\ run \in {"none", "running", "failed", "partial", "succeeded"}
    /\ target \in {"none", "partial", "succeeded"}
    /\ legacy \in Load \cup {None}
    /\ faults \in 0..MaxFaults /\ legacies \in 0..MaxLegacy

Blank == [head |-> 0, reuse |-> FALSE, art |-> 0, row |-> None,
          verdict |-> None, todo |-> {}]

Init ==
    /\ origin = [z \in Zips |-> 1] /\ listed = [z \in Zips |-> 1]
    /\ partial = [z \in Zips |-> None]
    /\ rows = [z \in Zips |-> <<>>]
    /\ children = [z \in Zips |-> [b \in Bills |-> {}]]
    /\ record = [z \in Zips |-> [b \in Bills |-> {}]]
    /\ ident = [z \in Zips |-> [b \in Bills |-> 0]]
    /\ beside = [z \in Zips |-> [b \in Bills |-> FALSE]]
    /\ pc = "idle" /\ only = FALSE
    /\ item = [z \in Zips |-> Blank]
    /\ at = 1 /\ malformed = {} /\ run = "none" /\ target = "none"
    /\ legacy = None
    /\ faults = 0 /\ legacies = 0
-----------------------------------------------------------------------------
Served(z) == Published[z][origin[z]]
Promised(z) == Published[z][item[z].head]    \* what the HEAD described
Content(z) == item[z].row.checksum
-----------------------------------------------------------------------------
(* The origin.  Nothing keeps a zip and its manifest in step.              *)
Publish(z) ==
    /\ origin[z] < Len(Published[z])
    /\ origin' = [origin EXCEPT ![z] = @ + 1]
    /\ UNCHANGED <<listed, partial, tables, sync, legacy, counters>>

Relist(z) ==
    /\ listed[z] < Len(Published[z])
    /\ listed' = [listed EXCEPT ![z] = @ + 1]
    /\ UNCHANGED <<origin, partial, tables, sync, legacy, counters>>
-----------------------------------------------------------------------------
(* The ten stages.  Close is checkpoint, which run_connector always calls: *)
(* it closes the run in the ledger and lets the advisory lock go.          *)

Close(status) == pc' = "idle" /\ run' = status

(* The lock lets one run in, and a HEAD per zip tells what is served.      *)
Discover(downloadOnly) ==
    /\ pc = "idle"
    /\ pc' = "select"
    /\ only' = downloadOnly
    /\ item' = [z \in Zips |-> [Blank EXCEPT !.head = origin[z]]]
    /\ at' = 1 /\ malformed' = {}
    /\ run' = "running" /\ target' = "none"
    /\ UNCHANGED <<origin, listed, partial, tables, legacy, counters>>

(* _decide: reuse bytes only while they are what the origin describes.     *)
Reusable(z) ==
    /\ Current(rows[z]) # 0
    /\ CurrentFile(rows[z]).stamp = item[z].head
    /\ Size[CurrentFile(rows[z]).checksum] = Size[Promised(z)]

Select ==
    /\ pc = "select"
    /\ pc' = "extract"
    /\ item' = [z \in Zips |-> [item[z] EXCEPT !.reuse = Reusable(z)]]
    /\ UNCHANGED <<origin, listed, partial, tables, only, at, malformed, run, target,
                   legacy, counters>>

(* The next zip to download: at is not in use yet, so it counts here.      *)
ToFetch == {z \in Zips : z >= at /\ ~item[z].reuse}

InTransfer(z) == pc = "extract" /\ ToFetch # {} /\ z = Min(ToFetch)

(* _discard_stale_partial: a file last written before the publication the  *)
(* HEAD described was there is not resumed.                                *)
ResumableAny(z) == partial[z]    \* mutant: a stale file is resumed
Resumable(z) ==
    IF partial[z] # None /\ partial[z].at >= item[z].head THEN partial[z] ELSE None

(* The bytes asked for start behind those of the staging file: there are   *)
(* none once it is as long as the zip, and GovInfo answers 416.            *)
PastEnd(p, c) == p # None /\ p.size >= Size[c]
Joined(p, c) == IF p = None \/ p.of = c THEN c ELSE Splice[p.of][c]

RightSize(z) == Size[Served(z)] = Size[Promised(z)]

(* What arrives is what is served NOW, behind the bytes that were there,   *)
(* and is registered as what the HEAD said.  A wrong size raises once the  *)
(* bytes are registered.                                                   *)
Extract ==
    /\ \E z \in Zips :
          /\ InTransfer(z) /\ ~PastEnd(Resumable(z), Served(z))
          /\ rows' = [rows EXCEPT ![z] = Filed(@,
                GovInfoRow("downloaded", Joined(Resumable(z), Served(z)), FALSE,
                           item[z].head, None))]
          /\ partial' = [partial EXCEPT ![z] = None]
          /\ IF RightSize(z)
             THEN at' = z + 1 /\ UNCHANGED <<pc, run>>
             ELSE Close("failed") /\ UNCHANGED at
    /\ UNCHANGED <<origin, listed, children, record, ident, beside, only, item,
                   malformed, target, legacy, counters>>

(* A download that raises leaves a row of its own.                         *)
FileFailure(z) ==
    rows' = [rows EXCEPT ![z] = Filed(@,
               GovInfoRow("failed", NoChecksum, FALSE, item[z].head, None))]

(* The 416 ends the run, and the file stays for the next one.              *)
RangeRefused ==
    /\ \E z \in Zips :
          /\ InTransfer(z) /\ PastEnd(Resumable(z), Served(z))
          /\ FileFailure(z)
    /\ Close("failed")
    /\ UNCHANGED <<origin, listed, partial, children, record, ident, beside, only,
                   item, at, malformed, target, legacy, counters>>

Extracted ==
    /\ pc = "extract" /\ ToFetch = {}
    /\ pc' = "evidence" /\ at' = 1
    /\ UNCHANGED <<origin, listed, partial, tables, only, item, malformed, run, target,
                   legacy, counters>>

(* The registry must hold bytes filed under this run's HEAD.               *)
Evidence ==
    /\ pc = "evidence"
    /\ IF \A z \in Zips : CurrentFile(rows[z]).stamp = item[z].head
       THEN /\ pc' = "stage"
            /\ item' = [z \in Zips |->
                  [item[z] EXCEPT !.art = Current(rows[z]), !.row = CurrentFile(rows[z])]]
            /\ UNCHANGED run
       ELSE Close("failed") /\ UNCHANGED item
    /\ UNCHANGED <<origin, listed, partial, tables, only, at, malformed, target,
                   legacy, counters>>

(* A zip is compared with the manifest, unless a verdict was stored with   *)
(* bytes that are reused.  A stored word has no .get("checksum").          *)
Compared(z) ==
    IF Holds[Content(z)] = Holds[Published[z][listed[z]]]
    THEN "complete" ELSE "partial"

Verdict(z) ==
    IF item[z].reuse /\ item[z].row.verdict # None
    THEN item[z].row.verdict ELSE Compared(z)

Stage ==
    /\ pc = "stage"
    /\ IF \E z \in Zips : Verdict(z) = "word"
       THEN Close("failed") /\ UNCHANGED item
       ELSE /\ pc' = "normalize"
            /\ item' = [z \in Zips |-> [item[z] EXCEPT !.verdict = Verdict(z)]]
            /\ UNCHANGED run
    /\ UNCHANGED <<origin, listed, partial, tables, only, at, malformed, target,
                   legacy, counters>>

(* Left to load: the members without a record row from this version.  An   *)
(* empty zip is refused (validate).                                        *)
TodoByIdentifier(z) ==     \* mutant: the older loader's mark is trusted
    {b \in Holds[Content(z)] : ident[z][b] # item[z].art}
Todo(z) == {b \in Holds[Content(z)] : item[z].art \notin record[z][b]}

Normalize ==
    /\ pc = "normalize"
    /\ IF \E z \in Zips : Holds[Content(z)] = {}
       THEN Close("failed") /\ UNCHANGED item
       ELSE /\ pc' = IF only THEN "checkpoint" ELSE "publish"
            /\ item' = [z \in Zips |->
                  [item[z] EXCEPT !.todo = IF only THEN {} ELSE Todo(z)]]
            /\ UNCHANGED run
    /\ UNCHANGED <<origin, listed, partial, tables, only, at, malformed, target,
                   legacy, counters>>
-----------------------------------------------------------------------------
(* publish: batches in member order, each one transaction.                 *)

Batch == {b \in item[at].todo :
            Cardinality({c \in item[at].todo : c < b}) < BatchSize}

(* parse_billstatus_xml and _identity_problem let these through.           *)
Readable(c) == Holds[c] \ (Unreadable[c] \cup Corrupt[c])

(* save_billstatus_bill upserts the child rows of this version, the record *)
(* last; rows of other versions stay.                                      *)
SavedBill(versions, art) == versions \cup {art}

(* supersede_bill_children then deletes the strictly older versions' rows  *)
(* of the rewritten bills, those of the record table with the others.      *)
SupersedeOthers(versions, art) == versions \cap {art}  \* mutant: newer ones too
SupersedeNone(versions, art) == versions              \* mutant
Supersede(versions, art) == {v \in versions : v >= art}

RecordsKept(versions, art) == versions                \* mutant: table left out
SupersedeRecords(versions, art) == Supersede(versions, art)

LoadBatch ==
    /\ pc = "publish" /\ at \in Zips /\ item[at].todo # {}
    /\ Batch \cap Corrupt[Content(at)] = {}
    /\ LET good == Batch \cap Readable(Content(at))
           bad == Batch \ good
           art == item[at].art
       IN  /\ children' = [children EXCEPT ![at] = [b \in Bills |->
                  IF b \in good THEN Supersede(SavedBill(@[b], art), art) ELSE @[b]]]
           /\ record' = [record EXCEPT ![at] = [b \in Bills |->
                  IF b \in good THEN SupersedeRecords(SavedBill(@[b], art), art) ELSE @[b]]]
           /\ ident' = [ident EXCEPT ![at] = [b \in Bills |->
                  IF b \in good THEN art ELSE @[b]]]
           /\ beside' = [beside EXCEPT ![at] = [b \in Bills |->
                  @[b] /\ ~(b \in good /\ \A v \in children[at][b] : v <= art)]]
           /\ malformed' = IF bad = {} THEN malformed ELSE malformed \cup {at}
           /\ item' = [item EXCEPT ![at].todo = @ \ Batch]
    /\ pc' = "committed"
    /\ UNCHANGED <<origin, listed, partial, rows, only, at, run, target, legacy, counters>>

(* publish catches what the parser raises, not the zip's BadZipFile: the   *)
(* batch is rolled back.                                                   *)
MemberCorrupt ==
    /\ pc = "publish" /\ at \in Zips
    /\ Batch \cap Corrupt[Content(at)] # {}
    /\ Close("failed")
    /\ UNCHANGED <<origin, listed, partial, tables, only, item, at, malformed,
                   target, legacy, counters>>

(* The ledger follows each commit; the Congress is not finished yet.       *)
RecordBatch ==
    /\ pc = "committed"
    /\ pc' = "publish" /\ target' = "partial"
    /\ UNCHANGED <<origin, listed, partial, tables, only, item, at, malformed, run,
                   legacy, counters>>

(* A zip read without a fault is marked loaded, with its verdict.          *)
FinishZip ==
    /\ pc = "publish" /\ at \in Zips /\ item[at].todo = {}
    /\ rows' = IF /\ at \notin malformed
                  /\ \/ item[at].row.status # "loaded"
                     \/ item[at].row.verdict # item[at].verdict
               THEN [rows EXCEPT ![at] = Filed(@,
                  GovInfoRow("loaded", Content(at), FALSE, None, item[at].verdict))]
               ELSE rows
    /\ pc' = "zipdone"
    /\ UNCHANGED <<origin, listed, partial, children, record, ident, beside, only, item,
                   at, malformed, run, target, legacy, counters>>

(* record(congress): succeeded only when its last zip is done and nothing  *)
(* was incomplete.                                                         *)
Incomplete == malformed # {} \/ \E z \in Zips : item[z].verdict = "partial"

TargetStatus ==
    IF at + 1 \in Zips \/ Incomplete THEN "partial" ELSE "succeeded"

RecordZip ==
    /\ pc = "zipdone"
    /\ at' = at + 1 /\ target' = TargetStatus
    /\ pc' = IF at + 1 \in Zips THEN "publish" ELSE "checkpoint"
    /\ UNCHANGED <<origin, listed, partial, tables, only, item, malformed, run, legacy,
                   counters>>

Checkpoint ==
    /\ pc = "checkpoint"
    /\ Close(IF Incomplete THEN "partial" ELSE "succeeded")
    /\ UNCHANGED <<origin, listed, partial, tables, only, item, at, malformed, target,
                   legacy, counters>>

(* What an interrupted download may leave in the staging file: what was    *)
(* there, more bytes of a publication served since the HEAD, up to all of  *)
(* them, or nothing, the bytes having been retained but not registered.    *)
LeftBehind(z) ==
    LET p == Resumable(z)
        had == IF p = None THEN 0 ELSE p.size
        Arrived(c) ==
            {[of |-> Joined(p, c), size |-> n, at |-> origin[z]] : n \in had + 1..Size[c]}
        serving == {Published[z][v] : v \in item[z].head..origin[z]}
    IN  {p} \cup UNION {Arrived(c) \cup {None} : c \in {d \in serving : ~PastEnd(p, d)}}

BreakOff(z) == InTransfer(z) /\ \E p \in LeftBehind(z) : partial' = [partial EXCEPT ![z] = p]

(* A request, a file or a statement raises; the open transaction is lost.  *)
(* A download that raises registers that it failed, if the database lets   *)
(* it.                                                                     *)
Fail ==
    /\ pc \in Stages \ {"checkpoint"} /\ faults < MaxFaults
    /\ faults' = faults + 1
    /\ Close("failed")
    /\ \/ UNCHANGED <<partial, rows>>
       \/ \E z \in Zips : BreakOff(z) /\ (FileFailure(z) \/ UNCHANGED rows)
    /\ UNCHANGED <<origin, listed, children, record, ident, beside, only, item, at,
                   malformed, target, legacy, legacies>>

(* The process dies, or closing the run fails with the database: the run   *)
(* stays "running" in the ledger, and the session lock goes with the       *)
(* connection.                                                             *)
Kill ==
    /\ pc # "idle" /\ faults < MaxFaults
    /\ faults' = faults + 1 /\ pc' = "idle"
    /\ UNCHANGED partial \/ \E z \in Zips : BreakOff(z)
    /\ UNCHANGED <<origin, listed, tables, only, item, at, malformed, run, target,
                   legacy, legacies>>
-----------------------------------------------------------------------------
(* load-billstatus, which reads an archive of the old lake.  It skips an   *)
(* archive only when the newest version is loaded from the lake's path.    *)
LegacyComplete(z, c) ==
    /\ rows[z] # <<>>
    /\ Latest(rows[z]).status = "loaded"
    /\ Latest(rows[z]).checksum = c /\ Latest(rows[z]).lake

LegacyStart(z, c) ==
    /\ legacy = None /\ legacies < MaxLegacy /\ ~LegacyComplete(z, c)
    /\ legacies' = legacies + 1
    /\ rows' = [rows EXCEPT ![z] = Filed(@,
                  GovInfoRow("downloaded", c, TRUE, None, "word"))]
    /\ LET art == Len(rows'[z])
       IN  legacy' = [zip |-> z, art |-> art,
                      todo |-> {b \in Holds[c] : ident[z][b] # art}]
    /\ UNCHANGED <<origin, listed, partial, children, record, ident, beside, sync, faults>>

LegacyContent == rows[legacy.zip][legacy.art].checksum

(* One transaction per bill; nothing is deleted and no record is kept.     *)
LegacySave ==
    /\ legacy # None /\ legacy.todo # {}
    /\ LET b == Min(legacy.todo)
           z == legacy.zip
       IN  IF b \notin Readable(LegacyContent)
           THEN legacy' = None /\ UNCHANGED <<children, ident, beside>>
           ELSE /\ children' = [children EXCEPT ![z][b] = SavedBill(@, legacy.art)]
                /\ ident' = [ident EXCEPT ![z][b] = legacy.art]
                /\ beside' = [beside EXCEPT ![z][b] = TRUE]
                /\ legacy' = [legacy EXCEPT !.todo = @ \ {b}]
    /\ UNCHANGED <<origin, listed, partial, rows, record, sync, counters>>

LegacyFinish ==
    /\ legacy # None /\ legacy.todo = {}
    /\ rows' = [rows EXCEPT ![legacy.zip] = Filed(@,
                  GovInfoRow("loaded", LegacyContent, TRUE, None, None))]
    /\ legacy' = None
    /\ UNCHANGED <<origin, listed, partial, children, record, ident, beside, sync, counters>>

(* It is killed, fails, or reaches its --limit.                            *)
LegacyStop ==
    /\ legacy # None
    /\ legacy' = None
    /\ UNCHANGED <<origin, listed, partial, tables, sync, counters>>
-----------------------------------------------------------------------------
SyncNext ==
    \/ Select \/ Extract \/ RangeRefused \/ Extracted \/ Evidence \/ Stage
    \/ Normalize \/ LoadBatch \/ MemberCorrupt \/ RecordBatch \/ FinishZip \/ RecordZip \/ Checkpoint

Next ==
    \/ \E z \in Zips : Publish(z) \/ Relist(z)
    \/ \E downloadOnly \in BOOLEAN : Discover(downloadOnly)
    \/ SyncNext \/ Fail \/ Kill
    \/ \E z \in Zips : \E c \in Lake[z] : LegacyStart(z, c)
    \/ LegacySave \/ LegacyFinish \/ LegacyStop

Spec == Init /\ [][Next]_vars

(* A run that has begun goes on, and the operator runs the full command    *)
(* again and again, whatever --download-only runs come between.  Nothing   *)
(* is promised of load-billstatus.                                         *)
FairSpec == Spec /\ WF_vars(SyncNext) /\ SF_vars(Discover(FALSE))
-----------------------------------------------------------------------------
(* A bill never shows the rows of two versions of its zip side by side,    *)
(* except where load-billstatus wrote beside the sync, until the sync      *)
(* loads the bill from a version no older than its rows.  Killed batches,  *)
(* refreshes in the middle of a load and unreadable members included.      *)
OneVersionUnlessBeside ==
    \A z \in Zips, b \in Bills :
        Cardinality(children[z][b]) > 1 => beside[z][b]

(* A Congress the ledger calls succeeded, and a run that ended succeeded,  *)
(* have every bill of every zip of theirs in core.bill, whatever earlier   *)
(* runs left behind and whatever load-billstatus marked.                   *)
AllLoaded ==
    \A z \in Zips : \A b \in Holds[Content(z)] : item[z].art \in record[z][b]
SucceededIsLoaded ==
    /\ target = "succeeded" => AllLoaded
    /\ run = "succeeded" /\ ~only => AllLoaded

(* A version's rows for a bill disappear only in a step that leaves the    *)
(* bill the rows of a newer version.                                       *)
ReplacedByNewer ==
    [][\A z \in Zips, b \in Bills :
         \A v \in children[z][b] \ children'[z][b] :
            \E w \in record'[z][b] : w > v]_vars

(* What the origin serves is loaded in the end, through refreshes, kills   *)
(* and failures ...                                                        *)
Reflected(z) ==
    \E v \in 1..Len(rows[z]) :
        /\ rows[z][v].checksum = Served(z)
        /\ \A b \in Readable(Served(z)) : v \in record[z][b]

EventuallyLoaded == <>[](\A z \in Zips : Reflected(z))

(* ... unless every later run stops at some zip: in stage, at the bare     *)
(* word load-billstatus stored on a version that is reused; in extract,    *)
(* at a staging file that is as long as the zip and not older than its     *)
(* publication; in publish, or in none, because bytes of two publications  *)
(* were registered as the one that is served and have its size.            *)
Worded(z) == Current(rows[z]) # 0 /\ CurrentFile(rows[z]).verdict = "word"
Overlong(z) ==
    partial[z] # None /\ partial[z].at >= origin[z] /\ PastEnd(partial[z], Served(z))
Misfiled(z) ==
    /\ Current(rows[z]) # 0
    /\ LET row == CurrentFile(rows[z])
       IN  /\ row.stamp = origin[z] /\ row.checksum # Served(z)
           /\ Size[row.checksum] = Size[Served(z)]
EventuallyLoadedUnlessStuck ==
    <>[](\/ \E z \in Zips : Worded(z) \/ Overlong(z) \/ Misfiled(z)
         \/ \A z \in Zips : Reflected(z))
=============================================================================
