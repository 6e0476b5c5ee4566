----------------------------- MODULE BillTextSync -----------------------------
(***************************************************************************)
(* sync-bill-text (ingestion/bill_text.py): the XML text of every version  *)
(* of every bill of one directory (a Congress, a session and a bill type)  *)
(* travels through the ten Connector stages into                           *)
(* core.bill_text_source_record, and into core.document when core.bill has *)
(* the bill.  The directory is one zip; while GovInfo publishes none, it   *)
(* is the XML files the manifest lists, each an artifact of its own.       *)
(*                                                                         *)
(* A text (one XML member) has ONE record, which the upsert moves from     *)
(* artifact to artifact.  Artifact 0 is the zip, artifact m > 0 the XML    *)
(* file of text m; a version of an artifact is a position in rows[k].      *)
(* What an artifact holds is a model value.  A HEAD returns its size and   *)
(* the publication it came with, which stands for Last-Modified.           *)
(*                                                                         *)
(* A download appends to the staging file an earlier one left, unless the  *)
(* file is older than that publication; GovInfo is taken to serve the      *)
(* Range asked for.  Bytes of two contents joined in one file are a        *)
(* content too.                                                            *)
(***************************************************************************)
EXTENDS GovInfoArtifacts, FiniteSets, FiniteSetsExt

CONSTANTS
    Texts,        \* 1..n: XML members, in member order
    Bills,
    BillOf,       \* BillOf[m]: the bill text m is a version of
    Publications, \* what GovInfo publishes over time: see PublicationAssumption
    XmlOf,        \* XmlOf[m]: the content of the XML file of text m
    Holds,        \* Holds[c]: the texts content c has a member for
    Unreadable,   \* Unreadable[c]: those the parser refuses
    Corrupt,      \* Corrupt[c]: those whose bytes the zip cannot return
    Size,         \* Size[c]: the bytes of content c
    Splice,       \* Splice[c][d]: the content with a beginning of c, then d
    BatchSize,
    None,
    MaxFaults     \* bound on failures and kills

Keys == {0} \cup Texts
Record == [key : Keys, art : Nat \ {0}, attached : BOOLEAN]

ASSUME TextAssumption ==
    /\ Texts # {} /\ IsFiniteSet(Texts) /\ Texts = 1..Cardinality(Texts)
    /\ BillOf \in [Texts -> Bills]
    /\ None \notin Checksums \cup {"complete", "partial"} \cup Record
    /\ NoChecksum = None
ASSUME ContentAssumption ==
    /\ Holds \in [Checksums -> SUBSET Texts]
    /\ \A c \in Checksums : Unreadable[c] \cup Corrupt[c] \subseteq Holds[c]
    /\ Size \in [Checksums -> Nat]
    /\ \A c, d \in Checksums :
          Splice[c][d] \in Checksums /\ Size[Splice[c][d]] = Size[d]
    /\ \A m \in Texts : XmlOf[m] \in Checksums /\ Holds[XmlOf[m]] = {m}
(* A publication: the zip's content or None, the texts the manifest lists, *)
(* and those whose XML file is served.                                     *)
ASSUME PublicationAssumption ==
    Publications \in Seq([zip : Checksums \cup {None},
                          list : SUBSET Texts, xml : SUBSET Texts]) \ {<<>>}
ASSUME BoundAssumption == BatchSize \in Nat \ {0} /\ MaxFaults \in Nat

VARIABLES
    origin,     \* the publication being served
    known,      \* the bills core.bill has
    partial,    \* the staging file of each artifact, or None
    rows,       \* the versions of each artifact in ingest.artifact
    record,     \* the record of each text, or None
    document,   \* the core.document of each text, or None
    pc, only,   \* the stage the sync is in ("idle": none runs), download_only
    items,      \* the artifacts of this run
    item,       \* what the run knows of each of them
    at,         \* the artifact being downloaded or loaded
    malformed,  \* did a member of this run fail to parse?
    unknown,    \* did one belong to a bill core.bill lacks?
    run,        \* the last run's status in ingest.run
    target,     \* its core.bill_text_source_record status in run_target
    faults

tables == <<rows, record, document>>
sync == <<pc, only, items, item, at, malformed, unknown, run, target>>
vars == <<origin, known, partial, tables, sync, faults>>

Served == Publications[origin]
TextRow == [status : Status, checksum : Checksums \cup {None},
             virtual : {FALSE}, lake : {FALSE}, stamp : Nat \cup {None},
             verdict : {None, "complete", "partial"}]
Source == [key : Keys, art : Nat \ {0}]       \* a version of an artifact
Stages == {"select", "extract", "evidence", "stage", "normalize", "publish",
           "committed", "drop", "mark", "done", "checkpoint"}
Part == [of : Checksums, size : Nat, at : Nat]  \* at: served when last written
Item == [head : Nat, reuse : BOOLEAN, art : Nat,
         row : TextRow \cup {None}, verdict : {None, "complete", "partial"},
         todo : SUBSET Texts]

TypeOK ==
    /\ origin \in 1..Len(Publications)
    /\ known \subseteq Bills
    /\ partial \in [Keys -> Part \cup {None}]
    /\ rows \in [Keys -> Seq(TextRow)]
    /\ record \in [Texts -> Record \cup {None}]
    /\ document \in [Texts -> Source \cup {None}]
    /\ \A m \in Texts : record[m] # None =>
          record[m].art \in 1..Len(rows[record[m].key])
    /\ pc \in Stages \cup {"idle"} /\ only \in BOOLEAN
    /\ items \subseteq Keys /\ (0 \in items => items = {0})
    /\ item \in [Keys -> Item]
    /\ at \in 0..Cardinality(Texts) + 1
    /\ {malformed, unknown} \subseteq BOOLEAN
    /\ run \in {"none", "running", "failed", "partial", "succeeded"}
    /\ target \in {"none", "partial", "succeeded"}
    /\ faults \in 0..MaxFaults

Blank == [head |-> 0, reuse |-> FALSE, art |-> 0, row |-> None,
          verdict |-> None, todo |-> {}]

Init ==
    /\ origin = 1 /\ known = {}
    /\ partial = [k \in Keys |-> None]
    /\ rows = [k \in Keys |-> <<>>]
    /\ record = [m \in Texts |-> None] /\ document = [m \in Texts |-> None]
    /\ pc = "idle" /\ only = FALSE
    /\ items = {} /\ item = [k \in Keys |-> Blank] /\ at = 0
    /\ malformed = FALSE /\ unknown = FALSE
    /\ run = "none" /\ target = "none"
    /\ faults = 0
-----------------------------------------------------------------------------
(* GovInfo publishes anew; sync-billstatus saves a bill.                   *)
Publish ==
    /\ origin < Len(Publications)
    /\ origin' = origin + 1
    /\ UNCHANGED <<known, partial, tables, sync, faults>>

BillSaved(b) ==
    /\ b \notin known
    /\ known' = known \cup {b}
    /\ UNCHANGED <<origin, partial, tables, sync, faults>>
-----------------------------------------------------------------------------
Close(status) == pc' = "idle" /\ run' = status

(* _discover_type: the zip, or failing that one item per listed XML file.  *)
OfferedBoth == (IF Served.zip # None THEN {0} ELSE {})     \* mutant
               \cup (Served.list \cap Served.xml)
Offered == IF Served.zip # None THEN {0} ELSE Served.list \cap Served.xml

(* What publication p has of an artifact, and the one its HEAD is dated:   *)
(* the first of those that have what is served now.                        *)
ContentAt(k, p) == IF k = 0 THEN Publications[p].zip
                   ELSE IF k \in Publications[p].xml THEN XmlOf[k] ELSE None
ServedContent(k) == ContentAt(k, origin)
Promised(k) == ContentAt(k, item[k].head)
Since(k) == Min({p \in 1..origin :
                    \A q \in p..origin : ContentAt(k, q) = ServedContent(k)})

Discover(downloadOnly) ==
    /\ pc = "idle"
    /\ items' = Offered /\ only' = downloadOnly
    /\ item' = [k \in Keys |-> IF k \in Offered
                               THEN [Blank EXCEPT !.head = Since(k)]
                               ELSE Blank]
    /\ malformed' = FALSE /\ unknown' = FALSE /\ target' = "none"
    /\ at' = 0
    /\ IF Offered = {} THEN Close("failed") ELSE pc' = "select" /\ run' = "running"
    /\ UNCHANGED <<origin, known, partial, tables, faults>>

(* _decide: reuse bytes only while they are what the origin describes.     *)
Reusable(k) ==
    /\ Current(rows[k]) # 0
    /\ CurrentFile(rows[k]).stamp = item[k].head
    /\ Size[CurrentFile(rows[k]).checksum] = Size[Promised(k)]

Select ==
    /\ pc = "select"
    /\ pc' = "extract"
    /\ item' = [k \in Keys |->
          IF k \in items THEN [item[k] EXCEPT !.reuse = Reusable(k)] ELSE item[k]]
    /\ UNCHANGED <<origin, known, partial, tables, only, items, at, malformed, unknown,
                   run, target, faults>>

ToFetch == {k \in items : k >= at /\ ~item[k].reuse}

InTransfer(k) == pc = "extract" /\ ToFetch # {} /\ k = Min(ToFetch)

(* _discard_stale_partial: a file last written before what the HEAD dates  *)
(* was published is not resumed.                                           *)
ResumableAny(k) == partial[k]    \* mutant: a stale file is resumed
Resumable(k) ==
    IF partial[k] # None /\ partial[k].at >= item[k].head THEN partial[k] ELSE None

(* The bytes asked for start behind those of the staging file: there are   *)
(* none once it is as long as the artifact, and GovInfo answers 416.       *)
PastEnd(p, c) == p # None /\ p.size >= Size[c]
Joined(p, c) == IF p = None \/ p.of = c THEN c ELSE Splice[p.of][c]
Obtainable(k) == ServedContent(k) # None /\ ~PastEnd(Resumable(k), ServedContent(k))

(* What arrives is what is served NOW, behind the bytes that were there,   *)
(* and is registered as what the HEAD said; a wrong size raises once the   *)
(* bytes are registered.                                                   *)
Extract ==
    /\ \E k \in items :
          /\ InTransfer(k) /\ Obtainable(k)
          /\ LET c == Joined(Resumable(k), ServedContent(k))
             IN  rows' = [rows EXCEPT ![k] = Filed(@,
                    GovInfoRow("downloaded", c, FALSE, item[k].head, None))]
          /\ partial' = [partial EXCEPT ![k] = None]
          /\ at' = k + 1
          /\ IF Size[ServedContent(k)] = Size[Promised(k)]
             THEN UNCHANGED <<pc, run>> ELSE Close("failed")
    /\ UNCHANGED <<origin, known, record, document, only, items, item,
                   malformed, unknown, target, faults>>

(* A download that raises leaves a row of its own.                         *)
FileFailure(k) ==
    rows' = [rows EXCEPT ![k] = Filed(@,
               GovInfoRow("failed", NoChecksum, FALSE, item[k].head, None))]

(* A withdrawn zip or file is no longer found, 404, and nothing is behind  *)
(* the end, 416: the run fails, the staging file stays for the next one.   *)
DownloadRefused ==
    /\ \E k \in items :
          /\ InTransfer(k) /\ ~Obtainable(k)
          /\ FileFailure(k)
          /\ partial' = [partial EXCEPT ![k] = Resumable(k)]
    /\ Close("failed")
    /\ UNCHANGED <<origin, known, record, document, only, items, item, at,
                   malformed, unknown, target, faults>>

Extracted ==
    /\ pc = "extract" /\ ToFetch = {}
    /\ pc' = "evidence" /\ at' = 0
    /\ UNCHANGED <<origin, known, partial, tables, only, items, item, malformed,
                   unknown, run, target, faults>>

(* The registry must hold bytes filed under this run's HEAD.               *)
Evidence ==
    /\ pc = "evidence"
    /\ IF \A k \in items : CurrentFile(rows[k]).stamp = item[k].head
       THEN /\ pc' = "stage"
            /\ item' = [k \in Keys |-> IF k \in items
                  THEN [item[k] EXCEPT !.art = Current(rows[k]),
                                       !.row = CurrentFile(rows[k])]
                  ELSE item[k]]
            /\ UNCHANGED run
       ELSE Close("failed") /\ UNCHANGED item
    /\ UNCHANGED <<origin, known, partial, tables, only, items, at, malformed, unknown,
                   target, faults>>

Content(k) == item[k].row.checksum

(* An XML file is what the manifest listed; a zip is compared with the     *)
(* manifest, unless a verdict was stored with bytes that are reused.       *)
Verdict(k) ==
    IF k # 0 THEN "complete"
    ELSE IF item[k].reuse /\ item[k].row.verdict # None THEN item[k].row.verdict
    ELSE IF Holds[Content(k)] = Served.list THEN "complete"
    ELSE "partial"

Stage ==
    /\ pc = "stage"
    /\ pc' = "normalize"
    /\ item' = [k \in Keys |->
          IF k \in items THEN [item[k] EXCEPT !.verdict = Verdict(k)] ELSE item[k]]
    /\ UNCHANGED <<origin, known, partial, tables, only, items, at, malformed, unknown,
                   run, target, faults>>

(* loaded_members: a record of an unknown bill does not count, so that a   *)
(* later sync attaches it.                                                 *)
Moved(k, m) ==
    record[m] # None /\ record[m].key = k /\ record[m].art = item[k].art
LoadedMembersAny(k) == {m \in Texts : Moved(k, m)}   \* mutant: attached or not
LoadedMembers(k) == {m \in Texts : Moved(k, m) /\ record[m].attached}

(* normalize and validate, which refuses an empty zip.                     *)
Incomplete == \E k \in items : item[k].verdict = "partial"

Normalize ==
    /\ pc = "normalize"
    /\ IF \E k \in items : Holds[Content(k)] = {}
       THEN Close("failed") /\ UNCHANGED <<item, at>>
       ELSE /\ item' = [k \in Keys |-> IF k \in items /\ ~only
                  THEN [item[k] EXCEPT !.todo = Holds[Content(k)] \ LoadedMembers(k)]
                  ELSE item[k]]
            /\ at' = Min(items)
            /\ pc' = IF only THEN "checkpoint" ELSE "publish"
            /\ UNCHANGED run
    /\ UNCHANGED <<origin, known, partial, tables, only, items, malformed, unknown,
                   target, faults>>
-----------------------------------------------------------------------------
(* publish: batches in member order, each one transaction.                 *)
Batch == {m \in item[at].todo :
            Cardinality({n \in item[at].todo : n < m}) < BatchSize}

(* parse_bills_xml and _identity_problem let these through.                *)
Readable(c) == Holds[c] \ (Unreadable[c] \cup Corrupt[c])

(* The zip's BadZipFile is not among what publish catches.                 *)
Broken == at = 0 /\ Batch \cap Corrupt[Content(at)] # {}

(* save_bill_text: the record moves to this version, and is attached when  *)
(* the bill is there.  supersede_records then finds nothing left to delete *)
(* at an older version.                                                    *)
Here == [key |-> at, art |-> item[at].art]
Saved(m) == [key |-> at, art |-> item[at].art, attached |-> BillOf[m] \in known]
UpsertedDocumentOnce(m) ==       \* mutant: the first artifact is kept
    IF document[m] = None THEN Here ELSE document[m]
UpsertedDocument(m) == Here

LoadBatch ==
    /\ pc = "publish" /\ item[at].todo # {} /\ ~Broken
    /\ LET good == Batch \cap Readable(Content(at))
           bad == Batch \ good
           fresh == {m \in good : BillOf[m] \in known}
       IN  /\ record' = [m \in Texts |-> IF m \in good THEN Saved(m) ELSE record[m]]
           /\ document' = [m \in Texts |->
                 IF m \in fresh THEN UpsertedDocument(m) ELSE document[m]]
           /\ malformed' = (malformed \/ bad # {})
           /\ unknown' = (unknown \/ good # fresh)
    /\ item' = [item EXCEPT ![at].todo = @ \ Batch]
    /\ pc' = "committed"
    /\ UNCHANGED <<origin, known, partial, rows, only, items, at, run, target, faults>>

(* The batch is rolled back.                                               *)
MemberCorrupt ==
    /\ pc = "publish" /\ Broken
    /\ Close("failed")
    /\ UNCHANGED <<origin, known, partial, tables, only, items, item, at,
                   malformed, unknown, target, faults>>

(* The ledger follows each commit; the Congress is not finished yet.       *)
RecordBatch ==
    /\ pc = "committed"
    /\ pc' = "publish" /\ target' = "partial"
    /\ UNCHANGED <<origin, known, partial, tables, only, items, item, at, malformed,
                   unknown, run, faults>>

(* An unreadable member was never loaded, so this run has met it again:    *)
(* the item is neither swept nor marked.                                   *)
ItemLoaded ==
    /\ pc = "publish" /\ item[at].todo = {}
    /\ pc' = IF Readable(Content(at)) # Holds[Content(at)] THEN "done" ELSE "drop"
    /\ UNCHANGED <<origin, known, partial, tables, only, items, item, at, malformed,
                   unknown, run, target, faults>>

(* supersede_dropped: what older versions of the zip left behind, once     *)
(* this one is known to be whole.  A transaction of its own.               *)
MayDropAlways == at = 0                     \* mutant: a partial zip may too
MayDrop == at = 0 /\ item[at].verdict = "complete"
Gone(m) == /\ record[m] # None /\ record[m].key = 0
           /\ record[m].art < item[at].art /\ m \notin Holds[Content(at)]

Drop ==
    /\ pc = "drop"
    /\ pc' = "mark"
    /\ record' = [m \in Texts |->
          IF MayDrop /\ Gone(m) THEN None ELSE record[m]]
    /\ UNCHANGED <<origin, known, partial, rows, document, only, items, item, at,
                   malformed, unknown, run, target, faults>>

(* The version is marked loaded, with its verdict.                         *)
Mark ==
    /\ pc = "mark"
    /\ pc' = "done"
    /\ rows' = IF \/ item[at].row.status # "loaded"
                  \/ item[at].row.verdict # item[at].verdict
               THEN [rows EXCEPT ![at] = Filed(@,
                  GovInfoRow("loaded", Content(at), FALSE, None, item[at].verdict))]
               ELSE rows
    /\ UNCHANGED <<origin, known, partial, record, document, only, items, item, at,
                   malformed, unknown, run, target, faults>>

(* record(congress): succeeded only when the last item is done and nothing *)
(* was incomplete, unreadable or unknown.                                  *)
Left == {k \in items : k > at}
Partial == malformed \/ unknown \/ Incomplete

RecordItem ==
    /\ pc = "done"
    /\ target' = IF Left # {} \/ Partial THEN "partial" ELSE "succeeded"
    /\ at' = IF Left # {} THEN Min(Left) ELSE at
    /\ pc' = IF Left # {} THEN "publish" ELSE "checkpoint"
    /\ UNCHANGED <<origin, known, partial, tables, only, items, item, malformed,
                   unknown, run, faults>>

Checkpoint ==
    /\ pc = "checkpoint"
    /\ Close(IF Partial THEN "partial" ELSE "succeeded")
    /\ UNCHANGED <<origin, known, partial, tables, only, items, item, at, malformed,
                   unknown, target, faults>>

(* What an interrupted download may leave in the staging file: what was    *)
(* there, more bytes of what was served since the HEAD, up to all of them, *)
(* or nothing, the bytes having been retained but not registered.          *)
LeftBehind(k) ==
    LET p == Resumable(k)
        had == IF p = None THEN 0 ELSE p.size
        Arrived(c) ==
            {[of |-> Joined(p, c), size |-> n, at |-> origin] : n \in had + 1..Size[c]}
        serving == {ContentAt(k, v) : v \in item[k].head..origin} \ {None}
    IN  {p} \cup UNION {Arrived(c) \cup {None} : c \in {d \in serving : ~PastEnd(p, d)}}

BreakOff(k) == InTransfer(k) /\ \E p \in LeftBehind(k) : partial' = [partial EXCEPT ![k] = p]

(* A request, a file or a statement raises; the open transaction is lost.  *)
(* A download that raises registers that it failed, if the database lets   *)
(* it.                                                                     *)
Fail ==
    /\ pc \in Stages \ {"checkpoint"} /\ faults < MaxFaults
    /\ faults' = faults + 1
    /\ Close("failed")
    /\ \/ UNCHANGED <<partial, rows>>
       \/ \E k \in items : BreakOff(k) /\ (FileFailure(k) \/ UNCHANGED rows)
    /\ UNCHANGED <<origin, known, record, document, only, items, item, at, malformed,
                   unknown, target>>

(* The process dies: the run stays "running", the session lock goes.       *)
Kill ==
    /\ pc # "idle" /\ faults < MaxFaults
    /\ faults' = faults + 1 /\ pc' = "idle"
    /\ UNCHANGED partial \/ \E k \in items : BreakOff(k)
    /\ UNCHANGED <<origin, known, tables, only, items, item, at, malformed,
                   unknown, run, target>>
-----------------------------------------------------------------------------
SyncNext ==
    \/ Select \/ Extract \/ DownloadRefused \/ Extracted \/ Evidence \/ Stage
    \/ Normalize \/ LoadBatch \/ MemberCorrupt \/ RecordBatch \/ ItemLoaded
    \/ Drop \/ Mark \/ RecordItem \/ Checkpoint

Next ==
    \/ Publish
    \/ \E b \in Bills : BillSaved(b)
    \/ \E downloadOnly \in BOOLEAN : Discover(downloadOnly)
    \/ SyncNext \/ Fail \/ Kill

Spec == Init /\ [][Next]_vars

(* A run that has begun goes on, and the operator runs the full command    *)
(* again and again, whatever --download-only runs come between.            *)
FairSpec == Spec /\ WF_vars(SyncNext) /\ SF_vars(Discover(FALSE))
-----------------------------------------------------------------------------
(* A Congress the ledger calls succeeded has every text of its artifacts   *)
(* attached to a bill, from the very version the run compared; and no text *)
(* the zip lacks is left at a version of the zip, however many refreshes,  *)
(* kills and partial runs came before.  What a withdrawn zip's XML files   *)
(* left behind may stay.                                                   *)
SucceededIsExact ==
    target = "succeeded" =>
        /\ \A k \in items : \A m \in Holds[Content(k)] :
              Moved(k, m) /\ record[m].attached
        /\ 0 \in items => \A m \in Texts \ Holds[Content(0)] :
              record[m] # None => record[m].key # 0

(* A text's record disappears only if GovInfo's own manifest went without  *)
(* the text: a zip that merely lacks it, being short, takes nothing away.  *)
LostOnlyIfDelisted ==
    [][\A m \in Texts : record[m] # None /\ record'[m] = None =>
         \E p \in 1..origin : m \notin Publications[p].list]_vars

(* An attached record and its document are of the same bytes, through      *)
(* every move from XML file to zip, from zip to XML file and from version  *)
(* to version; a record never moves without its document.                  *)
DocumentFollowsRecord ==
    \A m \in Texts : record[m] # None /\ record[m].attached =>
        document[m] = [key |-> record[m].key, art |-> record[m].art]

(* Once a bill is in core.bill, every readable text of it that GovInfo     *)
(* offers is attached in the end, whether the bill or its text came first, *)
(* unless every later run stops at some artifact: in extract, at a staging *)
(* file that is as long as the artifact and not older than what is served; *)
(* in publish, or in none, because bytes of two contents were registered   *)
(* as the one that is served and have its size.                            *)
Attached(m, c) ==
    /\ record[m] # None /\ record[m].attached
    /\ rows[record[m].key][record[m].art].checksum = c
Overlong(k) ==
    partial[k] # None /\ partial[k].at >= Since(k) /\ PastEnd(partial[k], ServedContent(k))
Misfiled(k) ==
    /\ Current(rows[k]) # 0
    /\ LET row == CurrentFile(rows[k])
       IN  /\ row.stamp = Since(k) /\ row.checksum # ServedContent(k)
           /\ Size[row.checksum] = Size[ServedContent(k)]
EventuallyAttachedUnlessStuck ==
    <>[](\/ \E k \in Offered : Overlong(k) \/ Misfiled(k)
         \/ \A k \in Offered :
               \A m \in Readable(ServedContent(k)) :
                  BillOf[m] \in known => Attached(m, ServedContent(k)))
=============================================================================
