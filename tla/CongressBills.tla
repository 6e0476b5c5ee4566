--------------------------- MODULE CongressBills ---------------------------
(***************************************************************************)
(* sync of Congress.gov bills, ingestion/congress_bills.py.  The connector *)
(* holds a session advisory lock, reads the bill list of each Congress,    *)
(* and downloads the parts of every bill that is not complete, BillWindow  *)
(* bills at a time; up to SaveWindow saver threads keep the parts (one     *)
(* registration each) and then write the bill in one transaction.          *)
(*                                                                         *)
(* Bills are numbered in list order, so the head of the in-flight list and *)
(* of the saving list is their least bill.  A bill is complete when all    *)
(* its parts are loaded artifacts and core.bill has its row.  The row also *)
(* comes from elsewhere: a save without a part the server could not serve, *)
(* and the ingest-bill commands of ingestion/congress.py.                  *)
(*                                                                         *)
(* The lock leaves one writer of the bill artifacts, so the connector's    *)
(* in-memory _loaded is the registry's own view; a registration that       *)
(* fails or a file that is written and never registered changes nothing    *)
(* the next run reads.                                                     *)
(***************************************************************************)
EXTENDS Naturals, FiniteSets, Sequences

CONSTANTS
    LastBill, LastPage, LastCongress,
    PageOf,         \* the list page of each bill
    CongressOf,     \* the Congress of each list page
    Parts,          \* detail and the six child documents
    Detail, Cosponsors,
    RecoveryKeys,   \* RECOVERY_MANIFEST, in order: [bill, part, page]; 0: no page
    Servers,        \* what may be wrong with the server for good
    Limits,         \* values of --limit; LastBill stands for none
    Ingested,       \* the bills ingest-bill and ingest-bills are run for
    BillWindow, SaveWindow,
    MaxErrors, MaxKills

Bills == 1..LastBill
Pages == 1..LastPage
Congresses == 1..LastCongress
Keys == DOMAIN RecoveryKeys
Congress(b) == CongressOf[PageOf[b]]
BillsOf(k) == {b \in Bills : Congress(b) = k}

ASSUME ListAssumption ==
    /\ LastBill \in Nat \ {0} /\ LastPage \in Nat \ {0} /\ LastCongress \in Nat \ {0}
    /\ PageOf \in [Bills -> Pages] /\ CongressOf \in [Pages -> Congresses]
    /\ \A b, c \in Bills : b < c => PageOf[b] <= PageOf[c]
    /\ \A p, q \in Pages : p < q => CongressOf[p] <= CongressOf[q]
ASSUME PartAssumption ==
    /\ {Detail, Cosponsors} \subseteq Parts /\ Detail # Cosponsors
    /\ \A s \in Servers : s \in [refused : SUBSET (Bills \X Parts), down : SUBSET (Bills \X Parts),
                                unreadable : SUBSET (Bills \X Parts)]
    /\ RecoveryKeys \in Seq([bill : Bills, part : Parts, page : 0..LastPage])
ASSUME WindowAssumption ==
    /\ BillWindow \in Nat \ {0} /\ SaveWindow \in Nat \ {0} /\ Limits \subseteq 1..LastBill
    /\ Ingested \subseteq Bills /\ MaxErrors \in Nat /\ MaxKills \in Nat

VARIABLES
    pages,   \* retained list pages: "none", "good", or "bad" (does not parse)
    files,   \* the parts of each bill whose current artifact is loaded
    noted,   \* the parts of each bill whose newest artifact row is failed
    row,     \* the bills with a row in core.bill
    saved,   \* the parts each bill's rows in the warehouse were written from
    run,     \* the connector: stage, options, _stored and _failed
    job,     \* where each bill is in _drain or _recover
    got,     \* fetched parts a bill's saver still has to keep
    errs,    \* refused parts a bill's saver still has to note
    ledger,  \* the newest ingest.run and its ingest.run_target for core.bill
    torn,    \* history: bills whose saver was interrupted
    served,  \* the parts <<bill, part>> the server refuses (4xx), cannot serve (5xx), or
             \* serves in a form assemble_bill refuses, on every run: never changes
    errors, kills

registry == <<pages, files, noted>>
warehouse == <<row, saved>>
work == <<job, got, errs>>
history == <<torn, kills>>
upstream == <<served, errors>>
vars == <<registry, warehouse, run, work, ledger, history, upstream>>

Stage == {"idle", "list", "drain", "recover", "target", "checkpoint", "raising"}
Mode == {"sync", "recover"}
Job == {"out", "queued", "asked", "answered", "broken", "commit", "done", "raised"}

TypeOK ==
    /\ pages \in [Pages -> {"none", "good", "bad"}]
    /\ files \in [Bills -> SUBSET Parts] /\ noted \in [Bills -> SUBSET Parts]
    /\ row \subseteq Bills /\ saved \in [Bills -> SUBSET Parts]
    /\ run \in [pc : Stage, mode : Mode, limit : Nat, congress : 1..LastCongress + 1,
                known : SUBSET Bills, keys : SUBSET Keys, failed : SUBSET (Bills \X Parts)]
    /\ job \in [Bills -> Job]
    /\ got \in [Bills -> SUBSET Parts] /\ errs \in [Bills -> SUBSET Parts]
    /\ ledger \in [run : {"none", "running", "succeeded", "partial", "failed"},
                   target : {"none", "succeeded", "partial"}]
    /\ torn \subseteq Bills /\ served \in Servers /\ errors \in 0..MaxErrors /\ kills \in 0..MaxKills

Nothing == [b \in Bills |-> {}]
AllOut == [b \in Bills |-> "out"]

Init ==
    /\ pages = [p \in Pages |-> "none"] /\ files = Nothing /\ noted = Nothing
    /\ row = {} /\ saved = Nothing
    /\ run = [pc |-> "idle", mode |-> "sync", limit |-> LastBill, congress |-> 1,
              known |-> {}, keys |-> {}, failed |-> {}]
    /\ job = AllOut /\ got = Nothing /\ errs = Nothing
    /\ ledger = [run |-> "none", target |-> "none"]
    /\ served \in Servers
    /\ torn = {} /\ errors = 0 /\ kills = 0
-----------------------------------------------------------------------------
(* What the connector derives from the list and the registry               *)

Least(S) == CHOOSE x \in S : \A y \in S : x <= y
In(states) == {b \in Bills : job[b] \in states}
InFlight == In({"asked", "answered", "broken"})
Saving == In({"commit", "done", "raised"})

(* identities[: limit], then the bills _bill_complete does not skip.       *)
Selected(k, limit) ==
    {b \in BillsOf(k) : Cardinality({c \in BillsOf(k) : c < b}) < limit}

CompleteOnRow(b) == b \in run.known                           \* mutant
Complete(b) == files[b] = Parts /\ b \in run.known

Todo == {b \in Selected(run.congress, run.limit) : ~Complete(b)}

(* The key of a recovery run being worked on, and what a bill needs.       *)
Key == RecoveryKeys[Least(run.keys)]
Needed(b) == IF run.mode = "recover" THEN {Key.part} ELSE Parts \ files[b]

Fault == errors < MaxErrors /\ errors' = errors + 1 /\ UNCHANGED served

(* An exception leaves the with-block: nothing more is asked for or popped *)
(* and what has arrived is lost, but both pools wait for what they run.    *)
Running == {"asked", "commit"}
Raise ==
    /\ run' = [run EXCEPT !.pc = "raising"]
    /\ job' = [b \in Bills |-> IF job[b] \in Running THEN job[b] ELSE "out"]
-----------------------------------------------------------------------------
(* Discover and the list                                                   *)

Discover(mode, limit, keys) ==
    /\ run.pc = "idle"
    /\ run' = [pc |-> IF mode = "sync" THEN "list" ELSE "recover", mode |-> mode,
               limit |-> limit, congress |-> 1, known |-> row, keys |-> keys, failed |-> {}]
    /\ job' = AllOut
    /\ ledger' = [run |-> "running", target |-> "none"]
    /\ UNCHANGED <<registry, warehouse, got, errs, history, upstream>>

DiscoverSync(limit) == Discover("sync", limit, {})
DiscoverRecovery(keys) == keys # {} /\ Discover("recover", LastBill, keys)

Unlisted == {p \in Pages : CongressOf[p] = run.congress /\ pages[p] # "good"}

(* _identities reads a retained page, or asks for it and keeps the answer  *)
(* as loaded BEFORE it parses it.                                          *)
KeepPage(p, outcome) == pages' = [pages EXCEPT ![p] = outcome]

ListPage ==
    /\ run.pc = "list" /\ Unlisted # {}
    /\ LET p == Least(Unlisted)
       IN  \/ /\ pages[p] = "none" /\ KeepPage(p, "good")
              /\ UNCHANGED <<run, job, upstream>>
           \/ pages[p] = "none" /\ Fault /\ KeepPage(p, "bad") /\ Raise
           \/ pages[p] = "none" /\ Fault /\ Raise /\ UNCHANGED pages
           \/ pages[p] = "bad" /\ Raise /\ UNCHANGED <<pages, upstream>>
    /\ UNCHANGED <<files, noted, warehouse, got, errs, ledger, history>>
-----------------------------------------------------------------------------
(* The drain                                                               *)

First(n, S) == {b \in S : Cardinality({c \in S : c < b}) < n}

(* The window is filled once; afterwards each pop asks for one more bill.  *)
StartDrain ==
    /\ run.pc = "list" /\ Unlisted = {}
    /\ run' = [run EXCEPT !.pc = "drain"]
    /\ job' = [b \in Bills |-> CASE b \notin Todo -> "out"
                                 [] b \in First(BillWindow, Todo) -> "asked"
                                 [] OTHER -> "queued"]
    /\ UNCHANGED <<registry, warehouse, got, errs, ledger, history, upstream>>

Down(b) == {p \in Needed(b) : <<b, p>> \in served.down}
Refused(b) == {p \in Needed(b) : <<b, p>> \in served.refused}

(* _download, best effort: a 5xx costs that part only, and may cost any of *)
(* them.                                                                   *)
Answer(b) ==
    /\ job[b] = "asked" /\ run.pc # "raising" /\ Refused(b) = {}
    /\ \E missing \in SUBSET Needed(b) :
          /\ Down(b) \subseteq missing
          /\ IF missing = Down(b) THEN UNCHANGED upstream ELSE Fault
          /\ got' = [got EXCEPT ![b] = Needed(b) \ missing]
          /\ errs' = [errs EXCEPT ![b] = missing]
    /\ job' = [job EXCEPT ![b] = "answered"]
    /\ UNCHANGED <<registry, warehouse, run, ledger, history>>

(* A refusal, a 429 without end or a dropped connection raises, and every  *)
(* answer of the bill is lost; a refusal is there again on the next run.   *)
Break(b) ==
    /\ job[b] = "asked" /\ run.pc # "raising"
    /\ \/ Refused(b) # {} /\ UNCHANGED upstream
       \/ Fault
    /\ job' = [job EXCEPT ![b] = "broken"]
    /\ UNCHANGED <<registry, warehouse, run, got, errs, ledger, history>>

(* A download that ends while the with-block is being left has no reader.  *)
EndUnread(b) ==
    /\ job[b] = "asked" /\ run.pc = "raising"
    /\ job' = [job EXCEPT ![b] = "out"]
    /\ UNCHANGED <<registry, warehouse, run, got, errs, ledger, history, upstream>>

Waiting == In({"queued"})
MustCollectLate ==                                            \* mutant
    Saving # {} /\ (Cardinality(Saving) > SaveWindow \/ InFlight = {})
MustCollectEach == Saving # {}                                \* mutant
MustCollect == Saving # {} /\ (Cardinality(Saving) >= SaveWindow \/ InFlight = {})

(* The main thread pops the oldest download, asks for the next bill, and   *)
(* hands the popped one to a saver.                                        *)
Pop ==
    /\ run.pc \in {"drain", "recover"} /\ InFlight # {} /\ ~MustCollect
    /\ LET b == Least(InFlight)
       IN  \/ /\ job[b] = "answered"
              /\ job' = [c \in Bills |-> CASE c = b -> "commit"
                                           [] c \in First(1, Waiting) -> "asked"
                                           [] OTHER -> job[c]]
              /\ UNCHANGED <<run, got, errs>>
           \/ /\ job[b] = "broken" /\ Raise
              /\ got' = [c \in Bills |-> IF job[c] = "commit" THEN got[c] ELSE {}]
              /\ errs' = [c \in Bills |-> IF job[c] = "commit" THEN errs[c] ELSE {}]
    /\ UNCHANGED <<registry, warehouse, ledger, history, upstream>>

(* ... and waits for the oldest saver when the save window is full.        *)
Collect ==
    /\ run.pc \in {"drain", "recover"} /\ MustCollect
    /\ LET b == Least(Saving)
       IN  \/ /\ job[b] = "done"
              /\ job' = [job EXCEPT ![b] = "out"]
              /\ run' = IF run.mode = "recover"
                        THEN [run EXCEPT !.keys = @ \ {Least(@)}] ELSE run
              /\ UNCHANGED <<got, errs>>
           \/ /\ job[b] = "raised" /\ Raise
              /\ got' = [c \in Bills |-> IF job[c] = "commit" THEN got[c] ELSE {}]
              /\ errs' = [c \in Bills |-> IF job[c] = "commit" THEN errs[c] ELSE {}]
    /\ UNCHANGED <<registry, warehouse, ledger, history, upstream>>

NextCongress ==
    /\ run.pc = "drain" /\ job = AllOut
    /\ run' = [run EXCEPT !.congress = @ + 1,
                          !.pc = IF run.congress < LastCongress THEN "list" ELSE "target"]
    /\ UNCHANGED <<registry, warehouse, work, ledger, history, upstream>>
-----------------------------------------------------------------------------
(* _recover: one manifest key at a time, on the evidence that is retained  *)

RecoverKey ==
    /\ run.pc = "recover" /\ run.keys # {} /\ job = AllOut
    /\ IF Key.page # 0 /\ pages[Key.page] # "good"
       THEN Raise
       ELSE job' = [job EXCEPT ![Key.bill] = "asked"] /\ UNCHANGED run
    /\ UNCHANGED <<registry, warehouse, got, errs, ledger, history, upstream>>

Recovered ==
    /\ run.pc = "recover" /\ run.keys = {} /\ job = AllOut
    /\ run' = [run EXCEPT !.pc = "target"]
    /\ UNCHANGED <<registry, warehouse, work, ledger, history, upstream>>
-----------------------------------------------------------------------------
(* _commit, in a saver thread                                              *)

(* _keep: a registration of its own; it promotes a failed row.             *)
Keep(b, p) ==
    /\ job[b] = "commit" /\ p \in got[b]
    /\ files' = [files EXCEPT ![b] = @ \cup {p}]
    /\ noted' = [noted EXCEPT ![b] = @ \ {p}]
    /\ got' = [got EXCEPT ![b] = @ \ {p}]
    /\ UNCHANGED <<pages, warehouse, run, job, errs, ledger, history, upstream>>

(* _note_failure, once every fetched part is kept.                         *)
Note(b, p) ==
    /\ job[b] = "commit" /\ got[b] = {} /\ p \in errs[b]
    /\ noted' = [noted EXCEPT ![b] = @ \cup {p}]
    /\ run' = [run EXCEPT !.failed = @ \cup {<<b, p>>}]
    /\ errs' = [errs EXCEPT ![b] = @ \ {p}]
    /\ UNCHANGED <<pages, files, warehouse, job, got, ledger, history, upstream>>

SaverStepsAnyOrder(b) == job[b] = "commit"                     \* mutant
SaverSteps(b) == job[b] = "commit" /\ got[b] = {} /\ errs[b] = {}

(* What the transaction writes: a recovery of cosponsors, on a kept        *)
(* detail, writes only those; without the detail only a recovery with list *)
(* evidence writes; otherwise everything retained.                         *)
ListEvidence == run.mode = "recover" /\ Key.page # 0
OnlyCosponsors(b) == run.mode = "recover" /\ Key.part = Cosponsors /\ Detail \in files[b]
Writable(b) ==
    IF OnlyCosponsors(b) THEN Cosponsors \in files[b]
    ELSE Detail \in files[b] \/ ListEvidence
Parsed(b) ==
    IF OnlyCosponsors(b) THEN {Detail, Cosponsors} ELSE files[b] \cup got[b]
Written(b) == IF OnlyCosponsors(b) THEN {Cosponsors} ELSE Parsed(b)
Reads(b) == ~\E p \in Parsed(b) : <<b, p>> \in served.unreadable

Save(b) ==
    /\ SaverSteps(b) /\ Writable(b) /\ Reads(b)
    /\ row' = row \cup {b}
    /\ saved' = [saved EXCEPT ![b] = @ \cup Written(b)]
    /\ run' = [run EXCEPT !.known = @ \cup {b}]
    /\ job' = [job EXCEPT ![b] = "done"]
    /\ torn' = IF Parts \subseteq saved'[b] THEN torn \ {b} ELSE torn
    /\ UNCHANGED <<registry, got, errs, ledger, upstream, kills>>

NotSaved(b) ==
    /\ SaverSteps(b) /\ ~Writable(b)
    /\ job' = [job EXCEPT ![b] = "done"]
    /\ UNCHANGED <<registry, warehouse, run, got, errs, ledger, history, upstream>>

(* assemble_bill raises; or, at any moment, a registration or the          *)
(* transaction does.                                                       *)
SaveRaises(b) ==
    /\ job[b] = "commit"
    /\ \/ SaverSteps(b) /\ Writable(b) /\ ~Reads(b) /\ UNCHANGED upstream
       \/ Fault
    /\ job' = [job EXCEPT ![b] = "raised"]
    /\ got' = [got EXCEPT ![b] = {}] /\ errs' = [errs EXCEPT ![b] = {}]
    /\ torn' = torn \cup {b}
    /\ UNCHANGED <<registry, warehouse, run, ledger, kills>>
-----------------------------------------------------------------------------
(* The end of a run                                                        *)

RecordTargetFailed ==                                          \* mutant
    ledger' = [ledger EXCEPT
        !.target = IF run.failed = {} THEN "succeeded" ELSE "failed"]
RecordTarget ==
    ledger' = [ledger EXCEPT
        !.target = IF run.failed = {} THEN "succeeded" ELSE "partial"]

Target ==
    /\ run.pc = "target"
    /\ RecordTarget
    /\ run' = [run EXCEPT !.pc = "checkpoint"]
    /\ UNCHANGED <<registry, warehouse, work, history, upstream>>

Close(status) ==
    /\ ledger' = [ledger EXCEPT !.run = status]
    /\ run' = [run EXCEPT !.pc = "idle"]
    /\ UNCHANGED <<registry, warehouse, work, history, upstream>>

Checkpoint ==
    /\ run.pc = "checkpoint"
    /\ Close(IF run.failed = {} THEN "succeeded" ELSE "partial")

(* The pools are drained; checkpoint then closes the run as failed.        *)
CheckpointAtOnce == run.pc = "raising" /\ Close("failed")      \* mutant
CheckpointFailure == run.pc = "raising" /\ In(Running) = {} /\ Close("failed")

(* The process dies: its run stays "running" and its lock is released.  A  *)
(* checkpoint whose own transaction fails leaves the same behind.          *)
Kill ==
    /\ run.pc # "idle" /\ kills < MaxKills
    /\ kills' = kills + 1
    /\ run' = [run EXCEPT !.pc = "idle"]
    /\ job' = AllOut /\ got' = Nothing /\ errs' = Nothing
    /\ torn' = torn \cup In({"commit"})
    /\ UNCHANGED <<registry, warehouse, ledger, upstream>>

(* ingest_bill and ingest_bills write the row of a bill and nothing else.  *)
IngestBill(b) ==
    /\ b \in Ingested \ row
    /\ row' = row \cup {b}
    /\ UNCHANGED <<registry, saved, run, work, ledger, history, upstream>>
-----------------------------------------------------------------------------
Main == ListPage \/ StartDrain \/ Pop \/ Collect \/ NextCongress \/ RecoverKey
          \/ Recovered \/ Target \/ Checkpoint \/ CheckpointFailure

Download(b) == Answer(b) \/ Break(b) \/ EndUnread(b)
KeepSome(b) == \E p \in Parts : Keep(b, p)
NoteSome(b) == \E p \in Parts : Note(b, p)
Saver(b) == KeepSome(b) \/ NoteSome(b) \/ Save(b) \/ NotSaved(b) \/ SaveRaises(b)

Next ==
    \/ \E n \in Limits : DiscoverSync(n)
    \/ \E K \in SUBSET Keys : DiscoverRecovery(K)
    \/ Main
    \/ \E b \in Bills : Download(b) \/ Saver(b) \/ IngestBill(b)
    \/ Kill

Spec == Init /\ [][Next]_vars

(* The threads run; the full sync is started again and again.              *)
FairSpec ==
    /\ Spec
    /\ SF_vars(DiscoverSync(LastBill)) /\ WF_vars(Main)
    /\ \A b \in Bills : WF_vars(Download(b)) /\ WF_vars(Saver(b))
-----------------------------------------------------------------------------
(* Properties                                                              *)

(* A row is written only from parts already retained and registered: at no *)
(* time, whatever dies, does the warehouse show a part whose evidence is   *)
(* not on disk.  (_commit keeps before it opens its transaction.)          *)
EvidenceFirst == \A b \in Bills : saved[b] \subseteq files[b]

Covered == UNION {Selected(k, run.limit) : k \in Congresses}
Succeeded == run.mode = "sync" /\ ledger.target = "succeeded"

(* The class docstring: "Files without that row are saved from disk" and   *)
(* "The missing part is tried again on the next run".  So a run recorded   *)
(* as succeeded leaves every bill it covers saved with all its parts.  The *)
(* code skips a bill whose row predates its files.                         *)
SucceededIsSaved == Succeeded => \A b \in Covered : saved[b] = Parts

(* A bill is lost to every later sync: all files loaded, a row, and parts  *)
(* that were never written from.                                           *)
Lost(b) == files[b] = Parts /\ b \in row /\ saved[b] # Parts

(* The same, where it holds: what a succeeded run does not show is a bill  *)
(* lost that way, and its saver was interrupted (killed, or raised) in an  *)
(* earlier run; a missing part or a failed save is otherwise made good.    *)
SucceededIsSavedUnlessTorn ==
    Succeeded => \A b \in Covered : saved[b] = Parts \/ (Lost(b) /\ b \in torn)

(* A kill tears at most SaveWindow bills: every other bill is either saved *)
(* or has kept nothing since it was asked for.                             *)
LossBounded == [][Cardinality(torn' \ torn) <= SaveWindow]_vars

(* No download and no saver outlives its run: once the ledger row is       *)
(* closed nothing more is asked for, kept, noted or written under it.      *)
ClosedIsQuiet == ledger.run # "running" => In(Running) = {}

Troubled(b, kind) == \E p \in Parts : <<b, p>> \in served[kind]

(* What makes every run raise before b is saved: a list page kept before   *)
(* it failed to parse; in an earlier Congress, any bill refused or         *)
(* unreadable; among the bills before it in its own Congress, a refused    *)
(* one, raised at its pop, or an unreadable one, raised at its collect     *)
(* when the bills never done with from it on fill the save window.         *)
Before(b) == {c \in BillsOf(Congress(b)) : c < b}
NeverDone(b) == {c \in Before(b) : Troubled(c, "unreadable") \/ Troubled(c, "down")}
Blocked(b) ==
    \/ \E p \in Pages : CongressOf[p] <= Congress(b) /\ pages[p] = "bad"
    \/ \E c \in Bills : Congress(c) < Congress(b)
                         /\ (Troubled(c, "refused") \/ Troubled(c, "unreadable"))
    \/ \E c \in Before(b) : Troubled(c, "refused")
    \/ \E c \in Before(b) :
          /\ Troubled(c, "unreadable")
          /\ Cardinality({d \in NeverDone(b) : c <= d}) >= SaveWindow

(* What can be saved of a bill: nothing without its detail.                *)
Servable(b) ==
    IF <<b, Detail>> \in served.down THEN {} ELSE {p \in Parts : <<b, p>> \notin served.down}

(* Once faults stop, rerunning the sync saves what the server serves of    *)
(* every bill: "one part the server cannot serve is recorded and the other *)
(* bills continue", fewer unreadable bills than the save window holds do   *)
(* not starve the bills behind them, and what does starve them is Blocked. *)
EventuallySaved ==
    \A b \in Bills :
        <>[](\/ Servable(b) \subseteq saved[b] \/ Lost(b) \/ Blocked(b)
             \/ Troubled(b, "refused") \/ Troubled(b, "unreadable"))
=============================================================================
