# TLA+ verification of OpenDiscourse Research

OpenDiscourse Research (`src/src/opendiscourse_research`) is a provenance-first
PostgreSQL warehouse of public data: files are downloaded, retained under their
SHA-256, registered as evidence in `ingest.artifact`, and only then parsed into
typed facts. This directory models the parts of the program where order,
concurrency and failure decide whether that promise holds.

## 1. Inventory

| Component (source) | State it keeps | Operations | Interacts with | Hard behaviour | What makes it correct |
|---|---|---|---|---|---|
| Artifact registry (`repositories/legislation.py`, `repositories/artifacts.py`, migration `d9e4f1a7b632`) | rows of `ingest.artifact`, versions of one logical artifact | `register_artifact` (append, promote, retry), `get_artifact`, view `current_artifact` | every loader | registrations in any order, failures on top of good versions, A-B-A content, damaged files | a checksummed row never changes or disappears; a failure never hides good bytes |
| Download and retention (`ingestion/bulk.py`, `artifact_storage.py`) | staging file `<target>.part`, `<target>.lock`, checksum-specific files | `download`, `register_local`, `retain_artifact_bytes`, `validate_retained` | registry, web origins, several processes | kills between file operations, Range resume, replaced origins, hard links, unlocked local admission | evidence is whole and stays verifiable; the download converges |
| Shared rate gate (`rate_gate.py`, `providers/congress_api.py`) | JSON state file, in-memory cache | `acquire`, `observe`, `release` | threads and scripts, the API server | late and lost responses, 429, restarts, damaged file, caching | pace and allowance kept, one probe, cooldowns honoured, no permanent stop |
| Connector lifecycle and run ledger (`ingestion/connector.py`, `ingestion/base.py`, `repositories/runs.py`) | `ConnectorContext`, `ingest.run`, `ingest.run_target` | ten stages, `checkpoint` in `finally`, `IngestionRun` | every source adapter | a stage or the checkpoint fails, kills | the ledger says what was loaded, a partial run is never "succeeded" |
| Roll-call vote sync (`ingestion/roll_call_votes.py`, chambers, `repositories/votes.py`) | listing, per-file decisions, record rows, votes | discover ... checkpoint | download, registry, advisory lock, person tables | kill and resume, refreshed files, lost lock connection, HEAD/GET races | every roll call reflects one artifact version; a rerun finishes what is missing |
| BILLSTATUS and bill-text sync, local BILLSTATUS loader (`billstatus.py`, `bill_text.py`, `legload.py`) | zip and XML artifacts with verdicts, bill child rows, text records and documents | ten stages, batches in transactions, `supersede_*`, `load-billstatus` | the same registry rows from two commands; texts wait for bills | zip and manifest out of step, stale verdicts, a killed batch, zip replaced by XML files and back | versions replace each other whole; success means loaded; a text is dropped only when delisted |
| Congress.gov bill loader (`congress_bills.py`, `congress.py`) | list pages, part artifacts, bill rows, two thread pools | list, download window, save window, recovery by manifest | rate gate, registry, run ledger | parallel savers, best-effort parts, kills between evidence and row | evidence before rows; a succeeded run leaves nothing it covers unsaved |
| Plan contracts (`plans.py`) | `ingest.cursor` | `run_plan`, `due_plans`, `sync_plans` | series adapters, scheduler | partial failure | a failed plan is not silently "done" |
| Bulk plan lifecycle (`bulk.py`, `govplan.py`, `govbackfill.py`, `capacity.py`) | plan YAML, preview JSON | `approve_plan`, `download_plan`, `advance_plan` | download | two commands on one file | states only move forward, never past an unapproved preview |
| Displayed names (`repositories/names.py`, `precedence.py`) | assertions, precedence, `core.*` names | upsert, `resolve_names`, sync | all people loaders | resolver racing loaders | the shown name is the winner of the committed assertions |
| Person identity (`identity_merge.py`, `repositories/people.py`, `identitygate.py`, `peopleload.py`) | identifiers, persons, conflicts, reviewed exceptions, merge audit | `resolve_person`, `promote_legislators`, `merge_person`, gate | people loaders, vote loaders | loads, merges and votes in any order, with an identifier map read earlier | identity follows recorded evidence only; no vote is lost in a merge |
| Legislators, committees, Voteview | snapshot rows | connector stages | identity, names | replace-on-refresh | as roll-call votes |
| OpenStates snapshots (`openstates*.py`) | dumps, candidate database | decide, download, validate, link | download, registry | a month's file keeps changing | reuse only when the headers agree |
| Census, ACS, TIGER, PEP, CBP, DHC, FEC loaders | staging tables, facts | stage, normalize, load | bulk plans, artifacts | mostly one transaction each | lineage to one artifact version |
| Series adapters (FRED, BLS, Treasury, Census API) | payloads, measurements | sequential HTTP and upserts | run ledger, `PacedClient` | rate limits | idempotent upserts |
| Browser, CLI, exports, health, audit, coverage reports | selection basket | read-only reports | all | none | - |

## 2. Plan

Most important first; a module marked (done) is in this directory with its
proofs, unless noted.

1. `ArtifactRegistry`, `ArtifactDownload` (done): the evidence core. Everything
   else stores its facts under an artifact version.
2. `RateGate` (done): the one piece of state several scripts share.
3. `RollCallSync` and `RollCallStore` (done): the connector of one chamber over
   the registry, and what a reader of the votes may rely on, which it implements.
4. `CongressBills` (done): the connector with thread pools of its own.
5. `GovInfoArtifacts`, `BillStatusSync`, `BillTextSync` (done): the two GovInfo
   connectors over the registry, with the older loader beside the first.
6. `PersonIdentity` (done): who is whom, and the votes that follow.
7. Not written: `ConnectorRun` (`loaded_coverage`, the cursor), `BulkPlan` and
   `PlanCursor` (two commands on one plan file), `Names` (assertions, precedence,
   the resolver), an abstract evidence store that `ArtifactDownload` implements.
   Every safety and action property the passing runs check is also a theorem.

Out of plan: format parsers and bulk SQL (no control of their own), reports and
user interface (read-only).

## 3. Modules

### ArtifactRegistry

Operators on one artifact's history, a sequence of rows in `artifact_version`
order. `ArtifactAction` is `_artifact_action`; `Registered` is what
`register_artifact` does to the history in its one transaction (it holds
`pg_advisory_xact_lock`, so a registration is one step of whoever uses it);
`Current` is the view `ingest.current_artifact`. The module has no variables:
the caller says which retained files are intact, because `_artifact_action`
calls `validate_retained`.

### ArtifactDownload

One artifact, several processes in `download()`, an operator in
`register_local`/`billstatusload`, a publisher who replaces the file.

| Model | Code |
|---|---|
| `part`, `links` | `<target>.part` and the retained names that are the same inode |
| `retained[d]` | the file at the checksum-specific path of `d` |
| `rows` | the artifact's versions |
| `lock` | `flock` on `<target>.lock` |
| `pc[p]` | where `p` is inside `_download_locked` |
| `target` | a file from before checksums at `artifact_path(spec)` |
| `policy` | what the caller does with an old staging file: `resume` (bulk plans, census, OpenStates), `fresh` (`sync-votes`), `mtime` (`sync-billstatus`, `sync-bill-text`) |

`Adopt`/`AdoptRegister` are lines 166-179 of `bulk.py`, `Start` ... `RecordFailure`
the rest of `_download_locked` (one action per step that another process or a
kill can see), `AlreadyRetained`, `Link`, `CopyInstead`, `Unlink` the branches of
`retain_artifact_bytes(move=True)`. A file is the sequence of the origin
versions its chunks came from and a digest is that sequence: SHA-256 is taken to
be collision-free. Not modelled: chunk sizes, the wording of errors, more than
one artifact (the code's state is per artifact, except for free disk space).
A kill inside `NamedTemporaryFile` copying leaves only a stray `.retain-` file.

### RateGate

`SharedRateGate` with `congress_get`'s way of calling it. Time is relative:
deadlines are stored as time left, stamps as ages, and `Tick` moves all of them,
so no bound on time is needed. `grants`, `arrivals`, `penalty` and `hold` are
history of what was handed out, what the server counted, what a 429 asked for
and when a probe has to be alone. `congress_get`'s retry loop is a caller that
asks again. A request may be under way for longer than its reservation lasts (the
60 seconds of `httpx` are per wait): `MaxFlight` is not bound to `Ttl`, and
`Lapsed` and `overdue` name the requests in flight that have outlasted it and, for
a window, the ends of those that had. A damaged file is `Unreadable` (not JSON: the
gate starts closed) or `Garbled` (not even UTF-8: `read_text` raises in every gate
that has not loaded yet, so `Loads` guards every step).

There are two limits: the one the gate starts with (`FallbackLimit`) and the one
in the server's headers (`ServerLimit`), which may be higher or lower
(`congress_api.py:25`); `Ceiling` is the larger. The unit of time divides both
intervals, so `Interval` is exact (`LimitAssumption`). A log lists ages, oldest
first; `Older` is a moment passing: the entries that reach the window are counted
and that many are dropped from the front.

### RollCallSync and RollCallStore

One chamber and one Congress of `sync-votes`: several processes, the registry
rows of every roll call's file with the origin state kept in their metadata, the
roll-call rows, votes and record rows, the newest run's ledger rows.

| Model | Code |
|---|---|
| edition numbers in `origin`, `stamps`, `head` | `remote_size` and `remote_last_modified`, which differ between editions |
| `seen` | the `current_artifacts` rows a stage read: for `_decide`, then (from evidence on) `roll.artifact` |
| `call`, `votes`, `records` | `core.roll_call`, `fact.member_vote`, `core.roll_call_source_record`, by artifact version |
| `flawed` | a malformed file, unresolved member or disagreement with the listing met in this run |
| `lock` | the session advisory lock |

`Discover` ... `Checkpoint` are the ten stages; stages that only compute or
report (`plan`, `stage`, `validate`) are part of the action whose result they
use, and the capacity gate's refusal is an exception (`Stop`). `select` is one
step because its HEADs read different files. `Fetch` is a whole `download()`: the
staging file, kills inside it and the file lock are `ArtifactDownload`'s subject,
whose theorems for this caller (`FreshEvidenceWhole`, `FreshEvidenceIntact`) say
that the registered checksum is one whole edition and stays valid. A batch is
one transaction (`Load`), followed by its `Record`. The origin may publish or
replace a file at any step, so the bytes of the GET can be newer than the HEAD.
Left out: party totals (replaced together with the header), the bill links
`_finish` writes, votes OpenStates gave members the file does not name, damage
to retained files, the loss of the lock's connection. An origin is taken to only
move forward to later editions.

`RollCallStore` is the abstract specification, with the single variable `shown`:
a roll call shows nothing or one version, replaced in one step, never by an
older one, and the same version shown again shows at least the members it had.
`RollCallSync` instantiates it with `shown` read off the three tables; a mix of
versions maps to no file at all, so the refinement also says that none is seen.

### CongressBills

Full and recovery runs of `congress_bills.py`. Bills are numbered in list order.

| Model | Code |
|---|---|
| `pages[p]` | the retained list page: none, good, or kept before it failed to parse |
| `files[b]`, `noted[b]` | parts whose current artifact is loaded; whose newest row is failed |
| `row`, `saved[b]` | `core.bill`; the parts its rows were written from |
| `run` | stage, `--limit`, Congress, `_stored`, the manifest keys left, `_failed` |
| `job[b]`, `got[b]`, `errs[b]` | where the bill is in the two pools, the parts its saver still has to keep or note |
| `served` | what is wrong with the server for good: the parts it refuses (4xx), cannot serve (5xx), or serves in a form `assemble_bill` refuses |
| `torn` | history: bills whose saver was interrupted |

`ListPage` is `_identities`; `StartDrain`, `Pop`, `Collect` the main thread of
`_drain`; `Answer` (which may lose any of the parts to a 5xx), `Break` (a refusal, a
429 without end, a dropped connection) and `EndUnread` a download thread; `Keep`, `Note`, `Save`, `NotSaved`,
`SaveRaises` the steps of `_commit` in a saver, interleaved with everything;
`RecoverKey` one manifest key. `Raise` is an exception that leaves the with-block:
what was asked for and what is being saved goes on, unread, and
`CheckpointFailure` closes the run once both pools are drained. `IngestBill` is `ingest-bill` and
`ingest-bills` (`congress.py`), which write a row and no evidence;
`ingest_member` is not modelled. The advisory
lock is held for the whole run, so the connector's in-memory `_loaded` is the
registry's view.

### PersonIdentity

| Model | Code |
|---|---|
| `owner`, `people` | `core.person_identifier`, `core.person` |
| `open`, `answered` | `ingest.identity_conflict`, not resolved and resolved |
| `merged`, `audit` | `ingest.person_merge`, `ingest.person_merge_vote` |
| `terms`, `votes` | `core.membership`, `fact.member_vote` |
| `reviewed` | the `same_person` entries of `identity_exceptions.yaml` |
| `known` | the vote loader's identifier map, read once before its batches |

`Resolve` is `resolve_person` for one record, `Promote` `promote_legislators`
for a whole file, `Merge` `merge_person` for one decision; each holds the
transaction lock `PERSON_IDENTITY_LOCK`, so each is one step. `ReadMap` and
`Vote` are the consumer whose two steps the lock does not join: a merge may come
between them, and the foreign key refuses a person that is gone. `Linked` is the
recursive query `linked_identifiers`, as the least set closed under the reviewed
decisions. Display names are left out.

### GovInfoArtifacts, BillStatusSync, BillTextSync

`GovInfoArtifacts` adds to the registry what both GovInfo connectors keep in a
row's metadata: the origin state a HEAD described (`stamp`), the verdict of the
comparison with the manifest, whether the path is the old lake's. `Filed` is
`register_artifact` with its merge of metadata (`Merged`) on a retry and on the
promotion of a failed attempt. A version is a position in the artifact's rows.

| `BillStatusSync` | Code |
|---|---|
| `origin`, `listed` | the publication served; the one the directory manifest lists (two documents, not always in step) |
| `partial[z]` | the staging file: the content its bytes are of, how many, and the publication served when it was last written, which is its mtime |
| `children`, `record`, `ident` | a bill's child rows, `core.bill_source_record`, `govinfo.package` identifier, by version |
| `item[z]` | the run's zip item: HEAD, `reuse`, artifact, verdict, members to do |
| `malformed` | zips with a member this run could not read |
| `legacy` | a run of `load-billstatus` (`legload.py`), which takes no lock |
| `beside` | history: that loader wrote the bill, and no newer version since |

| `BillTextSync` | Code |
|---|---|
| `origin` | the publication: a zip or none, the manifest, the XML files served |
| `partial[k]` | the staging file of an artifact, as above |
| `known` | bills in `core.bill`; `BillSaved` adds one at any moment |
| `rows[k]` | artifact 0 is the zip, `m` the XML file of text `m` |
| `record[m]`, `document[m]` | the one `core.bill_text_source_record` of a text; its `core.document` |

`Discover` ... `Checkpoint` are the stages, one action each. `Extract` discards a
staging file that is older than the Last-Modified of the HEAD (`Resumable`),
downloads what is served at that moment behind the bytes that are left, and
registers the file as what the HEAD said; bytes of two contents in one file are
a content of their own (`Splice`), with members that cannot be read (`Corrupt`:
`MemberCorrupt` is the zip's `BadZipFile`, which no `except` of the loader
names). A range past the end of the file is refused with 416 (`RangeRefused`; in
`BillTextSync` `DownloadRefused`, for the 404 of a withdrawn file as well), a failed
row is registered (`FileFailure`), and the staging file stays. An exception or a
kill inside a download leaves behind any beginning of what was being served, up
to all of it, or bytes retained and not registered (`LeftBehind`);
`LoadBatch` is one transaction, with the deletion of older versions
(`supersede_bill_children`) in it; in `BillTextSync` `Drop` is
`supersede_dropped`, a transaction of its own, and `Mark` the registration that
follows. `Fail` is an exception in any stage (checkpoint closes the run as
failed; one inside a download also files a failed row, if the database lets it),
`Kill` leaves it "running". `LegacyStart`, `LegacySave`, `LegacyFinish`
are `load_billstatus`, one transaction per bill.

### MC modules and proof modules

Each `MC` module gives the constants that a `.cfg` cannot write (sizes, contents,
publications, files of records) and says which cases its instance holds. Each
`...Proofs` module extends the module it is about.

## 4. Runs

| Run | Checks | Bounds | Result |
|---|---|---|---|
| `download_fresh` | `EvidenceIntact`, `EvidenceIsWhole`, `EvidenceImmutable`, `FailureKeepsCurrent`, `EventuallyCurrent` | policy `fresh`; 2 processes, versions of 2 and 3 chunks, 1 refresh, 1 kill, 1 error, 1 local file | holds |
| `download_resume` | `IInv`, `EvidenceIntactUnlessKilled`, `WholeUnlessRefreshed` | policies `resume` and `mtime`; the same, with a legacy file and an expected size; symmetric processes | holds |
| `download_rewrite` | `EvidenceIntact` | policy `resume`, 1 kill | violated |
| `rate_gate` | `IInv`, `PaceKept`, `AllowanceKept`, `OneProbe`, `CooldownHonoured`, `TurnsKeepComing` | 1 gate, window 4, limit 2, lowered to 1 by a header, 3 turns, reservations that end after 2 ticks beside requests that may still be under way then, 1 restart, 1 damaged file of either kind; 355,700 states | holds |
| `rate_gate_shared` | `PaceKept` | 2 gates | violated |
| `roll_call_sync` | `TypeOK`, `RecordMeansLoaded`, `SucceededIsComplete`, `ImplementsStore`, `EventuallyReflected` | 2 processes, 2 roll calls, 3 editions each, 2 members (one known later), batches of 1, 2 refreshes, 1 error, 1 kill or exception | holds |
| `congress_bills` | `TypeOK`, `EvidenceFirst`, `SucceededIsSavedUnlessTorn`, `ClosedIsQuiet`, `LossBounded`, `EventuallySaved` | 4 bills on 2 pages of 2 Congresses, 2 parts, 2 manifest keys, 5 servers, both windows 2, 1 fault, 1 kill; 454,208 states | holds |
| `congress_bills_lost_part` | `SucceededIsSaved` | the same without recovery, on a server that serves everything | violated |
| `person_identity` | `TypeOK`, `OneBioguide`, `NothingMisplacedInSilence`, `IdentityIsEvidence`, `VotesFollowPeople` | 7 identifiers, 4 symmetric persons, 2 legislators, 3 records, 2 chained reviews, 1 roll call, 1 term | holds |
| `bill_status` | `TypeOK`, `OneVersionUnlessBeside`, `SucceededIsLoaded`, `ReplacedByNewer`, `EventuallyLoadedUnlessStuck` | 2 zips, 3 bills, 1 refresh, 2 failures or kills, 1 legacy load, batches of 1; 823,341 states | holds |
| `bill_status_worded` | `EventuallyLoaded` | the same without failures and kills | violated |
| `bill_text` | `TypeOK`, `SucceededIsExact`, `DocumentFollowsRecord`, `LostOnlyIfDelisted`, `EventuallyAttachedUnlessStuck` | 3 texts of 2 bills, 4 publications, 1 failure or kill, batches of 1; 299,729 states | holds |

Why the bounds are enough: the download's lock admits one process, so two show
every interleaving of a holder, a waiter and its successor; sizes 2 and 3 give an
empty, a partial, a complete and an over-long staging file for both versions;
one refresh, kill, error and local file combine in one behaviour, which is what
the violation needs. The rate gate's window is twice its first pace and just
the second, so a window fills and empties and the limit falls below what was
already sent, and `LogThreshold`/`FlushEvery` are small enough that the log is
dropped; three turns let two requests outlast their reservations while a third is
handed out. In `roll_call_sync` roll 1's editions have one length (so a GET newer
than its HEAD goes unnoticed) and its last edition repeats the bytes before it;
roll 2 is unreadable first and longer later (so the length check fires); two
batches give a place to be killed between commits. In `congress_bills` three
bills of one Congress meet windows of two, so one waits, one is saved and one is
asked for at the same time. Its five servers are the cases `EventuallySaved` tells
apart: a part of bill 1 out of service and an unreadable bill 2 before bills 3 and
4 (fewer never-finished bills than the save window: both are reached); two
unreadable bills, as many as the window, before bill 4 (every run raises at its
first collect and bill 4 starves); a refused bill 3; and a refused or unreadable
bill in the first Congress, which holds up the whole second one. In
`person_identity` upstream gives one identifier to both legislators, one record
bridges two people, and the reviews form a chain; four persons leave room for
both legislators and both duplicates before any merge. In `bill_status` the new zip drops a
bill, adds an unreadable one and is smaller than the one before, so a beginning of
the first may be spliced to it or be longer than all of it; two failures put a
failure or a kill into the download and another into its rerun; the old archive is the
first publication. In `bill_text` the publications are a whole zip, a short zip,
XML files only, and a zip again, so a text's record takes every kind of move.

Fairness.

* `ArtifactDownload!FairSpec`: some process takes its next step in the download
  again and again (plans and timers repeat); errors, kills, refreshes and the
  operator are never promised.
* `RateGate!FairSpec`: time passes, a script with work asks again (`acquire`
  loops), every request ends (the HTTP client has a timeout, after which
  `release` is called).
* `RollCallSync`, `BillStatusSync`, `BillTextSync`: a run that started goes on
  (weak fairness), and the full sync is started again and again, whatever
  `--download-only` runs come between (strong fairness: it is not always
  possible). The commands are run by an operator or a timer, and an early end is
  what their reruns are for ("Reruns are cheap and safe", `billstatus.py:10`).
* `CongressBills`: the same for a sync without `--limit`; the main thread, each
  download and each saver thread run.

### Violations

* `download_rewrite`: `os.link` then `unlink`; a kill in between leaves the
  staging name on the inode of retained evidence, and a later transfer opens it
  for writing.
* `rate_gate_shared`: the state is read once per gate object and overwritten by
  each save.
* `congress_bills_lost_part`: a bill saved without a part the server could not
  serve has its row; a later run keeps that part and is killed before it saves.
  All files loaded and a row: every later run skips the bill.
  `SucceededIsSavedUnlessTorn` is the part of the promise that holds.
* `bill_status_worded`: `load-billstatus` stores a bare word under
  `metadata.coverage` of a version that a sync reuses, and the sync's
  `.get("checksum")` raises on it in every later run.

What the reruns of the two GovInfo syncs promise is `EventuallyLoadedUnlessStuck`
and `EventuallyAttachedUnlessStuck`. The comment of `billstatus.py:10`, "Reruns are
cheap and safe.", and the docstring of `extract`, "(resumable)", hold but for the
states these name, and each is a state no rerun leaves as long as the publisher does
not replace the file:

* `Worded` (`sync-billstatus` only): the word above.
* `Overlong`: a staging file that is as long as the file, or longer, and not older
  than Last-Modified. A run that ends between the last byte and the retention
  leaves one; every rerun keeps it (`billstatus.py:493`, `bill_text.py:581`), asks
  for a range past its end (`bulk.py:184`) and fails with 416.
* `Misfiled`: bytes of two contents, or of one that was served after the HEAD, were
  registered under the HEAD of what is served now and happen to have its size. They
  are reused as that from then on: they are loaded instead of it, or, when a member
  of them cannot be read, every run fails.

Likewise `EventuallySaved` names in `Blocked` what makes every run of the
Congress.gov loader raise before it reaches a bill: a list page kept and not
parseable, a refused (4xx) bill before it, or unreadable bills before it once those
that are never done with fill the save window.

## 5. Proofs

The theorems hold for every value of the constants that the named ASSUMEs of the
modules allow: any number of processes, files, versions, bills, persons, batch
and window sizes, and any number of refreshes, errors and kills. Where an
assumption is more than a type, it says what the code or the source guarantees
(sizes are positive and bounded, contents are their digests, list pages come in
list order, `validate_legislators` has passed, a batch is not empty).

**Registry.** `ArtifactRegistryProofs`: what a registration does to any history
(checksums are kept, where a checksum can come from, a provisional row does not
change the usable versions, the current version only grows).
And for `GovInfoArtifacts`: `Filed` appends, or merges into the last row
(`FiledCases`), and what it does to the usable versions (`FiledRows`).

**ArtifactDownload.** `BaseInvariant` is `TypeOK`, `LockInv` (the flock admits
one process), `PlaceInv` (the staging file is what was resumed and received, the
digest is taken from the complete file), `LocalInv`; for every policy.
`EvidenceIsImmutable` and `FailuresKeepCurrent` come from the registry lemmas and
`RowsStep` (a step makes at most one registration, of a checksum that passed
`validate_retained`). `EvidenceIntact` is not inductive: a write through the
staging name could reach a retained name. `FreshInv` adds that the process in
the download writes an inode no retained name shares (`FreshPlaces`: it starts
without a staging file and unlinks the one it has linked), so retained names keep
their bytes; `FreshEvidenceIntact` and `FreshEvidenceWhole` follow. For callers that
resume, the same two promises hold under the conditions the violations show to be
necessary, each with an invariant of its own. Without a kill, a staging file shares
its inode with a retained name only between `os.link` and `unlink`
(`SharedAtUnlink`), and the process there does not write: `UnkilledInv`, from which
`UnkilledEvidenceIntact`. Without a refresh, every staging file, whoever left it,
is a prefix of the one version there is (`OneVersion`), and one that passed its
size check is all of it: `UnrefreshedInv`, with `TargetInv` for the legacy file,
from which `UnrefreshedEvidenceWhole`. `InductiveInvariant` is the conjunction
(`IInv`).

**RateGate.** `TypeCorrect` and `LogInv` (logs are in the order of their stamps)
hold for any number of gate objects; the rest assumes one at a time (`OneGate`),
because with two it is false: `rate_gate_shared` is the counterexample. `FileInv`
says that the file is what the gate has in memory, at most without its log, so a
restart forgets turns but no deadline. On it rest, each inductive:

* `PaceInv`: any two turns handed out are an interval apart, and the next will be;
  so at most `Ceiling` ages fit into a window (`PaceIsKept`), also across restarts.
* `AllowanceInv`, without restarts or damage: the gate has a reservation for every
  request in flight that has not outlasted it (`Prompt`), as old as the request; the
  ends of those that had are stamps of the log (`Among`), and log and reservations
  together stay within `Ceiling` but for those stamps; and `Covered`: the k-th
  youngest request that reached the server and is not in flight has a stamp in the
  log that is no older. So what the server counts is at most what the gate counts,
  and one more for each request that outlasted its reservation
  (`AllowanceIsKept`). Nothing is assumed of how long a request is under way.
* `CoolInv`: the gate's cooldown is never shorter than what the server still asks
  for, whatever order the 429s are answered in (`CooldownsHonoured`).
* `ProbeInv`: while a probe must be alone, the gate has a known count, its probe
  gap is at least as long and nothing has reopened it (`ProbesAlone`).

The proof corrected two statements that a smaller instance had let pass. The limits
were taken to be one limit; a header that lowers it leaves more turns in the
window than it now allows, so pace and allowance are promised up to `Ceiling`. And
`OneProbe` said that only an answer ends a probe's time alone; a turn that ended
without an answer while the count is known gives back its share of it (`release`),
and the next turn may follow at once. It now says so.

**RollCallSync.** `IInv` is `TypeOK`, `WholeRows` (a usable row has a checksum),
per process `SyncOK` (the lock holder is the only one inside; what it chose is
not older than what the tables show) and per roll call `StoreOK` (its record,
header and votes agree). `RecordsAreWhole` is part of it, and with it every `Load`
is a step of the store (`LoadShows`) and every other action a stutter
(`OnlyLoads`): `SyncImplementsStore`. `SuccessIsComplete` needs `SInv`, which adds
that a row's bytes are an edition served no earlier than its stamp
(`EditionsOK`), that no row is stamped past the run's HEAD (`HeadIsNewest`), and
what each stage has established by then (`SeenIsServed`, `DoneIsRecorded`,
`TargetOK`, `LedgerOK`).

**CongressBills.** `Stages` says which jobs may exist in which stage;
`ClosedRunsAreQuiet` follows. `EvidenceComesFirst` is inductive by itself, since a
saver that reaches its save has nothing left to keep. `LossIsBounded` needs
`WindowKept`: only `Pop` adds a saver, and only below the window.
`SuccessIsSavedUnlessTorn` needs `SyncInv`: what a saver still holds plus what is
kept is what the bill needed; a bill whose files are complete is written or torn,
or its saver is under way (`KeptIsWritten`); every selected bill is accounted for
by its job; and Congresses already passed are full unless a failure is noted.

**PersonIdentity.** `TypeCorrect` first: everything names people that exist, and
a recorded survivor is never one that is gone. `OneBioguideEach` by the three
writers' guards. `VotesFollow`: a merge maps the heirs of every person on record
as it maps the votes. `NothingMisplaced`: no step breaks up a placed record and
conflicts are only answered, never dropped. `IdentityFromEvidence` works with
`Tied(links, A)` (every proper part of `A` has a link out of it that stays inside
`A`), which two tied sets and a link that meets both keep (`JoinTied`); a merge
is such a link.

**The two GovInfo syncs.** A failed download files a row without bytes, so a
history no longer ends in its current version: the invariants speak of
`UsableVersions`, and the registry lemmas say what `Filed` does to them
(`FiledRows`). Whatever was spliced is a content like any other; of a staging file
only its type is needed, and in `BillTextSync` that one of an XML file has bytes of
that file (`StagedOK`), since an XML file's item is complete by definition.

**BillStatusSync.** `BInv` is `TypeOK`, the tables, `LegacyOK`, `Single` (unless
the older loader wrote the bill, at most one version), `RunOK` and
`SucceededIsLoaded`. `Single` alone is not inductive: `Supersede` deletes older
versions only, so `RunOK` carries `NoneNewer` (none newer than the version being
loaded) and, for success, `LoadedOK` (what is not left to do is recorded, or its
zip is known malformed). `OnlyReplaced` follows from the same invariant.

**BillTextSync.** `BInv` is `TypeOK`, `RowsOK` (a verdict "complete" has a
manifest that lists just that content), `StagedOK`, `RecordsOK` (a record's version holds
its text, and its document is of the same version), `RunOK` (`BoundOK`: an
item's version is the newest with bytes of its artifact; `LoadedOK`; `Swept`: a whole,
readable zip has left no text but its own) and `SucceededIsExact`. `LostIfDelisted`
is the point of `RowsOK`: a drop needs a complete verdict, hence a manifest that
went without the text.

Only model-checked: liveness (`EventuallyCurrent`, `TurnsKeepComing`,
`EventuallyReflected`, `EventuallySaved`, `EventuallyLoadedUnlessStuck`,
`EventuallyAttachedUnlessStuck`), which needs ENABLED and fairness and which the prover cannot
treat.

## 6. Not modelled

* Format parsers, bulk SQL, models and migrations, the CLI, the browser and the
  reports: by far most of the repository's lines, with no state machine of their
  own. Parsing is abstracted to "readable or not" and to what a file names; that
  is why the modules stand for a small share of the implementation's lines.
  The scripts under `.agent` and `.agents` are editor tooling, not the program.
* Legislators, committees and Voteview have the connector shape of the modules
  above with one file and one transaction; Census, ACS, TIGER, PEP, CBP, DHC and
  FEC load each file in one transaction, and their downloads are
  `ArtifactDownload`'s; OpenStates' reuse decision likewise.
* Plan cursors, bulk plan files, displayed names: planned (section 2).
  `run_plan` stores its cursor although series failed, on purpose, and raises
  (`plans.py:150-159`); plan files are rewritten without a lock (`bulk.py:401`),
  which matters only when an operator runs two commands on one plan.

Known limits of the modules, each at the line where the code could do more than
its module does:

* the advisory lock is its connection's and is not checked again
  (`roll_call_votes.py:519`); the modules assume that it lasts;
* the GovInfo syncs take Last-Modified to be the moment of publication, a
  publication to be dated by one second of its own, GovInfo to honour Range, and a
  spliced zip to open (one that does not raises at its first member either way);
* `congress.py`'s `ingest_member`, which writes one member's rows, is left out;
* a listing disagreement is known to the run that met it only
  (`roll_call_votes.py:672`); the instance keeps files and listing in agreement;
* the lock file is unlinked after a roll-call download
  (`roll_call_votes.py:330`); `ArtifactDownload` takes the flock as stable;
* a staging file resumed across a refresh mixes versions
  (`billstatus.py:493`), and one as long as the origin's file is refused for
  ever (`bulk.py:184`): both behaviours are in `ArtifactDownload` and in the two
  syncs, which is why `WholeUnlessRefreshed` has its condition, `EventuallyCurrent`
  is claimed for the `fresh` policy only, and the syncs' liveness has its exceptions;
* a failed attempt's row is promoted in place, so the registry does not keep
  every failure (`repositories/legislation.py:248`);
* a merge answers every open conflict that names the duplicate, other owners in
  it or not (`people.py:354`): `NothingMisplacedInSilence` counts answered ones;
* a stored verdict is reused with the bytes, whatever the manifest says since
  (`billstatus.py:286`); `supersede_dropped` leaves the document of the record it
  drops (`repositories/bill_text.py:76`). Both are modelled as they are,
  and no property claims more.

## 7. Running

    tlc -config MCDownloadFresh.cfg MCArtifactDownload
    tlapm ArtifactDownloadProofs.tla

The other runs pair each `.cfg` with its `MC` module in the same way.
`RollCallSyncProofs` and `RateGateProofs` take some minutes, the other proofs less.

Definitions marked `mutant` are plausible bugs: substituted for the definition
that follows them, each makes a listed property fail, which shows that the
property says something about the code.
