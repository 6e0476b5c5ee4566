---------------------------- MODULE RollCallSync ----------------------------
(***************************************************************************)
(* sync-votes for one chamber and one Congress:                            *)
(* ingestion/roll_call_votes.py with repositories/votes.py.  Each roll     *)
(* call the origin lists is one file; the sync asks for its origin state,  *)
(* downloads what changed, and loads it under the file's artifact version. *)
(*                                                                         *)
(* The origin replaces a roll's file by later editions, each with its own  *)
(* Last-Modified, so an edition number stands for the origin state         *)
(* (remote_size, remote_last_modified) a HEAD reports and a row records;   *)
(* 0 is "not published" and "no origin state recorded".  A file's content  *)
(* is its checksum.  One call of download() is one step here: the download *)
(* has its own module, whose proofs for this caller say that a registered  *)
(* checksum is one whole edition and that retained files stay intact.      *)
(***************************************************************************)
EXTENDS ArtifactRegistry, FiniteSets

CONSTANTS
    Syncs,       \* sync-votes processes
    LastRoll,    \* the origin's roll numbers are 1..LastRoll
    LastEdition,
    Bytes,       \* Bytes[r][e]: the content of edition e of roll r
    Size,        \* Size[c]: the length of content c
    Entries,     \* Entries[c]: the members content c names, by identifier
    Malformed,   \* contents that do not parse or describe another roll call
    Disputed,    \* contents that contradict the listing (the Senate's menu)
    Members,
    KnownAtStart,\* the members the warehouse can name before the first sync
    BatchSize,   \* roll calls per transaction
    Modes,       \* "load", "download_only"
    Nobody,
    MaxRefresh,  \* times the origin publishes or replaces a file
    MaxErrors,   \* failed HEADs, failed downloads, truncated listings
    MaxStops     \* kills and exceptions

Rolls == 1..LastRoll
Editions == 1..LastEdition
EditionOrNone == 0..LastEdition

ASSUME RollAssumption ==
    /\ LastRoll \in Nat \ {0} /\ LastEdition \in Nat \ {0}
    /\ Bytes \in [Rolls -> [Editions -> Checksums]]
    /\ Size \in [Checksums -> Nat]
    /\ Entries \in [Checksums -> SUBSET Members]
    /\ Malformed \subseteq Checksums /\ Disputed \subseteq Checksums
ASSUME SyncAssumption ==
    /\ BatchSize \in Nat \ {0}
    /\ KnownAtStart \subseteq Members
    /\ Modes \subseteq {"load", "download_only"}
    /\ Nobody \notin Syncs
    /\ MaxRefresh \in Nat /\ MaxErrors \in Nat /\ MaxStops \in Nat

VARIABLES
    origin,     \* the edition of each roll the origin serves
    people,     \* the members core.person_identifier can name
    rows,       \* the artifact versions of each roll's file
    stamps,     \* the origin state in the metadata of each of those rows
    call,       \* core.roll_call.source_artifact_id, as a version; 0: no row
    votes,      \* fact.member_vote: the version each vote came from; 0: none
    records,    \* core.roll_call_source_record: version -> unresolved ids
    lock,       \* who holds the session advisory lock
    sync,       \* what each process knows
    ledger,     \* the ingest.run and ingest.run_target rows of the newest run
    refreshes, errors, stops

registry == <<rows, stamps>>
warehouse == <<call, votes, records>>
world == <<origin, people>>
counters == <<refreshes, errors, stops>>
vars == <<world, registry, warehouse, lock, sync, ledger, counters>>

Nothing == [version |-> 0, stamp |-> 0, status |-> "none"]
Quiet == [pc |-> "idle", mode |-> "load", listed |-> {},
          seen |-> [r \in Rolls |-> Nothing], head |-> [r \in Rolls |-> 0],
          fetch |-> {}, failed |-> {}, todo |-> {}, known |-> {}, flawed |-> FALSE]

Place == {"idle", "select", "extract", "evidence", "normalize", "publish",
          "load", "record", "finish"}
KnownRow == [version : Nat, stamp : EditionOrNone, status : Status \cup {"none"}]

TypeOK ==
    /\ origin \in [Rolls -> EditionOrNone] /\ people \subseteq Members
    /\ rows \in [Rolls -> Seq(Row)] /\ stamps \in [Rolls -> Seq(EditionOrNone)]
    /\ \A r \in Rolls : Len(stamps[r]) = Len(rows[r])
    /\ call \in [Rolls -> Nat] /\ votes \in [Rolls -> [Members -> Nat]]
    /\ \A r \in Rolls :
          /\ DOMAIN records[r] \subseteq 1..Len(rows[r])
          /\ \A v \in DOMAIN records[r] : records[r][v] \subseteq Members
    /\ lock \in Syncs \cup {Nobody}
    /\ sync \in [Syncs -> [pc : Place, mode : Modes \cup {"load"}, listed : SUBSET Rolls,
                           seen : [Rolls -> KnownRow], head : [Rolls -> EditionOrNone],
                           fetch : SUBSET Rolls, failed : SUBSET Rolls, todo : SUBSET Rolls,
                           known : SUBSET Members, flawed : BOOLEAN]]
    /\ ledger \in [by : Syncs \cup {Nobody},
                   run : {"none", "running", "partial", "succeeded", "failed"},
                   target : {"none", "partial", "succeeded"}]
    /\ refreshes \in 0..MaxRefresh /\ errors \in 0..MaxErrors
    /\ stops \in 0..MaxStops

Init ==
    /\ origin \in [Rolls -> {0, 1}] /\ people = KnownAtStart
    /\ rows = [r \in Rolls |-> <<>>] /\ stamps = [r \in Rolls |-> <<>>]
    /\ call = [r \in Rolls |-> 0] /\ votes = [r \in Rolls |-> [m \in Members |-> 0]]
    /\ records = [r \in Rolls |-> <<>>]
    /\ lock = Nobody
    /\ sync = [s \in Syncs |-> Quiet]
    /\ ledger = [by |-> Nobody, run |-> "none", target |-> "none"]
    /\ refreshes = 0 /\ errors = 0 /\ stops = 0
-----------------------------------------------------------------------------
(* The registry                                                            *)

FileRow(status, checksum) == [status |-> status, checksum |-> checksum, virtual |-> FALSE]

(* Metadata: a new row has the caller's, an updated row the caller's keys  *)
(* over its own (so a call without an origin state keeps the recorded one) *)
StampedOnNew(r, action, e) == Append(stamps[r], e)   \* mutant: a retry adds a row
Stamped(r, action, e) ==
    IF action = "append" THEN Append(stamps[r], e)
    ELSE [stamps[r] EXCEPT ![Len(stamps[r])] = IF e = 0 THEN @ ELSE e]

(* register_artifact for the files in R.                                   *)
Register(R, new, stamp) ==
    /\ rows' = [r \in Rolls |->
         IF r \in R THEN Registered(rows[r], new[r], Checksums) ELSE rows[r]]
    /\ stamps' = [r \in Rolls |->
         IF r \in R
         THEN Stamped(r, ArtifactAction(rows[r], new[r], Checksums), stamp[r])
         ELSE stamps[r]]

(* current_artifacts: what a stage reads of the row consumers see.         *)
CurrentRow(r) ==
    LET v == Current(rows[r])
    IN  IF v = 0 THEN Nothing
        ELSE [version |-> v, stamp |-> stamps[r][v], status |-> rows[r][v].status]
CurrentRows == [r \in Rolls |-> CurrentRow(r)]

Content(r, v) == rows[r][v].checksum
-----------------------------------------------------------------------------
(* The ten stages                                                          *)

Served(s) == {r \in Rolls : sync[s].head[r] # 0}
UsableRolls(s) == Served(s) \ sync[s].failed
Unlisted(s) == \E r \in Rolls \ sync[s].listed : \E q \in sync[s].listed : r < q

Update(s, new) == sync' = [sync EXCEPT ![s] = new]

(* discover, and the registry read that select begins with.  A listing may *)
(* come back truncated.                                                    *)
Discover(s, mode) ==
    /\ sync[s].pc = "idle" /\ lock = Nobody
    /\ lock' = s
    /\ ledger' = [by |-> s, run |-> "running", target |-> "none"]
    /\ \E listed \in SUBSET Rolls :
          /\ errors + (IF listed = Rolls THEN 0 ELSE 1) <= MaxErrors
          /\ errors' = errors + (IF listed = Rolls THEN 0 ELSE 1)
          /\ Update(s, [Quiet EXCEPT !.pc = "select", !.mode = mode, !.listed = listed,
                                     !.seen = CurrentRows])
    /\ UNCHANGED <<world, registry, warehouse, refreshes, stops>>

(* _decide: an unchanged file, whole and verified at this origin state, is *)
(* reused.                                                                 *)
Unchanged(r, row, e) ==
    /\ row.version # 0
    /\ row.stamp = e
    /\ Size[Content(r, row.version)] = Size[Bytes[r][e]]

(* select: one HEAD per listed file.  They read the origin of different    *)
(* files, so the order and the time between them do not matter.            *)
Select(s) ==
    /\ sync[s].pc = "select"
    /\ \E broken \in SUBSET sync[s].listed :
          LET head == [r \in Rolls |->
                         IF r \in sync[s].listed \ broken THEN origin[r] ELSE 0]
          IN  /\ errors + Cardinality(broken) <= MaxErrors
              /\ errors' = errors + Cardinality(broken)
              /\ Update(s, [sync[s] EXCEPT !.pc = "extract", !.head = head, !.failed = broken,
                   !.fetch = {r \in Rolls : head[r] # 0 /\ ~Unchanged(r, sync[s].seen[r], head[r])}])
    /\ UNCHANGED <<world, registry, warehouse, lock, ledger, refreshes, stops>>

(* extract: the next file to fetch.  The origin may have replaced it since *)
(* the HEAD; only a different length is noticed, after the row is written. *)
Next1(R) == CHOOSE r \in R : \A q \in R : r <= q

Fetch(s) ==
    LET r == Next1(sync[s].fetch)
        got == Bytes[r][origin[r]]
        same == Size[got] = Size[Bytes[r][sync[s].head[r]]]
    IN  /\ sync[s].pc = "extract" /\ sync[s].fetch # {}
        /\ Register({r}, [q \in {r} |-> FileRow("downloaded", got)], sync[s].head)
        /\ Update(s, [sync[s] EXCEPT !.fetch = @ \ {r},
                                     !.failed = IF same THEN @ ELSE @ \cup {r}])
        /\ UNCHANGED <<world, warehouse, lock, ledger, counters>>

FetchFails(s) ==
    LET r == Next1(sync[s].fetch)
    IN  /\ sync[s].pc = "extract" /\ sync[s].fetch # {}
        /\ errors < MaxErrors /\ errors' = errors + 1
        /\ Register({r}, [q \in {r} |-> FileRow("failed", NoChecksum)], sync[s].head)
        /\ Update(s, [sync[s] EXCEPT !.fetch = @ \ {r}, !.failed = @ \cup {r}])
        /\ UNCHANGED <<world, warehouse, lock, ledger, refreshes, stops>>

(* evidence: only bytes registered for the origin state of the HEAD.       *)
Evidence(s) ==
    /\ sync[s].pc = "extract" /\ sync[s].fetch = {}
    /\ Update(s, [sync[s] EXCEPT !.pc = "normalize", !.seen = CurrentRows,
         !.failed = @ \cup {r \in UsableRolls(s) : \/ CurrentRow(r).version = 0
                                              \/ CurrentRow(r).stamp # sync[s].head[r]}])
    /\ UNCHANGED <<world, registry, warehouse, lock, ledger, counters>>

(* normalize: no record row for this version, or unresolved ids in it.     *)
LeftToLoadOnce(r, v) == v \notin DOMAIN records[r]   \* mutant: unresolved ids are not tried again
LeftToLoad(r, v) ==
    \/ v \notin DOMAIN records[r]
    \/ records[r][v] # {}

Normalize(s) ==
    /\ sync[s].pc = "normalize"
    /\ Update(s, [sync[s] EXCEPT !.pc = "publish",
         !.todo = IF sync[s].mode = "download_only" THEN {}
                  ELSE {r \in UsableRolls(s) : LeftToLoad(r, sync[s].seen[r].version)}])
    /\ UNCHANGED <<world, registry, warehouse, lock, ledger, counters>>

(* _mark_loaded: status only, with no origin state of its own.             *)
MarkLoaded(s, R) ==
    LET marked == {r \in R : sync[s].seen[r].status # "loaded"}
    IN  Register(marked,
                 [r \in marked |-> FileRow("loaded", Content(r, sync[s].seen[r].version))],
                 [r \in Rolls |-> 0])

(* publish: the people, and _settle for what is loaded but was registered  *)
(* again as downloaded.                                                    *)
Publish(s) ==
    /\ sync[s].pc = "publish"
    /\ IF sync[s].mode = "download_only"
       THEN Update(s, [sync[s] EXCEPT !.pc = "finish"]) /\ UNCHANGED registry
       ELSE /\ Update(s, [sync[s] EXCEPT !.known = people,
                            !.pc = IF sync[s].todo = {} THEN "record" ELSE "load"])
            /\ MarkLoaded(s, UsableRolls(s) \ sync[s].todo)
    /\ UNCHANGED <<world, warehouse, lock, ledger, counters>>

(* _save_roll_call: the roll-call row and the votes of the people known    *)
(* take this version; what older versions left is deleted; the record is   *)
(* written last, in the same transaction.                                  *)
IsOlderNever(w, v) == FALSE   \* mutant: nothing is superseded
IsOlder(w, v) == w < v

SavedVotesUpserted(s, r, v) ==   \* mutant: upserts only, nothing is deleted
    [m \in Members |->
        IF m \in Entries[Content(r, v)] \cap sync[s].known THEN v ELSE votes[r][m]]
SavedVotes(s, r, v) ==
    [m \in Members |->
        IF m \in Entries[Content(r, v)] \cap sync[s].known THEN v
        ELSE IF IsOlder(votes[r][m], v) THEN 0 ELSE votes[r][m]]

SavedRecords(s, r, v) ==
    [w \in {w \in DOMAIN records[r] : ~IsOlder(w, v)} \cup {v} |->
        IF w = v THEN Entries[Content(r, v)] \ sync[s].known ELSE records[r][w]]

(* One batch of _load_congress.  A file that does not parse, or that       *)
(* describes another roll call, writes nothing.                            *)
Batch(s) ==
    {r \in sync[s].todo : Cardinality({q \in sync[s].todo : q < r}) < BatchSize}

Load(s) ==
    LET version(r) == sync[s].seen[r].version
        content(r) == Content(r, version(r))
        saved == {r \in Batch(s) : content(r) \notin Malformed}
    IN  /\ sync[s].pc = "load"
        /\ call' = [r \in Rolls |-> IF r \in saved THEN version(r) ELSE call[r]]
        /\ votes' = [r \in Rolls |->
             IF r \in saved THEN SavedVotes(s, r, version(r)) ELSE votes[r]]
        /\ records' = [r \in Rolls |->
             IF r \in saved THEN SavedRecords(s, r, version(r)) ELSE records[r]]
        /\ MarkLoaded(s, saved)
        /\ Update(s, [sync[s] EXCEPT !.pc = "record", !.todo = @ \ Batch(s),
             !.flawed = \/ @ \/ saved # Batch(s)
                        \/ \E r \in saved : \/ content(r) \in Disputed
                                            \/ ~(Entries[content(r)] \subseteq sync[s].known)])
        /\ UNCHANGED <<world, lock, ledger, counters>>

(* record(congress), after every batch and at the end.                     *)
ProblemsInBatches(s) ==   \* mutant: only what this run loaded is looked at
    sync[s].todo # {} \/ sync[s].flawed
Problems(s) ==
    \/ sync[s].todo # {}
    \/ sync[s].flawed
    \/ sync[s].failed # {}
    \/ Unlisted(s)

Record(s) ==
    /\ sync[s].pc = "record"
    /\ ledger' = IF ledger.by # s THEN ledger
                 ELSE [ledger EXCEPT !.target = IF Problems(s) THEN "partial" ELSE "succeeded"]
    /\ Update(s, [sync[s] EXCEPT !.pc = IF sync[s].todo = {} THEN "finish" ELSE "load"])
    /\ UNCHANGED <<world, registry, warehouse, lock, counters>>

(* checkpoint: the run row is closed, the lock's connection is closed.     *)
Release(s) == lock' = IF lock = s THEN Nobody ELSE lock

Close(s, status) ==
    /\ ledger' = IF ledger.by # s THEN ledger ELSE [ledger EXCEPT !.run = status]
    /\ Release(s)
    /\ Update(s, Quiet)
    /\ UNCHANGED <<world, registry, warehouse>>

Checkpoint(s) ==
    /\ sync[s].pc = "finish"
    /\ Close(s, IF sync[s].flawed \/ sync[s].failed # {} \/ Unlisted(s)
                THEN "partial" ELSE "succeeded")
    /\ UNCHANGED counters

(* An exception in any stage (the capacity gate, the database, a listing)  *)
(* goes to checkpoint; a kill does not, and leaves the run "running".      *)
Stop(s) ==
    /\ sync[s].pc # "idle"
    /\ stops < MaxStops /\ stops' = stops + 1
    /\ Close(s, "failed") \/ Close(s, "running")
    /\ UNCHANGED <<refreshes, errors>>
-----------------------------------------------------------------------------
(* The world                                                               *)

Refresh(r) ==
    /\ origin[r] < LastEdition
    /\ refreshes < MaxRefresh /\ refreshes' = refreshes + 1
    /\ origin' = [origin EXCEPT ![r] = @ + 1]
    /\ UNCHANGED <<people, registry, warehouse, lock, sync, ledger, errors, stops>>

(* load-legislators and the other people loaders.                          *)
PersonLoaded(m) ==
    /\ m \notin people
    /\ people' = people \cup {m}
    /\ UNCHANGED <<origin, registry, warehouse, lock, sync, ledger, counters>>

Work(s) == Select(s) \/ Fetch(s) \/ FetchFails(s) \/ Evidence(s) \/ Normalize(s)
           \/ Publish(s) \/ Load(s) \/ Record(s) \/ Checkpoint(s)

Next ==
    \/ \E s \in Syncs : (\E mode \in Modes : Discover(s, mode)) \/ Work(s) \/ Stop(s)
    \/ \E r \in Rolls : Refresh(r)
    \/ \E m \in Members : PersonLoaded(m)

Spec == Init /\ [][Next]_vars

(* A run that started goes on, and somebody runs a full sync again and     *)
(* again.  Nothing is promised of errors, stops, refreshes or people.      *)
FairSpec ==
    /\ Spec
    /\ \A s \in Syncs : WF_vars(Work(s))
    /\ SF_vars(\E s \in Syncs : Discover(s, "load"))
-----------------------------------------------------------------------------
(* Properties                                                              *)

(* A record row means the roll call is fully loaded from that version: the *)
(* header and every vote come from it and from no other, each member the   *)
(* file names has a vote unless the record lists the member as unresolved. *)
(* normalize skips a roll call on the strength of this, for ever.          *)
RecordMeansLoaded ==
    \A r \in Rolls : \A v \in DOMAIN records[r] :
        /\ call[r] = v
        /\ votes[r] = [m \in Members |->
             IF m \in Entries[Content(r, v)] \ records[r][v] THEN v ELSE 0]

(* The sync implements what readers rely on: see RollCallStore.  Votes of  *)
(* two versions side by side, or beside no roll call, are no file at all.  *)
Shown(r) ==
    [version |-> call[r],
     voters |-> IF \A m \in Members : votes[r][m] \in {0, call[r]}
                THEN {m \in Members : votes[r][m] # 0}
                ELSE {"mixed"}]
Store == INSTANCE RollCallStore WITH shown <- [r \in Rolls |-> Shown(r)]
ImplementsStore == Store!Spec

(* A Congress is "succeeded" only when no listed roll call is missing: the *)
(* listing has no hole and every file the origin served is loaded, from    *)
(* the current version, with nobody left unresolved; and a loading run is  *)
(* not "succeeded" with a partial Congress.                                *)
SucceededIsComplete ==
    /\ ledger.run = "succeeded" => ledger.target # "partial"
    /\ \A s \in Syncs : ledger.by = s /\ ledger.target = "succeeded" /\ sync[s].pc = "finish" =>
         /\ ~Unlisted(s)
         /\ sync[s].failed = {}
         /\ \A r \in Served(s) :
               /\ call[r] \in DOMAIN records[r] /\ records[r][call[r]] = {}
               /\ \E e \in sync[s].head[r]..origin[r] : Content(r, call[r]) = Bytes[r][e]

(* When the origin and the people stop changing, reruns end with every     *)
(* readable roll call loaded from the edition the origin serves, with a    *)
(* vote of every member the warehouse knows, whatever errors, kills and    *)
(* truncated listings came before.                                         *)
Reflected(r) ==
    /\ call[r] # 0 /\ Content(r, call[r]) = Bytes[r][origin[r]]
    /\ \A m \in Entries[Bytes[r][origin[r]]] \cap people : votes[r][m] = call[r]

EventuallyReflected ==
    \A r \in Rolls :
        <>[](origin[r] # 0 /\ Bytes[r][origin[r]] \notin Malformed => Reflected(r))
=============================================================================
