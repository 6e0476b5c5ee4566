------------------------- MODULE CongressBillsProofs -------------------------
(***************************************************************************)
(* Theorems about CongressBills, for any list, recovery manifest, windows, *)
(* faults and kills: every safety property the runs check.                 *)
(***************************************************************************)
EXTENDS CongressBills, FiniteSetTheorems, WellFoundedInduction, TLAPS

(* The head of a list: every set of numbers that is not empty has one.     *)
LEMMA LeastIsIn ==
    ASSUME NEW S \in SUBSET Nat, S # {}
    PROVE  Least(S) \in S
<1>1. PICK x \in S : \A y \in S : ~(<<y, x>> \in OpToRel(<, Nat))
  BY WFMin, NatLessThanWellFounded
<1>2. \A y \in S : x <= y
  <2> SUFFICES ASSUME NEW y \in S PROVE x <= y
    OBVIOUS
  <2>1. x \in Nat /\ y \in Nat
    OBVIOUS
  <2>2. ~(y < x)
    BY <1>1, <2>1 DEF OpToRel
  <2> QED BY <2>1, <2>2
<1> QED BY <1>2 DEF Least
-----------------------------------------------------------------------------
(* Types, and which stage leaves which jobs                                *)

Steady == {"out", "commit", "done", "raised"}

Stages ==
    /\ run.pc \in {"list", "drain"} => run.mode = "sync" /\ run.congress \in Congresses
    /\ run.pc = "recover" =>
          /\ run.mode = "recover"
          /\ job = AllOut \/ run.keys # {}
          /\ \A b, c \in Bills : job[b] # "out" /\ job[c] # "out" => b = c
          /\ \A b \in Bills : job[b] # "queued"
    /\ run.pc \in {"list", "target", "checkpoint"} => job = AllOut
    /\ run.pc \in {"target", "checkpoint"} /\ run.mode = "sync" =>
          run.congress = LastCongress + 1
    /\ run.pc = "raising" => \A b \in Bills : job[b] \in Steady \cup {"asked"}
    /\ run.pc = "idle" => \A b \in Bills : job[b] \in Steady \ {"commit"}
    /\ ledger.run # "running" => run.pc = "idle"

LEMMA NeededParts ==
    ASSUME TypeOK, Stages, NEW b \in Bills, job[b] = "asked", run.pc # "raising"
    PROVE  Needed(b) \subseteq Parts
<1>1. CASE run.mode = "recover"
  <2>1. run.pc = "recover"
    BY <1>1 DEF TypeOK, Stages, Stage, Steady, AllOut
  <2>2. run.keys # {} /\ run.keys \subseteq Keys
    BY <2>1 DEF Stages, TypeOK, AllOut
  <2>3. run.keys \in SUBSET Nat
    BY <2>2, PartAssumption DEF Keys
  <2>4. Least(run.keys) \in Keys
    BY <2>2, <2>3, LeastIsIn
  <2>5. Key.part \in Parts
    <3>1. PICK k \in DOMAIN RecoveryKeys : k = Least(run.keys)
      BY <2>4 DEF Keys
    <3> DEFINE Manifest == [bill : Bills, part : Parts, page : 0..LastPage]
    <3>2. RecoveryKeys \in Seq(Manifest)
      BY PartAssumption
    <3> HIDE DEF Manifest
    <3>3. RecoveryKeys[k] \in Manifest
      BY <3>2
    <3> USE DEF Manifest
    <3> QED BY <3>1, <3>3 DEF Key
  <2> QED BY <1>1, <2>5 DEF Needed
<1>2. CASE run.mode # "recover"
  BY <1>2 DEF Needed
<1> QED BY <1>1, <1>2

LEMMA MainType ==
    ASSUME TypeOK, Stages, Main
    PROVE  TypeOK'
<1>1. CASE ListPage
  <2>1. Unlisted # {} /\ Unlisted \in SUBSET Nat /\ Unlisted \subseteq Pages
    BY <1>1 DEF ListPage, Unlisted, Pages
  <2>2. Least(Unlisted) \in Pages
    BY <2>1, LeastIsIn
  <2> QED BY <1>1, <2>2, WindowAssumption DEF ListPage, KeepPage, Raise, Running, Fault, TypeOK, Stage, Job, warehouse, history, upstream
<1>2. CASE StartDrain
  <2>1. job' \in [Bills -> Job]
    BY <1>2 DEF StartDrain, Job, First
  <2> QED BY <1>2, <2>1 DEF StartDrain, TypeOK, Stage, registry, warehouse, history, upstream
<1>3. CASE Pop
  <2> DEFINE b == Least(InFlight)
  <2>1. b \in Bills
    <3>1. InFlight # {} /\ InFlight \in SUBSET Nat /\ InFlight \subseteq Bills
      BY <1>3 DEF Pop, InFlight, In, Bills
    <3> QED BY <3>1, LeastIsIn
  <2> HIDE DEF b
  <2>2. CASE /\ job[b] = "answered"
             /\ job' = [c \in Bills |-> CASE c = b -> "commit"
                                          [] c \in First(1, Waiting) -> "asked"
                                          [] OTHER -> job[c]]
             /\ UNCHANGED <<run, got, errs>>
    <3>1. job' \in [Bills -> Job]
      <4> SUFFICES ASSUME NEW c \in Bills PROVE job'[c] \in Job
        BY <2>2
      <4>1. c = b => c \notin First(1, Waiting)
        BY <2>2 DEF First, Waiting, In
      <4> QED BY <2>2, <4>1 DEF TypeOK, Job
    <3> QED BY <1>3, <2>2, <3>1 DEF Pop, TypeOK, registry, warehouse, history, upstream
  <2>3. CASE /\ job[b] = "broken" /\ Raise
             /\ got' = [c \in Bills |-> IF job[c] = "commit" THEN got[c] ELSE {}]
             /\ errs' = [c \in Bills |-> IF job[c] = "commit" THEN errs[c] ELSE {}]
    BY <1>3, <2>3 DEF Pop, Raise, Running, TypeOK, Stage, Job, registry, warehouse, history, upstream
  <2> QED BY <1>3, <2>2, <2>3 DEF Pop, b
<1>4. CASE Collect
  BY <1>4 DEF Collect, Raise, Running, TypeOK, Stage, Job, registry, warehouse, history, upstream
<1>5. CASE NextCongress
  <2>1. run.congress \in 1..LastCongress
    BY <1>5 DEF NextCongress, Stages, Congresses
  <2>2. run.congress + 1 \in 1..LastCongress + 1
    BY <2>1, ListAssumption
  <2> QED BY <1>5, <2>2 DEF NextCongress, TypeOK, Stage, registry, warehouse, work, history, upstream
<1>6. CASE RecoverKey
  BY <1>6 DEF RecoverKey, Raise, Running, TypeOK, Stage, Job, registry, warehouse, history, upstream
<1>7. CASE Recovered \/ Target \/ Checkpoint \/ CheckpointFailure
  BY <1>7 DEF Recovered, Target, RecordTarget, Checkpoint, CheckpointFailure, Close, TypeOK, Stage,
              registry, warehouse, work, history, upstream
<1> QED BY <1>1, <1>2, <1>3, <1>4, <1>5, <1>6, <1>7 DEF Main

LEMMA ThreadType ==
    ASSUME TypeOK, Stages, NEW b \in Bills, Download(b) \/ Saver(b) \/ IngestBill(b)
    PROVE  TypeOK'
<1>1. CASE Answer(b)
  <2>1. Needed(b) \subseteq Parts
    BY <1>1, NeededParts DEF Answer
  <2> QED BY <1>1, <2>1, WindowAssumption
          DEF Answer, Fault, TypeOK, Job, registry, warehouse, history, upstream
<1>2. CASE Break(b)
  BY <1>2, WindowAssumption DEF Break, Fault, TypeOK, Job, registry, warehouse, history, upstream
<1>3. ASSUME NEW p \in Parts, Keep(b, p) PROVE TypeOK'
  BY <1>3 DEF Keep, TypeOK, warehouse, history, upstream
<1>4. ASSUME NEW p \in Parts, Note(b, p) PROVE TypeOK'
  BY <1>4 DEF Note, TypeOK, warehouse, history, upstream
<1>5. CASE Save(b)
  <2>1. Written(b) \subseteq Parts
    BY PartAssumption DEF Written, Parsed, TypeOK
  <2> QED BY <1>5, <2>1 DEF Save, TypeOK, Job, registry, upstream
<1>6. CASE NotSaved(b)
  BY <1>6 DEF NotSaved, TypeOK, Job, registry, warehouse, history, upstream
<1>7. CASE SaveRaises(b)
  BY <1>7, WindowAssumption DEF SaveRaises, Fault, TypeOK, Job, registry, warehouse, upstream
<1>8. CASE IngestBill(b)
  BY <1>8 DEF IngestBill, TypeOK, registry, work, history, upstream
<1>9. CASE EndUnread(b)
  BY <1>9 DEF EndUnread, TypeOK, Job, registry, warehouse, history, upstream
<1> QED BY <1>1, <1>2, <1>3, <1>4, <1>5, <1>6, <1>7, <1>8, <1>9
        DEF Download, Saver, KeepSome, NoteSome

LEMMA RestType ==
    ASSUME TypeOK,
           \/ \E n \in Limits : DiscoverSync(n)
           \/ \E K \in SUBSET Keys : DiscoverRecovery(K)
           \/ Kill
    PROVE  TypeOK'
<1>1. ASSUME NEW n \in Limits, DiscoverSync(n) PROVE TypeOK'
  <2>1. n \in Nat /\ 1 \in 1..LastCongress + 1
    BY WindowAssumption, ListAssumption
  <2> QED BY <1>1, <2>1 DEF DiscoverSync, Discover, TypeOK, Stage, Mode, Job, AllOut, registry, warehouse, history, upstream
<1>2. ASSUME NEW K \in SUBSET Keys, DiscoverRecovery(K) PROVE TypeOK'
  <2>1. LastBill \in Nat /\ 1 \in 1..LastCongress + 1
    BY ListAssumption
  <2> QED BY <1>2, <2>1 DEF DiscoverRecovery, Discover, TypeOK, Stage, Mode, Job, AllOut, registry, warehouse, history, upstream
<1>3. CASE Kill
  <2>1. torn' \subseteq Bills
    BY <1>3 DEF Kill, In, TypeOK
  <2> QED BY <1>3, <2>1, WindowAssumption
          DEF Kill, TypeOK, Stage, Job, AllOut, Nothing, registry, warehouse, upstream
<1> QED BY <1>1, <1>2, <1>3

(* How each step moves the jobs and stages.                                *)
LEMMA RaiseStages ==
    ASSUME TypeOK, Stages, run.pc # "idle", Raise, ledger' = ledger
    PROVE  Stages'
<1>1. run' = [run EXCEPT !.pc = "raising"] /\ run'.pc = "raising" /\ run'.mode = run.mode
  BY DEF Raise, TypeOK
<1>2. \A b \in Bills : job'[b] \in Steady \cup {"asked"}
  BY DEF Raise, Running, Steady
<1>3. ledger'.run = "running"
  BY DEF Stages
<1> QED BY <1>1, <1>2, <1>3 DEF Stages

LEMMA MainStages ==
    ASSUME TypeOK, Stages, Main
    PROVE  Stages'
<1>1. CASE ListPage
  <2>1. CASE Raise
    BY <1>1, <2>1, RaiseStages DEF ListPage
  <2>2. CASE UNCHANGED <<run, job, ledger>>
    BY <2>2 DEF Stages, AllOut
  <2> QED BY <1>1, <2>1, <2>2 DEF ListPage
<1>2. CASE StartDrain
  BY <1>2 DEF StartDrain, Stages, registry, warehouse, history, upstream
<1>3. CASE Pop
  <2> DEFINE b == Least(InFlight)
  <2>1. b \in InFlight /\ b \in Bills
    <3>1. InFlight # {} /\ InFlight \in SUBSET Nat /\ InFlight \subseteq Bills
      BY <1>3 DEF Pop, InFlight, In, Bills
    <3> QED BY <3>1, LeastIsIn
  <2> HIDE DEF b
  <2>2. CASE /\ job[b] = "answered"
             /\ job' = [c \in Bills |-> CASE c = b -> "commit"
                                          [] c \in First(1, Waiting) -> "asked"
                                          [] OTHER -> job[c]]
             /\ UNCHANGED <<run, got, errs>>
    <3>1. CASE run.pc = "drain"
      BY <1>3, <2>2, <3>1 DEF Pop, Stages
    <3>2. CASE run.pc = "recover"
      <4>1. First(1, Waiting) = {}
        BY <3>2 DEF First, Waiting, In, Stages
      <4>2. job' = [c \in Bills |-> IF c = b THEN "commit" ELSE job[c]]
        BY <2>2, <4>1
      <4>3. run.keys # {}
        BY <2>1, <2>2, <3>2 DEF Stages, AllOut
      <4> QED BY <1>3, <2>1, <2>2, <3>2, <4>2, <4>3 DEF Pop, Stages
    <3> QED BY <1>3, <3>1, <3>2 DEF Pop
  <2>3. CASE job[b] = "broken" /\ Raise
    BY <1>3, <2>3, RaiseStages DEF Pop
  <2> QED BY <1>3, <2>2, <2>3 DEF Pop, b
<1>4. CASE Collect
  <2> DEFINE b == Least(Saving)
  <2>1. b \in Saving /\ b \in Bills
    <3>1. Saving # {} /\ Saving \in SUBSET Nat /\ Saving \subseteq Bills
      BY <1>4 DEF Collect, MustCollect, Saving, In, Bills
    <3> QED BY <3>1, LeastIsIn
  <2> HIDE DEF b
  <2>2. CASE /\ job[b] = "done"
             /\ job' = [job EXCEPT ![b] = "out"]
             /\ run' = IF run.mode = "recover"
                       THEN [run EXCEPT !.keys = @ \ {Least(@)}] ELSE run
    <3>1. CASE run.pc = "drain"
      BY <1>4, <2>2, <3>1 DEF Collect, Stages, TypeOK
    <3>2. CASE run.pc = "recover"
      <4>1. \A c \in Bills : c # b => job[c] = "out"
        BY <2>1, <2>2, <3>2 DEF Stages
      <4>2. \A c \in Bills : job'[c] = "out"
        BY <2>1, <2>2, <4>1 DEF TypeOK
      <4>3. job' = AllOut
        BY <2>2, <4>2 DEF AllOut, TypeOK
      <4> QED BY <1>4, <2>2, <3>2, <4>3, ZenonT(30) DEF Collect, Stages, AllOut, TypeOK
    <3> QED BY <1>4, <3>1, <3>2 DEF Collect
  <2>3. CASE job[b] = "raised" /\ Raise
    BY <1>4, <2>3, RaiseStages DEF Collect
  <2> QED BY <1>4, <2>2, <2>3 DEF Collect, b
<1>5. CASE NextCongress
  <2>1. run.congress \in 1..LastCongress /\ LastCongress \in Nat
    BY <1>5, ListAssumption DEF NextCongress, Stages, Congresses
  <2> QED BY <1>5, <2>1 DEF NextCongress, Stages, Congresses, TypeOK, registry, warehouse, work, history, upstream
<1>6. CASE RecoverKey
  <2>1. CASE Raise
    BY <1>6, <2>1, RaiseStages DEF RecoverKey
  <2>2. CASE job' = [job EXCEPT ![Key.bill] = "asked"] /\ UNCHANGED run
    BY <1>6, <2>2 DEF RecoverKey, Stages, AllOut
  <2> QED BY <1>6, <2>1, <2>2 DEF RecoverKey
<1>7. CASE Recovered
  BY <1>7 DEF Recovered, Stages, AllOut, TypeOK, work
<1>8. CASE Target
  BY <1>8 DEF Target, RecordTarget, Stages, AllOut, TypeOK, work
<1>9. CASE Checkpoint
  BY <1>9 DEF Checkpoint, Close, Stages, AllOut, Steady, TypeOK, work
<1>10. CASE CheckpointFailure
  BY <1>10 DEF CheckpointFailure, Close, In, Running, Stages, Steady, TypeOK, work
<1> QED BY <1>1, <1>2, <1>3, <1>4, <1>5, <1>6, <1>7, <1>8, <1>9, <1>10 DEF Main

(* A thread moves its own job only, and never to a place a stage excludes. *)
LEMMA ThreadStages ==
    ASSUME TypeOK, Stages, NEW b \in Bills, Download(b) \/ Saver(b) \/ IngestBill(b)
    PROVE  Stages'
<1>1. CASE Download(b)
  BY <1>1 DEF Download, Answer, Break, EndUnread, Stages, Steady, AllOut, TypeOK, registry, warehouse, history, upstream
<1>2. CASE KeepSome(b) \/ IngestBill(b)
  BY <1>2 DEF KeepSome, Keep, IngestBill, Stages, registry, warehouse, work, history, upstream
<1>3. CASE NoteSome(b)
  BY <1>3 DEF NoteSome, Note, Stages, TypeOK, registry, warehouse, history, upstream
<1>4. CASE Save(b)
  BY <1>4 DEF Save, SaverSteps, Stages, Steady, AllOut, TypeOK, registry
<1>5. CASE NotSaved(b)
  BY <1>5 DEF NotSaved, SaverSteps, Stages, Steady, AllOut, TypeOK, registry, warehouse, history, upstream
<1>6. CASE SaveRaises(b)
  BY <1>6 DEF SaveRaises, Stages, Steady, AllOut, TypeOK, registry, warehouse
<1> QED BY <1>1, <1>2, <1>3, <1>4, <1>5, <1>6 DEF Saver

LEMMA RestStages ==
    ASSUME TypeOK, Stages,
           \/ \E n \in Limits : DiscoverSync(n)
           \/ \E K \in SUBSET Keys : DiscoverRecovery(K)
           \/ Kill
    PROVE  Stages'
<1>1. ASSUME NEW n \in Limits, DiscoverSync(n) PROVE Stages'
  BY <1>1, ListAssumption DEF DiscoverSync, Discover, Stages, Congresses
<1>2. ASSUME NEW K \in SUBSET Keys, DiscoverRecovery(K) PROVE Stages'
  BY <1>2 DEF DiscoverRecovery, Discover, Stages, AllOut
<1>3. CASE Kill
  BY <1>3 DEF Kill, Stages, AllOut, Steady, TypeOK
<1> QED BY <1>1, <1>2, <1>3

LEMMA StepType ==
    ASSUME TypeOK, Stages, [Next]_vars
    PROVE  TypeOK' /\ Stages'
<1>1. CASE Next
  BY <1>1, MainType, ThreadType, RestType, MainStages, ThreadStages, RestStages DEF Next
<1>2. CASE UNCHANGED vars
  BY <1>2 DEF vars, registry, warehouse, work, history, upstream, TypeOK, Stages
<1> QED BY <1>1, <1>2

LEMMA TypeInvariant == Spec => [](TypeOK /\ Stages)
<1>1. Init => TypeOK /\ Stages
  BY ListAssumption, WindowAssumption
     DEF Init, TypeOK, Stages, Nothing, AllOut, Stage, Mode, Job, Steady
<1> QED BY <1>1, StepType, PTL DEF Spec

(* Every variable keeps its type, for any list, manifest and windows.      *)
THEOREM TypeCorrect == Spec => []TypeOK
BY TypeInvariant, PTL

(* No saver outlives its run: a closed run has no job left that keeps,     *)
(* notes or writes anything.                                               *)
THEOREM ClosedRunsAreQuiet == Spec => []ClosedIsQuiet
<1>1. Stages => ClosedIsQuiet
  BY DEF Stages, ClosedIsQuiet, In, Running, Steady
<1> QED BY <1>1, TypeInvariant, PTL
-----------------------------------------------------------------------------
(* Evidence first                                                          *)

(* Files, rows and what they were written from change in three steps only. *)
LEMMA WarehouseSteps ==
    ASSUME [Next]_vars
    PROVE  \/ \E b \in Bills, p \in Parts : Keep(b, p)
           \/ \E b \in Bills : Save(b)
           \/ \E b \in Bills : IngestBill(b)
           \/ UNCHANGED <<files, row, saved>>
<1>1. CASE Main
  <2>1. CASE ListPage
    BY <2>1 DEF ListPage, warehouse
  <2>2. CASE \/ StartDrain \/ Pop \/ Collect \/ NextCongress \/ RecoverKey
             \/ Recovered \/ Target \/ Checkpoint \/ CheckpointFailure
    BY <2>2 DEF StartDrain, Pop, Collect, NextCongress, RecoverKey, Recovered, Target,
                Checkpoint, CheckpointFailure, Close, registry, warehouse
  <2> QED BY <1>1, <2>1, <2>2 DEF Main
<1>2. ASSUME NEW b \in Bills, Download(b) \/ NoteSome(b) \/ NotSaved(b) \/ SaveRaises(b)
      PROVE  UNCHANGED <<files, row, saved>>
  BY <1>2 DEF Download, Answer, Break, EndUnread, NoteSome, Note, NotSaved, SaveRaises, registry, warehouse
<1>3. CASE \/ \E n \in Limits : DiscoverSync(n)
           \/ \E K \in SUBSET Keys : DiscoverRecovery(K)
           \/ Kill \/ UNCHANGED vars
  BY <1>3 DEF DiscoverSync, DiscoverRecovery, Discover, Kill, vars, registry, warehouse
<1> QED BY <1>1, <1>2, <1>3 DEF Next, Saver, KeepSome

LEMMA StepEvidence ==
    ASSUME TypeOK, EvidenceFirst, [Next]_vars
    PROVE  EvidenceFirst'
<1>1. ASSUME NEW b \in Bills, NEW p \in Parts, Keep(b, p) PROVE EvidenceFirst'
  BY <1>1 DEF Keep, EvidenceFirst, TypeOK, warehouse
<1>2. ASSUME NEW b \in Bills, Save(b) PROVE EvidenceFirst'
  <2>1. Written(b) \subseteq files[b]
    BY <1>2 DEF Save, SaverSteps, Writable, Written, Parsed
  <2>2. files' = files /\ saved' = [saved EXCEPT ![b] = @ \cup Written(b)]
    BY <1>2 DEF Save, registry
  <2> QED BY <2>1, <2>2 DEF EvidenceFirst, TypeOK
<1>3. CASE (\E b \in Bills : IngestBill(b)) \/ UNCHANGED <<files, row, saved>>
  BY <1>3 DEF IngestBill, EvidenceFirst, registry
<1> QED BY <1>1, <1>2, <1>3, WarehouseSteps

(* No row shows a part whose evidence is not kept and registered.          *)
THEOREM EvidenceComesFirst == Spec => []EvidenceFirst
<1>1. Init => EvidenceFirst
  BY DEF Init, EvidenceFirst, Nothing
<1> QED BY <1>1, StepEvidence, TypeCorrect, PTL DEF Spec
-----------------------------------------------------------------------------
(* What a kill can tear                                                    *)

WindowKept == Cardinality(Saving) <= SaveWindow

LEMMA FiniteBills == \A S \in SUBSET Bills : IsFiniteSet(S) /\ Cardinality(S) \in Nat
<1>1. IsFiniteSet(Bills)
  BY ListAssumption, FS_Interval DEF Bills
<1> SUFFICES ASSUME NEW S \in SUBSET Bills PROVE IsFiniteSet(S) /\ Cardinality(S) \in Nat
  OBVIOUS
<1>2. IsFiniteSet(S)
  BY <1>1, FS_Subset
<1> QED BY <1>2, FS_CardinalityType

(* Only a pop adds to the bills being saved, and only one.                 *)
LEMMA SavingSteps ==
    ASSUME TypeOK, Stages, [Next]_vars
    PROVE  \/ Saving' \subseteq Saving
           \/ ~MustCollect /\ InFlight # {} /\ \E b \in Bills : Saving' \subseteq Saving \cup {b}
<1>0. \A b \in Bills : b \in Saving' <=> job'[b] \in {"commit", "done", "raised"}
  BY DEF Saving, In
<1>00. \A b \in Bills : b \in Saving <=> job[b] \in {"commit", "done", "raised"}
  BY DEF Saving, In
<1>000. Saving \subseteq Bills /\ Saving' \subseteq Bills
  BY DEF Saving, In
<1>1. CASE UNCHANGED job
  BY <1>1 DEF Saving, In
<1>2. CASE Raise
  BY <1>0, <1>00, <1>000, <1>2 DEF Raise, Running
<1>3. CASE job' = AllOut
  BY <1>0, <1>00, <1>000, <1>3 DEF AllOut
<1>4. CASE StartDrain
  BY <1>0, <1>00, <1>000, <1>4 DEF StartDrain, First
<1>5. CASE Pop
  <2> DEFINE b == Least(InFlight)
  <2>1. b \in Bills
    <3>1. InFlight # {} /\ InFlight \in SUBSET Nat /\ InFlight \subseteq Bills
      BY <1>5 DEF Pop, InFlight, In, Bills
    <3> QED BY <3>1, LeastIsIn
  <2> HIDE DEF b
  <2>2. ~MustCollect /\ InFlight # {}
    BY <1>5 DEF Pop
  <2>3. CASE /\ job[b] = "answered"
             /\ job' = [c \in Bills |-> CASE c = b -> "commit"
                                          [] c \in First(1, Waiting) -> "asked"
                                          [] OTHER -> job[c]]
    <3>1. \A c \in Bills : c # b => job'[c] \in {"asked", job[c]}
      BY <2>3
    <3>2. Saving' \subseteq Saving \cup {b}
      BY <1>0, <1>00, <1>000, <3>1
    <3> QED BY <2>1, <2>2, <3>2
  <2> QED BY <1>2, <1>5, <2>3 DEF Pop, b
<1>6. CASE Collect
  BY <1>0, <1>00, <1>000, <1>2, <1>6 DEF Collect, TypeOK
<1>7. CASE RecoverKey
  BY <1>0, <1>00, <1>000, <1>2, <1>7 DEF RecoverKey, TypeOK
<1>8. ASSUME NEW b \in Bills, Download(b) \/ Save(b) \/ NotSaved(b) \/ SaveRaises(b)
      PROVE  Saving' \subseteq Saving
  BY <1>0, <1>00, <1>000, <1>8 DEF Download, Answer, Break, EndUnread, Save, NotSaved, SaveRaises, SaverSteps, TypeOK
<1>9. CASE \/ NextCongress \/ Recovered \/ Target \/ Checkpoint \/ CheckpointFailure
           \/ \E b \in Bills : KeepSome(b) \/ NoteSome(b) \/ IngestBill(b)
           \/ UNCHANGED vars
  BY <1>1, <1>9 DEF NextCongress, Recovered, Target, Checkpoint, CheckpointFailure, Close,
                    KeepSome, Keep, NoteSome, Note, IngestBill, vars, work
<1>10. CASE \/ \E n \in Limits : DiscoverSync(n)
            \/ \E K \in SUBSET Keys : DiscoverRecovery(K)
            \/ Kill
  BY <1>3, <1>10 DEF DiscoverSync, DiscoverRecovery, Discover, Kill
<1>11. CASE ListPage
  BY <1>1, <1>2, <1>11 DEF ListPage
<1> QED BY <1>4, <1>5, <1>6, <1>7, <1>8, <1>9, <1>10, <1>11 DEF Next, Main, Saver

LEMMA StepWindow ==
    ASSUME TypeOK, Stages, WindowKept, [Next]_vars
    PROVE  WindowKept'
<1>0. Saving \in SUBSET Bills /\ Saving' \in SUBSET Bills
  BY DEF Saving, In
<1>1. CASE Saving' \subseteq Saving
  <2>1. Cardinality(Saving') <= Cardinality(Saving)
    BY <1>0, <1>1, FiniteBills, FS_Subset
  <2> QED BY <1>0, <2>1, FiniteBills, WindowAssumption DEF WindowKept
<1>2. ASSUME ~MustCollect, InFlight # {}, NEW b \in Bills, Saving' \subseteq Saving \cup {b}
      PROVE  WindowKept'
  <2>1. Cardinality(Saving) < SaveWindow
    <3>1. CASE Saving = {}
      BY <3>1, FS_EmptySet, WindowAssumption
    <3>2. CASE Saving # {}
      BY <1>0, <1>2, <3>2, FiniteBills, WindowAssumption DEF MustCollect
    <3> QED BY <3>1, <3>2
  <2>2. IsFiniteSet(Saving \cup {b}) /\ Cardinality(Saving \cup {b}) <= Cardinality(Saving) + 1
    BY <1>0, FiniteBills, FS_AddElement
  <2>3. Cardinality(Saving') <= Cardinality(Saving \cup {b})
    BY <1>2, <2>2, FS_Subset
  <2>4. Saving \cup {b} \in SUBSET Bills
    BY <1>0
  <2> QED BY <1>0, <2>1, <2>2, <2>3, <2>4, FiniteBills, WindowAssumption DEF WindowKept
<1> QED BY <1>1, <1>2, SavingSteps

(* A kill tears at most as many bills as may be in their savers.           *)
THEOREM LossIsBounded == Spec => LossBounded
<1>1. Init => WindowKept
  <2>1. Init => Saving = {}
    BY DEF Init, Saving, In, AllOut
  <2> QED BY <2>1, FS_EmptySet, WindowAssumption DEF WindowKept
<1>2. TypeOK /\ WindowKept /\ [Next]_vars => Cardinality(torn' \ torn) <= SaveWindow
  <2> SUFFICES ASSUME TypeOK, WindowKept, [Next]_vars
               PROVE  Cardinality(torn' \ torn) <= SaveWindow
    OBVIOUS
  <2>1. torn' \ torn \subseteq Saving
    <3>1. ASSUME NEW b \in Bills, Save(b) \/ SaveRaises(b) PROVE torn' \ torn \subseteq Saving
      BY <3>1 DEF Save, SaveRaises, Saving, In
    <3>2. CASE Kill
      BY <3>2 DEF Kill, Saving, In
    <3>3. CASE Main
      BY <3>3 DEF Main, ListPage, StartDrain, Pop, Collect, NextCongress, RecoverKey, Recovered,
                  Target, Checkpoint, CheckpointFailure, Close, history, upstream
    <3>4. CASE \/ \E n \in Limits : DiscoverSync(n)
               \/ \E K \in SUBSET Keys : DiscoverRecovery(K)
               \/ \E b \in Bills : \/ Download(b) \/ KeepSome(b)
                                    \/ NoteSome(b) \/ NotSaved(b) \/ IngestBill(b)
               \/ UNCHANGED vars
      BY <3>4 DEF DiscoverSync, DiscoverRecovery, Discover, Download, Answer, Break, EndUnread, KeepSome, Keep,
                  NoteSome, Note, NotSaved, IngestBill, vars, history, upstream
    <3> QED BY <3>1, <3>2, <3>3, <3>4 DEF Next, Saver
  <2>2. Saving \in SUBSET Bills /\ torn' \ torn \in SUBSET Bills
    BY <2>1 DEF Saving, In
  <2>3. Cardinality(torn' \ torn) <= Cardinality(Saving)
    BY <2>1, <2>2, FiniteBills, FS_Subset
  <2> QED BY <2>2, <2>3, FiniteBills, WindowAssumption DEF WindowKept
<1> QED BY <1>1, <1>2, StepWindow, TypeInvariant, PTL DEF Spec, LossBounded
-----------------------------------------------------------------------------
(* What a succeeded run leaves                                             *)

Working == {"answered", "commit"}
Recovers(part) == run.mode = "recover" /\ Key.part = part

(* A saver's parts are the ones its bill needs.                            *)
OnlyNeeded ==
    \A b \in Bills : run.mode = "recover" /\ job[b] \in Working => got[b] \subseteq {Key.part}

(* What is kept beside the detail is written, unless the bill's saver was  *)
(* interrupted or is still at work; a recovery of cosponsors, which writes *)
(* only those, found the rest written.                                     *)
KeptIsWritten ==
    \A b \in Bills : Detail \in files[b] /\ b \notin torn =>
        /\ job[b] # "commit" => files[b] \subseteq saved[b]
        /\ job[b] = "commit" /\ Recovers(Cosponsors) => files[b] \ saved[b] \subseteq {Cosponsors}

(* A sync's saver accounts for every part: kept, to keep, to note, noted.  *)
Accounted ==
    \A b \in Bills : run.mode = "sync" /\ job[b] \in Working =>
        \A p \in Parts : p \in files[b] \cup got[b] \cup errs[b] \/ <<b, p>> \in run.failed

Chosen(b) == b \in Selected(Congress(b), run.limit)
Full(b) == files[b] = Parts /\ b \in row

(* What the loop has passed without a failed part is full.                 *)
Passed(b) ==
    /\ run.pc \in {"list", "drain", "target", "checkpoint"}
    /\ \/ Congress(b) < run.congress
       \/ run.pc = "drain" /\ Congress(b) = run.congress /\ job[b] \in {"out", "done"}
PassedIsFull ==
    run.mode = "sync" /\ run.failed = {} =>
        \A b \in Bills : Chosen(b) /\ Passed(b) => Full(b)

SucceededIsFull ==
    ledger.target = "succeeded" =>
        /\ run.pc \in {"checkpoint", "idle"}
        /\ run.mode = "sync" => \A b \in Bills : Chosen(b) => Full(b)

SaverInv == OnlyNeeded /\ KeptIsWritten /\ Accounted /\ run.known \subseteq row
SyncInv == SaverInv /\ PassedIsFull /\ SucceededIsFull

LEMMA CongressOfBill ==
    ASSUME NEW b \in Bills
    PROVE  Congress(b) \in 1..LastCongress /\ Congress(b) \in Nat /\ LastCongress \in Nat
<1>1. PageOf[b] \in Pages /\ CongressOf[PageOf[b]] \in Congresses
  BY ListAssumption
<1> QED BY <1>1, ListAssumption DEF Congress, Congresses

(* The main thread touches no evidence and no row ...                      *)
LEMMA MainKeeps ==
    ASSUME TypeOK, Main
    PROVE  /\ UNCHANGED <<files, row, saved, torn>>
           /\ run'.mode = run.mode /\ run'.limit = run.limit
           /\ run'.known = run.known /\ run'.failed = run.failed
<1>1. Raise => /\ run'.mode = run.mode /\ run'.limit = run.limit
               /\ run'.known = run.known /\ run'.failed = run.failed
  BY DEF Raise, TypeOK
<1>2. CASE ListPage
  BY <1>1, <1>2 DEF ListPage, warehouse, history, upstream
<1>3. CASE StartDrain
  BY <1>3 DEF StartDrain, TypeOK, registry, warehouse, history, upstream
<1>4. CASE Pop
  BY <1>1, <1>4 DEF Pop, registry, warehouse, history, upstream
<1>5. CASE Collect
  BY <1>1, <1>5 DEF Collect, TypeOK, registry, warehouse, history, upstream
<1>6. CASE RecoverKey
  BY <1>1, <1>6 DEF RecoverKey, registry, warehouse, history, upstream
<1>7. CASE NextCongress \/ Recovered \/ Target \/ Checkpoint \/ CheckpointFailure
  BY <1>7 DEF NextCongress, Recovered, Target, Checkpoint, CheckpointFailure, Close, TypeOK,
              registry, warehouse, history, upstream
<1> QED BY <1>2, <1>3, <1>4, <1>5, <1>6, <1>7 DEF Main

Untouched(b) ==
    /\ job[b] \in Working /\ got'[b] = got[b] /\ errs'[b] = errs[b]
    /\ run'.keys = run.keys

(* ... and no bill whose saver is at work, except by handing it one.       *)
LEMMA MainJobs ==
    ASSUME TypeOK, Stages, Main, NEW c \in Bills
    PROVE  /\ job[c] = "commit" => job'[c] = "commit"
           /\ job'[c] \in Working => Untouched(c)
<1>1. ASSUME Raise, \/ UNCHANGED <<got, errs>>
                    \/ /\ got' = [b \in Bills |-> IF job[b] = "commit" THEN got[b] ELSE {}]
                       /\ errs' = [b \in Bills |-> IF job[b] = "commit" THEN errs[b] ELSE {}]
      PROVE  /\ job[c] = "commit" => job'[c] = "commit"
             /\ job'[c] \in Working => Untouched(c)
  <2>1. job'[c] = IF job[c] \in {"asked", "commit"} THEN job[c] ELSE "out"
    BY <1>1 DEF Raise, Running
  <2>2. job[c] = "commit" => got'[c] = got[c] /\ errs'[c] = errs[c]
    BY <1>1
  <2>3. run'.keys = run.keys
    BY <1>1 DEF Raise, TypeOK
  <2> QED BY <2>1, <2>2, <2>3 DEF Working, Untouched
<1>2. ASSUME UNCHANGED <<job, got, errs>>, run'.keys = run.keys
      PROVE  /\ job[c] = "commit" => job'[c] = "commit"
             /\ job'[c] \in Working => Untouched(c)
  BY <1>2 DEF Working, Untouched
<1>3. CASE ListPage
  BY <1>1, <1>2, <1>3 DEF ListPage
<1>4. CASE StartDrain
  <2>1. job[c] = "out" /\ job'[c] \in {"out", "asked", "queued"}
    BY <1>4 DEF StartDrain, Stages, AllOut
  <2> QED BY <2>1 DEF Working
<1>5. CASE Pop
  <2> DEFINE b == Least(InFlight)
  <2>1. CASE /\ job[b] = "answered"
             /\ job' = [d \in Bills |-> CASE d = b -> "commit"
                                          [] d \in First(1, Waiting) -> "asked"
                                          [] OTHER -> job[d]]
             /\ UNCHANGED <<run, got, errs>>
    <3> HIDE DEF b
    <3>1. c \in First(1, Waiting) => job[c] = "queued"
      BY DEF First, Waiting, In
    <3>2. job[c] = "commit" => job'[c] = "commit"
      BY <2>1, <3>1
    <3>3. job'[c] \in Working => job[c] \in Working
      BY <2>1, <3>1 DEF Working
    <3> QED BY <2>1, <3>2, <3>3 DEF Untouched
  <2>2. CASE /\ Raise
             /\ got' = [d \in Bills |-> IF job[d] = "commit" THEN got[d] ELSE {}]
             /\ errs' = [d \in Bills |-> IF job[d] = "commit" THEN errs[d] ELSE {}]
    BY <1>1, <2>2
  <2>3. \/ /\ job[b] = "answered"
           /\ job' = [d \in Bills |-> CASE d = b -> "commit"
                                        [] d \in First(1, Waiting) -> "asked"
                                        [] OTHER -> job[d]]
           /\ UNCHANGED <<run, got, errs>>
        \/ /\ Raise
           /\ got' = [d \in Bills |-> IF job[d] = "commit" THEN got[d] ELSE {}]
           /\ errs' = [d \in Bills |-> IF job[d] = "commit" THEN errs[d] ELSE {}]
    BY <1>5 DEF Pop
  <2> QED BY <2>1, <2>2, <2>3
<1>6. CASE Collect
  <2> DEFINE b == Least(Saving)
  <2>0. b \in Bills
    <3>1. Saving # {} /\ Saving \in SUBSET Nat /\ Saving \subseteq Bills
      BY <1>6 DEF Collect, MustCollect, Saving, In, Bills
    <3> QED BY <3>1, LeastIsIn
  <2>1. CASE /\ job[b] = "done"
             /\ job' = [job EXCEPT ![b] = "out"]
             /\ run' = IF run.mode = "recover"
                       THEN [run EXCEPT !.keys = @ \ {Least(@)}] ELSE run
             /\ UNCHANGED <<got, errs>>
    <3> HIDE DEF b
    <3>1. job'[c] = IF c = b THEN "out" ELSE job[c]
      BY <2>0, <2>1 DEF TypeOK
    <3>2. job'[c] \in Working => run'.keys = run.keys
      <4>1. CASE run.pc = "drain"
        BY <2>1, <4>1 DEF Stages
      <4>2. CASE run.pc = "recover"
        <5>1. c # b => job[c] = "out"
          BY <2>0, <2>1, <4>2 DEF Stages
        <5> QED BY <3>1, <5>1 DEF Working
      <4> QED BY <1>6, <4>1, <4>2 DEF Collect
    <3> QED BY <2>1, <3>1, <3>2 DEF Working, Untouched
  <2>2. CASE /\ Raise
             /\ got' = [d \in Bills |-> IF job[d] = "commit" THEN got[d] ELSE {}]
             /\ errs' = [d \in Bills |-> IF job[d] = "commit" THEN errs[d] ELSE {}]
    BY <1>1, <2>2
  <2> QED BY <1>6, <2>1, <2>2 DEF Collect
<1>7. CASE RecoverKey
  <2>1. job[c] = "out" /\ UNCHANGED <<got, errs>>
    BY <1>7 DEF RecoverKey, AllOut
  <2>2. CASE Raise
    BY <1>1, <2>1, <2>2
  <2>3. CASE job' = [job EXCEPT ![Key.bill] = "asked"]
    BY <2>1, <2>3 DEF TypeOK, Working
  <2> QED BY <1>7, <2>2, <2>3 DEF RecoverKey
<1>8. CASE NextCongress \/ Recovered \/ Target \/ Checkpoint \/ CheckpointFailure
  BY <1>2, <1>8 DEF NextCongress, Recovered, Target, Checkpoint, CheckpointFailure, Close, TypeOK, work
<1> QED BY <1>3, <1>4, <1>5, <1>6, <1>7, <1>8 DEF Main

LEMMA MainSaver ==
    ASSUME TypeOK, Stages, SaverInv, Main
    PROVE  SaverInv'
<1> USE MainKeeps, MainJobs
<1>1. OnlyNeeded'
  <2> SUFFICES ASSUME NEW b \in Bills, run'.mode = "recover", job'[b] \in Working
               PROVE  got'[b] \subseteq {Key'.part}
    BY DEF OnlyNeeded
  <2>1. Untouched(b) /\ run.mode = "recover"
    OBVIOUS
  <2>2. Key' = Key
    BY <2>1 DEF Key, Untouched
  <2> QED BY <2>1, <2>2 DEF SaverInv, OnlyNeeded, Untouched
<1>2. KeptIsWritten'
  <2> SUFFICES ASSUME NEW b \in Bills, Detail \in files'[b], b \notin torn'
               PROVE  /\ job'[b] # "commit" => files'[b] \subseteq saved'[b]
                      /\ job'[b] = "commit" /\ Recovers(Cosponsors)' =>
                            files'[b] \ saved'[b] \subseteq {Cosponsors}
    BY DEF KeptIsWritten
  <2>1. /\ job[b] # "commit" => files[b] \subseteq saved[b]
        /\ job[b] = "commit" /\ Recovers(Cosponsors) => files[b] \ saved[b] \subseteq {Cosponsors}
    BY DEF SaverInv, KeptIsWritten
  <2>2. job'[b] # "commit" => files'[b] \subseteq saved'[b]
    BY <2>1
  <2>3. ASSUME job'[b] = "commit", Recovers(Cosponsors)'
        PROVE  files'[b] \ saved'[b] \subseteq {Cosponsors}
    <3>1. Untouched(b)
      BY <2>3 DEF Working
    <3>2. Recovers(Cosponsors)
      BY <2>3, <3>1 DEF Recovers, Key, Untouched
    <3> QED BY <2>1, <3>1, <3>2 DEF Untouched, Working
  <2> QED BY <2>2, <2>3
<1>3. Accounted'
  <2> SUFFICES ASSUME NEW b \in Bills, run'.mode = "sync", job'[b] \in Working, NEW p \in Parts
               PROVE  p \in files'[b] \cup got'[b] \cup errs'[b] \/ <<b, p>> \in run'.failed
    BY DEF Accounted
  <2>1. Untouched(b) /\ run.mode = "sync"
    OBVIOUS
  <2> QED BY <2>1 DEF SaverInv, Accounted, Untouched
<1>4. run'.known \subseteq row'
  BY DEF SaverInv
<1> QED BY <1>1, <1>2, <1>3, <1>4 DEF SaverInv

(* A thread moves one bill; of the others only files and jobs are compared.*)
LEMMA ThreadSaver ==
    ASSUME TypeOK, Stages, SaverInv, NEW b \in Bills,
           Download(b) \/ Saver(b) \/ IngestBill(b)
    PROVE  SaverInv'
<1> USE DEF SaverInv, OnlyNeeded, KeptIsWritten, Accounted, Recovers, Key, Working
<1>1. CASE Answer(b)
  BY <1>1 DEF Answer, Needed, Key, TypeOK, registry, warehouse, history, upstream
<1>2. CASE Break(b)
  BY <1>2 DEF Break, TypeOK, registry, warehouse, history, upstream
<1>3. ASSUME NEW p \in Parts, Keep(b, p) PROVE SaverInv'
  BY <1>3, PartAssumption DEF Keep, TypeOK, warehouse, history, upstream
<1>4. ASSUME NEW p \in Parts, Note(b, p) PROVE SaverInv'
  BY <1>4 DEF Note, TypeOK, warehouse, history, upstream
<1>5. CASE Save(b)
  BY <1>5 DEF Save, SaverSteps, Written, Parsed, OnlyCosponsors, TypeOK, registry
<1>6. CASE NotSaved(b)
  BY <1>6 DEF NotSaved, SaverSteps, Writable, OnlyCosponsors, TypeOK, registry, warehouse, history, upstream
<1>7. CASE SaveRaises(b)
  BY <1>7 DEF SaveRaises, TypeOK, registry, warehouse
<1>8. CASE IngestBill(b)
  BY <1>8 DEF IngestBill, TypeOK, registry, work, history, upstream
<1>9. CASE EndUnread(b)
  BY <1>9 DEF EndUnread, TypeOK, registry, warehouse, history, upstream
<1> QED BY <1>1, <1>2, <1>3, <1>4, <1>5, <1>6, <1>7, <1>8, <1>9
        DEF Download, Saver, KeepSome, NoteSome

LEMMA RestSaver ==
    ASSUME TypeOK, Stages, SaverInv,
           \/ \E n \in Limits : DiscoverSync(n)
           \/ \E K \in SUBSET Keys : DiscoverRecovery(K)
           \/ Kill
    PROVE  SaverInv'
<1>1. UNCHANGED <<files, row, saved>> /\ job' = AllOut /\ run'.known \subseteq row
  BY DEF DiscoverSync, DiscoverRecovery, Discover, Kill, SaverInv, TypeOK, registry, warehouse
<1>2. torn \subseteq torn' /\ \A b \in Bills : b \notin torn' => job[b] # "commit"
  BY DEF DiscoverSync, DiscoverRecovery, Discover, Kill, In, Stages, Steady, history, upstream
<1>3. \A b \in Bills : job'[b] = "out"
  BY <1>1 DEF AllOut
<1> QED BY <1>1, <1>2, <1>3 DEF SaverInv, OnlyNeeded, KeptIsWritten, Accounted, Working

LEMMA StepSaver ==
    ASSUME TypeOK, Stages, SaverInv, [Next]_vars
    PROVE  SaverInv'
<1>1. CASE Next
  BY <1>1, MainSaver, ThreadSaver, RestSaver DEF Next
<1>2. CASE UNCHANGED vars
  BY <1>2 DEF vars, registry, warehouse, work, history, upstream, SaverInv, OnlyNeeded, KeptIsWritten,
              Accounted, Recovers, Key, Working
<1> QED BY <1>1, <1>2

(* Within a run options stay, failures add up, and a full bill stays full. *)
LEMMA RunKeeps ==
    ASSUME TypeOK, Stages,
           \/ Main \/ Kill \/ UNCHANGED vars
           \/ \E b \in Bills : Download(b) \/ Saver(b) \/ IngestBill(b)
    PROVE  /\ run'.mode = run.mode /\ run'.limit = run.limit
           /\ run.failed \subseteq run'.failed
           /\ \A b \in Bills : Full(b) => Full(b)'
<1>1. CASE Main
  BY <1>1, MainKeeps DEF Full
<1>2. CASE Kill
  BY <1>2 DEF Kill, Full, TypeOK, registry, warehouse
<1>3. CASE UNCHANGED vars
  BY <1>3 DEF vars, Full, registry, warehouse
<1>4. ASSUME NEW b \in Bills, Download(b) \/ Saver(b) \/ IngestBill(b)
      PROVE  /\ run'.mode = run.mode /\ run'.limit = run.limit
             /\ run.failed \subseteq run'.failed
             /\ \A c \in Bills : Full(c) => Full(c)'
  <2>1. CASE Download(b) \/ NotSaved(b) \/ SaveRaises(b)
    BY <2>1 DEF Download, Answer, Break, EndUnread, NotSaved, SaveRaises, Full, registry, warehouse
  <2>2. ASSUME NEW p \in Parts, Keep(b, p)
        PROVE  /\ UNCHANGED <<run, row>>
               /\ \A c \in Bills : files[c] = Parts => files'[c] = Parts
    BY <2>2 DEF Keep, TypeOK, warehouse
  <2>3. ASSUME NEW p \in Parts, Note(b, p)
        PROVE  /\ UNCHANGED <<files, row>> /\ run'.mode = run.mode /\ run'.limit = run.limit
               /\ run.failed \subseteq run'.failed
    BY <2>3 DEF Note, TypeOK, warehouse
  <2>4. CASE Save(b)
    BY <2>4 DEF Save, Full, TypeOK, registry
  <2>5. CASE IngestBill(b)
    BY <2>5 DEF IngestBill, Full, registry
  <2> QED BY <1>4, <2>1, <2>2, <2>3, <2>4, <2>5 DEF Saver, KeepSome, NoteSome, Full
<1> QED BY <1>1, <1>2, <1>3, <1>4

(* The loop passes a bill that was complete, or whose saver is done.       *)
LEMMA MainPasses ==
    ASSUME TypeOK, Stages, SaverInv, Main, NEW c \in Bills,
           run'.mode = "sync", run'.failed = {}, Chosen(c)', Passed(c)'
    PROVE  Passed(c) \/ Full(c)'
<1>1. run.mode = "sync" /\ run.failed = {} /\ Chosen(c)
  BY MainKeeps DEF Chosen
<1>2. Raise => run'.pc = "raising"
  BY DEF Raise, TypeOK
<1>3. CASE ListPage
  <2>1. CASE Raise
    BY <1>2, <2>1 DEF Passed
  <2>2. CASE UNCHANGED <<run, job>>
    BY <2>2 DEF Passed
  <2> QED BY <1>3, <2>1, <2>2 DEF ListPage
<1>4. CASE StartDrain
  <2>1. run'.congress = run.congress /\ run'.pc = "drain" /\ run.pc = "list"
    BY <1>4 DEF StartDrain, TypeOK
  <2>2. CASE Congress(c) < run.congress
    BY <2>1, <2>2 DEF Passed
  <2>3. CASE Congress(c) = run.congress /\ job'[c] \in {"out", "done"}
    <3>1. c \in Selected(run.congress, run.limit)
      BY <1>1, <2>3 DEF Chosen
    <3>2. c \notin Todo
      BY <1>4, <2>3 DEF StartDrain
    <3>3. Complete(c)
      BY <3>1, <3>2 DEF Todo, Selected, BillsOf
    <3>4. Full(c)
      BY <3>3 DEF Complete, Full, SaverInv
    <3> QED BY <3>4, MainKeeps DEF Full
  <2> QED BY <2>1, <2>2, <2>3 DEF Passed
<1>5. CASE Pop
  <2> DEFINE b == Least(InFlight)
  <2>1. CASE Raise
    BY <1>2, <2>1 DEF Passed
  <2>2. CASE /\ job' = [d \in Bills |-> CASE d = b -> "commit"
                                          [] d \in First(1, Waiting) -> "asked"
                                          [] OTHER -> job[d]]
             /\ UNCHANGED run /\ job[b] = "answered"
    <3> HIDE DEF b
    <3>1. c = b => c \notin First(1, Waiting)
      BY <2>2 DEF First, Waiting, In
    <3>2. job'[c] \in {"commit", "asked", job[c]}
      BY <2>2, <3>1
    <3> QED BY <2>2, <3>2 DEF Passed
  <2> QED BY <1>5, <2>1, <2>2 DEF Pop
<1>6. CASE Collect
  <2> DEFINE b == Least(Saving)
  <2>1. CASE Raise
    BY <1>2, <2>1 DEF Passed
  <2>2. CASE job[b] = "done" /\ job' = [job EXCEPT ![b] = "out"] /\ UNCHANGED run
    <3> HIDE DEF b
    <3>1. job'[c] \in {"out", "done"} => job[c] \in {"out", "done"}
      BY <2>2 DEF TypeOK
    <3> QED BY <2>2, <3>1 DEF Passed
  <2> QED BY <1>1, <1>6, <2>1, <2>2 DEF Collect
<1>7. CASE NextCongress
  <2>1. run'.congress = run.congress + 1 /\ run'.pc # "drain" /\ run.pc = "drain" /\ job[c] = "out"
    BY <1>7 DEF NextCongress, TypeOK, AllOut
  <2>2. Congress(c) < run.congress + 1
    BY <2>1 DEF Passed
  <2>3. run.congress \in Nat /\ Congress(c) \in Nat
    BY CongressOfBill DEF TypeOK
  <2>4. Congress(c) < run.congress \/ Congress(c) = run.congress
    BY <2>2, <2>3
  <2> QED BY <2>1, <2>4 DEF Passed
<1>8. CASE RecoverKey \/ Recovered
  BY <1>1, <1>8 DEF RecoverKey, Recovered, Stages
<1>9. CASE Target
  BY <1>9 DEF Target, Passed, TypeOK
<1>10. CASE Checkpoint \/ CheckpointFailure
  BY <1>10 DEF Checkpoint, CheckpointFailure, Close, Passed, TypeOK
<1> QED BY <1>3, <1>4, <1>5, <1>6, <1>7, <1>8, <1>9, <1>10 DEF Main

LEMMA ThreadPasses ==
    ASSUME TypeOK, Stages, SaverInv, NEW b \in Bills, NEW c \in Bills,
           Download(b) \/ Saver(b) \/ IngestBill(b),
           run'.mode = "sync", run'.failed = {}, Passed(c)'
    PROVE  Passed(c) \/ Full(c)'
<1>0. run.mode = "sync" /\ run.failed = {}
  BY RunKeeps
<1>1. CASE Answer(b) \/ Break(b) \/ SaveRaises(b)
  <2>1. UNCHANGED run /\ job'[b] \in {"answered", "broken", "raised"}
    BY <1>1 DEF Answer, Break, SaveRaises, TypeOK
  <2>2. c # b => job'[c] = job[c]
    BY <1>1 DEF Answer, Break, SaveRaises, TypeOK
  <2> QED BY <2>1, <2>2 DEF Passed
<1>7. CASE EndUnread(b)
  BY <1>7 DEF EndUnread, Passed
<1>2. CASE KeepSome(b) \/ IngestBill(b)
  BY <1>2 DEF KeepSome, Keep, IngestBill, Passed, work
<1>3. CASE NoteSome(b)
  BY <1>3 DEF NoteSome, Note, Passed, TypeOK
<1>4. ASSUME SaverSteps(b) PROVE files[b] = Parts
  <2>1. job[b] \in Working /\ got[b] = {} /\ errs[b] = {}
    BY <1>4 DEF SaverSteps, Working
  <2>2. \A p \in Parts : p \in files[b]
    BY <1>0, <2>1 DEF SaverInv, Accounted
  <2> QED BY <2>2 DEF TypeOK
<1>5. CASE Save(b)
  <2>1. Full(b)'
    BY <1>4, <1>5 DEF Save, Full, registry
  <2>2. c # b => job'[c] = job[c]
    BY <1>5 DEF Save, TypeOK
  <2>3. run'.pc = run.pc /\ run'.congress = run.congress
    BY <1>5 DEF Save, TypeOK
  <2> QED BY <2>1, <2>2, <2>3 DEF Passed
<1>6. CASE NotSaved(b)
  <2>1. Detail \in files[b]
    BY <1>4, <1>6, PartAssumption DEF NotSaved
  <2> QED BY <1>0, <1>6, <2>1 DEF NotSaved, Writable, OnlyCosponsors
<1> QED BY <1>1, <1>2, <1>3, <1>5, <1>6, <1>7 DEF Download, Saver

LEMMA StepPassed ==
    ASSUME TypeOK, Stages, SaverInv, PassedIsFull, [Next]_vars
    PROVE  PassedIsFull'
<1>1. CASE \/ \E n \in Limits : DiscoverSync(n)
           \/ \E K \in SUBSET Keys : DiscoverRecovery(K)
  <2>1. run'.congress = 1 /\ run'.pc \in {"list", "recover"}
    BY <1>1 DEF DiscoverSync, DiscoverRecovery, Discover
  <2>2. \A c \in Bills : ~Passed(c)'
    BY <2>1, CongressOfBill DEF Passed
  <2> QED BY <2>2 DEF PassedIsFull
<1>2. CASE ~(\/ \E n \in Limits : DiscoverSync(n)
             \/ \E K \in SUBSET Keys : DiscoverRecovery(K))
  <2> SUFFICES ASSUME run'.mode = "sync", run'.failed = {}, NEW c \in Bills, Chosen(c)', Passed(c)'
               PROVE  Full(c)'
    BY DEF PassedIsFull
  <2>1. \/ Main \/ Kill \/ UNCHANGED vars
        \/ \E b \in Bills : Download(b) \/ Saver(b) \/ IngestBill(b)
    BY <1>2 DEF Next
  <2>2. run.mode = "sync" /\ run.failed = {} /\ Chosen(c) /\ (Full(c) => Full(c)')
    BY <2>1, RunKeeps DEF Chosen
  <2>3. Passed(c) => Full(c)
    BY <2>2 DEF PassedIsFull
  <2>4. CASE Main
    BY <2>2, <2>3, <2>4, MainPasses
  <2>5. CASE Kill
    BY <2>5 DEF Kill, Passed, TypeOK
  <2>6. CASE UNCHANGED vars
    BY <2>2, <2>3, <2>6 DEF vars, work, Passed
  <2>7. CASE \E b \in Bills : Download(b) \/ Saver(b) \/ IngestBill(b)
    BY <2>2, <2>3, <2>7, ThreadPasses
  <2> QED BY <2>1, <2>4, <2>5, <2>6, <2>7
<1> QED BY <1>1, <1>2

(* Only Target records success, when the loop has passed every Congress.   *)
LEMMA StepSucceeded ==
    ASSUME TypeOK, Stages, SaverInv, PassedIsFull, SucceededIsFull, [Next]_vars
    PROVE  SucceededIsFull'
<1> SUFFICES ASSUME ledger'.target = "succeeded"
             PROVE  /\ run'.pc \in {"checkpoint", "idle"}
                    /\ run'.mode = "sync" => \A b \in Bills : Chosen(b)' => Full(b)'
  BY DEF SucceededIsFull
<1>1. \/ Main \/ Kill \/ UNCHANGED vars
      \/ \E b \in Bills : Download(b) \/ Saver(b) \/ IngestBill(b)
  BY DEF Next, DiscoverSync, DiscoverRecovery, Discover
<1>2. /\ run'.mode = run.mode /\ run'.limit = run.limit
      /\ \A b \in Bills : Full(b) => Full(b)'
  BY <1>1, RunKeeps
<1>3. CASE Target
  <2>1. run.failed = {} /\ run.pc = "target" /\ run'.pc = "checkpoint"
    BY <1>3 DEF Target, RecordTarget, TypeOK
  <2>2. ASSUME run.mode = "sync", NEW b \in Bills, Chosen(b) PROVE Full(b)
    <3>1. run.congress = LastCongress + 1
      BY <2>1, <2>2 DEF Stages
    <3>2. Congress(b) < run.congress
      BY <3>1, CongressOfBill
    <3> QED BY <2>1, <2>2, <3>2 DEF PassedIsFull, Passed
  <2> QED BY <1>2, <2>1, <2>2 DEF Chosen
<1>4. CASE ledger'.target = ledger.target /\ run'.pc \in {run.pc, "idle"}
  BY <1>2, <1>4 DEF SucceededIsFull, Chosen
<1>5. CASE Main /\ ~Target
  <2>1. ledger'.target = ledger.target
    BY <1>5 DEF Main, ListPage, StartDrain, Pop, Collect, NextCongress, RecoverKey, Recovered,
                Checkpoint, CheckpointFailure, Close, TypeOK
  <2>2. run.pc \in {"checkpoint", "idle"}
    BY <2>1 DEF SucceededIsFull
  <2>3. run'.pc = "idle"
    BY <1>5, <2>2 DEF Main, ListPage, StartDrain, Pop, Collect, NextCongress, RecoverKey, Recovered,
                      Checkpoint, CheckpointFailure, Close, TypeOK
  <2> QED BY <1>4, <2>1, <2>3
<1>6. CASE Kill \/ UNCHANGED vars
  <2>1. ledger'.target = ledger.target /\ run'.pc \in {run.pc, "idle"}
    BY <1>6 DEF Kill, vars, TypeOK
  <2> QED BY <1>4, <2>1
<1>7. ASSUME NEW b \in Bills, Download(b) \/ Saver(b) \/ IngestBill(b)
      PROVE  ledger'.target = ledger.target /\ run'.pc = run.pc
  BY <1>7 DEF Download, Answer, Break, EndUnread, Saver, KeepSome, Keep, NoteSome, Note, Save, NotSaved, SaveRaises,
              IngestBill, TypeOK
<1> QED BY <1>1, <1>3, <1>4, <1>5, <1>6, <1>7

LEMMA SyncInvariant == Spec => [](TypeOK /\ Stages /\ SyncInv)
<1>1. Init => SyncInv
  BY DEF Init, SyncInv, SaverInv, OnlyNeeded, KeptIsWritten, Accounted, PassedIsFull,
         SucceededIsFull, Passed, AllOut, Nothing, Working
<1>2. TypeOK /\ Stages /\ SyncInv /\ [Next]_vars => SyncInv'
  BY StepSaver, StepPassed, StepSucceeded DEF SyncInv
<1> QED BY <1>1, <1>2, TypeInvariant, PTL DEF Spec

(* A sync recorded as succeeded leaves every bill it covers saved with all *)
(* its parts, or lost by a saver that was interrupted: whatever the order  *)
(* of answers, savers, faults, kills and ingest commands.                  *)
THEOREM SuccessIsSavedUnlessTorn == Spec => []SucceededIsSavedUnlessTorn
<1>1. TypeOK /\ Stages /\ SyncInv => SucceededIsSavedUnlessTorn
  <2> SUFFICES ASSUME TypeOK, Stages, SyncInv, Succeeded, NEW b \in Covered
               PROVE  saved[b] = Parts \/ (Lost(b) /\ b \in torn)
    BY DEF SucceededIsSavedUnlessTorn
  <2>1. PICK k \in Congresses : b \in Selected(k, run.limit)
    BY DEF Covered
  <2>2. b \in Bills /\ Chosen(b)
    BY <2>1 DEF Selected, BillsOf, Chosen
  <2>3. Full(b) /\ run.pc \in {"checkpoint", "idle"}
    BY <2>2 DEF SyncInv, SucceededIsFull, Succeeded
  <2>4. job[b] # "commit"
    BY <2>2, <2>3 DEF Stages, AllOut, Steady
  <2>5. b \notin torn => files[b] \subseteq saved[b]
    BY <2>2, <2>3, <2>4, PartAssumption DEF SyncInv, SaverInv, KeptIsWritten, Full
  <2> QED BY <2>2, <2>3, <2>5 DEF Lost, Full, TypeOK
<1> QED BY <1>1, SyncInvariant, PTL
=============================================================================
