------------------------ MODULE PersonIdentityProofs ------------------------
(***************************************************************************)
(* Theorems about PersonIdentity, for any records, reviews and persons:    *)
(* nobody holds two BioGuide ids, no record is misplaced in silence, what  *)
(* a person owns hangs together by evidence, and votes follow people       *)
(* through every merge.                                                    *)
(***************************************************************************)
EXTENDS PersonIdentity, TLAPS

-----------------------------------------------------------------------------
(* What the queries return                                                 *)

(* A record's linked identifiers are identifiers, its own among them.      *)
LEMMA LinkedKeeps ==
    ASSUME NEW ids \in SUBSET Identifiers
    PROVE  Linked(ids) \subseteq Identifiers /\ ids \subseteq Linked(ids)
BY DEF Linked

(* A record that is matched has one owner, whose BioGuide id, if any, is   *)
(* the record's only one; a record that creates a person has no owner.     *)
LEMMA OutcomeSays ==
    ASSUME NEW ids
    PROVE  /\ Outcome(ids) \in Kind \cup {"matched", "created"}
           /\ Outcome(ids) \in {"matched", "created"} =>
                 \A b, c \in ids \cap Bioguides : b = c
           /\ Outcome(ids) = "matched" =>
                 /\ \A p, q \in Owners(ids) : p = q
                 /\ \A p \in Owners(ids) : Held(p) = {} \/ ids \cap Bioguides \subseteq Held(p)
           /\ Outcome(ids) = "created" => Owners(ids) = {}
<1> DEFINE wanted == ids \cap Bioguides
           owners == Owners(ids)
<1> HIDE DEF owners
<1>1. CASE \E b, c \in wanted : b # c
  BY <1>1 DEF Outcome, Kind, owners
<1>2. CASE ~(\E b, c \in wanted : b # c) /\ \E p, q \in owners : p # q
  BY <1>2 DEF Outcome, Kind, owners
<1>3. CASE /\ ~(\E b, c \in wanted : b # c) /\ ~(\E p, q \in owners : p # q)
           /\ \E p \in owners : Held(p) # {} /\ ~(wanted \subseteq Held(p))
  BY <1>3 DEF Outcome, Kind, owners
<1>4. CASE /\ ~(\E b, c \in wanted : b # c) /\ ~(\E p, q \in owners : p # q)
           /\ ~(\E p \in owners : Held(p) # {} /\ ~(wanted \subseteq Held(p)))
  BY <1>4 DEF Outcome, Kind, owners
<1> QED BY <1>1, <1>2, <1>3, <1>4

(* The same of a legislator group, which also shares its owner with no     *)
(* other group of the file.                                                *)
LEMMA GroupOutcomeSays ==
    ASSUME NEW F, NEW l \in F
    PROVE  /\ GroupOutcome(F, l) \in Kind \cup {"matched", "new"}
           /\ GroupOutcome(F, l) = "matched" =>
                 /\ \A m \in F \ {l} : Owners(Kept(F, m)) # Owners(Kept(F, l))
                 /\ \A p \in Owners(Kept(F, l)) : Held(p) \subseteq {BioguideOf[l]}
           /\ GroupOutcome(F, l) = "new" => Owners(Kept(F, l)) = {}
<1> DEFINE owners == Owners(Kept(F, l))
           shared == \E m \in F \ {l} : Owners(Kept(F, m)) = owners
           other == \E p \in owners : Held(p) \ {BioguideOf[l]} # {}
<1>1. GroupOutcome(F, l) = IF owners = {} THEN "new"
                           ELSE IF \E p, q \in owners : p # q THEN "multiple_owners"
                           ELSE IF shared \/ other THEN "bioguide_mismatch"
                           ELSE "matched"
  BY DEF GroupOutcome
<1> HIDE DEF owners, shared, other
<1>2. CASE owners = {}
  BY <1>1, <1>2 DEF owners
<1>3. CASE owners # {} /\ \E p, q \in owners : p # q
  BY <1>1, <1>3 DEF Kind
<1>4. CASE owners # {} /\ ~(\E p, q \in owners : p # q) /\ (shared \/ other)
  BY <1>1, <1>4 DEF Kind
<1>5. CASE owners # {} /\ ~(\E p, q \in owners : p # q) /\ ~shared /\ ~other
  <2>1. GroupOutcome(F, l) = "matched"
    BY <1>1, <1>5
  <2> QED BY <2>1, <1>5 DEF shared, other, owners
<1> QED BY <1>2, <1>3, <1>4, <1>5

(* The kept identifiers of a file's legislators: each has its BioGuide id  *)
(* and no other, and no identifier is kept twice.                          *)
LEMMA KeptOnce ==
    ASSUME NEW F \in Files, NEW l \in F
    PROVE  /\ l \in Legislators /\ Kept(F, l) \subseteq Identifiers
           /\ Kept(F, l) \cap Bioguides = {BioguideOf[l]}
           /\ \A m \in F, i \in Kept(F, l) : i \in Kept(F, m) => m = l
<1>1. /\ l \in Legislators /\ \A m \in F : m \in Legislators /\ IdsOf[m] \subseteq Identifiers
  BY LegislatorAssumption, IdentityAssumption DEF Records
<1>2. \A m \in F \ {l} : BioguideOf[l] \notin IdsOf[m]
  <2> SUFFICES ASSUME NEW m \in F \ {l}, BioguideOf[l] \in IdsOf[m] PROVE FALSE
    OBVIOUS
  <2>1. BioguideOf[l] \in Bioguides /\ IdsOf[m] \cap Bioguides = {BioguideOf[m]}
    BY <1>1, LegislatorAssumption
  <2>2. BioguideOf[l] # BioguideOf[m]
    BY LegislatorAssumption
  <2> QED BY <2>1, <2>2
<1>3. IdsOf[l] \cap Bioguides = {BioguideOf[l]}
  BY <1>1, LegislatorAssumption
<1>4. Kept(F, l) \cap Bioguides = {BioguideOf[l]}
  BY <1>2, <1>3 DEF Kept
<1>5. \A m \in F, i \in Kept(F, l) : i \in Kept(F, m) => m = l
  BY DEF Kept
<1> QED BY <1>1, <1>4, <1>5 DEF Kept
-----------------------------------------------------------------------------
(* What the steps do to identifiers                                        *)

(* The placements of a legislators file, group by group.                   *)
LEMMA PlacementSays ==
    ASSUME TypeOK, NEW F \in Files, NEW at \in Placements(F), NEW l \in DOMAIN at
    PROVE  /\ l \in F /\ at[l] \in Persons
           /\ \/ /\ GroupOutcome(F, l) = "matched" /\ Owners(Kept(F, l)) = {at[l]}
                 /\ at[l] \in people /\ Held(at[l]) \subseteq {BioguideOf[l]}
              \/ /\ GroupOutcome(F, l) = "new" /\ Owners(Kept(F, l)) = {}
                 /\ at[l] \in Fresh
<1>1. l \in Groups(F, "new") \cup Groups(F, "matched") /\ at[l] \in Persons
  BY DEF Placements
<1>2. CASE l \in Groups(F, "matched")
  <2>1. l \in F /\ GroupOutcome(F, l) = "matched" /\ Owners(Kept(F, l)) = {at[l]}
    BY <1>2 DEF Placements, Groups, SoleOwner
  <2>2. at[l] \in people
    BY <2>1, KeptOnce DEF Owners, TypeOK
  <2> QED BY <1>1, <2>1, <2>2, GroupOutcomeSays
<1>3. CASE l \in Groups(F, "new")
  BY <1>1, <1>3, GroupOutcomeSays DEF Placements, Groups
<1> QED BY <1>1, <1>2, <1>3

(* The new owner map of a legislators load.                                *)
LEMMA PromotedOwner ==
    ASSUME NEW F \in Files, NEW at \in Placements(F), NEW i \in Identifiers,
           owner' = [j \in Identifiers |->
                IF owner[j] = Nobody /\ \E l \in DOMAIN at : j \in Kept(F, l)
                THEN at[CHOOSE l \in DOMAIN at : j \in Kept(F, l)] ELSE owner[j]]
    PROVE  /\ owner[i] # Nobody => owner'[i] = owner[i]
           /\ \A l \in DOMAIN at : i \in Kept(F, l) /\ owner[i] = Nobody => owner'[i] = at[l]
           /\ owner'[i] # owner[i] =>
                 owner[i] = Nobody /\ \E l \in DOMAIN at : i \in Kept(F, l) /\ owner'[i] = at[l]
<1>1. DOMAIN at \subseteq F
  BY DEF Placements, Groups
<1>2. ASSUME NEW l \in DOMAIN at, i \in Kept(F, l)
      PROVE  (CHOOSE m \in DOMAIN at : i \in Kept(F, m)) = l
  <2>1. PICK m \in DOMAIN at : m = CHOOSE n \in DOMAIN at : i \in Kept(F, n)
    BY <1>2
  <2>2. i \in Kept(F, m)
    BY <1>2, <2>1
  <2> QED BY <1>1, <1>2, <2>1, <2>2, KeptOnce
<1> QED BY <1>2

(* No two legislators of a file are placed at the same person.             *)
LEMMA PlacementsDiffer ==
    ASSUME TypeOK, NEW F \in Files, NEW at \in Placements(F),
           NEW l \in DOMAIN at, NEW m \in DOMAIN at, at[l] = at[m]
    PROVE  l = m
<1> SUFFICES ASSUME l # m PROVE FALSE
  OBVIOUS
<1>1. l \in F /\ m \in F
  BY PlacementSays
<1>2. CASE GroupOutcome(F, l) = "matched" /\ GroupOutcome(F, m) = "matched"
  <2>1. Owners(Kept(F, l)) = {at[l]} /\ Owners(Kept(F, m)) = {at[m]}
    BY <1>2, PlacementSays
  <2> QED BY <1>1, <1>2, <2>1, GroupOutcomeSays
<1>3. CASE GroupOutcome(F, l) = "new" /\ GroupOutcome(F, m) = "new"
  BY <1>1, <1>3 DEF Placements, Groups
<1>4. CASE GroupOutcome(F, l) # GroupOutcome(F, m)
  <2>1. \/ at[l] \in people /\ at[m] \in Fresh
        \/ at[l] \in Fresh /\ at[m] \in people
    BY <1>4, PlacementSays
  <2> QED BY <2>1 DEF Fresh
<1> QED BY <1>2, <1>3, <1>4, PlacementSays
-----------------------------------------------------------------------------
(* Type correctness, action by action                                      *)

LEMMA ResolveType ==
    ASSUME TypeOK, NEW r \in Sources, Resolve(r)
    PROVE  TypeOK'
<1> DEFINE ids == Linked(IdsOf[r])
<1>1. r \in Records /\ IdsOf[r] \in SUBSET Identifiers
  BY IdentityAssumption DEF Records
<1>2. ids \subseteq Identifiers
  BY <1>1, LinkedKeeps
<1>3. Owners(ids) \subseteq people
  BY <1>2 DEF Owners, TypeOK
<1>4. seen' \subseteq [subject : Records, ids : SUBSET Identifiers]
  BY <1>1, <1>2 DEF Resolve, TypeOK
<1>5. UNCHANGED <<merged, audit, applied, terms, votes, reviewed, known, voted>>
  BY DEF Resolve, merges
<1> HIDE DEF ids
<1>6. CASE /\ Outcome(ids) \in Kind
           /\ Record({[subject |-> r, kind |-> Outcome(ids), owners |-> Owners(ids)]})
           /\ UNCHANGED identity
  <2>1. open' \subseteq Conflict /\ answered' \subseteq Conflict
    BY <1>1, <1>3, <1>6 DEF Record, Conflict, TypeOK
  <2> QED BY <1>4, <1>5, <1>6, <2>1 DEF TypeOK, identity
<1>7. CASE /\ \E p \in Owners(ids) : Attach(p, ids)
           /\ UNCHANGED <<people, conflicts>>
  <2>1. owner' \in [Identifiers -> people \cup {Nobody}]
    BY <1>3, <1>7 DEF Attach, TypeOK
  <2> QED BY <1>4, <1>5, <1>7, <2>1 DEF TypeOK, conflicts
<1>8. CASE /\ \E p \in Fresh : Attach(p, ids) /\ people' = people \cup {p}
           /\ UNCHANGED conflicts
  <2>1. PICK p \in Fresh : Attach(p, ids) /\ people' = people \cup {p}
    BY <1>8
  <2>2. p \in Persons /\ merged[p] = Nobody
    BY DEF Fresh
  <2>3. owner' \in [Identifiers -> people' \cup {Nobody}]
    BY <2>1 DEF Attach, TypeOK
  <2> QED BY <1>4, <1>5, <1>8, <2>1, <2>2, <2>3 DEF TypeOK, conflicts
<1> QED BY <1>6, <1>7, <1>8 DEF Resolve, ids

LEMMA PromoteType ==
    ASSUME TypeOK, NEW F \in Files, Promote(F)
    PROVE  TypeOK'
<1>1. PICK at \in Placements(F) :
         /\ owner' = [j \in Identifiers |->
                IF owner[j] = Nobody /\ \E l \in DOMAIN at : j \in Kept(F, l)
                THEN at[CHOOSE l \in DOMAIN at : j \in Kept(F, l)] ELSE owner[j]]
         /\ people' = people \cup {at[l] : l \in Groups(F, "new")}
  BY DEF Promote
<1>2. DOMAIN at = Groups(F, "new") \cup Groups(F, "matched")
  BY DEF Placements
<1>3. \A l \in Groups(F, "new") : at[l] \in Persons /\ at[l] \notin people /\ merged[at[l]] = Nobody
  BY <1>2 DEF Placements, Fresh
<1>4. \A l \in DOMAIN at : at[l] \in people'
  <2> SUFFICES ASSUME NEW l \in DOMAIN at PROVE at[l] \in people'
    OBVIOUS
  <2>1. at[l] \in people \/ (l \in F /\ GroupOutcome(F, l) = "new")
    BY PlacementSays
  <2> QED BY <1>1, <2>1 DEF Groups
<1>5. owner' \in [Identifiers -> people' \cup {Nobody}]
  <2> SUFFICES ASSUME NEW i \in Identifiers PROVE owner'[i] \in people' \cup {Nobody}
    BY <1>1
  <2>1. CASE owner'[i] = owner[i]
    BY <1>1, <2>1 DEF TypeOK
  <2>2. CASE owner'[i] # owner[i]
    BY <1>1, <1>4, <2>2, PromotedOwner
  <2> QED BY <2>1, <2>2
<1>6. \A l \in F : l \in Records /\ Kept(F, l) \subseteq Identifiers /\ Owners(Kept(F, l)) \subseteq Persons
  BY KeptOnce DEF Records, Owners, TypeOK
<1>7. open' \subseteq Conflict /\ answered' \subseteq Conflict
  BY <1>6 DEF Promote, Record, Conflict, TypeOK
<1>8. seen' \subseteq [subject : Records, ids : SUBSET Identifiers]
  BY <1>6 DEF Promote, TypeOK
<1>9. UNCHANGED <<merged, audit, applied, terms, votes, reviewed, known, voted>>
  BY DEF Promote, merges
<1> QED BY <1>1, <1>3, <1>5, <1>7, <1>8, <1>9 DEF TypeOK

LEMMA MergeType ==
    ASSUME TypeOK, NEW e \in Exceptions, Merge(e)
    PROVE  TypeOK'
<1> DEFINE s == owner[e.survivor]
           d == owner[e.duplicate]
<1>1. s \in people /\ d \in people /\ s # d /\ e \in reviewed
  BY ExceptionAssumption DEF Merge, TypeOK
<1>2. /\ owner' = [i \in Identifiers |-> Heir(s, d, owner[i])]
      /\ people' = people \ {d}
      /\ audit' = audit \cup {<<v[1], d>> : v \in {w \in votes : w[2] = d /\ <<w[1], s>> \in votes}}
      /\ votes' = {<<v[1], Heir(s, d, v[2])>> : v \in votes}
      /\ merged' = [p \in Persons |-> IF p = d \/ merged[p] = d THEN s ELSE merged[p]]
      /\ terms' = {<<Heir(s, d, x[1]), x[2]>> : x \in terms}
      /\ open' = {c \in open : d \notin c.owners}
      /\ answered' = answered \cup (open \ open')
      /\ applied' = applied \cup {e}
      /\ UNCHANGED <<reviewed, known, seen, voted>>
  BY DEF Merge, RepointVotes, RepointAudit
<1> HIDE DEF s, d
<1>3. s \in people' /\ \A p \in people \cup {Nobody} : Heir(s, d, p) \in people' \cup {Nobody}
  BY <1>1, <1>2 DEF Heir
<1>4. \A p \in people : Heir(s, d, p) \in people'
  BY <1>1, <1>2 DEF Heir
<1>5. owner' \in [Identifiers -> people' \cup {Nobody}]
  BY <1>2, <1>3 DEF TypeOK
<1>6. merged' \in [Persons -> people' \cup {Nobody}]
  BY <1>1, <1>2, <1>3 DEF TypeOK
<1>7. terms' \subseteq people' \X Terms
  BY <1>2, <1>4 DEF TypeOK
<1>8. votes' \subseteq Rolls \X people'
  BY <1>2, <1>4 DEF TypeOK
<1>9. audit' \subseteq Rolls \X Persons
  <2>1. \A v \in votes : <<v[1], d>> \in Rolls \X Persons
    BY <1>1 DEF TypeOK
  <2>2. \A a \in audit' : a \in audit \/ \E v \in votes : a = <<v[1], d>>
    BY <1>2
  <2>3. audit \subseteq Rolls \X Persons
    BY DEF TypeOK
  <2> QED BY <2>1, <2>2, <2>3
<1>10. \A p \in people' : merged'[p] = Nobody
  <2> SUFFICES ASSUME NEW p \in people' PROVE merged'[p] = Nobody
    OBVIOUS
  <2>1. p \in people /\ p # d /\ p \in Persons /\ merged[p] = Nobody /\ d # Nobody
    BY <1>1, <1>2, IdentityAssumption DEF TypeOK
  <2> QED BY <1>2, <2>1
<1>11. open' \subseteq Conflict /\ answered' \subseteq Conflict /\ people' \subseteq Persons
  BY <1>2 DEF TypeOK
<1> QED BY <1>1, <1>2, <1>5, <1>6, <1>7, <1>8, <1>9, <1>10, <1>11 DEF TypeOK

LEMMA OtherType ==
    ASSUME TypeOK,
           \/ \E e \in Exceptions : Review(e)
           \/ \E i \in TermIds, t \in Terms : Seat(i, t)
           \/ ReadMap
           \/ \E i \in VoteIds, roll \in Rolls : Vote(i, roll)
    PROVE  TypeOK'
<1>1. ASSUME NEW e \in Exceptions, Review(e) PROVE TypeOK'
  BY <1>1 DEF Review, TypeOK, identity, conflicts, merges
<1>2. ASSUME NEW i \in TermIds, NEW t \in Terms, Seat(i, t) PROVE TypeOK'
  <2>1. owner[i] \in people
    BY <1>2, IdentityAssumption DEF Seat, TypeOK
  <2> QED BY <1>2, <2>1 DEF Seat, TypeOK, identity, conflicts, merges
<1>3. ASSUME ReadMap PROVE TypeOK'
  <2>1. known' \in OwnerMap
    BY <1>3, IdentityAssumption DEF ReadMap, TypeOK, OwnerMap
  <2> QED BY <1>3, <2>1 DEF ReadMap, TypeOK, identity, conflicts, merges
<1>4. ASSUME NEW i \in VoteIds, NEW roll \in Rolls, Vote(i, roll) PROVE TypeOK'
  BY <1>4 DEF Vote, TypeOK, identity, conflicts, merges
<1> QED BY <1>1, <1>2, <1>3, <1>4

(* Every identifier names a person there is, every conflict and every      *)
(* membership, vote and audit row is well formed, and a merged person is   *)
(* gone and its recorded survivor is not.                                  *)
THEOREM TypeCorrect == Spec => []TypeOK
<1>1. Init => TypeOK
  BY DEF Init, TypeOK, OwnerMap
<1>2. TypeOK /\ [Next]_vars => TypeOK'
  <2> SUFFICES ASSUME TypeOK, [Next]_vars PROVE TypeOK'
    OBVIOUS
  <2>1. CASE Next
    BY <2>1, ResolveType, PromoteType, MergeType, OtherType DEF Next
  <2>2. CASE UNCHANGED vars
    BY <2>2 DEF TypeOK, vars, identity, conflicts, merges
  <2> QED BY <2>1, <2>2
<1> QED BY <1>1, <1>2, PTL DEF Spec
-----------------------------------------------------------------------------
(* One BioGuide id per person                                              *)

(* What a resolved record does to the owner map: nothing, or the record's  *)
(* unowned identifiers go to one person, who owns the others.              *)
LEMMA ResolvedOwner ==
    ASSUME TypeOK, NEW r \in Sources, Resolve(r)
    PROVE  LET ids == Linked(IdsOf[r])
           IN  \/ UNCHANGED <<owner, people>> /\ \E c \in open' : c.subject = r
               \/ \E p \in people' :
                     /\ Attach(p, ids)
                     /\ \A i \in ids : owner[i] \in {Nobody, p}
                     /\ \A b, c \in ids \cap Bioguides : b = c
                     /\ (p \notin people \/ Held(p) = {} \/ ids \cap Bioguides \subseteq Held(p))
                     /\ people' = people \cup {p}
                     /\ (p \notin people \/ p \in Owners(ids))
<1> DEFINE ids == Linked(IdsOf[r])
<1>1. ids \subseteq Identifiers
  BY LinkedKeeps, IdentityAssumption DEF Records
<1>2. \A i \in ids : owner[i] = Nobody \/ owner[i] \in Owners(ids)
  BY DEF Owners
<1>3. Owners(ids) \subseteq people
  BY <1>1 DEF Owners, TypeOK
<1> HIDE DEF ids
<1>4. CASE /\ Outcome(ids) \in Kind
           /\ Record({[subject |-> r, kind |-> Outcome(ids), owners |-> Owners(ids)]})
           /\ UNCHANGED identity
  <2>1. [subject |-> r, kind |-> Outcome(ids), owners |-> Owners(ids)] \in open'
    BY <1>4 DEF Record
  <2> QED BY <1>4, <2>1 DEF identity, ids
<1>5. CASE /\ Outcome(ids) = "matched"
           /\ \E p \in Owners(ids) : Attach(p, ids)
           /\ UNCHANGED <<people, conflicts>>
  <2>1. PICK p \in Owners(ids) : Attach(p, ids)
    BY <1>5
  <2>2. p \in people /\ p \in people' /\ people' = people \cup {p}
    BY <1>3, <1>5, <2>1
  <2>3. \A q \in Owners(ids) : q = p
    BY <1>5, OutcomeSays
  <2>4. \A i \in ids : owner[i] \in {Nobody, p}
    BY <1>2, <2>3
  <2>5. /\ \A b, c \in ids \cap Bioguides : b = c
        /\ Held(p) = {} \/ ids \cap Bioguides \subseteq Held(p)
    BY <1>5, OutcomeSays
  <2> QED BY <2>1, <2>2, <2>4, <2>5 DEF ids
<1>6. CASE /\ Outcome(ids) = "created"
           /\ \E p \in Fresh : Attach(p, ids) /\ people' = people \cup {p}
  <2>1. PICK p \in Fresh : Attach(p, ids) /\ people' = people \cup {p}
    BY <1>6
  <2>2. p \notin people /\ p \in people'
    BY <2>1 DEF Fresh
  <2>3. \A i \in ids : owner[i] \in {Nobody, p}
    BY <1>2, <1>6, OutcomeSays
  <2>4. \A b, c \in ids \cap Bioguides : b = c
    BY <1>6, OutcomeSays
  <2> QED BY <2>1, <2>2, <2>3, <2>4 DEF ids
<1> QED BY <1>4, <1>5, <1>6 DEF Resolve, ids

LEMMA ResolveBioguide ==
    ASSUME TypeOK, OneBioguide, NEW r \in Sources, Resolve(r)
    PROVE  OneBioguide'
<1> DEFINE ids == Linked(IdsOf[r])
<1> SUFFICES ASSUME NEW p \in people',
                    Attach(p, ids),
                    \A b, c \in ids \cap Bioguides : b = c,
                    p \notin people \/ Held(p) = {} \/ ids \cap Bioguides \subseteq Held(p)
             PROVE  OneBioguide'
  BY ResolvedOwner DEF OneBioguide
<1> HIDE DEF ids
<1> SUFFICES ASSUME NEW b \in Bioguides, NEW c \in Bioguides,
                    owner'[b] = owner'[c], owner'[b] # Nobody
             PROVE  b = c
  BY DEF OneBioguide
<1>0. b \in Identifiers /\ c \in Identifiers
  BY IdentityAssumption
<1>1. CASE owner'[b] = owner[b] /\ owner'[c] = owner[c]
  BY <1>1 DEF OneBioguide
<1>2. ASSUME NEW x \in Bioguides, NEW y \in Bioguides,
             owner'[x] # owner[x], owner'[x] = owner'[y]
      PROVE  x = y
  <2>0. x \in Identifiers /\ y \in Identifiers
    BY IdentityAssumption
  <2>1. x \in ids /\ owner[x] = Nobody /\ owner'[x] = p
    BY <1>2, <2>0 DEF Attach
  <2>2. CASE owner'[y] # owner[y]
    BY <2>0, <2>1, <2>2 DEF Attach
  <2>3. CASE owner'[y] = owner[y]
    <3>1. owner[y] = p /\ p \in Persons /\ p # Nobody
      BY <1>2, <2>1, <2>3, ResolveType, IdentityAssumption DEF TypeOK
    <3>2. p \in people
      BY <2>0, <3>1 DEF TypeOK
    <3>3. x \in Held(p)
      BY <2>1, <3>1, <3>2 DEF Held
    <3> QED BY <2>1, <3>1, <3>3 DEF Held
  <2> QED BY <2>2, <2>3
<1>3. CASE owner'[b] # owner[b]
  BY <1>2, <1>3
<1>4. CASE owner'[c] # owner[c]
  BY <1>2, <1>4
<1> QED BY <1>1, <1>3, <1>4

LEMMA PromoteBioguide ==
    ASSUME TypeOK, OneBioguide, NEW F \in Files, Promote(F)
    PROVE  OneBioguide'
<1>1. PICK at \in Placements(F) :
         owner' = [j \in Identifiers |->
                IF owner[j] = Nobody /\ \E l \in DOMAIN at : j \in Kept(F, l)
                THEN at[CHOOSE l \in DOMAIN at : j \in Kept(F, l)] ELSE owner[j]]
  BY DEF Promote
<1>2. \A x \in Bioguides : x \in Identifiers
  BY IdentityAssumption
<1>3. \A x \in Bioguides : owner'[x] # owner[x] =>
         \E l \in DOMAIN at : x = BioguideOf[l] /\ owner[x] = Nobody /\ owner'[x] = at[l]
  <2> SUFFICES ASSUME NEW x \in Bioguides, owner'[x] # owner[x]
               PROVE  \E l \in DOMAIN at :
                         x = BioguideOf[l] /\ owner[x] = Nobody /\ owner'[x] = at[l]
    OBVIOUS
  <2>1. owner[x] = Nobody /\ \E l \in DOMAIN at : x \in Kept(F, l) /\ owner'[x] = at[l]
    BY <1>1, <1>2, PromotedOwner
  <2>2. PICK l \in DOMAIN at : x \in Kept(F, l) /\ owner'[x] = at[l]
    BY <2>1
  <2>3. l \in F
    BY PlacementSays
  <2>4. x = BioguideOf[l]
    BY <2>2, <2>3, KeptOnce
  <2> QED BY <2>1, <2>2, <2>4
<1>4. ASSUME NEW x \in Bioguides, NEW y \in Bioguides,
             owner'[x] # owner[x], owner'[x] = owner'[y]
      PROVE  x = y
  <2>1. PICK l \in DOMAIN at : x = BioguideOf[l] /\ owner[x] = Nobody /\ owner'[x] = at[l]
    BY <1>3, <1>4
  <2>2. CASE owner'[y] # owner[y]
    <3>1. PICK m \in DOMAIN at : y = BioguideOf[m] /\ owner'[y] = at[m]
      BY <1>3, <2>2
    <3>2. at[l] = at[m]
      BY <1>4, <2>1, <3>1
    <3> QED BY <2>1, <3>1, <3>2, PlacementsDiffer
  <2>3. CASE owner'[y] = owner[y]
    <3>1. owner[y] = at[l] /\ at[l] \in Persons
      BY <1>4, <2>1, <2>3, PlacementSays
    <3>2. at[l] \in people
      BY <1>2, <3>1, IdentityAssumption DEF TypeOK
    <3>3. Held(at[l]) \subseteq {BioguideOf[l]}
      BY <3>2, PlacementSays DEF Fresh
    <3> QED BY <2>1, <3>1, <3>3 DEF Held
  <2> QED BY <2>2, <2>3
<1> SUFFICES ASSUME NEW b \in Bioguides, NEW c \in Bioguides,
                    owner'[b] = owner'[c], owner'[b] # Nobody
             PROVE  b = c
  BY DEF OneBioguide
<1>5. CASE owner'[b] = owner[b] /\ owner'[c] = owner[c]
  BY <1>5 DEF OneBioguide
<1>6. CASE owner'[b] # owner[b]
  BY <1>4, <1>6
<1>7. CASE owner'[c] # owner[c]
  BY <1>4, <1>7
<1> QED BY <1>5, <1>6, <1>7

LEMMA MergeBioguide ==
    ASSUME TypeOK, OneBioguide, NEW e \in Exceptions, Merge(e)
    PROVE  OneBioguide'
<1> DEFINE s == owner[e.survivor]
           d == owner[e.duplicate]
<1>1. /\ s # Nobody /\ d # Nobody /\ s # d
      /\ Held(s) = {} \/ Held(d) \subseteq Held(s)
      /\ owner' = [i \in Identifiers |-> Heir(s, d, owner[i])]
  BY DEF Merge, Mergeable
<1> HIDE DEF s, d
<1> SUFFICES ASSUME NEW b \in Bioguides, NEW c \in Bioguides,
                    owner'[b] = owner'[c], owner'[b] # Nobody
             PROVE  b = c
  BY DEF OneBioguide
<1>2. /\ owner'[b] = Heir(s, d, owner[b]) /\ owner'[c] = Heir(s, d, owner[c])
  BY <1>1, IdentityAssumption
<1>3. ASSUME NEW x \in Bioguides, NEW y \in Bioguides, owner[x] = s, owner[y] = d
      PROVE  FALSE
  <2>1. x \in Held(s) /\ y \in Held(d) /\ y \notin Held(s)
    BY <1>1, <1>3 DEF Held
  <2> QED BY <1>1, <2>1
<1>4. owner[b] = owner[c] /\ owner[b] # Nobody
  BY <1>1, <1>2, <1>3 DEF Heir
<1> QED BY <1>4 DEF OneBioguide

(* Nobody ever holds two BioGuide ids.                                     *)
THEOREM OneBioguideEach == Spec => []OneBioguide
<1>1. Init => OneBioguide
  BY IdentityAssumption DEF Init, OneBioguide
<1>2. TypeOK /\ OneBioguide /\ [Next]_vars => OneBioguide'
  <2> SUFFICES ASSUME TypeOK, OneBioguide, [Next]_vars PROVE OneBioguide'
    OBVIOUS
  <2>1. CASE \E r \in Sources : Resolve(r)
    BY <2>1, ResolveBioguide
  <2>2. CASE \E F \in Files : Promote(F)
    BY <2>2, PromoteBioguide
  <2>3. CASE \E e \in Exceptions : Merge(e)
    BY <2>3, MergeBioguide
  <2>4. CASE \/ \E e \in Exceptions : Review(e)
             \/ \E i \in TermIds, t \in Terms : Seat(i, t)
             \/ ReadMap
             \/ \E i \in VoteIds, roll \in Rolls : Vote(i, roll)
             \/ UNCHANGED vars
    <3>1. owner' = owner
      BY <2>4 DEF Review, Seat, ReadMap, Vote, vars, identity
    <3> QED BY <3>1 DEF OneBioguide
  <2> QED BY <2>1, <2>2, <2>3, <2>4 DEF Next
<1> QED BY <1>1, <1>2, TypeCorrect, PTL DEF Spec
-----------------------------------------------------------------------------
(* Votes follow people                                                     *)

LEMMA MergeVotes ==
    ASSUME TypeOK, VotesFollowPeople, NEW e \in Exceptions, Merge(e)
    PROVE  VotesFollowPeople'
<1> DEFINE s == owner[e.survivor]
           d == owner[e.duplicate]
<1>1. s \in people /\ d \in people /\ s # Nobody /\ d # Nobody /\ s # d
  BY ExceptionAssumption DEF Merge, TypeOK
<1>2. /\ votes' = {<<v[1], Heir(s, d, v[2])>> : v \in votes}
      /\ merged' = [p \in Persons |-> IF p = d \/ merged[p] = d THEN s ELSE merged[p]]
      /\ voted' = voted
  BY DEF Merge, RepointVotes, RepointAudit
<1> HIDE DEF s, d
<1> SUFFICES ASSUME NEW v \in voted
             PROVE  <<v[1], Now(v[2])'>> \in votes'
  BY <1>2 DEF VotesFollowPeople
<1>3. v[2] \in Persons /\ <<v[1], Now(v[2])>> \in votes
  BY DEF TypeOK, VotesFollowPeople
<1>4. merged[d] = Nobody
  BY <1>1 DEF TypeOK
<1>5. Now(v[2])' = Heir(s, d, Now(v[2]))
  BY <1>1, <1>2, <1>3, <1>4 DEF Now, Heir
<1>6. <<v[1], Heir(s, d, Now(v[2]))>> \in votes'
  BY <1>2, <1>3
<1> QED BY <1>5, <1>6

(* Nobody's vote is lost: wherever merges have taken a person, every vote  *)
(* ever written for the person is found there.                             *)
THEOREM VotesFollow == Spec => []VotesFollowPeople
<1>1. Init => VotesFollowPeople
  BY DEF Init, VotesFollowPeople
<1>2. TypeOK /\ VotesFollowPeople /\ [Next]_vars => VotesFollowPeople'
  <2> SUFFICES ASSUME TypeOK, VotesFollowPeople, [Next]_vars PROVE VotesFollowPeople'
    OBVIOUS
  <2>1. CASE \E e \in Exceptions : Merge(e)
    BY <2>1, MergeVotes
  <2>2. CASE \E i \in VoteIds, roll \in Rolls : Vote(i, roll)
    <3>1. PICK i \in VoteIds, roll \in Rolls : Vote(i, roll)
      BY <2>2
    <3>2. /\ votes' = votes \cup {<<roll, known[i]>>} /\ merged' = merged
          /\ voted' = voted \cup {<<roll, known[i]>>} /\ known[i] \in people
      BY <3>1 DEF Vote, merges
    <3>3. merged[known[i]] = Nobody
      BY <3>2 DEF TypeOK
    <3> QED BY <3>2, <3>3 DEF VotesFollowPeople, Now
  <2>3. CASE \/ \E r \in Sources : Resolve(r)
             \/ \E F \in Files : Promote(F)
             \/ \E e \in Exceptions : Review(e)
             \/ \E i \in TermIds, t \in Terms : Seat(i, t)
             \/ ReadMap
             \/ UNCHANGED vars
    <3>1. UNCHANGED <<votes, voted, merged>>
      BY <2>3 DEF Resolve, Promote, Review, Seat, ReadMap, vars, merges
    <3> QED BY <3>1 DEF VotesFollowPeople, Now
  <2> QED BY <2>1, <2>2, <2>3 DEF Next
<1> QED BY <1>1, <1>2, TypeCorrect, PTL DEF Spec
-----------------------------------------------------------------------------
(* Nothing is misplaced in silence                                         *)

(* What is placed stays placed: owners change by attaching what nobody has *)
(* or by handing a merged person's identifiers to the survivor.            *)
LEMMA AttachKeepsPlaced ==
    ASSUME TypeOK, NEW ids \in SUBSET Identifiers, Placed(ids),
           people \subseteq people',
           \A i \in Identifiers : owner[i] # Nobody => owner'[i] = owner[i]
    PROVE  Placed(ids)'
<1>1. PICK p \in people : \A i \in ids : owner[i] = p
  BY DEF Placed
<1>2. p # Nobody
  BY IdentityAssumption DEF TypeOK
<1> QED BY <1>1, <1>2 DEF Placed

LEMMA MergeKeepsPlaced ==
    ASSUME TypeOK, NEW e \in Exceptions, Merge(e), NEW ids \in SUBSET Identifiers, Placed(ids)
    PROVE  Placed(ids)'
<1> DEFINE s == owner[e.survivor]
           d == owner[e.duplicate]
<1>1. s \in people /\ s # d
  BY ExceptionAssumption DEF Merge, TypeOK
<1>2. /\ owner' = [i \in Identifiers |-> Heir(s, d, owner[i])]
      /\ people' = people \ {d}
  BY DEF Merge
<1> HIDE DEF s, d
<1>3. PICK p \in people : \A i \in ids : owner[i] = p
  BY DEF Placed
<1>4. Heir(s, d, p) \in people'
  BY <1>1, <1>2 DEF Heir
<1>5. \A i \in ids : owner'[i] = Heir(s, d, p)
  BY <1>2, <1>3
<1> QED BY <1>4, <1>5 DEF Placed

LEMMA StepKeepsPlaced ==
    ASSUME TypeOK, [Next]_vars, NEW ids \in SUBSET Identifiers, Placed(ids)
    PROVE  Placed(ids)'
<1>1. ASSUME NEW r \in Sources, Resolve(r) PROVE Placed(ids)'
  <2>1. people \subseteq people' /\ \A i \in Identifiers : owner[i] # Nobody => owner'[i] = owner[i]
    BY <1>1, ResolvedOwner DEF Attach
  <2> QED BY <2>1, AttachKeepsPlaced
<1>2. ASSUME NEW F \in Files, Promote(F) PROVE Placed(ids)'
  <2>1. PICK at \in Placements(F) :
         /\ owner' = [j \in Identifiers |->
                IF owner[j] = Nobody /\ \E l \in DOMAIN at : j \in Kept(F, l)
                THEN at[CHOOSE l \in DOMAIN at : j \in Kept(F, l)] ELSE owner[j]]
         /\ people' = people \cup {at[l] : l \in Groups(F, "new")}
    BY <1>2 DEF Promote
  <2>2. people \subseteq people' /\ \A i \in Identifiers : owner[i] # Nobody => owner'[i] = owner[i]
    BY <2>1
  <2> QED BY <2>2, AttachKeepsPlaced
<1>3. ASSUME NEW e \in Exceptions, Merge(e) PROVE Placed(ids)'
  BY <1>3, MergeKeepsPlaced
<1>4. CASE \/ \E e \in Exceptions : Review(e)
           \/ \E i \in TermIds, t \in Terms : Seat(i, t)
           \/ ReadMap
           \/ \E i \in VoteIds, roll \in Rolls : Vote(i, roll)
           \/ UNCHANGED vars
  <2>1. UNCHANGED identity
    BY <1>4 DEF Review, Seat, ReadMap, Vote, vars
  <2> QED BY <2>1 DEF identity, Placed
<1> QED BY <1>1, <1>2, <1>3, <1>4 DEF Next

(* Conflicts are answered, never dropped.                                  *)
LEMMA StepKeepsConflicts ==
    ASSUME [Next]_vars
    PROVE  open \cup answered \subseteq open' \cup answered'
<1>1. ASSUME NEW new, Record(new) PROVE open \cup answered \subseteq open' \cup answered'
  BY <1>1 DEF Record
<1>2. CASE \E r \in Sources : Resolve(r)
  BY <1>1, <1>2 DEF Resolve, conflicts
<1>3. CASE \E F \in Files : Promote(F)
  BY <1>1, <1>3 DEF Promote
<1>4. CASE \E e \in Exceptions : Merge(e)
  <2>1. answered' = answered \cup (open \ open')
    BY <1>4 DEF Merge
  <2> QED BY <2>1
<1>5. CASE \/ \E e \in Exceptions : Review(e)
           \/ \E i \in TermIds, t \in Terms : Seat(i, t)
           \/ ReadMap
           \/ \E i \in VoteIds, roll \in Rolls : Vote(i, roll)
           \/ UNCHANGED vars
  BY <1>5 DEF Review, Seat, ReadMap, Vote, vars, conflicts
<1> QED BY <1>2, <1>3, <1>4, <1>5 DEF Next

(* What a step records as seen is placed, or has its conflict, at once.    *)
LEMMA ResolveSettles ==
    ASSUME TypeOK, NEW r \in Sources, Resolve(r)
    PROVE  Placed(Linked(IdsOf[r]))' \/ \E c \in open' : c.subject = r
<1> DEFINE ids == Linked(IdsOf[r])
<1>1. ids \subseteq Identifiers
  BY LinkedKeeps, IdentityAssumption DEF Records
<1>2. UNCHANGED <<reviewed>> /\ ids' = ids
  BY DEF Resolve, Linked, Closed
<1>3. ASSUME NEW p \in people', Attach(p, ids), \A i \in ids : owner[i] \in {Nobody, p}
      PROVE  Placed(ids)'
  <2>1. \A i \in ids : owner'[i] = p
    BY <1>1, <1>3 DEF Attach
  <2> QED BY <1>2, <2>1 DEF Placed
<1> HIDE DEF ids
<1> QED BY <1>3, ResolvedOwner DEF ids

LEMMA PromotedKept ==
    ASSUME TypeOK, NEW F \in Files, NEW at \in Placements(F), NEW l \in DOMAIN at,
           owner' = [j \in Identifiers |->
                IF owner[j] = Nobody /\ \E m \in DOMAIN at : j \in Kept(F, m)
                THEN at[CHOOSE m \in DOMAIN at : j \in Kept(F, m)] ELSE owner[j]]
    PROVE  \A i \in Kept(F, l) : i \in Identifiers /\ owner'[i] = at[l]
<1> SUFFICES ASSUME NEW i \in Kept(F, l) PROVE i \in Identifiers /\ owner'[i] = at[l]
  OBVIOUS
<1>1. i \in Identifiers
  BY KeptOnce, PlacementSays
<1>2. CASE owner[i] = Nobody
  BY <1>1, <1>2, PromotedOwner
<1>3. CASE owner[i] # Nobody
  <2>1. owner[i] \in Owners(Kept(F, l))
    BY <1>3 DEF Owners
  <2>2. owner[i] = at[l]
    BY <2>1, PlacementSays
  <2> QED BY <1>1, <1>3, <2>2, PromotedOwner
<1> QED BY <1>2, <1>3

LEMMA PromoteSettles ==
    ASSUME TypeOK, NEW F \in Files, Promote(F), NEW l \in F
    PROVE  Placed(Kept(F, l))' \/ \E c \in open' : c.subject = l
<1>1. PICK at \in Placements(F) :
         /\ owner' = [j \in Identifiers |->
                IF owner[j] = Nobody /\ \E m \in DOMAIN at : j \in Kept(F, m)
                THEN at[CHOOSE m \in DOMAIN at : j \in Kept(F, m)] ELSE owner[j]]
         /\ people' = people \cup {at[m] : m \in Groups(F, "new")}
  BY DEF Promote
<1>2. CASE GroupOutcome(F, l) \in Kind
  <2>1. [subject |-> l, kind |-> GroupOutcome(F, l), owners |-> Owners(Kept(F, l))] \in open'
    BY <1>2 DEF Promote, Record
  <2> QED BY <2>1
<1>3. CASE GroupOutcome(F, l) \in {"new", "matched"}
  <2>1. l \in DOMAIN at
    BY <1>3 DEF Placements, Groups
  <2>2. at[l] \in people'
    BY <1>1, <2>1, PlacementSays DEF Groups
  <2>3. \A i \in Kept(F, l) : i \in Identifiers /\ owner'[i] = at[l]
    BY <1>1, <2>1, PromotedKept
  <2>4. Kept(F, l)' = Kept(F, l)
    BY DEF Kept
  <2> QED BY <2>2, <2>3, <2>4 DEF Placed
<1> QED BY <1>2, <1>3, GroupOutcomeSays

(* Every record ever taken up is placed, or has a conflict on file.        *)
THEOREM NothingMisplaced == Spec => []NothingMisplacedInSilence
<1>1. Init => NothingMisplacedInSilence
  BY DEF Init, NothingMisplacedInSilence
<1>2. TypeOK /\ NothingMisplacedInSilence /\ [Next]_vars => NothingMisplacedInSilence'
  <2> SUFFICES ASSUME TypeOK, NothingMisplacedInSilence, [Next]_vars, NEW x \in seen'
               PROVE  Placed(x.ids)' \/ \E c \in open' \cup answered' : c.subject = x.subject
    BY DEF NothingMisplacedInSilence
  <2>1. CASE x \in seen
    <3>1. x.ids \in SUBSET Identifiers
      BY <2>1 DEF TypeOK
    <3>2. Placed(x.ids) \/ \E c \in open \cup answered : c.subject = x.subject
      BY <2>1 DEF NothingMisplacedInSilence
    <3> QED BY <3>1, <3>2, StepKeepsPlaced, StepKeepsConflicts
  <2>2. CASE x \notin seen
    <3>1. ASSUME NEW r \in Sources, Resolve(r)
          PROVE  Placed(x.ids)' \/ \E c \in open' \cup answered' : c.subject = x.subject
      <4>1. x = [subject |-> r, ids |-> Linked(IdsOf[r])]
        BY <2>2, <3>1 DEF Resolve
      <4>2. reviewed' = reviewed /\ Linked(IdsOf[r])' = Linked(IdsOf[r])
        BY <3>1 DEF Resolve, Linked, Closed
      <4>3. Placed(Linked(IdsOf[r]))' \/ \E c \in open' : c.subject = r
        BY <3>1, ResolveSettles
      <4> QED BY <4>1, <4>2, <4>3 DEF Placed
    <3>2. ASSUME NEW F \in Files, Promote(F)
          PROVE  Placed(x.ids)' \/ \E c \in open' \cup answered' : c.subject = x.subject
      <4>1. PICK l \in F : x = [subject |-> l, ids |-> Kept(F, l)]
        BY <2>2, <3>2 DEF Promote
      <4>2. Kept(F, l)' = Kept(F, l)
        BY DEF Kept
      <4>3. Placed(Kept(F, l))' \/ \E c \in open' : c.subject = l
        BY <3>2, PromoteSettles
      <4> QED BY <4>1, <4>2, <4>3 DEF Placed
    <3>3. CASE \/ \E e \in Exceptions : Review(e) \/ Merge(e)
               \/ \E i \in TermIds, t \in Terms : Seat(i, t)
               \/ ReadMap
               \/ \E i \in VoteIds, roll \in Rolls : Vote(i, roll)
               \/ UNCHANGED vars
      <4>1. seen' = seen
        BY <3>3 DEF Review, Merge, Seat, ReadMap, Vote, vars
      <4> QED BY <2>2, <4>1
    <3> QED BY <3>1, <3>2, <3>3 DEF Next
  <2> QED BY <2>1, <2>2
<1> QED BY <1>1, <1>2, TypeCorrect, PTL DEF Spec
-----------------------------------------------------------------------------
(* Identity is evidence                                                    *)

(* A set of identifiers hangs together by links within it.                 *)
Tied(links, A) ==
    \A S \in (SUBSET A) \ {{}, A} :
        \E g \in links : g \subseteq A /\ g \cap S # {} /\ g \ S # {}

(* Two sets that hang together, and a link that meets both.                *)
LEMMA JoinTied ==
    ASSUME NEW links, NEW A, NEW B, NEW h \in links,
           Tied(links, A), Tied(links, B),
           h \subseteq A \cup B, h \cap A # {}, h \cap B # {}
    PROVE  Tied(links, A \cup B)
<1> SUFFICES ASSUME NEW S \in SUBSET (A \cup B), S # {}, S # A \cup B
             PROVE  \E g \in links : g \subseteq A \cup B /\ g \cap S # {} /\ g \ S # {}
  BY DEF Tied
<1>1. ASSUME NEW C, Tied(links, C), C \subseteq A \cup B, S \cap C # {}, S \cap C # C
      PROVE  \E g \in links : g \subseteq A \cup B /\ g \cap S # {} /\ g \ S # {}
  <2>1. S \cap C \in (SUBSET C) \ {{}, C}
    BY <1>1
  <2>2. PICK g \in links : g \subseteq C /\ g \cap (S \cap C) # {} /\ g \ (S \cap C) # {}
    BY <1>1, <2>1 DEF Tied
  <2>3. g \subseteq A \cup B /\ g \cap S # {} /\ g \ S # {}
    BY <1>1, <2>2
  <2> QED BY <2>3
<1>2. CASE S \cap A \in {{}, A} /\ S \cap B \in {{}, B}
  <2>1. h \cap S # {} /\ h \ S # {}
    BY <1>2
  <2> QED BY <2>1
<1>3. CASE S \cap A \notin {{}, A}
  BY <1>1, <1>3
<1>4. CASE S \cap B \notin {{}, B}
  BY <1>1, <1>4
<1> QED BY <1>2, <1>3, <1>4

(* A link hangs together, and more links do no harm.                       *)
LEMMA LinkTied ==
    ASSUME NEW links, NEW g \in links
    PROVE  Tied(links, g)
BY DEF Tied

LEMMA MoreTied ==
    ASSUME NEW links, NEW more, links \subseteq more, NEW A, Tied(links, A)
    PROVE  Tied(more, A)
BY DEF Tied

(* The property, as what everybody owns: a link that crosses a set of what *)
(* a person owns lies within what the person owns.                         *)
EvidencePlaced == \A g \in Evidence : Placed(g)
PeopleTied == \A p \in people : Tied(Evidence, Owned(p))

LEMMA IdentityTied ==
    ASSUME TypeOK
    PROVE  IdentityIsEvidence <=> EvidencePlaced /\ PeopleTied
<1>1. ASSUME EvidencePlaced, NEW p \in people, NEW S \in SUBSET Owned(p),
             NEW g \in Evidence, g \cap S # {}
      PROVE  g \subseteq Owned(p)
  <2>1. PICK q \in people : \A i \in g : owner[i] = q
    BY <1>1 DEF EvidencePlaced, Placed
  <2>2. PICK i \in g : i \in S
    BY <1>1
  <2>3. q = p
    BY <2>1, <2>2 DEF Owned
  <2>4. g \subseteq Identifiers
    <3>1. \A x \in seen : x.ids \subseteq Identifiers
      BY DEF TypeOK
    <3>2. \A e \in applied : {e.survivor, e.duplicate} \subseteq Identifiers
      BY ExceptionAssumption DEF TypeOK
    <3> QED BY <3>1, <3>2 DEF Evidence
  <2> QED BY <2>1, <2>3, <2>4 DEF Owned
<1>2. ASSUME IdentityIsEvidence PROVE EvidencePlaced /\ PeopleTied
  <2>1. EvidencePlaced
    BY <1>2 DEF IdentityIsEvidence, EvidencePlaced
  <2>2. ASSUME NEW p \in people, NEW S \in (SUBSET Owned(p)) \ {{}, Owned(p)}
        PROVE  \E g \in Evidence : g \subseteq Owned(p) /\ g \cap S # {} /\ g \ S # {}
    <3>1. PICK g \in Evidence : g \cap S # {} /\ g \ S # {}
      BY <1>2 DEF IdentityIsEvidence
    <3> QED BY <1>1, <2>1, <3>1
  <2> QED BY <2>1, <2>2 DEF PeopleTied, Tied
<1>3. ASSUME EvidencePlaced, PeopleTied PROVE IdentityIsEvidence
  BY <1>3 DEF EvidencePlaced, PeopleTied, Tied, IdentityIsEvidence
<1> QED BY <1>2, <1>3

(* Links stay links: seen and applied only grow, and what is placed stays. *)
LEMMA StepKeepsEvidence ==
    ASSUME TypeOK, [Next]_vars
    PROVE  Evidence \subseteq Evidence'
<1>1. seen \subseteq seen' /\ applied \subseteq applied'
  <2>1. CASE \E r \in Sources : Resolve(r)
    BY <2>1 DEF Resolve, merges
  <2>2. CASE \E F \in Files : Promote(F)
    BY <2>2 DEF Promote, merges
  <2>3. CASE \E e \in Exceptions : Merge(e)
    BY <2>3 DEF Merge
  <2>4. CASE \/ \E e \in Exceptions : Review(e)
             \/ \E i \in TermIds, t \in Terms : Seat(i, t)
             \/ ReadMap
             \/ \E i \in VoteIds, roll \in Rolls : Vote(i, roll)
             \/ UNCHANGED vars
    BY <2>4 DEF Review, Seat, ReadMap, Vote, vars, merges
  <2> QED BY <2>1, <2>2, <2>3, <2>4 DEF Next
<1>2. \A x \in seen : Placed(x.ids) => Placed(x.ids)'
  <2>1. \A x \in seen : x.ids \in SUBSET Identifiers
    BY DEF TypeOK
  <2> QED BY <2>1, StepKeepsPlaced
<1> SUFFICES ASSUME NEW g \in Evidence PROVE g \in Evidence'
  OBVIOUS
<1>3. CASE \E x \in seen : Placed(x.ids) /\ g = x.ids
  <2>1. PICK x \in seen : Placed(x.ids) /\ g = x.ids
    BY <1>3
  <2>2. x \in {y \in seen' : Placed(y.ids)'}
    BY <1>1, <1>2, <2>1
  <2> QED BY <2>1, <2>2 DEF Evidence
<1>4. CASE \E e \in applied : g = {e.survivor, e.duplicate}
  BY <1>1, <1>4 DEF Evidence
<1> QED BY <1>3, <1>4 DEF Evidence

LEMMA StepPlacesEvidence ==
    ASSUME TypeOK, [Next]_vars, EvidencePlaced
    PROVE  EvidencePlaced'
<1> SUFFICES ASSUME NEW e \in applied' PROVE Placed({e.survivor, e.duplicate})'
  BY DEF EvidencePlaced, Evidence
<1>1. CASE e \in applied
  <2>1. {e.survivor, e.duplicate} \in Evidence
    BY <1>1 DEF Evidence
  <2>2. {e.survivor, e.duplicate} \in SUBSET Identifiers
    BY <1>1, ExceptionAssumption DEF TypeOK
  <2> QED BY <2>1, <2>2, StepKeepsPlaced DEF EvidencePlaced
<1>2. CASE e \notin applied
  <2>1. e \in Exceptions /\ Merge(e)
    <3>1. ASSUME NEW f \in Exceptions, Merge(f) PROVE e = f
      BY <1>2, <3>1 DEF Merge
    <3>2. CASE \/ \E r \in Sources : Resolve(r)
               \/ \E F \in Files : Promote(F)
               \/ \E f \in Exceptions : Review(f)
               \/ \E i \in TermIds, t \in Terms : Seat(i, t)
               \/ ReadMap
               \/ \E i \in VoteIds, roll \in Rolls : Vote(i, roll)
               \/ UNCHANGED vars
      <4>1. applied' = applied
        BY <3>2 DEF Resolve, Promote, Review, Seat, ReadMap, Vote, vars, merges
      <4> QED BY <1>2, <4>1
    <3> QED BY <3>1, <3>2 DEF Next
  <2>2. e.survivor \in Identifiers /\ e.duplicate \in Identifiers
    BY <2>1, ExceptionAssumption
  <2>3. owner' = [i \in Identifiers |-> Heir(owner[e.survivor], owner[e.duplicate], owner[i])]
    BY <2>1 DEF Merge
  <2>4. \A i \in {e.survivor, e.duplicate} : owner'[i] = owner[e.survivor]
    BY <2>2, <2>3 DEF Heir
  <2>5. owner[e.survivor] \in people'
    BY <2>1, <2>2 DEF Merge, TypeOK
  <2> QED BY <2>4, <2>5 DEF Placed
<1> QED BY <1>1, <1>2

(* What a person owns after a writer's step hangs together.                *)
LEMMA ResolveTied ==
    ASSUME TypeOK, PeopleTied, NEW r \in Sources, Resolve(r)
    PROVE  PeopleTied'
<1> DEFINE ids == Linked(IdsOf[r])
<1>1. ids \subseteq Identifiers
  BY LinkedKeeps, IdentityAssumption DEF Records
<1>2. ids' = ids
  BY DEF Resolve, Linked, Closed
<1>3. Evidence \subseteq Evidence'
  BY StepKeepsEvidence DEF Next
<1> SUFFICES ASSUME NEW q \in people' PROVE Tied(Evidence, Owned(q))'
  BY DEF PeopleTied
<1>4. CASE UNCHANGED <<owner, people>>
  <2>1. Owned(q)' = Owned(q) /\ Tied(Evidence, Owned(q))
    BY <1>4 DEF Owned, PeopleTied
  <2>2. Tied(Evidence', Owned(q))
    BY <1>3, <2>1, MoreTied
  <2> QED BY <2>1, <2>2
<1>5. ASSUME NEW p \in people', Attach(p, ids),
             \A i \in ids : owner[i] \in {Nobody, p},
             people' = people \cup {p}, p \notin people \/ p \in Owners(ids)
      PROVE  Tied(Evidence, Owned(q))'
  <2>0. Nobody # q /\ Nobody # p
    BY <1>5, ResolveType, IdentityAssumption DEF TypeOK
  <2>1. ids \in Evidence'
    <3>1. [subject |-> r, ids |-> ids] \in seen'
      BY DEF Resolve
    <3>2. \A i \in ids : owner'[i] = p
      BY <1>1, <1>5 DEF Attach
    <3>3. Placed(ids)'
      BY <1>2, <1>5, <3>2 DEF Placed
    <3>4. \E x \in seen' : x.ids = ids
      BY <3>1
    <3> HIDE DEF ids
    <3>5. PICK x \in seen' : x.ids = ids
      BY <3>4
    <3>6. Placed(x.ids)'
      BY <1>2, <3>3, <3>5 DEF Placed
    <3> QED BY <3>5, <3>6 DEF Evidence
  <2> HIDE DEF ids
  <2>2. Owned(q)' = IF q = p THEN Owned(p) \cup ids ELSE Owned(q)
    BY <1>1, <1>5, <2>0 DEF Owned, Attach
  <2>3. q \in people => Tied(Evidence', Owned(q))
    BY <1>3, MoreTied DEF PeopleTied
  <2>4. CASE q # p
    BY <1>5, <2>2, <2>3, <2>4
  <2>5. Tied(Evidence', ids)
    BY <2>1, LinkTied
  <2>6. CASE q = p /\ p \notin people
    <3>1. Owned(p) = {}
      BY <2>0, <2>6 DEF Owned, TypeOK
    <3>2. Owned(q)' = ids
      BY <2>2, <2>6, <3>1
    <3> QED BY <2>5, <3>2
  <2>7. CASE q = p /\ p \in people
    <3>1. Owned(p) \cap ids # {}
      BY <1>1, <1>5, <2>7 DEF Owned, Owners
    <3>2. Tied(Evidence', Owned(p) \cup ids)
      BY <2>1, <2>3, <2>5, <2>7, <3>1, JoinTied
    <3>3. Owned(q)' = Owned(p) \cup ids
      BY <2>2, <2>7
    <3> QED BY <3>2, <3>3
  <2> QED BY <2>4, <2>6, <2>7
<1> QED BY <1>4, <1>5, ResolvedOwner
LEMMA PromoteTied ==
    ASSUME TypeOK, PeopleTied, NEW F \in Files, Promote(F)
    PROVE  PeopleTied'
<1>1. PICK at \in Placements(F) :
         /\ owner' = [j \in Identifiers |->
                IF owner[j] = Nobody /\ \E m \in DOMAIN at : j \in Kept(F, m)
                THEN at[CHOOSE m \in DOMAIN at : j \in Kept(F, m)] ELSE owner[j]]
         /\ people' = people \cup {at[m] : m \in Groups(F, "new")}
  BY DEF Promote
<1>2. Evidence \subseteq Evidence'
  BY StepKeepsEvidence DEF Next
<1> SUFFICES ASSUME NEW q \in people' PROVE Tied(Evidence, Owned(q))'
  BY DEF PeopleTied
<1>3. q # Nobody
  BY PromoteType, IdentityAssumption DEF TypeOK
<1>4. \A i \in Identifiers :
         /\ owner[i] # Nobody => owner'[i] = owner[i]
         /\ owner'[i] # owner[i] => \E l \in DOMAIN at : i \in Kept(F, l) /\ owner'[i] = at[l]
  BY <1>1, PromotedOwner
<1>5. q \in people => Tied(Evidence', Owned(q))
  BY <1>2, MoreTied DEF PeopleTied
<1>6. CASE \A l \in DOMAIN at : at[l] # q
  <2>1. q \in people
    BY <1>1, <1>6 DEF Placements
  <2>2. Owned(q)' = Owned(q)
    BY <1>3, <1>4, <1>6 DEF Owned
  <2> QED BY <1>5, <2>1, <2>2
<1>7. ASSUME NEW l \in DOMAIN at, at[l] = q
      PROVE  Tied(Evidence, Owned(q))'
  <2>1. l \in F /\ \A i \in Kept(F, l) : i \in Identifiers /\ owner'[i] = q
    BY <1>1, <1>7, PlacementSays, PromotedKept, SMTT(30)
  <2>2. \A m \in DOMAIN at : at[m] = q => m = l
    BY <1>7, PlacementsDiffer
  <2>3. Owned(q)' = Owned(q) \cup Kept(F, l)
    BY <1>3, <1>4, <2>1, <2>2 DEF Owned
  <2>4. Kept(F, l) \in Evidence'
    <3>1. [subject |-> l, ids |-> Kept(F, l)] \in seen'
      BY <2>1 DEF Promote
    <3>2. Placed(Kept(F, l))'
      <4>1. Kept(F, l)' = Kept(F, l)
        BY DEF Kept
      <4> QED BY <2>1, <4>1 DEF Placed
    <3>3. PICK x \in seen' : x.ids = Kept(F, l)
      BY <3>1
    <3>4. Kept(F, l)' = Kept(F, l)
      BY DEF Kept
    <3>5. Placed(x.ids)'
      BY <3>2, <3>3, <3>4 DEF Placed
    <3> QED BY <3>3, <3>5 DEF Evidence
  <2>5. Tied(Evidence', Kept(F, l))
    BY <2>4, LinkTied
  <2>6. CASE q \in people /\ Owners(Kept(F, l)) = {q}
    <3>1. Kept(F, l) \cap Owned(q) # {}
      BY <2>1, <2>6 DEF Owners, Owned
    <3>2. Tied(Evidence', Owned(q) \cup Kept(F, l))
      BY <1>5, <2>4, <2>5, <2>6, <3>1, JoinTied
    <3> QED BY <2>3, <3>2
  <2>7. CASE q \in Fresh
    <3>1. Owned(q) = {}
      BY <1>3, <2>7 DEF Owned, Fresh, TypeOK
    <3>2. Owned(q)' = Kept(F, l)
      BY <2>3, <3>1
    <3> QED BY <2>5, <3>2
  <2> QED BY <1>7, <2>6, <2>7, PlacementSays
<1> QED BY <1>6, <1>7

LEMMA MergeTied ==
    ASSUME TypeOK, PeopleTied, NEW e \in Exceptions, Merge(e)
    PROVE  PeopleTied'
<1> DEFINE s == owner[e.survivor]
           d == owner[e.duplicate]
           pair == {e.survivor, e.duplicate}
<1>1. e.survivor \in Identifiers /\ e.duplicate \in Identifiers
  BY ExceptionAssumption
<1>2. s \in people /\ d \in people /\ s # d
  BY <1>1 DEF Merge, TypeOK
<1>3. /\ owner' = [i \in Identifiers |-> Heir(s, d, owner[i])]
      /\ people' = people \ {d} /\ applied' = applied \cup {e}
  BY DEF Merge
<1>4. Evidence \subseteq Evidence'
  BY StepKeepsEvidence DEF Next
<1>5. pair \in Evidence'
  BY <1>3 DEF Evidence
<1>6. pair \subseteq Owned(s) \cup Owned(d) /\ pair \cap Owned(s) # {} /\ pair \cap Owned(d) # {}
  BY <1>1 DEF Owned
<1> HIDE DEF s, d, pair
<1>7. \A p \in people : Tied(Evidence', Owned(p))
  BY <1>4, MoreTied DEF PeopleTied
<1> SUFFICES ASSUME NEW q \in people' PROVE Tied(Evidence, Owned(q))'
  BY DEF PeopleTied
<1>8. q \in people /\ q # d
  BY <1>3
<1>9. CASE q = s
  <2>1. Owned(q)' = Owned(s) \cup Owned(d)
    BY <1>2, <1>3, <1>9 DEF Owned, Heir
  <2>2. Tied(Evidence', Owned(s) \cup Owned(d))
    BY <1>2, <1>5, <1>6, <1>7, JoinTied
  <2> QED BY <2>1, <2>2
<1>10. CASE q # s
  <2>1. Owned(q)' = Owned(q)
    BY <1>3, <1>8, <1>10 DEF Owned, Heir
  <2> QED BY <1>7, <1>8, <2>1
<1> QED BY <1>9, <1>10

(* "Never by name": whatever anybody owns hangs together by placed records *)
(* and applied decisions, and each of those is one person's.               *)
THEOREM IdentityFromEvidence == Spec => []IdentityIsEvidence
<1>1. Init => EvidencePlaced /\ PeopleTied
  BY DEF Init, EvidencePlaced, PeopleTied, Evidence
<1>2. TypeOK /\ EvidencePlaced /\ PeopleTied /\ [Next]_vars => (EvidencePlaced /\ PeopleTied)'
  <2> SUFFICES ASSUME TypeOK, EvidencePlaced, PeopleTied, [Next]_vars PROVE PeopleTied'
    BY StepPlacesEvidence
  <2>1. CASE \E r \in Sources : Resolve(r)
    BY <2>1, ResolveTied
  <2>2. CASE \E F \in Files : Promote(F)
    BY <2>2, PromoteTied
  <2>3. CASE \E e \in Exceptions : Merge(e)
    BY <2>3, MergeTied
  <2>4. CASE \/ \E e \in Exceptions : Review(e)
             \/ \E i \in TermIds, t \in Terms : Seat(i, t)
             \/ ReadMap
             \/ \E i \in VoteIds, roll \in Rolls : Vote(i, roll)
             \/ UNCHANGED vars
    <3>1. UNCHANGED identity
      BY <2>4 DEF Review, Seat, ReadMap, Vote, vars
    <3>2. Evidence \subseteq Evidence'
      BY StepKeepsEvidence
    <3>3. people' = people /\ \A p \in people : Owned(p)' = Owned(p)
      BY <3>1 DEF identity, Owned
    <3>4. \A p \in people : Tied(Evidence', Owned(p))
      BY <3>2, MoreTied DEF PeopleTied
    <3> QED BY <3>3, <3>4 DEF PeopleTied
  <2> QED BY <2>1, <2>2, <2>3, <2>4 DEF Next
<1>3. TypeOK /\ EvidencePlaced /\ PeopleTied => IdentityIsEvidence
  BY IdentityTied
<1> QED BY <1>1, <1>2, <1>3, TypeCorrect, PTL DEF Spec
=============================================================================
