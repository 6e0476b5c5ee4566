--------------------------- MODULE PersonIdentity ---------------------------
(***************************************************************************)
(* Who is whom in core.person: repositories/people.py with                 *)
(* identity_merge.py and the queries under sql/query/people.               *)
(*                                                                         *)
(* Three writers place identifiers: resolve_person for one source record   *)
(* (OpenStates people, Congress.gov members), promote_legislators for a    *)
(* whole congress-legislators file, and merge_person for one reviewed      *)
(* same_person decision.  Each runs under the transaction lock             *)
(* PERSON_IDENTITY_LOCK, so each is one step.  (The OpenStates sync and    *)
(* merge-people put several such steps in one transaction; their records   *)
(* are taken one at a time here, which allows more interleavings.)         *)
(*                                                                         *)
(* The vote loader is the consumer that remembers: it reads the owner of   *)
(* every identifier once and writes votes under those persons later, in    *)
(* transactions of its own that the foreign key to core.person guards.     *)
(***************************************************************************)
EXTENDS Naturals, FiniteSets

CONSTANTS
    Identifiers,   \* (namespace, external_id) pairs
    Bioguides,     \* those of the one single-valued namespace
    Persons, Nobody,
    Sources,       \* records for resolve_person
    Legislators,   \* records of the congress-legislators files
    IdsOf,         \* the identifiers a record asserts
    BioguideOf,    \* the BioGuide id of each legislator
    Files,         \* the sets of legislators a load may find upstream
    Exceptions,    \* the decisions a review may take: [survivor, duplicate]
    Rolls, Terms,
    VoteIds, TermIds \* the identifiers votes and terms are listed under

Records == Sources \cup Legislators

ASSUME IdentityAssumption ==
    /\ Bioguides \subseteq Identifiers /\ Nobody \notin Persons
    /\ IdsOf \in [Records -> SUBSET Identifiers]
    /\ Sources \cap Legislators = {}
    /\ VoteIds \subseteq Identifiers /\ TermIds \subseteq Identifiers
ASSUME LegislatorAssumption ==     \* validate_legislators refuses anything else
    /\ BioguideOf \in [Legislators -> Bioguides]
    /\ \A l \in Legislators : IdsOf[l] \cap Bioguides = {BioguideOf[l]}
    /\ Files \subseteq SUBSET Legislators
    /\ \A F \in Files : \A l, m \in F : l # m => BioguideOf[l] # BioguideOf[m]
ASSUME ExceptionAssumption ==
    \A e \in Exceptions : /\ e.survivor \in Identifiers /\ e.duplicate \in Identifiers
                          /\ e.survivor # e.duplicate

VARIABLES
    owner,      \* core.person_identifier: the person of each identifier
    people,     \* core.person
    open,       \* ingest.identity_conflict, not resolved: [subject, kind, owners]
    answered,   \* ... and resolved
    merged,     \* ingest.person_merge: the survivor recorded for a duplicate
    terms,      \* core.membership: <<person, term>>
    votes,      \* fact.member_vote: <<roll, person>>
    audit,      \* ingest.person_merge_vote: <<roll, duplicate>>
    reviewed,   \* the same_person entries of identity_exceptions.yaml
    known,      \* the vote loader's identifier map
    seen,       \* history: the identifier sets records asserted, by record
    applied,    \* history: the exceptions a merge applied
    voted       \* history: every <<roll, person>> ever written

identity == <<owner, people>>
conflicts == <<open, answered>>
merges == <<merged, audit, applied>>
vars == <<identity, conflicts, merges, terms, votes, reviewed, known, seen, voted>>

Kind == {"multiple_owners", "bioguide_mismatch"}
Conflict == [subject : Records, kind : Kind, owners : SUBSET Persons]
OwnerMap == [VoteIds -> Persons \cup {Nobody}]

TypeOK ==
    /\ owner \in [Identifiers -> people \cup {Nobody}] /\ people \subseteq Persons
    /\ open \subseteq Conflict /\ answered \subseteq Conflict
    /\ merged \in [Persons -> people \cup {Nobody}]
    /\ terms \subseteq people \X Terms
    /\ votes \subseteq Rolls \X people /\ audit \subseteq Rolls \X Persons
    /\ known \in OwnerMap
    /\ seen \subseteq [subject : Records, ids : SUBSET Identifiers]
    /\ reviewed \subseteq Exceptions /\ applied \subseteq reviewed /\ voted \subseteq Rolls \X Persons
    /\ \A p \in people : merged[p] = Nobody

Init ==
    /\ owner = [i \in Identifiers |-> Nobody] /\ people = {} /\ open = {} /\ answered = {}
    /\ merged = [p \in Persons |-> Nobody] /\ terms = {} /\ votes = {} /\ audit = {}
    /\ reviewed = {} /\ known = [i \in VoteIds |-> Nobody] /\ seen = {} /\ applied = {} /\ voted = {}
-----------------------------------------------------------------------------
(* What the queries read                                                   *)

(* linked_identifiers: the asserted identifiers and, along chains, the     *)
(* survivor of every reviewed duplicate among them.                        *)
Closed(S) == \A e \in reviewed : e.duplicate \in S => e.survivor \in S
Linked(ids) ==
    LET survivors == {e.survivor : e \in reviewed}
    IN  {i \in Identifiers : \A S \in SUBSET survivors : Closed(ids \cup S) => i \in ids \cup S}

Owners(ids) == {owner[i] : i \in ids} \ {Nobody}
Held(p) == {b \in Bioguides : owner[b] = p}
Fresh == {p \in Persons : p \notin people /\ merged[p] = Nobody}

Record(new) == open' = open \cup new /\ answered' = answered \ new
-----------------------------------------------------------------------------
(* resolve_person                                                          *)

OutcomeFirstOwner(ids) ==                                     \* mutant
    IF Owners(ids) = {} THEN "created" ELSE "matched"
Outcome(ids) ==
    LET wanted == ids \cap Bioguides
        owners == Owners(ids)
    IN  IF \E b, c \in wanted : b # c THEN "bioguide_mismatch"
        ELSE IF \E p, q \in owners : p # q THEN "multiple_owners"
        ELSE IF \E p \in owners : Held(p) # {} /\ ~(wanted \subseteq Held(p))
        THEN "bioguide_mismatch"
        ELSE IF owners = {} THEN "created" ELSE "matched"

(* attach_person_identifiers: one that exists stays where it is.           *)
Attach(p, ids) ==
    owner' = [i \in Identifiers |-> IF i \in ids /\ owner[i] = Nobody THEN p ELSE owner[i]]

Resolve(r) ==
    LET ids == Linked(IdsOf[r])
        outcome == Outcome(ids)
    IN  /\ IdsOf[r] # {}
        /\ \/ /\ outcome \in Kind
              /\ Record({[subject |-> r, kind |-> outcome, owners |-> Owners(ids)]})
              /\ UNCHANGED identity
           \/ /\ outcome = "matched"
              /\ \E p \in Owners(ids) : Attach(p, ids)
              /\ UNCHANGED <<people, conflicts>>
           \/ /\ outcome = "created"
              /\ \E p \in Fresh : Attach(p, ids) /\ people' = people \cup {p}
              /\ UNCHANGED conflicts
        /\ seen' = seen \cup {[subject |-> r, ids |-> ids]}
        /\ UNCHANGED <<merges, terms, votes, reviewed, known, voted>>
-----------------------------------------------------------------------------
(* promote_legislators                                                     *)

(* dedupe_identifiers drops what upstream gives to two legislators.        *)
Kept(F, l) == {i \in IdsOf[l] : \A m \in F \ {l} : i \notin IdsOf[m]}

SoleOwner(F, l, p) == Owners(Kept(F, l)) = {p}

GroupOutcomeUnshared(F, l) ==                                 \* mutant
    LET owners == Owners(Kept(F, l))
    IN  IF owners = {} THEN "new"
        ELSE IF \E p, q \in owners : p # q THEN "multiple_owners"
        ELSE IF \E p \in owners : Held(p) \ {BioguideOf[l]} # {} THEN "bioguide_mismatch"
        ELSE "matched"
GroupOutcome(F, l) ==
    LET owners == Owners(Kept(F, l))
        shared == \E m \in F \ {l} : Owners(Kept(F, m)) = owners
        other == \E p \in owners : Held(p) \ {BioguideOf[l]} # {}
    IN  IF owners = {} THEN "new"
        ELSE IF \E p, q \in owners : p # q THEN "multiple_owners"
        ELSE IF shared \/ other THEN "bioguide_mismatch"
        ELSE "matched"

Groups(F, outcome) == {l \in F : GroupOutcome(F, l) = outcome}

PlacementsByName(F) ==                                        \* mutant
    {at \in [Groups(F, "new") \cup Groups(F, "matched") -> Persons] :
        /\ \A l \in Groups(F, "matched") : SoleOwner(F, l, at[l])
        /\ \A l \in Groups(F, "new") : at[l] \in Fresh}

(* The person of each group that has one; created persons are distinct.    *)
Placements(F) ==
    {at \in [Groups(F, "new") \cup Groups(F, "matched") -> Persons] :
        /\ \A l \in Groups(F, "matched") : SoleOwner(F, l, at[l])
        /\ \A l \in Groups(F, "new") : at[l] \in Fresh
        /\ \A l, m \in Groups(F, "new") : l # m => at[l] # at[m]}

Promote(F) ==
    /\ \E at \in Placements(F) :
          /\ owner' = [i \in Identifiers |->
                IF owner[i] = Nobody /\ \E l \in DOMAIN at : i \in Kept(F, l)
                THEN at[CHOOSE l \in DOMAIN at : i \in Kept(F, l)] ELSE owner[i]]
          /\ people' = people \cup {at[l] : l \in Groups(F, "new")}
    /\ Record({[subject |-> l, kind |-> GroupOutcome(F, l), owners |-> Owners(Kept(F, l))] :
                  l \in {m \in F : GroupOutcome(F, m) \in Kind}})
    /\ seen' = seen \cup {[subject |-> l, ids |-> Kept(F, l)] : l \in F}
    /\ UNCHANGED <<merges, terms, votes, reviewed, known, voted>>
-----------------------------------------------------------------------------
(* merge_person                                                            *)

(* A decision is added to identity_exceptions.yaml.                        *)
Review(e) ==
    /\ e \notin reviewed
    /\ reviewed' = reviewed \cup {e}
    /\ UNCHANGED <<identity, conflicts, merges, terms, votes, known, seen, voted>>

TermsOf(p) == {t \in Terms : <<p, t>> \in terms}

(* Either collision raises; nothing is written.                            *)
Mergeable(s, d) ==
    /\ Held(s) = {} \/ Held(d) \subseteq Held(s)
    /\ TermsOf(s) \cap TermsOf(d) = {}

Heir(s, d, p) == IF p = d THEN s ELSE p

KeepSurvivorVotes(s, d) == votes' = {v \in votes : v[2] # d}  \* mutant
RepointVotes(s, d) == votes' = {<<v[1], Heir(s, d, v[2])>> : v \in votes}

AuditOnly(s, d) == merged' = [merged EXCEPT ![d] = s]          \* mutant
RepointAudit(s, d) ==
    merged' = [p \in Persons |-> IF p = d \/ merged[p] = d THEN s ELSE merged[p]]

Merge(e) ==
    LET s == owner[e.survivor]
        d == owner[e.duplicate]
    IN  /\ e \in reviewed
        /\ s # Nobody /\ d # Nobody /\ s # d
        /\ Mergeable(s, d)
        /\ owner' = [i \in Identifiers |-> Heir(s, d, owner[i])]
        /\ people' = people \ {d}
        /\ audit' = audit \cup {<<v[1], d>> : v \in {w \in votes : w[2] = d /\ <<w[1], s>> \in votes}}
        /\ RepointVotes(s, d) /\ RepointAudit(s, d)
        /\ terms' = {<<Heir(s, d, x[1]), x[2]>> : x \in terms}
        /\ open' = {c \in open : d \notin c.owners}
        /\ answered' = answered \cup (open \ open')
        /\ applied' = applied \cup {e}
        /\ UNCHANGED <<reviewed, known, seen, voted>>
-----------------------------------------------------------------------------
(* Rows that reference a person                                            *)

(* promote_terms, and the OpenStates memberships: by identifier.           *)
Seat(i, t) ==
    /\ owner[i] # Nobody
    /\ terms' = terms \cup {<<owner[i], t>>}
    /\ UNCHANGED <<identity, conflicts, merges, votes, reviewed, known, seen, voted>>

(* The vote loader maps identifiers once, at the start of its publish ...  *)
ReadMap ==
    /\ known' = [i \in VoteIds |-> owner[i]]
    /\ UNCHANGED <<identity, conflicts, merges, terms, votes, reviewed, seen, voted>>

(* ... and writes with that map.  A person that a merge deleted meanwhile  *)
(* fails the foreign key, and the batch with it.                           *)
Vote(i, roll) ==
    /\ known[i] \in people
    /\ votes' = votes \cup {<<roll, known[i]>>}
    /\ voted' = voted \cup {<<roll, known[i]>>}
    /\ UNCHANGED <<identity, conflicts, merges, terms, reviewed, known, seen>>

Next ==
    \/ \E r \in Sources : Resolve(r)
    \/ \E F \in Files : Promote(F)
    \/ \E e \in Exceptions : Review(e) \/ Merge(e)
    \/ \E i \in TermIds, t \in Terms : Seat(i, t)
    \/ ReadMap
    \/ \E i \in VoteIds, roll \in Rolls : Vote(i, roll)

Spec == Init /\ [][Next]_vars
-----------------------------------------------------------------------------
(* Properties                                                              *)

(* SINGLE_VALUED: nobody ever holds two BioGuide ids, whichever writers    *)
(* run in whichever order and whatever the reviewed decisions join.        *)
OneBioguide ==
    \A b, c \in Bioguides : owner[b] = owner[c] /\ owner[b] # Nobody => b = c

(* A record is placed when one person owns all it asserts.  No record is   *)
(* misplaced in silence: what could not be placed has a conflict on file,  *)
(* and a merge, later, never breaks up what was placed.                    *)
Placed(ids) == \E p \in people : \A i \in ids : owner[i] = p
NothingMisplacedInSilence ==
    \A x \in seen : Placed(x.ids) \/ \E c \in open \cup answered : c.subject = x.subject

(* "Never by name": two identifiers share a person only along a chain of   *)
(* placed records and applied decisions; and so in every load order the    *)
(* same placed records give the same partition into people.                *)
Evidence == {x.ids : x \in {y \in seen : Placed(y.ids)}}
              \cup {{e.survivor, e.duplicate} : e \in applied}
Owned(p) == {i \in Identifiers : owner[i] = p}
IdentityIsEvidence ==
    LET links == Evidence
    IN  /\ \A g \in links : Placed(g)
        /\ \A p \in people : \A S \in (SUBSET Owned(p)) \ {{}, Owned(p)} :
              \E g \in links : g \cap S # {} /\ g \ S # {}

(* merge_person's docstring: votes move to the survivor, or the survivor's *)
(* own stands and the duplicate's is kept in the audit.  Followed through  *)
(* every later merge, nobody's vote on a roll call is lost, even when the  *)
(* loader wrote it with a map read before the merge.                       *)
Now(p) == IF merged[p] = Nobody THEN p ELSE merged[p]
VotesFollowPeople == \A v \in voted : <<v[1], Now(v[2])>> \in votes
=============================================================================
