------------------------------ MODULE RateGate ------------------------------
(***************************************************************************)
(* rate_gate.SharedRateGate: the turnstile in front of one web host, as    *)
(* congress_get and the paced providers use it (acquire, send the request, *)
(* then observe the response or release the turn).                         *)
(*                                                                         *)
(* Every operation runs under the thread lock and the flock, so it is one  *)
(* step.  Time is relative: deadlines are "time left", stamps are ages, and*)
(* Tick moves them all; an entry past its window is dropped by Tick, where *)
(* _prune drops it at the next operation.  This keeps the state finite     *)
(* without a bound on time.                                                *)
(*                                                                         *)
(* Each gate object keeps its state in memory after the first load         *)
(* (_current) and overwrites the shared file with it (_save).              *)
(***************************************************************************)
EXTENDS Naturals, Sequences, FiniteSets, Functions

CONSTANTS
    Gates,          \* gate objects: scripts that share one file
    Ids,            \* turn ids, one per request in flight
    Window,         \* window_seconds
    FallbackLimit, ServerLimit,   \* limit before, and in, the first header
    Safety, ProbeGap,
    Ttl,            \* RESERVATION_TTL
    MaxFlight,      \* longest time from a turn to its response or timeout,
                    \* which may well be longer than Ttl
    LogThreshold, FlushEvery,     \* 50 and 25 in _save
    RetryAfters,    \* Retry-After values the server may send
    MaxRestarts, MaxDamage,       \* bounds on restarts and lost files
    None, Missing,                \* no value; no file
    Unreadable, Garbled           \* a damaged file: not JSON; not even UTF-8

ASSUME TimeAssumption ==
    /\ Window \in Nat \ {0} /\ ProbeGap \in Nat /\ Ttl \in Nat \ {0}
    /\ MaxFlight \in Nat
    /\ RetryAfters \subseteq Nat \cup {None}
ASSUME LimitAssumption ==
    /\ ServerLimit \in Nat \ {0} /\ FallbackLimit \in Nat \ {0}
    /\ \A l \in {FallbackLimit, ServerLimit} : Window % l = 0
    /\ Safety \in Nat /\ LogThreshold \in Nat /\ FlushEvery \in Nat \ {0}
    /\ MaxRestarts \in Nat /\ MaxDamage \in Nat

Ages == 0..(Window - 1)
State == [limit : {FallbackLimit, ServerLimit},
          next : 0..Window, cool : 0..Window, probe : 0..ProbeGap,
          clear : 0..Window \cup {None}, allow : BOOLEAN,
          remaining : Nat \cup {None}, sent : Seq(Ages),
          reserved : SUBSET [id : Ids, left : 1..Ttl]]

ASSUME NoneAssumption ==
    /\ None \notin State /\ Missing \notin State
    /\ Unreadable \notin State /\ Garbled \notin State
    /\ Missing # Unreadable /\ Missing # Garbled /\ Unreadable # Garbled
    /\ None \notin [gate : Gates, arrived : BOOLEAN, age : 0..MaxFlight]
    /\ None \notin Nat

VARIABLES
    file,       \* the shared state file: a state, Missing or damaged
    cache,      \* per gate: the state in memory, or None before first use
    unflushed,  \* per gate: saves since the log was last written
    turns,      \* requests in flight: id -> [gate, arrived, age] or None
    arrivals,   \* ages of the requests that reached the server
    overdue,    \* ages of the ends of requests that outlasted their reservation
    grants,     \* ages of the turns handed out
    penalty,    \* how long the server still asks everybody to stay away
    hold,       \* time left in which a probe must stay the only turn
    restarts, damages

vars == <<file, cache, unflushed, turns, arrivals, overdue, grants, penalty, hold,
          restarts, damages>>

Damaged == {Unreadable, Garbled}

TypeOK ==
    /\ file \in State \cup {Missing} \cup Damaged
    /\ cache \in [Gates -> State \cup {None}]
    /\ unflushed \in [Gates -> 0..FlushEvery]
    /\ turns \in [Ids -> [gate : Gates, arrived : BOOLEAN, age : 0..MaxFlight] \cup {None}]
    /\ arrivals \in Seq(Ages) /\ overdue \in Seq(Ages) /\ grants \in Seq(Ages)
    /\ penalty \in 0..Window /\ hold \in 0..ProbeGap
    /\ restarts \in 0..MaxRestarts /\ damages \in 0..MaxDamage

Larger(a, b) == IF a >= b THEN a ELSE b
Smaller(a, b) == IF a <= b THEN a ELSE b
Less(a, b) == IF a > b THEN a - b ELSE 0

(* The most that any state allows in a window.  The headers may name a     *)
(* higher or a lower limit than the one the gate starts with.              *)
Ceiling == Larger(FallbackLimit, ServerLimit)
-----------------------------------------------------------------------------
(* The state and what it says                                              *)

Fresh == [limit |-> FallbackLimit, next |-> 0, cool |-> 0, probe |-> 0,
          clear |-> None, allow |-> FALSE, remaining |-> None,
          sent |-> <<>>, reserved |-> {}]

(* A file that is not JSON starts closed.                                  *)
ClosedOpen == Fresh   \* mutant: a lost file starts a fresh hour
Closed == [Fresh EXCEPT !.remaining = Safety]

Load == CASE file = Missing -> Fresh
          [] file \in Damaged -> Closed
          [] OTHER -> file

(* A file that is not UTF-8 is caught nowhere: read_text raises in every   *)
(* call that would have to load it.                                        *)
Loads(g) == cache[g] # None \/ file # Garbled

(* _current: the file is read once in the life of a gate.                  *)
CurrentForgetful(g) == IF cache[g] = None THEN Fresh ELSE cache[g]   \* mutant
Current(g) == IF cache[g] = None THEN Load ELSE cache[g]

Interval(st) == Window \div st.limit

(* _budget, as the test "is anything left of it".                          *)
HasBudget(st) ==
    \/ st.remaining = None
    \/ st.remaining > Cardinality(st.reserved) + Safety

OldestLeaves(st) == Window - Head(st.sent)

SelfCapWaitOneMore(st) ==   \* mutant: off by one
    IF Len(st.sent) + Cardinality(st.reserved) <= st.limit THEN 0
    ELSE IF st.sent = <<>> THEN Window ELSE OldestLeaves(st)

SelfCapWait(st) ==
    IF Len(st.sent) + Cardinality(st.reserved) < st.limit THEN 0
    ELSE IF st.sent = <<>> THEN Window ELSE OldestLeaves(st)

(* A nearly empty remaining-count holds the next turn until none of our    *)
(* own requests is inside the window, then for one probe at a time.        *)
DeficitWaitForever(st) ==   \* mutant: no probe once our requests have left
    IF HasBudget(st) \/ st.cool > 0 \/ st.allow THEN 0
    ELSE IF st.sent # <<>> THEN OldestLeaves(st) ELSE 1

DeficitWait(st) ==
    IF HasBudget(st) \/ st.cool > 0 \/ st.allow THEN 0
    ELSE IF st.sent # <<>> THEN OldestLeaves(st)
    ELSE IF st.clear = 0 THEN 0
    ELSE st.probe

(* ... and what the question leaves in clear_at.                           *)
ClearAfter(st) ==
    IF HasBudget(st) THEN None
    ELSE IF st.cool > 0 \/ st.allow THEN st.clear
    ELSE IF st.sent # <<>> THEN OldestLeaves(st)
    ELSE IF st.clear = 0 THEN None
    ELSE st.clear

Wait(st) == Larger(Larger(st.next, st.cool), Larger(DeficitWait(st), SelfCapWait(st)))

(* _save: the timestamp log is written only now and then once it is long.  *)
LogSkipped(g, st) == Len(st.sent) >= LogThreshold /\ unflushed[g] + 1 < FlushEvery

Save(g, st) ==
    /\ cache' = [cache EXCEPT ![g] = st]
    /\ file' = IF LogSkipped(g, st) THEN [st EXCEPT !.sent = <<>>] ELSE st
    /\ unflushed' = [unflushed EXCEPT ![g] = IF LogSkipped(g, st) THEN @ + 1 ELSE 0]
-----------------------------------------------------------------------------
(* acquire                                                                 *)

InFlight == {id \in Ids : turns[id] # None}

(* One round that has to wait: it saves what it learned and sleeps.        *)
Poll(g) ==
    LET st == Current(g) IN
    /\ Loads(g)
    /\ Wait(st) > 0
    /\ Save(g, [st EXCEPT !.clear = ClearAfter(st)])
    /\ UNCHANGED <<turns, arrivals, overdue, grants, penalty, hold, restarts, damages>>

Granted(st, id) ==
    LET mine == [st EXCEPT !.clear = ClearAfter(st),
                           !.reserved = @ \cup {[id |-> id, left |-> Ttl]},
                           !.next = Interval(st)]
    IN  IF HasBudget(mine) THEN mine
        ELSE [mine EXCEPT !.allow = FALSE, !.probe = ProbeGap]

(* The turn spends the last of a known budget, or is the first after the   *)
(* state was lost: everybody else has to wait for what it brings back.     *)
IsProbe(g, st, id) ==
    \/ cache[g] = None /\ file = Unreadable
    \/ ~HasBudget(Granted(st, id))

Acquire(g, id) ==
    LET st == Current(g) IN
    /\ Loads(g)
    /\ id \notin InFlight
    /\ \A r \in st.reserved : r.id # id
    /\ Wait(st) = 0
    /\ Save(g, Granted(st, id))
    /\ turns' = [turns EXCEPT ![id] = [gate |-> g, arrived |-> FALSE, age |-> 0]]
    /\ grants' = Append(grants, 0)
    /\ hold' = IF IsProbe(g, st, id) THEN ProbeGap ELSE 0
    /\ UNCHANGED <<arrivals, overdue, penalty, restarts, damages>>

(* The request reaches the server, which counts it.                        *)
Arrive(id) ==
    /\ id \in InFlight /\ ~turns[id].arrived
    /\ turns' = [turns EXCEPT ![id].arrived = TRUE]
    /\ arrivals' = Append(arrivals, 0)
    /\ UNCHANGED <<file, cache, unflushed, overdue, grants, penalty, hold, restarts, damages>>
-----------------------------------------------------------------------------
(* observe and release                                                     *)

WithoutTurn(st, id) == {r \in st.reserved : r.id # id}

Counted(st, id) ==
    [st EXCEPT !.reserved = WithoutTurn(st, id), !.sent = Append(@, 0)]

(* The rate-limit headers come together, or not at all (None).             *)
WithHeaders(st, remaining) ==
    IF remaining = None THEN st
    ELSE [st EXCEPT !.limit = ServerLimit, !.remaining = remaining]

(* Retry-After is capped at the window; without one the pace is the pause. *)
PauseUncapped(st, after) == IF after = None THEN Interval(st) ELSE after   \* mutant
Pause(st, after) == IF after = None THEN Interval(st) ELSE Smaller(after, Window)

RefusedLast(st, remaining, after) ==   \* mutant: a later 429 shortens the pause
    [st EXCEPT !.cool = Pause(st, after), !.allow = TRUE,
               !.remaining = IF remaining = None THEN 0 ELSE @]

Refused(st, remaining, after) ==
    [st EXCEPT !.cool = Larger(@, Pause(st, after)),
               !.allow = TRUE,
               !.remaining = IF remaining = None THEN 0 ELSE @]

Reopens(st) == st.remaining # None /\ st.remaining > Safety
Reopened(st) ==
    IF Reopens(st) THEN [st EXCEPT !.allow = FALSE, !.probe = 0] ELSE st

(* What is left of the allowance, after any use of the key by others.      *)
Remainings == {None} \cup 0..Less(ServerLimit, Len(arrivals))

Lapsed == {id \in InFlight : turns[id].age >= Ttl}

Ended(id) ==
    /\ turns' = [turns EXCEPT ![id] = None]
    /\ overdue' = IF id \in Lapsed THEN Append(overdue, 0) ELSE overdue

Observe(id, remaining) ==
    /\ id \in InFlight /\ turns[id].arrived
    /\ LET g == turns[id].gate
           st == WithHeaders(Counted(Current(g), id), remaining)
       IN  /\ Save(g, Reopened(st))
           /\ hold' = IF remaining = None /\ ~Reopens(st) THEN hold ELSE 0
    /\ Ended(id)
    /\ UNCHANGED <<arrivals, grants, penalty, restarts, damages>>

Observe429(id, remaining, after) ==
    /\ id \in InFlight /\ turns[id].arrived
    /\ LET g == turns[id].gate
           st == WithHeaders(Counted(Current(g), id), remaining)
       IN  /\ Save(g, Refused(st, remaining, after))
           /\ penalty' = Larger(penalty, Pause(st, after))
    /\ hold' = 0
    /\ Ended(id)
    /\ UNCHANGED <<arrivals, grants, restarts, damages>>

(* A transport error: the server may or may not have counted the request.  *)
Release(id) ==
    /\ id \in InFlight
    /\ LET g == turns[id].gate IN Save(g, Counted(Current(g), id))
    /\ Ended(id)
    /\ UNCHANGED <<arrivals, grants, penalty, hold, restarts, damages>>
-----------------------------------------------------------------------------
(* The environment                                                         *)

(* A script ends or is killed; a new gate object starts from the file.     *)
Restart(g) ==
    /\ restarts < MaxRestarts /\ cache[g] # None
    /\ restarts' = restarts + 1
    /\ cache' = [cache EXCEPT ![g] = None]
    /\ unflushed' = [unflushed EXCEPT ![g] = 0]
    /\ turns' = [id \in Ids |->
                   IF id \in InFlight /\ turns[id].gate = g THEN None ELSE turns[id]]
    /\ UNCHANGED <<file, arrivals, overdue, grants, penalty, hold, damages>>

Damage ==
    /\ damages < MaxDamage
    /\ damages' = damages + 1
    /\ file' \in Damaged \ {file}
    /\ hold' = 0
    /\ UNCHANGED <<cache, unflushed, turns, arrivals, overdue, grants, penalty, restarts>>

(* _prune: a stamp leaves after Window, a reservation after its TTL.  A log *)
(* is in the order of its stamps, so what leaves is its beginning.         *)
Older(ages) ==
    LET kept == Cardinality({i \in DOMAIN ages : ages[i] + 1 < Window})
        gone == Len(ages) - kept
    IN  [i \in 1..kept |-> ages[i + gone] + 1]

Shorter(reserved) ==
    {[id |-> r.id, left |-> r.left - 1] : r \in {q \in reserved : q.left > 1}}

Aged(st) ==
    [st EXCEPT !.next = Less(@, 1), !.cool = Less(@, 1), !.probe = Less(@, 1),
               !.clear = IF @ = None THEN None ELSE Less(@, 1),
               !.sent = Older(@), !.reserved = Shorter(@)]

Tick ==
    /\ \A id \in InFlight : turns[id].age < MaxFlight
    /\ file' = IF file \in State THEN Aged(file) ELSE file
    /\ cache' = [g \in Gates |-> IF cache[g] = None THEN None ELSE Aged(cache[g])]
    /\ turns' = [id \in Ids |->
                   IF id \in InFlight THEN [turns[id] EXCEPT !.age = @ + 1] ELSE None]
    /\ arrivals' = Older(arrivals) /\ overdue' = Older(overdue)
    /\ grants' = Older(grants)
    /\ penalty' = Less(penalty, 1) /\ hold' = Less(hold, 1)
    /\ UNCHANGED <<unflushed, restarts, damages>>

Init ==
    /\ file = Missing
    /\ cache = [g \in Gates |-> None]
    /\ unflushed = [g \in Gates |-> 0]
    /\ turns = [id \in Ids |-> None]
    /\ arrivals = <<>> /\ overdue = <<>> /\ grants = <<>>
    /\ penalty = 0 /\ hold = 0 /\ restarts = 0 /\ damages = 0

Response(id) ==
    \E remaining \in Remainings :
        \/ Observe(id, remaining)
        \/ \E after \in RetryAfters : Observe429(id, remaining, after)

Turn == \E g \in Gates, id \in Ids : Acquire(g, id)

Next ==
    \/ Turn
    \/ \E g \in Gates : Poll(g) \/ Restart(g)
    \/ \E id \in Ids : Arrive(id) \/ Response(id) \/ Release(id)
    \/ Damage
    \/ Tick

Spec == Init /\ [][Next]_vars

(* Time passes, a script with work asks again (acquire loops), and every   *)
(* request ends: the HTTP client has a timeout.                            *)
FairSpec ==
    /\ Spec
    /\ WF_vars(Tick)
    /\ WF_vars(Turn)
    /\ \A id \in Ids : WF_vars(Release(id))
-----------------------------------------------------------------------------
(* Properties                                                              *)

(* "The fastest even pace that stays inside that allowance": over any      *)
(* rolling window no more turns are handed out than the larger of the two  *)
(* limits, whatever the order of requests, responses and restarts (a new   *)
(* gate continues from the file).                                          *)
PaceKept == damages = 0 => Len(grants) <= Ceiling

(* While one gate object lives, the server itself counts no more than that *)
(* in a window, however much the requests are delayed between the turn and *)
(* the server (_self_cap_wait), but for those that outlast their           *)
(* reservation: acquire forgets such a request while it is under way, so   *)
(* each costs at most one more, until a window after its end.              *)
AllowanceKept ==
    restarts = 0 /\ damages = 0 =>
        Len(arrivals) <= Ceiling + Cardinality(Lapsed) + Len(overdue)

(* One turn probes an empty bucket, and one turn follows a damaged file,   *)
(* until an answer comes back, the probe gap is over, or the window that   *)
(* made the count empty has passed (clear_at): "everyone else waits", "it  *)
(* does not reopen the whole hour".  Only a turn that ended without an     *)
(* answer, and so gave back its share of a known count, lets another in.   *)
OneProbe ==
    [][\A g \in Gates, id \in Ids :
          Acquire(g, id) =>
             LET st == Current(g) IN
             hold = 0 \/ st.clear = 0 \/ (st.remaining # None /\ HasBudget(st))]_vars

(* No turn starts before the pause a 429 asked for (capped at the window)  *)
(* is over, also after a restart.                                          *)
CooldownHonoured == [][Turn => penalty = 0 \/ damages > 0]_vars

(* The turnstile never closes for good: 429s, an empty remaining-count,    *)
(* abandoned turns and a file that is not JSON are all waited out.  A file *)
(* that is not UTF-8 is not, once no gate lives to write over it: every    *)
(* script fails at its first turn until somebody removes the file.         *)
TurnsKeepComing ==
    \/ []<><<Turn>>_vars
    \/ <>[](\A g \in Gates : ~Loads(g))
-----------------------------------------------------------------------------
(* The inductive invariant behind the theorems.  What holds of the shared  *)
(* file and the gate is promised for one gate object at a time.            *)

OneGate == \E g \in Gates : Gates = {g}

(* Logs are in the order of their stamps; there are finitely many turns.   *)
InOrder(log) == \A i, j \in DOMAIN log : i <= j => log[i] >= log[j]
Orderly(st) == InOrder(st.sent) /\ IsFiniteSet(st.reserved)

LogInv ==
    /\ InOrder(arrivals) /\ InOrder(overdue) /\ InOrder(grants)
    /\ file \in State => Orderly(file)
    /\ \A g \in Gates : cache[g] # None => Orderly(cache[g])
    /\ IsFiniteSet(InFlight)

(* What the gate has in memory is on file too, the log at times excepted.  *)
FileInv ==
    /\ file \in Damaged => damages > 0 /\ hold = 0
    /\ file = Missing => \A g \in Gates : cache[g] = None
    /\ \A g \in Gates : cache[g] # None /\ file \in State =>
          file = cache[g] \/ file = [cache[g] EXCEPT !.sent = <<>>]
    /\ \A g \in Gates : cache[g] = None /\ file \in State => restarts > 0 \/ damages > 0

(* Any two turns are as far apart as the pace asks, and so is the next.    *)
Pace == Window \div Ceiling
PaceInv ==
    damages = 0 =>
        \A i \in DOMAIN grants :
            /\ grants[i] >= (Len(grants) - i) * Pace
            /\ \A g \in Gates :
                  grants[i] + Current(g).next >= (Len(grants) - i + 1) * Pace

(* A reservation for every request in flight that has not outlasted it; a  *)
(* stamp for every one that did and has ended; and for every arrival that  *)
(* is not in flight a stamp that is no older.                              *)
Prompt == InFlight \ Lapsed
Among(part, log) ==
    \E f \in Injection(DOMAIN part, DOMAIN log) : \A i \in DOMAIN part : part[i] = log[f[i]]
Arrived == {id \in InFlight : turns[id].arrived}
Youngest(log, j) == log[Len(log) - j + 1]
Covered(sent, k) ==
    \A j \in DOMAIN arrivals : j > k =>
        /\ j - k <= Len(sent)
        /\ Youngest(sent, j - k) <= Youngest(arrivals, j)

AllowanceInv ==
    restarts = 0 /\ damages = 0 =>
        \A g \in Gates :
            LET st == Current(g) IN
            /\ st.reserved = {[id |-> id, left |-> Ttl - turns[id].age] : id \in Prompt}
            /\ Among(overdue, st.sent)
            /\ Len(st.sent) + Cardinality(Prompt) <= Ceiling + Len(overdue)
            /\ Covered(st.sent, Cardinality(Arrived))

CoolInv == damages = 0 => \A g \in Gates : Current(g).cool >= penalty

ProbeInv ==
    hold > 0 => \A g \in Gates :
        LET st == Current(g) IN ~st.allow /\ st.probe >= hold /\ st.remaining # None

IInv ==
    /\ TypeOK /\ LogInv
    /\ OneGate => FileInv /\ PaceInv /\ AllowanceInv /\ CoolInv /\ ProbeInv
=============================================================================
