--------------------------- MODULE RateGateProofs ---------------------------
(***************************************************************************)
(* Theorems about RateGate, for any window, limits, cushion, probe gap,    *)
(* TTL, flight time and flushing rule, any turn ids, and any number of     *)
(* restarts and damaged files.                                             *)
(***************************************************************************)
EXTENDS RateGate, FiniteSetTheorems, WellFoundedInduction, TLAPS

-----------------------------------------------------------------------------
(* Arithmetic of the pace                                                  *)

(* A larger limit has a shorter interval, when both divide the window.     *)
LEMMA DivisorOrder ==
    ASSUME NEW w \in Nat, NEW f \in Nat \ {0}, NEW s \in Nat \ {0}, f <= s,
           NEW a \in Nat, NEW b \in Nat, w = f * a, w = s * b
    PROVE  b <= a
<1> SUFFICES ASSUME a + 1 <= b PROVE FALSE
  OBVIOUS
<1>1. f * b <= s * b
  <2>1. PICK d \in Nat : s = f + d
    <3>1. s - f \in Nat /\ s = f + (s - f)
      OBVIOUS
    <3> QED BY <3>1
  <2>2. (f + d) * b = f * b + d * b
    OBVIOUS
  <2>3. d * b >= 0
    OBVIOUS
  <2> QED BY <2>1, <2>2, <2>3
<1>2. f * (a + 1) <= f * b
  <2>1. PICK d \in Nat : b = a + 1 + d
    <3>1. b - (a + 1) \in Nat /\ b = a + 1 + (b - (a + 1))
      OBVIOUS
    <3> QED BY <3>1
  <2>2. f * (a + 1 + d) = f * (a + 1) + f * d
    OBVIOUS
  <2>3. f * d >= 0
    OBVIOUS
  <2> QED BY <2>1, <2>2, <2>3
<1>3. f * (a + 1) = f * a + f
  OBVIOUS
<1> QED BY <1>1, <1>2, <1>3

(* The interval of a state is at least the pace and fits in the window; as *)
(* many paces as the larger limit fill the window.                         *)
LEMMA PaceFacts ==
    /\ Window \in Nat \ {0} /\ ServerLimit \in Nat \ {0} /\ FallbackLimit \in Nat \ {0}
    /\ Ceiling \in Nat \ {0} /\ FallbackLimit <= Ceiling /\ ServerLimit <= Ceiling
    /\ Pace \in Nat \ {0} /\ Window = Ceiling * Pace
    /\ \A l \in {FallbackLimit, ServerLimit} :
          Window \div l \in Nat /\ Pace <= Window \div l /\ Window \div l <= Window
<1>1. /\ Window \in Nat \ {0}
      /\ ServerLimit \in Nat \ {0} /\ FallbackLimit \in Nat \ {0}
      /\ Window % FallbackLimit = 0 /\ Window % ServerLimit = 0
  BY TimeAssumption, LimitAssumption
<1>2. /\ Ceiling \in {FallbackLimit, ServerLimit} /\ Ceiling \in Nat \ {0}
      /\ FallbackLimit <= Ceiling /\ ServerLimit <= Ceiling
  BY <1>1 DEF Ceiling, Larger
<1>3. ASSUME NEW l \in Nat \ {0}, Window % l = 0
      PROVE  Window \div l \in Nat /\ Window = l * (Window \div l)
  BY <1>1, <1>3
<1>4. ASSUME NEW l \in Nat \ {0}, NEW a \in Nat, Window = l * a
      PROVE  a <= Window /\ a # 0
  <2>1. PICK d \in Nat : l = 1 + d
    <3>1. l - 1 \in Nat /\ l = 1 + (l - 1)
      OBVIOUS
    <3> QED BY <3>1
  <2>2. (1 + d) * a = a + d * a
    OBVIOUS
  <2>3. d * a >= 0
    OBVIOUS
  <2> QED BY <1>1, <1>4, <2>1, <2>2, <2>3
<1>5. Pace \in Nat /\ Window = Ceiling * Pace
  BY <1>1, <1>2, <1>3 DEF Pace
<1>6. ASSUME NEW l \in {FallbackLimit, ServerLimit}
      PROVE  Window \div l \in Nat /\ Pace <= Window \div l /\ Window \div l <= Window
  <2>1. l \in Nat \ {0} /\ l <= Ceiling /\ Window % l = 0
    BY <1>1, <1>2
  <2>2. Window \div l \in Nat /\ Window = l * (Window \div l)
    BY <1>3, <2>1
  <2> QED BY <1>1, <1>2, <1>4, <1>5, <2>1, <2>2, DivisorOrder
<1> QED BY <1>1, <1>2, <1>4, <1>5, <1>6

(* Larger, Smaller and Less are what they are called.                      *)
LEMMA Arithmetic ==
    ASSUME NEW a \in Nat, NEW b \in Nat
    PROVE  /\ Larger(a, b) \in Nat /\ Larger(a, b) >= a /\ Larger(a, b) >= b
           /\ Larger(a, b) \in {a, b}
           /\ Smaller(a, b) \in Nat /\ Smaller(a, b) <= a /\ Smaller(a, b) <= b
           /\ Less(a, b) \in Nat /\ Less(a, b) <= a /\ Less(a, b) + b >= a
BY DEF Larger, Smaller, Less
-----------------------------------------------------------------------------
(* Logs                                                                    *)

(* Every set of numbers that is not empty has a least one.                 *)
LEMMA LeastExists ==
    ASSUME NEW S \in SUBSET Nat, S # {}
    PROVE  \E x \in S : \A y \in S : x <= y
<1>1. PICK x \in S : \A y \in S : ~(<<y, x>> \in OpToRel(<, Nat))
  BY WFMin, NatLessThanWellFounded
<1>2. ASSUME NEW y \in S PROVE x <= y
  <2>1. x \in Nat /\ y \in Nat
    OBVIOUS
  <2>2. ~(y < x)
    BY <1>1, <2>1 DEF OpToRel
  <2> QED BY <2>1, <2>2
<1> QED BY <1>2

(* A part of 1..n that is closed upwards is its last elements.             *)
LEMMA LastOnes ==
    ASSUME NEW n \in Nat, NEW K \in SUBSET (1..n),
           \A i, j \in 1..n : i \in K /\ i <= j => j \in K
    PROVE  /\ Cardinality(K) \in 0..n
           /\ K = (n - Cardinality(K) + 1)..n
<1>1. CASE K = {}
  <2>1. Cardinality(K) = 0
    BY <1>1, FS_EmptySet
  <2> QED BY <1>1, <2>1
<1>2. CASE K # {}
  <2>1. PICK a \in K : \A y \in K : a <= y
    <3>1. K \in SUBSET Nat
      OBVIOUS
    <3> QED BY <1>2, <3>1, LeastExists
  <2>2. a \in 1..n /\ K = a..n
    <3>1. a \in 1..n
      OBVIOUS
    <3>2. \A y \in K : y \in a..n
      BY <2>1
    <3>3. \A y \in a..n : y \in 1..n /\ a <= y
      BY <3>1
    <3>4. \A y \in a..n : y \in K
      BY <3>1, <3>3
    <3> QED BY <3>1, <3>2, <3>4
  <2>3. Cardinality(a..n) = n - a + 1
    BY <2>2, FS_Interval
  <2>4. Cardinality(K) = n - a + 1
    BY <2>2, <2>3
  <2> QED BY <2>2, <2>4
<1> QED BY <1>1, <1>2

(* Ageing a log in order drops its beginning and makes the rest one older. *)
LEMMA OlderShape ==
    ASSUME NEW log \in Seq(Ages), InOrder(log),
           NEW older, older = Older(log)
    PROVE  /\ older \in Seq(Ages) /\ InOrder(older)
           /\ Len(log) \in Nat /\ Len(older) \in 0..Len(log)
           /\ \A i \in 1..Len(older) :
                 /\ i + (Len(log) - Len(older)) \in 1..Len(log)
                 /\ older[i] = log[i + (Len(log) - Len(older))] + 1
           /\ \A i \in 1..Len(log) :
                 i > Len(log) - Len(older) <=> log[i] + 1 < Window
<1> DEFINE n == Len(log)
           K == {i \in DOMAIN log : log[i] + 1 < Window}
           kept == Cardinality(K)
           gone == n - kept
<1>0. Window \in Nat
  BY PaceFacts
<1>1. n \in Nat /\ DOMAIN log = 1..n /\ \A i \in 1..n : log[i] \in Nat /\ log[i] \in Ages
  BY <1>0 DEF Ages
<1>2. K \in SUBSET (1..n)
  BY <1>1
<1>3. \A i, j \in 1..n : i \in K /\ i <= j => j \in K
  <2> SUFFICES ASSUME NEW i \in 1..n, NEW j \in 1..n, i \in K, i <= j
               PROVE  j \in K
    OBVIOUS
  <2>1. log[i] >= log[j] /\ log[i] + 1 < Window
    BY <1>1 DEF InOrder
  <2> QED BY <1>0, <1>1, <2>1
<1>4. kept \in 0..n /\ K = (n - kept + 1)..n
  BY <1>1, <1>2, <1>3, LastOnes
<1>5. older = [i \in 1..kept |-> log[i + gone] + 1]
  BY DEF Older
<1>6. \A i \in 1..n : i > gone <=> log[i] + 1 < Window
  <2> SUFFICES ASSUME NEW i \in 1..n PROVE i > gone <=> i \in K
    BY <1>1
  <2> HIDE DEF K, n
  <2> QED BY <1>1, <1>4
<1> HIDE DEF K, n, kept
<1>7. gone \in 0..n /\ \A i \in 1..kept : i + gone \in 1..n /\ i + gone > gone
  BY <1>1, <1>4
<1>8. \A i \in 1..kept : log[i + gone] + 1 \in Ages /\ log[i + gone] \in Nat
  <2>1. \A m \in 1..n : m > gone => log[m] + 1 \in 0..(Window - 1) /\ log[m] \in Nat
    BY <1>0, <1>1, <1>6
  <2> HIDE DEF gone
  <2> QED BY <1>7, <2>1 DEF Ages
<1>9. older \in Seq(Ages) /\ Len(older) = kept
  <2>1. kept \in Nat
    BY <1>1, <1>4
  <2> HIDE DEF gone
  <2>2. older \in [1..kept -> Ages]
    BY <1>5, <1>8
  <2> QED BY <2>1, <2>2
<1>10. \A i \in 1..kept : older[i] = log[i + gone] + 1
  BY <1>5
<1>11. InOrder(older)
  <2> SUFFICES ASSUME NEW i \in 1..kept, NEW j \in 1..kept, i <= j
               PROVE  older[i] >= older[j]
    BY <1>9 DEF InOrder
  <2>1. log[i + gone] >= log[j + gone]
    BY <1>1, <1>7 DEF InOrder
  <2> QED BY <1>8, <1>10, <2>1
<1>12. n - kept = gone /\ kept \in 0..n
  BY <1>4
<1> QED BY <1>1, <1>6, <1>7, <1>9, <1>10, <1>11, <1>12 DEF n

(* A stamp of now keeps a log in order.                                    *)
LEMMA AppendNow ==
    ASSUME NEW log \in Seq(Ages), InOrder(log)
    PROVE  /\ Append(log, 0) \in Seq(Ages) /\ InOrder(Append(log, 0))
           /\ Len(log) \in Nat /\ Len(Append(log, 0)) = Len(log) + 1
           /\ Append(log, 0)[Len(log) + 1] = 0
           /\ \A i \in 1..Len(log) : Append(log, 0)[i] = log[i] /\ log[i] \in Nat
<1>0. Window \in Nat \ {0} /\ 0 \in Ages
  BY PaceFacts DEF Ages
<1>1. /\ Append(log, 0) \in Seq(Ages) /\ Len(log) \in Nat
      /\ Len(Append(log, 0)) = Len(log) + 1
      /\ Append(log, 0)[Len(log) + 1] = 0
      /\ \A i \in 1..Len(log) : Append(log, 0)[i] = log[i]
  BY <1>0
<1>2. \A i \in 1..Len(log) : log[i] \in Nat
  BY <1>0 DEF Ages
<1>3. InOrder(Append(log, 0))
  <2> SUFFICES ASSUME NEW i \in 1..(Len(log) + 1), NEW j \in 1..(Len(log) + 1), i <= j
               PROVE  Append(log, 0)[i] >= Append(log, 0)[j]
    BY <1>1 DEF InOrder
  <2>1. CASE j = Len(log) + 1
    BY <1>1, <1>2, <2>1
  <2>2. CASE j # Len(log) + 1
    <3>1. i \in 1..Len(log) /\ j \in 1..Len(log)
      BY <1>1, <2>2
    <3> QED BY <1>1, <3>1 DEF InOrder
  <2> QED BY <2>1, <2>2
<1> QED BY <1>1, <1>2, <1>3

(* What is in the aged log, counted from its end: the stamps of less than  *)
(* a window, one older.                                                    *)
LEMMA OlderYoungest ==
    ASSUME NEW log \in Seq(Ages), InOrder(log), NEW older, older = Older(log),
           NEW j \in 1..Len(log)
    PROVE  /\ j <= Len(older) <=> Youngest(log, j) + 1 < Window
           /\ j <= Len(older) => Youngest(older, j) = Youngest(log, j) + 1
           /\ Youngest(log, j) \in Nat
<1> DEFINE n == Len(log)
           k == Len(older)
<1>0. Window \in Nat \ {0}
  BY PaceFacts
<1>1. /\ n \in Nat /\ k \in 0..n
      /\ \A i \in 1..k : older[i] = log[i + (n - k)] + 1
      /\ \A i \in 1..n : i > n - k <=> log[i] + 1 < Window
  BY OlderShape
<1>2. \A i \in 1..n : log[i] \in Nat
  BY <1>0 DEF Ages
<1>3. Youngest(log, j) = log[n - j + 1] /\ Youngest(older, j) = older[k - j + 1]
  BY DEF Youngest
<1>4. j \in 1..n
  OBVIOUS
<1> HIDE DEF n, k
<1>5. n - j + 1 \in 1..n /\ (j <= k <=> n - j + 1 > n - k)
  BY <1>1, <1>4
<1>6. ASSUME j <= k PROVE older[k - j + 1] = log[n - j + 1] + 1
  <2>1. k - j + 1 \in 1..k /\ (k - j + 1) + (n - k) = n - j + 1
    BY <1>1, <1>4, <1>6
  <2> QED BY <1>1, <2>1
<1> QED BY <1>1, <1>2, <1>3, <1>5, <1>6 DEF k
(* A part of a log stays one when both get a stamp of now, or the log only. *)
LEMMA AmongNow ==
    ASSUME NEW log \in Seq(Ages), NEW part \in Seq(Ages), Among(part, log),
           NEW longer, longer = Append(log, 0), NEW more, more = Append(part, 0)
    PROVE  Among(part, longer) /\ Among(more, longer)
<1>1. PICK f \in Injection(DOMAIN part, DOMAIN log) :
         \A i \in DOMAIN part : part[i] = log[f[i]]
  BY DEF Among
<1>2. PICK n, m : n = Len(log) /\ m = Len(part)
  OBVIOUS
<1>3. /\ n \in Nat /\ m \in Nat /\ DOMAIN log = 1..n /\ DOMAIN part = 1..m
      /\ DOMAIN longer = 1..(n + 1) /\ DOMAIN more = 1..(m + 1)
      /\ longer[n + 1] = 0 /\ more[m + 1] = 0
      /\ \A i \in 1..n : longer[i] = log[i]
      /\ \A i \in 1..m : more[i] = part[i]
  BY <1>2, PaceFacts DEF Ages
<1>4. /\ \A i \in 1..m : f[i] \in 1..n /\ part[i] = log[f[i]]
      /\ \A i, j \in 1..m : f[i] = f[j] => i = j
  BY <1>1, <1>3 DEF Injection, IsInjective
<1>5. Among(part, longer)
  <2>1. f \in Injection(1..m, 1..(n + 1))
    <3>1. f \in [1..m -> 1..(n + 1)]
      BY <1>1, <1>3, <1>4 DEF Injection, IsInjective
    <3> QED BY <1>4, <3>1 DEF Injection, IsInjective
  <2>2. \A i \in DOMAIN part : part[i] = longer[f[i]]
    BY <1>3, <1>4
  <2>3. f \in Injection(DOMAIN part, DOMAIN longer)
    BY <1>3, <2>1
  <2> QED BY ONLY <2>2, <2>3, Zenon DEF Among
<1>6. Among(more, longer)
  <2> DEFINE h == [i \in 1..(m + 1) |-> IF i = m + 1 THEN n + 1 ELSE f[i]]
  <2>1. \A i \in 1..(m + 1) : i # m + 1 => i \in 1..m
    BY <1>3
  <2>2. \A i \in 1..(m + 1) : h[i] \in 1..(n + 1)
    BY <1>3, <1>4, <2>1
  <2>3. \A i, j \in 1..(m + 1) : h[i] = h[j] => i = j
    <3>1. \A i \in 1..m : f[i] # n + 1
      BY <1>3, <1>4
    <3> QED BY <1>4, <2>1, <3>1
  <2>4. \A i \in 1..(m + 1) : more[i] = longer[h[i]]
    BY <1>3, <1>4, <2>1
  <2>5. h \in [1..(m + 1) -> 1..(n + 1)]
    BY <2>2
  <2> HIDE DEF h
  <2>6. h \in Injection(1..(m + 1), 1..(n + 1))
    BY <2>3, <2>5 DEF Injection, IsInjective
  <2>7. h \in Injection(DOMAIN more, DOMAIN longer) /\ \A i \in DOMAIN more : more[i] = longer[h[i]]
    BY <1>3, <2>4, <2>6
  <2> QED BY ONLY <2>7, Zenon DEF Among
<1> QED BY <1>5, <1>6

(* It stays one as both grow older, and loses no more stamps than the log. *)
LEMMA AmongOlder ==
    ASSUME NEW log \in Seq(Ages), InOrder(log), NEW part \in Seq(Ages), InOrder(part),
           Among(part, log), NEW older, older = Older(log), NEW rest, rest = Older(part)
    PROVE  /\ Among(rest, older)
           /\ Len(older) + Len(part) <= Len(log) + Len(rest)
           /\ Len(part) \in Nat /\ Len(rest) \in Nat
<1>1. PICK f \in Injection(DOMAIN part, DOMAIN log) :
         \A i \in DOMAIN part : part[i] = log[f[i]]
  BY DEF Among
<1>2. PICK n, m, k, l, a, b : /\ n = Len(log) /\ m = Len(part)
                              /\ k = Len(older) /\ l = Len(rest)
                              /\ a = n - k /\ b = m - l
  OBVIOUS
<1>3. /\ n \in Nat /\ k \in 0..n /\ DOMAIN log = 1..n /\ older \in Seq(Ages)
      /\ \A i \in 1..k : i + a \in 1..n /\ older[i] = log[i + a] + 1
      /\ \A i \in 1..n : i > a <=> log[i] + 1 < Window
  <2>1. /\ older \in Seq(Ages) /\ Len(log) \in Nat /\ Len(older) \in 0..Len(log)
        /\ \A i \in 1..Len(older) :
              /\ i + (Len(log) - Len(older)) \in 1..Len(log)
              /\ older[i] = log[i + (Len(log) - Len(older))] + 1
        /\ \A i \in 1..Len(log) :
              i > Len(log) - Len(older) <=> log[i] + 1 < Window
    BY OlderShape
  <2>2. DOMAIN log = 1..Len(log)
    OBVIOUS
  <2> QED BY ONLY <1>2, <2>1, <2>2
<1>4. /\ m \in Nat /\ l \in 0..m /\ DOMAIN part = 1..m /\ rest \in Seq(Ages)
      /\ \A i \in 1..l : i + b \in 1..m /\ rest[i] = part[i + b] + 1
      /\ \A i \in 1..m : i > b <=> part[i] + 1 < Window
  <2>1. /\ rest \in Seq(Ages) /\ Len(part) \in Nat /\ Len(rest) \in 0..Len(part)
        /\ \A i \in 1..Len(rest) :
              /\ i + (Len(part) - Len(rest)) \in 1..Len(part)
              /\ rest[i] = part[i + (Len(part) - Len(rest))] + 1
        /\ \A i \in 1..Len(part) :
              i > Len(part) - Len(rest) <=> part[i] + 1 < Window
    BY OlderShape
  <2>2. DOMAIN part = 1..Len(part)
    OBVIOUS
  <2> QED BY ONLY <1>2, <2>1, <2>2
<1>5. /\ \A i \in 1..m : f[i] \in 1..n /\ part[i] = log[f[i]]
      /\ \A i, j \in 1..m : f[i] = f[j] => i = j
  BY <1>1, <1>3, <1>4 DEF Injection, IsInjective
<1>6. /\ a \in Nat /\ b \in Nat /\ a + k = n /\ b + l = m
      /\ DOMAIN older = 1..k /\ DOMAIN rest = 1..l
  BY <1>2, <1>3, <1>4
<1>7. \A i \in 1..m : i > b <=> f[i] > a
  BY <1>3, <1>4, <1>5
<1>8. Among(rest, older)
  <2> DEFINE h == [i \in 1..l |-> f[i + b] - a]
  <2>1. ASSUME NEW i \in 1..l
        PROVE  i + b \in 1..m /\ f[i + b] \in 1..n /\ f[i + b] > a /\ h[i] \in 1..k
    <3>1. i + b \in 1..m /\ i + b > b
      BY <1>4, <1>6
    <3>2. f[i + b] \in 1..n /\ f[i + b] > a
      BY <1>5, <1>7, <3>1
    <3>3. f[i + b] - a \in 1..k
      BY <1>3, <1>6, <3>2
    <3> QED BY <3>1, <3>2, <3>3
  <2>2. ASSUME NEW i \in 1..l, NEW j \in 1..l, h[i] = h[j] PROVE i = j
    <3>1. f[i + b] = f[j + b]
      <4>1. h[i] = f[i + b] - a /\ h[j] = f[j + b] - a
        OBVIOUS
      <4>2. f[i + b] - a = f[j + b] - a
        BY <2>2, <4>1
      <4>3. f[i + b] \in Nat /\ f[j + b] \in Nat
        BY <1>3, <2>1, SMTT(30)
      <4>4. PICK x, y : x = f[i + b] /\ y = f[j + b]
        OBVIOUS
      <4>5. x \in Nat /\ y \in Nat /\ a \in Nat /\ x - a = y - a
        BY <1>6, <4>2, <4>3, <4>4
      <4>6. x = y
        BY ONLY <4>5
      <4> QED BY <4>4, <4>6
    <3>2. i + b = j + b
      BY <1>5, <2>1, <3>1
    <3> QED BY <1>6, <3>2
  <2>3. ASSUME NEW i \in 1..l PROVE rest[i] = older[h[i]]
    <3>1. rest[i] = part[i + b] + 1 /\ part[i + b] = log[f[i + b]]
      BY <1>4, <1>5, <2>1
    <3>2. h[i] + a = f[i + b] /\ h[i] \in 1..k
      BY <1>6, <2>1
    <3>3. older[h[i]] = log[h[i] + a] + 1
      BY <1>3, <3>2
    <3> QED BY <3>1, <3>2, <3>3
  <2>4. h \in [1..l -> 1..k]
    BY <2>1
  <2> HIDE DEF h
  <2>5. h \in Injection(1..l, 1..k)
    BY <2>2, <2>4 DEF Injection, IsInjective
  <2>6. h \in Injection(DOMAIN rest, DOMAIN older) /\ \A i \in DOMAIN rest : rest[i] = older[h[i]]
    BY <1>6, <2>3, <2>5
  <2> QED BY ONLY <2>6, Zenon DEF Among
<1>9. b <= a
  <2> DEFINE h == [i \in 1..b |-> f[i]]
  <2>1. ASSUME NEW i \in 1..b PROVE i \in 1..m /\ f[i] \in 1..a
    <3>1. i \in 1..m /\ ~(i > b)
      BY <1>4, <1>6
    <3>2. f[i] \in 1..n /\ ~(f[i] > a)
      BY <1>5, <1>7, <3>1
    <3> QED BY <1>6, <3>1, <3>2
  <2>2. \A i, j \in 1..b : h[i] = h[j] => i = j
    BY <1>5, <2>1
  <2>3. h \in [1..b -> 1..a]
    BY <2>1
  <2> HIDE DEF h
  <2>4. h \in Injection(1..b, 1..a)
    BY <2>2, <2>3 DEF Injection, IsInjective
  <2>5. Cardinality(1..b) <= Cardinality(1..a)
    BY <1>6, <2>4, FS_Injection, FS_Interval
  <2>6. Cardinality(1..b) = b /\ Cardinality(1..a) = a
    BY <1>6, FS_Interval
  <2> QED BY <2>5, <2>6
<1>10. k + m <= n + l
  BY <1>3, <1>4, <1>6, <1>9
<1> QED BY <1>2, <1>4, <1>8, <1>10
-----------------------------------------------------------------------------
(* States                                                                  *)

(* The fields of a state.                                                  *)
LEMMA Fields ==
    ASSUME NEW st \in State
    PROVE  /\ st.limit \in {FallbackLimit, ServerLimit} /\ st.limit \in Nat \ {0}
           /\ st.next \in 0..Window /\ st.next \in Nat
           /\ st.cool \in 0..Window /\ st.cool \in Nat
           /\ st.probe \in 0..ProbeGap /\ st.probe \in Nat
           /\ st.clear \in 0..Window \cup {None} /\ st.allow \in BOOLEAN
           /\ st.remaining \in Nat \cup {None} /\ st.sent \in Seq(Ages)
           /\ Len(st.sent) \in Nat
           /\ st.reserved \in SUBSET [id : Ids, left : 1..Ttl]
           /\ st # None /\ st # Missing /\ st \notin Damaged
<1>1. /\ st.limit \in {FallbackLimit, ServerLimit} /\ st.next \in 0..Window
      /\ st.cool \in 0..Window /\ st.probe \in 0..ProbeGap
      /\ st.clear \in 0..Window \cup {None} /\ st.allow \in BOOLEAN
      /\ st.remaining \in Nat \cup {None} /\ st.sent \in Seq(Ages)
      /\ st.reserved \in SUBSET [id : Ids, left : 1..Ttl]
  BY DEF State
<1>2. st # None /\ st # Missing /\ st \notin Damaged
  BY NoneAssumption DEF Damaged
<1>3. Window \in Nat /\ ProbeGap \in Nat
  BY TimeAssumption
<1>4. st.limit \in Nat \ {0}
  BY <1>1, PaceFacts
<1> QED BY <1>1, <1>2, <1>3, <1>4

(* A state is its fields.                                                  *)
LEMMA SameState ==
    ASSUME NEW s \in State, NEW t \in State,
           s.limit = t.limit, s.next = t.next, s.cool = t.cool, s.probe = t.probe,
           s.clear = t.clear, s.allow = t.allow, s.remaining = t.remaining,
           s.sent = t.sent, s.reserved = t.reserved
    PROVE  s = t
BY DEF State

(* Reservations one tick later.                                            *)
LEMMA ShorterFacts ==
    ASSUME NEW reserved \in SUBSET [id : Ids, left : 1..Ttl], IsFiniteSet(reserved)
    PROVE  /\ Shorter(reserved) \in SUBSET [id : Ids, left : 1..Ttl]
           /\ IsFiniteSet(Shorter(reserved))
<1> DEFINE Long == {q \in reserved : q.left > 1}
           f == [q \in Long |-> [id |-> q.id, left |-> q.left - 1]]
<1>0. Ttl \in Nat
  BY TimeAssumption
<1>1. Shorter(reserved) \in SUBSET [id : Ids, left : 1..Ttl]
  BY <1>0 DEF Shorter
<1>2. IsFiniteSet(Long)
  BY FS_Subset
<1>3. f \in Surjection(Long, Shorter(reserved))
  BY DEF Shorter, Surjection
<1> QED BY <1>1, <1>2, <1>3, FS_Surjection

(* An empty log stays empty.                                               *)
LEMMA OlderEmpty == Older(<<>>) = <<>>
<1> DEFINE older == Older(<<>>)
<1>1. <<>> \in Seq(Ages) /\ InOrder(<<>>)
  BY DEF InOrder
<1>2. older \in Seq(Ages) /\ Len(older) \in 0..Len(<<>>)
  BY <1>1, OlderShape
<1> HIDE DEF older
<1>3. older = <<>>
  BY <1>2
<1> QED BY <1>3 DEF older

(* A state one tick later, field by field.                                 *)
LEMMA AgedState ==
    ASSUME NEW st \in State, Orderly(st), NEW aged, aged = Aged(st)
    PROVE  /\ aged \in State /\ Orderly(aged)
           /\ aged.limit = st.limit
           /\ aged.next = Less(st.next, 1) /\ aged.cool = Less(st.cool, 1)
           /\ aged.probe = Less(st.probe, 1)
           /\ aged.clear = IF st.clear = None THEN None ELSE Less(st.clear, 1)
           /\ aged.allow = st.allow /\ aged.remaining = st.remaining
           /\ aged.sent = Older(st.sent) /\ aged.reserved = Shorter(st.reserved)
<1> DEFINE c == IF st.clear = None THEN None ELSE Less(st.clear, 1)
           older == Older(st.sent)
           shorter == Shorter(st.reserved)
<1>1. older \in Seq(Ages) /\ InOrder(older)
  BY Fields, OlderShape DEF Orderly
<1>2. shorter \in SUBSET [id : Ids, left : 1..Ttl] /\ IsFiniteSet(shorter)
  BY Fields, ShorterFacts DEF Orderly
<1>3. \A n \in Nat : \A m \in 0..n : Less(m, 1) \in 0..n
  BY DEF Less
<1>4. Less(st.next, 1) \in 0..Window /\ Less(st.cool, 1) \in 0..Window
  BY <1>3, Fields, TimeAssumption
<1>5. Less(st.probe, 1) \in 0..ProbeGap
  BY <1>3, Fields, TimeAssumption
<1>6. c \in 0..Window \cup {None}
  BY <1>3, Fields, TimeAssumption
<1>7. aged = [st EXCEPT !.next = Less(st.next, 1), !.cool = Less(st.cool, 1),
                        !.probe = Less(st.probe, 1), !.clear = c,
                        !.sent = older, !.reserved = shorter]
  BY DEF Aged
<1> HIDE DEF c, older, shorter
<1>8. aged \in State
  BY <1>1, <1>2, <1>4, <1>5, <1>6, <1>7 DEF State
<1>9. /\ aged.limit = st.limit
      /\ aged.next = Less(st.next, 1) /\ aged.cool = Less(st.cool, 1)
      /\ aged.probe = Less(st.probe, 1) /\ aged.clear = c
      /\ aged.allow = st.allow /\ aged.remaining = st.remaining
      /\ aged.sent = older /\ aged.reserved = shorter
  BY <1>7 DEF State
<1> QED BY <1>1, <1>2, <1>8, <1>9 DEF Orderly, c, older, shorter

(* The states of a missing and of a damaged file.                          *)
LEMMA FirstStates ==
    /\ Fresh \in State /\ Orderly(Fresh)
    /\ Closed \in State /\ Orderly(Closed)
    /\ Fresh.reserved = {} /\ Fresh.sent = <<>> /\ Fresh.next = 0 /\ Fresh.cool = 0
    /\ Closed.reserved = {} /\ Closed.remaining = Safety /\ Safety \in Nat
    /\ ~Closed.allow /\ Aged(Fresh) = Fresh /\ Aged(Closed) = Closed
<1>1. Window \in Nat /\ ProbeGap \in Nat /\ Safety \in Nat
  BY TimeAssumption, LimitAssumption
<1>2. <<>> \in Seq(Ages) /\ {} \in SUBSET [id : Ids, left : 1..Ttl] /\ IsFiniteSet({})
  BY FS_EmptySet
<1>3. Fresh \in State /\ Closed \in State
  <2>1. 0 \in 0..Window /\ 0 \in 0..ProbeGap
    BY <1>1
  <2>2. Fresh \in State
    BY <1>2, <2>1 DEF Fresh, State
  <2> QED BY <1>1, <2>2 DEF Closed, State
<1>4. InOrder(<<>>)
  BY DEF InOrder
<1>5. /\ Fresh.reserved = {} /\ Fresh.sent = <<>> /\ Fresh.next = 0 /\ Fresh.cool = 0
      /\ Closed.reserved = {} /\ Closed.sent = <<>> /\ Closed.remaining = Safety
      /\ ~Closed.allow
  BY DEF Fresh, Closed
<1>6. Older(<<>>) = <<>>
  BY OlderEmpty
<1>7. Shorter({}) = {} /\ Less(0, 1) = 0
  BY DEF Shorter, Less
<1>8. Aged(Fresh) = Fresh
  <2> DEFINE aged == Aged(Fresh)
  <2>1. Orderly(Fresh)
    BY <1>2, <1>4, <1>5 DEF Orderly
  <2>2. /\ aged \in State /\ aged.limit = Fresh.limit
        /\ aged.next = Less(Fresh.next, 1) /\ aged.cool = Less(Fresh.cool, 1)
        /\ aged.probe = Less(Fresh.probe, 1)
        /\ aged.clear = IF Fresh.clear = None THEN None ELSE Less(Fresh.clear, 1)
        /\ aged.allow = Fresh.allow /\ aged.remaining = Fresh.remaining
        /\ aged.sent = Older(Fresh.sent) /\ aged.reserved = Shorter(Fresh.reserved)
    BY <1>3, <2>1, AgedState
  <2>3. Fresh.probe = 0 /\ Fresh.clear = None
    BY DEF Fresh
  <2> HIDE DEF aged
  <2>4. /\ aged.next = Fresh.next /\ aged.cool = Fresh.cool /\ aged.probe = Fresh.probe
        /\ aged.clear = Fresh.clear /\ aged.sent = Fresh.sent
        /\ aged.reserved = Fresh.reserved
    BY <1>5, <1>6, <1>7, <2>2, <2>3
  <2>5. aged = Fresh
    BY <1>3, <2>2, <2>4, SameState
  <2> QED BY <2>5 DEF aged
<1>9. Aged(Closed) = Closed
  <2> DEFINE aged == Aged(Closed)
  <2>1. Orderly(Closed)
    BY <1>2, <1>4, <1>5 DEF Orderly
  <2>2. /\ aged \in State /\ aged.limit = Closed.limit
        /\ aged.next = Less(Closed.next, 1) /\ aged.cool = Less(Closed.cool, 1)
        /\ aged.probe = Less(Closed.probe, 1)
        /\ aged.clear = IF Closed.clear = None THEN None ELSE Less(Closed.clear, 1)
        /\ aged.allow = Closed.allow /\ aged.remaining = Closed.remaining
        /\ aged.sent = Older(Closed.sent) /\ aged.reserved = Shorter(Closed.reserved)
    BY <1>3, <2>1, AgedState
  <2>3. Closed.next = 0 /\ Closed.cool = 0 /\ Closed.probe = 0 /\ Closed.clear = None
    BY DEF Closed, Fresh
  <2> HIDE DEF aged
  <2>4. /\ aged.next = Closed.next /\ aged.cool = Closed.cool /\ aged.probe = Closed.probe
        /\ aged.clear = Closed.clear /\ aged.sent = Closed.sent
        /\ aged.reserved = Closed.reserved
    BY <1>5, <1>6, <1>7, <2>2, <2>3
  <2>5. aged = Closed
    BY <1>3, <2>2, <2>4, SameState
  <2> QED BY <2>5 DEF aged
<1> QED BY <1>1, <1>2, <1>3, <1>4, <1>5, <1>8, <1>9 DEF Orderly

(* What a gate works with is a state in order.                             *)
LEMMA CurrentType ==
    ASSUME TypeOK, LogInv, NEW g \in Gates
    PROVE  Current(g) \in State /\ Orderly(Current(g))
<1>1. CASE cache[g] # None
  BY <1>1 DEF TypeOK, LogInv, Current
<1>2. CASE cache[g] = None
  <2>1. Load \in State /\ Orderly(Load)
    <3>1. CASE file = Missing
      BY <3>1, FirstStates DEF Load
    <3>2. CASE file \in Damaged
      BY <3>2, FirstStates, NoneAssumption DEF Load, Damaged
    <3>3. CASE file \in State
      BY <3>3, NoneAssumption DEF Load, LogInv, Damaged
    <3> QED BY <3>1, <3>2, <3>3 DEF TypeOK
  <2> QED BY <1>2, <2>1 DEF Current
<1> QED BY <1>1, <1>2

(* Saving: the gate goes on with the state; the file has it, the log at    *)
(* times excepted; no other gate is touched.                               *)
LEMMA SaveEffect ==
    ASSUME TypeOK, LogInv, NEW g \in Gates, NEW st \in State, Orderly(st), Save(g, st)
    PROVE  /\ file' \in State /\ Orderly(file')
           /\ file' = st \/ file' = [st EXCEPT !.sent = <<>>]
           /\ cache' \in [Gates -> State \cup {None}] /\ cache'[g] = st
           /\ \A h \in Gates : h # g => cache'[h] = cache[h]
           /\ \A h \in Gates : cache'[h] # None => Orderly(cache'[h])
           /\ unflushed' \in [Gates -> 0..FlushEvery]
           /\ Current(g)' = st
<1>1. /\ cache' = [cache EXCEPT ![g] = st]
      /\ file' = st \/ file' = [st EXCEPT !.sent = <<>>]
      /\ \/ unflushed' = [unflushed EXCEPT ![g] = 0]
         \/ unflushed' = [unflushed EXCEPT ![g] = @ + 1] /\ unflushed[g] + 1 < FlushEvery
  BY DEF Save, LogSkipped
<1>2. /\ cache \in [Gates -> State \cup {None}]
      /\ unflushed \in [Gates -> 0..FlushEvery]
      /\ FlushEvery \in Nat \ {0}
  BY LimitAssumption DEF TypeOK
<1>3. [st EXCEPT !.sent = <<>>] \in State /\ Orderly([st EXCEPT !.sent = <<>>])
  <2>1. [st EXCEPT !.sent = <<>>] \in State
    <3>1. <<>> \in Seq(Ages)
      OBVIOUS
    <3> QED BY <3>1 DEF State
  <2>2. /\ [st EXCEPT !.sent = <<>>].sent = <<>>
        /\ [st EXCEPT !.sent = <<>>].reserved = st.reserved
    BY DEF State
  <2> QED BY <2>1, <2>2 DEF Orderly, InOrder
<1>4. /\ cache' \in [Gates -> State \cup {None}] /\ cache'[g] = st
      /\ \A h \in Gates : h # g => cache'[h] = cache[h]
  BY <1>1, <1>2
<1>5. \A h \in Gates : cache'[h] # None => Orderly(cache'[h])
  BY <1>4 DEF LogInv
<1>6. unflushed' \in [Gates -> 0..FlushEvery]
  BY <1>1, <1>2
<1>7. Current(g)' = st
  BY <1>4, Fields DEF Current
<1> QED BY <1>1, <1>3, <1>4, <1>5, <1>6, <1>7
-----------------------------------------------------------------------------
(* What each operation makes of a state                                    *)

(* The pace of a state is at least the server's and fits in the window.    *)
LEMMA IntervalFacts ==
    ASSUME NEW st \in State
    PROVE  Interval(st) \in 0..Window /\ Pace \in Nat /\ Pace <= Interval(st)
<1>1. st.limit \in {FallbackLimit, ServerLimit}
  BY Fields
<1> QED BY <1>1, PaceFacts DEF Interval

(* A turn that is granted waited for the pace, the pause, the deficit and  *)
(* the cap on what the gate itself has sent and promised.                  *)
LEMMA WaitFacts ==
    ASSUME NEW st \in State, Orderly(st)
    PROVE  /\ st.sent # <<>> => OldestLeaves(st) \in 1..Window
           /\ ClearAfter(st) \in 0..Window \cup {None}
           /\ Cardinality(st.reserved) \in Nat
           /\ Wait(st) = 0 =>
                 /\ st.next = 0 /\ st.cool = 0
                 /\ Len(st.sent) + Cardinality(st.reserved) < st.limit
                 /\ HasBudget(st) \/ st.allow \/ st.clear = 0 \/ st.probe = 0
<1>1. Window \in Nat \ {0}
  BY TimeAssumption
<1>2. ASSUME st.sent # <<>> PROVE OldestLeaves(st) \in 1..Window
  <2>1. Head(st.sent) \in Ages
    BY <1>2, Fields
  <2> QED BY <1>1, <2>1 DEF Ages, OldestLeaves
<1>3. ClearAfter(st) \in 0..Window \cup {None}
  BY <1>1, <1>2, Fields DEF ClearAfter
<1>4. Cardinality(st.reserved) \in Nat
  BY FS_CardinalityType DEF Orderly
<1>5. ASSUME Wait(st) = 0
      PROVE  /\ st.next = 0 /\ st.cool = 0
             /\ Len(st.sent) + Cardinality(st.reserved) < st.limit
             /\ HasBudget(st) \/ st.allow \/ st.clear = 0 \/ st.probe = 0
  <2>1. DeficitWait(st) \in Nat /\ SelfCapWait(st) \in Nat
    BY <1>1, <1>2, Fields DEF DeficitWait, SelfCapWait
  <2>2. st.next = 0 /\ st.cool = 0 /\ DeficitWait(st) = 0 /\ SelfCapWait(st) = 0
    BY <1>5, <2>1, Fields DEF Wait, Larger
  <2>3. Len(st.sent) + Cardinality(st.reserved) < st.limit
    BY <1>1, <1>2, <2>2 DEF SelfCapWait
  <2>4. HasBudget(st) \/ st.allow \/ st.clear = 0 \/ st.probe = 0
    BY <1>2, <2>2 DEF DeficitWait
  <2> QED BY <2>2, <2>3, <2>4
<1> QED BY <1>2, <1>3, <1>4, <1>5

(* A round that waits changes only when the count is clear.                *)
LEMMA PolledState ==
    ASSUME NEW st \in State, Orderly(st),
           NEW polled, polled = [st EXCEPT !.clear = ClearAfter(st)]
    PROVE  /\ polled \in State /\ Orderly(polled)
           /\ polled.next = st.next /\ polled.cool = st.cool
           /\ polled.probe = st.probe /\ polled.allow = st.allow
           /\ polled.remaining = st.remaining
           /\ polled.sent = st.sent /\ polled.reserved = st.reserved
<1>1. ClearAfter(st) \in 0..Window \cup {None}
  BY WaitFacts
<1>2. polled \in State
  BY <1>1 DEF State
<1>3. /\ polled.next = st.next /\ polled.cool = st.cool
      /\ polled.probe = st.probe /\ polled.allow = st.allow
      /\ polled.remaining = st.remaining
      /\ polled.sent = st.sent /\ polled.reserved = st.reserved
  BY DEF State
<1> QED BY <1>2, <1>3 DEF Orderly

(* A turn: its reservation, the next slot one interval away, and, when     *)
(* nothing is left after it, the probe gap.                                *)
LEMMA GrantedState ==
    ASSUME NEW st \in State, Orderly(st), NEW id \in Ids,
           NEW granted, granted = Granted(st, id)
    PROVE  /\ granted \in State /\ Orderly(granted)
           /\ granted.next = Interval(st) /\ granted.cool = st.cool
           /\ granted.sent = st.sent /\ granted.remaining = st.remaining
           /\ granted.reserved = st.reserved \cup {[id |-> id, left |-> Ttl]}
           /\ ~HasBudget(granted) =>
                 /\ ~granted.allow /\ granted.probe = ProbeGap
                 /\ granted.remaining # None
<1> DEFINE mine == [st EXCEPT !.clear = ClearAfter(st),
                              !.reserved = @ \cup {[id |-> id, left |-> Ttl]},
                              !.next = Interval(st)]
           probing == [mine EXCEPT !.allow = FALSE, !.probe = ProbeGap]
           mark == [id |-> id, left |-> Ttl]
<1>1. ClearAfter(st) \in 0..Window \cup {None} /\ Interval(st) \in 0..Window
  BY WaitFacts, IntervalFacts
<1>2. mark \in [id : Ids, left : 1..Ttl]
  BY TimeAssumption
<1>3. /\ st.reserved \cup {mark} \in SUBSET [id : Ids, left : 1..Ttl]
      /\ IsFiniteSet(st.reserved \cup {mark})
  BY <1>2, Fields, FS_AddElement DEF Orderly
<1>4. ProbeGap \in 0..ProbeGap
  BY TimeAssumption
<1> HIDE DEF mark
<1>5. mine = [st EXCEPT !.clear = ClearAfter(st), !.reserved = st.reserved \cup {mark},
                        !.next = Interval(st)]
  BY DEF mark
<1> HIDE DEF mine
<1>6. mine \in State
  BY <1>1, <1>3, <1>5 DEF State
<1>7. /\ mine.next = Interval(st) /\ mine.cool = st.cool
      /\ mine.sent = st.sent /\ mine.remaining = st.remaining
      /\ mine.reserved = st.reserved \cup {mark}
  BY <1>5 DEF State
<1>8. probing \in State
  BY <1>4, <1>6 DEF State
<1>9. /\ probing.next = mine.next /\ probing.cool = mine.cool
      /\ probing.sent = mine.sent /\ probing.remaining = mine.remaining
      /\ probing.reserved = mine.reserved
      /\ ~probing.allow /\ probing.probe = ProbeGap
  BY <1>6 DEF State
<1> HIDE DEF probing
<1>10. granted = IF HasBudget(mine) THEN mine ELSE probing
  BY DEF Granted, mine, probing
<1>11. HasBudget(probing) <=> HasBudget(mine)
  BY <1>9 DEF HasBudget
<1>12. ~HasBudget(mine) => mine.remaining # None
  BY DEF HasBudget
<1> QED
  BY <1>3, <1>6, <1>7, <1>8, <1>9, <1>10, <1>11, <1>12 DEF Orderly, mark

(* A request that ended: its reservation becomes a stamp.                  *)
LEMMA CountedState ==
    ASSUME NEW st \in State, Orderly(st), NEW id \in Ids,
           NEW counted, counted = Counted(st, id)
    PROVE  /\ counted \in State /\ Orderly(counted)
           /\ counted.limit = st.limit
           /\ counted.next = st.next /\ counted.cool = st.cool
           /\ counted.probe = st.probe /\ counted.allow = st.allow
           /\ counted.remaining = st.remaining
           /\ counted.sent = Append(st.sent, 0)
           /\ counted.reserved = WithoutTurn(st, id)
<1> DEFINE left == WithoutTurn(st, id)
           log == Append(st.sent, 0)
<1>1. left \in SUBSET [id : Ids, left : 1..Ttl] /\ IsFiniteSet(left)
  BY Fields, FS_Subset DEF WithoutTurn, Orderly
<1>2. log \in Seq(Ages) /\ InOrder(log)
  BY Fields, AppendNow DEF Orderly
<1>3. counted = [st EXCEPT !.reserved = left, !.sent = log]
  BY DEF Counted
<1> HIDE DEF left, log
<1>4. counted \in State
  BY <1>1, <1>2, <1>3 DEF State
<1>5. /\ counted.limit = st.limit
      /\ counted.next = st.next /\ counted.cool = st.cool
      /\ counted.probe = st.probe /\ counted.allow = st.allow
      /\ counted.remaining = st.remaining
      /\ counted.sent = log /\ counted.reserved = left
  BY <1>3 DEF State
<1> QED BY <1>1, <1>2, <1>4, <1>5 DEF Orderly, left, log

(* The headers of a response change the limit and the remaining-count.     *)
LEMMA HeaderState ==
    ASSUME NEW st \in State, Orderly(st), NEW remaining \in Nat \cup {None},
           NEW told, told = WithHeaders(st, remaining)
    PROVE  /\ told \in State /\ Orderly(told)
           /\ told.next = st.next /\ told.cool = st.cool
           /\ told.probe = st.probe /\ told.allow = st.allow
           /\ told.sent = st.sent /\ told.reserved = st.reserved
           /\ remaining = None => told = st
<1>1. CASE remaining = None
  BY <1>1 DEF WithHeaders
<1>2. CASE remaining # None
  <2>1. told = [st EXCEPT !.limit = ServerLimit, !.remaining = remaining]
    BY <1>2 DEF WithHeaders
  <2>2. told \in State
    BY <2>1 DEF State
  <2>3. /\ told.next = st.next /\ told.cool = st.cool
        /\ told.probe = st.probe /\ told.allow = st.allow
        /\ told.sent = st.sent /\ told.reserved = st.reserved
    BY <2>1 DEF State
  <2> QED BY <1>2, <2>2, <2>3 DEF Orderly
<1> QED BY <1>1, <1>2

(* A response that was not refused.                                        *)
LEMMA ObservedState ==
    ASSUME NEW st \in State, Orderly(st), NEW id \in Ids, NEW remaining \in Nat \cup {None},
           NEW told, told = WithHeaders(Counted(st, id), remaining),
           NEW seen, seen = Reopened(told)
    PROVE  /\ seen \in State /\ Orderly(seen)
           /\ seen.next = st.next /\ seen.cool = st.cool
           /\ seen.sent = Append(st.sent, 0)
           /\ seen.reserved = WithoutTurn(st, id)
           /\ remaining = None /\ ~Reopens(told) =>
                 /\ seen.probe = st.probe /\ seen.allow = st.allow
                 /\ seen.remaining = st.remaining
<1> DEFINE counted == Counted(st, id)
<1>1. /\ counted \in State /\ Orderly(counted)
      /\ counted.next = st.next /\ counted.cool = st.cool
      /\ counted.probe = st.probe /\ counted.allow = st.allow
      /\ counted.remaining = st.remaining
      /\ counted.sent = Append(st.sent, 0) /\ counted.reserved = WithoutTurn(st, id)
  BY CountedState
<1> HIDE DEF counted
<1>2. /\ told \in State /\ Orderly(told)
      /\ told.next = counted.next /\ told.cool = counted.cool
      /\ told.sent = counted.sent /\ told.reserved = counted.reserved
      /\ remaining = None => told = counted
  <2>1. told = WithHeaders(counted, remaining)
    BY DEF counted
  <2>2. counted \in State /\ Orderly(counted)
    BY <1>1
  <2> QED BY ONLY <2>1, <2>2, remaining \in Nat \cup {None}, HeaderState
<1>3. CASE Reopens(told)
  <2>1. seen = [told EXCEPT !.allow = FALSE, !.probe = 0]
    BY <1>3 DEF Reopened
  <2>2. 0 \in 0..ProbeGap
    BY TimeAssumption
  <2>3. seen \in State
    BY <1>2, <2>1, <2>2 DEF State
  <2>4. told \in State
    BY <1>2
  <2>5. /\ seen.next = told.next /\ seen.cool = told.cool
        /\ seen.sent = told.sent /\ seen.reserved = told.reserved
    BY ONLY <2>1, <2>4 DEF State
  <2> QED BY <1>1, <1>2, <1>3, <2>3, <2>5 DEF Orderly
<1>4. CASE ~Reopens(told)
  BY <1>1, <1>2, <1>4 DEF Reopened
<1> QED BY <1>3, <1>4

(* A refusal: the pause is at least what was asked, up to the window.      *)
LEMMA RefusedState ==
    ASSUME NEW told \in State, Orderly(told), NEW remaining \in Nat \cup {None},
           NEW after \in RetryAfters, NEW seen, seen = Refused(told, remaining, after)
    PROVE  /\ seen \in State /\ Orderly(seen)
           /\ seen.next = told.next
           /\ Pause(told, after) \in 0..Window
           /\ seen.cool = Larger(told.cool, Pause(told, after))
           /\ seen.sent = told.sent /\ seen.reserved = told.reserved
<1> DEFINE pause == Pause(told, after)
           rem == IF remaining = None THEN 0 ELSE told.remaining
<1>1. pause \in 0..Window
  <2>1. CASE after = None
    BY <2>1, IntervalFacts DEF Pause
  <2>2. CASE after # None
    <3>1. after \in Nat /\ Window \in Nat
      BY <2>2, TimeAssumption
    <3>2. Smaller(after, Window) \in 0..Window
      BY <3>1 DEF Smaller
    <3> QED BY <2>2, <3>2 DEF Pause
  <2> QED BY <2>1, <2>2
<1> HIDE DEF pause
<1>2. Larger(told.cool, pause) \in 0..Window
  BY <1>1, Fields, TimeAssumption DEF Larger
<1>3. rem \in Nat \cup {None}
  BY Fields
<1>4. seen = [told EXCEPT !.cool = Larger(told.cool, pause), !.allow = TRUE,
                          !.remaining = rem]
  BY DEF Refused, pause
<1> HIDE DEF rem
<1>5. seen \in State
  BY <1>2, <1>3, <1>4 DEF State
<1>6. /\ seen.next = told.next /\ seen.cool = Larger(told.cool, pause)
      /\ seen.sent = told.sent /\ seen.reserved = told.reserved
  BY <1>4 DEF State
<1> QED BY <1>1, <1>5, <1>6 DEF Orderly, pause
-----------------------------------------------------------------------------
(* Requests in flight                                                      *)

TurnRecords == [gate : Gates, arrived : BOOLEAN, age : 0..MaxFlight]

(* A request in flight has a record.                                       *)
LEMMA TurnFacts ==
    ASSUME TypeOK
    PROVE  /\ MaxFlight \in Nat /\ Ttl \in Nat
           /\ None \notin TurnRecords
           /\ InFlight \subseteq Ids
           /\ \A id \in InFlight :
                 /\ turns[id] \in TurnRecords /\ turns[id].gate \in Gates
                 /\ turns[id].age \in Nat /\ turns[id].age <= MaxFlight
                 /\ turns[id].arrived \in BOOLEAN
           /\ \A id \in Ids : id \notin InFlight => turns[id] = None
<1>1. turns \in [Ids -> TurnRecords \cup {None}]
  BY DEF TypeOK, TurnRecords
<1>2. MaxFlight \in Nat /\ Ttl \in Nat
  BY TimeAssumption
<1>3. \A r \in TurnRecords : r.gate \in Gates /\ r.arrived \in BOOLEAN
                             /\ r.age \in Nat /\ r.age <= MaxFlight
  BY <1>2 DEF TurnRecords
<1>4. None \notin TurnRecords
  BY NoneAssumption DEF TurnRecords
<1> QED BY <1>1, <1>2, <1>3, <1>4 DEF InFlight

(* A turn puts its request in flight.                                      *)
LEMMA TurnStarts ==
    ASSUME TypeOK, NEW g \in Gates, NEW id \in Ids, id \notin InFlight,
           turns' = [turns EXCEPT ![id] = [gate |-> g, arrived |-> FALSE, age |-> 0]]
    PROVE  /\ turns' \in [Ids -> TurnRecords \cup {None}]
           /\ InFlight' = InFlight \cup {id}
           /\ turns'[id] = [gate |-> g, arrived |-> FALSE, age |-> 0]
           /\ \A i \in Ids : i # id => turns'[i] = turns[i]
<1>1. [gate |-> g, arrived |-> FALSE, age |-> 0] \in TurnRecords
  BY TurnFacts DEF TurnRecords
<1>2. turns \in [Ids -> TurnRecords \cup {None}]
  BY DEF TypeOK, TurnRecords
<1>3. /\ turns' \in [Ids -> TurnRecords \cup {None}]
      /\ turns'[id] = [gate |-> g, arrived |-> FALSE, age |-> 0]
      /\ \A i \in Ids : i # id => turns'[i] = turns[i]
  BY <1>1, <1>2
<1>4. turns'[id] # None
  BY <1>1, <1>3, TurnFacts
<1>5. InFlight' = InFlight \cup {id}
  BY <1>3, <1>4 DEF InFlight
<1> QED BY <1>3, <1>5

(* A request that reaches the server stays in flight.                      *)
LEMMA TurnArrives ==
    ASSUME TypeOK, NEW id \in InFlight, turns' = [turns EXCEPT ![id].arrived = TRUE]
    PROVE  /\ turns' \in [Ids -> TurnRecords \cup {None}]
           /\ InFlight' = InFlight
           /\ turns'[id].arrived /\ turns'[id].age = turns[id].age
           /\ turns'[id].gate = turns[id].gate
           /\ \A i \in Ids : i # id => turns'[i] = turns[i]
<1> DEFINE new == [turns[id] EXCEPT !.arrived = TRUE]
<1>1. turns \in [Ids -> TurnRecords \cup {None}] /\ turns[id] \in TurnRecords /\ id \in Ids
  BY TurnFacts DEF TypeOK, TurnRecords
<1>2. /\ new \in TurnRecords /\ new.arrived /\ new.age = turns[id].age
      /\ new.gate = turns[id].gate
  BY <1>1 DEF TurnRecords
<1>3. turns' = [turns EXCEPT ![id] = new]
  OBVIOUS
<1> HIDE DEF new
<1>4. /\ turns' \in [Ids -> TurnRecords \cup {None}] /\ turns'[id] = new
      /\ \A i \in Ids : i # id => turns'[i] = turns[i]
  BY <1>1, <1>2, <1>3
<1>5. turns'[id] # None
  BY <1>2, <1>4, TurnFacts
<1>6. InFlight' = InFlight
  BY <1>1, <1>4, <1>5 DEF InFlight
<1> QED BY <1>2, <1>4, <1>6

(* A request that ended is no longer in flight.                            *)
LEMMA TurnEnds ==
    ASSUME TypeOK, NEW id \in InFlight, Ended(id)
    PROVE  /\ turns' \in [Ids -> TurnRecords \cup {None}]
           /\ InFlight' = InFlight \ {id}
           /\ \A i \in Ids : i # id => turns'[i] = turns[i]
           /\ id \in Lapsed => overdue' = Append(overdue, 0)
           /\ id \notin Lapsed => overdue' = overdue
<1>1. turns \in [Ids -> TurnRecords \cup {None}] /\ id \in Ids
  BY TurnFacts DEF TypeOK, TurnRecords
<1>2. /\ turns' \in [Ids -> TurnRecords \cup {None}] /\ turns'[id] = None
      /\ \A i \in Ids : i # id => turns'[i] = turns[i]
  BY <1>1 DEF Ended
<1>3. InFlight' = InFlight \ {id}
  BY <1>1, <1>2 DEF InFlight
<1>4. /\ id \in Lapsed => overdue' = Append(overdue, 0)
      /\ id \notin Lapsed => overdue' = overdue
  BY DEF Ended
<1> QED BY <1>2, <1>3, <1>4

(* A tick keeps the same requests in flight, one older.                    *)
LEMMA TurnsAge ==
    ASSUME TypeOK, Tick
    PROVE  /\ turns' \in [Ids -> TurnRecords \cup {None}]
           /\ InFlight' = InFlight
           /\ \A id \in InFlight :
                 /\ turns'[id].age = turns[id].age + 1 /\ turns[id].age < MaxFlight
                 /\ turns'[id].arrived = turns[id].arrived
<1> DEFINE new(id) == [turns[id] EXCEPT !.age = turns[id].age + 1]
<1>1. turns' = [id \in Ids |-> IF id \in InFlight THEN new(id) ELSE None]
  BY DEF Tick
<1>2. ASSUME NEW id \in InFlight
      PROVE  /\ new(id) \in TurnRecords /\ turns[id].age < MaxFlight
             /\ new(id).age = turns[id].age + 1
             /\ new(id).arrived = turns[id].arrived
  <2>1. /\ turns[id] \in TurnRecords /\ turns[id].age < MaxFlight
        /\ turns[id].age \in Nat /\ MaxFlight \in Nat
    BY TurnFacts DEF Tick
  <2>2. turns[id].age + 1 \in 0..MaxFlight
    BY <2>1
  <2> QED BY <2>1, <2>2 DEF TurnRecords
<1> HIDE DEF new
<1>3. turns' \in [Ids -> TurnRecords \cup {None}]
  BY <1>1, <1>2
<1>4. \A id \in InFlight : turns'[id] = new(id) /\ turns'[id] # None
  BY <1>1, <1>2, TurnFacts
<1>5. InFlight' = InFlight
  BY <1>1, <1>4 DEF InFlight
<1> QED BY <1>2, <1>3, <1>4, <1>5
-----------------------------------------------------------------------------
(* The steps: each keeps the types and the order of the logs               *)

(* A new turn.                                                             *)
LEMMA AcquireStep ==
    ASSUME TypeOK, LogInv, NEW g \in Gates, NEW id \in Ids, Acquire(g, id),
           NEW st, st = Current(g)
    PROVE  /\ TypeOK' /\ LogInv'
           /\ st \in State /\ Orderly(st)
           /\ Granted(st, id) \in State /\ Orderly(Granted(st, id))
<1>1. st \in State /\ Orderly(st)
  BY CurrentType
<1>2. Granted(st, id) \in State /\ Orderly(Granted(st, id))
  BY <1>1, GrantedState
<1>3. Save(g, Granted(st, id))
  BY DEF Acquire
<1>4. /\ file' \in State /\ Orderly(file')
      /\ cache' \in [Gates -> State \cup {None}]
      /\ \A h \in Gates : cache'[h] # None => Orderly(cache'[h])
      /\ unflushed' \in [Gates -> 0..FlushEvery]
  BY <1>2, <1>3, SaveEffect
<1>5. turns' \in [Ids -> TurnRecords \cup {None}] /\ InFlight' = InFlight \cup {id}
  BY TurnStarts DEF Acquire
<1>6. grants' \in Seq(Ages) /\ InOrder(grants')
  BY AppendNow DEF Acquire, TypeOK, LogInv
<1>7. hold' \in 0..ProbeGap
  BY TimeAssumption DEF Acquire
<1>8. UNCHANGED <<arrivals, overdue, penalty, restarts, damages>>
  BY DEF Acquire
<1>9. TypeOK'
  BY <1>4, <1>5, <1>6, <1>7, <1>8 DEF TypeOK, TurnRecords
<1>10. IsFiniteSet(InFlight')
  BY <1>5, FS_AddElement DEF LogInv
<1>11. LogInv'
  BY <1>4, <1>6, <1>8, <1>10 DEF LogInv
<1> QED BY <1>1, <1>2, <1>9, <1>11

(* A round that waits.                                                     *)
LEMMA PollStep ==
    ASSUME TypeOK, LogInv, NEW g \in Gates, Poll(g),
           NEW st, st = Current(g), NEW polled, polled = [st EXCEPT !.clear = ClearAfter(st)]
    PROVE  /\ TypeOK' /\ LogInv'
           /\ st \in State /\ Orderly(st)
           /\ polled \in State /\ Orderly(polled) /\ Save(g, polled)
           /\ InFlight' = InFlight
<1>1. st \in State /\ Orderly(st)
  BY CurrentType
<1>2. polled \in State /\ Orderly(polled)
  BY <1>1, PolledState
<1>3. Save(g, polled)
  BY DEF Poll
<1>4. /\ file' \in State /\ Orderly(file')
      /\ cache' \in [Gates -> State \cup {None}]
      /\ \A h \in Gates : cache'[h] # None => Orderly(cache'[h])
      /\ unflushed' \in [Gates -> 0..FlushEvery]
  BY <1>2, <1>3, SaveEffect
<1>5. UNCHANGED <<turns, arrivals, overdue, grants, penalty, hold, restarts, damages>>
  BY DEF Poll
<1>6. TypeOK'
  BY <1>4, <1>5 DEF TypeOK
<1>7. InFlight' = InFlight
  BY <1>5 DEF InFlight
<1>8. LogInv'
  BY <1>4, <1>5, <1>7 DEF LogInv
<1> QED BY <1>1, <1>2, <1>3, <1>6, <1>7, <1>8

(* A request reaches the server.                                           *)
LEMMA ArriveStep ==
    ASSUME TypeOK, LogInv, NEW id \in Ids, Arrive(id)
    PROVE  TypeOK' /\ LogInv'
<1>1. turns' \in [Ids -> TurnRecords \cup {None}] /\ InFlight' = InFlight
  BY TurnArrives DEF Arrive
<1>2. arrivals' \in Seq(Ages) /\ InOrder(arrivals')
  BY AppendNow DEF Arrive, TypeOK, LogInv
<1>3. UNCHANGED <<file, cache, unflushed, overdue, grants, penalty, hold, restarts, damages>>
  BY DEF Arrive
<1>4. TypeOK'
  BY <1>1, <1>2, <1>3 DEF TypeOK, TurnRecords
<1>5. LogInv'
  BY <1>1, <1>2, <1>3 DEF LogInv
<1> QED BY <1>4, <1>5

(* A request that ended, whatever state its gate saved.                    *)
LEMMA EndKeepsTypes ==
    ASSUME TypeOK, LogInv, NEW id \in Ids, id \in InFlight, Ended(id),
           NEW g, g = turns[id].gate, NEW seen \in State, Orderly(seen), Save(g, seen),
           hold' \in 0..ProbeGap, penalty' \in 0..Window,
           UNCHANGED <<arrivals, grants, restarts, damages>>
    PROVE  TypeOK' /\ LogInv'
<1>1. g \in Gates
  BY TurnFacts
<1>2. /\ file' \in State /\ Orderly(file')
      /\ cache' \in [Gates -> State \cup {None}]
      /\ \A h \in Gates : cache'[h] # None => Orderly(cache'[h])
      /\ unflushed' \in [Gates -> 0..FlushEvery]
  BY <1>1, SaveEffect
<1>3. turns' \in [Ids -> TurnRecords \cup {None}] /\ InFlight' = InFlight \ {id}
  BY TurnEnds
<1>4. overdue' \in Seq(Ages) /\ InOrder(overdue')
  BY TurnEnds, AppendNow DEF TypeOK, LogInv
<1>5. TypeOK'
  BY <1>2, <1>3, <1>4 DEF TypeOK, TurnRecords
<1>6. IsFiniteSet(InFlight')
  BY <1>3, FS_RemoveElement DEF LogInv
<1>7. LogInv'
  BY <1>2, <1>4, <1>6 DEF LogInv
<1> QED BY <1>5, <1>7

(* A request ends with a response, a refusal or no answer.  Its gate saves *)
(* a state with the request counted, the same next slot and no shorter     *)
(* pause than the server asked; what holds a probe alone stays, or the     *)
(* hold is over.                                                           *)
EndedAs(id, seen) ==
    LET g == turns[id].gate
        st == Current(g)
    IN  /\ seen \in State /\ Orderly(seen) /\ Save(g, seen)
        /\ seen.next = st.next
        /\ st.cool >= penalty => seen.cool >= penalty'
        /\ seen.sent = Append(st.sent, 0) /\ seen.reserved = WithoutTurn(st, id)
        /\ hold' > 0 => /\ hold' = hold /\ seen.probe = st.probe
                        /\ seen.allow = st.allow /\ seen.remaining = st.remaining

LEMMA EndStep ==
    ASSUME TypeOK, LogInv, NEW id \in Ids, Response(id) \/ Release(id)
    PROVE  /\ TypeOK' /\ LogInv'
           /\ id \in InFlight /\ Ended(id)
           /\ UNCHANGED <<arrivals, grants, restarts, damages>>
           /\ \E seen : EndedAs(id, seen)
<1> DEFINE g == turns[id].gate
           st == Current(g)
<1>0. id \in InFlight
  BY DEF Response, Observe, Observe429, Release
<1>1. g \in Gates
  BY <1>0, TurnFacts
<1>2. st \in State /\ Orderly(st) /\ st.cool \in Nat
  BY <1>1, CurrentType, Fields
<1>3. /\ 0 \in 0..ProbeGap /\ hold \in 0..ProbeGap /\ hold \in Nat
      /\ penalty \in 0..Window /\ Window \in Nat /\ penalty \in Nat
  BY TimeAssumption DEF TypeOK
<1>4. Remainings \subseteq Nat \cup {None}
  <2>1. ServerLimit \in Nat /\ Len(arrivals) \in Nat
    BY LimitAssumption DEF TypeOK
  <2>2. Less(ServerLimit, Len(arrivals)) \in Nat
    BY <2>1, Arithmetic
  <2> QED BY <2>2 DEF Remainings
<1>5. CASE Release(id)
  <2> DEFINE seen == Counted(st, id)
  <2>1. /\ seen \in State /\ Orderly(seen)
        /\ seen.next = st.next /\ seen.cool = st.cool
        /\ seen.probe = st.probe /\ seen.allow = st.allow
        /\ seen.remaining = st.remaining
        /\ seen.sent = Append(st.sent, 0)
        /\ seen.reserved = WithoutTurn(st, id)
    BY <1>2, CountedState
  <2>2. /\ Save(g, seen) /\ Ended(id)
        /\ UNCHANGED <<arrivals, grants, restarts, damages>>
        /\ UNCHANGED <<penalty, hold>>
    BY <1>5 DEF Release
  <2> HIDE DEF seen
  <2>3. TypeOK' /\ LogInv'
    BY <1>0, <1>3, <2>1, <2>2, EndKeepsTypes
  <2>4. EndedAs(id, seen)
    BY <1>2, <1>3, <2>1, <2>2 DEF EndedAs
  <2> QED BY <1>0, <2>2, <2>3, <2>4
<1>6. CASE \E remaining \in Remainings : Observe(id, remaining)
  <2>1. PICK remaining \in Remainings : Observe(id, remaining)
    BY <1>6
  <2> DEFINE told == WithHeaders(Counted(st, id), remaining)
             seen == Reopened(told)
  <2>2. /\ remaining \in Nat \cup {None} /\ id \in Ids
        /\ told = WithHeaders(Counted(st, id), remaining) /\ seen = Reopened(told)
    BY <1>4
  <2> HIDE DEF told, seen, st
  <2>3. /\ seen \in State /\ Orderly(seen)
        /\ seen.next = st.next /\ seen.cool = st.cool
        /\ seen.sent = Append(st.sent, 0)
        /\ seen.reserved = WithoutTurn(st, id)
        /\ remaining = None /\ ~Reopens(told) =>
              /\ seen.probe = st.probe /\ seen.allow = st.allow
              /\ seen.remaining = st.remaining
    BY <1>2, <2>2, ObservedState
  <2>4. /\ Save(g, seen) /\ Ended(id)
        /\ UNCHANGED <<arrivals, grants, restarts, damages>>
        /\ hold' = IF remaining = None /\ ~Reopens(told) THEN hold ELSE 0
        /\ penalty' = penalty
    BY <2>1 DEF Observe, told, seen, st
  <2>5. TypeOK' /\ LogInv'
    BY <1>0, <1>3, <2>3, <2>4, EndKeepsTypes
  <2>6. EndedAs(id, seen)
    BY <1>2, <1>3, <2>3, <2>4 DEF EndedAs, st
  <2> QED BY <1>0, <2>4, <2>5, <2>6
<1>7. CASE \E remaining \in Remainings, after \in RetryAfters : Observe429(id, remaining, after)
  <2>1. PICK remaining \in Remainings, after \in RetryAfters : Observe429(id, remaining, after)
    BY <1>7
  <2> DEFINE counted == Counted(st, id)
             told == WithHeaders(counted, remaining)
             seen == Refused(told, remaining, after)
             pause == Pause(told, after)
  <2>2. remaining \in Nat \cup {None}
    BY <1>4
  <2>3. /\ counted \in State /\ Orderly(counted)
        /\ counted.next = st.next /\ counted.cool = st.cool
        /\ counted.sent = Append(st.sent, 0) /\ counted.reserved = WithoutTurn(st, id)
    BY <1>2, CountedState
  <2> HIDE DEF counted
  <2>4. /\ told \in State /\ Orderly(told)
        /\ told.next = counted.next /\ told.cool = counted.cool
        /\ told.sent = counted.sent /\ told.reserved = counted.reserved
    <3> HIDE DEF told
    <3>0. told = WithHeaders(counted, remaining)
      BY DEF told
    <3> HIDE DEF st
    <3>1. counted \in State /\ Orderly(counted)
      BY <2>3
    <3> QED BY <2>2, <3>0, <3>1, HeaderState
  <2> HIDE DEF told
  <2>5. /\ seen \in State /\ Orderly(seen)
        /\ seen.next = told.next
        /\ pause \in 0..Window
        /\ seen.cool = Larger(told.cool, pause)
        /\ seen.sent = told.sent /\ seen.reserved = told.reserved
    BY <2>2, <2>4, RefusedState
  <2>6. /\ Save(g, seen) /\ Ended(id)
        /\ UNCHANGED <<arrivals, grants, restarts, damages>>
        /\ hold' = 0
        /\ penalty' = Larger(penalty, pause)
    BY <2>1 DEF Observe429, told, counted
  <2> HIDE DEF seen, pause
  <2>7. penalty' \in 0..Window /\ (st.cool >= penalty => seen.cool >= penalty')
    BY <1>2, <1>3, <2>3, <2>4, <2>5, <2>6 DEF Larger
  <2>8. TypeOK' /\ LogInv'
    BY <1>0, <1>3, <2>5, <2>6, <2>7, EndKeepsTypes
  <2>9. EndedAs(id, seen)
    BY <1>2, <1>3, <2>3, <2>4, <2>5, <2>6, <2>7 DEF EndedAs
  <2> QED BY <1>0, <2>6, <2>8, <2>9
<1> QED BY <1>5, <1>6, <1>7 DEF Response

(* A script that ends, and its turns with it.                              *)
LEMMA RestartStep ==
    ASSUME TypeOK, LogInv, NEW g \in Gates, Restart(g)
    PROVE  TypeOK' /\ LogInv' /\ restarts' > 0
<1>1. /\ cache' = [cache EXCEPT ![g] = None]
      /\ unflushed' = [unflushed EXCEPT ![g] = 0]
      /\ UNCHANGED <<file, arrivals, overdue, grants, penalty, hold, damages>>
      /\ restarts < MaxRestarts /\ restarts' = restarts + 1
  BY DEF Restart
<1>2. restarts' \in 0..MaxRestarts /\ restarts' > 0
  BY <1>1, LimitAssumption DEF TypeOK
<1>3. unflushed' \in [Gates -> 0..FlushEvery]
  BY <1>1, LimitAssumption DEF TypeOK
<1>4. /\ cache' \in [Gates -> State \cup {None}]
      /\ \A h \in Gates : cache'[h] # None => cache'[h] = cache[h]
  BY <1>1 DEF TypeOK
<1>5. turns' \in [Ids -> TurnRecords \cup {None}]
  <2>1. turns \in [Ids -> TurnRecords \cup {None}]
    BY DEF TypeOK, TurnRecords
  <2> QED BY <2>1 DEF Restart
<1>6. InFlight' \in SUBSET InFlight
  BY DEF Restart, InFlight
<1>7. IsFiniteSet(InFlight')
  BY <1>6, FS_Subset DEF LogInv
<1>8. TypeOK'
  BY <1>1, <1>2, <1>3, <1>4, <1>5 DEF TypeOK, TurnRecords
<1>9. LogInv'
  BY <1>1, <1>4, <1>7 DEF LogInv
<1> QED BY <1>2, <1>8, <1>9

(* A damaged file.                                                         *)
LEMMA DamageStep ==
    ASSUME TypeOK, LogInv, Damage
    PROVE  TypeOK' /\ LogInv' /\ damages' > 0
<1>1. /\ file' \in Damaged /\ hold' = 0
      /\ damages < MaxDamage /\ damages' = damages + 1
      /\ UNCHANGED <<cache, unflushed, turns, arrivals, overdue, grants, penalty, restarts>>
  BY DEF Damage
<1>2. damages' \in 0..MaxDamage /\ damages' > 0
  BY <1>1, LimitAssumption DEF TypeOK
<1>3. 0 \in 0..ProbeGap
  BY TimeAssumption
<1>4. TypeOK'
  BY <1>1, <1>2, <1>3 DEF TypeOK
<1>5. InFlight' = InFlight
  BY <1>1 DEF InFlight
<1>6. LogInv'
  BY <1>1, <1>5, NoneAssumption DEF LogInv, Damaged
<1> QED BY <1>2, <1>4, <1>6

(* A tick ages the state of every gate that has one to work with.          *)
LEMMA TickStep ==
    ASSUME TypeOK, LogInv, Tick
    PROVE  /\ TypeOK' /\ LogInv'
           /\ file' \in State <=> file \in State
           /\ \A g \in Gates : Current(g)' = Aged(Current(g))
<1>1. ASSUME NEW st \in State, Orderly(st)
      PROVE  Aged(st) \in State /\ Orderly(Aged(st))
  BY <1>1, AgedState
<1>2. /\ file' = IF file \in State THEN Aged(file) ELSE file
      /\ cache' = [g \in Gates |-> IF cache[g] = None THEN None ELSE Aged(cache[g])]
      /\ arrivals' = Older(arrivals) /\ grants' = Older(grants)
      /\ overdue' = Older(overdue)
      /\ penalty' = Less(penalty, 1) /\ hold' = Less(hold, 1)
      /\ UNCHANGED <<unflushed, restarts, damages>>
  BY DEF Tick
<1>3. /\ file \in State => file' = Aged(file) /\ file' \in State /\ Orderly(file')
      /\ file \notin State => file' = file
      /\ file' \in State \cup {Missing} \cup Damaged
  <2>1. CASE file \in State
    <3>1. Orderly(file)
      BY <2>1 DEF LogInv
    <3> QED BY <1>1, <1>2, <2>1, <3>1
  <2>2. CASE file \notin State
    BY <1>2, <2>2 DEF TypeOK
  <2> QED BY <2>1, <2>2
<1>4. /\ cache' \in [Gates -> State \cup {None}]
      /\ \A g \in Gates :
            /\ cache[g] = None => cache'[g] = None
            /\ cache[g] # None => /\ cache'[g] = Aged(cache[g]) /\ cache'[g] \in State
                                  /\ Orderly(cache'[g])
  BY <1>1, <1>2 DEF TypeOK, LogInv
<1>5. turns' \in [Ids -> TurnRecords \cup {None}] /\ InFlight' = InFlight
  BY TurnsAge
<1>6. /\ arrivals' \in Seq(Ages) /\ InOrder(arrivals')
      /\ grants' \in Seq(Ages) /\ InOrder(grants')
      /\ overdue' \in Seq(Ages) /\ InOrder(overdue')
  BY <1>2, OlderShape DEF TypeOK, LogInv
<1>7. penalty' \in 0..Window /\ hold' \in 0..ProbeGap
  BY <1>2, TimeAssumption DEF TypeOK, Less
<1>8. TypeOK'
  BY <1>2, <1>3, <1>4, <1>5, <1>6, <1>7 DEF TypeOK, TurnRecords
<1>9. LogInv'
  BY <1>3, <1>4, <1>5, <1>6 DEF LogInv
<1>10. ASSUME NEW g \in Gates PROVE Current(g)' = Aged(Current(g))
  <2>1. CASE cache[g] # None
    BY <1>4, <2>1, NoneAssumption DEF Current
  <2>2. CASE cache[g] = None
    <3>1. Current(g) = Load /\ Current(g)' = Load'
      BY <1>4, <2>2 DEF Current
    <3>2. CASE file = Missing
      BY <1>3, <3>1, <3>2, FirstStates, NoneAssumption DEF Load
    <3>3. CASE file \in Damaged
      BY <1>3, <3>1, <3>3, FirstStates, NoneAssumption DEF Load, Damaged
    <3>4. CASE file \in State
      BY <1>3, <3>1, <3>4, NoneAssumption DEF Load, Damaged
    <3> QED BY <3>2, <3>3, <3>4 DEF TypeOK
  <2> QED BY <2>1, <2>2
<1> QED BY <1>3, <1>8, <1>9, <1>10
-----------------------------------------------------------------------------
(* One gate object at a time                                               *)

(* The conjuncts of the inductive invariant that need it.                  *)
GateInv == FileInv /\ PaceInv /\ AllowanceInv /\ CoolInv /\ ProbeInv

(* After a save the gate's memory and the file agree.                      *)
LEMMA SaveKeepsFile ==
    ASSUME TypeOK, LogInv, NEW g, Gates = {g}, NEW st \in State, Orderly(st), Save(g, st)
    PROVE  FileInv'
<1>1. /\ file' \in State /\ file' # Missing /\ file' \notin Damaged
      /\ cache'[g] = st /\ st # None
      /\ file' = st \/ file' = [st EXCEPT !.sent = <<>>]
  BY SaveEffect, Fields
<1> QED BY <1>1 DEF FileInv

(* What a gate that lost its memory finds, or still has.                   *)
LEMMA LoadFacts ==
    ASSUME TypeOK, LogInv, NEW g, Gates = {g}, FileInv
    PROVE  /\ cache[g] # None /\ file \in State =>
                 /\ file.next = cache[g].next /\ file.cool = cache[g].cool
                 /\ file.probe = cache[g].probe /\ file.allow = cache[g].allow
                 /\ file.remaining = cache[g].remaining
           /\ cache[g] # None => Current(g) = cache[g] /\ file # Missing
           /\ cache[g] = None /\ file \in Damaged => Current(g) = Closed
           /\ file \in Damaged => damages # 0 /\ ~(hold > 0)
<1>1. cache[g] \in State \cup {None} /\ damages \in Nat /\ hold \in Nat
  BY TimeAssumption, LimitAssumption DEF TypeOK
<1>2. ASSUME cache[g] # None, file \in State
      PROVE  /\ file.next = cache[g].next /\ file.cool = cache[g].cool
             /\ file.probe = cache[g].probe /\ file.allow = cache[g].allow
             /\ file.remaining = cache[g].remaining
  <2>1. file = cache[g] \/ file = [cache[g] EXCEPT !.sent = <<>>]
    BY <1>2 DEF FileInv
  <2>2. cache[g] \in State
    BY <1>1, <1>2
  <2> QED BY <2>1, <2>2 DEF State
<1>3. cache[g] # None => Current(g) = cache[g] /\ file # Missing
  BY DEF Current, FileInv
<1>4. cache[g] = None /\ file \in Damaged => Current(g) = Closed
  BY NoneAssumption DEF Current, Load, Damaged
<1>5. file \in Damaged => damages # 0 /\ ~(hold > 0)
  BY <1>1 DEF FileInv
<1> QED BY <1>2, <1>3, <1>4, <1>5

(* The requests in flight are those that outlasted their reservation and   *)
(* those that did not.                                                     *)
LEMMA PromptFacts ==
    ASSUME TypeOK, LogInv
    PROVE  /\ \A id \in Ids : id \in Prompt <=> id \in InFlight /\ turns[id].age < Ttl
           /\ Prompt \subseteq InFlight /\ IsFiniteSet(Prompt)
           /\ Cardinality(Prompt) \in Nat
           /\ Cardinality(Lapsed) \in Nat
           /\ Cardinality(InFlight) = Cardinality(Prompt) + Cardinality(Lapsed)
<1>1. \A id \in Ids : id \in Prompt <=> id \in InFlight /\ turns[id].age < Ttl
  BY TurnFacts DEF Prompt, Lapsed
<1>2. IsFiniteSet(InFlight) /\ Lapsed \in SUBSET InFlight /\ Prompt = InFlight \ Lapsed
  BY DEF LogInv, Prompt, Lapsed
<1>3. InFlight \cap Lapsed = Lapsed
  BY <1>2
<1>4. /\ IsFiniteSet(Prompt) /\ IsFiniteSet(Lapsed)
      /\ Cardinality(Prompt) = Cardinality(InFlight) - Cardinality(Lapsed)
  <2>1. IsFiniteSet(Lapsed)
    BY <1>2, FS_Subset
  <2>2. /\ IsFiniteSet(InFlight \ Lapsed)
        /\ Cardinality(InFlight \ Lapsed) = Cardinality(InFlight) - Cardinality(InFlight \cap Lapsed)
    BY <1>2, FS_Difference
  <2> QED BY <1>2, <1>3, <2>1, <2>2
<1>5. Cardinality(Prompt) \in Nat /\ Cardinality(Lapsed) \in Nat /\ Cardinality(InFlight) \in Nat
  BY <1>2, <1>4, FS_CardinalityType
<1> QED BY <1>1, <1>2, <1>4, <1>5

LEMMA PromptPrimed ==
    ASSUME TypeOK'
    PROVE  \A id \in Ids : id \in Prompt' <=> id \in InFlight' /\ turns'[id].age < Ttl
<1>1. turns' \in [Ids -> TurnRecords \cup {None}]
  BY DEF TypeOK, TurnRecords
<1>2. Ttl \in Nat /\ \A r \in TurnRecords : r.age \in Nat
  BY TimeAssumption DEF TurnRecords
<1>3. \A id \in InFlight' : turns'[id].age \in Nat /\ id \in Ids
  BY <1>1, <1>2 DEF InFlight
<1> QED BY <1>2, <1>3 DEF Prompt, Lapsed

(* There are as many reservations as requests that did not outlast theirs. *)
LEMMA ReservedCount ==
    ASSUME TypeOK, LogInv, NEW reserved,
           reserved = {[id |-> id, left |-> Ttl - turns[id].age] : id \in Prompt}
    PROVE  Cardinality(reserved) = Cardinality(Prompt)
<1> DEFINE f == [id \in Prompt |-> [id |-> id, left |-> Ttl - turns[id].age]]
<1>1. IsFiniteSet(Prompt)
  BY PromptFacts
<1>2. f \in Bijection(Prompt, reserved)
  <2>1. f \in [Prompt -> reserved]
    OBVIOUS
  <2>2. \A i, j \in Prompt : f[i] = f[j] => i = j
    OBVIOUS
  <2>3. \A r \in reserved : \E i \in Prompt : f[i] = r
    OBVIOUS
  <2> HIDE DEF f
  <2> QED BY <2>1, <2>2, <2>3 DEF Bijection, Injection, IsInjective, Surjection
<1>3. ExistsBijection(Prompt, reserved)
  BY <1>2 DEF ExistsBijection
<1> QED BY <1>1, <1>3, FS_Bijection

(* The requests that arrived are some of those in flight.                  *)
LEMMA ArrivedCount ==
    ASSUME TypeOK, LogInv
    PROVE  /\ IsFiniteSet(Arrived) /\ Cardinality(Arrived) \in Nat
           /\ Cardinality(Arrived) <= Cardinality(InFlight)
           /\ IsFiniteSet(InFlight) /\ Cardinality(InFlight) \in Nat
<1>1. IsFiniteSet(InFlight) /\ Arrived \in SUBSET InFlight
  BY DEF LogInv, Arrived
<1> QED BY <1>1, FS_Subset, FS_CardinalityType

(* A new turn: the pace has passed since the last one, there is room for   *)
(* its stamp, and one that empties the budget is a probe.                  *)
LEMMA AcquireKeeps ==
    ASSUME TypeOK, LogInv, NEW g, Gates = {g}, GateInv, NEW id \in Ids, Acquire(g, id)
    PROVE  GateInv'
<1>a. PICK st : st = Current(g)
  OBVIOUS
<1>b. PICK new : new = Granted(st, id)
  OBVIOUS
<1> USE DEF GateInv
<1>1. /\ TypeOK' /\ LogInv' /\ st \in State /\ Orderly(st)
      /\ new \in State /\ Orderly(new)
  BY <1>a, <1>b, AcquireStep
<1>2. /\ new.next = Interval(st) /\ new.cool = st.cool
      /\ new.sent = st.sent /\ new.remaining = st.remaining
      /\ new.reserved = st.reserved \cup {[id |-> id, left |-> Ttl]}
      /\ ~HasBudget(new) => ~new.allow /\ new.probe = ProbeGap /\ new.remaining # None
  BY <1>1, <1>b, GrantedState
<1>3. /\ Save(g, new) /\ Wait(st) = 0 /\ id \notin InFlight
      /\ grants' = Append(grants, 0)
      /\ arrivals' = arrivals /\ overdue' = overdue /\ penalty' = penalty
      /\ restarts' = restarts /\ damages' = damages
  BY <1>a, <1>b DEF Acquire
<1>4. Current(g)' = new
  BY <1>1, <1>3, SaveEffect
<1>5. /\ st.next = 0 /\ Len(st.sent) + Cardinality(st.reserved) < st.limit
      /\ st.limit \in Nat /\ st.limit <= Ceiling /\ Ceiling \in Nat
      /\ Len(st.sent) \in Nat /\ Cardinality(st.reserved) \in Nat
  <2>1. /\ st.next = 0 /\ Len(st.sent) + Cardinality(st.reserved) < st.limit
        /\ Cardinality(st.reserved) \in Nat
    BY <1>1, <1>3, WaitFacts
  <2>2. st.limit \in {FallbackLimit, ServerLimit} /\ Len(st.sent) \in Nat
    BY <1>1, Fields
  <2>3. /\ FallbackLimit \in Nat /\ ServerLimit \in Nat /\ Ceiling \in Nat
        /\ FallbackLimit <= Ceiling /\ ServerLimit <= Ceiling
    BY PaceFacts
  <2> QED BY <2>1, <2>2, <2>3
<1>6. FileInv'
  BY <1>1, <1>3, SaveKeepsFile
<1>7. PaceInv'
  <2> SUFFICES ASSUME damages' = 0, NEW i \in 1..(Len(grants) + 1)
               PROVE  /\ grants'[i] >= (Len(grants) + 1 - i) * Pace
                      /\ grants'[i] + new.next >= (Len(grants) + 1 - i + 1) * Pace
    <3>1. Len(grants') = Len(grants) + 1 /\ DOMAIN grants' = 1..(Len(grants) + 1)
      BY <1>3, AppendNow DEF TypeOK, LogInv
    <3> QED BY <1>4, <3>1 DEF PaceInv
  <2>1. new.next \in Nat /\ Pace \in Nat /\ Pace <= new.next
    BY <1>1, <1>2, IntervalFacts, Fields
  <2>2. CASE i = Len(grants) + 1
    <3>1. grants'[i] = 0 /\ Len(grants) \in Nat
      BY <1>3, <2>2, AppendNow DEF TypeOK, LogInv
    <3>2. Len(grants) + 1 - i = 0 /\ 0 * Pace = 0 /\ (0 + 1) * Pace = Pace
      BY <2>1, <2>2, <3>1
    <3> QED BY <2>1, <3>1, <3>2
  <2>3. CASE i # Len(grants) + 1
    <3>1. i \in 1..Len(grants) /\ Len(grants) \in Nat
      BY <2>3, AppendNow DEF TypeOK, LogInv
    <3>2. grants'[i] = grants[i] /\ grants[i] \in Nat
      BY <1>3, <3>1, AppendNow DEF TypeOK, LogInv
    <3>3. grants[i] + st.next >= (Len(grants) - i + 1) * Pace
      BY <1>3, <1>a, <3>1 DEF PaceInv
    <3>4. PICK d \in Nat : d = Len(grants) - i + 1
      BY <3>1
    <3>5. Len(grants) + 1 - i = d /\ (d + 1) * Pace = d * Pace + Pace /\ d * Pace \in Nat
      BY <2>1, <3>1, <3>4
    <3> QED BY <1>5, <2>1, <3>2, <3>3, <3>4, <3>5
  <2> QED BY <2>2, <2>3
<1>8. AllowanceInv'
  <2> SUFFICES ASSUME restarts = 0, damages = 0
               PROVE  /\ new.reserved = {[id |-> i, left |-> Ttl - turns'[i].age] : i \in Prompt'}
                      /\ Among(overdue', new.sent)
                      /\ Len(new.sent) + Cardinality(Prompt') <= Ceiling + Len(overdue')
                      /\ Covered(new.sent, Cardinality(Arrived))'
    BY <1>3, <1>4 DEF AllowanceInv, Among
  <2>1. /\ st.reserved = {[id |-> i, left |-> Ttl - turns[i].age] : i \in Prompt}
        /\ Among(overdue, st.sent)
        /\ Covered(st.sent, Cardinality(Arrived))
    BY <1>a DEF AllowanceInv
  <2>2. /\ InFlight' = InFlight \cup {id} /\ turns'[id].age = 0 /\ turns'[id].arrived = FALSE
        /\ \A i \in Ids : i # id => turns'[i] = turns[i]
        /\ InFlight \subseteq Ids
    BY TurnStarts, TurnFacts DEF Acquire
  <2>3. \A i \in InFlight : turns'[i] = turns[i] /\ i # id
    BY <1>3, <2>2
  <2>8. Prompt' = Prompt \cup {id} /\ id \notin Prompt /\ Prompt \subseteq InFlight
    <3>1. 0 < Ttl
      BY TimeAssumption
    <3>2. Prompt \subseteq InFlight /\ Prompt' \subseteq InFlight'
      BY DEF Prompt
    <3>3. \A i \in Ids : /\ i \in Prompt <=> i \in InFlight /\ turns[i].age < Ttl
                         /\ i \in Prompt' <=> i \in InFlight' /\ turns'[i].age < Ttl
      <4>1. \A i \in Ids : i \in Prompt <=> i \in InFlight /\ turns[i].age < Ttl
        BY PromptFacts
      <4>2. \A i \in Ids : i \in Prompt' <=> i \in InFlight' /\ turns'[i].age < Ttl
        BY <1>1, PromptPrimed
      <4> QED BY <4>1, <4>2
    <3> QED BY <1>3, <2>2, <2>3, <3>1, <3>2, <3>3
  <2>4. new.reserved = {[id |-> i, left |-> Ttl - turns'[i].age] : i \in Prompt'}
    <3>1. Ttl - turns'[id].age = Ttl
      BY <2>2, TimeAssumption
    <3> QED BY <1>2, <2>1, <2>3, <2>8, <3>1
  <2>5. Len(new.sent) + Cardinality(Prompt') <= Ceiling + Len(overdue')
    <3>1. Cardinality(st.reserved) = Cardinality(Prompt) /\ Cardinality(Prompt) \in Nat
      BY <2>1, ReservedCount, PromptFacts
    <3>2. Cardinality(Prompt') = Cardinality(Prompt) + 1
      BY <2>8, FS_AddElement, PromptFacts
    <3>3. overdue' = overdue /\ Len(overdue) \in Nat
      BY <1>3 DEF TypeOK
    <3> QED BY <1>2, <1>5, <3>1, <3>2, <3>3
  <2>6. Arrived' = Arrived
    BY <1>3, <2>2, <2>3 DEF Arrived
  <2>7. Covered(new.sent, Cardinality(Arrived))'
    BY <1>2, <1>3, <1>4, <2>1, <2>6 DEF Covered
  <2> QED BY <1>2, <1>3, <2>1, <2>4, <2>5, <2>7
<1>9. CoolInv'
  BY <1>2, <1>3, <1>4, <1>a DEF CoolInv
<1>10. ProbeInv'
  <2> SUFFICES ASSUME hold' > 0
               PROVE  ~new.allow /\ new.probe >= hold' /\ new.remaining # None
    BY <1>4 DEF ProbeInv
  <2>1. IsProbe(g, st, id) /\ hold' = ProbeGap /\ ProbeGap \in Nat
    BY <1>a, TimeAssumption DEF Acquire
  <2>2. CASE cache[g] = None /\ file = Unreadable
    <3>1. new.remaining = Safety /\ Safety \in Nat /\ new.reserved = {[id |-> id, left |-> Ttl]}
      BY <1>2, <1>a, <2>2, LoadFacts, FirstStates DEF Damaged
    <3>2. Cardinality(new.reserved) = 1
      BY <3>1, FS_Singleton
    <3>3. ~HasBudget(new)
      BY <3>1, <3>2, NoneAssumption DEF HasBudget
    <3> QED BY <1>2, <2>1, <3>3
  <2>3. CASE ~HasBudget(new)
    BY <1>2, <2>1, <2>3
  <2> QED BY <1>b, <2>1, <2>2, <2>3 DEF IsProbe
<1> QED BY <1>6, <1>7, <1>8, <1>9, <1>10

(* A round that waits changes nothing the conjuncts look at.               *)
LEMMA PollKeeps ==
    ASSUME TypeOK, LogInv, NEW g, Gates = {g}, GateInv, Poll(g)
    PROVE  GateInv'
<1>a. PICK st : st = Current(g)
  OBVIOUS
<1>b. PICK new : new = [st EXCEPT !.clear = ClearAfter(st)]
  OBVIOUS
<1> USE DEF GateInv
<1>1. /\ TypeOK' /\ LogInv' /\ st \in State /\ Orderly(st)
      /\ new \in State /\ Orderly(new) /\ Save(g, new) /\ InFlight' = InFlight
  BY <1>a, <1>b, PollStep
<1>2. /\ new.next = st.next /\ new.cool = st.cool
      /\ new.probe = st.probe /\ new.allow = st.allow /\ new.remaining = st.remaining
      /\ new.sent = st.sent /\ new.reserved = st.reserved
  BY <1>1, <1>b, PolledState
<1>3. Current(g)' = new
  BY <1>1, SaveEffect
<1>4. UNCHANGED <<turns, arrivals, overdue, grants, penalty, hold, restarts, damages>>
  BY DEF Poll
<1>5. FileInv'
  BY <1>1, SaveKeepsFile
<1>6. PaceInv'
  BY <1>2, <1>3, <1>4, <1>a DEF PaceInv
<1>7. AllowanceInv'
  <2> SUFFICES ASSUME restarts = 0, damages = 0
               PROVE  /\ new.reserved = {[id |-> i, left |-> Ttl - turns'[i].age] : i \in Prompt'}
                      /\ Among(overdue', new.sent)
                      /\ Len(new.sent) + Cardinality(Prompt') <= Ceiling + Len(overdue')
                      /\ Covered(new.sent, Cardinality(Arrived))'
    BY <1>3, <1>4 DEF AllowanceInv, Among
  <2>1. /\ st.reserved = {[id |-> i, left |-> Ttl - turns[i].age] : i \in Prompt}
        /\ Among(overdue, st.sent)
        /\ Len(st.sent) + Cardinality(Prompt) <= Ceiling + Len(overdue)
        /\ Covered(st.sent, Cardinality(Arrived))
    BY <1>4, <1>a DEF AllowanceInv
  <2>2. Arrived' = Arrived /\ Prompt' = Prompt
    BY <1>1, <1>4 DEF Arrived, Prompt, Lapsed
  <2>3. Covered(new.sent, Cardinality(Arrived))'
    BY <1>2, <1>4, <2>1, <2>2 DEF Covered
  <2> QED BY <1>1, <1>2, <1>4, <2>1, <2>2, <2>3
<1>8. CoolInv'
  BY <1>2, <1>3, <1>4, <1>a DEF CoolInv
<1>9. ProbeInv'
  BY <1>2, <1>3, <1>4, <1>a DEF ProbeInv
<1> QED BY <1>5, <1>6, <1>7, <1>8, <1>9

(* An arrival is covered by its own request in flight: every earlier one   *)
(* moves one place from the end of its log and has one more arrival after  *)
(* it.                                                                     *)
LEMMA ArriveKeeps ==
    ASSUME TypeOK, LogInv, NEW g, Gates = {g}, GateInv, NEW id \in Ids, Arrive(id)
    PROVE  GateInv'
<1>a. PICK st : st = Current(g)
  OBVIOUS
<1> USE DEF GateInv
<1>1. /\ id \in InFlight /\ ~turns[id].arrived
      /\ arrivals' = Append(arrivals, 0)
      /\ UNCHANGED <<file, cache, unflushed, overdue, grants, penalty, hold, restarts, damages>>
  BY DEF Arrive
<1>2. Current(g)' = st
  BY <1>1, <1>a DEF Current, Load
<1>3. /\ InFlight' = InFlight /\ turns'[id].arrived /\ turns'[id].age = turns[id].age
      /\ \A i \in Ids : i # id => turns'[i] = turns[i]
      /\ InFlight \subseteq Ids
  BY <1>1, TurnArrives, TurnFacts DEF Arrive
<1>4. FileInv'
  BY <1>1 DEF FileInv
<1>5. PaceInv'
  BY <1>1, <1>2, <1>a DEF PaceInv
<1>6. AllowanceInv'
  <2> SUFFICES ASSUME restarts = 0, damages = 0
               PROVE  /\ st.reserved = {[id |-> i, left |-> Ttl - turns'[i].age] : i \in Prompt'}
                      /\ Among(overdue', st.sent)
                      /\ Len(st.sent) + Cardinality(Prompt') <= Ceiling + Len(overdue')
                      /\ Covered(st.sent, Cardinality(Arrived))'
    BY <1>1, <1>2 DEF AllowanceInv, Among
  <2>1. /\ st.reserved = {[id |-> i, left |-> Ttl - turns[i].age] : i \in Prompt}
        /\ Among(overdue, st.sent)
        /\ Len(st.sent) + Cardinality(Prompt) <= Ceiling + Len(overdue)
        /\ Covered(st.sent, Cardinality(Arrived))
    BY <1>1, <1>a DEF AllowanceInv
  <2>2. Prompt' = Prompt /\ \A i \in Prompt : turns'[i].age = turns[i].age
    <3>1. \A i \in InFlight : turns'[i].age = turns[i].age
      BY <1>3
    <3> QED BY <1>3, <3>1 DEF Prompt, Lapsed
  <2>3. Arrived' = Arrived \cup {id} /\ id \notin Arrived
    BY <1>1, <1>3 DEF Arrived
  <2>4. /\ Cardinality(Arrived') = Cardinality(Arrived) + 1
        /\ Cardinality(Arrived) \in Nat
    BY <2>3, ArrivedCount, FS_AddElement
  <2>5. Covered(st.sent, Cardinality(Arrived))'
    <3>1. PICK k : k = Cardinality(Arrived)
      OBVIOUS
    <3>2. k \in Nat /\ Cardinality(Arrived)' = k + 1
      BY <2>4, <3>1
    <3>3. /\ Len(arrivals) \in Nat /\ Len(arrivals') = Len(arrivals) + 1
          /\ DOMAIN arrivals = 1..Len(arrivals) /\ DOMAIN arrivals' = 1..(Len(arrivals) + 1)
          /\ \A i \in 1..Len(arrivals) : arrivals'[i] = arrivals[i]
      BY <1>1, AppendNow DEF TypeOK, LogInv
    <3> SUFFICES ASSUME NEW j \in 1..(Len(arrivals) + 1), j > k + 1
                 PROVE  /\ j - (k + 1) <= Len(st.sent)
                        /\ Youngest(st.sent, j - (k + 1)) <= Youngest(arrivals', j)
      BY <3>2, <3>3, <1>2, <1>a DEF Covered
    <3>4. /\ j - 1 \in 1..Len(arrivals) /\ j - 1 > k /\ (j - 1) - k = j - (k + 1)
      BY <3>2, <3>3
    <3>5. /\ (j - 1) - k <= Len(st.sent)
          /\ Youngest(st.sent, (j - 1) - k) <= Youngest(arrivals, j - 1)
      BY <2>1, <3>1, <3>3, <3>4 DEF Covered
    <3>6. Youngest(arrivals', j) = Youngest(arrivals, j - 1)
      <4>1. /\ Len(arrivals') - j + 1 = Len(arrivals) - (j - 1) + 1
            /\ Len(arrivals) - (j - 1) + 1 \in 1..Len(arrivals)
        BY <3>3, <3>4
      <4> QED BY <3>3, <4>1 DEF Youngest
    <3> QED BY <3>4, <3>5, <3>6
  <2> QED BY <1>1, <2>1, <2>2, <2>5
<1>7. CoolInv'
  BY <1>1, <1>2, <1>a DEF CoolInv
<1>8. ProbeInv'
  BY <1>1, <1>2, <1>a DEF ProbeInv
<1> QED BY <1>4, <1>5, <1>6, <1>7, <1>8

(* An entry of a log is an age.                                            *)
LEMMA YoungestType ==
    ASSUME NEW log \in Seq(Ages), NEW j \in 1..Len(log)
    PROVE  Youngest(log, j) \in Nat
<1>1. Len(log) - j + 1 \in 1..Len(log)
  OBVIOUS
<1>2. log[Len(log) - j + 1] \in Ages
  BY <1>1
<1> QED BY <1>2, PaceFacts DEF Youngest, Ages

(* Stamps of now at the end of an ordered log: the j-th youngest of the    *)
(* longer log is no older than the j-th of the log, and it has one more.   *)
LEMMA YoungerWithNow ==
    ASSUME NEW log \in Seq(Ages), InOrder(log), NEW longer, longer = Append(log, 0)
    PROVE  /\ Len(log) \in Nat /\ Len(longer) = Len(log) + 1
           /\ Youngest(longer, 1) = 0
           /\ \A j \in 1..Len(log) :
                 /\ Youngest(longer, j) <= Youngest(log, j)
                 /\ Youngest(longer, j + 1) = Youngest(log, j)
                 /\ Youngest(log, j) \in Nat
<1>1. /\ Len(log) \in Nat /\ Len(longer) = Len(log) + 1
      /\ longer \in Seq(Ages) /\ InOrder(longer) /\ longer[Len(log) + 1] = 0
      /\ \A i \in 1..Len(log) : longer[i] = log[i] /\ log[i] \in Nat
  BY AppendNow
<1>2. Youngest(longer, 1) = 0
  BY <1>1 DEF Youngest
<1>3. ASSUME NEW j \in 1..Len(log)
      PROVE  /\ Youngest(longer, j) <= Youngest(log, j)
             /\ Youngest(longer, j + 1) = Youngest(log, j)
             /\ Youngest(log, j) \in Nat
  <2> DEFINE i == Len(log) - j + 1
  <2>1. i \in 1..Len(log) /\ i + 1 \in 1..(Len(log) + 1)
    BY <1>1
  <2>2. Len(longer) - j + 1 = i + 1 /\ Len(longer) - (j + 1) + 1 = i
    BY <1>1
  <2>3. /\ Youngest(longer, j) = longer[i + 1] /\ Youngest(longer, j + 1) = longer[i]
        /\ Youngest(log, j) = log[i]
    BY <2>2 DEF Youngest
  <2>4. i \in 1..Len(longer) /\ i + 1 \in 1..Len(longer) /\ i <= i + 1
    BY <1>1, <2>1
  <2> HIDE DEF i
  <2>5. longer[i] >= longer[i + 1]
    BY <1>1, <2>4 DEF InOrder
  <2>6. longer[i] = log[i] /\ log[i] \in Nat
    BY <1>1, <2>1
  <2>7. longer[i + 1] \in Nat
    BY <1>1, <2>1, <2>4
  <2> QED BY <2>3, <2>5, <2>6, <2>7
<1> QED BY <1>1, <1>2, <1>3

(* A stamp of now covers the request that ended, whether the server        *)
(* counted it or not.                                                      *)
LEMMA CoveredAfter ==
    ASSUME TypeOK, LogInv, NEW log \in Seq(Ages), InOrder(log),
           NEW k \in Nat, Covered(log, k),
           NEW longer, longer = Append(log, 0), NEW m \in Nat, m = k \/ m + 1 = k
    PROVE  Covered(longer, m)
<1>1. /\ Len(log) \in Nat /\ Len(longer) = Len(log) + 1
      /\ Youngest(longer, 1) = 0
      /\ \A j \in 1..Len(log) :
            /\ Youngest(longer, j) <= Youngest(log, j)
            /\ Youngest(longer, j + 1) = Youngest(log, j)
            /\ Youngest(log, j) \in Nat
  BY YoungerWithNow
<1>2. \A j \in DOMAIN arrivals : j \in Nat /\ Youngest(arrivals, j) \in Nat
  <2> SUFFICES ASSUME NEW j \in 1..Len(arrivals)
               PROVE  Youngest(arrivals, j) \in Nat
    BY DEF TypeOK
  <2> QED BY YoungestType DEF TypeOK
<1> SUFFICES ASSUME NEW j \in DOMAIN arrivals, j > m
             PROVE  /\ j - m <= Len(longer)
                    /\ Youngest(longer, j - m) <= Youngest(arrivals, j)
  BY DEF Covered
<1>3. j > k => /\ j - k <= Len(log)
               /\ Youngest(log, j - k) <= Youngest(arrivals, j)
  BY DEF Covered
<1>4. CASE m = k
  <2>1. j - k \in 1..Len(log)
    BY <1>1, <1>2, <1>3, <1>4
  <2>2. Youngest(longer, j - k) <= Youngest(log, j - k) /\ Youngest(log, j - k) \in Nat
    BY <1>1, <2>1
  <2>3. Youngest(longer, j - k) <= Youngest(arrivals, j)
    <3>1. Youngest(longer, j - k) \in Int
      <4>1. longer \in Seq(Ages) /\ j - k \in 1..Len(longer)
        BY <1>1, <2>1, AppendNow
      <4>2. \A i \in 1..Len(longer) : Youngest(longer, i) \in Nat
        BY <4>1, YoungestType
      <4> QED BY <4>1, <4>2
    <3> QED BY <1>2, <1>3, <1>4, <2>2, <3>1
  <2> QED BY <1>1, <1>4, <2>1, <2>3
<1>5. CASE m + 1 = k /\ j = k
  <2>1. j - m = 1 /\ 0 <= Youngest(arrivals, j)
    BY <1>2, <1>5
  <2> QED BY <1>1, <2>1
<1>6. CASE m + 1 = k /\ j > k
  <2>1. j - k \in 1..Len(log) /\ j - m = (j - k) + 1
    BY <1>1, <1>2, <1>3, <1>6
  <2>2. Youngest(longer, j - m) = Youngest(log, j - k)
    BY <1>1, <2>1
  <2> QED BY <1>1, <1>3, <1>6, <2>1, <2>2
<1> QED BY <1>2, <1>4, <1>5, <1>6

(* A request that ended: its stamp takes the place of its reservation.     *)
LEMMA EndKeeps ==
    ASSUME TypeOK, LogInv, NEW g, Gates = {g}, GateInv,
           NEW id \in Ids, Response(id) \/ Release(id)
    PROVE  GateInv'
<1>a. PICK st : st = Current(g)
  OBVIOUS
<1> USE DEF GateInv
<1>1. /\ TypeOK' /\ LogInv' /\ id \in InFlight /\ Ended(id)
      /\ UNCHANGED <<arrivals, grants, restarts, damages>>
      /\ \E seen : EndedAs(id, seen)
  BY EndStep
<1>2. turns[id].gate = g /\ st \in State /\ Orderly(st)
  BY <1>1, <1>a, TurnFacts, CurrentType
<1>3. PICK new : EndedAs(id, new)
  BY <1>1
<1>4. /\ new \in State /\ Orderly(new) /\ Save(g, new)
      /\ new.next = st.next
      /\ st.cool >= penalty => new.cool >= penalty'
      /\ new.sent = Append(st.sent, 0) /\ new.reserved = WithoutTurn(st, id)
      /\ hold' > 0 => /\ hold' = hold /\ new.probe = st.probe
                      /\ new.allow = st.allow /\ new.remaining = st.remaining
  BY <1>2, <1>3, <1>a DEF EndedAs
<1>5. Current(g)' = new
  BY <1>4, SaveEffect
<1>6. FileInv'
  BY <1>4, SaveKeepsFile
<1>7. PaceInv'
  BY <1>1, <1>4, <1>5, <1>a DEF PaceInv
<1>8. AllowanceInv'
  <2> SUFFICES ASSUME restarts = 0, damages = 0
               PROVE  /\ new.reserved = {[id |-> i, left |-> Ttl - turns'[i].age] : i \in Prompt'}
                      /\ Among(overdue', new.sent)
                      /\ Len(new.sent) + Cardinality(Prompt') <= Ceiling + Len(overdue')
                      /\ Covered(new.sent, Cardinality(Arrived))'
    BY <1>1, <1>5 DEF AllowanceInv, Among
  <2>1. /\ st.reserved = {[id |-> i, left |-> Ttl - turns[i].age] : i \in Prompt}
        /\ Among(overdue, st.sent)
        /\ Len(st.sent) + Cardinality(Prompt) <= Ceiling + Len(overdue)
        /\ Covered(st.sent, Cardinality(Arrived))
    BY <1>1, <1>a DEF AllowanceInv
  <2>2. /\ InFlight' = InFlight \ {id}
        /\ \A i \in Ids : i # id => turns'[i] = turns[i]
        /\ InFlight \subseteq Ids
        /\ id \in Lapsed => overdue' = Append(overdue, 0)
        /\ id \notin Lapsed => overdue' = overdue
    BY <1>1, TurnEnds, TurnFacts
  <2>3. \A i \in InFlight' : turns'[i] = turns[i]
    BY <2>2
  <2>4. Prompt' = Prompt \ {id} /\ (id \in Prompt <=> id \notin Lapsed)
    <3>1. \A i \in InFlight' : i \in Lapsed' <=> i \in Lapsed
      BY <2>2, <2>3 DEF Lapsed
    <3>2. Lapsed \subseteq InFlight /\ Lapsed' \subseteq InFlight'
      BY DEF Lapsed
    <3> QED BY <1>1, <2>2, <3>1, <3>2 DEF Prompt
  <2>5. new.reserved = {[id |-> i, left |-> Ttl - turns'[i].age] : i \in Prompt'}
    <3>1. new.reserved = {r \in st.reserved : r.id # id}
      BY <1>4 DEF WithoutTurn
    <3>2. new.reserved = {[id |-> i, left |-> Ttl - turns[i].age] : i \in Prompt \ {id}}
      BY <2>1, <3>1
    <3>3. \A i \in Prompt' : turns'[i] = turns[i]
      BY <2>3 DEF Prompt
    <3> QED BY <2>4, <3>2, <3>3
  <2>6. /\ st.sent \in Seq(Ages) /\ InOrder(st.sent) /\ Len(st.sent) \in Nat
        /\ overdue \in Seq(Ages) /\ InOrder(overdue) /\ Len(overdue) \in Nat
    BY <1>2, Fields DEF Orderly, TypeOK, LogInv
  <2>7. /\ Among(overdue', new.sent)
        /\ Len(new.sent) + Cardinality(Prompt') <= Ceiling + Len(overdue')
    <3>1. /\ Len(new.sent) = Len(st.sent) + 1 /\ Ceiling \in Nat
          /\ Len(Append(overdue, 0)) = Len(overdue) + 1
      BY <1>4, <2>6, AppendNow, PaceFacts
    <3>2. Among(overdue, new.sent) /\ Among(Append(overdue, 0), new.sent)
      BY <1>4, <2>1, <2>6, AmongNow
    <3>3. IsFiniteSet(Prompt) /\ Cardinality(Prompt) \in Nat
      BY PromptFacts
    <3>4. CASE id \in Lapsed
      <4>1. overdue' = Append(overdue, 0) /\ Prompt' = Prompt
        BY <2>2, <2>4, <3>4
      <4> QED BY <2>1, <2>6, <3>1, <3>2, <3>3, <4>1
    <3>5. CASE id \notin Lapsed
      <4>1. overdue' = overdue /\ id \in Prompt
        BY <2>2, <2>4, <3>5
      <4>2. Cardinality(Prompt') = Cardinality(Prompt) - 1
        BY <2>4, <3>3, <4>1, FS_RemoveElement
      <4> QED BY <2>1, <2>6, <3>1, <3>2, <3>3, <4>1, <4>2
    <3> QED BY <3>4, <3>5
  <2>8. Covered(new.sent, Cardinality(Arrived))'
    <3>1. Arrived' = Arrived \ {id}
      BY <2>2, <2>3 DEF Arrived
    <3>2. PICK k, m : k = Cardinality(Arrived) /\ m = Cardinality(Arrived')
      OBVIOUS
    <3>3. k \in Nat /\ m \in Nat /\ (m = k \/ m + 1 = k)
      <4>1. k \in Nat /\ m \in Nat
        BY <3>1, <3>2, ArrivedCount, FS_RemoveElement, FS_CardinalityType
      <4>2. m = IF id \in Arrived THEN k - 1 ELSE k
        BY <3>1, <3>2, ArrivedCount, FS_RemoveElement
      <4> QED BY <4>1, <4>2
    <3>4. Covered(new.sent, m)
      BY <1>4, <2>1, <2>6, <3>2, <3>3, CoveredAfter
    <3> QED BY <1>1, <3>2, <3>4 DEF Covered
  <2> QED BY <2>5, <2>7, <2>8
<1>9. CoolInv'
  BY <1>1, <1>4, <1>5, <1>a DEF CoolInv
<1>10. ProbeInv'
  BY <1>4, <1>5, <1>a DEF ProbeInv
<1> QED BY <1>6, <1>7, <1>8, <1>9, <1>10

(* A new gate object goes on from the file, which has what the memory had. *)
LEMMA RestartKeeps ==
    ASSUME TypeOK, LogInv, NEW g, Gates = {g}, GateInv, Restart(g)
    PROVE  GateInv'
<1>a. PICK st : st = Current(g)
  OBVIOUS
<1> USE DEF GateInv
<1>1. /\ cache[g] # None /\ cache'[g] = None
      /\ UNCHANGED <<file, arrivals, overdue, grants, penalty, hold, damages>>
  BY DEF Restart, TypeOK
<1>2. restarts' > 0 /\ restarts' # 0
  BY RestartStep
<1>3. /\ st = cache[g] /\ file # Missing
      /\ file \in Damaged => damages # 0 /\ ~(hold > 0)
  BY <1>1, <1>a, LoadFacts
<1>4. file \notin Damaged =>
        /\ Current(g)' = file
        /\ file.next = st.next /\ file.cool = st.cool
        /\ file.probe = st.probe /\ file.allow = st.allow
        /\ file.remaining = st.remaining
  <2>1. ASSUME file \notin Damaged PROVE file \in State /\ Current(g)' = file
    BY <1>1, <1>3, <2>1 DEF TypeOK, Current, Load
  <2> QED BY <1>1, <1>3, <2>1, LoadFacts
<1>5. FileInv'
  BY <1>1, <1>2, <1>3 DEF FileInv
<1>6. PaceInv'
  BY <1>1, <1>3, <1>4, <1>a DEF PaceInv
<1>7. AllowanceInv'
  BY <1>2 DEF AllowanceInv
<1>8. CoolInv'
  BY <1>1, <1>3, <1>4, <1>a DEF CoolInv
<1>9. ProbeInv'
  BY <1>1, <1>3, <1>4, <1>a DEF ProbeInv
<1> QED BY <1>5, <1>6, <1>7, <1>8, <1>9

(* After a lost file nothing is promised but one probe.                    *)
LEMMA DamageKeeps ==
    ASSUME TypeOK, LogInv, NEW g, Gates = {g}, GateInv, Damage
    PROVE  GateInv'
<1>1. /\ file' \in Damaged /\ hold' = 0 /\ cache' = cache /\ restarts' = restarts
  BY DEF Damage
<1>2. damages' > 0 /\ damages' # 0
  BY DamageStep
<1>3. FileInv'
  BY <1>1, <1>2, NoneAssumption DEF FileInv, Damaged
<1>4. ProbeInv'
  BY <1>1 DEF ProbeInv
<1> QED BY <1>2, <1>3, <1>4 DEF GateInv, PaceInv, AllowanceInv, CoolInv

(* Everything grows older together.                                        *)
LEMMA TickKeeps ==
    ASSUME TypeOK, LogInv, NEW g, Gates = {g}, GateInv, Tick
    PROVE  GateInv'
<1>a. PICK st : st = Current(g)
  OBVIOUS
<1>b. PICK new : new = Aged(st)
  OBVIOUS
<1> USE DEF GateInv
<1>1. /\ TypeOK' /\ LogInv' /\ (file' \in State <=> file \in State)
      /\ Current(g)' = new
  BY <1>a, <1>b, TickStep
<1>2. st \in State /\ Orderly(st)
  BY <1>a, CurrentType
<1>3. /\ new \in State /\ Orderly(new)
      /\ new.next = Less(st.next, 1) /\ new.cool = Less(st.cool, 1)
      /\ new.probe = Less(st.probe, 1)
      /\ new.allow = st.allow /\ new.remaining = st.remaining
      /\ new.sent = Older(st.sent) /\ new.reserved = Shorter(st.reserved)
  BY <1>2, <1>b, AgedState
<1>4. /\ file' = IF file \in State THEN Aged(file) ELSE file
      /\ cache' = [h \in Gates |-> IF cache[h] = None THEN None ELSE Aged(cache[h])]
      /\ arrivals' = Older(arrivals) /\ grants' = Older(grants)
      /\ overdue' = Older(overdue)
      /\ penalty' = Less(penalty, 1) /\ hold' = Less(hold, 1)
      /\ UNCHANGED <<unflushed, restarts, damages>>
  BY DEF Tick
<1>5. /\ st.next \in Nat /\ st.cool \in Nat /\ st.probe \in Nat
      /\ st.sent \in Seq(Ages) /\ InOrder(st.sent)
      /\ penalty \in Nat /\ hold \in Nat
  BY <1>2, Fields, TimeAssumption DEF TypeOK, Orderly
<1>6. FileInv'
  <2>1. file' \in Damaged => damages' > 0 /\ hold' = 0
    <3>1. ASSUME file' \in Damaged PROVE file \in Damaged
      BY <1>1, <1>4, <3>1, NoneAssumption DEF TypeOK, Damaged
    <3>2. Less(0, 1) = 0
      BY DEF Less
    <3> QED BY <1>4, <3>1, <3>2 DEF FileInv
  <2>2. cache'[g] = IF cache[g] = None THEN None ELSE Aged(cache[g])
    BY <1>4
  <2>3. file' = Missing => cache'[g] = None
    <3>1. ASSUME file' = Missing PROVE file = Missing
      BY <1>1, <1>4, <3>1, NoneAssumption DEF TypeOK
    <3> QED BY <2>2, <3>1 DEF FileInv
  <2>4. ASSUME cache'[g] # None, file' \in State
        PROVE  file' = cache'[g] \/ file' = [cache'[g] EXCEPT !.sent = <<>>]
    <3>1. /\ cache[g] # None /\ cache[g] \in State /\ cache'[g] = Aged(cache[g])
          /\ file \in State /\ file' = Aged(file)
      BY <1>1, <1>4, <2>2, <2>4, NoneAssumption DEF TypeOK
    <3>2. CASE file = cache[g]
      BY <3>1, <3>2
    <3>3. CASE file = [cache[g] EXCEPT !.sent = <<>>]
      <4>a. PICK c, a, b, d : /\ c = cache[g] /\ a = Aged(c) /\ b = Aged(file)
                              /\ d = [a EXCEPT !.sent = <<>>]
        OBVIOUS
      <4>1. /\ file.limit = c.limit /\ file.next = c.next /\ file.cool = c.cool
            /\ file.probe = c.probe /\ file.clear = c.clear /\ file.allow = c.allow
            /\ file.remaining = c.remaining /\ file.sent = <<>>
            /\ file.reserved = c.reserved
        BY <3>1, <3>3, <4>a DEF State
      <4>2. Orderly(c) /\ Orderly(file)
        BY <3>1, <4>a DEF LogInv
      <4>3. /\ a \in State
            /\ a.limit = c.limit
            /\ a.next = Less(c.next, 1) /\ a.cool = Less(c.cool, 1)
            /\ a.probe = Less(c.probe, 1)
            /\ a.clear = IF c.clear = None THEN None ELSE Less(c.clear, 1)
            /\ a.allow = c.allow /\ a.remaining = c.remaining
            /\ a.reserved = Shorter(c.reserved)
        BY <3>1, <4>2, <4>a, AgedState
      <4>4. /\ b \in State
            /\ b.limit = file.limit
            /\ b.next = Less(file.next, 1) /\ b.cool = Less(file.cool, 1)
            /\ b.probe = Less(file.probe, 1)
            /\ b.clear = IF file.clear = None THEN None ELSE Less(file.clear, 1)
            /\ b.allow = file.allow /\ b.remaining = file.remaining
            /\ b.sent = Older(file.sent) /\ b.reserved = Shorter(file.reserved)
        BY <3>1, <4>2, <4>a, AgedState
      <4>5. b.sent = <<>>
        BY <4>1, <4>4, OlderEmpty
      <4>6. <<>> \in Seq(Ages)
        OBVIOUS
      <4>7. d \in State
        BY <4>3, <4>6, <4>a DEF State
      <4>8. /\ d.limit = a.limit /\ d.next = a.next /\ d.cool = a.cool
            /\ d.probe = a.probe /\ d.clear = a.clear /\ d.allow = a.allow
            /\ d.remaining = a.remaining /\ d.sent = <<>> /\ d.reserved = a.reserved
        BY <4>3, <4>a DEF State
      <4>9. b = d
        BY <4>1, <4>3, <4>4, <4>5, <4>7, <4>8, SameState
      <4> QED BY <3>1, <4>9, <4>a
    <3> QED BY <3>1, <3>2, <3>3 DEF FileInv
  <2>5. cache'[g] = None /\ file' \in State => restarts' > 0 \/ damages' > 0
    <3>1. ASSUME cache'[g] = None, file' \in State PROVE cache[g] = None /\ file \in State
      BY <1>1, <2>2, <3>1, TickStep, NoneAssumption, AgedState DEF TypeOK, LogInv
    <3> QED BY <1>4, <3>1 DEF FileInv
  <2> QED BY <2>1, <2>3, <2>4, <2>5 DEF FileInv
<1>7. PaceInv'
  <2> SUFFICES ASSUME damages = 0, NEW i \in 1..Len(grants')
               PROVE  /\ grants'[i] >= (Len(grants') - i) * Pace
                      /\ grants'[i] + new.next >= (Len(grants') - i + 1) * Pace
    <3>1. grants' \in Seq(Ages) /\ damages' = damages
      BY <1>1, <1>4 DEF TypeOK
    <3>2. DOMAIN grants' = 1..Len(grants')
      BY <3>1
    <3> QED BY <1>1, <3>1, <3>2 DEF PaceInv
  <2>1. PICK n, k, old : n = Len(grants) /\ k = Len(grants') /\ old = i + (n - k)
    OBVIOUS
  <2>2. /\ n \in Nat /\ k \in 0..n /\ old \in 1..n
        /\ grants'[i] = grants[old] + 1
    <3>1. grants \in Seq(Ages) /\ InOrder(grants) /\ grants' = Older(grants)
      BY <1>4 DEF TypeOK, LogInv
    <3>2. /\ Len(grants) \in Nat /\ Len(grants') \in 0..Len(grants)
          /\ \A j \in 1..Len(grants') :
                /\ j + (Len(grants) - Len(grants')) \in 1..Len(grants)
                /\ grants'[j] = grants[j + (Len(grants) - Len(grants'))] + 1
      BY <3>1, OlderShape
    <3>3. /\ i \in 1..k /\ n \in Nat /\ k \in 0..n /\ old \in 1..n
          /\ grants'[i] = grants[i + (n - k)] + 1
      BY <2>1, <3>2
    <3> QED BY <2>1, <3>3
  <2>3. grants[old] \in Nat /\ DOMAIN grants = 1..n
    <3>1. grants \in Seq(Ages) /\ InOrder(grants)
      BY DEF TypeOK, LogInv
    <3>2. /\ DOMAIN grants = 1..Len(grants)
          /\ \A j \in 1..Len(grants) : grants[j] \in Nat
      BY <3>1, AppendNow
    <3> QED BY <2>1, <2>2, <3>2
  <2>4. /\ grants[old] >= (n - old) * Pace
        /\ grants[old] + st.next >= (n - old + 1) * Pace
    BY <1>a, <2>1, <2>2, <2>3 DEF PaceInv
  <2>5. n - old = k - i
    BY <2>1, <2>2
  <2>6. PICK a, b : a = (k - i) * Pace /\ b = (k - i + 1) * Pace
    OBVIOUS
  <2>7. k - i \in Nat /\ k - i + 1 \in Nat /\ Pace \in Nat
    BY <2>1, <2>2, PaceFacts
  <2>8. a \in Nat /\ b \in Nat
    BY <2>6, <2>7
  <2>9. grants[old] >= a /\ grants[old] + st.next >= b
    BY <2>4, <2>5, <2>6
  <2>10. new.next \in Nat /\ new.next + 1 >= st.next
    <3>1. new.next = Less(st.next, 1) /\ st.next \in Nat
      BY <1>3, <1>5
    <3> QED BY ONLY <3>1 DEF Less
  <2>11. grants'[i] >= a /\ grants'[i] + new.next >= b
    <3>1. PICK x, y : x = grants[old] /\ y = new.next
      OBVIOUS
    <3>2. PICK z : z = st.next
      OBVIOUS
    <3>3. /\ x \in Nat /\ y \in Nat /\ z \in Nat /\ a \in Nat /\ b \in Nat
          /\ x >= a /\ x + z >= b /\ y + 1 >= z /\ grants'[i] = x + 1
      BY <1>5, <2>2, <2>3, <2>8, <2>9, <2>10, <3>1, <3>2
    <3>4. (x + 1) + y >= b
      BY ONLY <3>3
    <3> QED BY <3>1, <3>3, <3>4
  <2> QED BY <2>1, <2>6, <2>11
<1>8. AllowanceInv'
  <2> SUFFICES ASSUME restarts = 0, damages = 0
               PROVE  /\ new.reserved = {[id |-> i, left |-> Ttl - turns'[i].age] : i \in Prompt'}
                      /\ Among(overdue', new.sent)
                      /\ Len(new.sent) + Cardinality(Prompt') <= Ceiling + Len(overdue')
                      /\ Covered(new.sent, Cardinality(Arrived))'
    BY <1>1, <1>4 DEF AllowanceInv, Among
  <2>1. /\ st.reserved = {[id |-> i, left |-> Ttl - turns[i].age] : i \in Prompt}
        /\ Among(overdue, st.sent)
        /\ Len(st.sent) + Cardinality(Prompt) <= Ceiling + Len(overdue)
        /\ Covered(st.sent, Cardinality(Arrived))
    BY <1>a DEF AllowanceInv
  <2>2. /\ InFlight' = InFlight
        /\ \A i \in InFlight :
              /\ turns'[i].age = turns[i].age + 1 /\ turns[i].age < MaxFlight
              /\ turns'[i].arrived = turns[i].arrived
    BY TurnsAge
  <2>8. /\ \A i \in Ids : i \in Prompt' <=> i \in Prompt /\ Ttl - turns[i].age > 1
        /\ \A i \in Prompt' : /\ i \in Prompt /\ Ttl - turns[i].age > 1
                              /\ (Ttl - turns[i].age) - 1 = Ttl - turns'[i].age
        /\ Prompt' \in SUBSET Prompt /\ Prompt \in SUBSET Ids
    <3>1. \A i \in InFlight : /\ turns'[i].age = turns[i].age + 1 /\ turns[i].age \in Nat
                              /\ Ttl \in Nat
      BY <2>2, TurnFacts
    <3>2. \A i \in Ids : i \in Prompt <=> i \in InFlight /\ turns[i].age < Ttl
      BY PromptFacts
    <3>3. \A i \in Ids : i \in Prompt' <=> i \in InFlight' /\ turns'[i].age < Ttl
      BY <1>1, PromptPrimed
    <3>4. InFlight \subseteq Ids /\ Prompt \subseteq InFlight /\ Prompt' \subseteq InFlight'
      BY TurnFacts DEF Prompt
    <3>5. \A i \in Ids : i \in Prompt' <=> i \in Prompt /\ Ttl - turns[i].age > 1
      BY <2>2, <3>1, <3>2, <3>3
    <3>6. \A i \in InFlight : (Ttl - turns[i].age) - 1 = Ttl - turns'[i].age
      BY <3>1
    <3> QED BY <2>2, <3>4, <3>5, <3>6
  <2>3. new.reserved = {[id |-> i, left |-> Ttl - turns'[i].age] : i \in Prompt'}
    <3>1. new.reserved = {[id |-> r.id, left |-> r.left - 1] : r \in {q \in st.reserved : q.left > 1}}
      BY <1>3 DEF Shorter
    <3>2. ASSUME NEW x \in new.reserved
          PROVE  \E i \in Prompt' : x = [id |-> i, left |-> Ttl - turns'[i].age]
      <4>1. PICK r \in st.reserved : r.left > 1 /\ x = [id |-> r.id, left |-> r.left - 1]
        BY <3>1
      <4>2. PICK i \in Prompt : r = [id |-> i, left |-> Ttl - turns[i].age]
        BY <2>1
      <4>3. r.id = i /\ r.left = Ttl - turns[i].age
        BY <4>2
      <4>4. i \in Prompt'
        BY <2>8, <4>1, <4>3
      <4> QED BY <2>8, <4>1, <4>3, <4>4
    <3>3. ASSUME NEW i \in Prompt'
          PROVE  [id |-> i, left |-> Ttl - turns'[i].age] \in new.reserved
      <4>1. i \in Prompt /\ Ttl - turns[i].age > 1 /\ (Ttl - turns[i].age) - 1 = Ttl - turns'[i].age
        BY <2>8
      <4>2. PICK r \in st.reserved : r = [id |-> i, left |-> Ttl - turns[i].age]
        BY <2>1, <4>1
      <4>3. r.id = i /\ r.left = Ttl - turns[i].age
        BY <4>2
      <4> QED BY <3>1, <4>1, <4>3
    <3> QED BY <3>2, <3>3
  <2>4. /\ Len(new.sent) \in 0..Len(st.sent) /\ Len(st.sent) \in Nat
        /\ new.sent \in Seq(Ages) /\ arrivals' \in Seq(Ages)
        /\ Len(arrivals') \in 0..Len(arrivals) /\ Len(arrivals) \in Nat
    BY <1>3, <1>4, <1>5, OlderShape DEF TypeOK, LogInv
  <2>5. /\ Among(overdue', new.sent)
        /\ Len(new.sent) + Cardinality(Prompt') <= Ceiling + Len(overdue')
    <3>1. overdue \in Seq(Ages) /\ InOrder(overdue)
      BY DEF TypeOK, LogInv
    <3>2. /\ Among(overdue', new.sent) /\ Len(overdue) \in Nat /\ Len(overdue') \in Nat
          /\ Len(new.sent) + Len(overdue) <= Len(st.sent) + Len(overdue')
      BY <1>3, <1>4, <1>5, <2>1, <3>1, AmongOlder
    <3>3. /\ Cardinality(Prompt') <= Cardinality(Prompt)
          /\ Cardinality(Prompt') \in Nat /\ Cardinality(Prompt) \in Nat
      BY <2>8, PromptFacts, FS_Subset, FS_CardinalityType
    <3>4. Ceiling \in Nat
      BY PaceFacts
    <3> QED BY <2>1, <2>4, <3>2, <3>3, <3>4, SMTT(30)
  <2>6. Arrived' = Arrived
    BY <2>2 DEF Arrived
  <2>7. Covered(new.sent, Cardinality(Arrived))'
    <3>1. PICK k : k = Cardinality(Arrived)
      OBVIOUS
    <3>2. k \in Nat
      BY <3>1, ArrivedCount
    <3> SUFFICES ASSUME NEW j \in 1..Len(arrivals'), j > k
                 PROVE  /\ j - k <= Len(new.sent)
                        /\ Youngest(new.sent, j - k) <= Youngest(arrivals', j)
      BY <1>1, <2>4, <2>6, <3>1 DEF Covered
    <3>3. j \in 1..Len(arrivals) /\ DOMAIN arrivals = 1..Len(arrivals) /\ j <= Len(arrivals')
      BY <2>4 DEF TypeOK
    <3>4. /\ j - k <= Len(st.sent)
          /\ Youngest(st.sent, j - k) <= Youngest(arrivals, j)
      BY <2>1, <3>1, <3>3 DEF Covered
    <3>5. j - k \in 1..Len(st.sent)
      BY <2>4, <3>2, <3>3, <3>4
    <3>6. /\ Youngest(arrivals, j) + 1 < Window
          /\ Youngest(arrivals', j) = Youngest(arrivals, j) + 1
          /\ Youngest(arrivals, j) \in Nat
      BY <1>4, <3>3, OlderYoungest DEF TypeOK, LogInv
    <3>7. /\ j - k <= Len(new.sent) <=> Youngest(st.sent, j - k) + 1 < Window
          /\ j - k <= Len(new.sent) => Youngest(new.sent, j - k) = Youngest(st.sent, j - k) + 1
          /\ Youngest(st.sent, j - k) \in Nat
      BY <1>3, <1>5, <3>5, OlderYoungest
    <3>8. PICK a, b : a = Youngest(st.sent, j - k) /\ b = Youngest(arrivals, j)
      OBVIOUS
    <3>9. a + 1 < Window /\ a + 1 <= b + 1
      <4>1. a \in Nat /\ b \in Nat /\ Window \in Nat /\ a <= b /\ b + 1 < Window
        BY <3>4, <3>6, <3>7, <3>8, PaceFacts
      <4> QED BY ONLY <4>1
    <3>10. j - k <= Len(new.sent) /\ Youngest(new.sent, j - k) = a + 1
      BY <3>7, <3>8, <3>9
    <3>11. Youngest(arrivals', j) = b + 1
      BY <3>6, <3>8
    <3> QED BY <3>9, <3>10, <3>11
  <2> QED BY <2>3, <2>5, <2>7
<1>9. CoolInv'
  <2>1. st.cool >= penalty => new.cool >= penalty'
    BY <1>3, <1>4, <1>5 DEF Less
  <2> QED BY <1>1, <1>4, <1>a, <2>1 DEF CoolInv
<1>10. ProbeInv'
  <2>1. hold' > 0 => hold > 0 /\ (st.probe >= hold => new.probe >= hold')
    BY <1>3, <1>4, <1>5 DEF Less
  <2> QED BY <1>1, <1>3, <1>a, <2>1 DEF ProbeInv
<1> QED BY <1>6, <1>7, <1>8, <1>9, <1>10
-----------------------------------------------------------------------------
(* Theorems                                                                *)

LEMMA InitInvariant == Init => IInv
<1> SUFFICES ASSUME Init PROVE IInv
  OBVIOUS
<1>1. /\ file = Missing /\ cache = [g \in Gates |-> None]
      /\ unflushed = [g \in Gates |-> 0]
      /\ turns = [id \in Ids |-> None]
      /\ arrivals = <<>> /\ overdue = <<>> /\ grants = <<>>
      /\ penalty = 0 /\ hold = 0 /\ restarts = 0 /\ damages = 0
  BY DEF Init
<1>2. /\ 0 \in 0..FlushEvery /\ 0 \in 0..Window /\ 0 \in 0..ProbeGap
      /\ 0 \in 0..MaxRestarts /\ 0 \in 0..MaxDamage /\ <<>> \in Seq(Ages)
  BY TimeAssumption, LimitAssumption
<1>3. TypeOK
  BY <1>1, <1>2 DEF TypeOK
<1>4. InFlight = {} /\ Arrived = {}
  BY <1>1 DEF InFlight, Arrived
<1>5. LogInv
  <2>1. InOrder(<<>>) /\ IsFiniteSet({})
    BY FS_EmptySet DEF InOrder
  <2> QED BY <1>1, <1>4, <2>1, NoneAssumption DEF LogInv
<1>6. ASSUME NEW g, Gates = {g} PROVE FileInv /\ PaceInv /\ AllowanceInv /\ CoolInv /\ ProbeInv
  <2>1. Current(g) = Fresh
    BY <1>1, <1>6, NoneAssumption DEF Current, Load, Damaged
  <2>2. FileInv
    BY <1>1, NoneAssumption DEF FileInv, Damaged
  <2>3. PaceInv
    BY <1>1 DEF PaceInv
  <2>4. AllowanceInv
    <3>1. /\ Fresh.reserved = {} /\ Fresh.sent = <<>> /\ Prompt = {}
          /\ Cardinality(Prompt) = 0 /\ Ceiling \in Nat
      BY <1>4, FirstStates, FS_EmptySet, PaceFacts DEF Prompt
    <3>2. Covered(<<>>, Cardinality(Arrived))
      BY <1>1 DEF Covered
    <3>3. Len(Fresh.sent) + Cardinality(Prompt) <= Ceiling + Len(overdue)
      BY <1>1, <3>1
    <3>4. Fresh.reserved = {[id |-> id, left |-> Ttl - turns[id].age] : id \in Prompt}
      BY <3>1
    <3>5. Among(overdue, Fresh.sent)
      <4>1. <<>> \in Injection({}, {})
        BY DEF Injection, IsInjective
      <4>2. overdue = <<>> /\ DOMAIN overdue = {} /\ DOMAIN Fresh.sent = {}
        BY <1>1, <3>1
      <4> QED BY <4>1, <4>2 DEF Among
    <3> QED BY <1>6, <2>1, <3>1, <3>2, <3>3, <3>4, <3>5 DEF AllowanceInv
  <2>5. CoolInv
    BY <1>1, <1>6, <2>1, FirstStates DEF CoolInv
  <2>6. ProbeInv
    BY <1>1 DEF ProbeInv
  <2> QED BY <2>2, <2>3, <2>4, <2>5, <2>6
<1> QED BY <1>3, <1>5, <1>6 DEF IInv, OneGate

(* Every step keeps the types and the order, with any number of gates.     *)
LEMMA StepTypes ==
    ASSUME TypeOK, LogInv, [Next]_vars
    PROVE  TypeOK' /\ LogInv'
<1>1. CASE Turn
  <2>1. PICK g \in Gates, id \in Ids : Acquire(g, id)
    BY <1>1 DEF Turn
  <2> QED BY <2>1, AcquireStep
<1>2. CASE \E g \in Gates : Poll(g)
  <2>1. PICK g \in Gates : Poll(g)
    BY <1>2
  <2> QED BY <2>1, PollStep
<1>3. CASE \E g \in Gates : Restart(g)
  <2>1. PICK g \in Gates : Restart(g)
    BY <1>3
  <2> QED BY <2>1, RestartStep
<1>4. CASE \E id \in Ids : Arrive(id)
  <2>1. PICK id \in Ids : Arrive(id)
    BY <1>4
  <2> QED BY <2>1, ArriveStep
<1>5. CASE \E id \in Ids : Response(id) \/ Release(id)
  <2>1. PICK id \in Ids : Response(id) \/ Release(id)
    BY <1>5
  <2> QED BY <2>1, EndStep
<1>6. CASE Damage
  BY <1>6, DamageStep
<1>7. CASE Tick
  BY <1>7, TickStep
<1>8. CASE UNCHANGED vars
  BY <1>8 DEF vars, TypeOK, LogInv, InFlight
<1> QED BY <1>1, <1>2, <1>3, <1>4, <1>5, <1>6, <1>7, <1>8 DEF Next

(* Every step keeps what is promised for one gate.                         *)
LEMMA StepGate ==
    ASSUME TypeOK, LogInv, NEW g, Gates = {g}, GateInv, [Next]_vars
    PROVE  GateInv'
<1>1. CASE Turn
  <2>1. PICK id \in Ids : Acquire(g, id)
    BY <1>1 DEF Turn
  <2> QED BY <2>1, AcquireKeeps
<1>2. CASE Poll(g)
  BY <1>2, PollKeeps
<1>3. CASE Restart(g)
  BY <1>3, RestartKeeps
<1>4. CASE \E id \in Ids : Arrive(id)
  <2>1. PICK id \in Ids : Arrive(id)
    BY <1>4
  <2> QED BY <2>1, ArriveKeeps
<1>5. CASE \E id \in Ids : Response(id) \/ Release(id)
  <2>1. PICK id \in Ids : Response(id) \/ Release(id)
    BY <1>5
  <2> QED BY <2>1, EndKeeps
<1>6. CASE Damage
  BY <1>6, DamageKeeps
<1>7. CASE Tick
  BY <1>7, TickKeeps
<1>8. CASE UNCHANGED vars
  BY <1>8 DEF vars, GateInv, FileInv, PaceInv, AllowanceInv, CoolInv, ProbeInv,
              Current, Load, InFlight, Arrived, Covered, Prompt, Lapsed, Among
<1> QED BY <1>1, <1>2, <1>3, <1>4, <1>5, <1>6, <1>7, <1>8 DEF Next

(* The state of the turnstile is always well-typed, its logs in order, and *)
(* with one gate object at a time its file, pace, reservations, pause and  *)
(* probe are as IInv says: whatever the order of turns, arrivals, answers, *)
(* restarts, damage and ticks.                                             *)
THEOREM InductiveInvariant == Spec => []IInv
<1>1. IInv /\ [Next]_vars => IInv'
  <2> SUFFICES ASSUME IInv, [Next]_vars PROVE IInv'
    OBVIOUS
  <2>1. TypeOK' /\ LogInv'
    BY StepTypes DEF IInv
  <2>2. ASSUME OneGate PROVE FileInv' /\ PaceInv' /\ AllowanceInv' /\ CoolInv' /\ ProbeInv'
    <3>1. PICK g : Gates = {g}
      BY <2>2 DEF OneGate
    <3>2. GateInv'
      BY <2>2, <3>1, StepGate DEF IInv, GateInv
    <3> QED BY <3>2 DEF GateInv
  <2> QED BY <2>1, <2>2 DEF IInv, OneGate
<1> QED BY <1>1, InitInvariant, PTL DEF Spec

(* The shared file, every gate's memory and the requests in flight have    *)
(* their types, with any number of gate objects on the file.               *)
THEOREM TypeCorrect == Spec => []TypeOK
<1>1. IInv => TypeOK
  BY DEF IInv
<1> QED BY <1>1, InductiveInvariant, PTL

(* No window holds more turns than the larger of the two limits, over      *)
(* responses, refusals and restarts: slots are a pace or more apart.       *)
THEOREM PaceIsKept == ASSUME OneGate PROVE Spec => []PaceKept
<1>1. IInv => PaceKept
  <2> SUFFICES ASSUME IInv, damages = 0, Len(grants) > Ceiling PROVE FALSE
    <3>1. ASSUME IInv PROVE Len(grants) \in Nat /\ Ceiling \in Nat
      BY <3>1, PaceFacts DEF IInv, TypeOK
    <3> QED BY <3>1 DEF PaceKept
  <2>1. PICK n, d : n = Len(grants) /\ d = n - 1 - Ceiling
    OBVIOUS
  <2>2. /\ n \in Nat /\ d \in Nat /\ n - 1 = Ceiling + d /\ 1 \in DOMAIN grants
        /\ Ceiling \in Nat /\ Pace \in Nat /\ Window = Ceiling * Pace
    BY <2>1, PaceFacts DEF IInv, TypeOK
  <2>3. grants[1] >= (n - 1) * Pace
    BY <2>1, <2>2 DEF IInv, PaceInv
  <2>4. grants[1] \in 0..(Window - 1)
    BY <2>2 DEF IInv, TypeOK, Ages
  <2>5. (Ceiling + d) * Pace = Ceiling * Pace + d * Pace /\ d * Pace >= 0
    BY <2>2
  <2> QED BY <2>2, <2>3, <2>4, <2>5, PaceFacts
<1> QED BY <1>1, InductiveInvariant, PTL

(* While the gate object lives the server counts no more than that in a    *)
(* window, but for one more for every request that outlasted its           *)
(* reservation and is under way or ended within the window: every arrival  *)
(* has a stamp or a request in flight of its own, and the reservations and *)
(* stamps of the others fit under the limit.  Nothing is assumed of how    *)
(* long a request takes.                                                   *)
THEOREM AllowanceIsKept == ASSUME OneGate PROVE Spec => []AllowanceKept
<1>1. IInv => AllowanceKept
  <2>a. PICK c : c = Ceiling + Cardinality(Lapsed) + Len(overdue)
    OBVIOUS
  <2> SUFFICES ASSUME IInv, restarts = 0, damages = 0 PROVE Len(arrivals) <= c
    BY <2>a DEF AllowanceKept
  <2>1. PICK g \in Gates : TRUE
    BY DEF OneGate
  <2>2. PICK st, k, n : st = Current(g) /\ k = Cardinality(Arrived) /\ n = Len(arrivals)
    OBVIOUS
  <2>3. /\ Len(st.sent) + Cardinality(InFlight) <= c
        /\ Covered(st.sent, k)
    <3>1. /\ Len(st.sent) + Cardinality(Prompt) <= Ceiling + Len(overdue)
          /\ Covered(st.sent, k)
      BY <2>2 DEF IInv, AllowanceInv
    <3>2. /\ Cardinality(InFlight) = Cardinality(Prompt) + Cardinality(Lapsed)
          /\ Cardinality(Prompt) \in Nat /\ Cardinality(Lapsed) \in Nat
      BY PromptFacts DEF IInv
    <3>3. Len(st.sent) \in Nat
      BY <2>2, CurrentType, Fields DEF IInv
    <3>4. Len(overdue) \in Nat /\ Ceiling \in Nat
      BY PaceFacts DEF IInv, TypeOK
    <3> QED BY <2>a, <3>1, <3>2, <3>3, <3>4
  <2>4. /\ k \in Nat /\ k <= Cardinality(InFlight) /\ Cardinality(InFlight) \in Nat
        /\ n \in Nat /\ DOMAIN arrivals = 1..n /\ c \in Nat
    <3>1. Cardinality(Lapsed) \in Nat /\ Len(overdue) \in Nat /\ Ceiling \in Nat
      BY PromptFacts, PaceFacts DEF IInv, TypeOK
    <3> QED BY <2>2, <2>a, <3>1, ArrivedCount DEF IInv, TypeOK
  <2>5. Len(st.sent) \in Nat
    BY <2>2, CurrentType, Fields DEF IInv
  <2>6. CASE n > k
    <3>1. n \in DOMAIN arrivals
      BY <2>4, <2>6
    <3>2. n - k <= Len(st.sent)
      BY <2>3, <2>6, <3>1 DEF Covered
    <3> QED BY <2>2, <2>3, <2>4, <2>5, <3>2
  <2>7. CASE ~(n > k)
    BY <2>2, <2>3, <2>4, <2>5, <2>7
  <2> QED BY <2>6, <2>7
<1> QED BY <1>1, InductiveInvariant, PTL

(* A probe is the only turn until it is answered, its gap or the window is *)
(* over, or a turn that ended gave back its share of a known count.        *)
THEOREM ProbesAlone == ASSUME OneGate PROVE Spec => OneProbe
<1>1. IInv /\ [Next]_vars =>
        [\A g \in Gates, id \in Ids :
            Acquire(g, id) =>
               LET st == Current(g) IN
               hold = 0 \/ st.clear = 0 \/ (st.remaining # None /\ HasBudget(st))]_vars
  <2> SUFFICES ASSUME IInv, NEW g \in Gates, NEW id \in Ids, Acquire(g, id), hold # 0,
                      NEW st, st = Current(g)
               PROVE  st.clear = 0 \/ (st.remaining # None /\ HasBudget(st))
    OBVIOUS
  <2>1. hold \in Nat /\ hold > 0
    BY TimeAssumption DEF IInv, TypeOK
  <2>2. ~st.allow /\ st.probe >= hold /\ st.remaining # None
    BY <2>1 DEF IInv, ProbeInv
  <2>3. st \in State /\ Orderly(st) /\ Wait(st) = 0
    BY CurrentType DEF IInv, Acquire
  <2>4. HasBudget(st) \/ st.allow \/ st.clear = 0 \/ st.probe = 0
    BY <2>3, WaitFacts
  <2> QED BY <2>1, <2>2, <2>4
<1> QED BY <1>1, InductiveInvariant, PTL DEF Spec, OneProbe

(* No turn starts inside the pause a 429 asked for, also in the next       *)
(* script, as long as the file is not lost.                                *)
THEOREM CooldownsHonoured == ASSUME OneGate PROVE Spec => CooldownHonoured
<1>1. IInv /\ [Next]_vars => [Turn => penalty = 0 \/ damages > 0]_vars
  <2> SUFFICES ASSUME IInv, NEW g \in Gates, NEW id \in Ids, Acquire(g, id), damages = 0
               PROVE  penalty = 0
    BY LimitAssumption DEF Turn, IInv, TypeOK
  <2>1. PICK st : st = Current(g)
    OBVIOUS
  <2>2. st \in State /\ Orderly(st) /\ Wait(st) = 0
    BY <2>1, CurrentType DEF IInv, Acquire
  <2>3. st.cool = 0
    BY <2>2, WaitFacts
  <2>4. st.cool >= penalty
    BY <2>1 DEF IInv, CoolInv
  <2>5. penalty \in Nat
    BY TimeAssumption DEF IInv, TypeOK
  <2> QED BY <2>3, <2>4, <2>5
<1> QED BY <1>1, InductiveInvariant, PTL DEF Spec, CooldownHonoured
=============================================================================
