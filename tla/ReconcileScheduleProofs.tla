----------------------- MODULE ReconcileScheduleProofs ----------------------
(***************************************************************************)
(* The schedule of the reconciliation, for any number of rows and queues,  *)
(* any page size and any backoffs: the turn of a row that is due only      *)
(* comes nearer.                                                           *)
(***************************************************************************)
EXTENDS ReconcileSchedule, FiniteSetTheorems, TLAPS

\* No value occurs twice in s.
Distinct(s) == \A i, j \in DOMAIN s : s[i] = s[j] => i = j

Holds(s, x) == \E i \in DOMAIN s : s[i] = x

\* x stands before y in s.
Before(s, x, y) == \E i, j \in DOMAIN s : i < j /\ s[i] = x /\ s[j] = y

-----------------------------------------------------------------------------
(* Sorting a finite set of numbers.                                         *)

\* How many members of S are not larger than n.
Place(S, n) == Cardinality({m \in S : m <= n})

\* The places of the members of S are the numbers from 1 on, each once.
LEMMA PlacesCount ==
  ASSUME NEW S \in SUBSET Nat, IsFiniteSet(S)
  PROVE  /\ Cardinality(S) \in Nat
         /\ \A n \in S : Place(S, n) \in 1..Cardinality(S)
         /\ \A m, n \in S : Place(S, m) = Place(S, n) => m = n
         /\ \A k \in 1..Cardinality(S) : \E n \in S : Place(S, n) = k
<1> DEFINE Below(n) == {m \in S : m <= n}
           card == Cardinality(S)
           f == [n \in S |-> Place(S, n)]
<1>1. \A T \in SUBSET S : /\ IsFiniteSet(T) /\ Cardinality(T) \in Nat
                          /\ Cardinality(T) <= card
                          /\ card = Cardinality(T) => S = T
  BY FS_Subset, FS_CardinalityType
<1>2. card \in Nat
  BY <1>1
<1>3. ASSUME NEW n \in S PROVE Place(S, n) \in 1..card
  <2>1. Below(n) \in SUBSET S /\ n \in Below(n)
    BY <1>3
  <2>2. Cardinality(Below(n)) # 0
    BY <1>1, <2>1, FS_EmptySet
  <2>3. Cardinality(Below(n)) \in Nat /\ Cardinality(Below(n)) <= card
    BY <1>1, <2>1
  <2>4. Place(S, n) = Cardinality(Below(n))
    BY DEF Place
  <2> QED
    BY <1>2, <2>2, <2>3, <2>4
<1>4. ASSUME NEW m \in S, NEW n \in S, m < n
      PROVE  Place(S, m) # Place(S, n)
  <2>0. \A x \in S : x \in Nat /\ (x <= m => x <= n)
    BY <1>4
  <2>1. Below(m) \in SUBSET Below(n) /\ Below(n) \in SUBSET S
    BY <2>0
  <2>2. n \in Below(n) /\ n \notin Below(m)
    BY <1>4
  <2>3. Cardinality(Below(m)) = Cardinality(Below(n)) => Below(m) = Below(n)
    BY <1>1, <2>1, FS_Subset
  <2> QED
    BY <2>2, <2>3 DEF Place
<1>5. \A m, n \in S : Place(S, m) = Place(S, n) => m = n
  <2> SUFFICES ASSUME NEW m \in S, NEW n \in S, m # n
               PROVE  Place(S, m) # Place(S, n)
    OBVIOUS
  <2>1. m < n \/ n < m
    OBVIOUS
  <2> QED
    BY <1>4, <2>1
<1>6. f \in Injection(S, 1..card)
  BY <1>3, <1>5 DEF Injection, IsInjective
<1>7. IsFiniteSet(1..card) /\ Cardinality(1..card) = card
  <2>1. PICK a \in Int : a = 1
    OBVIOUS
  <2>2. PICK b \in Int : b = card
    BY <1>2
  <2>3. IsFiniteSet(a..b) /\ Cardinality(a..b) = IF a > b THEN 0 ELSE b - a + 1
    BY FS_Interval
  <2> QED
    BY <1>2, <2>1, <2>2, <2>3
<1>8. f \in Surjection(S, 1..card)
  <2> HIDE DEF f
  <2> QED
    BY <1>6, <1>7, FS_Injection
<1>9. \A k \in 1..card : \E n \in S : Place(S, n) = k
  BY <1>8 DEF Surjection
<1> QED
  BY <1>2, <1>3, <1>5, <1>9

\* InOrder(S) lists the members of S, each at its place.
LEMMA InOrderLists ==
  ASSUME NEW S \in SUBSET Nat, IsFiniteSet(S)
  PROVE  /\ InOrder(S) \in [1..Cardinality(S) -> S]
         /\ \A k \in 1..Cardinality(S) : Place(S, InOrder(S)[k]) = k
         /\ \A n \in S : InOrder(S)[Place(S, n)] = n
         /\ Cardinality(S) \in Nat
         /\ \A n \in S : Place(S, n) \in 1..Cardinality(S)
<1> DEFINE card == Cardinality(S)
<1>1. ASSUME NEW k \in 1..card
      PROVE  /\ InOrder(S)[k] \in S
             /\ Place(S, InOrder(S)[k]) = k
  <2>1. \E n \in S : Cardinality({m \in S : m <= n}) = k
    BY PlacesCount DEF Place
  <2>2. PICK n : n = CHOOSE x \in S : Cardinality({m \in S : m <= x}) = k
    OBVIOUS
  <2>3. n \in S /\ Cardinality({m \in S : m <= n}) = k
    BY <2>1, <2>2
  <2>4. InOrder(S)[k] = n
    BY <2>2 DEF InOrder
  <2> QED
    BY <2>3, <2>4 DEF Place
<1>2. InOrder(S) = [k \in 1..card |-> InOrder(S)[k]]
  BY DEF InOrder
<1>3. ASSUME NEW n \in S
      PROVE  InOrder(S)[Place(S, n)] = n
  <2>1. PICK k \in 1..card : k = Place(S, n)
    BY PlacesCount
  <2>2. PICK x \in S : x = InOrder(S)[k] /\ Place(S, x) = k
    BY <1>1
  <2> QED
    BY <2>1, <2>2, PlacesCount
<1> QED
  BY <1>1, <1>2, <1>3, PlacesCount

\* Members of S stand in InOrder(S) in the order of their size.
LEMMA InOrderSorts ==
  ASSUME NEW S \in SUBSET Nat, IsFiniteSet(S),
         NEW m \in S, NEW n \in S, Place(S, m) < Place(S, n)
  PROVE  m < n
<1>1. SUFFICES ASSUME n <= m PROVE FALSE
  OBVIOUS
<1> DEFINE Below(x) == {y \in S : y <= x}
<1>2. \A y \in S : y \in Nat /\ (y <= n => y <= m)
  BY <1>1
<1>3. Below(n) \in SUBSET Below(m) /\ Below(m) \in SUBSET S
  BY <1>2
<1>4. IsFiniteSet(Below(m))
  BY <1>3, FS_Subset
<1>5. Cardinality(Below(n)) <= Cardinality(Below(m))
  BY <1>3, <1>4, FS_Subset
<1>6. Place(S, n) <= Place(S, m)
  BY <1>5 DEF Place
<1>7. Place(S, n) \in Int /\ Place(S, m) \in Int
  BY PlacesCount
<1> QED
  BY <1>6, <1>7

-----------------------------------------------------------------------------
(* Taking rows out of a page.                                               *)

\* Without(s, S) holds the values of s outside S, each as often and in the
\* order in which s holds them.
LEMMA WithoutIs ==
  ASSUME NEW s \in Seq(Rows), Distinct(s), NEW S
  PROVE  /\ Without(s, S) \in Seq(Rows)
         /\ Distinct(Without(s, S))
         /\ \A x : Holds(Without(s, S), x) <=> Holds(s, x) /\ x \notin S
         /\ \A x, y : Before(Without(s, S), x, y) => Before(s, x, y)
<1> DEFINE kept == {i \in DOMAIN s : s[i] \notin S}
           card == Cardinality(kept)
           order == InOrder(kept)
           w == Without(s, S)
<1>1. DOMAIN s = 1..Len(s) /\ Len(s) \in Nat /\ s \in [1..Len(s) -> Rows]
  OBVIOUS
<1>0. \A i, j \in DOMAIN s : s[i] = s[j] => i = j
  BY DEF Distinct
<1>2. kept \in SUBSET Nat /\ \A i \in kept : i \in DOMAIN s /\ s[i] \in Rows /\ s[i] \notin S
  BY <1>1
<1>3. IsFiniteSet(kept)
  <2>1. PICK a \in Int : a = 1
    OBVIOUS
  <2>0. Len(s) \in Int
    BY <1>1
  <2>2. PICK b \in Int : b = Len(s)
    BY <2>0, Zenon
  <2>3. IsFiniteSet(a..b)
    BY FS_Interval
  <2>4. kept \subseteq a..b
    BY <1>1, <2>1, <2>2
  <2> QED
    BY <2>3, <2>4, FS_Subset
<1>4. /\ order \in [1..card -> kept] /\ card \in Nat
      /\ \A k \in 1..card : Place(kept, order[k]) = k
      /\ \A n \in kept : order[Place(kept, n)] = n /\ Place(kept, n) \in 1..card
  <2> HIDE DEF kept
  <2> QED
    BY <1>2, <1>3, InOrderLists
<1>5. w = [k \in 1..card |-> s[order[k]]]
  BY DEF Without
<1>6. \A k, l \in 1..card : k < l => order[k] < order[l]
  <2> SUFFICES ASSUME NEW k \in 1..card, NEW l \in 1..card, k < l
               PROVE  order[k] < order[l]
    OBVIOUS
  <2> HIDE DEF kept, order
  <2>1. PICK m \in kept : m = order[k] /\ Place(kept, m) = k
    BY <1>4
  <2>2. PICK n \in kept : n = order[l] /\ Place(kept, n) = l
    BY <1>4
  <2>3. m < n
    BY <1>2, <1>3, <2>1, <2>2, InOrderSorts
  <2> QED
    BY <2>1, <2>2, <2>3
<1> HIDE DEF kept, card, order, w
<1>7. w \in Seq(Rows) /\ DOMAIN w = 1..card
  <2>1. w \in [1..card -> Rows]
    BY <1>2, <1>4, <1>5
  <2> QED
    BY <1>4, <2>1
<1>8. \A k \in 1..card : order[k] \in kept /\ w[k] = s[order[k]]
  BY <1>4, <1>5
<1>9. Distinct(w)
  <2> SUFFICES ASSUME NEW k \in 1..card, NEW l \in 1..card, w[k] = w[l]
               PROVE  k = l
    BY <1>7 DEF Distinct
  <2>1. PICK i \in DOMAIN s : i = order[k] /\ w[k] = s[i]
    BY <1>2, <1>8
  <2>2. PICK j \in DOMAIN s : j = order[l] /\ w[l] = s[j]
    BY <1>2, <1>8
  <2>3. order[k] = order[l]
    BY <1>0, <2>1, <2>2
  <2> QED
    BY <1>4, <2>3
<1>10. ASSUME NEW x
       PROVE  Holds(w, x) <=> Holds(s, x) /\ x \notin S
  <2>1. ASSUME Holds(w, x) PROVE Holds(s, x) /\ x \notin S
    <3>1. PICK k \in 1..card : w[k] = x
      BY <1>7, <2>1 DEF Holds
    <3> QED
      BY <1>2, <1>8, <3>1 DEF Holds
  <2>2. ASSUME Holds(s, x), x \notin S PROVE Holds(w, x)
    <3>1. PICK i \in DOMAIN s : s[i] = x
      BY <2>2 DEF Holds
    <3>2. i \in kept
      BY <2>2, <3>1 DEF kept
    <3>3. Place(kept, i) \in 1..card /\ order[Place(kept, i)] = i
      BY <1>4, <3>2
    <3> QED
      BY <1>7, <1>8, <3>1, <3>3 DEF Holds
  <2> QED
    BY <2>1, <2>2
<1>11. ASSUME NEW k \in DOMAIN w, NEW l \in DOMAIN w, k < l
       PROVE  \E i, j \in DOMAIN s : i < j /\ s[i] = w[k] /\ s[j] = w[l]
  <2>1. order[k] < order[l] /\ order[k] \in DOMAIN s /\ order[l] \in DOMAIN s
    BY <1>2, <1>6, <1>7, <1>8, <1>11
  <2>2. s[order[k]] = w[k] /\ s[order[l]] = w[l]
    BY <1>7, <1>8
  <2> QED
    BY <2>1, <2>2
<1>12. \A x, y : Before(w, x, y) => Before(s, x, y)
  BY <1>11 DEF Before
<1> QED
  BY <1>7, <1>9, <1>10, <1>12 DEF w

\* Two pages without a common row, one behind the other.
LEMMA JoinedIs ==
  ASSUME NEW s \in Seq(Rows), Distinct(s),
         NEW t \in Seq(Rows), Distinct(t),
         \A x : ~(Holds(s, x) /\ Holds(t, x))
  PROVE  /\ s \o t \in Seq(Rows)
         /\ Distinct(s \o t)
         /\ \A x : Holds(s \o t, x) <=> Holds(s, x) \/ Holds(t, x)
         /\ \A x, y : Before(s \o t, x, y) /\ ~Holds(t, y) => Before(s, x, y)
<1> DEFINE u == s \o t
           m == Len(s)
           n == Len(t)
<1>1. /\ u \in Seq(Rows) /\ DOMAIN u = 1..(m + n)
      /\ DOMAIN s = 1..m /\ DOMAIN t = 1..n /\ m \in Nat /\ n \in Nat
  OBVIOUS
<1>2. \A i \in 1..(m + n) : u[i] = IF i <= m THEN s[i] ELSE t[i - m]
  OBVIOUS
<1> HIDE DEF u, m, n
<1>3. \A i \in 1..(m + n) : \/ i \in 1..m /\ u[i] = s[i]
                            \/ i > m /\ (i - m) \in 1..n /\ u[i] = t[i - m]
  BY <1>1, <1>2
<1>4. \A i \in 1..m : i \in 1..(m + n) /\ u[i] = s[i]
  BY <1>1, <1>2
<1>5. \A i \in 1..n : (i + m) \in 1..(m + n) /\ u[i + m] = t[i]
  BY <1>1, <1>2
<1>6. Distinct(u)
  <2> SUFFICES ASSUME NEW i \in 1..(m + n), NEW j \in 1..(m + n), u[i] = u[j]
               PROVE  i = j
    BY <1>1 DEF Distinct
  <2>1. CASE i \in 1..m /\ u[i] = s[i] /\ j \in 1..m /\ u[j] = s[j]
    BY <1>1, <2>1 DEF Distinct
  <2>2. CASE i \in 1..m /\ u[i] = s[i] /\ (j - m) \in 1..n /\ u[j] = t[j - m]
    BY <1>1, <2>2 DEF Holds
  <2>3. CASE (i - m) \in 1..n /\ u[i] = t[i - m] /\ j \in 1..m /\ u[j] = s[j]
    BY <1>1, <2>3 DEF Holds
  <2>4. CASE (i - m) \in 1..n /\ u[i] = t[i - m] /\ (j - m) \in 1..n /\ u[j] = t[j - m]
    <3>1. i - m = j - m
      BY <1>1, <2>4 DEF Distinct
    <3> QED
      BY <1>1, <3>1
  <2> QED
    BY <1>3, <2>1, <2>2, <2>3, <2>4
<1>7. ASSUME NEW x
      PROVE  Holds(u, x) <=> Holds(s, x) \/ Holds(t, x)
  BY <1>1, <1>3, <1>4, <1>5 DEF Holds
<1>8. ASSUME NEW x, NEW y, Before(u, x, y), ~Holds(t, y)
      PROVE  Before(s, x, y)
  <2>1. PICK i \in 1..(m + n), j \in 1..(m + n) : i < j /\ u[i] = x /\ u[j] = y
    BY <1>1, <1>8 DEF Before
  <2>2. j \in 1..m /\ s[j] = y
    BY <1>1, <1>3, <1>8, <2>1 DEF Holds
  <2>3. i \in 1..m
    BY <1>1, <2>1, <2>2
  <2>4. s[i] = x
    BY <1>4, <2>1, <2>3
  <2> QED
    BY <1>1, <2>1, <2>2, <2>3, <2>4 DEF Before
<1> QED
  BY <1>1, <1>6, <1>7, <1>8 DEF u

\* A row put behind a page that does not hold it.
LEMMA AppendedIs ==
  ASSUME NEW s \in Seq(Rows), Distinct(s), NEW r \in Rows, ~Holds(s, r)
  PROVE  /\ Append(s, r) \in Seq(Rows)
         /\ Distinct(Append(s, r))
         /\ \A x : Holds(Append(s, r), x) <=> Holds(s, x) \/ x = r
         /\ \A x, y : Before(Append(s, r), x, y) /\ y # r => Before(s, x, y)
<1> DEFINE t == <<r>>
<1>1. t \in Seq(Rows) /\ DOMAIN t = {1} /\ t[1] = r
  OBVIOUS
<1>2. Append(s, r) = s \o t
  OBVIOUS
<1> HIDE DEF t
<1>3. Distinct(t) /\ \A x : Holds(t, x) <=> x = r
  BY <1>1 DEF Distinct, Holds
<1> QED
  BY <1>1, <1>2, <1>3, JoinedIs

\* The rows of a set, in the order of their job numbers.
LEMMA ListedIs ==
  ASSUME NEW S \in SUBSET Rows
  PROVE  /\ InOrder(S) \in Seq(Rows)
         /\ Distinct(InOrder(S))
         /\ \A x : Holds(InOrder(S), x) <=> x \in S
<1> DEFINE card == Cardinality(S)
           order == InOrder(S)
<1>1. S \in SUBSET Nat /\ IsFiniteSet(S)
  BY ScheduleAssumption, FS_Subset
<1>2. /\ order \in [1..card -> S] /\ card \in Nat
      /\ \A k \in 1..card : Place(S, order[k]) = k
      /\ \A n \in S : order[Place(S, n)] = n /\ Place(S, n) \in 1..card
  BY <1>1, InOrderLists
<1> HIDE DEF card, order
<1>3. order \in Seq(Rows) /\ DOMAIN order = 1..card
  <2>1. order \in [1..card -> Rows]
    BY <1>2
  <2> QED
    BY <1>2, <2>1
<1>4. Distinct(order)
  BY <1>2, <1>3 DEF Distinct
<1>5. ASSUME NEW x
      PROVE  Holds(order, x) <=> x \in S
  BY <1>2, <1>3 DEF Holds
<1> QED
  BY <1>3, <1>4, <1>5 DEF order

-----------------------------------------------------------------------------
(* The invariant.                                                           *)

\* An uncertain row is due or waiting, and in one place of the order only.
ScheduledOnce ==
  /\ \A i, j \in DOMAIN due : due[i] = due[j] => i = j
  /\ \A r \in Rows : Due(r) => wait[r] = 0

\* The types and the single place of every row; together they are inductive.
IInv == TypeOK /\ ScheduledOnce

\* What one step may do to the order: no row gets ahead of a row that is due
\* and stays due, unless that row was marked uncertain again (which ends one of
\* the requests in flight on it).
Overtakes(q, r) ==
  /\ Due(r) /\ Due(r)' /\ inFlight'[r] = inFlight[r]
  /\ Before(due', q, r) /\ ~Before(due, q, r)

NoneOvertakes == \A q, r \in Rows : ~Overtakes(q, r)

\* The delays of backoff are ticks to wait and never zero.
LEMMA BackoffInRange ==
  ASSUME NEW d \in 0..MaxBackoff
  PROVE  backoff(d) \in 1..MaxBackoff
<1>1. /\ MaxBackoff \in Nat /\ InitialBackoff \in Nat
      /\ InitialBackoff > 0 /\ InitialBackoff <= MaxBackoff
  BY ScheduleAssumption
<1>2. \A h \in Int : h = MaxBackoff \div 2 => 2 * h <= MaxBackoff
  BY <1>1
<1>3. PICK h \in Int : h = MaxBackoff \div 2
  BY <1>1
<1>4. d > h \/ 2 * d <= MaxBackoff
  BY <1>1, <1>2, <1>3
<1> QED
  BY <1>1, <1>3, <1>4 DEF backoff

\* ScheduledOnce in the words of the lemmas on sequences.
LEMMA OnceMeans ==
  /\ ScheduledOnce <=> /\ Distinct(due)
                       /\ \A r \in Rows : Holds(due, r) => wait[r] = 0
  /\ \A r : Due(r) <=> Holds(due, r)
BY DEF ScheduledOnce, Distinct, Holds, Due

\* The same after a step.
LEMMA OnceMeansNext ==
  /\ ScheduledOnce' <=> /\ Distinct(due')
                        /\ \A r \in Rows : Holds(due', r) => wait'[r] = 0
  /\ \A r : Due(r)' <=> Holds(due', r)
BY DEF ScheduledOnce, Distinct, Holds, Due

\* A pass, a tick, and the two things a handler may do keep every row in one
\* place and overtake nobody.
LEMMA StepKeeps ==
  ASSUME IInv, [Next]_vars
  PROVE  IInv' /\ NoneOvertakes
<1>1. /\ due \in Seq(Rows) /\ Distinct(due)
      /\ \A r \in Rows : Holds(due, r) => wait[r] = 0
      /\ wait \in [Rows -> 0..MaxBackoff] /\ delay \in [Rows -> 0..MaxBackoff]
      /\ inFlight \in [Rows -> 0..MaxInFlight] /\ pass \in BOOLEAN
  BY OnceMeans DEF IInv, TypeOK
<1>2. MaxBackoff \in Nat /\ MaxInFlight \in Nat /\ 0 \in 0..MaxBackoff
  BY ScheduleAssumption
\* What is left to show of a step.
<1>3. ASSUME /\ due' \in Seq(Rows) /\ Distinct(due')
             /\ \A r \in Rows : Holds(due', r) => wait'[r] = 0
             /\ wait' \in [Rows -> 0..MaxBackoff] /\ delay' \in [Rows -> 0..MaxBackoff]
             /\ inFlight' \in [Rows -> 0..MaxInFlight] /\ pass' \in BOOLEAN,
             \A q, r \in Rows : /\ Holds(due, r) /\ inFlight'[r] = inFlight[r]
                                /\ Holds(due', r) /\ Before(due', q, r)
                                => Before(due, q, r)
      PROVE  IInv' /\ NoneOvertakes
  <2>1. IInv'
    BY <1>3, OnceMeansNext DEF IInv, TypeOK
  <2>2. NoneOvertakes
    BY <1>3, OnceMeans, OnceMeansNext DEF NoneOvertakes, Overtakes
  <2> QED
    BY <2>1, <2>2
<1>4. ASSUME NEW r \in Rows, MarkUncertain(r)
      PROVE  IInv' /\ NoneOvertakes
  <2> DEFINE w == Without(due, {r})
  <2>1. /\ w \in Seq(Rows) /\ Distinct(w)
        /\ \A x : Holds(w, x) <=> Holds(due, x) /\ x \notin {r}
        /\ \A x, y : Before(w, x, y) => Before(due, x, y)
    BY <1>1, WithoutIs
  <2>2. due' = Append(w, r) /\ wait' = [wait EXCEPT ![r] = 0]
        /\ delay' = [delay EXCEPT ![r] = 0] /\ pass' = pass
    BY <1>4 DEF MarkUncertain
  <2> HIDE DEF w
  <2>3. /\ due' \in Seq(Rows) /\ Distinct(due')
        /\ \A x : Holds(due', x) <=> Holds(w, x) \/ x = r
        /\ \A x, y : Before(due', x, y) /\ y # r => Before(w, x, y)
    BY <2>1, <2>2, AppendedIs
  <2>4. wait' \in [Rows -> 0..MaxBackoff] /\ delay' \in [Rows -> 0..MaxBackoff]
        /\ wait'[r] = 0 /\ \A x \in Rows : x # r => wait'[x] = wait[x]
    BY <1>1, <1>2, <2>2
  <2>5. /\ inFlight' \in [Rows -> 0..MaxInFlight]
        /\ Uncertain(r) => inFlight'[r] # inFlight[r]
    <3>1. CASE /\ ~Uncertain(r)
               /\ \E n \in 0..MaxInFlight : inFlight' = [inFlight EXCEPT ![r] = n]
      BY <1>1, <3>1
    <3>2. CASE Uncertain(r) /\ inFlight[r] > 0 /\ inFlight' = [inFlight EXCEPT ![r] = @ - 1]
      <4>1. PICK n \in 0..MaxInFlight : n = inFlight[r]
        BY <1>1
      <4>2. inFlight' = [inFlight EXCEPT ![r] = n - 1] /\ n > 0
        BY <3>2, <4>1
      <4>3. n - 1 \in 0..MaxInFlight /\ n - 1 # n
        BY <1>2, <4>2
      <4> QED
        BY <1>1, <4>1, <4>2, <4>3
    <3> QED
      BY <1>4, <3>1, <3>2 DEF MarkUncertain
  <2>6. Holds(due, r) => Uncertain(r)
    BY OnceMeans DEF Uncertain
  <2>7. \A x \in Rows : Holds(due', x) => wait'[x] = 0
    BY <1>1, <2>1, <2>3, <2>4
  <2>8. \A x, y \in Rows : /\ Holds(due, y) /\ inFlight'[y] = inFlight[y]
                           /\ Holds(due', y) /\ Before(due', x, y)
                           => Before(due, x, y)
    BY <2>1, <2>3, <2>5, <2>6
  <2> QED
    BY <1>1, <1>3, <2>2, <2>3, <2>4, <2>5, <2>7, <2>8
<1>5. ASSUME NEW r \in Rows, Settle(r)
      PROVE  IInv' /\ NoneOvertakes
  <2>1. /\ due' \in Seq(Rows) /\ Distinct(due')
        /\ \A x : Holds(due', x) <=> Holds(due, x) /\ x \notin {r}
        /\ \A x, y : Before(due', x, y) => Before(due, x, y)
    BY <1>1, <1>5, WithoutIs DEF Settle
  <2>2. wait' = [wait EXCEPT ![r] = 0] /\ delay' = [delay EXCEPT ![r] = 0]
        /\ inFlight' = inFlight /\ pass' = pass
    BY <1>5 DEF Settle
  <2>3. wait' \in [Rows -> 0..MaxBackoff] /\ delay' \in [Rows -> 0..MaxBackoff]
        /\ \A x \in Rows : x # r => wait'[x] = wait[x]
    BY <1>1, <1>2, <2>2
  <2>4. \A x \in Rows : Holds(due', x) => wait'[x] = 0
    BY <1>1, <2>1, <2>3
  <2> QED
    BY <1>1, <1>3, <2>1, <2>2, <2>3, <2>4
<1>6. ASSUME Tick
      PROVE  IInv' /\ NoneOvertakes
  <2> DEFINE ripe == {r \in Rows : wait[r] = 1}
             new == InOrder(ripe)
  <2>1. ripe \in SUBSET Rows /\ \A x : x \in ripe => x \in Rows /\ wait[x] = 1
    OBVIOUS
  <2>2. /\ due' = due \o new
        /\ wait' = [r \in Rows |-> IF wait[r] = 0 THEN 0 ELSE wait[r] - 1]
        /\ delay' = delay /\ inFlight' = inFlight /\ pass' = pass
    BY <1>6 DEF Tick
  <2> HIDE DEF ripe
  <2>3. new \in Seq(Rows) /\ Distinct(new) /\ \A x : Holds(new, x) <=> x \in ripe
    BY <2>1, ListedIs
  <2> HIDE DEF new
  <2>4. \A x : ~(Holds(due, x) /\ Holds(new, x))
    BY <1>1, <2>1, <2>3
  <2>5. /\ due' \in Seq(Rows) /\ Distinct(due')
        /\ \A x : Holds(due', x) <=> Holds(due, x) \/ Holds(new, x)
        /\ \A x, y : Before(due', x, y) /\ ~Holds(new, y) => Before(due, x, y)
    BY <1>1, <2>2, <2>3, <2>4, JoinedIs
  <2>6. /\ wait' \in [Rows -> 0..MaxBackoff]
        /\ \A x \in Rows : wait[x] = 0 \/ wait[x] = 1 => wait'[x] = 0
    BY <1>1, <1>2, <2>2
  <2>7. \A x \in Rows : Holds(due', x) => wait'[x] = 0
    BY <1>1, <2>1, <2>3, <2>5, <2>6
  <2>8. \A x, y \in Rows : Holds(due, y) /\ Before(due', x, y) => Before(due, x, y)
    BY <2>4, <2>5
  <2> QED
    BY <1>1, <1>3, <2>2, <2>5, <2>6, <2>7, <2>8
<1>7. ASSUME NEW answers, NEW settled, Pass(answers, settled)
      PROVE  IInv' /\ NoneOvertakes
  <2> DEFINE attempted == {r \in ToSet(Candidates) : QueueOf[r] \in answers}
             retried == attempted \ settled
  <2>1. /\ due' = Without(due, attempted)
        /\ wait' = [r \in Rows |-> IF r \in retried THEN backoff(delay[r]) ELSE wait[r]]
        /\ delay' = [r \in Rows |-> IF r \in retried THEN backoff(delay[r])
                                    ELSE IF r \in settled THEN 0 ELSE delay[r]]
        /\ pass' = ~pass /\ inFlight' = inFlight
    BY <1>7 DEF Pass
  <2>2. \A x : x \in retried => x \in attempted
    OBVIOUS
  <2> HIDE DEF attempted, retried
  <2>3. /\ due' \in Seq(Rows) /\ Distinct(due')
        /\ \A x : Holds(due', x) <=> Holds(due, x) /\ x \notin attempted
        /\ \A x, y : Before(due', x, y) => Before(due, x, y)
    BY <1>1, <2>1, WithoutIs
  <2>4. \A r \in Rows : backoff(delay[r]) \in 0..MaxBackoff
    <3> TAKE r \in Rows
    <3>1. delay[r] \in 0..MaxBackoff
      BY <1>1
    <3>2. backoff(delay[r]) \in 1..MaxBackoff
      BY <3>1, BackoffInRange
    <3> QED
      BY <1>2, <3>2
  <2>5. wait' \in [Rows -> 0..MaxBackoff] /\ delay' \in [Rows -> 0..MaxBackoff]
    BY <1>1, <1>2, <2>1, <2>4
  <2>6. \A x \in Rows : Holds(due', x) => wait'[x] = 0
    BY <1>1, <2>1, <2>2, <2>3
  <2>7. pass' \in BOOLEAN
    BY <2>1
  <2> QED
    BY <1>1, <1>3, <2>1, <2>3, <2>5, <2>6, <2>7
<1>8. ASSUME UNCHANGED vars
      PROVE  IInv' /\ NoneOvertakes
  BY <1>1, <1>3, <1>8 DEF vars
<1> QED
  BY <1>4, <1>5, <1>6, <1>7, <1>8 DEF Next, PassStep

\* Nothing is scheduled when the process starts.
LEMMA InitOnce == Init => IInv
<1> SUFFICES ASSUME Init PROVE IInv
  OBVIOUS
<1>1. 0 \in 0..MaxBackoff /\ 0 \in 0..MaxInFlight
  BY ScheduleAssumption
<1>2. TypeOK
  <2>1. due \in Seq(Rows)
    BY DEF Init
  <2>2. /\ wait \in [Rows -> 0..MaxBackoff] /\ delay \in [Rows -> 0..MaxBackoff]
        /\ inFlight \in [Rows -> 0..MaxInFlight]
    BY <1>1 DEF Init
  <2>3. pass \in BOOLEAN
    BY DEF Init
  <2> QED
    BY <2>1, <2>2, <2>3 DEF TypeOK
<1>3. ScheduledOnce
  BY DEF Init, ScheduledOnce, Due
<1> QED
  BY <1>2, <1>3 DEF IInv

\* The inductive invariant holds in every run of the maintenance loop.
THEOREM Invariance == Spec => []IInv
BY InitOnce, StepKeeps, PTL DEF Spec

\* The delays stay within the configured maximum, whatever the backoffs are.
THEOREM TypeCorrect == Spec => []TypeOK
<1>1. IInv => TypeOK
  BY DEF IInv
<1> QED
  BY <1>1, Invariance, PTL

\* A pass whose first candidate's queue answers takes that candidate out of the
\* order, and it stood before every row that stays due.
LEMMA PassShortens ==
  ASSUME IInv, [Next]_vars, pass' # pass,
         NEW r \in Rows, Due(r), Due(r)', QueueOf[due[1]] \in Answering
  PROVE  due[1] \in AheadIn(due, r) \ AheadIn(due', r)
<1>1. due \in Seq(Rows) /\ Distinct(due) /\ pass \in BOOLEAN
  BY OnceMeans DEF IInv, TypeOK
<1>2. PassStep
  BY DEF Next, vars, MarkUncertain, Settle, Tick
<1>3. PICK answers \in SUBSET Queues, settled \in SUBSET Rows :
        Answering \subseteq answers /\ Pass(answers, settled)
  BY <1>2 DEF PassStep
<1> DEFINE attempted == {x \in ToSet(Candidates) : QueueOf[x] \in answers}
           n == IF Len(due) < Limit THEN Len(due) ELSE Limit
<1>4. due' = Without(due, attempted)
  BY <1>3 DEF Pass
<1>5. PICK j \in DOMAIN due : due[j] = r
  BY DEF Due
<1>6. /\ DOMAIN due = 1..Len(due) /\ Len(due) \in Nat /\ Limit \in Nat \ {0}
      /\ j \in 1..Len(due) /\ 1 \in 1..Len(due) /\ due[1] \in Rows
  BY <1>1, <1>5, ScheduleAssumption
<1>7. due[1] \in ToSet(Candidates)
  <2>1. n \in 1..Len(due)
    BY <1>6
  <2>2. Candidates = SubSeq(due, 1, n)
    BY DEF Candidates
  <2> HIDE DEF n
  <2>3. SubSeq(due, 1, n) = [i \in 1..n |-> due[i]]
    BY <1>1, <1>6, <2>1
  <2>4. 1 \in 1..n
    BY <1>6, <2>1
  <2> QED
    BY <2>2, <2>3, <2>4 DEF ToSet
<1>8. due[1] \in attempted
  BY <1>3, <1>7
<1> HIDE DEF attempted, n
<1>9. ~Holds(due', due[1])
  BY <1>1, <1>4, <1>8, WithoutIs
<1>10. due[1] \notin AheadIn(due', r)
  BY <1>9 DEF AheadIn, Holds
<1>11. r # due[1]
  BY <1>9, OnceMeansNext
<1>12. 1 < j /\ 1 \in DOMAIN due
  BY <1>5, <1>6, <1>11
<1>13. due[1] \in AheadIn(due, r)
  BY <1>5, <1>6, <1>12 DEF AheadIn
<1> QED
  BY <1>10, <1>13

\* While a row stays due, no step of anybody puts another row before it, and
\* every pass whose first candidate's queue answers takes one of those before it
\* away: for any number of rows and queues, any page size and any backoffs.
THEOREM NeverOvertaken == Spec => TurnComesNearer
<1> DEFINE Nearer == \A r \in Rows :
       Due(r) /\ Due(r)' /\ inFlight'[r] = inFlight[r] =>
         /\ AheadIn(due', r) \subseteq AheadIn(due, r)
         /\ pass' # pass /\ QueueOf[due[1]] \in Answering
            => AheadIn(due', r) # AheadIn(due, r)
<1>1. ASSUME IInv, [Next]_vars PROVE Nearer
  <2> SUFFICES ASSUME NEW r \in Rows, Due(r), Due(r)', inFlight'[r] = inFlight[r]
               PROVE  /\ AheadIn(due', r) \subseteq AheadIn(due, r)
                      /\ pass' # pass /\ QueueOf[due[1]] \in Answering
                         => AheadIn(due', r) # AheadIn(due, r)
    OBVIOUS
  <2>1. NoneOvertakes
    BY <1>1, StepKeeps
  <2>2. AheadIn(due', r) \subseteq AheadIn(due, r)
    <3> SUFFICES ASSUME NEW q \in Rows, q \in AheadIn(due', r)
                 PROVE  q \in AheadIn(due, r)
      BY DEF AheadIn
    <3>1. Before(due', q, r)
      BY DEF AheadIn, Before
    <3>2. Before(due, q, r)
      BY <2>1, <3>1 DEF NoneOvertakes, Overtakes
    <3> QED
      BY <3>2 DEF AheadIn, Before
  <2>3. ASSUME pass' # pass, QueueOf[due[1]] \in Answering
        PROVE  AheadIn(due', r) # AheadIn(due, r)
    BY <1>1, <2>3, PassShortens
  <2> QED
    BY <2>2, <2>3
<1> HIDE DEF Nearer
<1>2. IInv /\ [Next]_vars => [Nearer]_vars
  BY <1>1
<1>3. Spec => [][Nearer]_vars
  BY <1>2, Invariance, PTL DEF Spec
<1> QED
  BY <1>3 DEF Nearer, TurnComesNearer
=============================================================================
