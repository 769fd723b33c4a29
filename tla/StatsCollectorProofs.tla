------------------------ MODULE StatsCollectorProofs ------------------------
(***************************************************************************)
(* No record of the statistics is lost in silence: for any number of       *)
(* senders, any queue and batch size and any number of attempts, a record  *)
(* is on its way, written, counted as dropped, or went down with a process *)
(* that died.                                                              *)
(*                                                                         *)
(* And the books are right: whatever batches are written, tried again and  *)
(* cleaned up after, every action is counted once and the totals of a day  *)
(* are those of its jobs.  For the first only the identity of a record     *)
(* matters (IInv); for the second also what it says (BInv), and induction  *)
(* over the records of a batch.                                            *)
(***************************************************************************)
EXTENDS StatsCollector, FiniteSetTheorems, WellFoundedInduction, NaturalsInduction, TLAPS

IsSeq(s) == s \in Seq({s[i] : i \in DOMAIN s})

\* No record occurs twice.
Distinct(s) == \A i, j \in DOMAIN s : s[i].id = s[j].id => i = j

\* Records that a sender holds.
Offered == {sender[s].rec.id : s \in {t \in Senders : sender[t] # Idle}}

Health == [dropped : Nat, errors : Nat]

\* What the variables hold, as far as records are concerned.
Control ==
  /\ made \in Nat /\ restarts \in Nat /\ closed \in BOOLEAN
  /\ attempt \in 0..(Attempts - 1)
  /\ writer \in {"select", "writing", "written", "finish", "done"}
  /\ mode \in {"run", "drain", "final"}
  /\ health \in Health /\ healthRow \in Health

Buffers ==
  /\ IsSeq(queue) /\ IsSeq(pending) /\ IsSeq(batch)
  /\ Len(queue) <= QueueSize /\ Len(pending) < BatchSize /\ Len(batch) <= BatchSize
  /\ Distinct(queue) /\ Distinct(pending) /\ Distinct(batch)

SendersOK ==
  /\ sender = [s \in Senders |-> sender[s]]
  /\ \A s \in Senders : sender[s] = Idle \/ sender[s].pc = "locked"
  /\ \A s, t \in Senders :
       /\ sender[s] # Idle /\ sender[t] # Idle
       /\ sender[s].rec.id = sender[t].rec.id
       => s = t

\* A record is in one place only, and a dropped one in none.
Apart ==
  /\ IDs(queue) \cap IDs(pending) = {} /\ IDs(queue) \cap IDs(batch) = {}
  /\ IDs(pending) \cap IDs(batch) = {}
  /\ Offered \cap (IDs(queue) \cup IDs(pending) \cup IDs(batch)) = {}
  /\ dropped \cap (Offered \cup IDs(queue) \cup IDs(pending) \cup IDs(batch)) = {}

Accounted ==
  1..made = IDs(queue) \cup IDs(pending) \cup IDs(batch) \cup Offered
              \cup written \cup dropped \cup lost

\* What each place of the writer means for the buffers, and Close for the senders.
Phases ==
  /\ writer = "select" => mode # "final"
  /\ writer \in {"finish", "done"} => mode = "final"
  /\ writer \in {"select", "finish", "done"} => batch = <<>>
  /\ writer \in {"writing", "written"} => pending = <<>>
  /\ writer = "written" => IDs(batch) \subseteq written
  /\ mode # "run" => closed
  /\ mode = "final" => queue = <<>> /\ pending = <<>>
  /\ closed => \A s \in Senders : sender[s] = Idle

Counted == restarts = 0 => health.dropped = Cardinality(dropped)

IInv == /\ Control /\ Buffers /\ SendersOK /\ Apart /\ Accounted
        /\ Phases /\ Counted /\ DropsSurviveClose

-----------------------------------------------------------------------------
(* Sequences of records.                                                    *)

\* The empty sequence holds no record.
LEMMA EmptyIDs == IsSeq(<<>>) /\ Len(<<>>) = 0 /\ Distinct(<<>>) /\ IDs(<<>>) = {}
  BY DEF IsSeq, Distinct, IDs

\* Appending a record adds it, and keeps the records apart if it is new.
LEMMA AppendIDs ==
  ASSUME NEW s, IsSeq(s), NEW r
  PROVE  /\ IsSeq(Append(s, r)) /\ Len(Append(s, r)) = Len(s) + 1
         /\ Append(s, r) # <<>>
         /\ IDs(Append(s, r)) = IDs(s) \cup {r.id}
         /\ Distinct(s) /\ r.id \notin IDs(s) => Distinct(Append(s, r))
<1> DEFINE S == {s[i] : i \in DOMAIN s} \cup {r}
           t == Append(s, r)
<1>1. s \in Seq(S)
  BY DEF IsSeq
<1>2. /\ t \in Seq(S) /\ Len(t) = Len(s) + 1 /\ Len(s) \in Nat
      /\ \A i \in 1..Len(s) : t[i] = s[i]
      /\ t[Len(s) + 1] = r
      /\ DOMAIN s = 1..Len(s) /\ DOMAIN t = 1..(Len(s) + 1)
  BY <1>1
<1> HIDE DEF t
<1>3. {t[i] : i \in DOMAIN t} = S
  <2>1. \A i \in DOMAIN t : t[i] \in S
    BY <1>2
  <2>2. \A x \in S : \E i \in DOMAIN t : t[i] = x
    BY <1>2
  <2> QED
    BY <2>1, <2>2
<1>4. IDs(t) = IDs(s) \cup {r.id}
  <2>1. \A i \in DOMAIN t : t[i].id \in IDs(s) \cup {r.id}
    BY <1>2 DEF IDs
  <2>2. \A x \in IDs(s) \cup {r.id} : \E i \in DOMAIN t : t[i].id = x
    BY <1>2 DEF IDs
  <2> QED
    BY <2>1, <2>2 DEF IDs
<1>5. Distinct(s) /\ r.id \notin IDs(s) => Distinct(t)
  BY <1>2 DEF Distinct, IDs
<1> QED
  BY <1>2, <1>3, <1>4, <1>5 DEF IsSeq, t

\* Taking the first record away removes it and nothing else.
LEMMA TailIDs ==
  ASSUME NEW s, IsSeq(s), s # <<>>
  PROVE  /\ IsSeq(Tail(s)) /\ Len(Tail(s)) = Len(s) - 1
         /\ IDs(s) = {Head(s).id} \cup IDs(Tail(s))
         /\ Distinct(s) => Distinct(Tail(s)) /\ Head(s).id \notin IDs(Tail(s))
<1> DEFINE S == {s[i] : i \in DOMAIN s}
           t == Tail(s)
<1>1. s \in Seq(S)
  BY DEF IsSeq
<1>2. /\ t \in Seq(S) /\ Len(t) = Len(s) - 1 /\ Len(s) \in Nat \ {0}
      /\ \A i \in 1..(Len(s) - 1) : t[i] = s[i + 1]
      /\ Head(s) = s[1]
      /\ DOMAIN s = 1..Len(s) /\ DOMAIN t = 1..(Len(s) - 1)
  BY <1>1
<1> HIDE DEF t
<1>3. t \in Seq({t[i] : i \in DOMAIN t})
  <2>1. t = [i \in 1..Len(t) |-> t[i]] /\ Len(t) \in Nat
    BY <1>2
  <2> QED
    BY <1>2, <2>1
<1>4. IDs(s) = {Head(s).id} \cup IDs(t)
  <2>1. \A i \in DOMAIN s : i = 1 \/ (i - 1 \in DOMAIN t /\ t[i - 1] = s[i])
    BY <1>2
  <2>2. \A i \in DOMAIN s : s[i].id \in {Head(s).id} \cup IDs(t)
    BY <1>2, <2>1 DEF IDs
  <2>3. \A x \in {Head(s).id} \cup IDs(t) : \E i \in DOMAIN s : s[i].id = x
    BY <1>2 DEF IDs
  <2> QED
    BY <2>2, <2>3 DEF IDs
<1>5. ASSUME Distinct(s)
      PROVE  Distinct(t) /\ Head(s).id \notin IDs(t)
  <2>1. \A i \in DOMAIN t : i + 1 \in DOMAIN s /\ t[i] = s[i + 1] /\ i + 1 # 1
    BY <1>2
  <2>2. \A i, j \in DOMAIN t : i + 1 = j + 1 => i = j
    BY <1>2
  <2>3. Distinct(t)
    BY <1>5, <2>1, <2>2 DEF Distinct
  <2>4. 1 \in DOMAIN s
    BY <1>2
  <2>5. \A i \in DOMAIN t : t[i].id # Head(s).id
    BY <1>2, <1>5, <2>1, <2>4 DEF Distinct
  <2> QED
    BY <2>3, <2>5 DEF IDs
<1> QED
  BY <1>2, <1>3, <1>4, <1>5 DEF IsSeq, t

\* A sequence without repetitions holds as many records as it is long.
LEMMA CountIDs ==
  ASSUME NEW s, IsSeq(s), Distinct(s)
  PROVE  /\ IsFiniteSet(IDs(s)) /\ Cardinality(IDs(s)) = Len(s)
         /\ Len(s) \in Nat
<1>1. Len(s) \in Nat /\ DOMAIN s = 1..Len(s)
  BY DEF IsSeq
<1>2. ExistsBijection(1..Len(s), IDs(s))
  <2> DEFINE f == [i \in 1..Len(s) |-> s[i].id]
  <2>1. f \in [1..Len(s) -> IDs(s)]
    BY <1>1 DEF IDs
  <2>2. \A i, j \in 1..Len(s) : f[i] = f[j] => i = j
    BY <1>1 DEF Distinct
  <2>3. \A x \in IDs(s) : \E i \in 1..Len(s) : f[i] = x
    BY <1>1 DEF IDs
  <2> HIDE DEF f
  <2>4. f \in Bijection(1..Len(s), IDs(s))
    BY <2>1, <2>2, <2>3 DEF Bijection, Injection, Surjection, IsInjective
  <2> QED
    BY <2>4 DEF ExistsBijection
<1> QED
  BY <1>1, <1>2, FS_NatBijection, FS_CountingElements
-----------------------------------------------------------------------------
(* Induction, recursion, quotients and sums of natural numbers.             *)

\* A set of natural numbers that holds some number has a least one.
LEMMA LeastNat ==
  ASSUME NEW S \in SUBSET Nat, S # {}
  PROVE  \E n \in S : \A m \in S : n <= m
<1>1. PICK R : R = OpToRel(<, Nat)
  OBVIOUS
<1>2. IsWellFoundedOn(R, Nat)
  BY <1>1, NatLessThanWellFounded
<1>3. PICK x \in S : \A y \in S : ~(<<y, x>> \in R)
  BY <1>2, WFMin
<1>4. \A a, b \in Nat : a < b => <<a, b>> \in R
  BY <1>1 DEF OpToRel
<1>5. \A y \in S : ~(y < x)
  BY <1>3, <1>4
<1>6. \A y \in S : x <= y
  BY <1>5
<1> QED
  BY <1>6

\* Induction up to N, for a set.
LEMMA Climb ==
  ASSUME NEW N \in Nat, NEW T, 0 \in T, \A n \in 0..(N - 1) : n \in T => n + 1 \in T
  PROVE  0..N \subseteq T
<1> SUFFICES ASSUME ~(0..N \subseteq T) PROVE FALSE
  OBVIOUS
<1>1. PICK n \in (0..N) \ T : \A m \in (0..N) \ T : n <= m
  <2>1. (0..N) \ T # {} /\ (0..N) \ T \in SUBSET Nat
    OBVIOUS
  <2> QED
    BY <2>1, LeastNat
<1>2. n # 0 /\ n - 1 \in 0..(N - 1) /\ n - 1 + 1 = n
  BY <1>1
<1>3. n - 1 \in T
  BY <1>1, <1>2
<1> QED
  BY <1>1, <1>2, <1>3

\* A function on 0..N that is defined by recursion, every value from the one
\* before it.
Recurs(f, N, b, G) == f[0] = b /\ \A n \in 1..N : f[n] = G[<<f[n - 1], n>>]

\* Such a function exists.
LEMMA RecursionExists ==
  ASSUME NEW N \in Nat, NEW S, NEW b \in S, NEW G \in [S \X (1..N) -> S]
  PROVE  \E f \in [0..N -> S] : Recurs(f, N, b, G)
<1> DEFINE OK(f, m) == f[0] = b /\ \A n \in 1..m : f[n] = G[<<f[n - 1], n>>]
           T == {m \in 0..N : \E f \in [0..N -> S] : OK(f, m)}
<1>1. 0 \in T
  <2>1. PICK f \in [0..N -> S] : f = [n \in 0..N |-> b]
    OBVIOUS
  <2>2. OK(f, 0)
    BY <2>1
  <2> HIDE DEF OK
  <2> QED
    BY <2>2
<1>2. ASSUME NEW m \in 0..(N - 1), m \in T PROVE m + 1 \in T
  <2>1. PICK f \in [0..N -> S] : OK(f, m)
    BY <1>2
  <2>2. m \in 0..N /\ m + 1 \in 1..N /\ m + 1 \in 0..N
    OBVIOUS
  <2>3. PICK x \in S : x = G[<<f[m], m + 1>>]
    BY <2>2
  <2>4. PICK g \in [0..N -> S] : g = [f EXCEPT ![m + 1] = x]
    BY <2>2
  <2>5. \A n \in 0..m : g[n] = f[n]
    BY <2>4
  <2>6. g[m + 1] = x
    BY <2>2, <2>4
  <2>7. g[0] = b
    BY <2>1, <2>5
  <2>8. ASSUME NEW n \in 1..(m + 1) PROVE g[n] = G[<<g[n - 1], n>>]
    <3>1. CASE n = m + 1
      <4>1. n - 1 = m /\ g[m] = f[m]
        BY <3>1, <2>5
      <4> QED
        BY <3>1, <4>1, <2>3, <2>6
    <3>2. CASE n # m + 1
      <4>1. n \in 1..m /\ n \in 0..m /\ n - 1 \in 0..m
        BY <3>2
      <4> QED
        BY <4>1, <2>1, <2>5
    <3> QED
      BY <3>1, <3>2
  <2>9. OK(g, m + 1)
    BY <2>7, <2>8
  <2> HIDE DEF OK
  <2> QED
    BY <2>2, <2>9
<1>3. 0..N \subseteq T
  <2> HIDE DEF T
  <2> QED
    BY <1>1, <1>2, Climb
<1>4. N \in T
  <2>1. N \in 0..N
    OBVIOUS
  <2> HIDE DEF T
  <2> QED
    BY <1>3, <2>1
<1>5. PICK f \in [0..N -> S] : OK(f, N)
  <2> HIDE DEF OK
  <2> QED
    BY <1>4
<1>6. Recurs(f, N, b, G)
  BY <1>5 DEF Recurs
<1> QED
  BY <1>6

\* What a quotient is.
LEMMA DivBounds ==
  ASSUME NEW t \in Int, NEW n \in Nat \ {0}
  PROVE  /\ t \div n \in Int
         /\ n * (t \div n) <= t /\ t < n * (t \div n) + n
  OBVIOUS

\* There is only one such number.
LEMMA DivIs ==
  ASSUME NEW t \in Int, NEW n \in Nat \ {0}, NEW q \in Int, n * q <= t, t < n * q + n
  PROVE  t \div n = q
<1>1. PICK p \in Int : p = t \div n /\ n * p <= t /\ t < n * p + n
  BY DivBounds
<1>2. CASE p < q
  <2>1. p + 1 <= q
    BY <1>2
  <2>2. n * (p + 1) <= n * q
    BY <2>1
  <2>3. n * (p + 1) = n * p + n
    OBVIOUS
  <2> QED
    BY <1>1, <2>2, <2>3
<1>3. CASE q < p
  <2>1. q + 1 <= p
    BY <1>3
  <2>2. n * (q + 1) <= n * p
    BY <2>1
  <2>3. n * (q + 1) = n * q + n
    OBVIOUS
  <2> QED
    BY <1>1, <2>2, <2>3
<1> QED
  BY <1>1, <1>2, <1>3

\* A later instant is not on an earlier day.
LEMMA DivMonotone ==
  ASSUME NEW s \in Int, NEW t \in Int, s <= t, NEW n \in Nat \ {0}
  PROVE  s \div n <= t \div n
<1>1. PICK p \in Int : p = s \div n /\ n * p <= s /\ s < n * p + n
  BY DivBounds
<1>2. PICK q \in Int : q = t \div n /\ n * q <= t /\ t < n * q + n
  BY DivBounds
<1>3. CASE q < p
  <2>1. q + 1 <= p
    BY <1>3
  <2>2. n * (q + 1) <= n * p
    BY <2>1
  <2>3. n * (q + 1) = n * q + n
    OBVIOUS
  <2> QED
    BY <1>1, <1>2, <2>2, <2>3
<1> QED
  BY <1>1, <1>2, <1>3

\* A block of cells is as large as its number.
LEMMA BlockSize ==
  ASSUME NEW x, NEW n \in Nat
  PROVE  IsFiniteSet({x} \X (1..n)) /\ Cardinality({x} \X (1..n)) = n
<1>1. PICK a \in Int : a = 1
  OBVIOUS
<1>2. IsFiniteSet(1..n) /\ Cardinality(1..n) = n
  <2>1. /\ IsFiniteSet(a..n)
        /\ Cardinality(a..n) = IF a > n THEN 0 ELSE n - a + 1
    BY FS_Interval
  <2> QED
    BY <1>1, <2>1
<1>3. IsFiniteSet({x}) /\ Cardinality({x}) = 1
  BY FS_Singleton
<1>4. /\ IsFiniteSet({x} \X (1..n))
      /\ Cardinality({x} \X (1..n)) = Cardinality({x}) * Cardinality(1..n)
  BY <1>2, <1>3, FS_Product
<1> QED
  BY <1>2, <1>3, <1>4

\* The cells of a function on a finite set are finitely many.
LEMMA TotalType ==
  ASSUME NEW D, IsFiniteSet(D), NEW f \in [D -> Nat]
  PROVE  /\ IsFiniteSet(UNION {{x} \X (1..f[x]) : x \in D})
         /\ Total(f) \in Nat
<1>1. IsFiniteSet({{x} \X (1..f[x]) : x \in D})
  <2> DEFINE g == [x \in D |-> {x} \X (1..f[x])]
  <2>1. g \in Surjection(D, {{x} \X (1..f[x]) : x \in D})
    <3>1. g \in [D -> {{x} \X (1..f[x]) : x \in D}]
      OBVIOUS
    <3>2. \A y \in {{x} \X (1..f[x]) : x \in D} : \E x \in D : g[x] = y
      OBVIOUS
    <3> QED
      BY <3>1, <3>2 DEF Surjection
  <2> QED
    BY <2>1, FS_Surjection
<1>2. \A b \in {{x} \X (1..f[x]) : x \in D} : IsFiniteSet(b)
  <2>1. ASSUME NEW x \in D PROVE IsFiniteSet({x} \X (1..f[x]))
    <3>1. f[x] \in Nat
      OBVIOUS
    <3> QED
      BY <3>1, BlockSize
  <2> QED
    BY <2>1
<1>3. IsFiniteSet(UNION {{x} \X (1..f[x]) : x \in D})
  BY <1>1, <1>2, FS_UNION
<1>4. DOMAIN f = D
  OBVIOUS
<1> QED
  BY <1>3, <1>4, FS_CardinalityType DEF Total

\* Nothing adds up to nothing.
LEMMA TotalEmpty ==
  ASSUME NEW f, DOMAIN f = {}
  PROVE  Total(f) = 0
<1>1. UNION {{x} \X (1..f[x]) : x \in DOMAIN f} = {}
  OBVIOUS
<1> QED
  BY <1>1, FS_EmptySet DEF Total

\* One summand apart.
LEMMA TotalSplit ==
  ASSUME NEW D, IsFiniteSet(D), NEW f \in [D -> Nat], NEW x \in D
  PROVE  Total(f) = Total([y \in D \ {x} |-> f[y]]) + f[x]
<1> DEFINE g == [y \in D \ {x} |-> f[y]]
           A == UNION {{y} \X (1..f[y]) : y \in D}
           B == UNION {{y} \X (1..g[y]) : y \in D \ {x}}
           C == {x} \X (1..f[x])
<1>1. g \in [D \ {x} -> Nat] /\ IsFiniteSet(D \ {x}) /\ f[x] \in Nat
  BY FS_Subset
<1>2. IsFiniteSet(B) /\ Total(g) \in Nat /\ Total(g) = Cardinality(B)
  <2>1. DOMAIN g = D \ {x}
    OBVIOUS
  <2>2. Total(g) = Cardinality(B)
    BY <2>1 DEF Total
  <2> QED
    BY <1>1, <2>2, TotalType
<1>3. IsFiniteSet(C) /\ Cardinality(C) = f[x]
  BY <1>1, BlockSize
<1>4. B \cap C = {}
  OBVIOUS
<1>5. A = B \cup C
  <2>1. A \subseteq B \cup C
    OBVIOUS
  <2>2. B \cup C \subseteq A
    OBVIOUS
  <2> QED
    BY <2>1, <2>2
<1>6. Cardinality(B \cup C) = Cardinality(B) + Cardinality(C)
  <2> HIDE DEF B, C
  <2>1. Cardinality(B \cup C) = Cardinality(B) + Cardinality(C) - Cardinality(B \cap C)
    BY <1>2, <1>3, FS_Union
  <2>2. Cardinality(B \cap C) = 0
    BY <1>4, FS_EmptySet
  <2>3. Cardinality(B) \in Nat /\ Cardinality(C) \in Nat
    BY <1>2, <1>3, FS_CardinalityType
  <2> QED
    BY <2>1, <2>2, <2>3
<1>7. Total(f) = Cardinality(A)
  <2>1. DOMAIN f = D
    OBVIOUS
  <2> QED
    BY <2>1 DEF Total
<1> QED
  BY <1>2, <1>3, <1>5, <1>6, <1>7

\* Changing one summand changes the total by as much.
LEMMA TotalChange ==
  ASSUME NEW D, IsFiniteSet(D), NEW f \in [D -> Nat], NEW g \in [D -> Nat], NEW x \in D,
         \A y \in D \ {x} : f[y] = g[y]
  PROVE  Total(g) = Total(f) + (g[x] - f[x])
<1>1. [y \in D \ {x} |-> f[y]] = [y \in D \ {x} |-> g[y]]
  OBVIOUS
<1>2. PICK r : r = [y \in D \ {x} |-> f[y]]
  OBVIOUS
<1>3. r \in [D \ {x} -> Nat] /\ IsFiniteSet(D \ {x})
  BY <1>2, FS_Subset
<1>4. Total(r) \in Nat
  BY <1>3, TotalType
<1>5. Total(f) = Total(r) + f[x] /\ Total(g) = Total(r) + g[x]
  BY <1>1, <1>2, TotalSplit
<1>6. f[x] \in Nat /\ g[x] \in Nat
  OBVIOUS
<1> QED
  BY <1>4, <1>5, <1>6

\* Smaller summands have a smaller total.
LEMMA TotalMonotone ==
  ASSUME NEW D, IsFiniteSet(D), NEW f \in [D -> Nat], NEW g \in [D -> Nat],
         \A y \in D : g[y] <= f[y]
  PROVE  Total(g) <= Total(f)
<1> DEFINE A == UNION {{y} \X (1..f[y]) : y \in D}
           B == UNION {{y} \X (1..g[y]) : y \in D}
<1>1. IsFiniteSet(A)
  BY TotalType
<1>2. B \subseteq A
  <2>1. ASSUME NEW y \in D, NEW i \in 1..g[y] PROVE i \in 1..f[y]
    <3>1. f[y] \in Nat /\ g[y] \in Nat /\ g[y] <= f[y]
      OBVIOUS
    <3> QED
      BY <3>1
  <2> QED
    BY <2>1
<1>3. Total(f) = Cardinality(A) /\ Total(g) = Cardinality(B)
  <2>1. DOMAIN f = D /\ DOMAIN g = D
    OBVIOUS
  <2> QED
    BY <2>1 DEF Total
<1> HIDE DEF A, B
<1> QED
  BY <1>1, <1>2, <1>3, FS_Subset
-----------------------------------------------------------------------------
(* The steps.                                                               *)

\* Everything about records is settled by where they are; a step that moves
\* none keeps it.
Places == <<made, sender, queue, pending, batch, written, dropped, lost>>

\* A step that moves no record keeps what is said of their places.
LEMMA SamePlaces ==
  ASSUME IInv, UNCHANGED Places
  PROVE  Buffers' /\ SendersOK' /\ Apart' /\ Accounted'
<1>1. /\ IDs(queue)' = IDs(queue) /\ IDs(pending)' = IDs(pending)
      /\ IDs(batch)' = IDs(batch) /\ Offered' = Offered
  BY DEF Places, IDs, Offered, Idle
<1>2. Buffers'
  BY DEF IInv, Places, Buffers, IsSeq, Distinct
<1>3. SendersOK'
  BY DEF IInv, Places, SendersOK, Idle
<1>4. Apart' /\ Accounted'
  BY <1>1 DEF IInv, Places, Apart, Accounted
<1> QED
  BY <1>2, <1>3, <1>4

\* Dropped records are finitely many, and none is newer than the last one made.
LEMMA DroppedFinite ==
  ASSUME IInv
  PROVE  /\ IsFiniteSet(dropped) /\ Cardinality(dropped) \in Nat
         /\ \A S \in SUBSET dropped : /\ IsFiniteSet(S) /\ Cardinality(S) \in Nat
                                      /\ Cardinality(S) <= Cardinality(dropped)
<1>1. dropped \subseteq 1..made /\ made \in Nat
  BY DEF IInv, Accounted, Control
<1>2. IsFiniteSet(1..made)
  <2>1. PICK n \in Int : n = made
    BY <1>1
  <2>2. PICK m \in Int : m = 1
    OBVIOUS
  <2>3. IsFiniteSet(m..n)
    BY FS_Interval
  <2> QED
    BY <2>1, <2>2, <2>3
<1>3. IsFiniteSet(dropped)
  BY <1>1, <1>2, FS_Subset
<1> QED
  BY <1>3, FS_Subset, FS_CardinalityType

\* The first record is not made yet, and nothing is counted.
LEMMA InitInv == Init => IInv
<1> SUFFICES ASSUME Init PROVE IInv
  OBVIOUS
<1>1. Control
  <2>1. attempt \in 0..(Attempts - 1)
    BY SizesAssumption DEF Init
  <2>2. health \in Health /\ healthRow \in Health
    BY DEF Init, NoHealth, Health
  <2> QED
    BY <2>1, <2>2 DEF Init, Control
<1>2. Buffers
  BY EmptyIDs, SizesAssumption DEF Init, Buffers
<1>3. SendersOK
  BY DEF Init, SendersOK
<1>4. Offered = {}
  BY DEF Init, Offered
<1>5. Apart /\ Accounted
  BY <1>4, EmptyIDs DEF Init, Apart, Accounted
<1>6. Phases
  BY DEF Init, Phases
<1>7. Counted /\ DropsSurviveClose
  BY FS_EmptySet DEF Init, Counted, DropsSurviveClose, NoHealth
<1> QED
  BY <1>1, <1>2, <1>3, <1>5, <1>6, <1>7 DEF IInv

\* A new record is either held by its sender or, after Close, counted.
LEMMA OfferInv ==
  ASSUME IInv, NEW s \in Senders, NEW rec, rec.id = made + 1, Offer(s, rec)
  PROVE  IInv'
<1> DEFINE n == made + 1
<1>1. /\ made \in Nat /\ made' = n /\ n \notin 1..made /\ 1..n = 1..made \cup {n}
  BY DEF IInv, Control, Offer
<1>2. n \notin IDs(queue) \cup IDs(pending) \cup IDs(batch) \cup Offered \cup dropped
  BY <1>1 DEF IInv, Accounted
<1>3. /\ UNCHANGED <<queue, pending, batch, writer, mode, attempt, healthRow, restarts,
                     written, lost, closed, reported>>
      /\ IDs(queue)' = IDs(queue) /\ IDs(pending)' = IDs(pending)
      /\ IDs(batch)' = IDs(batch)
  BY DEF Offer, writerVars, tables, IDs
<1>4. Buffers'
  BY <1>3 DEF IInv, Buffers, IsSeq, Distinct
<1>5. CASE closed
  <2>1. /\ health' = [health EXCEPT !.dropped = @ + 1]
        /\ dropped' = dropped \cup {n} /\ refused' = refused \cup {n}
        /\ sender' = sender
    BY <1>5 DEF Offer
  <2>2. Control'
    BY <1>1, <1>3, <2>1 DEF IInv, Control, Health
  <2>3. SendersOK' /\ Offered' = Offered
    BY <2>1 DEF IInv, SendersOK, Offered
  <2>4. Apart'
    BY <1>2, <1>3, <2>1, <2>3 DEF IInv, Apart
  <2>5. Accounted'
    BY <1>1, <1>3, <2>1, <2>3 DEF IInv, Accounted
  <2>6. Phases'
    BY <1>3, <2>1 DEF IInv, Phases
  <2>7. Counted'
    <3>1. Cardinality(dropped \cup {n}) = Cardinality(dropped) + 1
      BY <1>2, DroppedFinite, FS_AddElement
    <3> QED
      BY <1>3, <2>1, <3>1 DEF IInv, Control, Health, Counted
  <2>8. DropsSurviveClose'
    <3>1. dropped' \ refused' = dropped \ refused
      BY <1>2, <2>1
    <3> QED
      BY <1>3, <3>1 DEF IInv, DropsSurviveClose
  <2> QED
    BY <1>4, <2>2, <2>3, <2>4, <2>5, <2>6, <2>7, <2>8 DEF IInv
<1>6. CASE ~closed
  <2>1. /\ sender' = [sender EXCEPT ![s] = [pc |-> "locked", rec |-> rec]]
        /\ UNCHANGED <<health, dropped, refused>> /\ sender[s] = Idle
    BY <1>6 DEF Offer
  <2>2. Control'
    BY <1>1, <1>3, <2>1 DEF IInv, Control
  <2>3. /\ sender'[s] # Idle /\ sender'[s].rec.id = n /\ sender'[s].pc = "locked"
        /\ \A t \in Senders \ {s} : sender'[t] = sender[t]
        /\ sender' = [t \in Senders |-> sender'[t]]
    BY <2>1 DEF IInv, SendersOK, Idle
  <2>4. Offered' = Offered \cup {n}
    <3>1. \A t \in Senders : sender'[t] # Idle => sender'[t].rec.id \in Offered \cup {n}
      BY <2>3 DEF Offered
    <3>2. \A x \in Offered \cup {n} :
             \E t \in Senders : sender'[t] # Idle /\ sender'[t].rec.id = x
      BY <2>1, <2>3 DEF Offered
    <3>3. Idle' = Idle
      BY DEF Idle
    <3> QED
      BY <3>1, <3>2, <3>3 DEF Offered
  <2>5. SendersOK'
    <3>1. \A t \in Senders : sender'[t] = Idle \/ sender'[t].pc = "locked"
      BY <2>3 DEF IInv, SendersOK
    <3>2. \A t, u \in Senders :
             /\ sender'[t] # Idle /\ sender'[u] # Idle
             /\ sender'[t].rec.id = sender'[u].rec.id
             => t = u
      BY <1>2, <2>3 DEF IInv, SendersOK, Offered
    <3> QED
      BY <2>3, <3>1, <3>2 DEF SendersOK, Idle
  <2>6. Apart'
    BY <1>2, <1>3, <2>1, <2>4 DEF IInv, Apart
  <2>7. Accounted'
    BY <1>1, <1>3, <2>1, <2>4 DEF IInv, Accounted
  <2>8. Phases'
    BY <1>3, <1>6, <2>1 DEF IInv, Phases
  <2>9. Counted' /\ DropsSurviveClose'
    BY <1>3, <2>1 DEF IInv, Counted, DropsSurviveClose
  <2> QED
    BY <1>4, <2>2, <2>5, <2>6, <2>7, <2>8, <2>9 DEF IInv
<1> QED
  BY <1>5, <1>6 DEF IInv, Control
\* Send: the record moves into the queue or, when that is full, is counted.
LEMMA SendInv ==
  ASSUME IInv, NEW s \in Senders, Send(s)
  PROVE  IInv'
<1> DEFINE n == sender[s].rec.id
<1>1. /\ sender[s] # Idle /\ sender' = [sender EXCEPT ![s] = Idle] /\ ~closed
      /\ UNCHANGED <<made, closed, pending, batch, writer, mode, attempt, healthRow,
                     restarts, written, refused, lost, reported>>
  BY DEF IInv, Phases, Control, Send, Idle, clock, writerVars, tables
<1>2. /\ sender'[s] = Idle /\ \A t \in Senders \ {s} : sender'[t] = sender[t]
      /\ sender' = [t \in Senders |-> sender'[t]]
  BY <1>1 DEF IInv, SendersOK
<1>3. n \in Offered /\ Offered' = Offered \ {n}
  <2>1. \A t \in Senders : sender'[t] # Idle => sender'[t].rec.id \in Offered \ {n}
    BY <1>1, <1>2 DEF IInv, SendersOK, Offered
  <2>2. \A x \in Offered \ {n} :
           \E t \in Senders : sender'[t] # Idle /\ sender'[t].rec.id = x
    BY <1>2 DEF Offered
  <2>3. Idle' = Idle
    BY DEF Idle
  <2> QED
    BY <1>1, <2>1, <2>2, <2>3 DEF Offered
<1>4. SendersOK'
  <2>1. \A t \in Senders : sender'[t] = Idle \/ sender'[t].pc = "locked"
    BY <1>2 DEF IInv, SendersOK
  <2>2. \A t, u \in Senders :
           /\ sender'[t] # Idle /\ sender'[u] # Idle
           /\ sender'[t].rec.id = sender'[u].rec.id
           => t = u
    BY <1>2 DEF IInv, SendersOK
  <2> QED
    BY <1>2, <2>1, <2>2 DEF SendersOK, Idle
<1>5. IDs(pending)' = IDs(pending) /\ IDs(batch)' = IDs(batch)
  BY <1>1 DEF IDs
<1>6. IsSeq(queue) /\ Len(queue) \in Nat /\ Distinct(queue)
  BY DEF IInv, Buffers, IsSeq
<1>7. n \notin IDs(queue) \cup IDs(pending) \cup IDs(batch) \cup dropped
  BY <1>3 DEF IInv, Apart
<1>8. CASE Len(queue) < QueueSize
  <2>1. queue' = Append(queue, sender[s].rec) /\ UNCHANGED <<health, dropped>>
    BY <1>8 DEF Send
  <2>2. /\ IsSeq(queue') /\ Len(queue') = Len(queue) + 1
        /\ IDs(queue') = IDs(queue) \cup {n} /\ Distinct(queue')
    BY <1>6, <1>7, <2>1, AppendIDs
  <2>3. IDs(queue)' = IDs(queue')
    BY DEF IDs
  <2>4. Len(queue') <= QueueSize
    BY <1>6, <1>8, <2>2, SizesAssumption
  <2>5. Buffers'
    BY <1>1, <2>2, <2>4 DEF IInv, Buffers, IsSeq, Distinct
  <2>6. Apart'
    BY <1>3, <1>5, <1>7, <2>1, <2>2, <2>3 DEF IInv, Apart
  <2>7. Accounted'
    BY <1>1, <1>3, <1>5, <2>1, <2>2, <2>3 DEF IInv, Accounted
  <2>8. Control' /\ Counted' /\ DropsSurviveClose'
    BY <1>1, <2>1 DEF IInv, Control, Counted, DropsSurviveClose
  <2>9. Phases'
    BY <1>1, <1>5 DEF IInv, Phases, Control
  <2> QED
    BY <1>4, <2>5, <2>6, <2>7, <2>8, <2>9 DEF IInv
<1>9. CASE ~(Len(queue) < QueueSize)
  <2>1. /\ queue' = queue /\ dropped' = dropped \cup {n}
        /\ health' = [health EXCEPT !.dropped = @ + 1]
    BY <1>9 DEF Send
  <2>2. IDs(queue)' = IDs(queue)
    BY <2>1 DEF IDs
  <2>3. Buffers'
    BY <1>1, <2>1 DEF IInv, Buffers, IsSeq, Distinct
  <2>4. Apart'
    BY <1>3, <1>5, <1>7, <2>1, <2>2 DEF IInv, Apart
  <2>5. Accounted'
    BY <1>1, <1>3, <1>5, <2>1, <2>2 DEF IInv, Accounted
  <2>6. Control'
    BY <1>1, <2>1 DEF IInv, Control, Health
  <2>7. Counted'
    <3>1. Cardinality(dropped \cup {n}) = Cardinality(dropped) + 1
      BY <1>7, DroppedFinite, FS_AddElement
    <3> QED
      BY <1>1, <2>1, <3>1 DEF IInv, Control, Health, Counted
  <2>8. Phases' /\ DropsSurviveClose'
    BY <1>1, <1>5 DEF IInv, Phases, Control, DropsSurviveClose
  <2> QED
    BY <1>4, <2>3, <2>4, <2>5, <2>6, <2>7, <2>8 DEF IInv
<1> QED
  BY <1>8, <1>9

\* flush: the records p become the batch, or there are none and the loop goes on.
LEMMA FlushEffect ==
  ASSUME NEW p, IsSeq(p), Distinct(p), Len(p) <= BatchSize,
         NEW m \in {"run", "drain", "final"}, flush(p, m)
  PROVE  /\ pending' = <<>> /\ mode' = m /\ attempt' = 0
         /\ IsSeq(batch') /\ Distinct(batch') /\ Len(batch') <= BatchSize
         /\ IDs(batch') = IDs(p)
         /\ writer' \in {"select", "finish", "writing"}
         /\ writer' = "select" => m # "final"
         /\ writer' = "finish" => m = "final"
         /\ writer' # "writing" => batch' = <<>>
<1>1. CASE p = <<>> /\ health = savedHealth
  BY <1>1, EmptyIDs, SizesAssumption DEF flush
<1>2. CASE ~(p = <<>> /\ health = savedHealth)
  BY <1>2 DEF flush
<1> QED
  BY <1>1, <1>2
\* Receive: the first record of the queue joins the pending ones; a full batch
\* goes to the database.
LEMMA ReceiveInv == ASSUME IInv, Receive PROVE IInv'
<1>1. PICK r : r = Head(queue)
  OBVIOUS
<1>2. PICK p : p = Append(pending, r)
  OBVIOUS
<1>3. /\ writer = "select" /\ mode \in {"run", "drain"} /\ queue # <<>>
      /\ queue' = Tail(queue)
      /\ UNCHANGED <<made, sender, closed, health, healthRow, restarts, written,
                     dropped, refused, lost, reported>>
  BY DEF Receive, clock, tables, ghosts
<1>4. /\ IsSeq(queue) /\ IsSeq(pending) /\ Distinct(queue) /\ Distinct(pending)
      /\ Len(queue) \in Nat /\ Len(pending) \in Nat /\ batch = <<>>
  BY <1>3 DEF IInv, Buffers, IsSeq, Phases
<1>5. /\ IsSeq(queue') /\ Len(queue') = Len(queue) - 1 /\ Distinct(queue')
      /\ IDs(queue) = {r.id} \cup IDs(queue') /\ r.id \notin IDs(queue')
  BY <1>1, <1>3, <1>4, TailIDs
<1>6. r.id \notin IDs(pending)
  BY <1>5 DEF IInv, Apart
<1>7. /\ IsSeq(p) /\ Len(p) = Len(pending) + 1 /\ Distinct(p)
      /\ IDs(p) = IDs(pending) \cup {r.id}
  BY <1>2, <1>4, <1>6, AppendIDs
<1>8. Len(p) <= BatchSize /\ Len(queue') <= QueueSize
  BY <1>4, <1>5, <1>7, SizesAssumption DEF IInv, Buffers
<1>9. /\ IsSeq(pending') /\ Distinct(pending') /\ Len(pending') < BatchSize
      /\ IsSeq(batch') /\ Distinct(batch') /\ Len(batch') <= BatchSize
      /\ IDs(pending') \cup IDs(batch') = IDs(p)
      /\ IDs(pending') \cap IDs(batch') = {}
      /\ mode' = mode /\ attempt' \in 0..(Attempts - 1)
      /\ writer' \in {"select", "writing"}
      /\ writer' = "select" => batch' = <<>>
      /\ writer' = "writing" => pending' = <<>>
  <2>1. CASE Len(p) >= BatchSize
    <3>1. flush(p, mode)
      BY <1>1, <1>2, <2>1 DEF Receive
    <3>2. /\ pending' = <<>> /\ mode' = mode /\ attempt' = 0
          /\ IsSeq(batch') /\ Distinct(batch') /\ Len(batch') <= BatchSize
          /\ IDs(batch') = IDs(p)
          /\ writer' \in {"select", "finish", "writing"}
          /\ writer' = "finish" => mode = "final"
          /\ writer' # "writing" => batch' = <<>>
      <4>1. PICK m \in {"run", "drain", "final"} : m = mode
        BY <1>3
      <4> QED
        BY <1>7, <1>8, <3>1, <4>1, FlushEffect
    <3>3. 0 \in 0..(Attempts - 1) /\ 0 < BatchSize
      BY SizesAssumption
    <3> QED
      BY <1>3, <3>2, <3>3, EmptyIDs
  <2>2. CASE ~(Len(p) >= BatchSize)
    <3>1. pending' = p /\ UNCHANGED <<batch, writer, mode, attempt>>
      BY <1>1, <1>2, <2>2 DEF Receive
    <3>2. Len(p) < BatchSize
      BY <1>4, <1>7, <2>2, SizesAssumption
    <3>3. attempt' \in 0..(Attempts - 1)
      BY <3>1 DEF IInv, Control
    <3>4. Len(batch) <= BatchSize
      BY DEF IInv, Buffers
    <3> QED
      BY <1>3, <1>4, <1>7, <3>1, <3>2, <3>3, <3>4, EmptyIDs
  <2> QED
    BY <2>1, <2>2
<1>10. /\ IDs(queue)' = IDs(queue') /\ IDs(pending)' = IDs(pending')
       /\ IDs(batch)' = IDs(batch') /\ Offered' = Offered /\ IDs(batch) = {}
  BY <1>3, <1>4, EmptyIDs DEF IDs, Offered, Idle
<1>11. Control' /\ Counted'
  BY <1>3, <1>9 DEF IInv, Control, Counted
<1>12. Buffers'
  BY <1>5, <1>8, <1>9 DEF Buffers, IsSeq, Distinct
<1>13. SendersOK'
  BY <1>3 DEF IInv, SendersOK, Idle
<1>14. Apart'
  BY <1>3, <1>5, <1>6, <1>7, <1>9, <1>10 DEF IInv, Apart
<1>15. Accounted'
  BY <1>3, <1>5, <1>7, <1>9, <1>10 DEF IInv, Accounted
<1>16. Phases'
  BY <1>3, <1>9 DEF IInv, Phases, Idle
<1>17. DropsSurviveClose'
  BY <1>9 DEF DropsSurviveClose
<1> QED
  BY <1>11, <1>12, <1>13, <1>14, <1>15, <1>16, <1>17 DEF IInv

\* The pending records are handed over; before the last flush the queue is empty
\* and the collector closed.
LEMMA HandOverInv ==
  ASSUME IInv, writer = "select", NEW m \in {"run", "final"}, flush(pending, m),
         m = "run" => mode = "run",
         m = "final" => closed /\ queue = <<>>,
         UNCHANGED <<made, sender, closed, queue, health, healthRow, restarts, written,
                     dropped, refused, lost, reported>>
  PROVE  IInv'
<1>1. PICK p : p = pending
  OBVIOUS
<1>2. IsSeq(p) /\ Distinct(p) /\ Len(p) < BatchSize /\ Len(p) \in Nat /\ flush(p, m)
  BY <1>1 DEF IInv, Buffers, IsSeq
<1>3. Len(p) <= BatchSize
  BY <1>2, SizesAssumption
<1>4. /\ pending' = <<>> /\ mode' = m /\ attempt' = 0
      /\ IsSeq(batch') /\ Distinct(batch') /\ Len(batch') <= BatchSize
      /\ IDs(batch') = IDs(p)
      /\ writer' \in {"select", "finish", "writing"}
      /\ writer' = "select" => m # "final"
      /\ writer' = "finish" => m = "final"
      /\ writer' # "writing" => batch' = <<>>
  BY <1>2, <1>3, FlushEffect
<1>5. batch = <<>>
  BY DEF IInv, Phases
<1>6. /\ IDs(queue)' = IDs(queue) /\ IDs(pending)' = {} /\ IDs(batch)' = IDs(pending)
      /\ Offered' = Offered /\ IDs(batch) = {}
  BY <1>1, <1>4, <1>5, EmptyIDs DEF IDs, Offered, Idle
<1>7. 0 \in 0..(Attempts - 1) /\ 0 < BatchSize
  BY SizesAssumption
<1>8. Control' /\ Counted'
  BY <1>4, <1>7 DEF IInv, Control, Counted
<1>9. Buffers'
  BY <1>4, <1>7, EmptyIDs DEF IInv, Buffers, IsSeq, Distinct
<1>10. SendersOK'
  BY DEF IInv, SendersOK, Idle
<1>11. Apart' /\ Accounted'
  BY <1>6 DEF IInv, Apart, Accounted
<1>12. Phases'
  BY <1>4 DEF IInv, Phases, Idle
<1>13. DropsSurviveClose'
  BY <1>4 DEF DropsSurviveClose
<1> QED
  BY <1>8, <1>9, <1>10, <1>11, <1>12, <1>13 DEF IInv

\* The ticker.
LEMMA TickInv == ASSUME IInv, Tick PROVE IInv'
  BY HandOverInv DEF Tick, clock, tables, ghosts

\* The drain after stop ends with the queue empty, since no sender can follow.
LEMMA DrainEndsInv == ASSUME IInv, DrainEnds PROVE IInv'
<1>1. closed
  BY DEF IInv, Phases, DrainEnds
<1> QED
  BY <1>1, HandOverInv DEF DrainEnds, clock, tables, ghosts

\* The writer sees the stop signal.
LEMMA SeeStopInv == ASSUME IInv, SeeStop PROVE IInv'
<1>1. /\ writer = "select" /\ mode = "run" /\ closed /\ mode' = "drain"
      /\ UNCHANGED <<made, sender, closed, queue, pending, batch, writer, attempt, health,
                     healthRow, restarts, written, dropped, refused, lost, reported>>
  BY DEF SeeStop, clock, tables, ghosts
<1>2. Buffers' /\ SendersOK' /\ Apart' /\ Accounted'
  BY <1>1, SamePlaces DEF Places
<1>3. Control' /\ Counted' /\ DropsSurviveClose'
  BY <1>1 DEF IInv, Control, Counted, DropsSurviveClose
<1>4. Phases'
  BY <1>1 DEF IInv, Phases, Idle, IDs
<1> QED
  BY <1>2, <1>3, <1>4 DEF IInv
\* A commit: the records of the batch are written.
LEMMA BatchCommittedInv == ASSUME IInv, BatchCommitted PROVE IInv'
<1>1. /\ writer = "writing" /\ writer' = "written"
      /\ written' = written \cup IDs(batch) /\ healthRow' = health
      /\ UNCHANGED <<made, sender, closed, queue, pending, batch, mode, attempt, health,
                     restarts, dropped, refused, lost, reported>>
  BY DEF BatchCommitted, Committed, writeBatch, clock
<1>2. /\ IDs(queue)' = IDs(queue) /\ IDs(pending)' = IDs(pending)
      /\ IDs(batch)' = IDs(batch) /\ Offered' = Offered
  BY <1>1 DEF IDs, Offered, Idle
<1>3. Buffers'
  BY <1>1 DEF IInv, Buffers, IsSeq, Distinct
<1>4. SendersOK'
  BY <1>1 DEF IInv, SendersOK, Idle
<1>5. Apart' /\ Accounted'
  BY <1>1, <1>2 DEF IInv, Apart, Accounted
<1>6. Control' /\ Counted' /\ DropsSurviveClose'
  BY <1>1 DEF IInv, Control, Counted, DropsSurviveClose
<1>7. Phases'
  BY <1>1, <1>2 DEF IInv, Phases, Idle
<1> QED
  BY <1>3, <1>4, <1>5, <1>6, <1>7 DEF IInv

\* A failed attempt: the batch is kept for the next one, or given up and counted.
LEMMA BatchFailsInv == ASSUME IInv, BatchFails PROVE IInv'
<1>1. /\ writer = "writing" /\ pending = <<>>
      /\ written' \in {written, written \cup IDs(batch)}
      /\ healthRow' \in {healthRow, health}
      /\ UNCHANGED <<made, sender, closed, queue, pending, mode, restarts, refused, lost,
                     reported>>
  BY DEF IInv, Phases, BatchFails, Committed, writeBatch, clock, tables
<1>2. /\ IDs(queue)' = IDs(queue) /\ IDs(pending)' = IDs(pending) /\ Offered' = Offered
  BY <1>1 DEF IDs, Offered, Idle
<1>3. SendersOK'
  BY <1>1 DEF IInv, SendersOK, Idle
<1>4. health \in Health /\ healthRow' \in Health /\ attempt \in 0..(Attempts - 1)
  BY <1>1 DEF IInv, Control
<1>5. CASE attempt + 1 < Attempts
  <2>1. /\ attempt' = attempt + 1 /\ health' = [health EXCEPT !.errors = @ + 1]
        /\ UNCHANGED <<batch, writer, dropped>>
    BY <1>5 DEF BatchFails
  <2>2. IDs(batch)' = IDs(batch)
    BY <2>1 DEF IDs
  <2>3. attempt' \in 0..(Attempts - 1)
    BY <1>4, <1>5, <2>1, SizesAssumption
  <2>4. health' \in Health /\ health'.dropped = health.dropped
    BY <1>4, <2>1 DEF Health
  <2>5. Control' /\ Counted'
    BY <1>1, <1>4, <2>1, <2>3, <2>4 DEF IInv, Control, Counted
  <2>6. Buffers'
    BY <1>1, <2>1 DEF IInv, Buffers, IsSeq, Distinct
  <2>7. Apart' /\ Accounted'
    BY <1>1, <1>2, <2>1, <2>2 DEF IInv, Apart, Accounted
  <2>8. Phases' /\ DropsSurviveClose'
    BY <1>1, <2>1 DEF IInv, Phases, Idle, DropsSurviveClose
  <2> QED
    BY <1>3, <2>5, <2>6, <2>7, <2>8 DEF IInv
<1>6. CASE ~(attempt + 1 < Attempts)
  <2>1. /\ health' = [dropped |-> health.dropped + Len(batch), errors |-> health.errors + 1]
        /\ dropped' = dropped \cup IDs(batch) /\ batch' = <<>> /\ attempt' = 0
        /\ writer' = IF mode = "final" THEN "finish" ELSE "select"
    BY <1>6 DEF BatchFails
  <2>2. /\ IsFiniteSet(IDs(batch)) /\ Cardinality(IDs(batch)) = Len(batch)
        /\ Len(batch) \in Nat
    <3>1. PICK b : b = batch
      OBVIOUS
    <3>2. IsSeq(b) /\ Distinct(b)
      BY <3>1 DEF IInv, Buffers
    <3> QED
      BY <3>1, <3>2, CountIDs
  <2>3. Counted'
    <3>1. dropped \cap IDs(batch) = {}
      BY DEF IInv, Apart
    <3>2. Cardinality(dropped \cup IDs(batch)) = Cardinality(dropped) + Len(batch)
      <4>1. Cardinality(dropped \cup IDs(batch))
              = Cardinality(dropped) + Len(batch) - Cardinality(dropped \cap IDs(batch))
        BY <2>2, DroppedFinite, FS_Union
      <4>2. Cardinality(dropped \cap IDs(batch)) = 0
        BY <3>1, FS_EmptySet
      <4> QED
        BY <4>1, <4>2, <2>2, DroppedFinite
    <3> QED
      BY <1>1, <2>1, <3>2 DEF IInv, Counted
  <2>4. 0 \in 0..(Attempts - 1) /\ 0 <= BatchSize
    BY SizesAssumption
  <2>5. health' \in Health
    BY <1>4, <2>1, <2>2 DEF Health
  <2>6. Control'
    BY <1>1, <1>4, <2>1, <2>4, <2>5 DEF IInv, Control
  <2>7. Buffers'
    BY <1>1, <2>1, <2>4, EmptyIDs DEF IInv, Buffers, IsSeq, Distinct
  <2>8. IDs(batch)' = {}
    BY <2>1, EmptyIDs DEF IDs
  <2>9. Apart' /\ Accounted'
    BY <1>1, <1>2, <2>1, <2>8 DEF IInv, Apart, Accounted
  <2>10. Phases' /\ DropsSurviveClose'
    BY <1>1, <2>1 DEF IInv, Phases, Idle, DropsSurviveClose
  <2> QED
    BY <1>3, <2>3, <2>6, <2>7, <2>9, <2>10 DEF IInv
<1> QED
  BY <1>5, <1>6

\* Back from a commit: the batch is forgotten, its records are written.
LEMMA BatchDoneInv == ASSUME IInv, BatchDone PROVE IInv'
<1>1. /\ writer = "written" /\ batch' = <<>> /\ IDs(batch) \subseteq written
      /\ writer' = IF mode = "final" THEN "finish" ELSE "select"
      /\ UNCHANGED <<made, sender, closed, queue, pending, mode, attempt, health, healthRow,
                     restarts, written, dropped, refused, lost, reported>>
  BY DEF IInv, Phases, BatchDone, clock, tables, ghosts
<1>2. /\ IDs(queue)' = IDs(queue) /\ IDs(pending)' = IDs(pending) /\ IDs(batch)' = {}
      /\ Offered' = Offered
  BY <1>1, EmptyIDs DEF IDs, Offered, Idle
<1>3. 0 <= BatchSize
  BY SizesAssumption
<1>4. Buffers'
  BY <1>1, <1>3, EmptyIDs DEF IInv, Buffers, IsSeq, Distinct
<1>5. SendersOK'
  BY <1>1 DEF IInv, SendersOK, Idle
<1>6. Apart' /\ Accounted'
  BY <1>1, <1>2 DEF IInv, Apart, Accounted
<1>7. Control' /\ Counted' /\ DropsSurviveClose'
  BY <1>1 DEF IInv, Control, Counted, DropsSurviveClose
<1>8. Phases'
  BY <1>1 DEF IInv, Phases, Idle
<1> QED
  BY <1>4, <1>5, <1>6, <1>7, <1>8 DEF IInv

\* finishRun: when the health row is written it holds every drop so far.
LEMMA FinishRunInv == ASSUME IInv, FinishRun PROVE IInv'
<1>1. /\ writer = "finish" /\ writer' = "done"
      /\ UNCHANGED <<made, sender, closed, queue, pending, batch, mode, attempt, restarts,
                     written, dropped, refused, lost>>
  BY DEF FinishRun, clock
<1>2. /\ \E errors \in {0, 1} : health' = [health EXCEPT !.errors = @ + errors]
      /\ healthRow' \in {healthRow, health'}
      /\ reported' => healthRow' = health'
  BY DEF FinishRun
<1>3. health' \in Health /\ health'.dropped = health.dropped /\ healthRow' \in Health
  BY <1>2 DEF IInv, Control, Health
<1>4. Buffers' /\ SendersOK' /\ Apart' /\ Accounted'
  BY <1>1, SamePlaces DEF Places
<1>5. Control' /\ Counted'
  BY <1>1, <1>3 DEF IInv, Control, Counted
<1>6. Phases'
  BY <1>1 DEF IInv, Phases, Idle
<1>7. DropsSurviveClose'
  <2>1. SUFFICES ASSUME reported', restarts = 0
                 PROVE  healthRow'.dropped >= Cardinality(dropped \ refused)
    BY <1>1 DEF DropsSurviveClose
  <2>2. healthRow'.dropped = Cardinality(dropped)
    BY <1>2, <1>3, <2>1 DEF IInv, Counted
  <2>3. /\ Cardinality(dropped) \in Nat /\ Cardinality(dropped \ refused) \in Nat
        /\ Cardinality(dropped \ refused) <= Cardinality(dropped)
    BY DroppedFinite
  <2> QED
    BY <2>2, <2>3
<1> QED
  BY <1>4, <1>5, <1>6, <1>7 DEF IInv

\* Close waits for the lock, so no sender is left between its check and its send.
LEMMA CloseInv == ASSUME IInv, Close PROVE IInv'
<1>1. /\ ~closed /\ closed' = TRUE
      /\ UNCHANGED <<made, sender, queue, pending, batch, writer, mode, attempt, health,
                     healthRow, restarts, written, dropped, refused, lost, reported>>
  BY DEF Close, clock, writerVars, tables, ghosts
<1>2. \A s \in Senders : sender[s] = Idle
  BY DEF IInv, SendersOK, Close
<1>3. Buffers' /\ SendersOK' /\ Apart' /\ Accounted'
  BY <1>1, SamePlaces DEF Places
<1>4. Control' /\ Counted' /\ DropsSurviveClose'
  BY <1>1 DEF IInv, Control, Counted, DropsSurviveClose
<1>5. Phases'
  BY <1>1, <1>2 DEF IInv, Phases, Idle, IDs
<1> QED
  BY <1>3, <1>4, <1>5 DEF IInv

\* Cleanup and midnight move no record, and count no drop.
LEMMA QuietInv ==
  ASSUME IInv,
         UNCHANGED <<made, sender, closed, queue, pending, batch, writer, mode, attempt,
                     healthRow, restarts, written, dropped, refused, lost, reported>>,
         health' \in {health, [health EXCEPT !.errors = @ + 1]}
  PROVE  IInv'
<1>1. Buffers' /\ SendersOK' /\ Apart' /\ Accounted'
  BY SamePlaces DEF Places
<1>2. health' \in Health /\ health'.dropped = health.dropped
  BY DEF IInv, Control, Health
<1>3. Control' /\ Counted' /\ DropsSurviveClose'
  BY <1>2 DEF IInv, Control, Counted, DropsSurviveClose
<1>4. Phases'
  BY DEF IInv, Phases, Idle, IDs
<1> QED
  BY <1>1, <1>3, <1>4 DEF IInv

\* A new process starts with empty buffers; what the old one held and had not
\* written is lost.
LEMMA RestartInv == ASSUME IInv, Restart PROVE IInv'
<1>1. /\ restarts' = restarts + 1 /\ lost' = lost \cup (InFlight \ written)
      /\ sender' = [s \in Senders |-> Idle] /\ closed' = FALSE
      /\ queue' = <<>> /\ pending' = <<>> /\ batch' = <<>>
      /\ writer' = "select" /\ mode' = "run" /\ attempt' = 0
      /\ health' = healthRow
      /\ UNCHANGED <<made, healthRow, written, dropped>>
  BY DEF Restart, clock
<1>2. /\ IDs(queue)' = {} /\ IDs(pending)' = {} /\ IDs(batch)' = {} /\ Offered' = {}
  BY <1>1, EmptyIDs DEF IDs, Offered, Idle
<1>3. InFlight = IDs(queue) \cup IDs(pending) \cup IDs(batch) \cup Offered
  BY DEF InFlight, Offered
<1>4. 0 \in 0..(Attempts - 1) /\ 0 <= BatchSize /\ 0 <= QueueSize /\ 0 < BatchSize
  BY SizesAssumption
<1>5. restarts' \in Nat /\ restarts' # 0
  BY <1>1 DEF IInv, Control
<1>6. Control'
  BY <1>1, <1>4, <1>5 DEF IInv, Control
<1>7. Buffers'
  BY <1>1, <1>4, EmptyIDs DEF Buffers, IsSeq, Distinct
<1>8. SendersOK'
  BY <1>1 DEF SendersOK, Idle
<1>9. Apart' /\ Accounted'
  BY <1>1, <1>2, <1>3 DEF IInv, Apart, Accounted
<1>10. Phases'
  BY <1>1 DEF Phases, Idle
<1>11. Counted' /\ DropsSurviveClose'
  BY <1>1, <1>5 DEF Counted, DropsSurviveClose
<1> QED
  BY <1>6, <1>7, <1>8, <1>9, <1>10, <1>11 DEF IInv
\* Every step keeps the invariant.
LEMMA StepInv == IInv /\ [Next]_vars => IInv'
<1> SUFFICES ASSUME IInv, [Next]_vars PROVE IInv'
  OBVIOUS
<1>1. ASSUME NEW s \in Senders, RecordAction(s) PROVE IInv'
  <2>1. PICK rec : rec = [kind |-> "action", id |-> made + 1, at |-> Now + 1]
    OBVIOUS
  <2>2. Offer(s, rec) /\ rec.id = made + 1
    BY <1>1, <2>1 DEF RecordAction
  <2> QED
    BY <2>2, OfferInv
<1>2. ASSUME NEW s \in Senders, NEW j \in JobIDs, NEW r \in Reports, ObserveJob(s, j, r)
      PROVE  IInv'
  <2>1. PICK rec : rec = [kind |-> "job", id |-> made + 1, job |-> j,
                          register |-> registered[j] = Unknown, snapshot |-> statsJob(j, r)]
    OBVIOUS
  <2>2. Offer(s, rec) /\ rec.id = made + 1
    BY <1>2, <2>1 DEF ObserveJob
  <2> QED
    BY <2>2, OfferInv
<1>3. ASSUME NEW s \in Senders, Send(s) PROVE IInv'
  BY <1>3, SendInv
<1>4. CASE WriterStep
  BY <1>4, ReceiveInv, TickInv, SeeStopInv, DrainEndsInv, BatchCommittedInv,
     BatchFailsInv, BatchDoneInv, FinishRunInv DEF WriterStep
<1>5. CASE Close
  BY <1>5, CloseInv
<1>6. CASE Cleanup
  BY <1>6, QuietInv DEF Cleanup, clock, writerVars, ghosts
<1>7. CASE NextDay
  BY <1>7, QuietInv DEF NextDay, writerVars, tables, ghosts
<1>8. CASE Restart
  BY <1>8, RestartInv
<1>9. CASE UNCHANGED vars
  BY <1>9, QuietInv DEF vars
<1> QED
  BY <1>1, <1>2, <1>3, <1>4, <1>5, <1>6, <1>7, <1>8, <1>9 DEF Next

-----------------------------------------------------------------------------
(* One record and the database.                                             *)

\* What a snapshot may say, and what is stored of a job.
Snapshots == [created : Nat, updated : Nat, state : {"open", "failed"},
              observed : {Unknown, "processing"} \cup TerminalOutcomes,
              accepted : BOOLEAN, cancelAccepted : BOOLEAN,
              terminalAt : Nat \cup {Unknown}, documents : Nat,
              sheets : Int \cup {Unknown}, route : SettingKeys]

\* The larger of two counters is as large as each known one.
LEMMA MaxIntPtrEffect ==
  ASSUME NEW a \in Nat \cup {Unknown}, NEW b \in Int \cup {Unknown}
  PROVE  /\ maxIntPtr(a, b) \in Nat \cup {Unknown}
         /\ a # Unknown => maxIntPtr(a, b) # Unknown /\ maxIntPtr(a, b) >= a
         /\ maxIntPtr(maxIntPtr(a, b), b) = maxIntPtr(a, b)
  BY UnknownAssumption DEF maxIntPtr

\* mergeJob stores what is of the right kind, takes no fact back, and merging
\* the same snapshot again changes nothing.
LEMMA MergeEffect ==
  ASSUME NEW old \in JobRows, NEW next \in Snapshots
  PROVE  /\ mergeJob(old, next) \in JobRows
         /\ FactsKept(old, mergeJob(old, next))
         /\ mergeJob(mergeJob(old, next), next) = mergeJob(old, next)
<1>1. PICK sheets : sheets = maxIntPtr(old.sheets, next.sheets)
  OBVIOUS
<1>2. /\ sheets \in Nat \cup {Unknown}
      /\ old.sheets # Unknown => sheets # Unknown /\ sheets >= old.sheets
      /\ maxIntPtr(sheets, next.sheets) = sheets
  BY <1>1, MaxIntPtrEffect DEF JobRows, Snapshots
<1>3. PICK new : new = mergeJob(old, next)
  OBVIOUS
<1>4. new.sheets = sheets
  BY <1>1, <1>3 DEF mergeJob
<1>5. new \in JobRows
  BY <1>1, <1>2, <1>3 DEF mergeJob, JobRows, Snapshots, FirstKnown, MaxNat
<1>6. FactsKept(old, new)
  BY <1>1, <1>2, <1>3 DEF mergeJob, JobRows, Snapshots, FirstKnown, MaxNat, FactsKept
<1>7. mergeJob(new, next) = new
  BY <1>1, <1>2, <1>3 DEF mergeJob, JobRows, Snapshots, FirstKnown, MaxNat
<1> QED
  BY <1>3, <1>5, <1>6, <1>7

\* Growth of facts is transitive, so that what holds of one merge holds of a
\* sequence of them.
LEMMA GrowthIsTransitive ==
  ASSUME NEW a \in JobRows, NEW b \in JobRows, NEW c \in JobRows,
         FactsGrow(a, b), FactsGrow(b, c)
  PROVE  FactsGrow(a, c)
<1>1. FactsKept(a, c)
  BY UnknownAssumption DEF JobRows, FactsGrow, FactsKept
<1>2. LaterOnly(a, c)
  BY DEF JobRows, FactsGrow, FactsKept, LaterOnly
<1> QED
  BY <1>1, <1>2 DEF FactsGrow

\* The tables that records change.
Databases ==
  [actions : SUBSET Nat, actionCount : [Days -> Int],
   checkpoints : [JobIDs -> JobRows \cup {NoJob}], jobs : [JobIDs -> JobRows \cup {NoJob}],
   rollups : [Days -> [DOMAIN EmptyRollup -> Int]],
   settings : [Days -> [SettingKeys -> Int]],
   cpuCursor : Nat, cpuDaily : [Days -> Int]]

\* A stored job has no fields like the mark of a missing one.
LEMMA NoJobIsNone == NoJob \notin JobRows
  BY UnknownAssumption DEF NoJob, JobRows

\* A negative counter is not stored.
LEMMA DropNegativeEffect ==
  /\ \A j \in JobRows : DropNegative(j) = j
  /\ \A n \in Snapshots : /\ DropNegative(n) \in JobRows
                           /\ mergeJob(DropNegative(n), n) = DropNegative(n)
<1>1. ASSUME NEW j \in JobRows PROVE DropNegative(j) = j
  BY UnknownAssumption DEF JobRows, DropNegative
<1>2. ASSUME NEW n \in Snapshots
      PROVE  /\ DropNegative(n) \in JobRows
             /\ mergeJob(DropNegative(n), n) = DropNegative(n)
  <2>1. PICK sheets : sheets = IF n.sheets # Unknown /\ n.sheets < 0 THEN Unknown ELSE n.sheets
    OBVIOUS
  <2>2. sheets \in Nat \cup {Unknown} /\ maxIntPtr(sheets, n.sheets) = sheets
    BY <2>1, UnknownAssumption DEF Snapshots, maxIntPtr
  <2>3. DropNegative(n) = [n EXCEPT !.sheets = sheets]
    BY <2>1 DEF DropNegative
  <2>4. DropNegative(n) \in JobRows
    BY <2>2, <2>3 DEF Snapshots, JobRows
  <2>5. mergeJob(DropNegative(n), n) = DropNegative(n)
    BY <2>2, <2>3 DEF Snapshots, mergeJob, FirstKnown, MaxNat
  <2> QED
    BY <2>4, <2>5
<1> QED
  BY <1>1, <1>2

\* What a job contributes to the totals are numbers.
LEMMA ContributionType ==
  ASSUME NEW j \in JobRows, NEW c \in DOMAIN EmptyRollup
  PROVE  contribution(j)[c] \in Nat
  BY UnknownAssumption DEF contribution, JobRows, EmptyRollup, SumColumns, boolInt

\* A known job's snapshot that is already merged adds nothing to its day.
LEMMA SameDelta ==
  ASSUME NEW j \in JobRows, NEW row \in [DOMAIN EmptyRollup -> Int]
  PROVE  /\ AddToRollup(row, Delta(TRUE, j, j)) \in [DOMAIN EmptyRollup -> Int]
         /\ (\A c \in DOMAIN EmptyRollup \ SumColumns : row[c] >= contribution(j)[c])
              => AddToRollup(row, Delta(TRUE, j, j)) = row
<1>1. PICK k : k = contribution(j)
  OBVIOUS
<1>2. \A c \in DOMAIN EmptyRollup : k[c] \in Int
  BY <1>1, ContributionType
<1>3. \A c \in DOMAIN EmptyRollup :
         Delta(TRUE, j, j)[c] = IF c \in SumColumns THEN 0 ELSE k[c]
  BY <1>1, <1>2 DEF Delta
<1>4. PICK d : d = Delta(TRUE, j, j)
  OBVIOUS
<1>5. \A c \in DOMAIN EmptyRollup :
         /\ AddToRollup(row, d)[c] \in Int
         /\ (row[c] >= k[c] \/ c \in SumColumns) => AddToRollup(row, d)[c] = row[c]
  <2> SUFFICES ASSUME NEW c \in DOMAIN EmptyRollup
               PROVE  /\ AddToRollup(row, d)[c] \in Int
                      /\ (row[c] >= k[c] \/ c \in SumColumns)
                           => AddToRollup(row, d)[c] = row[c]
    OBVIOUS
  <2>1. row[c] \in Int /\ k[c] \in Int
    BY <1>2
  <2>2. CASE c \in SumColumns
    <3>1. AddToRollup(row, d)[c] = row[c] + 0
      BY <1>3, <1>4, <2>2 DEF AddToRollup
    <3> QED
      BY <2>1, <3>1
  <2>3. CASE c \notin SumColumns
    <3>1. AddToRollup(row, d)[c] = MaxNat(row[c], k[c])
      BY <1>3, <1>4, <2>3 DEF AddToRollup
    <3> QED
      BY <2>1, <2>3, <3>1 DEF MaxNat
  <2> QED
    BY <2>2, <2>3
<1>6. AddToRollup(row, d) = [c \in DOMAIN EmptyRollup |-> AddToRollup(row, d)[c]]
  BY DEF AddToRollup
<1> QED
  BY <1>1, <1>4, <1>5, <1>6

\* A snapshot's own contribution is below the maxima it was added to.
LEMMA AddedMaxima ==
  ASSUME NEW j \in JobRows, NEW old, NEW known \in BOOLEAN,
         known => old \in JobRows,
         NEW row \in [DOMAIN EmptyRollup -> Int]
  PROVE  LET new == AddToRollup(row, Delta(known, old, j))
         IN  /\ new \in [DOMAIN EmptyRollup -> Int]
             /\ \A c \in DOMAIN EmptyRollup \ SumColumns : new[c] >= contribution(j)[c]
<1>1. PICK k : k = contribution(j)
  OBVIOUS
<1>2. PICK l : l = contribution(old)
  OBVIOUS
<1>3. \A c \in DOMAIN EmptyRollup : k[c] \in Int /\ (known => l[c] \in Int)
  BY <1>1, <1>2, ContributionType
<1>4. PICK d : d = Delta(known, old, j)
  OBVIOUS
<1>5. \A c \in DOMAIN EmptyRollup :
         /\ d[c] \in Int
         /\ c \notin SumColumns => d[c] = k[c]
  BY <1>1, <1>2, <1>3, <1>4 DEF Delta
<1>6. PICK new : new = AddToRollup(row, d)
  OBVIOUS
<1>7. \A c \in DOMAIN EmptyRollup :
         /\ new[c] \in Int
         /\ c \notin SumColumns => new[c] >= k[c]
  BY <1>3, <1>5, <1>6 DEF AddToRollup, MaxNat
<1>8. new = [c \in DOMAIN EmptyRollup |-> new[c]]
  BY <1>6 DEF AddToRollup
<1> QED
  BY <1>1, <1>4, <1>6, <1>7, <1>8

\* Moving a job from a setting to the same setting changes no count.
LEMMA SameSetting ==
  ASSUME NEW row \in [SettingKeys -> Int], NEW j \in JobRows, NEW n \in Int
  PROVE  /\ settingContribution(row, j, n) \in [SettingKeys -> Int]
         /\ settingContribution(settingContribution(row, j, -1), j, 1) = row
<1>1. j.route \in SettingKeys
  BY DEF JobRows
<1>2. settingContribution(row, j, n) \in [SettingKeys -> Int]
  BY <1>1 DEF settingContribution
<1>3. PICK m : m = [row EXCEPT ![j.route] = @ + (-1)]
  OBVIOUS
<1>4. /\ m \in [SettingKeys -> Int] /\ m[j.route] = row[j.route] - 1
      /\ \A k \in SettingKeys \ {j.route} : m[k] = row[k]
  BY <1>1, <1>3
<1>5. m[j.route] + 1 = row[j.route]
  BY <1>1, <1>4
<1>6. [m EXCEPT ![j.route] = @ + 1] = row
  BY <1>1, <1>4, <1>5
<1> QED
  BY <1>2, <1>3, <1>6 DEF settingContribution

\* A snapshot that is written again changes nothing.
LEMMA JobAgain ==
  ASSUME NEW d \in Databases, NEW id \in JobIDs, NEW register \in BOOLEAN,
         NEW snap \in Snapshots, NEW day \in Days, NEW retained \in BOOLEAN
  PROVE  persistJob(persistJob(d, id, register, snap, day, retained),
                    id, register, snap, day, retained)
           = persistJob(d, id, register, snap, day, retained)
<1> DEFINE known == d.checkpoints[id] # NoJob
           old   == d.checkpoints[id]
           next  == DropNegative(IF known THEN mergeJob(old, snap) ELSE snap)
           moved == IF known THEN settingContribution(d.settings[day], old, -1)
                    ELSE d.settings[day]
           row   == IF retained THEN AddToRollup(d.rollups[day], Delta(known, old, next))
                    ELSE d.rollups[day]
           set   == IF retained THEN settingContribution(moved, next, 1)
                    ELSE d.settings[day]
           e     == [d EXCEPT !.checkpoints[id] = next, !.jobs[id] = next,
                              !.rollups[day] = row, !.settings[day] = set]
<1>1. CASE ~known /\ ~register
  BY <1>1 DEF persistJob
<1>2. CASE known \/ register
  <2>1. /\ d.checkpoints \in [JobIDs -> JobRows \cup {NoJob}]
        /\ d.rollups \in [Days -> [DOMAIN EmptyRollup -> Int]]
        /\ d.settings \in [Days -> [SettingKeys -> Int]]
    BY DEF Databases
  <2>2. /\ known => old \in JobRows
        /\ next \in JobRows /\ mergeJob(next, snap) = next
    BY <2>1, MergeEffect, DropNegativeEffect
  <2>3. DropNegative(next) = next /\ next # NoJob
    BY <2>2, DropNegativeEffect, NoJobIsNone
  <2>4. /\ row \in [DOMAIN EmptyRollup -> Int]
        /\ retained => AddToRollup(row, Delta(TRUE, next, next)) = row
    <3>1. CASE retained
      <4>1. PICK r \in [DOMAIN EmptyRollup -> Int] : r = d.rollups[day]
        BY <2>1
      <4>2. PICK k \in BOOLEAN : k = known
        OBVIOUS
      <4>3. PICK j \in JobRows : j = next
        BY <2>2
      <4>4. PICK o : o = old
        OBVIOUS
      <4>5. PICK new : new = AddToRollup(r, Delta(k, o, j))
        OBVIOUS
      <4>6. /\ new \in [DOMAIN EmptyRollup -> Int]
            /\ \A c \in DOMAIN EmptyRollup \ SumColumns : new[c] >= contribution(j)[c]
        BY <2>2, <4>2, <4>4, <4>5, AddedMaxima
      <4>7. AddToRollup(new, Delta(TRUE, j, j)) = new
        BY <4>6, SameDelta
      <4>8. row = new
        BY <3>1, <4>1, <4>2, <4>3, <4>4, <4>5
      <4> QED
        BY <4>3, <4>6, <4>7, <4>8
    <3>2. CASE ~retained
      BY <2>1, <3>2
    <3> QED
      BY <3>1, <3>2
  <2>5. /\ set \in [SettingKeys -> Int]
        /\ settingContribution(settingContribution(set, next, -1), next, 1) = set
    <3>1. d.settings[day] \in [SettingKeys -> Int] /\ -1 \in Int /\ 1 \in Int
      BY <2>1
    <3>2. moved \in [SettingKeys -> Int]
      <4>1. CASE known
        BY <2>2, <3>1, <4>1, SameSetting
      <4>2. CASE ~known
        BY <3>1, <4>2
      <4> QED
        BY <4>1, <4>2
    <3> HIDE DEF moved, next
    <3>3. set \in [SettingKeys -> Int]
      BY <2>2, <3>1, <3>2, SameSetting
    <3> HIDE DEF set
    <3> QED
      BY <2>2, <3>1, <3>3, SameSetting
  <2>6. persistJob(d, id, register, snap, day, retained) = e
    BY <1>2 DEF persistJob
  <2> HIDE DEF next, row, set
  <2>7. /\ e \in Databases
        /\ e.checkpoints[id] = next /\ e.jobs[id] = next
        /\ e.rollups[day] = row /\ e.settings[day] = set
    BY <2>2, <2>4, <2>5 DEF Databases
  <2> HIDE DEF e
  <2>8. persistJob(e, id, register, snap, day, retained)
          = [e EXCEPT !.checkpoints[id] = next, !.jobs[id] = next,
                      !.rollups[day] = row, !.settings[day] = set]
    BY <2>2, <2>3, <2>4, <2>5, <2>7 DEF persistJob
  <2>9. [e EXCEPT !.checkpoints[id] = next, !.jobs[id] = next,
                  !.rollups[day] = row, !.settings[day] = set] = e
    <3>1. /\ [e.checkpoints EXCEPT ![id] = next] = e.checkpoints
          /\ [e.jobs EXCEPT ![id] = next] = e.jobs
          /\ [e.rollups EXCEPT ![day] = row] = e.rollups
          /\ [e.settings EXCEPT ![day] = set] = e.settings
      BY <2>7 DEF Databases
    <3> QED
      BY <2>7, <3>1 DEF Databases
  <2> QED
    BY <2>6, <2>8, <2>9
<1> QED
  BY <1>1, <1>2

-----------------------------------------------------------------------------
(* The days.                                                                *)

\* The first instant of today.
Dawn == today * DayLength

ClockOK ==
  /\ made \in 0..MaxRecords /\ today \in Days
  /\ registered \in [JobIDs -> (0..Now) \cup {Unknown}]

\* The day of an instant: the past is not after today, and what happened since
\* midnight happened today.
LEMMA DayFacts ==
  ASSUME ClockOK
  PROVE  /\ DayLength \in Nat \ {0} /\ Now \in Nat /\ Dawn \in Nat /\ today \in Nat
         /\ Dawn <= Now /\ Now < Dawn + DayLength
         /\ \A t \in Nat : t <= Now => dayString(t) \in Days /\ dayString(t) <= today
         /\ \A t \in Nat : t < Dawn + DayLength => dayString(t) \in Days
         /\ IsFiniteSet(Days)
<1>1. made \in Nat /\ made <= MaxRecords /\ today \in Nat /\ today <= LastDay
      /\ MaxRecords \in Nat /\ LastDay \in Nat
  BY SizesAssumption DEF ClockOK, Days
<1>2. DayLength \in Nat \ {0} /\ made < DayLength
  BY <1>1 DEF DayLength
<1>3. PICK n \in Nat \ {0} : n = DayLength
  BY <1>2
<1>4. today * n \in Nat
  BY <1>1, <1>3
<1>5. /\ Now \in Nat /\ Dawn \in Nat /\ Dawn <= Now /\ Now < Dawn + DayLength
      /\ Dawn = n * today
  BY <1>1, <1>2, <1>3, <1>4 DEF Now, Dawn
<1>6. ASSUME NEW t \in Nat, t < Dawn + DayLength
      PROVE  dayString(t) \in Nat /\ dayString(t) <= today
  <2>1. PICK q \in Int : q = t \div n /\ n * q <= t /\ t < n * q + n
    BY DivBounds
  <2>2. q >= 0
    <3>1. CASE q < 0
      <4>1. q + 1 <= 0
        BY <3>1
      <4>2. n * (q + 1) <= n * 0
        BY <4>1
      <4>3. n * (q + 1) = n * q + n
        OBVIOUS
      <4> QED
        BY <2>1, <4>2, <4>3
    <3> QED
      BY <3>1
  <2>3. q <= today
    <3>1. CASE today < q
      <4>1. today + 1 <= q
        BY <1>1, <3>1
      <4>2. n * (today + 1) <= n * q
        BY <1>1, <4>1
      <4>3. n * (today + 1) = n * today + n
        BY <1>1
      <4> QED
        BY <1>3, <1>4, <1>5, <1>6, <2>1, <4>2, <4>3
    <3> QED
      BY <1>1, <3>1
  <2> QED
    BY <1>3, <2>1, <2>2, <2>3 DEF dayString
<1>7. IsFiniteSet(Days)
  <2>1. PICK a \in Int : a = 0
    OBVIOUS
  <2>2. PICK b \in Int : b = LastDay
    BY <1>1
  <2>3. IsFiniteSet(a..b)
    BY FS_Interval
  <2> QED
    BY <2>1, <2>2, <2>3 DEF Days
<1>8. \A t \in Nat : t < Dawn + DayLength => dayString(t) \in Days /\ dayString(t) <= today
  BY <1>1, <1>6 DEF Days
<1>9. \A t \in Nat : t <= Now => t < Dawn + DayLength
  BY <1>2, <1>5
<1> QED
  BY <1>1, <1>2, <1>5, <1>7, <1>8, <1>9

\* Cleanup and persistJob agree on the days that are kept.
LEMMA SameDays ==
  ASSUME ClockOK, NEW day \in Days
  PROVE  /\ retainRollup(day) \in BOOLEAN /\ retainRollup(day) <=> KeptDay(day)
         /\ cutoffDay \in Int
<1>1. /\ DayLength \in Nat \ {0} /\ Now \in Nat /\ RollupRetention \in Nat /\ day \in Int
  BY DayFacts, SizesAssumption DEF Days
<1>2. PICK t \in Int : t = Now - RollupRetention
  BY <1>1
<1>3. cutoffDay \in Int
  BY <1>1, <1>2, DivBounds DEF cutoffDay, dayString
<1> QED
  BY <1>1, <1>3 DEF retainRollup, KeptDay

\* Later instants have a later cutoff.
LEMMA CutoffMoves ==
  ASSUME NEW a \in Nat, NEW b \in Nat, a <= b
  PROVE  /\ (a - RollupRetention) \div DayLength \in Int
         /\ (b - RollupRetention) \div DayLength \in Int
         /\ (a - RollupRetention) \div DayLength <= (b - RollupRetention) \div DayLength
<1>1. DayLength \in Nat \ {0} /\ RollupRetention \in Nat
  BY SizesAssumption DEF DayLength
<1>2. PICK n \in Nat \ {0} : n = DayLength
  BY <1>1
<1>3. PICK s \in Int : s = a - RollupRetention
  BY <1>1
<1>4. PICK t \in Int : t = b - RollupRetention
  BY <1>1
<1>5. s <= t
  BY <1>1, <1>3, <1>4
<1> QED
  BY <1>2, <1>3, <1>4, <1>5, DivMonotone, DivBounds

\* Once a day is not kept it is never kept again.
LEMMA KeptBefore ==
  ASSUME NEW day \in Days, NEW a \in Nat, NEW b \in Nat, a <= b, Now = a, Now' = b
  PROVE  KeptDay(day)' => KeptDay(day)
<1>1. RollupRetention \in Nat /\ day \in Int
  BY SizesAssumption DEF Days
<1>2. PICK p \in Int : p = (a - RollupRetention) \div DayLength
  BY CutoffMoves
<1>3. PICK q \in Int : q = (b - RollupRetention) \div DayLength
  BY CutoffMoves
<1>4. p <= q
  BY <1>2, <1>3, CutoffMoves
<1>5. cutoffDay = p
  BY <1>2 DEF cutoffDay, dayString
<1>6. cutoffDay' = q
  BY <1>3 DEF cutoffDay, dayString, DayLength
<1>7. KeptDay(day) <=> ~(RollupRetention > 0 /\ day < p)
  BY <1>5 DEF KeptDay
<1>8. KeptDay(day)' <=> ~(RollupRetention > 0 /\ day < q)
  BY <1>6 DEF KeptDay
<1> HIDE DEF KeptDay
<1>9. (RollupRetention > 0 /\ day < p) => (RollupRetention > 0 /\ day < q)
  BY <1>1, <1>4
<1> QED
  BY <1>7, <1>8, <1>9

-----------------------------------------------------------------------------
(* The totals of a set of jobs.                                             *)

\* The columns are those that are sums and one that is a maximum.
LEMMA Columns ==
  /\ DOMAIN EmptyRollup = SumColumns \cup {"completion_max_ns"}
  /\ "completion_max_ns" \notin SumColumns
  BY DEF EmptyRollup, SumColumns

\* A part is not larger than the total.
LEMMA PartOfTotal ==
  ASSUME NEW D, IsFiniteSet(D), NEW f \in [D -> Nat], NEW x \in D
  PROVE  f[x] <= Total(f)
<1>1. PICK g \in [D \ {x} -> Nat] : g = [y \in D \ {x} |-> f[y]]
  OBVIOUS
<1>2. Total(g) \in Nat
  BY <1>1, FS_Subset, TotalType
<1>3. Total(f) = Total(g) + f[x]
  BY <1>1, TotalSplit
<1>4. f[x] \in Nat
  OBVIOUS
<1> QED
  BY <1>2, <1>3, <1>4

\* The largest of finitely many numbers is one of them and not below any.
LEMMA GreatestOf ==
  ASSUME NEW D, IsFiniteSet(D), NEW f \in [D -> Nat], NEW S, S = {0} \cup {f[x] : x \in D}
  PROVE  Max(S) \in Nat /\ Max(S) \in S /\ \A y \in S : y <= Max(S)
<1>1. PICK U : U = {n \in Nat : \A y \in S : y <= n}
  OBVIOUS
<1>2. S \subseteq Nat /\ 0 \in S
  <2>1. \A x \in D : f[x] \in Nat
    OBVIOUS
  <2>2. 0 \in Nat
    OBVIOUS
  <2> QED
    BY <2>1, <2>2, Zenon
<1>3. Total(f) \in U
  <2>1. Total(f) \in Nat
    BY TotalType
  <2>2. \A x \in D : f[x] <= Total(f)
    BY PartOfTotal
  <2>3. 0 <= Total(f)
    BY <2>1
  <2>4. \A y \in S : y <= Total(f)
    <3> TAKE y \in S
    <3>1. y = 0 \/ \E x \in D : y = f[x]
      OBVIOUS
    <3> QED
      BY <2>2, <2>3, <3>1
  <2> QED
    BY <1>1, <2>1, <2>4
<1>4. PICK m \in U : \A n \in U : m <= n
  <2>1. U \in SUBSET Nat /\ U # {}
    BY <1>1, <1>3
  <2> QED
    BY <2>1, LeastNat
<1>5. m \in Nat /\ \A y \in S : y <= m
  BY <1>1
<1>6. m \in S
  <2> SUFFICES ASSUME m \notin S PROVE FALSE
    OBVIOUS
  <2>1. m # 0 /\ m - 1 \in Nat
    BY <1>2, <1>5
  <2>2. \A y \in S : y <= m - 1
    BY <1>2, <1>5
  <2>3. m - 1 \in U
    BY <1>1, <2>1, <2>2
  <2>4. m <= m - 1
    BY <1>4, <2>3
  <2> QED
    BY <1>5, <2>4
<1>7. \E x \in S : \A y \in S : x >= y
  BY <1>2, <1>5, <1>6
<1>8. Max(S) \in S /\ \A y \in S : Max(S) >= y
  BY <1>7 DEF Max
<1> QED
  BY <1>2, <1>8

\* and only the largest one is.
LEMMA MaxIs ==
  ASSUME NEW S, S \subseteq Nat, NEW m \in S, \A y \in S : y <= m
  PROVE  Max(S) = m
<1>1. Max(S) \in S /\ \A y \in S : Max(S) >= y
  BY DEF Max
<1>2. Max(S) \in Nat /\ m \in Nat /\ Max(S) >= m /\ Max(S) <= m
  BY <1>1
<1> QED
  BY <1>2

\* Jobs of one day, and the same jobs after id was added or changed.
JobSet(jobs) == /\ jobs = [j \in DOMAIN jobs |-> jobs[j]] /\ DOMAIN jobs \subseteq JobIDs
                /\ \A j \in DOMAIN jobs : jobs[j] \in JobRows

With(jobs, id, next) ==
  [j \in DOMAIN jobs \cup {id} |-> IF j = id THEN next ELSE jobs[j]]

\* The jobs of a day are finitely many.
LEMMA JobSetFinite ==
  ASSUME NEW jobs, JobSet(jobs)
  PROVE  IsFiniteSet(DOMAIN jobs)
  BY JobsAssumption, FS_Subset DEF JobSet

\* Adding or changing a job leaves a set of jobs.
LEMMA WithType ==
  ASSUME NEW jobs, JobSet(jobs), NEW id \in JobIDs, NEW next \in JobRows
  PROVE  /\ JobSet(With(jobs, id, next))
         /\ DOMAIN With(jobs, id, next) = DOMAIN jobs \cup {id}
         /\ With(jobs, id, next)[id] = next
         /\ \A j \in DOMAIN jobs \ {id} : With(jobs, id, next)[j] = jobs[j]
  BY DEF JobSet, With

\* The sum of a column changes by what the job contributes more than before.
LEMMA SumOverWith ==
  ASSUME NEW jobs, JobSet(jobs), NEW id \in JobIDs, NEW next \in JobRows,
         NEW c \in SumColumns
  PROVE  /\ SumOver(jobs, c) \in Nat /\ SumOver(With(jobs, id, next), c) \in Nat
         /\ id \in DOMAIN jobs =>
              SumOver(With(jobs, id, next), c)
                = SumOver(jobs, c) + (contribution(next)[c] - contribution(jobs[id])[c])
         /\ id \notin DOMAIN jobs =>
              SumOver(With(jobs, id, next), c) = SumOver(jobs, c) + contribution(next)[c]
<1>1. PICK new : new = With(jobs, id, next)
  OBVIOUS
<1>2. /\ JobSet(new) /\ DOMAIN new = DOMAIN jobs \cup {id} /\ new[id] = next
      /\ \A j \in DOMAIN jobs \ {id} : new[j] = jobs[j]
  BY <1>1, WithType
<1>3. IsFiniteSet(DOMAIN jobs) /\ IsFiniteSet(DOMAIN new)
  BY <1>2, JobSetFinite
<1>4. c \in DOMAIN EmptyRollup
  BY Columns
<1>5. PICK f : f = [j \in DOMAIN jobs |-> contribution(jobs[j])[c]]
  OBVIOUS
<1>6. PICK g : g = [j \in DOMAIN new |-> contribution(new[j])[c]]
  OBVIOUS
<1>7. f \in [DOMAIN jobs -> Nat]
  BY <1>4, <1>5, ContributionType DEF JobSet
<1>8. g \in [DOMAIN new -> Nat]
  BY <1>2, <1>4, <1>6, ContributionType DEF JobSet
<1>9. SumOver(jobs, c) = Total(f) /\ SumOver(new, c) = Total(g)
  BY <1>5, <1>6 DEF SumOver
<1>10. Total(f) \in Nat /\ Total(g) \in Nat
  BY <1>3, <1>7, <1>8, TotalType
<1>11. /\ g[id] = contribution(next)[c] /\ g[id] \in Nat
       /\ \A j \in DOMAIN jobs \ {id} : g[j] = f[j]
  BY <1>2, <1>5, <1>6, <1>8
<1>12. ASSUME id \in DOMAIN jobs
       PROVE  Total(g) = Total(f) + (contribution(next)[c] - contribution(jobs[id])[c])
  <2>1. DOMAIN new = DOMAIN jobs
    BY <1>2, <1>12
  <2>2. Total(g) = Total(f) + (g[id] - f[id])
    BY <1>3, <1>7, <1>8, <1>11, <1>12, <2>1, TotalChange
  <2>3. f[id] = contribution(jobs[id])[c]
    BY <1>5, <1>12
  <2> QED
    BY <1>11, <2>2, <2>3
<1>13. ASSUME id \notin DOMAIN jobs
       PROVE  Total(g) = Total(f) + contribution(next)[c]
  <2>1. DOMAIN new \ {id} = DOMAIN jobs /\ id \in DOMAIN new
    BY <1>2, <1>13
  <2>2. Total(g) = Total([j \in DOMAIN new \ {id} |-> g[j]]) + g[id]
    BY <1>3, <1>8, <2>1, TotalSplit
  <2>3. [j \in DOMAIN new \ {id} |-> g[j]] = f
    BY <1>7, <1>11, <1>13, <2>1
  <2> QED
    BY <1>11, <2>2, <2>3
<1> QED
  BY <1>1, <1>9, <1>10, <1>12, <1>13

\* The largest latency does not shrink.
LEMMA MaxOverWith ==
  ASSUME NEW jobs, JobSet(jobs), NEW id \in JobIDs, NEW next \in JobRows,
         NEW c \in DOMAIN EmptyRollup,
         id \in DOMAIN jobs => contribution(next)[c] >= contribution(jobs[id])[c]
  PROVE  LET m(t) == Max({0} \cup {contribution(t[j])[c] : j \in DOMAIN t})
         IN  /\ m(jobs) \in Nat
             /\ m(With(jobs, id, next)) = MaxNat(m(jobs), contribution(next)[c])
<1>1. PICK new : new = With(jobs, id, next)
  OBVIOUS
<1>2. /\ JobSet(new) /\ DOMAIN new = DOMAIN jobs \cup {id} /\ new[id] = next
      /\ \A j \in DOMAIN jobs \ {id} : new[j] = jobs[j]
  <2>1. JobSet(With(jobs, id, next))
    BY WithType
  <2>2. /\ DOMAIN new = DOMAIN jobs \cup {id} /\ new[id] = next
        /\ \A j \in DOMAIN jobs \ {id} : new[j] = jobs[j]
    BY <1>1 DEF With
  <2> QED
    BY <1>1, <2>1, <2>2
<1>3. IsFiniteSet(DOMAIN jobs) /\ IsFiniteSet(DOMAIN new)
  BY <1>2, JobSetFinite
<1>4. PICK f : f = [j \in DOMAIN jobs |-> contribution(jobs[j])[c]]
  OBVIOUS
<1>5. f \in [DOMAIN jobs -> Nat]
  BY <1>4, ContributionType DEF JobSet
<1>6. PICK n \in Nat : n = contribution(next)[c]
  BY ContributionType
<1>7. PICK S : S = {0} \cup {f[j] : j \in DOMAIN jobs}
  OBVIOUS
<1>8. S = {0} \cup {contribution(jobs[j])[c] : j \in DOMAIN jobs}
  BY <1>4, <1>7
<1>9. PICK m \in Nat : m = Max(S) /\ m \in S /\ \A y \in S : y <= m
  <2>1. Max(S) \in Nat /\ Max(S) \in S /\ \A y \in S : y <= Max(S)
    BY <1>3, <1>5, <1>7, GreatestOf
  <2> QED
    BY <2>1, Zenon
<1>10. PICK T : T = {0} \cup {contribution(new[j])[c] : j \in DOMAIN new}
  OBVIOUS
<1>11. T \subseteq S \cup {n} /\ n \in T /\ 0 \in T
  <2>1. \A j \in DOMAIN new : contribution(new[j])[c] \in S \cup {n}
    BY <1>2, <1>6, <1>8
  <2> QED
    BY <1>2, <1>6, <1>7, <1>10, <2>1
<1>12. \A j \in DOMAIN jobs \ {id} : f[j] \in T
  BY <1>2, <1>4, <1>10
<1>13. S \subseteq Nat
  BY <1>5, <1>7
<1>14. CASE n >= m
  <2>1. \A y \in T : y <= n
    BY <1>9, <1>11, <1>13, <1>14
  <2>2. T \subseteq Nat
    BY <1>11, <1>13
  <2>3. Max(T) = n
    BY <1>11, <2>1, <2>2, MaxIs
  <2> QED
    BY <1>1, <1>6, <1>8, <1>9, <1>10, <1>14, <2>3 DEF MaxNat
<1>15. CASE ~(n >= m)
  <2>1. m # 0
    BY <1>15
  <2>2. PICK j \in DOMAIN jobs : f[j] = m
    BY <1>7, <1>9, <2>1
  <2>3. j # id
    BY <1>4, <1>6, <1>15, <2>2
  <2>4. m \in T
    BY <1>12, <2>2, <2>3
  <2>5. \A y \in T : y <= m
    BY <1>9, <1>11, <1>13, <1>15
  <2>6. T \subseteq Nat
    BY <1>11, <1>13
  <2>7. Max(T) = m
    BY <2>4, <2>5, <2>6, MaxIs
  <2>8. ~(m >= n) => FALSE
    BY <1>15
  <2> QED
    BY <1>1, <1>6, <1>8, <1>9, <1>10, <1>15, <2>7 DEF MaxNat
<1> QED
  BY <1>14, <1>15

\* persistJob adds to a row what makes it the totals of the jobs with the new
\* state of this one.
LEMMA TotalsWith ==
  ASSUME NEW jobs, JobSet(jobs), NEW id \in JobIDs, NEW next \in JobRows,
         NEW old, NEW known \in BOOLEAN,
         known <=> id \in DOMAIN jobs, known => old = jobs[id],
         known => contribution(next)["completion_max_ns"]
                    >= contribution(old)["completion_max_ns"]
  PROVE  /\ TotalsOf(jobs) \in [DOMAIN EmptyRollup -> Nat]
         /\ TotalsOf(With(jobs, id, next)) \in [DOMAIN EmptyRollup -> Nat]
         /\ AddToRollup(TotalsOf(jobs), Delta(known, old, next))
              = TotalsOf(With(jobs, id, next))
<1>1. PICK new : new = With(jobs, id, next)
  OBVIOUS
<1>2. PICK row : row = TotalsOf(jobs)
  OBVIOUS
<1>3. PICK res : res = TotalsOf(new)
  OBVIOUS
<1>4. PICK k : k = contribution(next)
  OBVIOUS
<1>5. PICK l : l = contribution(old)
  OBVIOUS
<1>6. PICK d : d = Delta(known, old, next)
  OBVIOUS
<1>7. PICK add : add = AddToRollup(row, d)
  OBVIOUS
<1>8. ASSUME NEW c \in SumColumns
      PROVE  row[c] \in Nat /\ res[c] \in Nat /\ add[c] = res[c]
  <2>1. c \in DOMAIN EmptyRollup
    BY Columns
  <2>2. row[c] = SumOver(jobs, c) /\ res[c] = SumOver(new, c)
    BY <1>2, <1>3, <2>1 DEF TotalsOf
  <2>3. d[c] = k[c] - (IF known THEN l[c] ELSE 0)
    BY <1>4, <1>5, <1>6, <2>1 DEF Delta
  <2>4. add[c] = row[c] + d[c]
    BY <1>7, <2>1 DEF AddToRollup
  <2>5. k[c] \in Nat
    BY <1>4, <2>1, ContributionType
  <2>6. row[c] \in Nat /\ res[c] \in Nat
    BY <1>1, <2>2, SumOverWith
  <2>7. CASE known
    <3>1. res[c] = row[c] + (k[c] - l[c])
      BY <1>1, <1>4, <1>5, <2>2, <2>7, SumOverWith
    <3> QED
      BY <2>3, <2>4, <2>6, <2>7, <3>1
  <2>8. CASE ~known
    <3>1. res[c] = row[c] + k[c]
      BY <1>1, <1>4, <2>2, <2>8, SumOverWith
    <3>2. d[c] = k[c]
      BY <2>3, <2>5, <2>8
    <3> QED
      BY <2>4, <2>6, <3>1, <3>2
  <2> QED
    BY <2>6, <2>7, <2>8
<1>9. ASSUME NEW c \in {"completion_max_ns"}
      PROVE  row[c] \in Nat /\ res[c] \in Nat /\ add[c] = res[c]
  <2>1. c \in DOMAIN EmptyRollup /\ c \notin SumColumns
    BY Columns
  <2>2. /\ row[c] = Max({0} \cup {contribution(jobs[j])[c] : j \in DOMAIN jobs})
        /\ res[c] = Max({0} \cup {contribution(new[j])[c] : j \in DOMAIN new})
    BY <1>2, <1>3, <2>1 DEF TotalsOf
  <2>3. PICK n \in Nat : n = k[c]
    BY <1>4, <2>1, ContributionType
  <2>4. id \in DOMAIN jobs => contribution(next)[c] >= contribution(jobs[id])[c]
    OBVIOUS
  <2>5. row[c] \in Nat /\ res[c] = MaxNat(row[c], n)
    BY <1>1, <1>4, <2>1, <2>2, <2>3, <2>4, MaxOverWith
  <2>6. d[c] = n - 0
    BY <1>4, <1>6, <2>1, <2>3 DEF Delta
  <2>7. d[c] = n
    BY <2>3, <2>6
  <2>8. add[c] = MaxNat(row[c], n)
    BY <1>7, <2>1, <2>7 DEF AddToRollup
  <2>9. MaxNat(row[c], n) \in Nat
    BY <2>3, <2>5 DEF MaxNat
  <2> QED
    BY <2>5, <2>8, <2>9
<1>10. \A c \in DOMAIN EmptyRollup : row[c] \in Nat /\ res[c] \in Nat /\ add[c] = res[c]
  BY <1>8, <1>9, Columns
<1>11. /\ row = [c \in DOMAIN EmptyRollup |-> row[c]]
       /\ res = [c \in DOMAIN EmptyRollup |-> res[c]]
       /\ add = [c \in DOMAIN EmptyRollup |-> add[c]]
  BY <1>2, <1>3, <1>7 DEF TotalsOf, AddToRollup
<1>12. row \in [DOMAIN EmptyRollup -> Nat] /\ res \in [DOMAIN EmptyRollup -> Nat]
  BY <1>10, <1>11
<1>13. add = res
  BY <1>10, <1>11
<1> QED
  BY <1>1, <1>2, <1>3, <1>6, <1>7, <1>12, <1>13

\* The jobs among S that have setting k.
HaveSetting(jobs, S, k) == {j \in S : jobs[j].route = k}

\* How many jobs have a setting: those other than id, and id if it has it.
LEMMA CountSetting ==
  ASSUME NEW jobs, JobSet(jobs), NEW id, NEW k
  PROVE  \E n \in Nat :
            /\ n = Cardinality(HaveSetting(jobs, DOMAIN jobs \ {id}, k))
            /\ id \in DOMAIN jobs /\ jobs[id].route = k
                 => Cardinality(HaveSetting(jobs, DOMAIN jobs, k)) = n + 1
            /\ ~(id \in DOMAIN jobs /\ jobs[id].route = k)
                 => Cardinality(HaveSetting(jobs, DOMAIN jobs, k)) = n
<1>1. PICK R : R = HaveSetting(jobs, DOMAIN jobs \ {id}, k)
  OBVIOUS
<1>2. PICK A : A = HaveSetting(jobs, DOMAIN jobs, k)
  OBVIOUS
<1>3. IsFiniteSet(R)
  BY <1>1, JobSetFinite, FS_Subset DEF HaveSetting
<1>4. Cardinality(R) \in Nat
  BY <1>3, FS_CardinalityType
<1>5. ASSUME id \in DOMAIN jobs /\ jobs[id].route = k
      PROVE  Cardinality(A) = Cardinality(R) + 1
  <2>1. A = R \cup {id} /\ id \notin R
    BY <1>1, <1>2, <1>5 DEF HaveSetting
  <2> QED
    BY <1>3, <2>1, FS_AddElement
<1>6. ASSUME ~(id \in DOMAIN jobs /\ jobs[id].route = k)
      PROVE  A = R
  BY <1>1, <1>2, <1>6 DEF HaveSetting
<1> QED
  BY <1>1, <1>2, <1>4, <1>5, <1>6

\* persistJob moves a job from its old setting to its new one.
LEMMA SettingsWith ==
  ASSUME NEW jobs, JobSet(jobs), NEW id \in JobIDs, NEW next \in JobRows,
         NEW old, NEW known \in BOOLEAN,
         known <=> id \in DOMAIN jobs, known => old = jobs[id]
  PROVE  LET row   == SettingsOf(jobs)
             moved == IF known THEN settingContribution(row, old, -1) ELSE row
         IN  /\ row \in [SettingKeys -> Nat]
             /\ SettingsOf(With(jobs, id, next)) \in [SettingKeys -> Nat]
             /\ settingContribution(moved, next, 1) = SettingsOf(With(jobs, id, next))
<1>1. PICK new : new = With(jobs, id, next)
  OBVIOUS
<1>2. /\ JobSet(new) /\ DOMAIN new = DOMAIN jobs \cup {id} /\ new[id] = next
      /\ \A j \in DOMAIN jobs \ {id} : new[j] = jobs[j]
  BY <1>1, WithType
<1>3. PICK row : row = SettingsOf(jobs)
  OBVIOUS
<1>4. PICK res : res = SettingsOf(new)
  OBVIOUS
<1>5. PICK moved : moved = IF known THEN settingContribution(row, old, -1) ELSE row
  OBVIOUS
<1>6. PICK add : add = settingContribution(moved, next, 1)
  OBVIOUS
<1>7. PICK rest : rest = [k \in SettingKeys |->
                            Cardinality(HaveSetting(jobs, DOMAIN jobs \ {id}, k))]
  OBVIOUS
<1>8. row = [k \in SettingKeys |-> row[k]] /\ res = [k \in SettingKeys |-> res[k]]
  BY <1>3, <1>4 DEF SettingsOf
<1>9. \A k \in SettingKeys :
        /\ rest[k] \in Nat
        /\ known /\ old.route = k => row[k] = rest[k] + 1
        /\ ~(known /\ old.route = k) => row[k] = rest[k]
  <2> TAKE k \in SettingKeys
  <2>1. row[k] = Cardinality(HaveSetting(jobs, DOMAIN jobs, k))
    BY <1>3 DEF SettingsOf, HaveSetting
  <2>2. rest[k] = Cardinality(HaveSetting(jobs, DOMAIN jobs \ {id}, k))
    BY <1>7
  <2>3. PICK n \in Nat :
            /\ n = Cardinality(HaveSetting(jobs, DOMAIN jobs \ {id}, k))
            /\ id \in DOMAIN jobs /\ jobs[id].route = k
                 => Cardinality(HaveSetting(jobs, DOMAIN jobs, k)) = n + 1
            /\ ~(id \in DOMAIN jobs /\ jobs[id].route = k)
                 => Cardinality(HaveSetting(jobs, DOMAIN jobs, k)) = n
    BY CountSetting
  <2> QED
    BY <2>1, <2>2, <2>3
<1>10. \A k \in SettingKeys :
         /\ next.route = k => res[k] = rest[k] + 1
         /\ next.route # k => res[k] = rest[k]
  <2> TAKE k \in SettingKeys
  <2>1. res[k] = Cardinality(HaveSetting(new, DOMAIN new, k))
    BY <1>4 DEF SettingsOf, HaveSetting
  <2>2. HaveSetting(new, DOMAIN new \ {id}, k)
          = HaveSetting(jobs, DOMAIN jobs \ {id}, k)
    BY <1>2 DEF HaveSetting
  <2>3. rest[k] = Cardinality(HaveSetting(new, DOMAIN new \ {id}, k))
    BY <1>7, <2>2
  <2>4. PICK n \in Nat :
            /\ n = Cardinality(HaveSetting(new, DOMAIN new \ {id}, k))
            /\ id \in DOMAIN new /\ new[id].route = k
                 => Cardinality(HaveSetting(new, DOMAIN new, k)) = n + 1
            /\ ~(id \in DOMAIN new /\ new[id].route = k)
                 => Cardinality(HaveSetting(new, DOMAIN new, k)) = n
    BY <1>2, CountSetting
  <2> QED
    BY <1>2, <2>1, <2>3, <2>4
<1>11. row \in [SettingKeys -> Nat]
  BY <1>8, <1>9
<1>12. res \in [SettingKeys -> Nat]
  BY <1>8, <1>9, <1>10
<1>13. next.route \in SettingKeys /\ (known => old.route \in SettingKeys)
  BY DEF JobSet, JobRows
<1>14. moved = rest
  <2>1. rest \in [SettingKeys -> Nat]
    BY <1>7, <1>9
  <2>2. CASE known
    <3>1. moved = [row EXCEPT ![old.route] = @ + (-1)]
      BY <1>5, <2>2 DEF settingContribution
    <3>2. /\ moved[old.route] = row[old.route] - 1
          /\ \A k \in SettingKeys : k # old.route => moved[k] = row[k]
          /\ moved = [k \in SettingKeys |-> moved[k]]
      BY <1>11, <1>13, <2>2, <3>1
    <3>3. \A k \in SettingKeys : moved[k] = rest[k]
      BY <1>9, <2>2, <3>2
    <3> QED
      BY <2>1, <3>2, <3>3
  <2>3. CASE ~known
    BY <1>5, <1>9, <1>11, <2>1, <2>3
  <2> QED
    BY <2>2, <2>3
<1>15. add = res
  <2>1. rest \in [SettingKeys -> Nat]
    BY <1>7, <1>9
  <2>2. add = [rest EXCEPT ![next.route] = @ + 1]
    BY <1>6, <1>14 DEF settingContribution
  <2>3. \A k \in SettingKeys : add[k] = res[k]
    BY <1>10, <1>13, <2>1, <2>2
  <2>4. add = [k \in SettingKeys |-> add[k]]
    BY <2>1, <2>2
  <2> QED
    BY <1>8, <2>3, <2>4
<1> QED
  BY <1>1, <1>3, <1>4, <1>5, <1>6, <1>11, <1>12, <1>15

\* The jobs that were submitted on a day, as far as they are counted.
JobsOn(led, day) ==
  [j \in {i \in JobIDs : led[i] # NoJob /\ dayString(led[i].created) = day} |-> led[j]]

\* Jobs of a ledger form a set of jobs.
LEMMA JobsOnType ==
  ASSUME NEW led \in [JobIDs -> JobRows \cup {NoJob}], NEW day
  PROVE  JobSet(JobsOn(led, day))
  BY DEF JobSet, JobsOn

\* A change of one job, submitted on day, shows on that day only.
LEMMA JobsOnWith ==
  ASSUME NEW led \in [JobIDs -> JobRows \cup {NoJob}], NEW id \in JobIDs,
         NEW next \in JobRows, NEW day, dayString(next.created) = day,
         NEW new, new[id] = next, \A j \in JobIDs : j # id => new[j] = led[j],
         led[id] # NoJob => led[id].created = next.created
  PROVE  /\ JobsOn(new, day) = With(JobsOn(led, day), id, next)
         /\ \A d : d # day => JobsOn(new, d) = JobsOn(led, d)
         /\ id \in DOMAIN JobsOn(led, day) <=> led[id] # NoJob
         /\ led[id] # NoJob => JobsOn(led, day)[id] = led[id]
<1>2. next # NoJob
  BY NoJobIsNone
<1>3. /\ new[id] = next /\ \A j \in JobIDs : j # id => new[j] = led[j]
  OBVIOUS
<1>4. ASSUME NEW d
      PROVE  /\ DOMAIN JobsOn(new, d) = {i \in JobIDs : new[i] # NoJob
                                                   /\ dayString(new[i].created) = d}
             /\ DOMAIN JobsOn(led, d) = {i \in JobIDs : led[i] # NoJob
                                                   /\ dayString(led[i].created) = d}
             /\ \A j \in DOMAIN JobsOn(new, d) : JobsOn(new, d)[j] = new[j]
             /\ \A j \in DOMAIN JobsOn(led, d) : JobsOn(led, d)[j] = led[j]
  BY DEF JobsOn
<1>5. id \in DOMAIN JobsOn(led, day) <=> led[id] # NoJob
  BY DEF JobsOn
<1>6. led[id] # NoJob => JobsOn(led, day)[id] = led[id]
  BY <1>4, <1>5
<1>7. JobsOn(new, day) = With(JobsOn(led, day), id, next)
  <2>1. {i \in JobIDs : new[i] # NoJob /\ dayString(new[i].created) = day}
          = {i \in JobIDs : led[i] # NoJob /\ dayString(led[i].created) = day} \cup {id}
    BY <1>2, <1>3
  <2>2. \A j \in DOMAIN JobsOn(led, day) \cup {id} :
           new[j] = IF j = id THEN next ELSE JobsOn(led, day)[j]
    BY <1>3, <1>4
  <2> QED
    BY <1>4, <2>1, <2>2 DEF With, JobsOn
<1>8. ASSUME NEW d, d # day PROVE JobsOn(new, d) = JobsOn(led, d)
  <2>1. {i \in JobIDs : new[i] # NoJob /\ dayString(new[i].created) = d}
          = {i \in JobIDs : led[i] # NoJob /\ dayString(led[i].created) = d}
    BY <1>2, <1>3, <1>8
  <2>2. \A j \in {i \in JobIDs : led[i] # NoJob /\ dayString(led[i].created) = d} :
           new[j] = led[j]
    BY <1>3, <1>8
  <2> QED
    BY <2>1, <2>2 DEF JobsOn
<1> QED
  BY <1>5, <1>6, <1>7, <1>8

\* What is stored of the jobs: the checkpoints are the last merged states, a job
\* without an outcome has one, and the totals of a kept day are those of its jobs.
JobBooks(d, led) ==
  /\ led \in [JobIDs -> JobRows \cup {NoJob}]
  /\ \A j \in JobIDs :
       /\ d.checkpoints[j] # NoJob => led[j] = d.checkpoints[j]
       /\ led[j] # NoJob => led[j].created = registered[j] /\ led[j].created <= led[j].updated
       /\ led[j] # NoJob /\ jobOutcome(led[j]) = "unresolved" => d.checkpoints[j] = led[j]
  /\ \A day \in Days : KeptDay(day) =>
       /\ d.rollups[day] = TotalsOf(JobsOn(led, day))
       /\ d.settings[day] = SettingsOf(JobsOn(led, day))

\* The tables, with no total below zero.
Tables ==
  [actions : SUBSET Nat, actionCount : [Days -> Nat],
   checkpoints : [JobIDs -> JobRows \cup {NoJob}], jobs : [JobIDs -> JobRows \cup {NoJob}],
   rollups : [Days -> [DOMAIN EmptyRollup -> Nat]],
   settings : [Days -> [SettingKeys -> Nat]],
   cpuCursor : Nat, cpuDaily : [Days -> Nat]]

\* A job's latency, once known, stays what it is.
LEMMA LatencyGrows ==
  ASSUME NEW a \in JobRows, NEW b \in JobRows, FactsKept(a, b)
  PROVE  contribution(b)["completion_max_ns"] >= contribution(a)["completion_max_ns"]
<1>1. /\ a.created \in Nat /\ b.created = a.created
      /\ a.terminalAt \in Nat \cup {Unknown} /\ b.terminalAt \in Nat \cup {Unknown}
      /\ a.terminalAt # Unknown => b.terminalAt = a.terminalAt
  BY DEF JobRows, FactsKept
<1>2. PICK l : l = IF a.terminalAt # Unknown /\ a.terminalAt >= a.created
                   THEN a.terminalAt - a.created ELSE 0
  OBVIOUS
<1>3. PICK m : m = IF b.terminalAt # Unknown /\ b.terminalAt >= b.created
                   THEN b.terminalAt - b.created ELSE 0
  OBVIOUS
<1>4. m >= l
  BY <1>1, <1>2, <1>3
<1>5. contribution(a)["completion_max_ns"] = l /\ contribution(b)["completion_max_ns"] = m
  BY <1>2, <1>3 DEF contribution
<1> QED
  BY <1>4, <1>5

\* Two rows give the same account of what the proxy and the printer said last.
SameWord(a, b) ==
  a.updated = b.updated /\ a.state = b.state /\ a.observed = b.observed

\* The merged state of a job that persistJob stores.
LEMMA NextJob ==
  ASSUME NEW known \in BOOLEAN, NEW old, known => old \in JobRows, NEW snap \in Snapshots,
         snap.created <= snap.updated,
         known => old.created = snap.created /\ old.created <= old.updated
  PROVE  LET next == DropNegative(IF known THEN mergeJob(old, snap) ELSE snap)
         IN  /\ next \in JobRows /\ next.created = snap.created
             /\ next.created <= next.updated
             /\ known => FactsKept(old, next) /\ next = mergeJob(old, snap)
             /\ ~known => SameWord(next, snap)
<1>1. CASE known
  <2>1. PICK o \in JobRows : o = old
    BY <1>1
  <2>2. PICK m \in JobRows : m = mergeJob(o, snap) /\ FactsKept(o, m)
    BY MergeEffect
  <2>3. DropNegative(m) = m
    BY DropNegativeEffect
  <2>4. m.created = o.created /\ m.updated >= o.updated
    BY <2>2 DEF FactsKept
  <2>5. m.created <= m.updated
    BY <1>1, <2>1, <2>4 DEF JobRows
  <2> QED
    BY <1>1, <2>1, <2>2, <2>3, <2>4, <2>5
<1>2. CASE ~known
  <2>1. DropNegative(snap) \in JobRows
    BY DropNegativeEffect
  <2>2. DropNegative(snap).created = snap.created /\ SameWord(DropNegative(snap), snap)
    BY DEF DropNegative, Snapshots, SameWord
  <2> QED
    BY <1>2, <2>1, <2>2 DEF SameWord
<1> QED
  BY <1>1, <1>2

\* A row that snap was merged into when it was old.
Merged(old, snap, new) ==
  IF old = NoJob THEN SameWord(new, snap) ELSE new = mergeJob(old, snap)

\* The row is what snap, made at the same instant, says of the job; a snapshot
\* without an observation, or after a final one, leaves the observation alone.
Agrees(row, snap) ==
  /\ row.state = snap.state
  /\ \/ snap.observed = Unknown \/ row.observed \in TerminalOutcomes
     \/ row.observed = snap.observed

\* Merging changes a row's word only for a later snapshot, provided the row
\* agrees with one of its own instant; afterwards it has that snapshot's word
\* or the one it had.
LEMMA MergedStep ==
  ASSUME NEW old, old = NoJob \/ old \in JobRows, NEW snap \in Snapshots,
         NEW new \in JobRows, Merged(old, snap, new),
         old # NoJob /\ old.updated = snap.updated => Agrees(old, snap)
  PROVE  /\ old # NoJob => LaterOnly(old, new)
         /\ \/ new.updated = snap.updated /\ Agrees(new, snap)
            \/ old # NoJob /\ SameWord(new, old)
<1>1. CASE old = NoJob
  BY <1>1 DEF Merged, SameWord, Agrees
<1>2. CASE old # NoJob
  <2>1. old \in JobRows /\ new = mergeJob(old, snap)
    BY <1>2 DEF Merged
  <2>2. old.updated \in Nat /\ snap.updated \in Nat
    BY <2>1 DEF JobRows, Snapshots
  <2>3. CASE snap.updated >= old.updated
    <3>1. /\ new.updated = snap.updated /\ new.state = snap.state
          /\ new.observed = IF snap.observed = Unknown \/ old.observed \in TerminalOutcomes
                            THEN old.observed ELSE snap.observed
      BY <2>1, <2>3 DEF mergeJob
    <3>2. Agrees(new, snap)
      BY <3>1 DEF Agrees
    <3>3. LaterOnly(old, new)
      BY <1>2, <2>2, <2>3, <3>1 DEF LaterOnly, Agrees
    <3> QED
      BY <3>1, <3>2, <3>3
  <2>4. CASE ~(snap.updated >= old.updated)
    <3>1. SameWord(new, old)
      BY <2>1, <2>4 DEF mergeJob, SameWord
    <3> QED
      BY <1>2, <3>1 DEF LaterOnly, SameWord
  <2> QED
    BY <2>3, <2>4
<1> QED
  BY <1>1, <1>2

\* persistJob keeps the books of the jobs: the snapshot is ignored, or merged
\* into the ledger.
LEMMA PersistJobBooks ==
  ASSUME ClockOK, NEW d \in Tables, NEW led, JobBooks(d, led), NEW id \in JobIDs,
         NEW register \in BOOLEAN, NEW snap \in Snapshots,
         snap.created = registered[id], snap.created <= snap.updated,
         register /\ led[id] # NoJob => d.checkpoints[id] # NoJob,
         NEW day \in Days, day = dayString(snap.created),
         NEW e, e = persistJob(d, id, register, snap, day, retainRollup(day))
  PROVE  \/ e = d
         \/ \E next \in JobRows, new \in [JobIDs -> JobRows \cup {NoJob}] :
              /\ new[id] = next /\ \A j \in JobIDs \ {id} : new[j] = led[j]
              /\ e \in Tables /\ JobBooks(e, new)
              /\ e.checkpoints[id] = next
              /\ \A j \in JobIDs \ {id} : e.checkpoints[j] = d.checkpoints[j]
              /\ led[id] # NoJob => FactsKept(led[id], next)
              /\ Merged(led[id], snap, next)
              /\ e.actions = d.actions /\ e.actionCount = d.actionCount
              /\ e.cpuCursor = d.cpuCursor /\ e.cpuDaily = d.cpuDaily
<1>1. PICK known \in BOOLEAN : known = (d.checkpoints[id] # NoJob)
  OBVIOUS
<1>2. PICK old : old = d.checkpoints[id]
  OBVIOUS
<1>3. PICK next : next = DropNegative(IF known THEN mergeJob(old, snap) ELSE snap)
  OBVIOUS
<1>4. PICK retained \in BOOLEAN : retained = retainRollup(day)
  BY DEF retainRollup
<1>5. retained <=> KeptDay(day)
  BY <1>4, SameDays
<1>6. CASE ~known /\ ~register
  BY <1>1, <1>6 DEF persistJob
<1>7. CASE known \/ register
  <2>1. /\ led \in [JobIDs -> JobRows \cup {NoJob}]
        /\ d.checkpoints \in [JobIDs -> JobRows \cup {NoJob}]
    BY DEF JobBooks, Tables
  <2>2. /\ known => old \in JobRows /\ led[id] = old
        /\ known <=> led[id] # NoJob
    <3>1. old \in JobRows \cup {NoJob}
      BY <1>2, <2>1
    <3>2. known => led[id] = old /\ old \in JobRows
      BY <1>1, <1>2, <3>1 DEF JobBooks
    <3>3. known => old # NoJob
      BY <1>1, <1>2
    <3>4. ~known => led[id] = NoJob
      BY <1>1, <1>7
    <3> QED
      BY <3>2, <3>3, <3>4
  <2>3. known => old.created = snap.created /\ old.created <= old.updated
    BY <2>2 DEF JobBooks
  <2>4. /\ next \in JobRows /\ next.created = snap.created /\ next.created <= next.updated
        /\ known => FactsKept(old, next) /\ next = mergeJob(old, snap)
        /\ ~known => SameWord(next, snap)
    BY <1>3, <2>2, <2>3, NextJob
  <2>5. next # NoJob
    BY <2>4, NoJobIsNone
  <2>6. PICK new : new = [led EXCEPT ![id] = next]
    OBVIOUS
  <2>7. new \in [JobIDs -> JobRows \cup {NoJob}] /\ new[id] = next
        /\ \A j \in JobIDs \ {id} : new[j] = led[j]
    BY <2>1, <2>4, <2>6
  <2>8. PICK jobs : jobs = JobsOn(led, day)
    OBVIOUS
  <2>9. /\ JobSet(jobs) /\ JobsOn(new, day) = With(jobs, id, next)
        /\ \A t : t # day => JobsOn(new, t) = JobsOn(led, t)
        /\ known <=> id \in DOMAIN jobs
        /\ known => jobs[id] = old
    <3>1. dayString(next.created) = day
      BY <2>4
    <3>2. led[id] # NoJob => led[id].created = next.created
      BY <2>2, <2>3, <2>4
    <3>3. /\ JobsOn(new, day) = With(jobs, id, next)
          /\ \A t : t # day => JobsOn(new, t) = JobsOn(led, t)
          /\ id \in DOMAIN jobs <=> led[id] # NoJob
          /\ led[id] # NoJob => jobs[id] = led[id]
      <4>1. /\ JobsOn(new, day) = With(JobsOn(led, day), id, next)
            /\ \A t : t # day => JobsOn(new, t) = JobsOn(led, t)
            /\ id \in DOMAIN JobsOn(led, day) <=> led[id] # NoJob
            /\ led[id] # NoJob => JobsOn(led, day)[id] = led[id]
        BY <2>1, <2>4, <2>7, <3>1, <3>2, JobsOnWith
      <4> QED
        BY <2>8, <4>1
    <3>4. JobSet(jobs)
      BY <2>1, <2>8, JobsOnType
    <3> QED
      BY <2>2, <3>3, <3>4
  <2>10. PICK row : row = IF retained THEN AddToRollup(d.rollups[day], Delta(known, old, next))
                          ELSE d.rollups[day]
    OBVIOUS
  <2>11. PICK moved : moved = IF known THEN settingContribution(d.settings[day], old, -1)
                              ELSE d.settings[day]
    OBVIOUS
  <2>12. PICK set : set = IF retained THEN settingContribution(moved, next, 1)
                          ELSE d.settings[day]
    OBVIOUS
  <2>13. retained => /\ d.rollups[day] = TotalsOf(jobs)
                     /\ d.settings[day] = SettingsOf(jobs)
    BY <1>5, <2>8 DEF JobBooks
  <2>14. /\ row \in [DOMAIN EmptyRollup -> Nat]
         /\ retained => row = TotalsOf(JobsOn(new, day))
    <3>1. d.rollups[day] \in [DOMAIN EmptyRollup -> Nat]
      BY DEF Tables
    <3>2. CASE retained
      <4>1. known => contribution(next)["completion_max_ns"]
                       >= contribution(old)["completion_max_ns"]
        BY <2>2, <2>4, LatencyGrows
      <4>2. known => old = jobs[id]
        BY <2>9
      <4>3. /\ TotalsOf(With(jobs, id, next)) \in [DOMAIN EmptyRollup -> Nat]
            /\ AddToRollup(TotalsOf(jobs), Delta(known, old, next))
                 = TotalsOf(With(jobs, id, next))
        BY <2>4, <2>9, <4>1, <4>2, TotalsWith
      <4> QED
        BY <2>9, <2>10, <2>13, <3>2, <4>3
    <3>3. CASE ~retained
      BY <2>10, <3>1, <3>3
    <3> QED
      BY <3>2, <3>3
  <2>15. /\ set \in [SettingKeys -> Nat]
         /\ retained => set = SettingsOf(JobsOn(new, day))
    <3>1. d.settings[day] \in [SettingKeys -> Nat]
      BY DEF Tables
    <3>2. CASE retained
      <4>1. known => old = jobs[id]
        BY <2>9
      <4>2. moved = IF known THEN settingContribution(SettingsOf(jobs), old, -1)
                    ELSE SettingsOf(jobs)
        BY <2>11, <2>13, <3>2
      <4>3. /\ SettingsOf(With(jobs, id, next)) \in [SettingKeys -> Nat]
            /\ settingContribution(moved, next, 1) = SettingsOf(With(jobs, id, next))
        BY <2>4, <2>9, <4>1, <4>2, SettingsWith
      <4> QED
        BY <2>9, <2>12, <3>2, <4>3
    <3>3. CASE ~retained
      BY <2>12, <3>1, <3>3
    <3> QED
      BY <3>2, <3>3
  <2>16. e = [d EXCEPT !.checkpoints[id] = next, !.jobs[id] = next,
                       !.rollups[day] = row, !.settings[day] = set]
    BY <1>1, <1>2, <1>3, <1>4, <1>7, <2>10, <2>11, <2>12 DEF persistJob
  <2>17. /\ e \in Tables /\ e.checkpoints = [d.checkpoints EXCEPT ![id] = next]
         /\ e.rollups = [d.rollups EXCEPT ![day] = row]
         /\ e.settings = [d.settings EXCEPT ![day] = set]
         /\ e.actions = d.actions /\ e.actionCount = d.actionCount
         /\ e.cpuCursor = d.cpuCursor /\ e.cpuDaily = d.cpuDaily
    <3>1. /\ [d.checkpoints EXCEPT ![id] = next] \in [JobIDs -> JobRows \cup {NoJob}]
          /\ [d.jobs EXCEPT ![id] = next] \in [JobIDs -> JobRows \cup {NoJob}]
      BY <2>4 DEF Tables
    <3>2. [d.rollups EXCEPT ![day] = row] \in [Days -> [DOMAIN EmptyRollup -> Nat]]
      BY <2>14 DEF Tables
    <3>3. [d.settings EXCEPT ![day] = set] \in [Days -> [SettingKeys -> Nat]]
      BY <2>15 DEF Tables
    <3> QED
      BY <2>16, <3>1, <3>2, <3>3 DEF Tables
  <2>18. JobBooks(e, new)
    <3>1. ASSUME NEW j \in JobIDs
          PROVE  /\ e.checkpoints[j] # NoJob => new[j] = e.checkpoints[j]
                 /\ new[j] # NoJob => new[j].created = registered[j]
                                      /\ new[j].created <= new[j].updated
                 /\ new[j] # NoJob /\ jobOutcome(new[j]) = "unresolved"
                      => e.checkpoints[j] = new[j]
      <4>1. CASE j = id
        BY <2>1, <2>4, <2>7, <2>17, <4>1
      <4>2. CASE j # id
        <5>1. new[j] = led[j] /\ e.checkpoints[j] = d.checkpoints[j]
          BY <2>1, <2>7, <2>17, <4>2
        <5> QED
          BY <5>1 DEF JobBooks
      <4> QED
        BY <4>1, <4>2
    <3>2. ASSUME NEW t \in Days, KeptDay(t)
          PROVE  /\ e.rollups[t] = TotalsOf(JobsOn(new, t))
                 /\ e.settings[t] = SettingsOf(JobsOn(new, t))
      <4>1. d.rollups \in [Days -> [DOMAIN EmptyRollup -> Nat]]
            /\ d.settings \in [Days -> [SettingKeys -> Nat]]
        BY DEF Tables
      <4>2. CASE t = day
        BY <1>5, <2>14, <2>15, <2>17, <3>2, <4>1, <4>2
      <4>3. CASE t # day
        <5>1. e.rollups[t] = d.rollups[t] /\ e.settings[t] = d.settings[t]
          BY <2>17, <4>1, <4>3
        <5>2. JobsOn(new, t) = JobsOn(led, t)
          BY <2>9, <4>3
        <5> QED
          BY <3>2, <5>1, <5>2 DEF JobBooks
      <4> QED
        BY <4>2, <4>3
    <3> QED
      BY <2>7, <3>1, <3>2 DEF JobBooks
  <2>19. /\ e.checkpoints[id] = next
         /\ \A j \in JobIDs \ {id} : e.checkpoints[j] = d.checkpoints[j]
    BY <2>1, <2>17
  <2>20. (led[id] # NoJob => FactsKept(led[id], next)) /\ Merged(led[id], snap, next)
    BY <2>2, <2>4 DEF Merged
  <2> QED
    BY <2>4, <2>7, <2>17, <2>18, <2>19, <2>20
<1> QED
  BY <1>6, <1>7

\* Those of the instants A that are on a day.
OnDay(A, day) == {a \in A : dayString(a) = day}

\* What is stored of actions and processor time: no action is counted without
\* having been written, no row of a kept day is missing from its total, and no
\* more time was used than has passed.
ActionBooks(d, W) ==
  /\ d.actions \subseteq 0..Now
  /\ Total(d.actionCount) <= Cardinality(W)
  /\ \A day \in Days : KeptDay(day) =>
       d.actionCount[day] >= Cardinality(OnDay(d.actions, day))
  /\ today = 0 => d.actionCount[0] = Cardinality(d.actions)
  /\ Total(d.cpuDaily) <= d.cpuCursor /\ d.cpuCursor <= Now

\* Finitely many instants have passed.
LEMMA PastFinite ==
  ASSUME ClockOK, NEW A, A \subseteq 0..Now
  PROVE  /\ IsFiniteSet(A) /\ Cardinality(A) \in Nat
         /\ \A B \in SUBSET A : /\ IsFiniteSet(B) /\ Cardinality(B) \in Nat
                                /\ Cardinality(B) <= Cardinality(A)
<1>1. PICK a \in Int : a = 0
  OBVIOUS
<1>2. PICK b \in Int : b = Now
  BY DayFacts
<1>3. IsFiniteSet(a..b)
  BY FS_Interval
<1>4. IsFiniteSet(A)
  BY <1>1, <1>2, <1>3, FS_Subset
<1> QED
  BY <1>4, FS_Subset, FS_CardinalityType

\* An instant of a day is one more on that day, and on no other.
LEMMA OneMore ==
  ASSUME ClockOK, NEW A, A \subseteq 0..Now, NEW t \in 0..Now, t \notin A
  PROVE  /\ Cardinality(A \cup {t}) = Cardinality(A) + 1
         /\ Cardinality(OnDay(A \cup {t}, dayString(t)))
              = Cardinality(OnDay(A, dayString(t))) + 1
         /\ \A day : day # dayString(t) => OnDay(A \cup {t}, day) = OnDay(A, day)
<1>1. IsFiniteSet(A) /\ IsFiniteSet(OnDay(A, dayString(t)))
  <2>1. OnDay(A, dayString(t)) \in SUBSET A
    BY DEF OnDay
  <2> QED
    BY <2>1, PastFinite
<1>2. /\ OnDay(A \cup {t}, dayString(t)) = OnDay(A, dayString(t)) \cup {t}
      /\ t \notin OnDay(A, dayString(t))
  BY DEF OnDay
<1>3. \A day : day # dayString(t) => OnDay(A \cup {t}, day) = OnDay(A, day)
  BY DEF OnDay
<1>4. Cardinality(A \cup {t}) = Cardinality(A) + 1
  BY <1>1, FS_AddElement
<1>5. Cardinality(OnDay(A, dayString(t)) \cup {t}) = Cardinality(OnDay(A, dayString(t))) + 1
  BY <1>1, <1>2, FS_AddElement
<1> QED
  BY <1>2, <1>3, <1>4, <1>5

\* persistAction: the row and its day's total grow together, or not at all.
LEMMA PersistActionBooks ==
  ASSUME ClockOK, NEW d \in Tables, NEW W, IsFiniteSet(W), ActionBooks(d, W),
         NEW r, r.at \in 0..Now, r.at \notin d.actions => r.id \notin W
  PROVE  /\ persistAction(d, r) \in Tables
         /\ ActionBooks(persistAction(d, r), W \cup {r.id})
         /\ persistAction(d, r).actions = d.actions \cup {r.at}
         /\ persistAction(d, r).checkpoints = d.checkpoints
         /\ persistAction(d, r).rollups = d.rollups
         /\ persistAction(d, r).settings = d.settings
<1> SUFFICES ASSUME NEW t \in 0..Now, t = r.at, NEW id, id = r.id,
                    NEW e, e = persistAction(d, r)
             PROVE  /\ e \in Tables /\ ActionBooks(e, W \cup {id})
                    /\ e.actions = d.actions \cup {t}
                    /\ e.checkpoints = d.checkpoints /\ e.rollups = d.rollups
                    /\ e.settings = d.settings
  OBVIOUS
<1>1. PICK day \in Days : day = dayString(t) /\ (today = 0 => day = 0)
  <2>1. t \in Nat /\ t <= Now
    BY DayFacts
  <2>2. dayString(t) \in Days /\ dayString(t) <= today
    BY <2>1, DayFacts
  <2>3. dayString(t) \in Nat
    BY <2>2, SizesAssumption DEF Days
  <2> QED
    BY <2>2, <2>3
<1>2. /\ Cardinality(W) \in Nat /\ IsFiniteSet(W \cup {id})
      /\ Cardinality(W \cup {id}) \in Nat
      /\ Cardinality(W) <= Cardinality(W \cup {id})
      /\ id \notin W => Cardinality(W \cup {id}) = Cardinality(W) + 1
  <2>1. id \notin W => Cardinality(W \cup {id}) = Cardinality(W) + 1
    BY FS_AddElement
  <2>2. IsFiniteSet(W \cup {id}) /\ Cardinality(W) \in Nat
    BY FS_AddElement, FS_CardinalityType
  <2>3. Cardinality(W \cup {id}) \in Nat /\ Cardinality(W) <= Cardinality(W \cup {id})
    BY <2>2, FS_Subset, FS_CardinalityType
  <2> QED
    BY <2>1, <2>2, <2>3
<1>3. /\ d.actions \subseteq 0..Now /\ d.actionCount \in [Days -> Nat]
      /\ Total(d.actionCount) <= Cardinality(W)
      /\ IsFiniteSet(Days)
  BY DayFacts DEF ActionBooks, Tables
<1>4. Total(d.actionCount) \in Nat
  BY <1>3, TotalType
<1>5. CASE t \in d.actions
  <2>1. e = d
    BY <1>5 DEF persistAction
  <2>2. Total(d.actionCount) <= Cardinality(W \cup {id})
    BY <1>2, <1>3, <1>4
  <2>3. d.actions = d.actions \cup {t}
    BY <1>5
  <2>4. ActionBooks(d, W \cup {id})
    BY <2>2 DEF ActionBooks
  <2> QED
    BY <2>1, <2>3, <2>4
<1>6. CASE t \notin d.actions
  <2>1. PICK count : count = [d.actionCount EXCEPT ![day] = @ + 1]
    OBVIOUS
  <2>2. e = [d EXCEPT !.actions = d.actions \cup {t}, !.actionCount = count]
    BY <1>1, <1>6, <2>1 DEF persistAction, Tables
  <2>3. /\ count \in [Days -> Nat] /\ count[day] = d.actionCount[day] + 1
        /\ \A x \in Days \ {day} : count[x] = d.actionCount[x]
    BY <1>3, <2>1
  <2>4. d.actions \cup {t} \in SUBSET Nat /\ d.actions \cup {t} \subseteq 0..Now
    BY <1>3, DayFacts
  <2>5. /\ e \in Tables /\ e.actions = d.actions \cup {t} /\ e.actionCount = count
        /\ e.checkpoints = d.checkpoints /\ e.rollups = d.rollups
        /\ e.settings = d.settings /\ e.cpuCursor = d.cpuCursor
        /\ e.cpuDaily = d.cpuDaily
    BY <2>2, <2>3, <2>4 DEF Tables
  <2>6. Total(count) <= Cardinality(W \cup {id})
    <3>1. Total(count) = Total(d.actionCount) + (count[day] - d.actionCount[day])
      BY <1>3, <2>3, TotalChange
    <3>2. d.actionCount[day] \in Nat
      BY <1>3
    <3>3. Total(count) = Total(d.actionCount) + 1
      BY <1>4, <2>3, <3>1, <3>2
    <3>4. Cardinality(W \cup {id}) = Cardinality(W) + 1
      BY <1>2, <1>6
    <3> QED
      BY <1>2, <1>3, <1>4, <3>3, <3>4
  <2>7. /\ Cardinality(d.actions \cup {t}) = Cardinality(d.actions) + 1
        /\ Cardinality(OnDay(d.actions \cup {t}, day)) = Cardinality(OnDay(d.actions, day)) + 1
        /\ \A x : x # day => OnDay(d.actions \cup {t}, x) = OnDay(d.actions, x)
    BY <1>1, <1>3, <1>6, OneMore
  <2>8. Cardinality(OnDay(d.actions, day)) \in Nat
    <3>1. OnDay(d.actions, day) \in SUBSET d.actions
      BY DEF OnDay
    <3> QED
      BY <1>3, <3>1, PastFinite
  <2>9. ASSUME NEW x \in Days, KeptDay(x)
        PROVE  count[x] >= Cardinality(OnDay(d.actions \cup {t}, x))
    <3>1. d.actionCount[x] >= Cardinality(OnDay(d.actions, x)) /\ d.actionCount[x] \in Nat
      BY <1>3, <2>9 DEF ActionBooks
    <3>2. CASE x = day
      BY <2>3, <2>7, <2>8, <3>1, <3>2
    <3>3. CASE x # day
      BY <2>3, <2>7, <3>1, <3>3
    <3> QED
      BY <3>2, <3>3
  <2>10. today = 0 => count[0] = Cardinality(d.actions \cup {t})
    <3> SUFFICES ASSUME today = 0 PROVE count[0] = Cardinality(d.actions \cup {t})
      OBVIOUS
    <3>1. day = 0
      BY <1>1
    <3>2. d.actionCount[0] = Cardinality(d.actions)
      BY DEF ActionBooks
    <3> QED
      BY <2>3, <2>7, <3>1, <3>2
  <2>11. Total(e.cpuDaily) <= e.cpuCursor /\ e.cpuCursor <= Now
    BY <2>5 DEF ActionBooks
  <2>12. ActionBooks(e, W \cup {id})
    BY <2>4, <2>5, <2>6, <2>9, <2>10, <2>11 DEF ActionBooks
  <2> QED
    BY <2>5, <2>12
<1> QED
  BY <1>5, <1>6

\* persistCPU: the time since the last reading goes to the day of this one.
LEMMA PersistCPUBooks ==
  ASSUME ClockOK, NEW d \in Tables, NEW W, ActionBooks(d, W), NEW at \in 0..Now,
         NEW e, e = persistCPU(d, at)
  PROVE  /\ e \in Tables /\ ActionBooks(e, W)
         /\ e.actions = d.actions /\ e.checkpoints = d.checkpoints
         /\ e.rollups = d.rollups /\ e.settings = d.settings
<1>1. CASE ~CPU \/ at <= d.cpuCursor
  BY <1>1 DEF persistCPU
<1>2. CASE ~(~CPU \/ at <= d.cpuCursor)
  <2>1. at \in Nat /\ at <= Now /\ Now \in Nat /\ IsFiniteSet(Days)
    BY DayFacts
  <2>2. PICK day \in Days : day = dayString(at)
    BY <2>1, DayFacts
  <2>3. PICK c \in Nat : c = d.cpuCursor
    BY DEF Tables
  <2>4. at > c /\ at - c \in Nat
    BY <1>2, <2>1, <2>3
  <2>5. PICK f \in [Days -> Nat] : f = d.cpuDaily
    BY DEF Tables
  <2>6. PICK g : g = [f EXCEPT ![day] = @ + (at - c)]
    OBVIOUS
  <2>7. /\ g \in [Days -> Nat] /\ g[day] = f[day] + (at - c)
        /\ \A x \in Days \ {day} : f[x] = g[x]
    BY <2>4, <2>6
  <2>8. e = [d EXCEPT !.cpuDaily = g, !.cpuCursor = at]
    BY <1>2, <2>2, <2>3, <2>5, <2>6 DEF persistCPU, Tables
  <2>9. /\ e \in Tables /\ e.actions = d.actions /\ e.checkpoints = d.checkpoints
        /\ e.rollups = d.rollups /\ e.settings = d.settings
        /\ e.actionCount = d.actionCount /\ e.cpuDaily = g /\ e.cpuCursor = at
    BY <2>1, <2>7, <2>8 DEF Tables
  <2>10. Total(g) <= at
    <3>1. Total(f) \in Nat
      BY <2>1, TotalType
    <3>2. Total(f) <= c
      BY <2>3, <2>5 DEF ActionBooks
    <3>3. Total(g) = Total(f) + (g[day] - f[day])
      BY <2>1, <2>7, TotalChange
    <3>4. PICK n \in Nat : n = f[day]
      OBVIOUS
    <3> QED
      BY <2>1, <2>3, <2>4, <2>7, <3>1, <3>2, <3>3, <3>4
  <2>11. ActionBooks(e, W)
    BY <2>1, <2>9, <2>10 DEF ActionBooks
  <2> QED
    BY <2>9, <2>11
<1> QED
  BY <1>1, <1>2

-----------------------------------------------------------------------------
(* A batch.                                                                 *)

\* What a record can be while it is on its way: actions and first snapshots
\* are of today, since midnight waits for them, and the instant of a snapshot
\* is its own.
RecordOK(r) ==
  \/ r \in [kind : {"action"}, id : Nat, at : Dawn..Now]
  \/ /\ r \in [kind : {"job"}, id : Nat, job : JobIDs, register : BOOLEAN,
               snapshot : Snapshots]
     /\ r.snapshot.created = registered[r.job]
     /\ r.snapshot.created <= r.snapshot.updated
     /\ r.snapshot.updated = Dawn + r.id /\ r.snapshot.updated <= Now
     /\ r.register => Dawn <= r.snapshot.created

\* A record that was written and is still on its way, because its commit
\* reported an error, finds its row again.
FindsRow(r) ==
  /\ r.kind = "action" /\ r.id \in written => r.at \in db.actions
  /\ r.kind = "job" /\ r.register /\ ledger[r.job] # NoJob => db.checkpoints[r.job] # NoJob

Recs(s) == {s[i] : i \in DOMAIN s}

\* The records on their way.
Held == Recs(queue) \cup Recs(pending) \cup Recs(batch)
          \cup {sender[s].rec : s \in {t \in Senders : sender[t] # Idle}}

\* No row is from the future, and one of the same instant as a snapshot on its
\* way says what that snapshot says: writing it again will change nothing.
Latest(led) ==
  \A j \in JobIDs : led[j] # NoJob =>
    /\ led[j].updated <= Now
    /\ \A r \in Held : /\ r.kind = "job" /\ r.job = j
                         /\ r.snapshot.updated = led[j].updated
                         => Agrees(led[j], r.snapshot)

BInv == /\ ClockOK
        /\ db \in Tables /\ JobBooks(db, ledger) /\ ActionBooks(db, written)
        /\ Latest(ledger)
        /\ \A r \in Held : RecordOK(r) /\ FindsRow(r)

\* The ledger after a transaction that leaves the tables d.
LedgerOf(d) ==
  [j \in JobIDs |-> IF d.checkpoints[j] # NoJob THEN d.checkpoints[j] ELSE ledger[j]]

\* The records written before, and the first n of the batch.
WrittenWith(n) == written \cup {batch[i].id : i \in 1..n}

\* What holds of the tables d after the first n records of the batch.
After(n, d) ==
  /\ d \in Tables /\ JobBooks(d, LedgerOf(d)) /\ ActionBooks(d, WrittenWith(n))
  /\ Latest(LedgerOf(d))
  /\ db.actions \subseteq d.actions
  /\ \A j \in JobIDs :
       /\ db.checkpoints[j] # NoJob => d.checkpoints[j] # NoJob
       /\ ledger[j] # NoJob /\ d.checkpoints[j] # NoJob
            => FactsGrow(ledger[j], d.checkpoints[j])
  /\ \A i \in 1..n :
       /\ batch[i].kind = "action" => batch[i].at \in d.actions
       /\ batch[i].kind = "job" /\ batch[i].register => d.checkpoints[batch[i].job] # NoJob

\* A job that stays as it is takes no fact back.
LEMMA GrowthIsReflexive ==
  ASSUME NEW a \in JobRows PROVE FactsGrow(a, a)
  BY DEF JobRows, FactsGrow, FactsKept, LaterOnly

\* Before the first record.
LEMMA AfterNone == ASSUME BInv PROVE After(0, db)
<1>1. /\ ledger \in [JobIDs -> JobRows \cup {NoJob}]
      /\ \A j \in JobIDs : db.checkpoints[j] # NoJob => ledger[j] = db.checkpoints[j]
  BY DEF BInv, JobBooks
<1>2. LedgerOf(db) = ledger
  BY <1>1 DEF LedgerOf
<1>3. WrittenWith(0) = written
  BY DEF WrittenWith
<1>4. \A j \in JobIDs : ledger[j] # NoJob /\ db.checkpoints[j] # NoJob
                          => FactsGrow(ledger[j], db.checkpoints[j])
  BY <1>1, GrowthIsReflexive
<1>5. \A i \in 1..0 : FALSE
  OBVIOUS
<1> QED
  BY <1>2, <1>3, <1>4, <1>5 DEF BInv, After

\* One more action.
LEMMA AfterAction ==
  ASSUME IInv, BInv, NEW n \in 0..(Len(batch) - 1), NEW d, After(n, d),
         NEW r, r = batch[n + 1], r.kind = "action"
  PROVE  After(n + 1, persist(d, r))
<1>1. /\ IsSeq(batch) /\ Len(batch) \in Nat /\ DOMAIN batch = 1..Len(batch) /\ Distinct(batch)
      /\ n + 1 \in 1..Len(batch) /\ n \in Nat
  BY DEF IInv, Buffers, IsSeq
<1>2. r \in Held
  BY <1>1 DEF Held, Recs
<1>3. r \in [kind : {"action"}, id : Nat, at : Dawn..Now] /\ FindsRow(r)
  BY <1>2 DEF BInv, RecordOK
<1>4. r.at \in 0..Now
  BY <1>3, DayFacts DEF BInv
<1>5. \A i \in 1..n : batch[i].id # r.id
  BY <1>1 DEF Distinct
<1>6. WrittenWith(n + 1) = WrittenWith(n) \cup {r.id}
  <2>1. \A i \in 1..(n + 1) : i \in 1..n \/ i = n + 1
    BY <1>1
  <2>2. n + 1 \in 1..(n + 1) /\ \A i \in 1..n : i \in 1..(n + 1)
    BY <1>1
  <2> QED
    BY <2>1, <2>2 DEF WrittenWith
<1>7. IsFiniteSet(WrittenWith(n))
  <2>1. WrittenWith(n) \subseteq 1..made /\ made \in Nat
    <3>1. \A i \in 1..n : i \in DOMAIN batch
      BY <1>1
    <3>2. IDs(batch) \subseteq 1..made /\ written \subseteq 1..made
      BY DEF IInv, Accounted
    <3> QED
      BY <3>1, <3>2 DEF WrittenWith, IDs, IInv, Control
  <2>2. PICK a \in Int : a = 1
    OBVIOUS
  <2>3. PICK b \in Int : b = made
    BY <2>1
  <2>4. IsFiniteSet(a..b)
    BY FS_Interval
  <2> QED
    BY <2>1, <2>2, <2>3, <2>4, FS_Subset
<1>8. r.at \notin d.actions => r.id \notin WrittenWith(n)
  BY <1>3, <1>5 DEF After, FindsRow, WrittenWith
<1>9. PICK e : e = persistAction(d, r)
  OBVIOUS
<1>10. /\ e \in Tables /\ ActionBooks(e, WrittenWith(n + 1))
       /\ e.actions = d.actions \cup {r.at}
       /\ e.checkpoints = d.checkpoints /\ e.rollups = d.rollups
       /\ e.settings = d.settings
  <2>1. ClockOK /\ d \in Tables /\ ActionBooks(d, WrittenWith(n))
    BY DEF After, BInv
  <2>2. PICK W : W = WrittenWith(n)
    OBVIOUS
  <2>3. r.at \notin d.actions => r.id \notin W
    BY <1>8, <2>2
  <2>4. IsFiniteSet(W) /\ ActionBooks(d, W)
    BY <1>7, <2>1, <2>2
  <2>5. /\ e \in Tables /\ ActionBooks(e, W \cup {r.id})
        /\ e.actions = d.actions \cup {r.at}
        /\ e.checkpoints = d.checkpoints /\ e.rollups = d.rollups
        /\ e.settings = d.settings
    <3>1. /\ persistAction(d, r) \in Tables
          /\ ActionBooks(persistAction(d, r), W \cup {r.id})
          /\ persistAction(d, r).actions = d.actions \cup {r.at}
          /\ persistAction(d, r).checkpoints = d.checkpoints
          /\ persistAction(d, r).rollups = d.rollups
          /\ persistAction(d, r).settings = d.settings
      BY ONLY <1>4, <2>1, <2>3, <2>4, PersistActionBooks
    <3> QED
      BY ONLY <1>9, <3>1
  <2> QED
    BY <1>6, <2>2, <2>5
<1>11. PICK f : f = persistCPU(e, r.at)
  OBVIOUS
<1>12. /\ f \in Tables /\ ActionBooks(f, WrittenWith(n + 1))
       /\ f.actions = d.actions \cup {r.at}
       /\ f.checkpoints = d.checkpoints /\ f.rollups = d.rollups
       /\ f.settings = d.settings
  BY <1>4, <1>10, <1>11, PersistCPUBooks DEF BInv
<1>13. persist(d, r) = f
  BY <1>9, <1>11 DEF persist
<1>14. LedgerOf(f) = LedgerOf(d)
  BY <1>12 DEF LedgerOf
<1>15. JobBooks(f, LedgerOf(f)) /\ Latest(LedgerOf(f))
  BY <1>12, <1>14 DEF After, JobBooks
<1>16. \A i \in 1..(n + 1) : i \in 1..n \/ batch[i] = r
  BY <1>1
<1>17. \A i \in 1..(n + 1) :
         /\ batch[i].kind = "action" => batch[i].at \in f.actions
         /\ batch[i].kind = "job" /\ batch[i].register => f.checkpoints[batch[i].job] # NoJob
  BY <1>12, <1>16 DEF After
<1>18. /\ db.actions \subseteq f.actions
       /\ \A j \in JobIDs :
            /\ db.checkpoints[j] # NoJob => f.checkpoints[j] # NoJob
            /\ ledger[j] # NoJob /\ f.checkpoints[j] # NoJob
                 => FactsGrow(ledger[j], f.checkpoints[j])
  BY <1>12 DEF After
<1> QED
  BY <1>12, <1>13, <1>15, <1>17, <1>18 DEF After

\* A record on its way with the number of one of the batch is that one.
LEMMA BatchRecord ==
  ASSUME IInv, NEW r \in Held, NEW i \in DOMAIN batch, batch[i].id = r.id
  PROVE  r = batch[i]
<1>1. r.id \in IDs(batch)
  BY DEF IDs
<1>2. r \notin Recs(queue)
  BY <1>1 DEF IInv, Apart, Recs, IDs
<1>3. r \notin Recs(pending)
  BY <1>1 DEF IInv, Apart, Recs, IDs
<1>4. r \notin {sender[s].rec : s \in {t \in Senders : sender[t] # Idle}}
  BY <1>1 DEF IInv, Apart, Offered
<1>5. r \in Recs(batch)
  BY <1>2, <1>3, <1>4 DEF Held
<1> QED
  BY <1>5 DEF IInv, Buffers, Distinct, Recs

\* One more snapshot.
LEMMA AfterJob ==
  ASSUME IInv, BInv, NEW n \in 0..(Len(batch) - 1), NEW d, After(n, d),
         NEW r, r = batch[n + 1], r.kind # "action"
  PROVE  After(n + 1, persist(d, r))
<1>1. /\ IsSeq(batch) /\ Len(batch) \in Nat /\ DOMAIN batch = 1..Len(batch)
      /\ n + 1 \in 1..Len(batch) /\ n \in Nat
  BY DEF IInv, Buffers, IsSeq
<1>2. r \in Held
  BY <1>1 DEF Held, Recs
<1>3. /\ r \in [kind : {"job"}, id : Nat, job : JobIDs, register : BOOLEAN,
                snapshot : Snapshots]
      /\ r.snapshot.created = registered[r.job]
      /\ r.snapshot.created <= r.snapshot.updated
      /\ r.snapshot.updated = Dawn + r.id /\ r.snapshot.updated <= Now
      /\ FindsRow(r)
  BY <1>2 DEF BInv, RecordOK
<1>4. PICK id \in JobIDs : id = r.job
  BY <1>3
<1>5. PICK register \in BOOLEAN : register = r.register
  BY <1>3
<1>6. PICK snap \in Snapshots : snap = r.snapshot
  BY <1>3
<1>7. PICK day \in Days : day = dayString(snap.created)
  <2>1. snap.created \in Nat /\ snap.created = registered[id] /\ registered[id] # Unknown
    BY <1>3, <1>4, <1>6, UnknownAssumption DEF Snapshots
  <2>2. snap.created <= Now
    BY <2>1 DEF BInv, ClockOK
  <2> QED
    BY <2>1, <2>2, DayFacts DEF BInv
<1>8. PICK led : led = LedgerOf(d)
  OBVIOUS
<1>9. /\ led = [j \in JobIDs |-> led[j]]
      /\ \A j \in JobIDs : led[j] = IF d.checkpoints[j] # NoJob THEN d.checkpoints[j]
                                    ELSE ledger[j]
  BY <1>8 DEF LedgerOf
<1>10. register /\ led[id] # NoJob => d.checkpoints[id] # NoJob
  <2> SUFFICES ASSUME register, led[id] # NoJob, d.checkpoints[id] = NoJob PROVE FALSE
    OBVIOUS
  <2>1. ledger[id] # NoJob
    BY <1>9
  <2>2. db.checkpoints[id] # NoJob
    BY <1>3, <1>4, <1>5, <2>1 DEF FindsRow
  <2> QED
    BY <2>2 DEF After
<1>11. PICK e : e = persistJob(d, id, register, snap, day, retainRollup(day))
  OBVIOUS
<1>12. persist(d, r) = e
  BY <1>4, <1>5, <1>6, <1>7, <1>11 DEF persist
<1>13. \/ e = d
       \/ \E next \in JobRows, new \in [JobIDs -> JobRows \cup {NoJob}] :
            /\ new[id] = next /\ \A j \in JobIDs \ {id} : new[j] = led[j]
            /\ e \in Tables /\ JobBooks(e, new)
            /\ e.checkpoints[id] = next
            /\ \A j \in JobIDs \ {id} : e.checkpoints[j] = d.checkpoints[j]
            /\ led[id] # NoJob => FactsKept(led[id], next)
            /\ Merged(led[id], snap, next)
            /\ e.actions = d.actions /\ e.actionCount = d.actionCount
            /\ e.cpuCursor = d.cpuCursor /\ e.cpuDaily = d.cpuDaily
  <2>1. snap.created = registered[id] /\ snap.created <= snap.updated
    BY <1>3, <1>4, <1>6
  <2>2. d \in Tables /\ JobBooks(d, led) /\ ClockOK
    BY <1>8 DEF After, BInv
  <2> QED
    BY <1>7, <1>10, <1>11, <2>1, <2>2, PersistJobBooks
<1>14. WrittenWith(n) \subseteq WrittenWith(n + 1) /\ IsFiniteSet(WrittenWith(n + 1))
  <2>1. \A i \in 1..n : i \in 1..(n + 1)
    BY <1>1
  <2>2. WrittenWith(n + 1) \subseteq 1..made /\ made \in Nat
    <3>1. \A i \in 1..(n + 1) : i \in DOMAIN batch
      BY <1>1
    <3>2. IDs(batch) \subseteq 1..made /\ written \subseteq 1..made
      BY DEF IInv, Accounted
    <3> QED
      BY <3>1, <3>2 DEF WrittenWith, IDs, IInv, Control
  <2>3. PICK a \in Int : a = 1
    OBVIOUS
  <2>4. PICK b \in Int : b = made
    BY <2>2
  <2>5. IsFiniteSet(a..b)
    BY FS_Interval
  <2>6. IsFiniteSet(WrittenWith(n + 1))
    BY <2>2, <2>3, <2>4, <2>5, FS_Subset
  <2> QED
    BY <2>1, <2>6 DEF WrittenWith
<1>15. ActionBooks(d, WrittenWith(n + 1))
  <2>1. /\ Cardinality(WrittenWith(n)) <= Cardinality(WrittenWith(n + 1))
        /\ Cardinality(WrittenWith(n)) \in Nat /\ Cardinality(WrittenWith(n + 1)) \in Nat
    BY <1>14, FS_Subset, FS_CardinalityType
  <2>2. Total(d.actionCount) \in Nat /\ Total(d.actionCount) <= Cardinality(WrittenWith(n))
    <3>1. d.actionCount \in [Days -> Nat] /\ IsFiniteSet(Days)
      BY DayFacts DEF After, Tables, BInv
    <3> QED
      BY <3>1, TotalType DEF After, ActionBooks
  <2>3. Total(d.actionCount) <= Cardinality(WrittenWith(n + 1))
    BY <2>1, <2>2
  <2> QED
    BY <2>3 DEF After, ActionBooks
<1>16. \A i \in 1..(n + 1) : i \in 1..n \/ batch[i] = r
  BY <1>1
<1>17. CASE e = d
  <2>1. register => d.checkpoints[id] # NoJob
    <3>1. SUFFICES ASSUME register, d.checkpoints[id] = NoJob PROVE FALSE
      OBVIOUS
    <3>2. PICK next : next = DropNegative(snap)
      OBVIOUS
    <3>3. next # NoJob
      BY <3>2, DropNegativeEffect, NoJobIsNone
    <3>4. e.checkpoints[id] = next
      BY <1>11, <3>1, <3>2 DEF persistJob, After, Tables
    <3> QED
      BY <1>17, <3>1, <3>3, <3>4
  <2>2. \A i \in 1..(n + 1) :
         /\ batch[i].kind = "action" => batch[i].at \in d.actions
         /\ batch[i].kind = "job" /\ batch[i].register => d.checkpoints[batch[i].job] # NoJob
    BY <1>4, <1>5, <1>16, <2>1 DEF After
  <2>3. After(n + 1, d)
    BY <1>15, <2>2 DEF After
  <2> QED
    BY <1>12, <1>17, <2>3
<1>18. CASE e # d
  <2>1. PICK next \in JobRows, new \in [JobIDs -> JobRows \cup {NoJob}] :
            /\ new[id] = next /\ \A j \in JobIDs \ {id} : new[j] = led[j]
            /\ e \in Tables /\ JobBooks(e, new)
            /\ e.checkpoints[id] = next
            /\ \A j \in JobIDs \ {id} : e.checkpoints[j] = d.checkpoints[j]
            /\ led[id] # NoJob => FactsKept(led[id], next)
            /\ Merged(led[id], snap, next)
            /\ e.actions = d.actions /\ e.actionCount = d.actionCount
            /\ e.cpuCursor = d.cpuCursor /\ e.cpuDaily = d.cpuDaily
    BY <1>13, <1>18
  <2>2. d.checkpoints \in [JobIDs -> JobRows \cup {NoJob}] /\ next # NoJob
        /\ ledger \in [JobIDs -> JobRows \cup {NoJob}]
    BY NoJobIsNone DEF After, Tables, BInv, JobBooks
  <2>3. /\ e.checkpoints[id] = next
        /\ \A j \in JobIDs : j # id => e.checkpoints[j] = d.checkpoints[j]
    BY <2>1
  <2>4. LedgerOf(e) = new
    <3>1. \A j \in JobIDs : LedgerOf(e)[j] = new[j]
      BY <1>9, <2>1, <2>2, <2>3 DEF LedgerOf
    <3>2. LedgerOf(e) = [j \in JobIDs |-> LedgerOf(e)[j]]
      BY DEF LedgerOf
    <3>3. new = [j \in JobIDs |-> new[j]]
      BY <2>1
    <3> QED
      BY <3>1, <3>2, <3>3
  <2>5. JobBooks(e, LedgerOf(e))
    BY <2>1, <2>4
  <2>6. ActionBooks(e, WrittenWith(n + 1))
    BY <1>15, <2>1 DEF ActionBooks
  <2>12. led \in [JobIDs -> JobRows \cup {NoJob}] /\ Latest(led)
    BY <1>8 DEF After, JobBooks
  <2>13. /\ led[id] # NoJob => LaterOnly(led[id], next)
         /\ \/ next.updated = snap.updated /\ Agrees(next, snap)
            \/ led[id] # NoJob /\ SameWord(next, led[id])
    <3>1. led[id] = NoJob \/ led[id] \in JobRows
      BY <2>12
    <3>2. led[id] # NoJob /\ led[id].updated = snap.updated => Agrees(led[id], snap)
      BY <1>2, <1>3, <1>4, <1>6, <2>12 DEF Latest
    <3> QED
      BY <2>1, <3>1, <3>2, MergedStep
  <2>14. Latest(LedgerOf(e))
    <3>1. PICK p \in Nat : p = Dawn
      BY DayFacts DEF BInv
    <3>2. ASSUME NEW q \in Held, q.kind = "job", q.job = id, q.snapshot.updated = next.updated
          PROVE  Agrees(next, q.snapshot)
      <4>1. q.id \in Nat /\ q.snapshot.updated = p + q.id
        BY <3>1, <3>2 DEF BInv, RecordOK
      <4>2. CASE next.updated = snap.updated /\ Agrees(next, snap)
        <5>1. p + q.id = p + r.id
          BY <1>3, <1>6, <3>1, <3>2, <4>1, <4>2
        <5>2. q.id = r.id
          BY <1>3, <4>1, <5>1
        <5>3. q = r
          BY <1>1, <5>2, BatchRecord
        <5> QED
          BY <1>6, <4>2, <5>3
      <4>3. CASE led[id] # NoJob /\ SameWord(next, led[id])
        <5>1. Agrees(led[id], q.snapshot)
          BY <2>12, <3>2, <4>3 DEF Latest, SameWord
        <5> QED
          BY <4>3, <5>1 DEF Agrees, SameWord
      <4> QED
        BY <2>13, <4>2, <4>3
    <3>3. next.updated <= Now
      BY <1>3, <1>6, <2>12, <2>13 DEF Latest, SameWord
    <3>4. ASSUME NEW j \in JobIDs, new[j] # NoJob
          PROVE  /\ new[j].updated <= Now
                 /\ \A q \in Held : /\ q.kind = "job" /\ q.job = j
                                      /\ q.snapshot.updated = new[j].updated
                                      => Agrees(new[j], q.snapshot)
      <4>1. CASE j = id
        BY <2>1, <3>2, <3>3, <4>1
      <4>2. CASE j # id
        <5>1. new[j] = led[j]
          BY <2>1, <4>2
        <5> QED
          BY <2>12, <3>4, <5>1 DEF Latest
      <4> QED
        BY <4>1, <4>2
    <3> QED
      BY <2>4, <3>4 DEF Latest
  <2>7. ledger[id] # NoJob => FactsGrow(ledger[id], next)
    <3> SUFFICES ASSUME ledger[id] # NoJob PROVE FactsGrow(ledger[id], next)
      OBVIOUS
    <3>1. led[id] # NoJob /\ FactsGrow(led[id], next)
      BY <1>9, <2>1, <2>13 DEF FactsGrow
    <3>2. CASE d.checkpoints[id] = NoJob
      BY <1>9, <3>1, <3>2
    <3>3. CASE d.checkpoints[id] # NoJob
      <4>1. PICK a \in JobRows : a = ledger[id]
        BY <2>2
      <4>2. PICK b \in JobRows : b = d.checkpoints[id]
        BY <2>2, <3>3
      <4>3. FactsGrow(a, b)
        BY <3>3, <4>1, <4>2 DEF After
      <4>4. FactsGrow(b, next)
        BY <1>9, <3>1, <3>3, <4>2
      <4> QED
        BY <4>1, <4>3, <4>4, GrowthIsTransitive
    <3> QED
      BY <3>2, <3>3
  <2>8. ASSUME NEW j \in JobIDs
        PROVE  /\ db.checkpoints[j] # NoJob => e.checkpoints[j] # NoJob
               /\ ledger[j] # NoJob /\ e.checkpoints[j] # NoJob
                    => FactsGrow(ledger[j], e.checkpoints[j])
    <3>1. CASE j = id
      BY <2>2, <2>3, <2>7, <3>1
    <3>2. CASE j # id
      BY <2>3, <3>2 DEF After
    <3> QED
      BY <3>1, <3>2
  <2>9. ASSUME NEW i \in 1..(n + 1)
        PROVE  /\ batch[i].kind = "action" => batch[i].at \in e.actions
               /\ batch[i].kind = "job" /\ batch[i].register
                    => e.checkpoints[batch[i].job] # NoJob
    <3>1. CASE batch[i] = r
      BY <1>4, <2>2, <2>3, <3>1
    <3>2. CASE i \in 1..n
      <4>1. /\ batch[i].kind = "action" => batch[i].at \in d.actions
            /\ batch[i].kind = "job" /\ batch[i].register
                 => d.checkpoints[batch[i].job] # NoJob
        BY <3>2 DEF After
      <4>2. batch[i].kind = "job" => batch[i].job \in JobIDs
        <5>1. batch[i] \in Held
          BY <1>1, <3>2 DEF Held, Recs
        <5> QED
          BY <5>1 DEF BInv, RecordOK
      <4>3. \A j \in JobIDs : d.checkpoints[j] # NoJob => e.checkpoints[j] # NoJob
        BY <2>2, <2>3
      <4> QED
        BY <2>1, <4>1, <4>2, <4>3
    <3> QED
      BY <1>16, <3>1, <3>2
  <2>10. db.actions \subseteq e.actions
    BY <2>1 DEF After
  <2>11. After(n + 1, e)
    BY <2>1, <2>5, <2>6, <2>8, <2>9, <2>10, <2>14 DEF After
  <2> QED
    BY <1>12, <2>11
<1> QED
  BY <1>17, <1>18

\* A whole batch.
LEMMA AfterBatch ==
  ASSUME IInv, BInv
  PROVE  After(Len(batch), persistAll(db, batch))
<1>1. PICK N \in Nat : N = Len(batch)
  BY DEF IInv, Buffers, IsSeq
<1>2. db \in Tables /\ After(0, db)
  BY AfterNone DEF After
<1>3. \A n \in 0..(N - 1) : \A d : After(n, d) => After(n + 1, persist(d, batch[n + 1]))
  <2> TAKE n \in 0..(N - 1)
  <2> SUFFICES ASSUME NEW d, After(n, d) PROVE After(n + 1, persist(d, batch[n + 1]))
    OBVIOUS
  <2>1. PICK r : r = batch[n + 1]
    OBVIOUS
  <2>2. n \in 0..(Len(batch) - 1)
    BY <1>1
  <2>3. CASE r.kind = "action"
    BY <2>1, <2>2, <2>3, AfterAction
  <2>4. CASE r.kind # "action"
    BY <2>1, <2>2, <2>4, AfterJob
  <2> QED
    BY <2>1, <2>3, <2>4
<1>4. \A n : \A d : After(n, d) => d \in Tables
  BY DEF After
<1>5. PICK G \in [Tables \X (1..N) -> Tables] :
         \A d \in Tables, n \in 1..N :
           persist(d, batch[n]) \in Tables => G[<<d, n>>] = persist(d, batch[n])
  <2> DEFINE H == [p \in Tables \X (1..N) |->
                     IF persist(p[1], batch[p[2]]) \in Tables
                     THEN persist(p[1], batch[p[2]]) ELSE db]
  <2>1. H \in [Tables \X (1..N) -> Tables]
    BY <1>2
  <2>2. \A d \in Tables, n \in 1..N :
           persist(d, batch[n]) \in Tables => H[<<d, n>>] = persist(d, batch[n])
    OBVIOUS
  <2> HIDE DEF H
  <2> QED
    BY <2>1, <2>2
<1>7. PICK f \in [0..N -> Tables] :
         f[0] = db /\ \A n \in 1..N : f[n] = G[<<f[n - 1], n>>]
  <2>1. PICK f \in [0..N -> Tables] : Recurs(f, N, db, G)
    BY <1>2, RecursionExists
  <2>2. f[0] = db /\ \A n \in 1..N : f[n] = G[<<f[n - 1], n>>]
    BY <2>1 DEF Recurs
  <2> QED
    BY <2>2
<1>8. 0..N \subseteq {n \in 0..N : After(n, f[n])}
  <2> DEFINE T == {n \in 0..N : After(n, f[n])}
  <2>1. 0 \in T
    BY <1>2, <1>7
  <2>2. ASSUME NEW n \in 0..(N - 1), n \in T PROVE n + 1 \in T
    <3>1. n \in 0..N /\ n + 1 \in 1..N /\ n + 1 \in 0..N /\ (n + 1) - 1 = n
      OBVIOUS
    <3>2. After(n + 1, persist(f[n], batch[n + 1]))
      BY <1>3, <2>2
    <3>3. f[n + 1] = G[<<f[n], n + 1>>]
      BY <1>7, <3>1
    <3>4. G[<<f[n], n + 1>>] = persist(f[n], batch[n + 1])
      <4>1. f[n] \in Tables /\ persist(f[n], batch[n + 1]) \in Tables
        BY <1>4, <3>1, <3>2
      <4> QED
        BY <1>5, <3>1, <4>1
    <3> QED
      BY <3>1, <3>2, <3>3, <3>4
  <2> HIDE DEF T
  <2>3. 0..N \subseteq T
    BY <2>1, <2>2, Climb
  <2> QED
    BY <2>3 DEF T
<1>9. \A n \in 0..N : After(n, f[n])
  BY <1>8
<1>10. ASSUME NEW n \in 1..N PROVE f[n] = persist(f[n - 1], batch[n])
  <2>1. n - 1 \in 0..(N - 1) /\ n - 1 \in 0..N /\ (n - 1) + 1 = n
    OBVIOUS
  <2>2. After(n, persist(f[n - 1], batch[n]))
    BY <1>3, <1>9, <2>1
  <2>3. f[n - 1] \in Tables /\ persist(f[n - 1], batch[n]) \in Tables
    BY <1>4, <2>1, <2>2
  <2> QED
    BY <1>5, <1>7, <2>3
<1>11. f = [n \in 0..N |-> IF n = 0 THEN db ELSE persist(f[n - 1], batch[n])]
  <2>1. \A n \in 0..N : f[n] = IF n = 0 THEN db ELSE persist(f[n - 1], batch[n])
    <3> TAKE n \in 0..N
    <3>1. n = 0 \/ n \in 1..N
      OBVIOUS
    <3> QED
      BY <1>7, <1>10, <3>1
  <2> QED
    BY <2>1
<1> DEFINE h == CHOOSE g : g = [n \in 0..Len(batch) |->
                                  IF n = 0 THEN db ELSE persist(g[n - 1], batch[n])]
<1>12. persistAll(db, batch) = h[Len(batch)]
  BY DEF persistAll
<1>13. h = [n \in 0..Len(batch) |-> IF n = 0 THEN db ELSE persist(h[n - 1], batch[n])]
  BY <1>1, <1>11
<1> HIDE DEF h
<1>14. h[0] = db /\ \A n \in 1..N : h[n] = persist(h[n - 1], batch[n])
  BY <1>1, <1>13
<1>15. 0..N \subseteq {n \in 0..N : h[n] = f[n]}
  <2> DEFINE T == {n \in 0..N : h[n] = f[n]}
  <2>1. 0 \in T
    BY <1>7, <1>14
  <2>2. ASSUME NEW n \in 0..(N - 1), n \in T PROVE n + 1 \in T
    <3>1. n + 1 \in 1..N /\ n + 1 \in 0..N /\ (n + 1) - 1 = n
      OBVIOUS
    <3>2. h[n + 1] = persist(h[n], batch[n + 1]) /\ f[n + 1] = persist(f[n], batch[n + 1])
      BY <1>10, <1>14, <3>1
    <3> QED
      BY <2>2, <3>1, <3>2
  <2> HIDE DEF T
  <2>3. 0..N \subseteq T
    BY <2>1, <2>2, Climb
  <2> QED
    BY <2>3 DEF T
<1>16. N \in 0..N
  OBVIOUS
<1> QED
  BY <1>1, <1>9, <1>12, <1>15, <1>16

\* A transaction keeps the books, and finds every record of the batch again.
LEMMA CommittedBooks ==
  ASSUME IInv, BInv, Committed
  PROVE  /\ db' \in Tables /\ JobBooks(db', ledger') /\ ActionBooks(db', written')
         /\ Latest(ledger')
         /\ db.actions \subseteq db'.actions
         /\ \A j \in JobIDs :
              /\ db.checkpoints[j] # NoJob => db'.checkpoints[j] # NoJob
              /\ ledger[j] # NoJob /\ ledger'[j] # ledger[j]
                   => FactsGrow(ledger[j], ledger'[j])
              /\ ledger[j] # NoJob => ledger'[j] # NoJob
              /\ ledger'[j] # ledger[j] => db'.checkpoints[j] # NoJob
         /\ \A i \in DOMAIN batch :
              /\ batch[i].kind = "action" => batch[i].at \in db'.actions
              /\ batch[i].kind = "job" /\ batch[i].register
                   => db'.checkpoints[batch[i].job] # NoJob
<1>1. PICK d : d = persistAll(db, batch)
  OBVIOUS
<1>2. After(Len(batch), d)
  BY <1>1, AfterBatch
<1>3. db' = d
  BY <1>1 DEF Committed, writeBatch
<1>4. ledger' = LedgerOf(d)
  BY <1>3 DEF Committed, LedgerOf
<1>5. DOMAIN batch = 1..Len(batch)
  BY DEF IInv, Buffers, IsSeq
<1>6. written' = WrittenWith(Len(batch))
  BY <1>5 DEF Committed, WrittenWith, IDs
<1>7. \A j \in JobIDs : ledger'[j] = IF d.checkpoints[j] # NoJob THEN d.checkpoints[j]
                                     ELSE ledger[j]
  BY <1>4 DEF LedgerOf
<1>8. /\ d \in Tables /\ JobBooks(d, LedgerOf(d)) /\ ActionBooks(d, WrittenWith(Len(batch)))
      /\ Latest(LedgerOf(d))
      /\ db.actions \subseteq d.actions
      /\ \A j \in JobIDs :
           /\ db.checkpoints[j] # NoJob => d.checkpoints[j] # NoJob
           /\ ledger[j] # NoJob /\ d.checkpoints[j] # NoJob
                => FactsGrow(ledger[j], d.checkpoints[j])
      /\ \A i \in 1..Len(batch) :
           /\ batch[i].kind = "action" => batch[i].at \in d.actions
           /\ batch[i].kind = "job" /\ batch[i].register
                => d.checkpoints[batch[i].job] # NoJob
  BY <1>2 DEF After
<1> QED
  BY <1>3, <1>4, <1>5, <1>6, <1>7, <1>8

-----------------------------------------------------------------------------
(* The steps and the books.                                                 *)

\* Appending, taking and dropping records.
LEMMA RecsFacts ==
  /\ Recs(<<>>) = {}
  /\ \A s, r : IsSeq(s) => Recs(Append(s, r)) = Recs(s) \cup {r}
  /\ \A s : IsSeq(s) /\ s # <<>> => Recs(Tail(s)) \subseteq Recs(s) /\ Head(s) \in Recs(s)
<1>1. Recs(<<>>) = {}
  BY DEF Recs
<1>2. ASSUME NEW s, NEW r, IsSeq(s) PROVE Recs(Append(s, r)) = Recs(s) \cup {r}
  <2>1. PICK S : S = Recs(s) \cup {r}
    OBVIOUS
  <2>2. s \in Seq(S)
    BY <1>2, <2>1 DEF IsSeq, Recs
  <2>3. PICK t : t = Append(s, r)
    OBVIOUS
  <2>4. /\ Len(s) \in Nat /\ DOMAIN s = 1..Len(s) /\ DOMAIN t = 1..(Len(s) + 1)
        /\ \A i \in 1..Len(s) : t[i] = s[i]
        /\ t[Len(s) + 1] = r
    BY <2>1, <2>2, <2>3
  <2>5. \A i \in DOMAIN t : t[i] \in Recs(s) \cup {r}
    BY <2>4 DEF Recs
  <2>6. \A x \in Recs(s) \cup {r} : \E i \in DOMAIN t : t[i] = x
    BY <2>4 DEF Recs
  <2>7. Recs(t) = Recs(s) \cup {r}
    BY <2>5, <2>6 DEF Recs
  <2> QED
    BY <2>3, <2>7
<1>3. ASSUME NEW s, IsSeq(s), s # <<>>
      PROVE  Recs(Tail(s)) \subseteq Recs(s) /\ Head(s) \in Recs(s)
  <2>1. PICK S : S = Recs(s)
    OBVIOUS
  <2>2. s \in Seq(S)
    BY <1>3, <2>1 DEF IsSeq, Recs
  <2>3. PICK t : t = Tail(s)
    OBVIOUS
  <2>4. /\ Len(s) \in Nat \ {0} /\ DOMAIN s = 1..Len(s) /\ DOMAIN t = 1..(Len(s) - 1)
        /\ \A i \in 1..(Len(s) - 1) : t[i] = s[i + 1]
        /\ Head(s) = s[1]
    BY <1>3, <2>2, <2>3
  <2>5. \A i \in DOMAIN t : t[i] \in Recs(s)
    BY <2>4 DEF Recs
  <2>6. Head(s) \in Recs(s)
    BY <2>4 DEF Recs
  <2> QED
    BY <2>3, <2>5, <2>6 DEF Recs
<1> QED
  BY <1>1, <1>2, <1>3

\* The books do not depend on the hour: as time passes only the days that are
\* no longer kept are no longer vouched for.
LEMMA LaterBooks ==
  ASSUME BInv, ClockOK', UNCHANGED <<db, ledger, written>>, Now <= Now',
         today' # today => today' # 0,
         \A j \in JobIDs : registered[j] # Unknown => registered'[j] = registered[j]
  PROVE  (db \in Tables /\ JobBooks(db, ledger) /\ ActionBooks(db, written))'
<1>1. PICK a \in Nat : a = Now
  BY DayFacts DEF BInv
<1>2. Now' \in Nat
  <2>1. made' \in Nat /\ today' \in Nat
    BY SizesAssumption DEF ClockOK, Days
  <2>2. PICK n \in Nat : n = DayLength
    BY DayFacts DEF BInv
  <2>3. PICK p \in Nat : p = today'
    BY <2>1
  <2>4. p * n \in Nat
    OBVIOUS
  <2> QED
    BY <2>1, <2>2, <2>3, <2>4 DEF Now, DayLength
<1>3. PICK b \in Nat : b = Now'
  BY <1>2
<1>4. \A day \in Days : KeptDay(day)' => KeptDay(day)
  BY <1>1, <1>3, KeptBefore
<1>5. PICK d : d = db
  OBVIOUS
<1>6. db' = d /\ ledger' = ledger /\ written' = written /\ d \in Tables
  BY <1>5 DEF BInv
<1>7. JobBooks(db, ledger)'
  <2>1. \A j \in JobIDs : ledger[j] # NoJob => ledger[j].created = registered'[j]
    <3> SUFFICES ASSUME NEW j \in JobIDs, ledger[j] # NoJob
                 PROVE  ledger[j].created = registered'[j]
      OBVIOUS
    <3>1. ledger[j] \in JobRows /\ ledger[j].created = registered[j]
      BY DEF BInv, JobBooks
    <3>2. registered[j] # Unknown
      BY <3>1, UnknownAssumption DEF JobRows
    <3> QED
      BY <3>1, <3>2
  <2>2. \A day \in Days : KeptDay(day)' =>
          /\ d.rollups[day] = TotalsOf(JobsOn(ledger, day))
          /\ d.settings[day] = SettingsOf(JobsOn(ledger, day))
    BY <1>4, <1>5 DEF BInv, JobBooks
  <2> QED
    BY <1>5, <1>6, <2>1, <2>2 DEF BInv, JobBooks, NoJob, jobOutcome, TerminalOutcomes
<1>8. ActionBooks(db, written)'
  <2>1. /\ d.actions \subseteq 0..a
        /\ Total(d.actionCount) <= Cardinality(written)
        /\ \A day \in Days : KeptDay(day) =>
             d.actionCount[day] >= Cardinality(OnDay(d.actions, day))
        /\ today = 0 => d.actionCount[0] = Cardinality(d.actions)
        /\ Total(d.cpuDaily) <= d.cpuCursor /\ d.cpuCursor <= a
    BY <1>1, <1>5 DEF BInv, ActionBooks
  <2>2. d.cpuCursor \in Nat /\ a <= b
    BY <1>1, <1>3, <1>6 DEF Tables
  <2>3. d.actions \subseteq 0..b /\ d.cpuCursor <= b
    BY <2>1, <2>2
  <2>4. \A day \in Days : KeptDay(day)' =>
          d.actionCount[day] >= Cardinality(OnDay(d.actions, day))
    BY <1>4, <2>1
  <2>5. today' = 0 => d.actionCount[0] = Cardinality(d.actions)
    BY <2>1
  <2> QED
    BY <1>3, <1>6, <2>1, <2>3, <2>4, <2>5 DEF ActionBooks
<1> QED
  BY <1>6, <1>7, <1>8

\* Rows stay as late as they are when the records on their way leave, or later
\* ones join them.
LEMMA LatestStays ==
  ASSUME ledger' \in [JobIDs -> JobRows \cup {NoJob}], Latest(ledger'),
         NEW a \in Nat, a = Now, NEW b \in Nat, b = Now', a <= b,
         \A r \in Held' : r \in Held \/ (r.kind = "job" => r.snapshot.updated = a + 1)
  PROVE  Latest(ledger)'
<1>1. PICK led : led = ledger'
  OBVIOUS
<1>2. ASSUME NEW j \in JobIDs, led[j] # NoJob
      PROVE  /\ led[j].updated <= b
             /\ \A r \in Held' : /\ r.kind = "job" /\ r.job = j
                                   /\ r.snapshot.updated = led[j].updated
                                   => Agrees(led[j], r.snapshot)
  <2>1. led[j] \in JobRows
    BY <1>1, <1>2
  <2>2. led[j].updated \in Nat /\ led[j].updated <= a
    BY <1>1, <1>2, <2>1 DEF Latest, JobRows
  <2>3. ASSUME NEW r \in Held', r.kind = "job", r.job = j,
               r.snapshot.updated = led[j].updated
        PROVE  Agrees(led[j], r.snapshot)
    <3>1. r \in Held
      BY <2>2, <2>3
    <3> QED
      BY <1>1, <1>2, <2>3, <3>1 DEF Latest
  <2> QED
    BY <2>2, <2>3
<1> QED
  BY <1>1, <1>2 DEF Latest, Agrees, NoJob, TerminalOutcomes

\* Steps that leave the clock and the database alone and add no record.
LEMMA QuietBooks ==
  ASSUME BInv, UNCHANGED <<made, today, registered, db, written, ledger>>, Held' \subseteq Held
  PROVE  BInv'
<1>1. ClockOK' /\ Now' = Now /\ Dawn' = Dawn
  BY DEF BInv, ClockOK, Now, Dawn
<1>2. Now <= Now'
  <2>1. PICK a \in Nat : a = Now
    BY DayFacts DEF BInv
  <2> QED
    BY <1>1, <2>1
<1>3. (db \in Tables /\ JobBooks(db, ledger) /\ ActionBooks(db, written))'
  BY <1>1, <1>2, LaterBooks
<1>4. \A r \in Held' : (RecordOK(r) /\ FindsRow(r))'
  <2>1. SUFFICES ASSUME NEW r \in Held' PROVE RecordOK(r)' /\ FindsRow(r)'
    OBVIOUS
  <2>2. RecordOK(r) /\ FindsRow(r)
    BY DEF BInv
  <2>3. RecordOK(r)'
    BY <1>1, <2>2 DEF RecordOK
  <2>4. FindsRow(r)'
    BY <2>2 DEF FindsRow
  <2> QED
    BY <2>3, <2>4
<1>5. Latest(ledger)'
  <2>1. PICK a \in Nat : a = Now
    BY DayFacts DEF BInv
  <2>2. Latest(ledger') /\ ledger' \in [JobIDs -> JobRows \cup {NoJob}]
    BY DEF BInv, JobBooks
  <2>3. a = Now' /\ a <= a
    BY <1>1, <2>1
  <2> QED
    BY <2>1, <2>2, <2>3, LatestStays
<1> QED
  BY <1>1, <1>3, <1>4, <1>5 DEF BInv

\* A new record is of today, and finds no row of its own.
LEMMA OfferBooks ==
  ASSUME IInv, BInv, NEW s \in Senders, NEW rec, Offer(s, rec), ClockOK',
         \A j \in JobIDs : registered[j] # Unknown => registered'[j] = registered[j],
         RecordOK(rec)', FindsRow(rec)', rec.id = made + 1
  PROVE  BInv'
<1>1. PICK a \in Nat : a = Now
  BY DayFacts DEF BInv
<1>2. /\ made' = made + 1 /\ today' = today
      /\ UNCHANGED <<queue, pending, batch, db, written, ledger>>
  BY DEF Offer, writerVars, tables
<1>3. Now' = a + 1 /\ Dawn' = Dawn
  <2>1. PICK p \in Nat : p = Dawn
    BY DayFacts DEF BInv
  <2>2. made \in Nat
    BY DEF IInv, Control
  <2> QED
    BY <1>1, <1>2, <2>1, <2>2 DEF Now, Dawn, DayLength
<1>4. Now <= Now'
  BY <1>1, <1>3
<1>5. (db \in Tables /\ JobBooks(db, ledger) /\ ActionBooks(db, written))'
  BY <1>2, <1>4, LaterBooks
<1>6. Held' \subseteq Held \cup {rec}
  <2>1. \A t \in Senders : sender'[t] = sender[t] \/ sender'[t].rec = rec
    BY DEF Offer, IInv, SendersOK
  <2>2. \A t \in Senders : sender'[t] # Idle =>
           sender'[t].rec \in {sender[u].rec : u \in {v \in Senders : sender[v] # Idle}} \cup {rec}
    BY <2>1
  <2>3. Idle' = Idle
    BY DEF Idle
  <2> QED
    BY <1>2, <2>2, <2>3 DEF Held
<1>7. ASSUME NEW r \in Held PROVE RecordOK(r)' /\ FindsRow(r)'
  <2>1. RecordOK(r) /\ FindsRow(r)
    BY DEF BInv
  <2>2. FindsRow(r)'
    BY <1>2, <2>1 DEF FindsRow
  <2>3. CASE r \in [kind : {"action"}, id : Nat, at : Dawn..Now]
    <3>1. PICK p \in Nat : p = Dawn
      BY DayFacts DEF BInv
    <3>2. r \in [kind : {"action"}, id : Nat, at : p..(a + 1)]
      BY <1>1, <2>3, <3>1
    <3> QED
      BY <1>3, <2>2, <3>1, <3>2 DEF RecordOK
  <2>4. CASE ~(r \in [kind : {"action"}, id : Nat, at : Dawn..Now])
    <3>1. /\ r \in [kind : {"job"}, id : Nat, job : JobIDs, register : BOOLEAN,
                    snapshot : Snapshots]
          /\ r.snapshot.created = registered[r.job]
          /\ r.snapshot.created <= r.snapshot.updated
          /\ r.snapshot.updated = Dawn + r.id /\ r.snapshot.updated <= Now
          /\ r.register => Dawn <= r.snapshot.created
      BY <2>1, <2>4 DEF RecordOK
    <3>2. registered[r.job] # Unknown
      BY <3>1, UnknownAssumption DEF Snapshots
    <3>3. r.snapshot.created = registered'[r.job]
      BY <3>1, <3>2
    <3>4. r.snapshot.updated <= a + 1
      BY <1>1, <3>1 DEF Snapshots
    <3> QED
      BY <1>3, <2>2, <3>1, <3>3, <3>4 DEF RecordOK, Snapshots
  <2> QED
    BY <2>3, <2>4
<1>8. \A r \in Held' : (RecordOK(r) /\ FindsRow(r))'
  BY <1>6, <1>7
<1>9. Latest(ledger)'
  <2>1. Latest(ledger') /\ ledger' \in [JobIDs -> JobRows \cup {NoJob}]
    BY <1>2 DEF BInv, JobBooks
  <2>2. rec.kind = "job" => rec.snapshot.updated = a + 1
    <3>1. rec.kind = "job" => rec.snapshot.updated = Dawn' + rec.id
      BY DEF RecordOK
    <3>2. PICK p \in Nat : p = Dawn
      BY DayFacts DEF BInv
    <3>3. a = p + made /\ made \in Nat
      BY <1>1, <3>2 DEF Now, Dawn, IInv, Control
    <3> QED
      BY <1>3, <3>1, <3>2, <3>3
  <2>3. \A r \in Held' : r \in Held \/ (r.kind = "job" => r.snapshot.updated = a + 1)
    BY <1>6, <2>2
  <2>4. PICK b \in Nat : b = a + 1
    OBVIOUS
  <2> QED
    BY <1>1, <1>3, <2>1, <2>3, <2>4, LatestStays
<1> QED
  BY <1>5, <1>8, <1>9 DEF BInv

\* An action.
LEMMA RecordActionBooks ==
  ASSUME IInv, BInv, NEW s \in Senders, RecordAction(s)
  PROVE  BInv'
<1>1. PICK rec : rec = [kind |-> "action", id |-> made + 1, at |-> Now + 1]
  OBVIOUS
<1>2. Offer(s, rec) /\ registered' = registered
  BY <1>1 DEF RecordAction
<1>3. PICK a \in Nat : a = Now
  BY DayFacts DEF BInv
<1>4. PICK p \in Nat : p = Dawn
  BY DayFacts DEF BInv
<1>5. made \in Nat /\ made < MaxRecords /\ made' = made + 1 /\ today' = today
      /\ written' = written /\ written \subseteq 1..made /\ p <= a
      /\ registered \in [JobIDs -> (0..a) \cup {Unknown}]
  BY <1>2, <1>3, <1>4, DayFacts DEF Offer, IInv, Control, Accounted, BInv, ClockOK
<1>6. Now' = a + 1 /\ Dawn' = p
  BY <1>3, <1>4, <1>5 DEF Now, Dawn, DayLength
<1>7. ClockOK'
  <2>1. made' \in 0..MaxRecords /\ today' \in Days
    BY <1>5, SizesAssumption DEF BInv, ClockOK
  <2>2. registered \in [JobIDs -> (0..(a + 1)) \cup {Unknown}]
    BY <1>5
  <2> QED
    BY <1>2, <1>6, <2>1, <2>2 DEF ClockOK, Days
<1>8. RecordOK(rec)'
  <2>1. rec \in [kind : {"action"}, id : Nat, at : p..(a + 1)]
    BY <1>1, <1>3, <1>5
  <2> QED
    BY <1>6, <2>1 DEF RecordOK
<1>9. FindsRow(rec)'
  <2>1. rec.id \notin written /\ rec.kind # "job"
    BY <1>1, <1>5
  <2> QED
    BY <1>5, <2>1 DEF FindsRow
<1>10. rec.id = made + 1
  BY <1>1
<1> QED
  BY <1>2, <1>7, <1>8, <1>9, <1>10, OfferBooks

\* A snapshot of a job.
LEMMA ObserveJobBooks ==
  ASSUME IInv, BInv, NEW s \in Senders, NEW j \in JobIDs, NEW r \in Reports,
         ObserveJob(s, j, r)
  PROVE  BInv'
<1>1. PICK snap : snap = statsJob(j, r)
  OBVIOUS
<1>2. PICK rec : rec = [kind |-> "job", id |-> made + 1, job |-> j,
                        register |-> registered[j] = Unknown, snapshot |-> snap]
  OBVIOUS
<1>3. Offer(s, rec) /\ registered' = [registered EXCEPT ![j] = snap.created]
  BY <1>1, <1>2 DEF ObserveJob
<1>4. PICK a \in Nat : a = Now
  BY DayFacts DEF BInv
<1>5. PICK p \in Nat : p = Dawn
  BY DayFacts DEF BInv
<1>6. made \in Nat /\ made < MaxRecords /\ made' = made + 1 /\ today' = today
      /\ ledger' = ledger /\ p <= a
      /\ registered \in [JobIDs -> (0..a) \cup {Unknown}]
  BY <1>3, <1>4, <1>5, DayFacts DEF Offer, IInv, Control, BInv, ClockOK
<1>7. Now' = a + 1 /\ Dawn' = p
  BY <1>4, <1>5, <1>6 DEF Now, Dawn, DayLength
<1>8. /\ snap.created = IF registered[j] = Unknown THEN a + 1 ELSE registered[j]
      /\ snap.updated = a + 1 /\ snap \in Snapshots
  <2>1. /\ r.state \in {"open", "failed"}
        /\ r.observed \in {Unknown, "processing"} \cup TerminalOutcomes
        /\ r.accepted \in BOOLEAN /\ r.cancelAccepted \in BOOLEAN
        /\ r.documents \in Nat /\ r.sheets \in Int \cup {Unknown}
        /\ r.route \in SettingKeys
    BY JobsAssumption
  <2>2. PICK c : c = IF registered[j] = Unknown THEN a + 1 ELSE registered[j]
    OBVIOUS
  <2>3. c \in Nat
    BY <1>6, <2>2
  <2>4. PICK e : e = IF r.observed \in {"completed", "canceled", "aborted"} \/ r.state = "failed"
                     THEN a + 1 ELSE Unknown
    OBVIOUS
  <2>5. e \in Nat \cup {Unknown}
    BY <2>4
  <2>6. snap = [created |-> c, updated |-> a + 1, state |-> r.state,
                observed |-> r.observed, accepted |-> r.accepted,
                cancelAccepted |-> r.cancelAccepted, terminalAt |-> e,
                documents |-> r.documents, sheets |-> r.sheets, route |-> r.route]
    BY <1>1, <1>4, <2>2, <2>4 DEF statsJob
  <2>7. snap \in Snapshots
    BY <2>1, <2>3, <2>5, <2>6 DEF Snapshots
  <2> QED
    BY <2>2, <2>6, <2>7
<1>9. snap.created \in 0..(a + 1) /\ snap.created <= snap.updated
  BY <1>6, <1>8
<1>10. ClockOK'
  <2>1. made' \in 0..MaxRecords /\ today' \in Days
    BY <1>6, SizesAssumption DEF BInv, ClockOK
  <2>2. registered \in [JobIDs -> (0..(a + 1)) \cup {Unknown}]
    BY <1>6
  <2>3. registered' \in [JobIDs -> (0..(a + 1)) \cup {Unknown}]
    BY <1>3, <1>9, <2>2
  <2> QED
    BY <1>7, <2>1, <2>3 DEF ClockOK, Days
<1>11. /\ registered'[j] = snap.created
       /\ \A i \in JobIDs : registered[i] # Unknown => registered'[i] = registered[i]
  BY <1>3, <1>6, <1>8
<1>12. RecordOK(rec)'
  <2>1. rec \in [kind : {"job"}, id : Nat, job : JobIDs, register : BOOLEAN,
                 snapshot : Snapshots]
    BY <1>2, <1>6, <1>8
  <2>2. /\ rec.snapshot = snap /\ rec.job = j
        /\ rec.register => p <= snap.created
    <3>1. rec.register => registered[j] = Unknown
      BY <1>2
    <3>2. registered[j] = Unknown => p <= snap.created
      BY <1>6, <1>8
    <3> QED
      BY <1>2, <3>1, <3>2
  <2>3. snap.updated = p + rec.id /\ snap.updated <= a + 1
    <3>1. a = p + made
      BY <1>4, <1>5 DEF Now, Dawn
    <3> QED
      BY <1>2, <1>6, <1>8, <3>1
  <2> QED
    BY <1>7, <1>9, <1>11, <2>1, <2>2, <2>3 DEF RecordOK, Snapshots
<1>13. FindsRow(rec)'
  <2>1. rec.kind # "action" /\ rec.job = j
    BY <1>2
  <2>2. ASSUME rec.register PROVE ledger[j] = NoJob
    <3>1. registered[j] = Unknown
      BY <1>2, <2>2
    <3>2. CASE ledger[j] # NoJob
      <4>1. ledger[j] \in JobRows /\ ledger[j].created = Unknown
        BY <3>1, <3>2 DEF BInv, JobBooks
      <4> QED
        BY <4>1, UnknownAssumption DEF JobRows
    <3> QED
      BY <3>2
  <2> QED
    BY <1>6, <2>1, <2>2 DEF FindsRow, NoJob
<1>14. rec.id = made + 1
  BY <1>2
<1> QED
  BY <1>3, <1>10, <1>11, <1>12, <1>13, <1>14, OfferBooks

\* The books at an hour that has not changed.
LEMMA SameHour ==
  ASSUME UNCHANGED <<made, today, registered>>, JobBooks(db', ledger'), ActionBooks(db', written')
  PROVE  JobBooks(db, ledger)' /\ ActionBooks(db, written)'
<1>1. Now' = Now
  BY DEF Now
<1>2. \A day \in Days : KeptDay(day)' <=> KeptDay(day)
  BY <1>1 DEF KeptDay, cutoffDay
<1>3. JobBooks(db, ledger)'
  BY <1>2 DEF JobBooks
<1>4. ActionBooks(db, written)'
  BY <1>1, <1>2 DEF ActionBooks
<1> QED
  BY <1>3, <1>4

\* A committed transaction keeps the books, whatever it reports.
LEMMA CommitBooks ==
  ASSUME IInv, BInv, Committed, UNCHANGED <<made, today, registered>>, Held' \subseteq Held
  PROVE  BInv'
<1>1. ClockOK' /\ Now' = Now /\ Dawn' = Dawn
  BY DEF BInv, ClockOK, Now, Dawn
<1>2. /\ db' \in Tables /\ JobBooks(db', ledger') /\ ActionBooks(db', written')
      /\ Latest(ledger')
      /\ db.actions \subseteq db'.actions
      /\ \A j \in JobIDs :
           /\ db.checkpoints[j] # NoJob => db'.checkpoints[j] # NoJob
           /\ ledger'[j] # ledger[j] => db'.checkpoints[j] # NoJob
      /\ \A i \in DOMAIN batch :
           batch[i].kind = "action" => batch[i].at \in db'.actions
  BY CommittedBooks
<1>3. JobBooks(db, ledger)' /\ ActionBooks(db, written)'
  BY <1>2, SameHour
<1>4. (db \in Tables)'
  BY <1>2
<1>5. ASSUME NEW r \in Held PROVE RecordOK(r)' /\ FindsRow(r)'
  <2>1. RecordOK(r) /\ FindsRow(r)
    BY DEF BInv
  <2>2. RecordOK(r)'
    BY <1>1, <2>1 DEF RecordOK
  <2>3. r.kind = "action" /\ r.id \in written' => r.at \in db'.actions
    <3>1. SUFFICES ASSUME r.kind = "action", r.id \in written' PROVE r.at \in db'.actions
      OBVIOUS
    <3>2. CASE r.id \in written
      BY <1>2, <2>1, <3>1, <3>2 DEF FindsRow
    <3>3. CASE r.id \in IDs(batch)
      <4>1. PICK i \in DOMAIN batch : batch[i].id = r.id
        BY <3>3 DEF IDs
      <4>2. r = batch[i]
        BY <4>1, BatchRecord
      <4> QED
        BY <1>2, <3>1, <4>2
    <3> QED
      BY <3>1, <3>2, <3>3 DEF Committed
  <2>4. r.kind = "job" /\ r.register /\ ledger'[r.job] # NoJob
          => db'.checkpoints[r.job] # NoJob
    <3>1. SUFFICES ASSUME r.kind = "job", r.register, ledger'[r.job] # NoJob
                   PROVE  db'.checkpoints[r.job] # NoJob
      OBVIOUS
    <3>2. r.job \in JobIDs
      BY <2>1, <3>1 DEF RecordOK
    <3> QED
      BY <1>2, <2>1, <3>1, <3>2 DEF FindsRow
  <2> QED
    BY <2>2, <2>3, <2>4 DEF FindsRow, NoJob
<1>6. \A r \in Held' : (RecordOK(r) /\ FindsRow(r))'
  BY <1>5
<1>7. Latest(ledger)'
  <2>1. PICK a \in Nat : a = Now
    BY DayFacts DEF BInv
  <2>2. a = Now' /\ a <= a /\ ledger' \in [JobIDs -> JobRows \cup {NoJob}]
    BY <1>1, <1>2, <2>1 DEF JobBooks
  <2> QED
    BY <1>2, <2>1, <2>2, LatestStays
<1> QED
  BY <1>1, <1>3, <1>4, <1>6, <1>7 DEF BInv

\* A step that moves no record holds the same ones.
LEMMA SameHeld ==
  ASSUME UNCHANGED <<sender, queue, pending, batch>> PROVE Held' = Held
  BY DEF Held, Recs, Idle

\* The record moves into the queue or is dropped.
LEMMA SendBooks == ASSUME IInv, BInv, NEW s \in Senders, Send(s) PROVE BInv'
<1>1. /\ sender[s] # Idle /\ sender' = [sender EXCEPT ![s] = Idle]
      /\ UNCHANGED <<made, today, registered, pending, batch, db, written, ledger>>
  BY DEF Send, Idle, clock, writerVars, tables
<1>2. PICK R : R = {sender[u].rec : u \in {v \in Senders : sender[v] # Idle}}
  OBVIOUS
<1>3. sender[s].rec \in R
  BY <1>1, <1>2
<1>4. \A t \in Senders : sender'[t] # Idle => sender'[t].rec \in R
  <2>1. \A t \in Senders : sender'[t] = sender[t] \/ sender'[t] = Idle
    BY <1>1 DEF IInv, SendersOK
  <2> QED
    BY <1>2, <2>1
<1>5. Recs(queue') \subseteq Recs(queue) \cup R
  <2>1. queue' = Append(queue, sender[s].rec) \/ queue' = queue
    BY DEF Send
  <2>2. IsSeq(queue)
    BY DEF IInv, Buffers
  <2>3. Recs(Append(queue, sender[s].rec)) = Recs(queue) \cup {sender[s].rec}
    BY <2>2, RecsFacts
  <2> QED
    BY <1>3, <2>1, <2>3
<1>6. Held = Recs(queue) \cup Recs(pending) \cup Recs(batch) \cup R
  BY <1>2 DEF Held
<1>7. Held' \subseteq Recs(queue') \cup Recs(pending) \cup Recs(batch) \cup R
  BY <1>1, <1>4 DEF Held, Idle
<1>8. Held' \subseteq Held
  BY <1>5, <1>6, <1>7
<1> QED
  BY <1>1, <1>8, QuietBooks

\* What is taken from the queue or handed over stays on its way.
LEMMA MovedHeld ==
  ASSUME sender' = sender, Recs(queue') \subseteq Held, Recs(pending') \subseteq Held,
         Recs(batch') \subseteq Held
  PROVE  Held' \subseteq Held
<1>1. Held' = Recs(queue') \cup Recs(pending') \cup Recs(batch')
                \cup {sender[s].rec : s \in {t \in Senders : sender[t] # Idle}}
  BY DEF Held, Idle
<1>2. {sender[s].rec : s \in {t \in Senders : sender[t] # Idle}} \subseteq Held
  BY DEF Held
<1> QED
  BY <1>1, <1>2

\* flush hands records over.
LEMMA FlushHeld ==
  ASSUME NEW p, NEW m, flush(p, m)
  PROVE  Recs(pending') = {} /\ Recs(batch') \subseteq Recs(p)
  BY RecsFacts DEF flush

\* A record joins the pending ones.
LEMMA ReceiveBooks == ASSUME IInv, BInv, Receive PROVE BInv'
<1>1. /\ queue # <<>> /\ queue' = Tail(queue)
      /\ UNCHANGED <<made, today, registered, sender, db, written, ledger>>
  BY DEF Receive, clock, tables, ghosts
<1>2. IsSeq(queue) /\ IsSeq(pending)
  BY DEF IInv, Buffers
<1>3. PICK p : p = Append(pending, Head(queue))
  OBVIOUS
<1>4. /\ Recs(queue) \subseteq Held /\ Recs(pending) \subseteq Held
      /\ Recs(batch) \subseteq Held
  BY DEF Held
<1>5. Recs(queue') \subseteq Held /\ Recs(p) \subseteq Held
  BY <1>1, <1>2, <1>3, <1>4, RecsFacts
<1>6. Recs(pending') \subseteq Held /\ Recs(batch') \subseteq Held
  <2>1. CASE Len(p) >= BatchSize
    <3>1. flush(p, mode)
      BY <1>3, <2>1 DEF Receive
    <3> QED
      BY <1>5, <3>1, FlushHeld
  <2>2. CASE ~(Len(p) >= BatchSize)
    <3>1. pending' = p /\ batch' = batch
      BY <1>3, <2>2 DEF Receive
    <3> QED
      BY <1>4, <1>5, <3>1
  <2> QED
    BY <2>1, <2>2
<1>7. Held' \subseteq Held
  BY <1>1, <1>5, <1>6, MovedHeld
<1> QED
  BY <1>1, <1>7, QuietBooks

\* The pending records become a batch.
LEMMA HandOverBooks ==
  ASSUME IInv, BInv, NEW m, flush(pending, m),
         UNCHANGED <<made, today, registered, sender, queue, db, written, ledger>>
  PROVE  BInv'
<1>1. /\ Recs(queue) \subseteq Held /\ Recs(pending) \subseteq Held
  BY DEF Held
<1>2. PICK p : p = pending
  OBVIOUS
<1>3. Recs(pending') = {} /\ Recs(batch') \subseteq Recs(p)
  BY <1>2, FlushHeld
<1>4. Held' \subseteq Held
  BY <1>1, <1>2, <1>3, MovedHeld
<1> QED
  BY <1>4, QuietBooks

\* A batch is kept for the next attempt or forgotten.
LEMMA ForgottenHeld ==
  ASSUME UNCHANGED <<sender, queue, pending>>, batch' \in {batch, <<>>}
  PROVE  Held' \subseteq Held
<1>1. /\ Recs(queue) \subseteq Held /\ Recs(pending) \subseteq Held
      /\ Recs(batch) \subseteq Held
  BY DEF Held
<1>2. Recs(batch') \subseteq Held
  BY <1>1, RecsFacts
<1> QED
  BY <1>1, <1>2, MovedHeld

\* A failed attempt, with or without its commit.
LEMMA BatchFailsBooks == ASSUME IInv, BInv, BatchFails PROVE BInv'
<1>1. /\ UNCHANGED <<made, today, registered, sender, queue, pending>>
      /\ batch' \in {batch, <<>>}
  BY DEF BatchFails, clock
<1>2. Held' \subseteq Held
  BY <1>1, ForgottenHeld
<1>3. CASE Committed
  BY <1>1, <1>2, <1>3, CommitBooks
<1>4. CASE UNCHANGED <<tables, written, ledger>>
  BY <1>1, <1>2, <1>4, QuietBooks DEF tables
<1> QED
  BY <1>3, <1>4 DEF BatchFails

\* The end of the run: the last processor reading.
LEMMA FinishRunBooks == ASSUME IInv, BInv, FinishRun PROVE BInv'
<1>1. /\ UNCHANGED <<made, today, registered, sender, queue, pending, batch, written, ledger>>
      /\ db' = persistCPU(db, Now) \/ db' = db
  BY DEF FinishRun, clock
<1>2. Held' \subseteq Held
  BY <1>1, SameHeld
<1>3. CASE db' = db
  BY <1>1, <1>2, <1>3, QuietBooks
<1>4. CASE db' = persistCPU(db, Now)
  <2>1. ClockOK /\ db \in Tables /\ ActionBooks(db, written) /\ Now \in 0..Now
    BY DayFacts DEF BInv
  <2>2. PICK e : e = persistCPU(db, Now)
    OBVIOUS
  <2>3. PICK d \in Tables : d = db
    BY <2>1
  <2>4. /\ e \in Tables /\ ActionBooks(e, written)
        /\ e.actions = db.actions /\ e.checkpoints = db.checkpoints
        /\ e.rollups = db.rollups /\ e.settings = db.settings
    BY <2>1, <2>2, <2>3, PersistCPUBooks
  <2>5. JobBooks(e, ledger)
    BY <2>4 DEF BInv, JobBooks
  <2>6. db' = e /\ ledger' = ledger /\ written' = written
    BY <1>1, <1>4, <2>2
  <2>7. JobBooks(db, ledger)' /\ ActionBooks(db, written)' /\ (db \in Tables)'
    BY <1>1, <2>4, <2>5, <2>6, SameHour
  <2>8. ClockOK' /\ Now' = Now /\ Dawn' = Dawn
    BY <1>1 DEF BInv, ClockOK, Now, Dawn
  <2>9. ASSUME NEW r \in Held PROVE RecordOK(r)' /\ FindsRow(r)'
    <3>1. RecordOK(r) /\ FindsRow(r)
      BY DEF BInv
    <3>2. RecordOK(r)'
      BY <1>1, <2>8, <3>1 DEF RecordOK
    <3>3. FindsRow(r)'
      BY <2>4, <2>6, <3>1 DEF FindsRow
    <3> QED
      BY <3>2, <3>3
  <2>10. \A r \in Held' : (RecordOK(r) /\ FindsRow(r))'
    BY <1>2, <2>9
  <2>11. Latest(ledger)'
    <3>1. PICK h \in Nat : h = Now
      BY DayFacts DEF BInv
    <3>2. h = Now' /\ h <= h /\ Latest(ledger')
          /\ ledger' \in [JobIDs -> JobRows \cup {NoJob}]
      BY <1>1, <2>8, <3>1 DEF BInv, JobBooks
    <3> QED
      BY <1>2, <3>1, <3>2, LatestStays
  <2> QED
    BY <2>7, <2>8, <2>10, <2>11 DEF BInv
<1> QED
  BY <1>1, <1>3, <1>4

\* What Cleanup does to tables d: detail goes by its age, totals by their day.
LEMMA CleanedEffect ==
  ASSUME NEW d \in Tables, Now \in Int
  PROVE  /\ Cleaned(d) \in Tables
         /\ Cleaned(d).actions \subseteq d.actions
         /\ \A a \in d.actions : DetailRetention = 0 \/ a >= Now - DetailRetention
                                   => a \in Cleaned(d).actions
         /\ \A j \in JobIDs :
              /\ Cleaned(d).checkpoints[j] \in {d.checkpoints[j], NoJob}
              /\ d.checkpoints[j] # NoJob
                   /\ (\/ DetailRetention = 0 \/ jobOutcome(d.checkpoints[j]) = "unresolved"
                       \/ d.checkpoints[j].updated >= Now - DetailRetention)
                   => Cleaned(d).checkpoints[j] = d.checkpoints[j]
         /\ \A day \in Days :
              /\ KeptDay(day) => /\ Cleaned(d).actionCount[day] = d.actionCount[day]
                                 /\ Cleaned(d).rollups[day] = d.rollups[day]
                                 /\ Cleaned(d).settings[day] = d.settings[day]
              /\ Cleaned(d).actionCount[day] \in {0, d.actionCount[day]}
              /\ Cleaned(d).cpuDaily[day] \in {0, d.cpuDaily[day]}
         /\ Cleaned(d).cpuCursor = d.cpuCursor
<1>1. PICK cut \in Int : cut = Now - DetailRetention
  BY SizesAssumption
<1>2. DetailRetention \in Nat
  BY SizesAssumption
<1>3. PICK A : A = {a \in d.actions : ~(DetailRetention > 0) \/ a >= cut}
  OBVIOUS
<1>4. PICK J : J = [j \in JobIDs |->
                     IF DetailRetention > 0 /\ d.jobs[j] # NoJob /\ d.jobs[j].created < cut
                     THEN NoJob ELSE d.jobs[j]]
  OBVIOUS
<1>5. PICK C : C = [j \in JobIDs |->
                     IF /\ DetailRetention > 0 /\ d.checkpoints[j] # NoJob
                        /\ jobOutcome(d.checkpoints[j]) # "unresolved"
                        /\ d.checkpoints[j].updated < cut
                     THEN NoJob ELSE d.checkpoints[j]]
  OBVIOUS
<1>6. PICK N : N = [day \in Days |-> IF KeptDay(day) THEN d.actionCount[day] ELSE 0]
  OBVIOUS
<1>7. PICK R : R = [day \in Days |-> IF KeptDay(day) THEN d.rollups[day] ELSE EmptyRollup]
  OBVIOUS
<1>8. PICK S : S = [day \in Days |-> IF KeptDay(day) THEN d.settings[day]
                                     ELSE [k \in SettingKeys |-> 0]]
  OBVIOUS
<1>9. PICK P : P = [day \in Days |-> IF KeptDay(day) THEN d.cpuDaily[day] ELSE 0]
  OBVIOUS
<1>10. PICK e : e = [d EXCEPT !.actions = A, !.jobs = J, !.checkpoints = C,
                              !.actionCount = N, !.rollups = R, !.settings = S,
                              !.cpuDaily = P]
  OBVIOUS
<1>11. Cleaned(d) = e
  BY <1>1, <1>3, <1>4, <1>5, <1>6, <1>7, <1>8, <1>9, <1>10 DEF Cleaned
<1>12. /\ d.actions \in SUBSET Nat /\ d.actionCount \in [Days -> Nat]
       /\ d.checkpoints \in [JobIDs -> JobRows \cup {NoJob}]
       /\ d.jobs \in [JobIDs -> JobRows \cup {NoJob}]
       /\ d.rollups \in [Days -> [DOMAIN EmptyRollup -> Nat]]
       /\ d.settings \in [Days -> [SettingKeys -> Nat]]
       /\ d.cpuDaily \in [Days -> Nat]
  BY DEF Tables
<1>13. A \in SUBSET Nat
  BY <1>3, <1>12
<1>14. J \in [JobIDs -> JobRows \cup {NoJob}]
  BY <1>4, <1>12
<1>15. C \in [JobIDs -> JobRows \cup {NoJob}]
  BY <1>5, <1>12
<1>16. N \in [Days -> Nat] /\ P \in [Days -> Nat]
  BY <1>6, <1>9, <1>12
<1>17. R \in [Days -> [DOMAIN EmptyRollup -> Nat]]
  <2>1. EmptyRollup \in [DOMAIN EmptyRollup -> Nat]
    BY DEF EmptyRollup
  <2> QED
    BY <1>7, <1>12, <2>1
<1>18. S \in [Days -> [SettingKeys -> Nat]]
  BY <1>8, <1>12
<1>19. /\ e \in Tables /\ e.actions = A /\ e.checkpoints = C /\ e.actionCount = N
       /\ e.rollups = R /\ e.settings = S /\ e.cpuDaily = P /\ e.cpuCursor = d.cpuCursor
  BY <1>10, <1>13, <1>14, <1>15, <1>16, <1>17, <1>18 DEF Tables
<1>20. A \subseteq d.actions /\ \A a \in d.actions : DetailRetention = 0 \/ a >= cut => a \in A
  BY <1>2, <1>3
<1>21. ASSUME NEW j \in JobIDs
       PROVE  /\ C[j] \in {d.checkpoints[j], NoJob}
              /\ d.checkpoints[j] # NoJob
                   /\ (\/ DetailRetention = 0 \/ jobOutcome(d.checkpoints[j]) = "unresolved"
                       \/ d.checkpoints[j].updated >= cut)
                   => C[j] = d.checkpoints[j]
  <2>1. C[j] \in {d.checkpoints[j], NoJob}
    BY <1>5
  <2>2. ASSUME d.checkpoints[j] # NoJob, d.checkpoints[j].updated >= cut
        PROVE  C[j] = d.checkpoints[j]
    <3>1. d.checkpoints[j].updated \in Nat
      BY <1>12, <2>2 DEF JobRows
    <3>2. ~(d.checkpoints[j].updated < cut)
      BY <2>2, <3>1
    <3> QED
      BY <1>5, <3>2
  <2>3. ASSUME DetailRetention = 0 \/ jobOutcome(d.checkpoints[j]) = "unresolved"
        PROVE  C[j] = d.checkpoints[j]
    <3>1. ~(DetailRetention > 0) \/ jobOutcome(d.checkpoints[j]) = "unresolved"
      BY <1>2, <2>3
    <3> QED
      BY <1>5, <3>1
  <2> QED
    BY <2>1, <2>2, <2>3
<1>22. \A day \in Days :
         /\ KeptDay(day) => N[day] = d.actionCount[day] /\ R[day] = d.rollups[day]
                            /\ S[day] = d.settings[day]
         /\ N[day] \in {0, d.actionCount[day]} /\ P[day] \in {0, d.cpuDaily[day]}
  BY <1>6, <1>7, <1>8, <1>9
<1> QED
  BY <1>1, <1>11, <1>19, <1>20, <1>21, <1>22

\* What is on its way is younger than what Cleanup removes.
LEMMA TodayIsYoung ==
  ASSUME ClockOK
  PROVE  /\ DetailRetention = 0 \/ Dawn >= Now - DetailRetention
         /\ 0 \in Days
         /\ today = 0 => KeptDay(0) /\ Dawn = 0
<1>1. PICK a \in Nat : a = Now
  BY DayFacts
<1>2. PICK n \in Nat \ {0} : n = DayLength
  BY DayFacts
<1>3. PICK p \in Nat : p = Dawn
  BY DayFacts
<1>4. a < p + n /\ DetailRetention \in Nat /\ RollupRetention \in Nat
  BY <1>1, <1>2, <1>3, DayFacts, SizesAssumption
<1>5. DetailRetention = 0 \/ Dawn >= Now - DetailRetention
  BY <1>1, <1>2, <1>3, <1>4, RetentionAssumption
<1>6. 0 \in Days
  BY SizesAssumption DEF Days
<1>7. ASSUME today = 0 PROVE KeptDay(0) /\ Dawn = 0
  <2>1. p = 0
    BY <1>2, <1>3, <1>7 DEF Dawn
  <2>2. PICK t \in Int : t = a - RollupRetention
    BY <1>4
  <2>3. t < n
    BY <1>4, <2>1, <2>2
  <2>4. PICK q \in Int : q = t \div n /\ n * q <= t
    BY DivBounds
  <2>5. q <= 0
    <3>1. CASE q >= 1
      <4>1. n * q >= n * 1
        BY <3>1
      <4> QED
        BY <2>3, <2>4, <4>1
    <3> QED
      BY <3>1
  <2>6. cutoffDay = q
    BY <1>1, <1>2, <2>2, <2>4 DEF cutoffDay, dayString
  <2>7. ~(0 < q)
    BY <2>5
  <2> QED
    BY <1>3, <2>1, <2>6, <2>7 DEF KeptDay
<1> QED
  BY <1>5, <1>6, <1>7

\* Cleanup keeps the books of the days that it keeps, and every row that a
\* record on its way still needs.
LEMMA CleanupBooks == ASSUME IInv, BInv, Cleanup PROVE BInv'
<1>1. /\ UNCHANGED <<made, today, registered, sender, queue, pending, batch, written, ledger>>
      /\ db' = Cleaned(db) \/ db' = db
  BY DEF Cleanup, clock, writerVars, ghosts
<1>2. Held' \subseteq Held
  BY <1>1, SameHeld
<1>3. CASE db' = db
  BY <1>1, <1>2, <1>3, QuietBooks
<1>4. CASE db' = Cleaned(db)
  <2>1. PICK a \in Nat : a = Now
    BY DayFacts DEF BInv
  <2>2. PICK d \in Tables : d = db
    BY DEF BInv
  <2>3. PICK e : e = Cleaned(d)
    OBVIOUS
  <2>4. PICK cut \in Int : cut = a - DetailRetention
    BY SizesAssumption
  <2>5. /\ e \in Tables
        /\ e.actions \subseteq d.actions
        /\ \A x \in d.actions : DetailRetention = 0 \/ x >= cut => x \in e.actions
        /\ \A j \in JobIDs :
             /\ e.checkpoints[j] \in {d.checkpoints[j], NoJob}
             /\ d.checkpoints[j] # NoJob
                  /\ (\/ DetailRetention = 0 \/ jobOutcome(d.checkpoints[j]) = "unresolved"
                      \/ d.checkpoints[j].updated >= cut)
                  => e.checkpoints[j] = d.checkpoints[j]
        /\ \A day \in Days :
             /\ KeptDay(day) => /\ e.actionCount[day] = d.actionCount[day]
                                /\ e.rollups[day] = d.rollups[day]
                                /\ e.settings[day] = d.settings[day]
             /\ e.actionCount[day] \in {0, d.actionCount[day]}
             /\ e.cpuDaily[day] \in {0, d.cpuDaily[day]}
        /\ e.cpuCursor = d.cpuCursor
    BY <2>1, <2>3, <2>4, CleanedEffect
  <2>6. db' = e /\ ledger' = ledger /\ written' = written
    BY <1>1, <1>4, <2>2, <2>3
  <2>7. ClockOK
    BY DEF BInv
  <2>8. PICK p \in Nat : p = Dawn
    BY <2>7, DayFacts
  <2>9. DetailRetention = 0 \/ p >= cut
    BY <2>1, <2>4, <2>7, <2>8, TodayIsYoung
  <2>10. JobBooks(e, ledger)
    <3>1. /\ ledger \in [JobIDs -> JobRows \cup {NoJob}]
          /\ \A j \in JobIDs :
               /\ d.checkpoints[j] # NoJob => ledger[j] = d.checkpoints[j]
               /\ ledger[j] # NoJob => ledger[j].created = registered[j]
                                       /\ ledger[j].created <= ledger[j].updated
               /\ ledger[j] # NoJob /\ jobOutcome(ledger[j]) = "unresolved"
                    => d.checkpoints[j] = ledger[j]
          /\ \A day \in Days : KeptDay(day) =>
               /\ d.rollups[day] = TotalsOf(JobsOn(ledger, day))
               /\ d.settings[day] = SettingsOf(JobsOn(ledger, day))
      BY <2>2 DEF BInv, JobBooks
    <3>2. ASSUME NEW j \in JobIDs
          PROVE  /\ e.checkpoints[j] # NoJob => ledger[j] = e.checkpoints[j]
                 /\ ledger[j] # NoJob /\ jobOutcome(ledger[j]) = "unresolved"
                      => e.checkpoints[j] = ledger[j]
      BY <2>5, <3>1
    <3>3. \A day \in Days : KeptDay(day) =>
               /\ e.rollups[day] = TotalsOf(JobsOn(ledger, day))
               /\ e.settings[day] = SettingsOf(JobsOn(ledger, day))
      BY <2>5, <3>1
    <3> QED
      BY <3>1, <3>2, <3>3 DEF JobBooks
  <2>11. ActionBooks(e, written)
    <3>1. /\ d.actions \subseteq 0..a
          /\ Total(d.actionCount) <= Cardinality(written)
          /\ \A day \in Days : KeptDay(day) =>
               d.actionCount[day] >= Cardinality(OnDay(d.actions, day))
          /\ today = 0 => d.actionCount[0] = Cardinality(d.actions)
          /\ Total(d.cpuDaily) <= d.cpuCursor /\ d.cpuCursor <= a
      BY <2>1, <2>2 DEF BInv, ActionBooks
    <3>2. /\ IsFiniteSet(Days) /\ d.actionCount \in [Days -> Nat] /\ d.cpuDaily \in [Days -> Nat]
          /\ e.actionCount \in [Days -> Nat] /\ e.cpuDaily \in [Days -> Nat]
          /\ d.cpuCursor \in Nat
      BY <2>5, <2>7, DayFacts DEF Tables
    <3>3. /\ Total(d.actionCount) \in Nat /\ Total(d.cpuDaily) \in Nat
          /\ Total(e.actionCount) \in Nat /\ Total(e.cpuDaily) \in Nat
      BY <3>2, TotalType
    <3>4. Total(e.actionCount) <= Total(d.actionCount)
      <4>1. \A day \in Days : e.actionCount[day] <= d.actionCount[day]
        BY <2>5, <3>2
      <4> QED
        BY <3>2, <4>1, TotalMonotone
    <3>5. Total(e.cpuDaily) <= Total(d.cpuDaily)
      <4>1. \A day \in Days : e.cpuDaily[day] <= d.cpuDaily[day]
        BY <2>5, <3>2
      <4> QED
        BY <3>2, <4>1, TotalMonotone
    <3>6. Cardinality(written) \in Nat
      <4>1. written \subseteq 1..made /\ made \in Nat
        BY DEF IInv, Accounted, Control
      <4>2. PICK x \in Int : x = 1
        OBVIOUS
      <4>3. PICK y \in Int : y = made
        BY <4>1
      <4>4. IsFiniteSet(x..y)
        BY FS_Interval
      <4> QED
        BY <4>1, <4>2, <4>3, <4>4, FS_Subset, FS_CardinalityType
    <3>7. Total(e.actionCount) <= Cardinality(written) /\ Total(e.cpuDaily) <= e.cpuCursor
      BY <2>5, <3>1, <3>2, <3>3, <3>4, <3>5, <3>6
    <3>8. ASSUME NEW day \in Days, KeptDay(day)
          PROVE  e.actionCount[day] >= Cardinality(OnDay(e.actions, day))
      <4>1. OnDay(e.actions, day) \subseteq OnDay(d.actions, day)
        BY <2>5 DEF OnDay
      <4>2. OnDay(d.actions, day) \subseteq 0..Now
        BY <2>1, <3>1 DEF OnDay
      <4>3. /\ Cardinality(OnDay(e.actions, day)) <= Cardinality(OnDay(d.actions, day))
            /\ Cardinality(OnDay(e.actions, day)) \in Nat
            /\ Cardinality(OnDay(d.actions, day)) \in Nat
        BY <2>7, <4>1, <4>2, PastFinite
      <4>4. e.actionCount[day] \in Nat /\ e.actionCount[day] = d.actionCount[day]
            /\ d.actionCount[day] >= Cardinality(OnDay(d.actions, day))
        BY <2>5, <3>1, <3>2, <3>8
      <4> QED
        BY <4>3, <4>4
    <3>9. ASSUME today = 0 PROVE e.actionCount[0] = Cardinality(e.actions)
      <4>1. 0 \in Days /\ KeptDay(0) /\ p = 0
        BY <2>7, <2>8, <3>9, TodayIsYoung
      <4>2. \A x \in d.actions : DetailRetention = 0 \/ x >= cut
        BY <2>9, <3>1, <4>1
      <4>3. e.actions = d.actions
        BY <2>5, <4>2
      <4> QED
        BY <2>5, <3>1, <3>9, <4>1, <4>3
    <3>10. e.actions \subseteq 0..a /\ e.cpuCursor <= a
      BY <2>5, <3>1
    <3> QED
      BY <2>1, <3>7, <3>8, <3>9, <3>10 DEF ActionBooks
  <2>12. JobBooks(db, ledger)' /\ ActionBooks(db, written)' /\ (db \in Tables)'
    BY <1>1, <2>5, <2>6, <2>10, <2>11, SameHour
  <2>13. ClockOK' /\ Now' = Now /\ Dawn' = Dawn
    BY <1>1 DEF BInv, ClockOK, Now, Dawn
  <2>14. ASSUME NEW r \in Held PROVE RecordOK(r)' /\ FindsRow(r)'
    <3>1. RecordOK(r) /\ FindsRow(r)
      BY DEF BInv
    <3>2. RecordOK(r)'
      BY <1>1, <2>13, <3>1 DEF RecordOK
    <3>3. r.kind = "action" /\ r.id \in written => r.at \in e.actions
      <4>1. SUFFICES ASSUME r.kind = "action", r.id \in written PROVE r.at \in e.actions
        OBVIOUS
      <4>2. r.at \in Nat /\ r.at >= p
        BY <2>1, <2>8, <3>1, <4>1 DEF RecordOK
      <4>3. DetailRetention = 0 \/ r.at >= cut
        BY <2>9, <4>2
      <4>4. r.at \in d.actions
        BY <2>2, <3>1, <4>1 DEF FindsRow
      <4> QED
        BY <2>5, <4>3, <4>4
    <3>4. r.kind = "job" /\ r.register /\ ledger[r.job] # NoJob => e.checkpoints[r.job] # NoJob
      <4>1. SUFFICES ASSUME r.kind = "job", r.register, ledger[r.job] # NoJob
                     PROVE  e.checkpoints[r.job] # NoJob
        OBVIOUS
      <4>2. PICK j \in JobIDs : j = r.job
        BY <3>1, <4>1 DEF RecordOK
      <4>3. d.checkpoints[j] # NoJob /\ d.checkpoints[j] = ledger[j] /\ ledger[j] \in JobRows
        BY <2>2, <3>1, <4>1, <4>2 DEF FindsRow, BInv, JobBooks
      <4>4. /\ ledger[j].created = registered[j] /\ ledger[j].created <= ledger[j].updated
        BY <4>1, <4>2 DEF BInv, JobBooks
      <4>5. p <= registered[j]
        BY <2>8, <3>1, <4>1, <4>2 DEF RecordOK
      <4>6. ledger[j].created \in Nat /\ ledger[j].updated \in Nat
        BY <4>3 DEF JobRows
      <4>7. DetailRetention = 0 \/ d.checkpoints[j].updated >= cut
        BY <2>9, <4>3, <4>4, <4>5, <4>6
      <4>8. e.checkpoints[j] = d.checkpoints[j]
        BY <2>5, <4>3, <4>7
      <4> QED
        BY <4>2, <4>3, <4>8
    <3>5. FindsRow(r)'
      BY <2>6, <3>3, <3>4 DEF FindsRow, NoJob
    <3> QED
      BY <3>2, <3>5
  <2>15. \A r \in Held' : (RecordOK(r) /\ FindsRow(r))'
    BY <1>2, <2>14
  <2>16. Latest(ledger)'
    <3>1. PICK h \in Nat : h = Now
      BY DayFacts DEF BInv
    <3>2. h = Now' /\ h <= h /\ Latest(ledger')
          /\ ledger' \in [JobIDs -> JobRows \cup {NoJob}]
      BY <1>1, <2>13, <3>1 DEF BInv, JobBooks
    <3> QED
      BY <1>2, <3>1, <3>2, LatestStays
  <2> QED
    BY <2>12, <2>13, <2>15, <2>16 DEF BInv
<1> QED
  BY <1>1, <1>3, <1>4

\* Midnight comes when nothing is on its way.
LEMMA NextDayBooks == ASSUME IInv, BInv, NextDay PROVE BInv'
<1>1. /\ today < LastDay /\ InFlight = {} /\ today' = today + 1
      /\ UNCHANGED <<made, registered, sender, queue, pending, batch, db, written, ledger>>
  BY DEF NextDay, writerVars, tables, ghosts
<1>2. Held = {}
  <2>1. IDs(queue) = {} /\ IDs(pending) = {} /\ IDs(batch) = {}
        /\ {sender[s].rec.id : s \in {t \in Senders : sender[t] # Idle}} = {}
    BY <1>1 DEF InFlight
  <2>2. Recs(queue) = {} /\ Recs(pending) = {} /\ Recs(batch) = {}
    BY <2>1 DEF IDs, Recs
  <2>3. {sender[s].rec : s \in {t \in Senders : sender[t] # Idle}} = {}
    BY <2>1
  <2> QED
    BY <2>2, <2>3 DEF Held
<1>3. Held' = {}
  BY <1>1, <1>2, SameHeld
<1>4. PICK a \in Nat : a = Now
  BY DayFacts DEF BInv
<1>5. PICK n \in Nat : n = DayLength
  BY DayFacts DEF BInv
<1>6. today \in Nat /\ made \in Nat /\ LastDay \in Nat
  BY SizesAssumption, DayFacts DEF BInv, ClockOK, Days
<1>7. PICK b \in Nat : b = Now' /\ a <= b
  <2>1. PICK t \in Nat : t = today
    BY <1>6
  <2>2. t * n \in Nat /\ (t + 1) * n = t * n + n
    OBVIOUS
  <2>3. a = t * n + made
    BY <1>4, <1>5, <2>1 DEF Now
  <2>4. Now' = (t + 1) * n + made
    BY <1>1, <1>5, <2>1 DEF Now, DayLength
  <2> QED
    BY <1>6, <2>2, <2>3, <2>4
<1>8. ClockOK'
  <2>1. today' \in Days /\ made' \in 0..MaxRecords
    BY <1>1, <1>6 DEF BInv, ClockOK, Days
  <2>2. registered \in [JobIDs -> (0..a) \cup {Unknown}]
    BY <1>4 DEF BInv, ClockOK
  <2>3. registered \in [JobIDs -> (0..b) \cup {Unknown}]
    BY <1>7, <2>2
  <2> QED
    BY <1>1, <1>7, <2>1, <2>3 DEF ClockOK, Days
<1>9. Now <= Now' /\ today' # 0
  BY <1>1, <1>4, <1>6, <1>7
<1>10. (db \in Tables /\ JobBooks(db, ledger) /\ ActionBooks(db, written))'
  BY <1>1, <1>8, <1>9, LaterBooks
<1>11. Latest(ledger)'
  <2>1. Latest(ledger') /\ ledger' \in [JobIDs -> JobRows \cup {NoJob}]
    BY <1>1 DEF BInv, JobBooks
  <2> QED
    BY <1>3, <1>4, <1>7, <2>1, LatestStays
<1> QED
  BY <1>3, <1>8, <1>10, <1>11 DEF BInv

\* A new process holds nothing, and reads the processor anew.
LEMMA RestartBooks == ASSUME IInv, BInv, Restart PROVE BInv'
<1>1. /\ sender' = [s \in Senders |-> Idle] /\ queue' = <<>> /\ pending' = <<>> /\ batch' = <<>>
      /\ db' = [db EXCEPT !.cpuCursor = Now]
      /\ UNCHANGED <<made, today, registered, written, ledger>>
  BY DEF Restart, clock
<1>2. Held' = {}
  <2>1. Recs(<<>>) = {}
    BY RecsFacts
  <2>2. {sender'[s].rec : s \in {t \in Senders : sender'[t] # Idle}} = {}
    BY <1>1
  <2> QED
    BY <1>1, <2>1, <2>2 DEF Held, Idle
<1>3. PICK a \in Nat : a = Now
  BY DayFacts DEF BInv
<1>4. PICK d \in Tables : d = db
  BY DEF BInv
<1>5. PICK e : e = [d EXCEPT !.cpuCursor = a]
  OBVIOUS
<1>6. /\ e \in Tables /\ e.actions = d.actions /\ e.checkpoints = d.checkpoints
      /\ e.rollups = d.rollups /\ e.settings = d.settings
      /\ e.actionCount = d.actionCount /\ e.cpuDaily = d.cpuDaily /\ e.cpuCursor = a
  BY <1>5 DEF Tables
<1>7. db' = e /\ ledger' = ledger /\ written' = written
  BY <1>1, <1>3, <1>4, <1>5
<1>8. JobBooks(e, ledger)
  BY <1>4, <1>6 DEF BInv, JobBooks
<1>9. ActionBooks(e, written)
  <2>1. Total(d.cpuDaily) \in Nat /\ d.cpuCursor \in Nat
    <3>1. d.cpuDaily \in [Days -> Nat] /\ IsFiniteSet(Days)
      BY DayFacts DEF Tables, BInv
    <3> QED
      BY <3>1, TotalType DEF Tables
  <2>2. Total(d.cpuDaily) <= d.cpuCursor /\ d.cpuCursor <= a
    BY <1>3, <1>4 DEF BInv, ActionBooks
  <2>3. Total(e.cpuDaily) <= e.cpuCursor /\ e.cpuCursor <= a
    BY <1>6, <2>1, <2>2
  <2> QED
    BY <1>3, <1>4, <1>6, <2>3 DEF BInv, ActionBooks
<1>10. JobBooks(db, ledger)' /\ ActionBooks(db, written)' /\ (db \in Tables)'
  BY <1>1, <1>6, <1>7, <1>8, <1>9, SameHour
<1>11. ClockOK'
  BY <1>1 DEF BInv, ClockOK, Now
<1>12. Latest(ledger)'
  <2>1. Latest(ledger') /\ ledger' \in [JobIDs -> JobRows \cup {NoJob}]
    BY <1>1 DEF BInv, JobBooks
  <2>2. a = Now' /\ a <= a
    BY <1>1, <1>3 DEF Now
  <2> QED
    BY <1>2, <1>3, <2>1, <2>2, LatestStays
<1> QED
  BY <1>2, <1>10, <1>11, <1>12 DEF BInv

\* An empty function adds up to nothing, and so does one that is zero everywhere.
LEMMA TotalOfNothing ==
  ASSUME NEW D, NEW f \in [D -> {0}]
  PROVE  Total(f) = 0
<1>1. DOMAIN f = D /\ \A x \in D : 1..f[x] = {}
  <2>1. \A x \in D : f[x] = 0
    OBVIOUS
  <2> QED
    BY <2>1
<1>2. \A x \in D : {x} \X (1..f[x]) = {}
  BY <1>1
<1>3. UNION {{x} \X (1..f[x]) : x \in DOMAIN f} = {}
  BY <1>1, <1>2
<1> QED
  BY <1>3, FS_EmptySet DEF Total

\* Before the first record everything is empty.
LEMMA InitBooks == Init => BInv
<1> SUFFICES ASSUME Init PROVE BInv
  OBVIOUS
<1>1. /\ made = 0 /\ today = 0 /\ registered = [j \in JobIDs |-> Unknown]
      /\ sender = [s \in Senders |-> Idle]
      /\ queue = <<>> /\ pending = <<>> /\ batch = <<>>
      /\ db = EmptyDB /\ written = {} /\ ledger = [j \in JobIDs |-> NoJob]
  BY DEF Init
<1>2. ClockOK
  BY <1>1, SizesAssumption DEF ClockOK, Days
<1>3. Held = {}
  <2>1. {sender[s].rec : s \in {t \in Senders : sender[t] # Idle}} = {}
    BY <1>1
  <2> QED
    BY <1>1, <2>1, RecsFacts DEF Held
<1>4. PICK none : none = [c \in DOMAIN EmptyRollup |-> 0]
  OBVIOUS
<1>5. EmptyRollup = none /\ none \in [DOMAIN EmptyRollup -> Nat]
  <2>1. DOMAIN EmptyRollup = SumColumns \cup {"completion_max_ns"}
    BY Columns
  <2> QED
    BY <1>4, <2>1 DEF EmptyRollup
<1>6. /\ db.actions = {} /\ db.actionCount = [day \in Days |-> 0]
      /\ db.checkpoints = [j \in JobIDs |-> NoJob]
      /\ db.rollups = [day \in Days |-> EmptyRollup]
      /\ db.settings = [day \in Days |-> [k \in SettingKeys |-> 0]]
      /\ db.cpuCursor = 0 /\ db.cpuDaily = [day \in Days |-> 0]
  BY <1>1 DEF EmptyDB
<1>7. db \in Tables
  BY <1>1, <1>5 DEF EmptyDB, Tables
<1>8. Now = 0
  <2>1. DayLength \in Nat
    BY SizesAssumption DEF DayLength
  <2> QED
    BY <1>1, <2>1 DEF Now
<1>9. JobBooks(db, ledger)
  <2>1. ASSUME NEW day \in Days
        PROVE  /\ db.rollups[day] = TotalsOf(JobsOn(ledger, day))
               /\ db.settings[day] = SettingsOf(JobsOn(ledger, day))
    <3>1. PICK f : f = JobsOn(ledger, day)
      OBVIOUS
    <3>2. DOMAIN f = {}
      BY <1>1, <3>1 DEF JobsOn
    <3>3. ASSUME NEW c \in SumColumns PROVE SumOver(f, c) = 0
      <4>1. PICK g : g = [j \in DOMAIN f |-> contribution(f[j])[c]]
        OBVIOUS
      <4>2. DOMAIN g = {}
        BY <3>2, <4>1
      <4> QED
        BY <4>1, <4>2, TotalEmpty DEF SumOver
    <3>4. ASSUME NEW c PROVE Max({0} \cup {contribution(f[j])[c] : j \in DOMAIN f}) = 0
      <4>1. {0} \cup {contribution(f[j])[c] : j \in DOMAIN f} = {0}
        BY <3>2
      <4>2. Max({0}) = 0
        BY MaxIs
      <4> QED
        BY <4>1, <4>2
    <3>5. TotalsOf(f) = none
      BY <1>4, <3>3, <3>4 DEF TotalsOf
    <3>6. SettingsOf(f) = [k \in SettingKeys |-> 0]
      <4>1. ASSUME NEW k PROVE Cardinality({j \in DOMAIN f : f[j].route = k}) = 0
        <5>1. {j \in DOMAIN f : f[j].route = k} = {}
          BY <3>2
        <5> QED
          BY <5>1, FS_EmptySet
      <4> QED
        BY <4>1 DEF SettingsOf
    <3> QED
      BY <1>5, <1>6, <3>1, <3>5, <3>6
  <2>2. ledger \in [JobIDs -> JobRows \cup {NoJob}]
    BY <1>1
  <2> QED
    BY <1>1, <1>6, <2>1, <2>2 DEF JobBooks
<1>10. ActionBooks(db, written)
  <2>1. Total(db.actionCount) = 0 /\ Total(db.cpuDaily) = 0
    <3>1. db.actionCount \in [Days -> {0}] /\ db.cpuDaily \in [Days -> {0}]
      BY <1>6
    <3> QED
      BY <3>1, TotalOfNothing
  <2>2. Cardinality(written) = 0 /\ Cardinality(db.actions) = 0
    BY <1>1, <1>6, FS_EmptySet
  <2>3. \A day : OnDay(db.actions, day) = {}
    BY <1>6 DEF OnDay
  <2>4. 0 \in Days
    BY SizesAssumption DEF Days
  <2>5. \A day \in Days : db.actionCount[day] >= Cardinality(OnDay(db.actions, day))
    BY <1>6, <2>3, FS_EmptySet
  <2>6. db.actions \subseteq 0..Now
    BY <1>6
  <2>7. db.actionCount[0] = Cardinality(db.actions)
    BY <1>6, <2>2, <2>4
  <2>8. /\ Total(db.actionCount) <= Cardinality(written)
        /\ Total(db.cpuDaily) <= db.cpuCursor /\ db.cpuCursor <= Now
    BY <1>6, <1>8, <2>1, <2>2
  <2> QED
    BY <2>5, <2>6, <2>7, <2>8 DEF ActionBooks
<1>11. Latest(ledger)
  BY <1>1 DEF Latest
<1> QED
  BY <1>2, <1>3, <1>7, <1>9, <1>10, <1>11 DEF BInv

\* Every step keeps the books.
LEMMA StepBooks == IInv /\ BInv /\ [Next]_vars => BInv'
<1> SUFFICES ASSUME IInv, BInv, [Next]_vars PROVE BInv'
  OBVIOUS
<1>1. ASSUME NEW s \in Senders, RecordAction(s) PROVE BInv'
  BY <1>1, RecordActionBooks
<1>2. ASSUME NEW s \in Senders, NEW j \in JobIDs, NEW r \in Reports, ObserveJob(s, j, r)
      PROVE  BInv'
  BY <1>2, ObserveJobBooks
<1>3. ASSUME NEW s \in Senders, Send(s) PROVE BInv'
  BY <1>3, SendBooks
<1>4. CASE Receive
  BY <1>4, ReceiveBooks
<1>5. CASE Tick
  BY <1>5, HandOverBooks DEF Tick, clock, tables, ghosts
<1>6. CASE DrainEnds
  BY <1>6, HandOverBooks DEF DrainEnds, clock, tables, ghosts
<1>7. CASE SeeStop
  <2>1. Held' \subseteq Held
    BY <1>7, SameHeld DEF SeeStop
  <2> QED
    BY <1>7, <2>1, QuietBooks DEF SeeStop, clock, tables, ghosts
<1>8. CASE BatchCommitted
  <2>1. Held' \subseteq Held
    BY <1>8, SameHeld DEF BatchCommitted
  <2> QED
    BY <1>8, <2>1, CommitBooks DEF BatchCommitted, clock
<1>9. CASE BatchFails
  BY <1>9, BatchFailsBooks
<1>10. CASE BatchDone
  <2>1. Held' \subseteq Held
    BY <1>10, ForgottenHeld DEF BatchDone
  <2> QED
    BY <1>10, <2>1, QuietBooks DEF BatchDone, clock, tables, ghosts
<1>11. CASE FinishRun
  BY <1>11, FinishRunBooks
<1>12. CASE Close
  <2>1. Held' \subseteq Held
    BY <1>12, SameHeld DEF Close, writerVars
  <2> QED
    BY <1>12, <2>1, QuietBooks DEF Close, clock, tables, ghosts
<1>13. CASE Cleanup
  BY <1>13, CleanupBooks
<1>14. CASE NextDay
  BY <1>14, NextDayBooks
<1>15. CASE Restart
  BY <1>15, RestartBooks
<1>16. CASE UNCHANGED vars
  <2>1. Held' \subseteq Held
    BY <1>16, SameHeld DEF vars
  <2> QED
    BY <1>16, <2>1, QuietBooks DEF vars
<1> QED
  BY <1>1, <1>2, <1>3, <1>4, <1>5, <1>6, <1>7, <1>8, <1>9, <1>10, <1>11, <1>12, <1>13,
     <1>14, <1>15, <1>16 DEF Next, WriterStep

\* Only a committed transaction changes the ledger, and it takes no fact back.
LEMMA StepFacts ==
  IInv /\ BInv /\ [Next]_vars =>
    \A j \in JobIDs : ledger[j] # NoJob /\ ledger'[j] # ledger[j]
                        => FactsGrow(ledger[j], ledger'[j])
<1> SUFFICES ASSUME IInv, BInv, [Next]_vars, ledger' # ledger
             PROVE  \A j \in JobIDs : ledger[j] # NoJob /\ ledger'[j] # ledger[j]
                                        => FactsGrow(ledger[j], ledger'[j])
  OBVIOUS
<1>1. Committed
  <2>1. \A s \in Senders : ~RecordAction(s) /\ ~Send(s)
    BY DEF RecordAction, Offer, Send
  <2>2. \A s \in Senders, j \in JobIDs, r \in Reports : ~ObserveJob(s, j, r)
    BY DEF ObserveJob, Offer
  <2>3. ~Receive /\ ~Tick /\ ~SeeStop /\ ~DrainEnds /\ ~BatchDone /\ ~FinishRun
    BY DEF Receive, Tick, SeeStop, DrainEnds, BatchDone, FinishRun, ghosts
  <2>4. ~Close /\ ~Cleanup /\ ~NextDay /\ ~Restart /\ ~UNCHANGED vars
    BY DEF Close, Cleanup, NextDay, Restart, ghosts, vars
  <2>5. BatchCommitted \/ BatchFails
    BY <2>1, <2>2, <2>3, <2>4 DEF Next, WriterStep
  <2> QED
    BY <2>5 DEF BatchCommitted, BatchFails
<1> QED
  BY <1>1, CommittedBooks

-----------------------------------------------------------------------------
(* Theorems.                                                                *)

\* enqueue, writerLoop, Close and New keep the invariant in every order.
THEOREM Invariance == Spec => []IInv
<1>1. Init => IInv
  BY InitInv
<1>2. IInv /\ [Next]_vars => IInv'
  BY StepInv
<1> QED
  BY <1>1, <1>2, PTL DEF Spec

\* enqueue, writerLoop and Close: with any number of senders and any sizes, a
\* record is on its way, written, counted as dropped or lost with a process;
\* nothing is left behind when the writer has gone; and while the process
\* lives the drop counter is the number of dropped records.
THEOREM RecordsAreAccounted == Spec => []NothingSilentlyLost
<1>1. IInv => NothingSilentlyLost
  <2> SUFFICES ASSUME IInv PROVE NothingSilentlyLost
    OBVIOUS
  <2>1. InFlight = IDs(queue) \cup IDs(pending) \cup IDs(batch) \cup Offered
    BY DEF InFlight, Offered
  <2>2. 1..made = InFlight \cup written \cup dropped \cup lost
    BY <2>1 DEF IInv, Accounted
  <2>3. writer = "done" => queue = <<>> /\ pending = <<>> /\ batch = <<>>
    BY DEF IInv, Phases
  <2>4. restarts = 0 => health.dropped = Cardinality(dropped)
    BY DEF IInv, Counted
  <2> QED
    BY <2>2, <2>3, <2>4 DEF NothingSilentlyLost
<1> QED
  BY <1>1, Invariance, PTL

\* flush and finishRun: after a finished run every drop that happened before
\* Close is in the database.
THEOREM DropsAreSaved == Spec => []DropsSurviveClose
<1>1. IInv => DropsSurviveClose
  BY DEF IInv
<1> QED
  BY <1>1, Invariance, PTL

\* The buffers stay within the sizes of the configuration, and a batch is
\* never tried more often than allowed.
THEOREM BuffersAreBounded ==
  Spec => [](/\ Len(queue) <= QueueSize /\ Len(pending) < BatchSize
             /\ Len(batch) <= BatchSize /\ attempt < Attempts)
<1>1. IInv => /\ Len(queue) <= QueueSize /\ Len(pending) < BatchSize
              /\ Len(batch) <= BatchSize /\ attempt < Attempts
  BY SizesAssumption DEF IInv, Buffers, Control
<1> QED
  BY <1>1, Invariance, PTL

\* persistJob: whatever a snapshot of a known job says and however late it
\* comes, acceptance, times, counters, settings and an outcome reported by the
\* printer stay; a snapshot made before the stored one leaves the job's state,
\* on which every other outcome rests, and the last observation alone as well;
\* and no other job is touched.
THEOREM FactsAreKept ==
  ASSUME NEW d \in Databases, NEW id \in JobIDs, NEW register \in BOOLEAN,
         NEW snap \in Snapshots, NEW day \in Days, NEW retained \in BOOLEAN
  PROVE  LET e == persistJob(d, id, register, snap, day, retained)
         IN  /\ d.checkpoints[id] # NoJob => FactsKept(d.checkpoints[id], e.checkpoints[id])
             /\ d.checkpoints[id] # NoJob /\ snap.updated < d.checkpoints[id].updated
                  => SameWord(e.checkpoints[id], d.checkpoints[id])
             /\ \A j \in JobIDs \ {id} : e.checkpoints[j] = d.checkpoints[j]
<1>1. PICK e : e = persistJob(d, id, register, snap, day, retained)
  OBVIOUS
<1>2. d.checkpoints \in [JobIDs -> JobRows \cup {NoJob}]
  BY DEF Databases
<1>3. \A j \in JobIDs \ {id} : e.checkpoints[j] = d.checkpoints[j]
  BY <1>1, <1>2 DEF persistJob, Databases
<1>4. ASSUME d.checkpoints[id] # NoJob
      PROVE  /\ FactsKept(d.checkpoints[id], e.checkpoints[id])
             /\ snap.updated < d.checkpoints[id].updated
                  => SameWord(e.checkpoints[id], d.checkpoints[id])
  <2>1. PICK old \in JobRows : old = d.checkpoints[id]
    BY <1>2, <1>4
  <2>2. PICK new \in JobRows : new = mergeJob(old, snap) /\ FactsKept(old, new)
    BY MergeEffect
  <2>3. DropNegative(new) = new
    BY DropNegativeEffect
  <2>4. e.checkpoints[id] = new
    BY <1>1, <1>2, <1>4, <2>1, <2>2, <2>3 DEF persistJob, Databases
  <2>5. ASSUME snap.updated < old.updated PROVE SameWord(new, old)
    <3>1. ~(snap.updated >= old.updated)
      BY <2>5 DEF JobRows, Snapshots
    <3> QED
      BY <2>2, <3>1 DEF mergeJob, SameWord
  <2> QED
    BY <2>1, <2>2, <2>4, <2>5
<1> QED
  BY <1>1, <1>3, <1>4

\* Records whose day is one of the days that totals are kept for.
Records ==
  {r \in [kind : {"action"}, id : Nat, at : Nat] : dayString(r.at) \in Days}
    \cup {r \in [kind : {"job"}, id : Nat, job : JobIDs, register : BOOLEAN,
                  snapshot : Snapshots] : dayString(r.snapshot.created) \in Days}

\* persistAction, persistCPU and persistJob: a record that is written once more,
\* after a commit whose result was lost, changes no table.
THEOREM WrittenAgain ==
  ASSUME NEW d \in Databases, NEW r \in Records
  PROVE  persist(persist(d, r), r) = persist(d, r)
<1>1. CASE r.kind = "action"
  <2>1. r.at \in Nat /\ dayString(r.at) \in Days
    BY <1>1 DEF Records
  <2>2. PICK day \in Days : day = dayString(r.at)
    BY <2>1
  <2>3. PICK e : e = persistAction(d, r)
    OBVIOUS
  <2>4. e \in Databases /\ r.at \in e.actions
    <3>1. CASE r.at \in d.actions
      BY <2>3, <3>1 DEF persistAction
    <3>2. CASE r.at \notin d.actions
      <4>1. e = [d EXCEPT !.actions = @ \cup {r.at}, !.actionCount[day] = @ + 1]
        BY <2>2, <2>3, <3>2 DEF persistAction
      <4>2. /\ d.actions \cup {r.at} \in SUBSET Nat
            /\ [d.actionCount EXCEPT ![day] = @ + 1] \in [Days -> Int]
        BY <2>1 DEF Databases
      <4> QED
        BY <4>1, <4>2 DEF Databases
    <3> QED
      BY <3>1, <3>2
  <2>5. PICK f : f = persistCPU(e, r.at)
    OBVIOUS
  <2>6. /\ r.at \in f.actions
        /\ ~CPU \/ r.at <= f.cpuCursor
    <3>1. CASE ~CPU \/ r.at <= e.cpuCursor
      BY <2>4, <2>5, <3>1 DEF persistCPU
    <3>2. CASE ~(~CPU \/ r.at <= e.cpuCursor)
      <4>1. f = [e EXCEPT !.cpuDaily[day] = @ + (r.at - e.cpuCursor), !.cpuCursor = r.at]
        BY <2>2, <2>5, <3>2 DEF persistCPU
      <4>2. f.actions = e.actions /\ f.cpuCursor = r.at
        BY <2>4, <4>1 DEF Databases
      <4>3. r.at <= f.cpuCursor
        BY <2>1, <4>2
      <4> QED
        BY <2>4, <4>2, <4>3
    <3> QED
      BY <3>1, <3>2
  <2>7. persist(d, r) = f
    BY <1>1, <2>3, <2>5 DEF persist
  <2>8. persistAction(f, r) = f
    BY <2>6 DEF persistAction
  <2>9. persistCPU(f, r.at) = f
    BY <2>6 DEF persistCPU
  <2>10. persist(f, r) = f
    BY <1>1, <2>8, <2>9 DEF persist
  <2> QED
    BY <2>7, <2>10
<1>2. CASE r.kind # "action"
  <2>1. /\ r.job \in JobIDs /\ r.register \in BOOLEAN /\ r.snapshot \in Snapshots
        /\ dayString(r.snapshot.created) \in Days
    BY <1>2 DEF Records
  <2>2. PICK day \in Days : day = dayString(r.snapshot.created)
    BY <2>1
  <2>3. PICK retained \in BOOLEAN : retained = retainRollup(day)
    BY DEF retainRollup
  <2>4. PICK id \in JobIDs : id = r.job
    BY <2>1
  <2>5. PICK register \in BOOLEAN : register = r.register
    BY <2>1
  <2>6. PICK snap \in Snapshots : snap = r.snapshot
    BY <2>1
  <2>7. PICK e : e = persistJob(d, id, register, snap, day, retained)
    OBVIOUS
  <2>8. persistJob(e, id, register, snap, day, retained) = e
    BY <2>7, JobAgain
  <2>9. persist(d, r) = e /\ persist(e, r) = persistJob(e, id, register, snap, day, retained)
    BY <1>2, <2>2, <2>3, <2>4, <2>5, <2>6, <2>7 DEF persist
  <2> QED
    BY <2>8, <2>9
<1> QED
  BY <1>1, <1>2

\* persist, writeBatch, Cleanup and New keep the books: in every order of the
\* steps, and for any number of records, jobs, days, batches and retries, the
\* stored rows and totals are those of what was written.
THEOREM BooksAreKept == Spec => [](IInv /\ BInv)
<1>1. Init => IInv /\ BInv
  BY InitInv, InitBooks
<1>2. (IInv /\ BInv) /\ [Next]_vars => (IInv /\ BInv)'
  BY StepInv, StepBooks
<1> QED
  BY <1>1, <1>2, PTL DEF Spec

\* Types of the collector, and that no total goes below zero although
\* persistJob adds differences.
THEOREM TypesAreKept == Spec => []TypeOK
<1>1. IInv /\ BInv => TypeOK
  <2> SUFFICES ASSUME IInv, BInv PROVE TypeOK
    OBVIOUS
  <2>1. made \in 0..MaxRecords /\ today \in Days
    BY DEF BInv, ClockOK
  <2>2. Len(queue) <= QueueSize /\ Len(pending) < BatchSize /\ Len(batch) <= BatchSize
    BY DEF IInv, Buffers
  <2>3. /\ closed \in BOOLEAN /\ attempt \in 0..(Attempts - 1)
        /\ writer \in {"select", "writing", "written", "finish", "done"}
        /\ mode \in {"run", "drain", "final"}
    BY DEF IInv, Control
  <2>4. health \in [dropped : Nat, errors : Nat]
    BY DEF IInv, Control, Health
  <2>5. /\ db.rollups \in [Days -> [DOMAIN EmptyRollup -> Nat]]
        /\ db.settings \in [Days -> [SettingKeys -> Nat]]
        /\ db.actionCount \in [Days -> Nat] /\ db.cpuDaily \in [Days -> Nat]
        /\ db.checkpoints \in [JobIDs -> JobRows \cup {NoJob}]
        /\ db.jobs \in [JobIDs -> JobRows \cup {NoJob}]
    BY DEF BInv, Tables
  <2>6. \A j \in JobIDs : /\ db.checkpoints[j] \in JobRows \cup {NoJob}
                          /\ db.jobs[j] \in JobRows \cup {NoJob}
    BY <2>5
  <2> QED
    BY <2>1, <2>2, <2>3, <2>4, <2>5, <2>6 DEF TypeOK
<1> QED
  BY <1>1, BooksAreKept, PTL

\* writeBatchWithRetry, persistAction and persistCPU: however often a batch is
\* tried and although a commit may report an error, an action is counted once
\* and no more processor time than has passed.
THEOREM ActionsCountOnce == Spec => []CountedOnce
<1>1. IInv /\ BInv => CountedOnce
  <2> SUFFICES ASSUME IInv, BInv PROVE CountedOnce
    OBVIOUS
  <2>1. ActionBooks(db, written) /\ db \in Tables /\ ClockOK
    BY DEF BInv
  <2>2. Total(db.cpuDaily) \in Nat /\ db.cpuCursor \in Nat /\ Now \in Nat
    <3>1. IsFiniteSet(Days) /\ db.cpuDaily \in [Days -> Nat] /\ Now \in Nat
      BY <2>1, DayFacts DEF Tables
    <3> QED
      BY <2>1, <3>1, TotalType DEF Tables
  <2>3. Total(db.cpuDaily) <= Now
    BY <2>1, <2>2 DEF ActionBooks
  <2>4. \A d \in Days : KeptDay(d) =>
          db.actionCount[d] >= Cardinality({a \in db.actions : dayString(a) = d})
    BY <2>1 DEF ActionBooks, OnDay
  <2>5. /\ Total(db.actionCount) <= Cardinality(written)
        /\ today = 0 => db.actionCount[0] = Cardinality(db.actions)
    BY <2>1 DEF ActionBooks
  <2> QED
    BY <2>3, <2>4, <2>5 DEF CountedOnce
<1> QED
  BY <1>1, BooksAreKept, PTL

\* persistJob and Cleanup: the totals of every day that is kept are those of
\* the jobs submitted on it, each with its last merged state, and a job without
\* an outcome keeps its checkpoint.
THEOREM TotalsMatchJobs == Spec => []RollupsMatchJobs
<1>1. BInv => RollupsMatchJobs
  <2> SUFFICES ASSUME BInv PROVE RollupsMatchJobs
    OBVIOUS
  <2>1. \A d \in Days : KeptDay(d) =>
          /\ db.rollups[d] = TotalsOf(JobsOn(ledger, d))
          /\ db.settings[d] = SettingsOf(JobsOn(ledger, d))
    BY DEF BInv, JobBooks
  <2>2. \A j \in JobIDs : ledger[j] # NoJob /\ jobOutcome(ledger[j]) = "unresolved"
                            => db.checkpoints[j] = ledger[j]
    BY DEF BInv, JobBooks
  <2> QED
    BY <2>1, <2>2 DEF RollupsMatchJobs, JobsOn
<1> QED
  BY <1>1, BooksAreKept, PTL

\* mergeJob over whole batches, in any order of snapshots and with any retries:
\* what is known of a job stays, an outcome reported by the printer included,
\* and what the proxy last said of it changes only with a snapshot made later
\* than all that was merged before.
THEOREM FactsNeverShrink == Spec => JobFactsOnlyGrow
<1>1. IInv /\ BInv /\ [Next]_vars =>
        [\A j \in JobIDs : ledger[j] # NoJob /\ ledger'[j] # ledger[j]
                             => FactsGrow(ledger[j], ledger'[j])]_vars
  BY StepFacts
<1> QED
  BY <1>1, BooksAreKept, PTL DEF Spec, JobFactsOnlyGrow
=============================================================================
