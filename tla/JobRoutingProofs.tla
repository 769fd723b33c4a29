--------------------------- MODULE JobRoutingProofs ---------------------------
(***************************************************************************)
(* Proofs about JobRouting: what reaches the printer keeps the policy of   *)
(* the queue and is translated as its job says, and what is advertised is  *)
(* honoured, for every set of clients, requests, answers of the printer    *)
(* and policies.                                                           *)
(*                                                                         *)
(* Most of the work is about the operators: what is picked from a          *)
(* sequence, the instances of a medium, the projected policy, the          *)
(* normalised request, the routes of a snapshot.  The two that walk a list *)
(* (Picked, matchingInstances) are recursive functions; that such a        *)
(* function exists is lemma RecursionExists, what it returns an induction  *)
(* over positions (lemma Climb).  The invariant then only has to say where *)
(* each value a handler holds came from.                                   *)
(***************************************************************************)
EXTENDS JobRouting, WellFoundedInduction, NaturalsInduction, FiniteSetTheorems, TLAPS

-----------------------------------------------------------------------------
(* Least numbers, induction and recursion.                                  *)

\* A set of natural numbers that holds some number has a least one.
LEMMA LeastNat ==
  ASSUME NEW S \in SUBSET Nat, S # {}
  PROVE  \E n \in S : \A m \in S : n <= m
<1>1. PICK R : R = OpToRel(<, Nat)
  OBVIOUS
<1>2. IsWellFoundedOn(R, Nat)
  BY <1>1, NatLessThanWellFounded
<1>3. PICK x \in S : \A y \in S : ~(<<y, x>> \in R)
  BY <1>2, WFMin
<1>4. \A a, b \in Nat : a < b => <<a, b>> \in R
  BY <1>1 DEF OpToRel
<1>5. \A y \in S : ~(y < x)
  BY <1>3, <1>4
<1>6. \A y \in S : x <= y
  BY <1>5
<1> QED
  BY <1>6

\* Induction up to N, for a set.
LEMMA Climb ==
  ASSUME NEW N \in Nat, NEW T, 0 \in T, \A n \in 0..(N - 1) : n \in T => n + 1 \in T
  PROVE  0..N \subseteq T
<1> SUFFICES ASSUME ~(0..N \subseteq T) PROVE FALSE
  OBVIOUS
<1>1. PICK n \in (0..N) \ T : \A m \in (0..N) \ T : n <= m
  <2>1. (0..N) \ T # {} /\ (0..N) \ T \in SUBSET Nat
    OBVIOUS
  <2> QED
    BY <2>1, LeastNat
<1>2. n # 0 /\ n - 1 \in 0..(N - 1) /\ n - 1 + 1 = n
  BY <1>1
<1>3. n - 1 \in T
  BY <1>1, <1>2
<1> QED
  BY <1>1, <1>2, <1>3

\* A function on 0..N that is defined by recursion, every value from the one
\* before it.
Recurs(f, N, b, G) == f[0] = b /\ \A n \in 1..N : f[n] = G[<<f[n - 1], n>>]

\* Such a function exists.
LEMMA RecursionExists ==
  ASSUME NEW N \in Nat, NEW S, NEW b \in S, NEW G \in [S \X (1..N) -> S]
  PROVE  \E f \in [0..N -> S] : Recurs(f, N, b, G)
<1> DEFINE OK(f, m) == f[0] = b /\ \A n \in 1..m : f[n] = G[<<f[n - 1], n>>]
           T == {m \in 0..N : \E f \in [0..N -> S] : OK(f, m)}
<1>1. 0 \in T
  <2>1. PICK f \in [0..N -> S] : f = [n \in 0..N |-> b]
    OBVIOUS
  <2>2. OK(f, 0)
    BY <2>1
  <2> HIDE DEF OK
  <2> QED
    BY <2>2
<1>2. ASSUME NEW m \in 0..(N - 1), m \in T PROVE m + 1 \in T
  <2>1. PICK f \in [0..N -> S] : OK(f, m)
    BY <1>2
  <2>2. m \in 0..N /\ m + 1 \in 1..N /\ m + 1 \in 0..N
    OBVIOUS
  <2>3. PICK x \in S : x = G[<<f[m], m + 1>>]
    BY <2>2
  <2>4. PICK g \in [0..N -> S] : g = [f EXCEPT ![m + 1] = x]
    BY <2>2
  <2>5. \A n \in 0..m : g[n] = f[n]
    BY <2>4
  <2>6. g[m + 1] = x
    BY <2>2, <2>4
  <2>7. g[0] = b
    BY <2>1, <2>5
  <2>8. ASSUME NEW n \in 1..(m + 1) PROVE g[n] = G[<<g[n - 1], n>>]
    <3>1. CASE n = m + 1
      <4>1. n - 1 = m /\ g[m] = f[m]
        BY <3>1, <2>5
      <4> QED
        BY <3>1, <4>1, <2>3, <2>6
    <3>2. CASE n # m + 1
      <4>1. n \in 1..m /\ n \in 0..m /\ n - 1 \in 0..m
        BY <3>2
      <4> QED
        BY <4>1, <2>1, <2>5
    <3> QED
      BY <3>1, <3>2
  <2>9. OK(g, m + 1)
    BY <2>7, <2>8
  <2> HIDE DEF OK
  <2> QED
    BY <2>2, <2>9
<1>3. 0..N \subseteq T
  <2> HIDE DEF T
  <2> QED
    BY <1>1, <1>2, Climb
<1>4. N \in T
  <2>1. N \in 0..N
    OBVIOUS
  <2> HIDE DEF T
  <2> QED
    BY <1>3, <2>1
<1>5. PICK f \in [0..N -> S] : OK(f, N)
  <2> HIDE DEF OK
  <2> QED
    BY <1>4
<1>6. Recurs(f, N, b, G)
  BY <1>5 DEF Recurs
<1> QED
  BY <1>6

\* The least element of a set of natural numbers.
LEMMA MinOf ==
  ASSUME NEW S \in SUBSET Nat, S # {}
  PROVE  Min(S) \in S /\ \A m \in S : Min(S) <= m
BY LeastNat DEF Min

-----------------------------------------------------------------------------
(* Sequences and what is picked from them.                                  *)

\* A sequence holds its head, and holds something unless it is empty.
LEMMA SeqFacts ==
  ASSUME NEW S, NEW s \in Seq(S)
  PROVE  /\ Len(s) \in Nat /\ DOMAIN s = 1..Len(s)
         /\ \A i \in DOMAIN s : s[i] \in S
         /\ s # <<>> => 1 \in DOMAIN s /\ Head(s) = s[1] /\ Head(s) \in ToSet(s)
         /\ s = <<>> => DOMAIN s = {}
         /\ \A x : x \in ToSet(s) <=> \E i \in DOMAIN s : s[i] = x
<1>1. Len(s) \in Nat /\ DOMAIN s = 1..Len(s) /\ \A i \in DOMAIN s : s[i] \in S
  OBVIOUS
<1>2. s # <<>> => 1 \in DOMAIN s /\ Head(s) = s[1]
  OBVIOUS
<1>3. \A x : x \in ToSet(s) <=> \E i \in DOMAIN s : s[i] = x
  BY DEF ToSet
<1>4. s = <<>> => DOMAIN s = {}
  OBVIOUS
<1> QED
  BY <1>1, <1>2, <1>3, <1>4

\* Picked, one position at a time.
LEMMA PickedStep ==
  ASSUME NEW S, NEW s \in Seq(S), NEW kept
  PROVE  \E h : /\ Picked(s, kept) = h[Len(s)] /\ h[0] = <<>>
                /\ \A n \in 1..Len(s) :
                     h[n] = IF n \in kept THEN Append(h[n - 1], s[n]) ELSE h[n - 1]
<1>1. PICK N \in Nat : N = Len(s)
  OBVIOUS
<1>2. \A n \in 1..N : s[n] \in S
  BY <1>1
<1>3. PICK G \in [Seq(S) \X (1..N) -> Seq(S)] :
        \A t \in Seq(S), n \in 1..N :
          G[<<t, n>>] = IF n \in kept THEN Append(t, s[n]) ELSE t
  <2> DEFINE H == [p \in Seq(S) \X (1..N) |->
                     IF p[2] \in kept THEN Append(p[1], s[p[2]]) ELSE p[1]]
  <2>1. H \in [Seq(S) \X (1..N) -> Seq(S)]
    BY <1>2
  <2>2. \A t \in Seq(S), n \in 1..N :
          H[<<t, n>>] = IF n \in kept THEN Append(t, s[n]) ELSE t
    OBVIOUS
  <2> HIDE DEF H
  <2> QED
    BY <2>1, <2>2
<1>4. PICK f \in [0..N -> Seq(S)] : f[0] = <<>> /\ \A n \in 1..N : f[n] = G[<<f[n - 1], n>>]
  <2>1. <<>> \in Seq(S)
    OBVIOUS
  <2>2. PICK f \in [0..N -> Seq(S)] : Recurs(f, N, <<>>, G)
    BY <2>1, RecursionExists
  <2> QED
    BY <2>2 DEF Recurs
<1>5. \A n \in 1..N : f[n] = IF n \in kept THEN Append(f[n - 1], s[n]) ELSE f[n - 1]
  <2> TAKE n \in 1..N
  <2>1. n - 1 \in 0..N
    OBVIOUS
  <2>2. f[n - 1] \in Seq(S)
    BY <2>1
  <2> QED
    BY <1>3, <1>4, <2>2
<1>6. f = [n \in 0..N |-> IF n = 0 THEN <<>>
                          ELSE IF n \in kept THEN Append(f[n - 1], s[n]) ELSE f[n - 1]]
  <2>1. \A n \in 0..N : f[n] = IF n = 0 THEN <<>>
                          ELSE IF n \in kept THEN Append(f[n - 1], s[n]) ELSE f[n - 1]
    <3> TAKE n \in 0..N
    <3>1. n = 0 \/ n \in 1..N
      OBVIOUS
    <3> QED
      BY <1>4, <1>5, <3>1
  <2> QED
    BY <2>1
<1> DEFINE h == CHOOSE g : g = [n \in 0..Len(s) |->
                  IF n = 0 THEN <<>>
                  ELSE IF n \in kept THEN Append(g[n - 1], s[n]) ELSE g[n - 1]]
<1>7. Picked(s, kept) = h[Len(s)]
  BY DEF Picked
<1>8. h = [n \in 0..Len(s) |-> IF n = 0 THEN <<>>
                  ELSE IF n \in kept THEN Append(h[n - 1], s[n]) ELSE h[n - 1]]
  BY <1>1, <1>6
<1> HIDE DEF h
<1>9. h[0] = <<>> /\ \A n \in 1..N :
                     h[n] = IF n \in kept THEN Append(h[n - 1], s[n]) ELSE h[n - 1]
  <2>1. h[0] = <<>>
    BY <1>1, <1>8
  <2>2. ASSUME NEW n \in 1..N
        PROVE  h[n] = IF n \in kept THEN Append(h[n - 1], s[n]) ELSE h[n - 1]
    <3>1. n \in 0..Len(s) /\ n # 0
      BY <1>1
    <3> QED
      BY <1>8, <3>1
  <2> QED
    BY <2>1, <2>2
<1> QED
  BY <1>1, <1>7, <1>9

\* What is picked is a sequence of the values at the kept positions.
LEMMA PickedFacts ==
  ASSUME NEW S, NEW s \in Seq(S), NEW kept
  PROVE  /\ Picked(s, kept) \in Seq(S)
         /\ \A x : x \in ToSet(Picked(s, kept)) <=> \E i \in DOMAIN s : i \in kept /\ s[i] = x
<1>1. PICK N \in Nat : N = Len(s)
  OBVIOUS
<1>2. PICK h : /\ Picked(s, kept) = h[Len(s)] /\ h[0] = <<>>
               /\ \A n \in 1..Len(s) :
                     h[n] = IF n \in kept THEN Append(h[n - 1], s[n]) ELSE h[n - 1]
  BY PickedStep
<1> DEFINE Holds(n) == \A x : (\E k \in DOMAIN h[n] : h[n][k] = x)
                              <=> \E i \in 1..n : i \in kept /\ s[i] = x
           T == {n \in 0..N : h[n] \in Seq(S) /\ Holds(n)}
<1>3. 0 \in T
  <2>1. h[0] \in Seq(S) /\ DOMAIN h[0] = {}
    BY <1>2
  <2>2. \A x : ~(\E k \in DOMAIN h[0] : h[0][k] = x)
    BY <2>1
  <2>3. \A x : ~(\E i \in 1..0 : i \in kept /\ s[i] = x)
    OBVIOUS
  <2> QED
    BY <2>1, <2>2, <2>3
<1>4. ASSUME NEW n \in 0..(N - 1), n \in T PROVE n + 1 \in T
  <2>1. n + 1 \in 1..N /\ n + 1 \in 0..N /\ (n + 1) - 1 = n
    OBVIOUS
  <2>2. h[n] \in Seq(S) /\ Holds(n) /\ s[n + 1] \in S
    BY <1>1, <1>4
  <2>3. h[n + 1] = IF n + 1 \in kept THEN Append(h[n], s[n + 1]) ELSE h[n]
    BY <1>1, <1>2, <2>1
  <2>4. CASE n + 1 \notin kept
    <3>1. h[n + 1] = h[n]
      BY <2>3, <2>4
    <3>2. \A x : (\E i \in 1..n : i \in kept /\ s[i] = x)
                  <=> \E i \in 1..(n + 1) : i \in kept /\ s[i] = x
      <4>1. \A i \in 1..(n + 1) : i \in kept => i \in 1..n
        BY <2>4
      <4>2. \A i \in 1..n : i \in 1..(n + 1)
        OBVIOUS
      <4> QED
        BY <4>1, <4>2
    <3>3. Holds(n + 1)
      BY <2>2, <3>1, <3>2
    <3> QED
      BY <2>1, <2>2, <3>1, <3>3
  <2>5. CASE n + 1 \in kept
    <3>1. PICK t \in Seq(S) : t = h[n]
      BY <2>2
    <3> PICK y \in S : y = s[n + 1]
      BY <2>2
    <3>2. PICK u : u = Append(t, y)
      OBVIOUS
    <3>3. h[n + 1] = u
      BY <2>3, <2>5, <3>1, <3>2
    <3>4. /\ DOMAIN t = 1..Len(t) /\ Len(t) \in Nat /\ DOMAIN u = 1..(Len(t) + 1)
          /\ u[Len(t) + 1] = s[n + 1] /\ \A k \in 1..Len(t) : u[k] = t[k]
          /\ u \in Seq(S)
      BY <3>2
    <3>5. ASSUME NEW x PROVE (\E k \in DOMAIN u : u[k] = x)
                              <=> \E i \in 1..(n + 1) : i \in kept /\ s[i] = x
      <4>1. (\E k \in DOMAIN t : t[k] = x) <=> \E i \in 1..n : i \in kept /\ s[i] = x
        BY <2>2, <3>1
      <4>2. (\E k \in DOMAIN u : u[k] = x) <=> (x = s[n + 1] \/ \E k \in DOMAIN t : t[k] = x)
        <5>1. \A k \in DOMAIN u : k = Len(t) + 1 \/ k \in DOMAIN t
          BY <3>4
        <5>2. Len(t) + 1 \in DOMAIN u /\ \A k \in DOMAIN t : k \in DOMAIN u
          BY <3>4
        <5> QED
          BY <3>4, <5>1, <5>2
      <4>3. (\E i \in 1..(n + 1) : i \in kept /\ s[i] = x)
              <=> (x = s[n + 1] \/ \E i \in 1..n : i \in kept /\ s[i] = x)
        <5>1. \A i \in 1..(n + 1) : i = n + 1 \/ i \in 1..n
          OBVIOUS
        <5>2. n + 1 \in 1..(n + 1) /\ \A i \in 1..n : i \in 1..(n + 1)
          OBVIOUS
        <5> QED
          BY <2>5, <5>1, <5>2
      <4> QED
        BY <4>1, <4>2, <4>3
    <3>6. Holds(n + 1)
      BY <3>3, <3>5
    <3> QED
      BY <2>1, <3>3, <3>4, <3>6
  <2> QED
    BY <2>4, <2>5
<1>5. 0..N \subseteq T
  <2> HIDE DEF T
  <2> QED
    BY <1>3, <1>4, Climb
<1>6. h[N] \in Seq(S) /\ Holds(N)
  <2>1. N \in 0..N
    OBVIOUS
  <2> QED
    BY <1>5, <2>1
<1>7. DOMAIN s = 1..N
  BY <1>1
<1>8. PICK p : p = Picked(s, kept)
  OBVIOUS
<1>9. p = h[N]
  BY <1>1, <1>2, <1>8
<1>10. \A x : x \in ToSet(p) <=> \E k \in DOMAIN p : p[k] = x
  BY DEF ToSet
<1>11. \A x : x \in ToSet(p) <=> \E i \in DOMAIN s : i \in kept /\ s[i] = x
  BY <1>6, <1>7, <1>9, <1>10
<1> QED
  BY <1>6, <1>8, <1>9, <1>11
-----------------------------------------------------------------------------
(* Media instances.                                                         *)

\* The sizes one answer of the printer gives a medium.
SizesIn(up, name) ==
  {PWGSize[name]} \cup
  {up.collections[i].size : i \in {k \in DOMAIN up.collections : name \in up.collections[k].names}}

\* What a collection may say besides.
Said(up) ==
  {None} \cup {up.collections[i].source : i \in DOMAIN up.collections}
         \cup {up.collections[i].type : i \in DOMAIN up.collections}
         \cup {up.collections[i].margin : i \in DOMAIN up.collections}

\* Instances of a medium: of its name, and of a size it has.
Instances(up, name) ==
  {e \in [name : {name}, size : SizesIn(up, name), source : Said(up), type : Said(up),
          margin : Said(up), ready : BOOLEAN] : PWGSize[name] # None => e.size # None}

\* Collections are a sequence.
Listed(up) == DOMAIN up.collections = 1..Len(up.collections) /\ Len(up.collections) \in Nat

\* What a merge says.
LEMMA MergedFields ==
  ASSUME NEW dst, NEW src,
         DOMAIN dst = {"name", "size", "source", "type", "margin", "ready"}
  PROVE  /\ DOMAIN mergeMediaSize(dst, src) = {"name", "size", "source", "type", "margin", "ready"}
         /\ mergeMediaSize(dst, src) =
              [name |-> dst.name, size |-> Known(dst.size, src.size),
               source |-> Known(dst.source, src.source), type |-> Known(dst.type, src.type),
               margin |-> Known(dst.margin, src.margin), ready |-> dst.ready \/ src.ready]
<1>1. PICK z : z = Known(dst.size, src.size)
  OBVIOUS
<1>2. PICK a : a = Known(dst.source, src.source)
  OBVIOUS
<1>3. PICK b : b = Known(dst.type, src.type)
  OBVIOUS
<1>4. PICK c : c = Known(dst.margin, src.margin)
  OBVIOUS
<1>5. PICK d : d = (dst.ready \/ src.ready)
  OBVIOUS
<1>6. mergeMediaSize(dst, src) =
        [dst EXCEPT !.size = z, !.margin = c, !.type = b, !.source = a, !.ready = d]
  BY <1>1, <1>2, <1>3, <1>4, <1>5 DEF mergeMediaSize
<1>7. [dst EXCEPT !.size = z, !.margin = c, !.type = b, !.source = a, !.ready = d] =
        [name |-> dst.name, size |-> z, source |-> a, type |-> b, margin |-> c, ready |-> d]
  <2>1. PICK g : g = [dst EXCEPT !.size = z, !.margin = c, !.type = b, !.source = a, !.ready = d]
    OBVIOUS
  <2>2. DOMAIN g = {"name", "size", "source", "type", "margin", "ready"}
    BY <2>1
  <2>3. g.name = dst.name /\ g.size = z /\ g.source = a /\ g.type = b /\ g.margin = c /\ g.ready = d
    BY <2>1
  <2>4. g = [x \in DOMAIN g |-> g[x]]
    BY <2>1
  <2>5. g = [name |-> dst.name, size |-> z, source |-> a, type |-> b, margin |-> c, ready |-> d]
    BY <2>2, <2>3, <2>4
  <2> QED
    BY <2>1, <2>5
<1> QED
  BY <1>1, <1>2, <1>3, <1>4, <1>5, <1>6, <1>7

\* A record of these fields is an instance.
LEMMA InstanceFields ==
  ASSUME NEW up, NEW name, NEW z \in SizesIn(up, name), NEW a \in Said(up), NEW b \in Said(up),
         NEW c \in Said(up), NEW d \in BOOLEAN, PWGSize[name] # None => z # None
  PROVE  [name |-> name, size |-> z, source |-> a, type |-> b, margin |-> c, ready |-> d]
           \in Instances(up, name)
BY DEF Instances

\* And an instance is one.
LEMMA InstanceIs ==
  ASSUME NEW up, NEW name, NEW e \in Instances(up, name)
  PROVE  /\ DOMAIN e = {"name", "size", "source", "type", "margin", "ready"}
         /\ e.name = name /\ e.size \in SizesIn(up, name) /\ e.source \in Said(up)
         /\ e.type \in Said(up) /\ e.margin \in Said(up) /\ e.ready \in BOOLEAN
         /\ PWGSize[name] # None => e.size # None
BY DEF Instances

\* Two instances of a medium merge into one of it.
LEMMA MergeStays ==
  ASSUME NEW up, NEW name, NEW e \in Instances(up, name), NEW f \in Instances(up, name)
  PROVE  mergeMediaSize(e, f) \in Instances(up, name)
<1>1. PICK z \in SizesIn(up, name) : z = Known(e.size, f.size)
  BY InstanceIs DEF Known
<1>2. PICK a \in Said(up) : a = Known(e.source, f.source)
  BY InstanceIs DEF Known
<1>3. PICK b \in Said(up) : b = Known(e.type, f.type)
  BY InstanceIs DEF Known
<1>4. PICK c \in Said(up) : c = Known(e.margin, f.margin)
  BY InstanceIs DEF Known
<1>5. PICK d \in BOOLEAN : d = (e.ready \/ f.ready)
  OBVIOUS
<1>6. PWGSize[name] # None => z # None
  BY <1>1, InstanceIs DEF Known
<1>7. mergeMediaSize(e, f) = [name |-> name, size |-> z, source |-> a, type |-> b,
                              margin |-> c, ready |-> d]
  BY <1>1, <1>2, <1>3, <1>4, <1>5, InstanceIs, MergedFields
<1> QED
  BY <1>6, <1>7, InstanceFields

\* The base instance, and the candidate of a collection that matches.
LEMMA CandidateStays ==
  ASSUME NEW up, NEW name
  PROVE  /\ baseInstance(name) \in Instances(up, name)
         /\ \A n \in DOMAIN up.collections :
              mediaCollectionMatches(up.collections[n], name)
                => candidateInstance(name, up.collections[n]) \in Instances(up, name)
<1>1. baseInstance(name) \in Instances(up, name)
  <2>1. PWGSize[name] \in SizesIn(up, name) /\ None \in Said(up) /\ FALSE \in BOOLEAN
    BY DEF SizesIn, Said
  <2> QED
    BY <2>1, InstanceFields DEF baseInstance
<1>2. ASSUME NEW n \in DOMAIN up.collections,
             mediaCollectionMatches(up.collections[n], name)
      PROVE  candidateInstance(name, up.collections[n]) \in Instances(up, name)
  <2>1. PICK col : col = up.collections[n]
    OBVIOUS
  <2>2. PICK e : e = IF col.size # None /\ name \in col.names
                     THEN [baseInstance(name) EXCEPT !.size = col.size] ELSE baseInstance(name)
    OBVIOUS
  <2>3. /\ DOMAIN e = {"name", "size", "source", "type", "margin", "ready"}
        /\ e.name = name /\ e.source = None /\ e.type = None /\ e.margin = None
        /\ e.size = IF col.size # None /\ name \in col.names THEN col.size ELSE PWGSize[name]
    BY <2>2 DEF baseInstance
  <2>4. name \in col.names => col.size \in SizesIn(up, name)
    BY <2>1 DEF SizesIn
  <2>5. name \in col.names \/ PWGSize[name] # None
    BY <1>2, <2>1 DEF mediaCollectionMatches, dimensionsEqual
  <2>6. PWGSize[name] \in SizesIn(up, name)
    BY DEF SizesIn
  <2>7. PICK z \in SizesIn(up, name) : z = Known(e.size, col.size)
    BY <2>3, <2>4, <2>5, <2>6 DEF Known
  <2>8. PWGSize[name] # None => z # None
    BY <2>3, <2>7 DEF Known
  <2>9. PICK a \in Said(up) : a = Known(e.source, col.source)
    BY <2>1, <2>3 DEF Known, Said
  <2>10. PICK b \in Said(up) : b = Known(e.type, col.type)
    BY <2>1, <2>3 DEF Known, Said
  <2>11. PICK c \in Said(up) : c = Known(e.margin, col.margin)
    BY <2>1, <2>3 DEF Known, Said
  <2>12. PICK d \in BOOLEAN : d = (e.ready \/ col.ready)
    OBVIOUS
  <2>13. candidateInstance(name, col) = mergeMediaSize(e, col)
    BY <2>2 DEF candidateInstance
  <2>14. candidateInstance(name, col) = [name |-> name, size |-> z, source |-> a, type |-> b,
                                         margin |-> c, ready |-> d]
    BY <2>3, <2>7, <2>9, <2>10, <2>11, <2>12, <2>13, MergedFields
  <2> QED
    BY <2>1, <2>8, <2>14, InstanceFields
<1> QED
  BY <1>1, <1>2

\* An instance joins those that were found.
LEMMA FoundStays ==
  ASSUME NEW up, NEW name, NEW s \in Seq(Instances(up, name)), NEW e \in Instances(up, name)
  PROVE  mergeMediaInstance(s, e) \in Seq(Instances(up, name))
<1>1. PICK I : I = Instances(up, name)
  OBVIOUS
<1>2. PICK same : same = {i \in DOMAIN s : sameMediaInstance(s[i], e)}
  OBVIOUS
<1>3. CASE same = {}
  <2>1. mergeMediaInstance(s, e) = Append(s, e)
    BY <1>2, <1>3 DEF mergeMediaInstance
  <2>2. s \in Seq(I) /\ e \in I
    BY <1>1
  <2>3. Append(s, e) \in Seq(I)
    BY <2>2
  <2> QED
    BY <1>1, <2>1, <2>3
<1>4. CASE same # {}
  <2>1. same \in SUBSET Nat
    BY <1>2
  <2>2. PICK m : m = Min(same)
    OBVIOUS
  <2>3. m \in DOMAIN s
    BY <1>2, <1>4, <2>1, <2>2, MinOf
  <2>4. PICK x \in I : x = mergeMediaSize(s[m], e)
    <3>1. s[m] \in Instances(up, name)
      BY <2>3
    <3> QED
      BY <1>1, <3>1, MergeStays
  <2>5. mergeMediaInstance(s, e) = [s EXCEPT ![m] = x]
    BY <1>2, <1>4, <2>2, <2>3, <2>4 DEF mergeMediaInstance
  <2>6. s \in Seq(I)
    BY <1>1
  <2>7. [s EXCEPT ![m] = x] \in Seq(I)
    BY <2>3, <2>6
  <2> QED
    BY <1>1, <2>5, <2>7
<1> QED
  BY <1>3, <1>4

\* The collections that fit, in the order of the printer.
Fits(pol, name, col) ==
  /\ mediaCollectionMatches(col, name)
  /\ pol.mediaSource = None \/ col.source \in {None, pol.mediaSource}

Joined(pol, name, s, col) ==
  IF Fits(pol, name, col) THEN mergeMediaInstance(s, candidateInstance(name, col)) ELSE s

\* matchingInstances, one collection at a time.
LEMMA MatchingStep ==
  ASSUME NEW up, NEW pol, NEW name, Listed(up)
  PROVE  \E h : /\ matchingInstances(up, pol, name) = h[Len(up.collections)] /\ h[0] = <<>>
                /\ \A n \in 1..Len(up.collections) :
                     h[n] = Joined(pol, name, h[n - 1], up.collections[n])
<1>1. PICK N \in Nat : N = Len(up.collections)
  BY DEF Listed
<1>2. PICK Q : Q = Seq(Instances(up, name))
  OBVIOUS
<1>3. \A t \in Q, n \in 1..N : Joined(pol, name, t, up.collections[n]) \in Q
  <2> TAKE t \in Q, n \in 1..N
  <2>1. n \in DOMAIN up.collections
    BY <1>1 DEF Listed
  <2>2. CASE Fits(pol, name, up.collections[n])
    <3>1. candidateInstance(name, up.collections[n]) \in Instances(up, name)
      BY <2>1, <2>2, CandidateStays DEF Fits
    <3>2. t \in Seq(Instances(up, name))
      BY <1>2
    <3> QED
      BY <1>2, <2>2, <3>1, <3>2, FoundStays DEF Joined
  <2>3. CASE ~Fits(pol, name, up.collections[n])
    BY <2>3 DEF Joined
  <2> QED
    BY <2>2, <2>3
<1>4. PICK G \in [Q \X (1..N) -> Q] :
        \A t \in Q, n \in 1..N : G[<<t, n>>] = Joined(pol, name, t, up.collections[n])
  <2> DEFINE H == [p \in Q \X (1..N) |-> Joined(pol, name, p[1], up.collections[p[2]])]
  <2>1. H \in [Q \X (1..N) -> Q]
    BY <1>3
  <2>2. \A t \in Q, n \in 1..N : H[<<t, n>>] = Joined(pol, name, t, up.collections[n])
    OBVIOUS
  <2> HIDE DEF H
  <2> QED
    BY <2>1, <2>2
<1>5. PICK f \in [0..N -> Q] : f[0] = <<>> /\ \A n \in 1..N : f[n] = G[<<f[n - 1], n>>]
  <2>1. <<>> \in Q
    BY <1>2
  <2>2. PICK f \in [0..N -> Q] : Recurs(f, N, <<>>, G)
    BY <2>1, RecursionExists
  <2> QED
    BY <2>2 DEF Recurs
<1>6. \A n \in 1..N : f[n] = Joined(pol, name, f[n - 1], up.collections[n])
  <2> TAKE n \in 1..N
  <2>1. n - 1 \in 0..N
    OBVIOUS
  <2>2. f[n - 1] \in Q
    BY <2>1
  <2> QED
    BY <1>4, <1>5, <2>2
<1>7. f = [n \in 0..N |-> IF n = 0 THEN <<>> ELSE Joined(pol, name, f[n - 1], up.collections[n])]
  <2>1. \A n \in 0..N : f[n] = IF n = 0 THEN <<>>
                               ELSE Joined(pol, name, f[n - 1], up.collections[n])
    <3> TAKE n \in 0..N
    <3>1. n = 0 \/ n \in 1..N
      OBVIOUS
    <3> QED
      BY <1>5, <1>6, <3>1
  <2> QED
    BY <2>1
<1> DEFINE h == CHOOSE g : g = [n \in 0..Len(up.collections) |->
                  IF n = 0 THEN <<>> ELSE Joined(pol, name, g[n - 1], up.collections[n])]
<1>8. matchingInstances(up, pol, name) = h[Len(up.collections)]
  BY DEF matchingInstances, Joined, Fits
<1>9. h = [n \in 0..Len(up.collections) |->
             IF n = 0 THEN <<>> ELSE Joined(pol, name, h[n - 1], up.collections[n])]
  BY <1>1, <1>7
<1> HIDE DEF h
<1>10. h[0] = <<>>
  BY <1>1, <1>9
<1>11. ASSUME NEW n \in 1..N PROVE h[n] = Joined(pol, name, h[n - 1], up.collections[n])
  <2>1. n \in 0..Len(up.collections) /\ n # 0
    BY <1>1
  <2> QED
    BY <1>9, <2>1
<1> QED
  BY <1>1, <1>8, <1>10, <1>11

\* What is found are instances of the medium.
LEMMA MatchingFacts ==
  ASSUME NEW up, NEW pol, NEW name, Listed(up)
  PROVE  matchingInstances(up, pol, name) \in Seq(Instances(up, name))
<1>1. PICK N \in Nat : N = Len(up.collections)
  BY DEF Listed
<1>2. PICK h : /\ matchingInstances(up, pol, name) = h[Len(up.collections)] /\ h[0] = <<>>
               /\ \A n \in 1..Len(up.collections) :
                     h[n] = Joined(pol, name, h[n - 1], up.collections[n])
  BY MatchingStep
<1> DEFINE T == {n \in 0..N : h[n] \in Seq(Instances(up, name))}
<1>3. 0 \in T
  <2>1. h[0] \in Seq(Instances(up, name)) /\ 0 \in 0..N
    BY <1>2
  <2> QED
    BY <2>1
<1>4. ASSUME NEW n \in 0..(N - 1), n \in T PROVE n + 1 \in T
  <2>1. n + 1 \in 1..N /\ n + 1 \in 0..N /\ (n + 1) - 1 = n
    OBVIOUS
  <2>2. PICK t \in Seq(Instances(up, name)) : t = h[n]
    BY <1>4
  <2>3. n + 1 \in DOMAIN up.collections
    BY <1>1, <2>1 DEF Listed
  <2>4. h[n + 1] = Joined(pol, name, t, up.collections[n + 1])
    BY <1>1, <1>2, <2>1, <2>2
  <2>5. CASE Fits(pol, name, up.collections[n + 1])
    <3>1. candidateInstance(name, up.collections[n + 1]) \in Instances(up, name)
      BY <2>3, <2>5, CandidateStays DEF Fits
    <3> QED
      BY <2>1, <2>4, <2>5, <3>1, FoundStays DEF Joined
  <2>6. CASE ~Fits(pol, name, up.collections[n + 1])
    BY <2>1, <2>4, <2>6 DEF Joined
  <2> QED
    BY <2>5, <2>6
<1>5. 0..N \subseteq T
  <2> HIDE DEF T
  <2> QED
    BY <1>3, <1>4, Climb
<1>6. N \in 0..N
  OBVIOUS
<1> QED
  BY <1>1, <1>2, <1>5, <1>6

\* The instances of a medium are at least one, of its name and of a size that
\* the name or a collection that names it gives; a name that spells out a size
\* has one.
Describes(up, name, e) ==
  /\ e.name = name /\ e.size \in SizesIn(up, name)
  /\ PWGSize[name] # None => e.size # None

Describing(up, name, s) ==
  /\ \E n \in Nat : DOMAIN s = 1..n /\ n >= 1
  /\ \A i \in DOMAIN s : Describes(up, name, s[i])

LEMMA InstancesFacts ==
  ASSUME NEW up, NEW pol, NEW name, Listed(up)
  PROVE  Describing(up, name, mediaInstances(up, pol, name))
<1>1. PICK I : I = Instances(up, name)
  OBVIOUS
<1>2. PICK found \in Seq(I) : found = matchingInstances(up, pol, name)
  BY <1>1, MatchingFacts
<1>3. PICK b \in I : b = baseInstance(name)
  BY <1>1, CandidateStays
<1>4. PICK kept : kept = IF found = <<>> THEN <<b>> ELSE found
  OBVIOUS
<1>5. PICK n \in Nat : n >= 1 /\ DOMAIN kept = 1..n
  <2>1. CASE found = <<>>
    <3>1. DOMAIN kept = 1..1
      BY <1>4, <2>1
    <3> QED
      BY <3>1
  <2>2. CASE found # <<>>
    <3>1. kept = found
      BY <1>4, <2>2
    <3>2. Len(found) \in Nat /\ Len(found) >= 1 /\ DOMAIN found = 1..Len(found)
      BY <2>2
    <3> QED
      BY <3>1, <3>2
  <2> QED
    BY <2>1, <2>2
<1>6. \A i \in DOMAIN kept : kept[i] \in I
  BY <1>4
<1> DEFINE fill(e) == [e EXCEPT !.source = Known(@, provenAutomaticMediaSource(up)),
                                !.type = Known(@, pol.mediaType)]
<1>7. ASSUME NEW e \in I PROVE Describes(up, name, fill(e))
  <2>1. /\ DOMAIN e = {"name", "size", "source", "type", "margin", "ready"}
        /\ e.name = name /\ e.size \in SizesIn(up, name)
        /\ PWGSize[name] # None => e.size # None
    BY <1>1, InstanceIs
  <2>2. fill(e).name = e.name /\ fill(e).size = e.size
    BY <2>1
  <2> HIDE DEF fill
  <2> QED
    BY <2>1, <2>2 DEF Describes
<1>8. mediaInstances(up, pol, name) = [i \in DOMAIN kept |-> fill(kept[i])]
  BY <1>2, <1>3, <1>4 DEF mediaInstances
<1> HIDE DEF fill
<1> QED
  BY <1>5, <1>6, <1>7, <1>8 DEF Describing

\* Of four numbers some are there, and one of them is the largest.
LEMMA PreferredFacts ==
  ASSUME NEW s, NEW n \in Nat, DOMAIN s = 1..n, n >= 1
  PROVE  \E i \in DOMAIN s : preferredMediaInstance(s) = s[i]
<1> DEFINE score(inst) == (IF inst.ready THEN 100 ELSE 0)
                          + (IF inst.margin # None /\ inst.margin > 0 THEN 10 ELSE 0)
           F == {score(s[i]) : i \in DOMAIN s}
           B == {i \in DOMAIN s : score(s[i]) = Max(F)}
<1>1. \A i \in DOMAIN s : score(s[i]) \in {0, 10, 100, 110}
  OBVIOUS
<1>2. preferredMediaInstance(s) = s[Min(B)]
  BY DEF preferredMediaInstance
<1> HIDE DEF score
<1>3. F # {} /\ F \subseteq {0, 10, 100, 110}
  <2>1. 1 \in DOMAIN s
    OBVIOUS
  <2> QED
    BY <1>1, <2>1
<1>4. \E x \in F : \A y \in F : x >= y
  <2> HIDE DEF F
  <2>1. \A x \in F : x \in {0, 10, 100, 110}
    BY <1>3
  <2>2. CASE 110 \in F
    BY <2>1, <2>2
  <2>3. CASE 110 \notin F /\ 100 \in F
    BY <2>1, <2>3
  <2>4. CASE 110 \notin F /\ 100 \notin F /\ 10 \in F
    BY <2>1, <2>4
  <2>5. CASE 110 \notin F /\ 100 \notin F /\ 10 \notin F
    <3>1. PICK x \in F : TRUE
      BY <1>3
    <3>2. \A y \in F : y = 0
      BY <2>1, <2>5
    <3> QED
      BY <3>1, <3>2
  <2> QED
    BY <2>2, <2>3, <2>4, <2>5
<1>5. Max(F) \in F
  <2> HIDE DEF F
  <2> QED
    BY <1>4 DEF Max
<1>6. B # {} /\ B \in SUBSET Nat
  <2>1. PICK i \in DOMAIN s : score(s[i]) = Max(F)
    BY <1>5
  <2>2. i \in B
    BY <2>1
  <2>3. B \subseteq DOMAIN s
    OBVIOUS
  <2> HIDE DEF B
  <2> QED
    BY <2>2, <2>3
<1>7. Min(B) \in B
  <2> HIDE DEF B
  <2> QED
    BY <1>6, MinOf
<1> QED
  BY <1>2, <1>7

\* The preferred instance of a medium describes it.
LEMMA PreferredDescribes ==
  ASSUME NEW up, NEW pol, NEW name, Listed(up)
  PROVE  Describes(up, name, preferredMediaInstance(mediaInstances(up, pol, name)))
<1>1. PICK s : s = mediaInstances(up, pol, name)
  OBVIOUS
<1>2. Describing(up, name, s)
  BY <1>1, InstancesFacts
<1>3. PICK n \in Nat : DOMAIN s = 1..n /\ n >= 1
  BY <1>2 DEF Describing
<1>4. PICK i \in DOMAIN s : preferredMediaInstance(s) = s[i]
  BY <1>3, PreferredFacts
<1> QED
  BY <1>1, <1>2, <1>4 DEF Describing
-----------------------------------------------------------------------------
(* The projected policy and its catalog.                                    *)

\* What a projection keeps of the configured policy: all but its media, of
\* which it keeps some, with a default among them.
ProjectsTo(q, pol) ==
  /\ q.colorMode = pol.colorMode /\ q.mediaType = pol.mediaType
  /\ q.mediaSource = pol.mediaSource /\ q.printScaling = pol.printScaling
  /\ q.mediaSupported \in Seq(MediaNames) /\ q.mediaSupported # <<>>
  /\ \A x \in ToSet(q.mediaSupported) : x \in ToSet(policyMediaNames(pol))
  /\ q.mediaDefault \in ToSet(q.mediaSupported)

LEMMA ConfiguredNames ==
  ASSUME NEW pol \in Policies
  PROVE  policyMediaNames(pol) \in Seq(MediaNames)
BY PoliciesAssumption DEF policyMediaNames

LEMMA ProjectedPolicy ==
  ASSUME NEW up, NEW pol \in Policies, ProjectPolicyAgainstUpstream(up, pol).ok
  PROVE  ProjectsTo(ProjectPolicyAgainstUpstream(up, pol).policy, pol)
<1>1. PICK names \in Seq(MediaNames) : names = policyMediaNames(pol)
  BY ConfiguredNames
<1>2. PICK kept : kept = {i \in DOMAIN names : policyMediaSupportedByUpstream(up, pol, names[i])}
  OBVIOUS
<1>3. PICK media \in Seq(MediaNames) : media = Picked(names, kept)
  BY PickedFacts
<1>4. \A x : x \in ToSet(media) => x \in ToSet(names)
  BY <1>3, PickedFacts, SeqFacts
<1>5. media # <<>>
  BY <1>1, <1>2, <1>3 DEF ProjectPolicyAgainstUpstream
<1>6. PICK d : d = IF Known(pol.mediaDefault, Head(media)) \in ToSet(media)
                   THEN Known(pol.mediaDefault, Head(media)) ELSE Head(media)
  OBVIOUS
<1>7. d \in ToSet(media)
  BY <1>5, <1>6, SeqFacts
<1>8. PICK m : m = IF pol.media = None THEN pol.media ELSE Head(media)
  OBVIOUS
<1>9. PICK q : q = [pol EXCEPT !.mediaSupported = media, !.media = m, !.mediaDefault = d]
  OBVIOUS
<1>10. ProjectPolicyAgainstUpstream(up, pol).policy = q
  BY <1>1, <1>2, <1>3, <1>5, <1>6, <1>8, <1>9 DEF ProjectPolicyAgainstUpstream
<1>11. /\ q.mediaSupported = media /\ q.mediaDefault = d /\ q.colorMode = pol.colorMode
       /\ q.mediaType = pol.mediaType /\ q.mediaSource = pol.mediaSource
       /\ q.printScaling = pol.printScaling
  BY <1>9, PoliciesAssumption
<1> QED
  BY <1>1, <1>4, <1>5, <1>7, <1>10, <1>11 DEF ProjectsTo

\* Its media are the ones it lists, and its default is one of them.
LEMMA ProjectedNames ==
  ASSUME NEW q, NEW pol, ProjectsTo(q, pol)
  PROVE  /\ policyMediaNames(q) = q.mediaSupported
         /\ policyMediaDefault(q) = q.mediaDefault
         /\ policyMediaDefault(q) \in ToSet(policyMediaNames(q))
         /\ \A x \in ToSet(policyMediaNames(q)) : x \in MediaNames /\ x \in ToSet(policyMediaNames(pol))
<1>1. policyMediaNames(q) = q.mediaSupported
  BY DEF ProjectsTo, policyMediaNames
<1>2. \A x \in ToSet(q.mediaSupported) : x \in MediaNames
  BY SeqFacts DEF ProjectsTo
<1>3. q.mediaDefault # None
  BY <1>2, NoneAssumption DEF ProjectsTo
<1>4. policyMediaDefault(q) = q.mediaDefault
  BY <1>3 DEF policyMediaDefault, Known
<1> QED
  BY <1>1, <1>2, <1>4 DEF ProjectsTo

\* Every entry of a catalog is an instance of a medium of the policy.
LEMMA CatalogFacts ==
  ASSUME NEW up, NEW q, Listed(up)
  PROVE  /\ DOMAIN buildMediaCatalog(up, q).byName = ToSet(policyMediaNames(q))
         /\ \A n \in ToSet(policyMediaNames(q)) :
              Describes(up, n, buildMediaCatalog(up, q).byName[n])
         /\ \A p \in DOMAIN buildMediaCatalog(up, q).sizes :
              buildMediaCatalog(up, q).sizes[p].name \in ToSet(policyMediaNames(q))
<1>1. PICK names : names = policyMediaNames(q)
  OBVIOUS
<1>2. PICK all : all = [i \in DOMAIN names |-> mediaInstances(up, q, names[i])]
  OBVIOUS
<1>3. PICK D : D = UNION {{i} \X (DOMAIN all[i]) : i \in DOMAIN names}
  OBVIOUS
<1>4. PICK sizes : sizes = [p \in D |-> all[p[1]][p[2]]]
  OBVIOUS
<1>5. PICK byName : byName = [n \in ToSet(names) |->
                                preferredMediaInstance(mediaInstances(up, q, n))]
  OBVIOUS
<1>6. buildMediaCatalog(up, q) = [sizes |-> sizes, byName |-> byName]
  BY <1>1, <1>2, <1>3, <1>4, <1>5 DEF buildMediaCatalog
<1>7. DOMAIN byName = ToSet(names)
  BY <1>5
<1>8. \A n \in ToSet(names) : Describes(up, n, byName[n])
  BY <1>5, PreferredDescribes
<1>9. ASSUME NEW p \in DOMAIN sizes PROVE sizes[p].name \in ToSet(names)
  <2>1. p \in D /\ sizes[p] = all[p[1]][p[2]]
    BY <1>4
  <2>2. PICK i \in DOMAIN names : p \in {i} \X (DOMAIN all[i])
    BY <1>3, <2>1
  <2>3. p[1] = i /\ p[2] \in DOMAIN all[i]
    BY <2>2
  <2>4. Describing(up, names[i], all[i])
    BY <1>2, InstancesFacts
  <2>5. all[i][p[2]].name = names[i]
    BY <2>3, <2>4 DEF Describing, Describes
  <2>6. names[i] \in ToSet(names)
    BY DEF ToSet
  <2> QED
    BY <2>1, <2>3, <2>5, <2>6
<1> QED
  BY <1>1, <1>6, <1>7, <1>8, <1>9
-----------------------------------------------------------------------------
(* The normalised request.                                                  *)

\* A media-col resolves to an entry of the catalog, or to nothing.
LEMMA ResolvedFacts ==
  ASSUME NEW up, NEW q, Listed(up), NEW col
  PROVE  \/ resolveMediaCol(col, buildMediaCatalog(up, q)) = None
         \/ resolveMediaCol(col, buildMediaCatalog(up, q)).name \in ToSet(policyMediaNames(q))
<1>1. PICK c : c = buildMediaCatalog(up, q)
  OBVIOUS
<1>2. PICK names : names = ToSet(policyMediaNames(q))
  OBVIOUS
<1>3. /\ DOMAIN c.byName = names
      /\ \A n \in names : c.byName[n].name \in names
      /\ \A p \in DOMAIN c.sizes : c.sizes[p].name \in names
  BY <1>1, <1>2, CatalogFacts DEF Describes
<1>4. PICK sized : sized = {i \in DOMAIN c.sizes : dimensionsEqual(col.size, c.sizes[i].size)}
  OBVIOUS
<1>5. PICK one : one = c.sizes[CHOOSE i \in sized : TRUE]
  OBVIOUS
<1>6. PICK named : named = c.byName[CHOOSE n \in col.names : TRUE]
  OBVIOUS
<1>7. PICK bad \in BOOLEAN :
        bad = (\/ col.invalid \/ ~(col.names \subseteq DOMAIN c.byName)
               \/ Cardinality(col.names) > 1
               \/ col.size # None /\ Cardinality(sized) # 1
               \/ col.names = {} /\ col.size = None)
  OBVIOUS
<1>8. resolveMediaCol(col, c) =
        IF bad THEN None
        ELSE IF col.names = {} THEN one
             ELSE IF col.size = None \/ dimensionsEqual(named.size, one.size)
                  THEN named ELSE None
  BY <1>4, <1>5, <1>6, <1>7 DEF resolveMediaCol
<1>9. ~bad /\ col.names = {} => one.name \in names
  <2>1. SUFFICES ASSUME ~bad, col.names = {} PROVE one.name \in names
    OBVIOUS
  <2>2. Cardinality(sized) = 1
    BY <1>7, <2>1
  <2>3. sized # {}
    BY <2>2, FS_EmptySet
  <2>4. (CHOOSE i \in sized : TRUE) \in DOMAIN c.sizes
    BY <1>4, <2>3
  <2> QED
    BY <1>3, <1>5, <2>4
<1>10. ~bad /\ col.names # {} => named.name \in names
  <2>1. SUFFICES ASSUME ~bad, col.names # {} PROVE named.name \in names
    OBVIOUS
  <2>2. col.names \subseteq names
    BY <1>3, <1>7, <2>1
  <2>3. (CHOOSE n \in col.names : TRUE) \in names
    BY <2>1, <2>2
  <2> QED
    BY <1>3, <1>6, <2>3
<1> QED
  BY <1>1, <1>2, <1>8, <1>9, <1>10

\* The medium of a request is one of the policy's.
LEMMA SelectedFacts ==
  ASSUME NEW up, NEW q, NEW pol, Listed(up), ProjectsTo(q, pol), NEW attrs
  PROVE  selectRequestedMedia(attrs, buildMediaCatalog(up, q), q).size.name
           \in ToSet(policyMediaNames(q))
<1>1. PICK c : c = buildMediaCatalog(up, q)
  OBVIOUS
<1>2. PICK names : names = ToSet(policyMediaNames(q))
  OBVIOUS
<1>3. /\ DOMAIN c.byName = names
      /\ \A n \in names : c.byName[n].name \in names
  BY <1>1, <1>2, CatalogFacts DEF Describes
<1>4. PICK name : name = policyMediaDefault(q)
  OBVIOUS
<1>5. name \in names
  BY <1>2, <1>4, ProjectedNames
<1>6. PICK wanted : wanted =
        CASE "media-col" \in DOMAIN attrs -> resolveMediaCol(attrs["media-col"], c)
          [] "media-col" \notin DOMAIN attrs /\ "media" \in DOMAIN attrs ->
               IF attrs["media"] \in DOMAIN c.byName THEN c.byName[attrs["media"]] ELSE None
          [] DOMAIN attrs \cap {"media", "media-col"} = {} -> None
  OBVIOUS
<1>7. wanted = None \/ wanted.name \in names
  <2>1. CASE "media-col" \in DOMAIN attrs
    <3>1. wanted = resolveMediaCol(attrs["media-col"], c)
      BY <1>6, <2>1
    <3> QED
      BY <1>1, <1>2, <3>1, ResolvedFacts
  <2>2. CASE "media-col" \notin DOMAIN attrs /\ "media" \in DOMAIN attrs
    <3>1. wanted = IF attrs["media"] \in DOMAIN c.byName THEN c.byName[attrs["media"]] ELSE None
      BY <1>6, <2>2
    <3> QED
      BY <1>3, <3>1
  <2>3. CASE "media-col" \notin DOMAIN attrs /\ "media" \notin DOMAIN attrs
    <3>1. DOMAIN attrs \cap {"media", "media-col"} = {}
      BY <2>3
    <3>2. wanted = None
      BY <1>6, <2>3, <3>1
    <3> QED
      BY <3>2
  <2> QED
    BY <2>1, <2>2, <2>3
<1>8. selectRequestedMedia(attrs, c, q).size = Known(wanted, c.byName[name])
  BY <1>3, <1>4, <1>5, <1>6 DEF selectRequestedMedia
<1> QED
  BY <1>1, <1>2, <1>3, <1>5, <1>7, <1>8 DEF Known

\* What the policy adds, name by name.
LEMMA ForcedFacts ==
  ASSUME NEW q, NEW z, q.colorMode # None
  PROVE  /\ DOMAIN forcedAttrs(q, z) \subseteq forcedNames
         /\ "print-color-mode" \in DOMAIN forcedAttrs(q, z)
         /\ forcedAttrs(q, z)["print-color-mode"] = q.colorMode
         /\ "media" \in DOMAIN forcedAttrs(q, z) => forcedAttrs(q, z)["media"] = z.name
         /\ "media-type" \in DOMAIN forcedAttrs(q, z)
              => forcedAttrs(q, z)["media-type"] = q.mediaType
         /\ "media-source" \in DOMAIN forcedAttrs(q, z)
              => forcedAttrs(q, z)["media-source"] = q.mediaSource
         /\ "output-mode" \in DOMAIN forcedAttrs(q, z)
              => forcedAttrs(q, z)["output-mode"] = q.colorMode
         /\ "print-scaling" \in DOMAIN forcedAttrs(q, z)
              => forcedAttrs(q, z)["print-scaling"] = q.printScaling
         /\ q.printScaling # None => "print-scaling" \in DOMAIN forcedAttrs(q, z)
         /\ "media-col" \in DOMAIN forcedAttrs(q, z) =>
              /\ forcedAttrs(q, z)["media-col"].type = q.mediaType
              /\ forcedAttrs(q, z)["media-col"].source = q.mediaSource
<1> DEFINE loose(v) == IF q.useMediaCol THEN None ELSE v
           collection == IF q.useMediaCol
                         THEN [names |-> {}, size |-> z.size, type |-> q.mediaType,
                               source |-> q.mediaSource]
                         ELSE None
           output == IF q.colorMode = "monochrome" THEN "monochrome" ELSE None
           value == [n \in forcedNames |->
                  CASE n = "media"        -> loose(z.name)
                    [] n = "media-type"   -> loose(q.mediaType)
                    [] n = "media-source" -> loose(q.mediaSource)
                    [] n = "media-col"    -> collection
                    [] n = "print-scaling"    -> q.printScaling
                    [] n = "print-color-mode" -> q.colorMode
                    [] n = "output-mode" -> output]
<1>1. forcedAttrs(q, z) = Only(value, {n \in forcedNames : value[n] # None})
  BY DEF forcedAttrs
<1>2. DOMAIN value = forcedNames
  OBVIOUS
<1>3. /\ value["media"] = loose(z.name) /\ value["media-type"] = loose(q.mediaType)
      /\ value["media-source"] = loose(q.mediaSource) /\ value["media-col"] = collection
  <2> HIDE DEF loose, collection, output
  <2> QED
    BY DEF forcedNames
<1>4. /\ value["print-scaling"] = q.printScaling /\ value["print-color-mode"] = q.colorMode
      /\ value["output-mode"] = output
  <2> HIDE DEF loose, collection, output
  <2> QED
    BY DEF forcedNames
<1> HIDE DEF value
<1>5. PICK F : F = forcedAttrs(q, z)
  OBVIOUS
<1>6. /\ DOMAIN F = {n \in forcedNames : value[n] # None}
      /\ \A n \in DOMAIN F : F[n] = value[n] /\ value[n] # None
  BY <1>1, <1>2, <1>5 DEF Only
<1>7. "print-color-mode" \in forcedNames /\ "print-scaling" \in forcedNames
  BY DEF forcedNames
<1>8. "print-color-mode" \in DOMAIN F /\ (q.printScaling # None => "print-scaling" \in DOMAIN F)
  BY <1>4, <1>6, <1>7
<1>9. "media-col" \in DOMAIN F =>
        F["media-col"].type = q.mediaType /\ F["media-col"].source = q.mediaSource
  BY <1>3, <1>6
<1>10. /\ "media" \in DOMAIN F => F["media"] = z.name
       /\ "media-type" \in DOMAIN F => F["media-type"] = q.mediaType
       /\ "media-source" \in DOMAIN F => F["media-source"] = q.mediaSource
  BY <1>3, <1>6
<1>11. /\ "output-mode" \in DOMAIN F => F["output-mode"] = q.colorMode
       /\ "print-scaling" \in DOMAIN F => F["print-scaling"] = q.printScaling
       /\ F["print-color-mode"] = q.colorMode
  BY <1>4, <1>6, <1>8
<1> QED
  BY <1>5, <1>6, <1>8, <1>9, <1>10, <1>11

\* Nothing that is dropped is left, on the job or in an override.
LEMMA SanitizedFacts ==
  ASSUME NEW attrs, NEW drop, DOMAIN attrs \cap drop = {}
  PROVE  /\ DOMAIN sanitizeOverrides(attrs, drop) \cap drop = {}
         /\ "overrides" \in DOMAIN sanitizeOverrides(attrs, drop) =>
              \A col \in sanitizeOverrides(attrs, drop)["overrides"] :
                hasOverridePayload(col) /\ \A path \in col : ToSet(path) \cap drop = {}
<1>1. PICK s : s = sanitizeOverrides(attrs, drop)
  OBVIOUS
<1>2. CASE "overrides" \notin DOMAIN attrs
  BY <1>2 DEF sanitizeOverrides
<1>3. CASE "overrides" \in DOMAIN attrs
  <2>1. PICK kept : kept = {col \in {dropNestedPolicyAttrs(c, drop) : c \in attrs["overrides"]} :
                              hasOverridePayload(col)}
    OBVIOUS
  <2>2. s = IF kept = {} THEN DropAttrs(attrs, {"overrides"})
            ELSE [attrs EXCEPT !["overrides"] = kept]
    BY <1>1, <1>3, <2>1 DEF sanitizeOverrides
  <2>3. CASE kept = {}
    <3>1. s = DropAttrs(attrs, {"overrides"})
      BY <2>2, <2>3
    <3>2. DOMAIN s = DOMAIN attrs \ {"overrides"}
      BY <3>1 DEF DropAttrs, Only
    <3> QED
      BY <1>1, <3>2
  <2>4. CASE kept # {}
    <3>1. s = [attrs EXCEPT !["overrides"] = kept]
      BY <2>2, <2>4
    <3>2. DOMAIN s = DOMAIN attrs /\ s["overrides"] = kept
      BY <1>3, <3>1
    <3>3. ASSUME NEW col \in kept
          PROVE  hasOverridePayload(col) /\ \A path \in col : ToSet(path) \cap drop = {}
      <4>1. PICK c \in attrs["overrides"] : col = dropNestedPolicyAttrs(c, drop)
        BY <2>1
      <4>2. hasOverridePayload(col)
        BY <2>1
      <4>3. \A path \in col : ToSet(path) \cap drop = {}
        BY <4>1 DEF dropNestedPolicyAttrs
      <4> QED
        BY <4>2, <4>3
    <3> QED
      BY <1>1, <3>2, <3>3
  <2> QED
    BY <2>3, <2>4
<1> QED
  BY <1>2, <1>3

\* A request that is normalised keeps the policy.
LEMMA NormalizedKeeps ==
  ASSUME NEW up, NEW q, NEW pol \in Policies, Listed(up), ProjectsTo(q, pol),
         NEW attrs, NEW fidelity,
         normalize(attrs, buildMediaCatalog(up, q), q, VendorDrop, Preserve, fidelity).ok
  PROVE  KeepsPolicy(pol, normalize(attrs, buildMediaCatalog(up, q), q, VendorDrop, Preserve,
                                    fidelity).attrs)
<1>1. PICK c : c = buildMediaCatalog(up, q)
  OBVIOUS
<1>2. PICK drop : drop = policyDropAttrs \cup VendorDrop
  OBVIOUS
<1>3. PICK input : input = DropAttrs(attrs, DOMAIN attrs \ (drop \cup Preserve))
  OBVIOUS
<1>4. PICK z : z = selectRequestedMedia(input, c, q).size
  OBVIOUS
<1>5. PICK F : F = forcedAttrs(q, z)
  OBVIOUS
<1>6. PICK d : d = DropAttrs(input, drop)
  OBVIOUS
<1>7. PICK S : S = sanitizeOverrides(d, drop)
  OBVIOUS
<1>8. PICK out : out = Over(F, S)
  OBVIOUS
<1>9. normalize(attrs, c, q, VendorDrop, Preserve, fidelity).attrs = out
  <2>1. PICK n : n = normalize(attrs, c, q, VendorDrop, Preserve, fidelity)
    OBVIOUS
  <2>2. n.ok
    BY <1>1, <2>1
  <2>3. CASE malformedPolicyAttributes(attrs) # {}
    <3>1. n = [ok |-> FALSE, attrs |-> <<>>, unsupported |-> malformedPolicyAttributes(attrs)]
      BY <2>1, <2>3 DEF normalize
    <3> QED
      BY <2>2, <3>1
  <2>4. CASE malformedPolicyAttributes(attrs) = {}
    <3>1. n.attrs = out
      BY <1>2, <1>3, <1>4, <1>5, <1>6, <1>7, <1>8, <2>1, <2>4 DEF normalize
    <3> QED
      BY <2>1, <3>1
  <2> QED
    BY <2>3, <2>4
<1>10. z.name \in ToSet(policyMediaNames(pol))
  BY <1>1, <1>4, SelectedFacts, ProjectedNames
<1>11. /\ q.colorMode = pol.colorMode /\ q.mediaType = pol.mediaType
       /\ q.mediaSource = pol.mediaSource /\ q.printScaling = pol.printScaling
       /\ pol.colorMode # None
  BY PoliciesAssumption DEF ProjectsTo
<1>12. DOMAIN d \cap drop = {}
  BY <1>6 DEF DropAttrs, Only
<1>13. /\ DOMAIN S \cap drop = {}
       /\ "overrides" \in DOMAIN S =>
            \A col \in S["overrides"] :
              hasOverridePayload(col) /\ \A path \in col : ToSet(path) \cap drop = {}
  BY <1>7, <1>12, SanitizedFacts
<1>14. /\ DOMAIN F \subseteq forcedNames
       /\ "print-color-mode" \in DOMAIN F /\ F["print-color-mode"] = pol.colorMode
       /\ "media" \in DOMAIN F => F["media"] = z.name
       /\ "media-type" \in DOMAIN F => F["media-type"] = pol.mediaType
       /\ "media-source" \in DOMAIN F => F["media-source"] = pol.mediaSource
       /\ "output-mode" \in DOMAIN F => F["output-mode"] = pol.colorMode
       /\ "print-scaling" \in DOMAIN F => F["print-scaling"] = pol.printScaling
       /\ pol.printScaling # None => "print-scaling" \in DOMAIN F
       /\ "media-col" \in DOMAIN F =>
            F["media-col"].type = pol.mediaType /\ F["media-col"].source = pol.mediaSource
  BY <1>5, <1>11, ForcedFacts
<1>15. /\ DOMAIN out = DOMAIN F \cup DOMAIN S
       /\ \A n \in DOMAIN F : out[n] = F[n]
       /\ \A n \in DOMAIN S \ DOMAIN F : out[n] = S[n]
  BY <1>8 DEF Over
<1>16. {"media", "media-type", "media-source", "media-col", "output-mode",
        "print-color-mode"} \subseteq drop
  BY <1>2 DEF policyDropAttrs
<1>17. \A n \in DOMAIN out \cap drop : n \in DOMAIN F /\ out[n] = F[n]
  BY <1>13, <1>15
<1>18. "overrides" \notin forcedNames
  BY DEF forcedNames
<1>19. "print-color-mode" \in DOMAIN out /\ out["print-color-mode"] = pol.colorMode
  BY <1>14, <1>15
<1>20. DOMAIN out \cap drop \subseteq forcedNames
  BY <1>14, <1>17
<1>21. /\ "media" \in DOMAIN out => out["media"] \in ToSet(policyMediaNames(pol))
       /\ "media-type" \in DOMAIN out => out["media-type"] = pol.mediaType
       /\ "media-source" \in DOMAIN out => out["media-source"] = pol.mediaSource
       /\ "output-mode" \in DOMAIN out => out["output-mode"] = pol.colorMode
       /\ "media-col" \in DOMAIN out =>
           /\ out["media-col"].type = pol.mediaType
           /\ out["media-col"].source = pol.mediaSource
  BY <1>10, <1>14, <1>16, <1>17
<1>22. pol.printScaling # None \/ "print-scaling" \in drop =>
           \/ "print-scaling" \notin DOMAIN out
           \/ out["print-scaling"] = pol.printScaling
  BY <1>14, <1>15, <1>17
<1>23. "overrides" \in DOMAIN out =>
         \A col \in out["overrides"] :
           hasOverridePayload(col) /\ \A path \in col : ToSet(path) \cap drop = {}
  <2>1. "overrides" \in DOMAIN out => "overrides" \in DOMAIN S /\ out["overrides"] = S["overrides"]
    BY <1>14, <1>15, <1>18
  <2> QED
    BY <1>13, <2>1
<1>24. KeepsPolicy(pol, out)
  BY <1>2, <1>19, <1>20, <1>21, <1>22, <1>23 DEF KeepsPolicy
<1> QED
  BY <1>1, <1>9, <1>24
-----------------------------------------------------------------------------
(* Routes.                                                                  *)

PageFields  == {"name", "size", "type", "sides", "resolution", "quality", "sheetBack"}
RouteFields == {"client", "upstream", "transform", "mapping", "resolutions", "page"}

\* A route of a queue: one that translates does it to PWG raster, and to grey
\* exactly when the policy is monochrome.
Translates(upstream, mapping, pol) ==
  upstream = "pwg" /\ (mapping = "W8" <=> pol.colorMode = "monochrome")

RouteOK(r, pol) ==
  /\ DOMAIN r = RouteFields /\ DOMAIN r.page = PageFields
  /\ r.transform => Translates(r.upstream, r.mapping, pol)

\* Whether the printer's own AirPrint family fits the policy.
Native(up, q) == validURFFamily(up) /\ nativeURFTokens(up, q) # {}

\* Formats that get a pass-through route.
Passes(up, q, f) ==
  /\ f \in ToSet(up.formats) /\ f \notin {"octet", "untyped"}
  /\ f = "urf" => Native(up, q)
  /\ f = "pwg" => validPWGRasterFamily(up, q)

\* The route that translates AirPrint, None when there is none.
Emulated(up, q) ==
  IF Native(up, q) \/ q.airprint # "emulate" THEN None
  ELSE emulatedURFRoute(up, q, buildMediaCatalog(up, q))

LEMMA EmulatedFacts ==
  ASSUME NEW up, NEW q, NEW pol, q.colorMode = pol.colorMode, Emulated(up, q) # None
  PROVE  /\ RouteOK(Emulated(up, q), pol) /\ Emulated(up, q).client = "urf"
         /\ Emulated(up, q).mapping = mappingForPolicyAndTypes(up, q)
         /\ ~Native(up, q)
<1>1. PICK r : r = Emulated(up, q)
  OBVIOUS
<1>2. ~Native(up, q) /\ r = emulatedURFRoute(up, q, buildMediaCatalog(up, q))
  BY <1>1 DEF Emulated
<1>3. PICK c : c = buildMediaCatalog(up, q)
  OBVIOUS
<1>4. PICK page : page = [name |-> policyMediaDefault(q), size |-> c.byName[policyMediaDefault(q)].size,
                      type |-> c.byName[policyMediaDefault(q)].type,
                      sides |-> defaultSides(up), resolution |-> Min(squarePWGResolutions(up)),
                      quality |-> 0, sheetBack |-> up.sheetBack]
  OBVIOUS
<1>5. r = [client |-> "urf", upstream |-> "pwg", transform |-> TRUE,
            mapping |-> mappingForPolicyAndTypes(up, q), resolutions |-> squarePWGResolutions(up),
            page |-> page]
  <2>1. r # None /\ r = emulatedURFRoute(up, q, c)
    BY <1>1, <1>2, <1>3
  <2> QED
    BY <1>4, <2>1 DEF emulatedURFRoute
<1>6. DOMAIN page = PageFields
  BY <1>4 DEF PageFields
<1>7. DOMAIN r = RouteFields /\ DOMAIN r.page = PageFields
  BY <1>5, <1>6 DEF RouteFields
<1>8. r.upstream = "pwg" /\ r.mapping = mappingForPolicyAndTypes(up, q) /\ r.client = "urf"
  BY <1>5
<1>9. mappingForPolicyAndTypes(up, q) = "W8" <=> pol.colorMode = "monochrome"
  BY DEF mappingForPolicyAndTypes
<1>10. RouteOK(r, pol)
  BY <1>7, <1>8, <1>9 DEF RouteOK, Translates
<1> QED
  BY <1>1, <1>2, <1>8, <1>10

\* Duplicates and the generic format aside, every format of the printer is
\* admitted.
LEMMA AdmittedFormats ==
  ASSUME NEW up, up.formats \in Seq(STRING)
  PROVE  /\ admittedUpstreamFormats(up) \in Seq(STRING)
         /\ \A f : f \in ToSet(admittedUpstreamFormats(up)) <=>
                   f \in ToSet(up.formats) /\ f \notin {"octet", "untyped"}
<1>1. PICK s \in Seq(STRING) : s = up.formats
  OBVIOUS
<1>2. PICK kept : kept = {i \in DOMAIN s : /\ s[i] \notin {"octet", "untyped"}
                                           /\ \A k \in 1..(i - 1) : s[k] # s[i]}
  OBVIOUS
<1>3. admittedUpstreamFormats(up) = Picked(s, kept)
  BY <1>1, <1>2 DEF admittedUpstreamFormats
<1>4. /\ Picked(s, kept) \in Seq(STRING)
      /\ \A x : x \in ToSet(Picked(s, kept)) <=> \E i \in DOMAIN s : i \in kept /\ s[i] = x
  BY PickedFacts
<1>5. \A x : x \in ToSet(s) <=> \E i \in DOMAIN s : s[i] = x
  BY SeqFacts
<1>6. DOMAIN s \in SUBSET Nat /\ \A i \in DOMAIN s : \A k \in 1..(i - 1) : k \in DOMAIN s /\ k < i /\ ~(i <= k)
  BY SeqFacts
<1>7. ASSUME NEW f, f \in ToSet(s), f \notin {"octet", "untyped"}
      PROVE  f \in ToSet(Picked(s, kept))
  <2>1. PICK at : at = {i \in DOMAIN s : s[i] = f}
    OBVIOUS
  <2>2. at # {} /\ at \in SUBSET Nat
    BY <1>5, <1>6, <1>7, <2>1
  <2>3. PICK i \in at : \A m \in at : i <= m
    BY <2>2, LeastNat
  <2>4. i \in DOMAIN s /\ s[i] = f
    BY <2>1
  <2>5. ASSUME NEW k \in 1..(i - 1) PROVE s[k] # s[i]
    <3>1. k \in DOMAIN s /\ ~(i <= k)
      BY <1>6, <2>4
    <3> QED
      BY <2>1, <2>3, <2>4, <3>1
  <2>6. i \in kept
    BY <1>2, <1>7, <2>4, <2>5
  <2> QED
    BY <1>4, <2>4, <2>6
<1>8. ASSUME NEW f, f \in ToSet(Picked(s, kept))
      PROVE  f \in ToSet(s) /\ f \notin {"octet", "untyped"}
  <2>1. PICK i \in DOMAIN s : i \in kept /\ s[i] = f
    BY <1>4, <1>8
  <2> QED
    BY <1>2, <1>5, <2>1
<1> QED
  BY <1>1, <1>3, <1>4, <1>7, <1>8

\* The routes of a snapshot: one of its own for every format that passes, then
\* the one that translates.
Through(up, q, t) ==
  /\ \E n \in Nat : DOMAIN t = 1..n
  /\ t = [i \in DOMAIN t |-> t[i]]
  /\ \A i \in DOMAIN t : /\ DOMAIN t[i] = RouteFields /\ DOMAIN t[i].page = PageFields
                         /\ t[i].transform = FALSE /\ Passes(up, q, t[i].client)
  /\ \A f : Passes(up, q, f) => \E i \in DOMAIN t : t[i].client = f

LEMMA SnapshotIs ==
  ASSUME NEW up, NEW q, up.formats \in Seq(STRING)
  PROVE  \E t : /\ Through(up, q, t)
                /\ Native(up, q) => buildRouteSnapshot(up, q, buildMediaCatalog(up, q)) =
                     [routes |-> t, path |-> "native", tokens |-> nativeURFTokens(up, q)]
                /\ ~Native(up, q) /\ Emulated(up, q) = None =>
                     buildRouteSnapshot(up, q, buildMediaCatalog(up, q)) =
                       [routes |-> t, path |-> "unavailable", tokens |-> {}]
                /\ ~Native(up, q) /\ Emulated(up, q) # None =>
                     buildRouteSnapshot(up, q, buildMediaCatalog(up, q)) =
                       [routes |-> Append(t, Emulated(up, q)), path |-> "emulated",
                        tokens |-> {"V", "RS", URFToken(Emulated(up, q).mapping)}]
<1>1. PICK c : c = buildMediaCatalog(up, q)
  OBVIOUS
<1>2. PICK page : page = defaultPageSettings(up, q, c)
  OBVIOUS
<1>3. DOMAIN page = PageFields
  BY <1>2 DEF defaultPageSettings, PageFields
<1>4. PICK formats \in Seq(STRING) : formats = admittedUpstreamFormats(up)
  BY AdmittedFormats
<1>5. PICK kept : kept = {i \in DOMAIN formats :
                    /\ formats[i] = "urf" => Native(up, q)
                    /\ formats[i] = "pwg" => validPWGRasterFamily(up, q)}
  OBVIOUS
<1>6. PICK a \in Seq(STRING) : a = Picked(formats, kept)
  BY PickedFacts
<1>7. PICK t : t = [i \in DOMAIN a |-> [client |-> a[i], upstream |-> a[i], transform |-> FALSE,
                    mapping |-> None, resolutions |-> {}, page |-> page]]
  OBVIOUS
<1>8. PICK tokens : tokens = IF validURFFamily(up) THEN nativeURFTokens(up, q) ELSE {}
  OBVIOUS
<1>9. Native(up, q) <=> tokens # {}
  BY <1>8 DEF Native
<1>10. PICK native \in BOOLEAN : native <=> tokens # {}
  OBVIOUS
<1>11. native <=> Native(up, q)
  BY <1>9, <1>10
<1>12. PICK e : e = IF native \/ q.airprint # "emulate" THEN None
                    ELSE emulatedURFRoute(up, q, c)
  OBVIOUS
<1>13. e = Emulated(up, q)
  BY <1>1, <1>11, <1>12 DEF Emulated
<1>14. kept = {i \in DOMAIN formats :
                    /\ formats[i] = "urf" => tokens # {}
                    /\ formats[i] = "pwg" => validPWGRasterFamily(up, q)}
  BY <1>5, <1>9
<1>15. buildRouteSnapshot(up, q, c) =
         CASE tokens # {} -> [routes |-> t, path |-> "native", tokens |-> tokens]
           [] ~(tokens # {}) /\ e = None ->
                [routes |-> t, path |-> "unavailable", tokens |-> {}]
           [] ~(tokens # {}) /\ e # None ->
                [routes |-> Append(t, e), path |-> "emulated",
                 tokens |-> {"V", "RS", URFToken(e.mapping)}]
  BY <1>2, <1>4, <1>6, <1>7, <1>8, <1>10, <1>12, <1>14 DEF buildRouteSnapshot
<1>16. Through(up, q, t)
  <2>1. Len(a) \in Nat /\ DOMAIN t = 1..Len(a) /\ DOMAIN a = 1..Len(a)
    BY <1>7
  <2>2. \A x : x \in ToSet(a) <=> Passes(up, q, x)
    <3>1. \A x : x \in ToSet(a) <=> \E i \in DOMAIN formats : i \in kept /\ formats[i] = x
      BY <1>6, PickedFacts
    <3>2. \A x : x \in ToSet(formats) <=> \E i \in DOMAIN formats : formats[i] = x
      BY SeqFacts
    <3>3. \A x : x \in ToSet(formats) <=> x \in ToSet(up.formats) /\ x \notin {"octet", "untyped"}
      BY <1>4, AdmittedFormats
    <3> QED
      BY <1>5, <3>1, <3>2, <3>3 DEF Passes
  <2>3. ASSUME NEW i \in DOMAIN t
        PROVE  /\ DOMAIN t[i] = RouteFields /\ DOMAIN t[i].page = PageFields
               /\ t[i].transform = FALSE /\ Passes(up, q, t[i].client)
    <3>1. i \in DOMAIN a
      BY <2>1
    <3>2. t[i] = [client |-> a[i], upstream |-> a[i], transform |-> FALSE,
                    mapping |-> None, resolutions |-> {}, page |-> page]
      BY <1>7, <3>1
    <3>3. a[i] \in ToSet(a)
      BY <3>1 DEF ToSet
    <3>4. t[i].client = a[i] /\ t[i].page = page /\ t[i].transform = FALSE
      BY <3>2
    <3>5. DOMAIN t[i] = RouteFields
      BY <3>2 DEF RouteFields
    <3> QED
      BY <1>3, <2>2, <3>3, <3>4, <3>5
  <2>4. ASSUME NEW f, Passes(up, q, f) PROVE \E i \in DOMAIN t : t[i].client = f
    <3>1. f \in ToSet(a)
      BY <2>2, <2>4
    <3>2. PICK i \in DOMAIN a : a[i] = f
      BY <3>1 DEF ToSet
    <3>3. i \in DOMAIN t /\ t[i].client = f
      BY <1>7, <3>2
    <3> QED
      BY <3>3
  <2>5. t = [i \in DOMAIN t |-> t[i]]
    BY <1>7
  <2> QED
    BY <2>1, <2>3, <2>4, <2>5 DEF Through
<1>17. Native(up, q) => buildRouteSnapshot(up, q, c) =
                     [routes |-> t, path |-> "native", tokens |-> nativeURFTokens(up, q)]
  <2>1. Native(up, q) => tokens = nativeURFTokens(up, q)
    BY <1>8 DEF Native
  <2> QED
    BY <1>9, <1>15, <2>1
<1>18. ~Native(up, q) /\ e = None => buildRouteSnapshot(up, q, c) =
                       [routes |-> t, path |-> "unavailable", tokens |-> {}]
  BY <1>9, <1>15
<1>19. ~Native(up, q) /\ e # None => buildRouteSnapshot(up, q, c) =
                       [routes |-> Append(t, e), path |-> "emulated",
                        tokens |-> {"V", "RS", URFToken(e.mapping)}]
  BY <1>9, <1>15
<1> QED
  BY <1>1, <1>13, <1>16, <1>17, <1>18, <1>19

\* What the snapshot of a projected policy holds.
LEMMA SnapshotFacts ==
  ASSUME NEW up, NEW q, NEW pol, up.formats \in Seq(STRING), q.colorMode = pol.colorMode,
         NEW s, s = buildRouteSnapshot(up, q, buildMediaCatalog(up, q))
  PROVE  /\ \E n \in Nat : DOMAIN s.routes = 1..n
         /\ \A i \in DOMAIN s.routes : RouteOK(s.routes[i], pol)
         /\ \A f : Passes(up, q, f) => \E i \in DOMAIN s.routes : s.routes[i].client = f
         /\ s.path # "unavailable" => \E i \in DOMAIN s.routes : s.routes[i].client = "urf"
         /\ s.path = "native" => Native(up, q) /\ s.tokens = nativeURFTokens(up, q)
         /\ s.path = "unavailable" => s.tokens = {}
         /\ s.path = "emulated" =>
              /\ s.tokens = {"V", "RS", URFToken(mappingForPolicyAndTypes(up, q))}
              /\ \A i \in DOMAIN s.routes :
                   s.routes[i].client = "urf"
                     => s.routes[i].mapping = mappingForPolicyAndTypes(up, q)
         /\ s.path \in {"native", "unavailable", "emulated"}
<1>1. PICK e : e = Emulated(up, q)
  OBVIOUS
<1>2. PICK t : /\ Through(up, q, t)
               /\ Native(up, q) => s =
                    [routes |-> t, path |-> "native", tokens |-> nativeURFTokens(up, q)]
               /\ ~Native(up, q) /\ e = None =>
                    s = [routes |-> t, path |-> "unavailable", tokens |-> {}]
               /\ ~Native(up, q) /\ e # None =>
                    s = [routes |-> Append(t, e), path |-> "emulated",
                         tokens |-> {"V", "RS", URFToken(e.mapping)}]
  BY <1>1, SnapshotIs
<1>3. Through(up, q, t)
  BY <1>2, Zenon
<1>4. Native(up, q) => s = [routes |-> t, path |-> "native", tokens |-> nativeURFTokens(up, q)]
  BY <1>2, Zenon
<1>5. ~Native(up, q) /\ e = None => s = [routes |-> t, path |-> "unavailable", tokens |-> {}]
  BY <1>2, Zenon
<1>6. ~Native(up, q) /\ e # None =>
         s = [routes |-> Append(t, e), path |-> "emulated",
              tokens |-> {"V", "RS", URFToken(e.mapping)}]
  BY <1>2, Zenon
<1>7. PICK n \in Nat : DOMAIN t = 1..n
  BY <1>3 DEF Through
<1>8. \A i \in DOMAIN t : RouteOK(t[i], pol)
  BY <1>3 DEF Through, RouteOK
<1>9. \A f : Passes(up, q, f) => \E i \in DOMAIN t : t[i].client = f
  BY <1>3 DEF Through
<1>10. CASE Native(up, q)
  <2>1. s.routes = t /\ s.path = "native" /\ s.tokens = nativeURFTokens(up, q)
    BY <1>10, <1>4
  <2>2. Passes(up, q, "urf")
    BY <1>10 DEF Native, Passes, validURFFamily, hasMimeTypeValue
  <2> QED
    BY <1>7, <1>8, <1>9, <1>10, <2>1, <2>2
<1>11. CASE ~Native(up, q) /\ e = None
  <2>1. s.routes = t /\ s.path = "unavailable" /\ s.tokens = {}
    BY <1>11, <1>5
  <2> QED
    BY <1>7, <1>8, <1>9, <2>1
<1>12. CASE ~Native(up, q) /\ e # None
  <2>1. /\ s.routes = Append(t, e) /\ s.path = "emulated"
        /\ s.tokens = {"V", "RS", URFToken(e.mapping)}
    BY <1>12, <1>6
  <2>2. RouteOK(e, pol) /\ e.client = "urf" /\ e.mapping = mappingForPolicyAndTypes(up, q)
    BY <1>1, <1>12, EmulatedFacts
  <2>3. PICK R : R = {t[i] : i \in DOMAIN t} \cup {e}
    OBVIOUS
  <2>4. t \in Seq(R) /\ e \in R
    <3>1. \A i \in DOMAIN t : t[i] \in R
      BY <2>3
    <3>2. t = [i \in DOMAIN t |-> t[i]]
      BY <1>3 DEF Through
    <3>3. t \in [1..n -> R]
      BY <1>7, <3>1, <3>2
    <3>4. t \in Seq(R)
      BY <3>3
    <3> QED
      BY <2>3, <3>4
  <2>5. PICK r : r = Append(t, e)
    OBVIOUS
  <2>6. Len(t) = n
    BY <1>7, <2>4
  <2>7. /\ DOMAIN r = 1..(n + 1) /\ r[n + 1] = e /\ \A i \in 1..n : r[i] = t[i]
    BY <2>4, <2>5, <2>6
  <2>8. \A i \in DOMAIN r : i = n + 1 \/ i \in DOMAIN t
    BY <1>7, <2>7
  <2>9. n + 1 \in DOMAIN r /\ \A i \in DOMAIN t : i \in DOMAIN r /\ r[i] = t[i]
    BY <1>7, <2>7
  <2>10. \A i \in DOMAIN t : t[i].client # "urf"
    BY <1>12, <1>3 DEF Through, Passes
  <2>11. \A i \in DOMAIN r : RouteOK(r[i], pol)
    BY <1>8, <2>2, <2>7, <2>8, <2>9
  <2>12. \A f : Passes(up, q, f) => \E i \in DOMAIN r : r[i].client = f
    BY <1>9, <2>9
  <2>13. \E i \in DOMAIN r : r[i].client = "urf"
    BY <2>2, <2>7, <2>9
  <2>14. \A i \in DOMAIN r : r[i].client = "urf" => r[i].mapping = mappingForPolicyAndTypes(up, q)
    BY <2>2, <2>7, <2>8, <2>9, <2>10
  <2>15. \E k \in Nat : DOMAIN r = 1..k
    BY <2>7
  <2>16. s.routes = r
    BY <2>1, <2>5
  <2>17. /\ \E k \in Nat : DOMAIN s.routes = 1..k
         /\ \A i \in DOMAIN s.routes : RouteOK(s.routes[i], pol)
    BY <2>11, <2>15, <2>16
  <2>18. /\ \A f : Passes(up, q, f) => \E i \in DOMAIN s.routes : s.routes[i].client = f
         /\ \E i \in DOMAIN s.routes : s.routes[i].client = "urf"
    BY <2>12, <2>13, <2>16
  <2>19. \A i \in DOMAIN s.routes :
           s.routes[i].client = "urf" => s.routes[i].mapping = mappingForPolicyAndTypes(up, q)
    BY <2>14, <2>16
  <2>20. s.tokens = {"V", "RS", URFToken(mappingForPolicyAndTypes(up, q))}
    BY <2>1, <2>2
  <2>21. s.path = "emulated"
    BY <2>1
  <2> QED
    BY <2>17, <2>18, <2>19, <2>20, <2>21
<1> QED
  BY <1>10, <1>11, <1>12

\* The route of a format is one of the snapshot for it.
LEMMA RouteForFacts ==
  ASSUME NEW s, NEW n \in Nat, DOMAIN s.routes = 1..n, NEW f
  PROVE  /\ \/ routeFor(s, f) = None
            \/ \E i \in DOMAIN s.routes : routeFor(s, f) = s.routes[i] /\ s.routes[i].client = f
         /\ (\E i \in DOMAIN s.routes : s.routes[i].client = f) =>
              \E i \in DOMAIN s.routes : routeFor(s, f) = s.routes[i] /\ s.routes[i].client = f
<1>1. PICK at : at = {i \in DOMAIN s.routes : s.routes[i].client = f}
  OBVIOUS
<1>2. routeFor(s, f) = IF at = {} THEN None ELSE s.routes[Min(at)]
  BY <1>1 DEF routeFor
<1>3. CASE at = {}
  BY <1>1, <1>2, <1>3
<1>4. CASE at # {}
  <2>1. at \in SUBSET Nat
    BY <1>1
  <2>2. Min(at) \in at
    BY <1>4, <2>1, MinOf
  <2> QED
    BY <1>1, <1>2, <1>4, <2>2
<1> QED
  BY <1>3, <1>4

\* And so is the default.
LEMMA DefaultRouteFacts ==
  ASSUME NEW s, NEW n \in Nat, DOMAIN s.routes = 1..n, NEW up
  PROVE  \/ defaultRoute(s, up) = None
         \/ \E i \in DOMAIN s.routes : defaultRoute(s, up) = s.routes[i]
<1>1. PICK r : r = routeFor(s, up.formatDefault)
  OBVIOUS
<1>2. CASE r # None
  <2>1. defaultRoute(s, up) = r
    BY <1>1, <1>2 DEF defaultRoute
  <2> QED
    BY <1>1, <2>1, RouteForFacts
<1>3. CASE r = None /\ s.path = "emulated"
  <2>1. defaultRoute(s, up) = routeFor(s, "urf")
    BY <1>1, <1>3 DEF defaultRoute
  <2> QED
    BY <2>1, RouteForFacts
<1>4. CASE r = None /\ s.path # "emulated"
  <2>1. defaultRoute(s, up) = IF s.routes = <<>> THEN None ELSE s.routes[1]
    BY <1>1, <1>4 DEF defaultRoute
  <2>2. n = 0 \/ 1 \in DOMAIN s.routes
    OBVIOUS
  <2>3. n = 0 => s.routes = <<>> \/ 1 \notin DOMAIN s.routes
    OBVIOUS
  <2> QED
    BY <2>1, <2>2, <2>3
<1> QED
  BY <1>2, <1>3, <1>4

\* The fields of the page settings of a request.
LEMMA PageSettingsAre ==
  ASSUME NEW route, NEW attrs, NEW up, DOMAIN route.page = PageFields,
         NEW name, name = (IF "media" \in DOMAIN attrs THEN attrs["media"] ELSE None),
         NEW size, size = preferredMediaInstance(mediaInstances(up,
                            [mediaSource |-> None, mediaType |-> route.page.type], name)).size
  PROVE  /\ DOMAIN routePageSettings(route, attrs, up) = PageFields
         /\ routePageSettings(route, attrs, up).name =
              IF name # None /\ size # None THEN name ELSE route.page.name
         /\ routePageSettings(route, attrs, up).size =
              IF name # None /\ size # None THEN size ELSE route.page.size
         /\ routePageSettings(route, attrs, up).sides =
              IF "sides" \in DOMAIN attrs THEN attrs["sides"] ELSE route.page.sides
<1>1. PICK a : a = IF name # None /\ size # None THEN name ELSE route.page.name
  OBVIOUS
<1>2. PICK b : b = IF name # None /\ size # None THEN size ELSE route.page.size
  OBVIOUS
<1>3. PICK c : c = IF "sides" \in DOMAIN attrs THEN attrs["sides"] ELSE route.page.sides
  OBVIOUS
<1>4. PICK d : d = IF "print-quality" \in DOMAIN attrs /\ attrs["print-quality"] \in 3..5
                   THEN attrs["print-quality"] ELSE route.page.quality
  OBVIOUS
<1>5. PICK r : r = IF "printer-resolution" \in DOMAIN attrs
                   THEN attrs["printer-resolution"] ELSE 0
  OBVIOUS
<1>6. PICK e : e = IF r > 0 /\ (route.resolutions = {} \/ r \in route.resolutions)
                   THEN r ELSE route.page.resolution
  OBVIOUS
<1>7. routePageSettings(route, attrs, up) =
        [route.page EXCEPT !.name = a, !.size = b, !.sides = c, !.quality = d, !.resolution = e]
  BY <1>1, <1>2, <1>3, <1>4, <1>5, <1>6 DEF routePageSettings
<1>8. PICK g : g = [route.page EXCEPT !.name = a, !.size = b, !.sides = c, !.quality = d,
                                      !.resolution = e]
  OBVIOUS
<1>9. DOMAIN g = PageFields /\ g.name = a /\ g.size = b /\ g.sides = c
  BY <1>8 DEF PageFields
<1> QED
  BY <1>1, <1>2, <1>3, <1>7, <1>8, <1>9

\* The sizes an answer gives are among those of the medium.
LEMMA SizesWithin ==
  ASSUME NEW up \in Upstreams, NEW name, NEW z \in SizesIn(up, name)
  PROVE  z \in SizesOf(name)
<1>1. CASE z = PWGSize[name]
  BY <1>1 DEF SizesOf
<1>2. CASE z # PWGSize[name]
  <2>1. PICK I : I = {k \in DOMAIN up.collections : name \in up.collections[k].names}
    OBVIOUS
  <2>2. z \in {up.collections[i].size : i \in I}
    BY <1>2, <2>1 DEF SizesIn
  <2>3. z \in UNION {{u.collections[i].size :
            i \in {k \in DOMAIN u.collections : name \in u.collections[k].names}} :
         u \in Upstreams}
    BY <2>1, <2>2
  <2> QED
    BY <2>3 DEF SizesOf
<1> QED
  BY <1>1, <1>2

LEMMA ListedUpstream ==
  ASSUME NEW up \in Upstreams
  PROVE  Listed(up) /\ up.formats \in Seq(STRING)
BY UpstreamsAssumption DEF Listed

\* The page settings of a request follow its attributes.
LEMMA PageSettingsFollow ==
  ASSUME NEW route, NEW attrs, NEW up \in Upstreams, DOMAIN route.page = PageFields,
         NEW pol \in Policies, KeepsPolicy(pol, attrs)
  PROVE  /\ DOMAIN routePageSettings(route, attrs, up) = PageFields
         /\ PageFollows(routePageSettings(route, attrs, up), attrs)
<1>1. PICK name : name = (IF "media" \in DOMAIN attrs THEN attrs["media"] ELSE None)
  OBVIOUS
<1>2. PICK e : e = preferredMediaInstance(mediaInstances(up,
                     [mediaSource |-> None, mediaType |-> route.page.type], name))
  OBVIOUS
<1>3. PICK size : size = e.size
  OBVIOUS
<1>4. PICK p : p = routePageSettings(route, attrs, up)
  OBVIOUS
<1>5. /\ DOMAIN p = PageFields
      /\ p.name = (IF name # None /\ size # None THEN name ELSE route.page.name)
      /\ p.size = (IF name # None /\ size # None THEN size ELSE route.page.size)
      /\ p.sides = (IF "sides" \in DOMAIN attrs THEN attrs["sides"] ELSE route.page.sides)
  BY <1>1, <1>2, <1>3, <1>4, PageSettingsAre
<1>6. Describes(up, name, e)
  BY <1>2, ListedUpstream, PreferredDescribes
<1>7. ASSUME "media" \in DOMAIN attrs, PWGSize[attrs["media"]] # None
      PROVE  /\ p.name = attrs["media"]
             /\ p.size # None /\ p.size \in SizesOf(attrs["media"])
  <2>1. name = attrs["media"]
    BY <1>1, <1>7
  <2>2. attrs["media"] \in ToSet(policyMediaNames(pol))
    BY <1>7 DEF KeepsPolicy
  <2>3. name # None
    BY <2>1, <2>2, ConfiguredNames, SeqFacts, NoneAssumption
  <2>4. size # None /\ size \in SizesIn(up, name)
    BY <1>3, <1>6, <1>7, <2>1 DEF Describes
  <2>5. size \in SizesOf(name)
    BY <2>4, SizesWithin
  <2> QED
    BY <1>5, <2>1, <2>3, <2>4, <2>5
<1>8. "sides" \in DOMAIN attrs => p.sides = attrs["sides"]
  BY <1>5
<1>9. PageFollows(p, attrs)
  BY <1>7, <1>8 DEF PageFollows
<1> QED
  BY <1>4, <1>5, <1>9

\* Those of a stored route stay as they are.
LEMMA PageSettingsStay ==
  ASSUME NEW route, NEW up, DOMAIN route.page = PageFields,
         NEW attrs, PageFollows(route.page, attrs)
  PROVE  PageFollows(routePageSettings(route, <<>>, up), attrs)
<1>1. PICK no : no = <<>>
  OBVIOUS
<1>2. "media" \notin DOMAIN no /\ "sides" \notin DOMAIN no
  BY <1>1
<1>3. PICK name : name = (IF "media" \in DOMAIN no THEN no["media"] ELSE None)
  OBVIOUS
<1>4. name = None
  BY <1>2, <1>3
<1>5. PICK size : size = preferredMediaInstance(mediaInstances(up,
                     [mediaSource |-> None, mediaType |-> route.page.type], name)).size
  OBVIOUS
<1>6. PICK p : p = routePageSettings(route, no, up)
  OBVIOUS
<1>7. /\ p.name = (IF name # None /\ size # None THEN name ELSE route.page.name)
      /\ p.size = (IF name # None /\ size # None THEN size ELSE route.page.size)
      /\ p.sides = (IF "sides" \in DOMAIN no THEN no["sides"] ELSE route.page.sides)
  BY <1>3, <1>5, <1>6, PageSettingsAre
<1>8. p.name = route.page.name /\ p.size = route.page.size /\ p.sides = route.page.sides
  BY <1>2, <1>4, <1>7
<1>9. PageFollows(p, attrs)
  BY <1>8 DEF PageFollows
<1> QED
  BY <1>1, <1>6, <1>9
-----------------------------------------------------------------------------
(* A capability model.                                                      *)

\* The model of an answer and a policy, when the policy can be projected.
LEMMA ModelIs ==
  ASSUME NEW up, NEW pol, NEW m \in Models(up, pol)
  PROVE  /\ ProjectPolicyAgainstUpstream(up, pol).ok
         /\ m = NewCapabilityModel(up, ProjectPolicyAgainstUpstream(up, pol).policy,
                  buildRouteSnapshot(up, ProjectPolicyAgainstUpstream(up, pol).policy,
                    buildMediaCatalog(up, ProjectPolicyAgainstUpstream(up, pol).policy)))
<1>1. PICK p : p = ProjectPolicyAgainstUpstream(up, pol)
  OBVIOUS
<1> DEFINE snapshots(a) == {buildRouteSnapshot(up, a, c) : c \in {buildMediaCatalog(up, a)}}
           P == {a \in {p} : a.ok}
<1>2. Models(up, pol) = UNION {{NewCapabilityModel(up, a.policy, s) : s \in snapshots(a.policy)} : a \in P}
  BY <1>1 DEF Models
<1>3. PICK a \in P : m \in {NewCapabilityModel(up, a.policy, s) : s \in snapshots(a.policy)}
  BY <1>2
<1>4. a = p /\ p.ok
  BY <1>3
<1>5. PICK s \in snapshots(p.policy) : m = NewCapabilityModel(up, p.policy, s)
  BY <1>3, <1>4
<1>6. s = buildRouteSnapshot(up, p.policy, buildMediaCatalog(up, p.policy))
  BY <1>5
<1> QED
  BY <1>1, <1>4, <1>5, <1>6

\* What handlers read of it.
ModelOK(m, pol) ==
  /\ m.upstream \in Upstreams /\ ProjectsTo(m.policy, pol)
  /\ \E n \in Nat : DOMAIN m.routes.routes = 1..n
  /\ \A i \in DOMAIN m.routes.routes : RouteOK(m.routes.routes[i], pol)

LEMMA ModelFacts ==
  ASSUME NEW up \in Upstreams, NEW pol \in Policies, NEW m \in Models(up, pol)
  PROVE  ModelOK(m, pol)
<1>1. PICK q : q = ProjectPolicyAgainstUpstream(up, pol).policy
  OBVIOUS
<1>2. PICK s : s = buildRouteSnapshot(up, q, buildMediaCatalog(up, q))
  OBVIOUS
<1>3. m = NewCapabilityModel(up, q, s)
  BY <1>1, <1>2, ModelIs
<1>4. ProjectsTo(q, pol)
  BY <1>1, ModelIs, ProjectedPolicy
<1>5. m.upstream = up /\ m.policy = q /\ m.routes = s
  BY <1>3 DEF NewCapabilityModel
<1>6. /\ \E n \in Nat : DOMAIN s.routes = 1..n
      /\ \A i \in DOMAIN s.routes : RouteOK(s.routes[i], pol)
  <2>1. q.colorMode = pol.colorMode
    BY <1>4 DEF ProjectsTo
  <2>2. up.formats \in Seq(STRING)
    BY ListedUpstream
  <2> QED
    BY <1>2, <2>1, <2>2, SnapshotFacts
<1> QED
  BY <1>4, <1>5, <1>6 DEF ModelOK
-----------------------------------------------------------------------------
(* What a model advertises.                                                 *)

\* The tokens of a native family that fits the policy.
LEMMA NativeTokens ==
  ASSUME NEW up, NEW q
  PROVE  /\ nativeURFTokens(up, q) # {} => "RS" \in nativeURFTokens(up, q)
         /\ q.colorMode = "monochrome" => nativeURFTokens(up, q) \cap ColorTokens = {}
         /\ q.colorMode = "color" => nativeURFTokens(up, q) \cap {"W", "DEVW"} = {}
<1>1. PICK preferred \in {"SRGB", "DEVRGB"} :
        preferred = IF "SRGB" \in up.urf THEN "SRGB" ELSE "DEVRGB"
  OBVIOUS
<1>2. PICK mode : mode = q.colorMode
  OBVIOUS
<1>3. PICK kept : kept = {t \in up.urf :
                 CASE mode = "monochrome" -> t \notin ColorTokens
                   [] mode = "color"      -> t \notin ({"W", "DEVW"} \cup ColorTokens) \/ t = preferred
                   [] mode \notin {"monochrome", "color"} -> TRUE}
  OBVIOUS
<1>4. PICK T : T = nativeURFTokens(up, q)
  OBVIOUS
<1>5. T = kept \/ T = {}
  BY <1>1, <1>2, <1>3, <1>4 DEF nativeURFTokens
<1>6. T # {} => "RS" \in kept
  BY <1>1, <1>2, <1>3, <1>4 DEF nativeURFTokens
<1>7. mode = "monochrome" => kept \cap ColorTokens = {}
  BY <1>3
<1>8. mode = "color" => kept \cap {"W", "DEVW"} = {}
  BY <1>3
<1> QED
  BY <1>2, <1>4, <1>5, <1>6, <1>7, <1>8

\* The formats and the raster types before the routes are applied.
LEMMA SynthesizedFacts ==
  ASSUME NEW up, NEW q, up.formats \in Seq(STRING), NEW b, b = synthesizedFormats(up, q),
         validURFFamily(up) => nativeURFTokens(up, q) # {}
  PROVE  /\ b.default = None \/ Passes(up, q, b.default)
         /\ b.preferred = None \/ Passes(up, q, b.preferred)
<1>1. PICK s \in Seq(STRING) : s = up.formats
  OBVIOUS
<1>2. PICK kept : kept = {i \in DOMAIN s :
                  /\ s[i] \notin {"untyped", "octet"}
                  /\ s[i] = "pwg" => validPWGRasterFamily(up, q)
                  /\ s[i] = "urf" => validURFFamily(up)}
  OBVIOUS
<1>3. PICK listed \in Seq(STRING) : listed = Picked(s, kept)
  BY PickedFacts
<1>4. ASSUME NEW f \in ToSet(listed) PROVE Passes(up, q, f)
  <2>1. PICK i \in DOMAIN s : i \in kept /\ s[i] = f
    BY <1>3, PickedFacts
  <2>2. f \in ToSet(up.formats)
    BY <1>1, <2>1 DEF ToSet
  <2> QED
    BY <1>2, <2>1, <2>2 DEF Passes, Native
<1>5. listed # <<>> => Head(listed) \in ToSet(listed)
  BY SeqFacts
<1>6. b.default = IF listed = <<>> \/ up.formatDefault = None THEN None
                   ELSE IF up.formatDefault \in ToSet(listed) THEN up.formatDefault
                   ELSE Head(listed)
  BY <1>1, <1>2, <1>3 DEF synthesizedFormats
<1>7. b.preferred = IF up.formatPreferred \in ToSet(listed) THEN up.formatPreferred ELSE None
  BY <1>1, <1>2, <1>3 DEF synthesizedFormats
<1>8. b.default = None \/ b.default \in ToSet(listed)
  BY <1>5, <1>6
<1>9. b.preferred = None \/ b.preferred \in ToSet(listed)
  BY <1>7
<1> QED
  BY <1>4, <1>8, <1>9

\* A monochrome queue advertises no colour type.
LEMMA SynthesizedTypes ==
  ASSUME NEW up, NEW q, NEW b, b = synthesizedFormats(up, q), q.colorMode = "monochrome"
  PROVE  b.rasterTypes \cap ColorTypes = {}
<1>1. \A t \in filteredPWGRasterTypes(up, q.colorMode) : t \in MonoTypes
  BY DEF filteredPWGRasterTypes, rasterTypeCompatible
<1>2. b.rasterTypes = {} \/ b.rasterTypes = filteredPWGRasterTypes(up, q.colorMode)
  BY DEF synthesizedFormats
<1>3. \A t \in MonoTypes : t \notin ColorTypes
  BY DEF MonoTypes, ColorTypes
<1> QED
  BY <1>1, <1>2, <1>3

\* The tokens and the type of a mapping.
LEMMA MappingFacts ==
  ASSUME NEW up, NEW q, NEW m, m = mappingForPolicyAndTypes(up, q)
  PROVE  /\ q.colorMode = "monochrome" => m = "W8"
         /\ m \in {"W8", "SRGB24", "DEVRGB24"}
         /\ q.colorMode = "color" => URFToken(m) \notin {"W", "DEVW"}
         /\ q.colorMode = "monochrome" =>
              URFToken(m) \notin ColorTokens /\ OutputType(m) \notin ColorTypes
<1>1. /\ q.colorMode = "monochrome" => m = "W8"
      /\ q.colorMode = "color" => m \in {"SRGB24", "DEVRGB24"}
      /\ m \in {"W8", "SRGB24", "DEVRGB24"}
  BY DEF mappingForPolicyAndTypes
<1>2. /\ m = "W8" => URFToken(m) = "W" /\ OutputType(m) = "sgray_8"
      /\ m = "SRGB24" => URFToken(m) = "SRGB"
      /\ m = "DEVRGB24" => URFToken(m) = "DEVRGB"
  BY DEF URFToken, OutputType
<1> QED
  BY <1>1, <1>2 DEF ColorTokens, ColorTypes

\* AirPrint is announced on a path for it.
LEMMA AnnouncedHasPath ==
  ASSUME NEW up, NEW q, NEW s, evaluateCapabilityProfiles(up, q, s).airprint
  PROVE  s.path # "unavailable"
<1>1. PICK base \in BOOLEAN :
        base = (/\ synthesizedFormats(up, q).formats # {}
                /\ \E i \in DOMAIN policyMediaNames(q) :
                     policyMediaSupportedByUpstream(up, q, policyMediaNames(q)[i])
                /\ up.baseline)
  OBVIOUS
<1>2. PICK a \in BOOLEAN : a = (q.airprint # "disabled" /\ base /\ s.path # "unavailable")
  OBVIOUS
<1>3. PICK b \in BOOLEAN : b = (q.everywhere # "disabled" /\ up.claimsEverywhere /\ base)
  OBVIOUS
<1>4. evaluateCapabilityProfiles(up, q, s) = [airprint |-> a, everywhere |-> b]
  BY <1>1, <1>2, <1>3, Zenon DEF evaluateCapabilityProfiles
<1>5. a
  BY <1>4
<1> QED
  BY <1>2, <1>5

\* What AdvertisedIsHonoured says of a model and a policy.
Honoured(m, pol) ==
  LET a == m.attributes
      fitting == validURFFamily(m.upstream)
                   => nativeURFTokens(m.upstream, m.policy) # {}
  IN  /\ m.profiles.airprint => routeFor(m.routes, "urf") # None /\ "RS" \in a.urf
      /\ m.routes.routes # <<>> => \A f \in a.formats : routeFor(m.routes, f) # None
      /\ fitting => \A f \in {a.default, a.preferred} \ {None} : routeFor(m.routes, f) # None
      /\ pol.colorMode = "monochrome" =>
           a.urf \cap ColorTokens = {} /\ a.rasterTypes \cap ColorTypes = {}
      /\ pol.colorMode = "color" => a.urf \cap {"W", "DEVW"} = {}
      /\ m.mediaDefault \in m.media
      /\ m.media \subseteq ToSet(policyMediaNames(pol))

LEMMA ModelHonours ==
  ASSUME NEW up \in Upstreams, NEW pol \in Policies, NEW m \in Models(up, pol)
  PROVE  Honoured(m, pol)
<1>1. PICK q : q = ProjectPolicyAgainstUpstream(up, pol).policy
  OBVIOUS
<1>2. PICK s : s = buildRouteSnapshot(up, q, buildMediaCatalog(up, q))
  OBVIOUS
<1>3. m = NewCapabilityModel(up, q, s)
  BY <1>1, <1>2, ModelIs
<1>4. ProjectsTo(q, pol) /\ q.colorMode = pol.colorMode
  BY <1>1, ModelIs, ProjectedPolicy DEF ProjectsTo
<1>5. PICK b : b = synthesizedFormats(up, q)
  OBVIOUS
<1>6. PICK a : a = applyRouteCapabilities(b, s)
  OBVIOUS
<1>7. /\ m.upstream = up /\ m.policy = q /\ m.routes = s /\ m.attributes = a
      /\ m.media = ToSet(policyMediaNames(q)) /\ m.mediaDefault = policyMediaDefault(q)
      /\ m.profiles = evaluateCapabilityProfiles(up, q, s)
  BY <1>3, <1>5, <1>6 DEF NewCapabilityModel
<1>8. up.formats \in Seq(STRING)
  BY ListedUpstream
<1>9. /\ \E n \in Nat : DOMAIN s.routes = 1..n
      /\ \A f : Passes(up, q, f) => \E i \in DOMAIN s.routes : s.routes[i].client = f
      /\ s.path # "unavailable" => \E i \in DOMAIN s.routes : s.routes[i].client = "urf"
      /\ s.path = "native" => Native(up, q) /\ s.tokens = nativeURFTokens(up, q)
      /\ s.path = "unavailable" => s.tokens = {}
      /\ s.path = "emulated" =>
           /\ s.tokens = {"V", "RS", URFToken(mappingForPolicyAndTypes(up, q))}
           /\ \A i \in DOMAIN s.routes :
                   s.routes[i].client = "urf"
                     => s.routes[i].mapping = mappingForPolicyAndTypes(up, q)
      /\ s.path \in {"native", "unavailable", "emulated"}
  BY <1>2, <1>4, <1>8, SnapshotFacts
<1>10. \A i \in DOMAIN s.routes : s.routes[i] # None
  BY <1>7, NoneAssumption
<1>11. PICK n \in Nat : DOMAIN s.routes = 1..n
  BY <1>9
<1>12. \A f : (\E i \in DOMAIN s.routes : s.routes[i].client = f) =>
                /\ routeFor(s, f) # None
                /\ \E i \in DOMAIN s.routes : routeFor(s, f) = s.routes[i] /\ s.routes[i].client = f
  <2> SUFFICES ASSUME NEW f, \E i \in DOMAIN s.routes : s.routes[i].client = f
               PROVE  /\ routeFor(s, f) # None
                      /\ \E i \in DOMAIN s.routes :
                           routeFor(s, f) = s.routes[i] /\ s.routes[i].client = f
    OBVIOUS
  <2>1. \E i \in DOMAIN s.routes : routeFor(s, f) = s.routes[i] /\ s.routes[i].client = f
    BY <1>11, RouteForFacts
  <2> QED
    BY <1>10, <2>1
<1>13. s.path # "unavailable" => s.routes # <<>>
  <2>1. s.routes = <<>> => DOMAIN s.routes = {}
    OBVIOUS
  <2> QED
    BY <1>9, <2>1
<1>14. a.urf = IF s.routes = <<>> THEN {} ELSE s.tokens
  <2>1. CASE s.routes = <<>>
    <3>1. a = [b EXCEPT !.urf = {}]
      BY <1>6, <2>1 DEF applyRouteCapabilities
    <3>2. "urf" \in DOMAIN b
      BY <1>5 DEF synthesizedFormats
    <3> QED
      BY <2>1, <3>1, <3>2
  <2>2. CASE s.routes # <<>>
    BY <1>6, <2>2 DEF applyRouteCapabilities
  <2> QED
    BY <2>1, <2>2
<1>15. /\ a.default = IF s.routes # <<>> /\ s.path = "emulated" THEN Known(b.default, "urf")
                      ELSE b.default
       /\ a.preferred = b.preferred
       /\ a.rasterTypes = IF s.routes # <<>> /\ s.path = "emulated"
                          THEN {OutputType(routeFor(s, "urf").mapping)} ELSE b.rasterTypes
  <2>1. CASE s.routes = <<>>
    <3>1. a = [b EXCEPT !.urf = {}]
      BY <1>6, <2>1 DEF applyRouteCapabilities
    <3>2. {"default", "preferred", "rasterTypes", "urf"} \subseteq DOMAIN b
      BY <1>5 DEF synthesizedFormats
    <3> QED
      BY <2>1, <3>1, <3>2
  <2>2. CASE s.routes # <<>>
    BY <1>6, <2>2 DEF applyRouteCapabilities
  <2> QED
    BY <2>1, <2>2
<1>16. m.profiles.airprint => routeFor(m.routes, "urf") # None /\ "RS" \in a.urf
  <2> SUFFICES ASSUME m.profiles.airprint
               PROVE  routeFor(m.routes, "urf") # None /\ "RS" \in a.urf
    OBVIOUS
  <2>1. s.path # "unavailable"
    BY <1>7, AnnouncedHasPath
  <2>2. routeFor(s, "urf") # None
    BY <1>9, <1>12, <2>1
  <2>3. a.urf = s.tokens
    BY <1>13, <1>14, <2>1
  <2>4. CASE s.path = "native"
    BY <1>7, <1>9, <2>2, <2>3, <2>4, NativeTokens DEF Native
  <2>5. CASE s.path = "emulated"
    BY <1>7, <1>9, <2>2, <2>3, <2>5
  <2> QED
    BY <1>9, <2>1, <2>4, <2>5
<1>17. s.routes # <<>> => \A f \in a.formats : routeFor(s, f) # None
  <2> SUFFICES ASSUME s.routes # <<>>, NEW f \in a.formats PROVE routeFor(s, f) # None
    OBVIOUS
  <2>1. f \in Formats(s)
    BY <1>6 DEF applyRouteCapabilities
  <2>2. PICK i \in DOMAIN s.routes : s.routes[i].client = f
    BY <2>1 DEF Formats
  <2> QED
    BY <1>12, <2>2
<1>18. ASSUME validURFFamily(up) => nativeURFTokens(up, q) # {},
              NEW f \in {a.default, a.preferred} \ {None}
       PROVE  routeFor(s, f) # None
  <2>1. /\ b.default = None \/ Passes(up, q, b.default)
        /\ b.preferred = None \/ Passes(up, q, b.preferred)
    BY <1>5, <1>8, <1>18, SynthesizedFacts
  <2>2. CASE f = a.preferred
    BY <1>9, <1>12, <1>15, <1>18, <2>1, <2>2
  <2>3. CASE f = a.default
    <3>1. f = b.default \/ (s.path = "emulated" /\ f = "urf")
      BY <1>15, <2>3 DEF Known
    <3>2. CASE f = b.default
      BY <1>9, <1>12, <1>18, <2>1, <3>2
    <3>3. CASE s.path = "emulated" /\ f = "urf"
      BY <1>9, <1>12, <3>3
    <3> QED
      BY <3>1, <3>2, <3>3
  <2> QED
    BY <1>18, <2>2, <2>3
<1>19. PICK mapping : mapping = mappingForPolicyAndTypes(up, q)
  OBVIOUS
<1>20. ASSUME pol.colorMode = "monochrome"
       PROVE  a.urf \cap ColorTokens = {} /\ a.rasterTypes \cap ColorTypes = {}
  <2>1. URFToken(mapping) \notin ColorTokens /\ OutputType(mapping) \notin ColorTypes
    BY <1>4, <1>19, <1>20, MappingFacts
  <2>2. b.rasterTypes \cap ColorTypes = {}
    BY <1>4, <1>5, <1>20, SynthesizedTypes
  <2>3. s.tokens \cap ColorTokens = {}
    <3>1. CASE s.path = "native"
      BY <1>4, <1>9, <1>20, <3>1, NativeTokens
    <3>2. CASE s.path = "emulated"
      <4>1. s.tokens = {"V", "RS", URFToken(mapping)}
        BY <1>9, <1>19, <3>2
      <4>2. "V" \notin ColorTokens /\ "RS" \notin ColorTokens
        BY DEF ColorTokens
      <4> QED
        BY <2>1, <4>1, <4>2
    <3>3. CASE s.path = "unavailable"
      BY <1>9, <3>3
    <3> QED
      BY <1>9, <3>1, <3>2, <3>3
  <2>4. s.path = "emulated" => routeFor(s, "urf").mapping = mapping
    BY <1>9, <1>12, <1>19
  <2>5. a.rasterTypes \cap ColorTypes = {}
    BY <1>15, <2>1, <2>2, <2>4
  <2> QED
    BY <1>14, <2>3, <2>5
<1>21. ASSUME pol.colorMode = "color" PROVE a.urf \cap {"W", "DEVW"} = {}
  <2>1. URFToken(mapping) \notin {"W", "DEVW"}
    BY <1>4, <1>19, <1>21, MappingFacts
  <2>2. s.tokens \cap {"W", "DEVW"} = {}
    <3>1. CASE s.path = "native"
      BY <1>4, <1>9, <1>21, <3>1, NativeTokens
    <3>2. CASE s.path = "emulated"
      <4>1. s.tokens = {"V", "RS", URFToken(mapping)}
        BY <1>9, <1>19, <3>2
      <4> QED
        BY <2>1, <4>1
    <3>3. CASE s.path = "unavailable"
      BY <1>9, <3>3
    <3> QED
      BY <1>9, <3>1, <3>2, <3>3
  <2> QED
    BY <1>14, <2>2
<1>22. m.mediaDefault \in m.media /\ m.media \subseteq ToSet(policyMediaNames(pol))
  BY <1>4, <1>7, ProjectedNames
<1> QED
  BY <1>7, <1>16, <1>17, <1>18, <1>20, <1>21, <1>22 DEF Honoured
-----------------------------------------------------------------------------
(* The inductive invariant.                                                 *)

IsSeq(s) == s \in Seq(ToSet(s))

HandlerFields == DOMAIN Idle
Steps == {"idle", "format", "policy", "normalize", "route", "submit"}

\* The printer's side of the queue: the committed model is that of some answer.
QueueOK == configured \in Policies /\ \E up \in Upstreams : model \in Models(up, configured)

\* A request in progress.  The policy it has read is a projection of the
\* configured one, whichever model it came from; its route is one of the queue,
\* and its attributes, once they are normalised, keep the policy.
HandlerOK(h, pol) ==
  /\ DOMAIN h = HandlerFields /\ h.pc \in Steps
  /\ h.pc # "idle" => h.req \in Requests
  /\ h.pc = "format" => h.req.op = "print"
  /\ h.pc = "normalize" => ProjectsTo(h.policy, pol)
  /\ h.pc = "submit" \/ (h.pc \in {"policy", "normalize"} /\ h.req.op = "print") =>
       h.route # None /\ RouteOK(h.route, pol)
  /\ h.pc = "submit" \/ (h.pc = "route" /\ h.req.op # "print") => KeepsPolicy(pol, h.attrs)

HandlersOK == DOMAIN handlers = Clients /\ \A c \in Clients : HandlerOK(handlers[c], configured)

\* A row.  Its route is what its document will be translated with.
JobOK(j, pol) ==
  /\ DOMAIN j = {"route", "attrs", "documents"} /\ j.documents \in 0..1
  /\ DOMAIN j.route = {"client", "upstream", "kind", "mapping", "page"}
  /\ DOMAIN j.route.page = PageFields
  /\ j.route.kind = "urf-to-pwg" => Translates(j.route.upstream, j.route.mapping, pol)
  /\ KeepsPolicy(pol, j.attrs) /\ PageFollows(j.route.page, j.attrs)

JobsOK == IsSeq(jobs) /\ \A j \in DOMAIN jobs : JobOK(jobs[j], configured)

\* What has reached the printer.
SentOK(s, pol) ==
  /\ KeepsPolicy(pol, s.attrs)
  /\ s.transform /\ s.op # "validate" =>
       Translates(s.format, s.mapping, pol) /\ PageFollows(s.page, s.attrs)

AllSentOK == /\ IsSeq(sent) /\ Len(sent) <= MaxSent
             /\ \A i \in DOMAIN sent : SentOK(sent[i], configured)

IInv == QueueOK /\ HandlersOK /\ JobsOK /\ AllSentOK

LEMMA AppendFacts ==
  ASSUME NEW s, IsSeq(s), NEW r
  PROVE  /\ IsSeq(Append(s, r)) /\ Len(Append(s, r)) = Len(s) + 1 /\ Len(s) \in Nat
         /\ \A i \in DOMAIN Append(s, r) :
              Append(s, r)[i] = r \/ (i \in DOMAIN s /\ Append(s, r)[i] = s[i])
<1> DEFINE S == ToSet(s) \cup {r}
           t == Append(s, r)
<1>1. s \in Seq(S)
  BY DEF IsSeq
<1>2. /\ t \in Seq(S) /\ Len(t) = Len(s) + 1 /\ Len(s) \in Nat
      /\ \A i \in 1..Len(s) : t[i] = s[i]
      /\ t[Len(s) + 1] = r
      /\ DOMAIN s = 1..Len(s) /\ DOMAIN t = 1..(Len(s) + 1)
  BY <1>1
<1> HIDE DEF t
<1>3. IsSeq(t)
  <2>1. \A i \in DOMAIN t : t[i] \in ToSet(t)
    BY DEF ToSet
  <2>2. t = [i \in 1..Len(t) |-> t[i]] /\ Len(t) \in Nat /\ DOMAIN t = 1..Len(t)
    BY <1>2
  <2> QED
    BY <2>1, <2>2 DEF IsSeq
<1>4. \A i \in DOMAIN t : t[i] = r \/ (i \in DOMAIN s /\ t[i] = s[i])
  BY <1>2
<1> QED
  BY <1>2, <1>3, <1>4 DEF t

\* What a handler reads of the committed model.
LEMMA CommittedModel ==
  ASSUME IInv
  PROVE  configured \in Policies /\ ModelOK(model, configured)
BY ModelFacts DEF IInv, QueueOK

\* A route that a request finds is a route of the queue.
LEMMA FoundRoute ==
  ASSUME IInv, NEW f, routeForRequest(f) # None
  PROVE  RouteOK(routeForRequest(f), configured)
<1>1. PICK m : m = model
  OBVIOUS
<1>2. PICK s : s = m.routes
  OBVIOUS
<1>3. PICK n \in Nat : DOMAIN s.routes = 1..n
  BY <1>1, <1>2, CommittedModel DEF ModelOK
<1>4. \A i \in DOMAIN s.routes : RouteOK(s.routes[i], configured)
  BY <1>1, <1>2, CommittedModel DEF ModelOK
<1>5. CASE f = None
  <2>1. routeForRequest(f) = defaultRoute(s, m.upstream)
    BY <1>1, <1>2, <1>5 DEF routeForRequest
  <2>2. \E i \in DOMAIN s.routes : defaultRoute(s, m.upstream) = s.routes[i]
    BY <1>3, <2>1, DefaultRouteFacts
  <2> QED
    BY <1>4, <2>1, <2>2
<1>6. CASE f # None
  <2>1. routeForRequest(f) = routeFor(s, f)
    BY <1>1, <1>2, <1>6 DEF routeForRequest
  <2>2. routeFor(s, f) # None
    BY <2>1
  <2>3. \/ routeFor(s, f) = None
        \/ \E i \in DOMAIN s.routes : routeFor(s, f) = s.routes[i] /\ s.routes[i].client = f
    BY <1>3, RouteForFacts
  <2> QED
    BY <1>4, <2>1, <2>2, <2>3
<1> QED
  BY <1>5, <1>6

\* The end of a request.
LEMMA IdleOK ==
  ASSUME NEW pol
  PROVE  HandlerOK(Idle, pol)
<1>1. DOMAIN Idle = HandlerFields /\ Idle.pc = "idle"
  BY DEF Idle, HandlerFields
<1> QED
  BY <1>1 DEF HandlerOK, Steps

LEMMA FieldsOfHandler == HandlerFields = {"pc", "req", "route", "policy", "attrs"}
BY DEF HandlerFields, Idle

\* A step of one handler leaves the others alone.
LEMMA OneHandler ==
  ASSUME HandlersOK, NEW c \in Clients, NEW h, handlers' = [handlers EXCEPT ![c] = h],
         HandlerOK(h, configured), configured' = configured
  PROVE  HandlersOK'
<1>1. DOMAIN handlers' = Clients
  BY DEF HandlersOK
<1>2. \A d \in Clients : handlers'[d] = IF d = c THEN h ELSE handlers[d]
  BY DEF HandlersOK
<1>3. \A d \in Clients : HandlerOK(handlers'[d], configured)
  BY <1>2 DEF HandlersOK
<1> QED
  BY <1>1, <1>3 DEF HandlersOK

LEMMA AnsweredKeeps ==
  ASSUME HandlersOK, NEW c \in Clients, Answered(c), configured' = configured
  PROVE  HandlersOK'
<1>1. handlers' = [handlers EXCEPT ![c] = Idle]
  BY DEF Answered
<1>2. HandlerOK(Idle, configured)
  BY IdleOK
<1> QED
  BY <1>1, <1>2, OneHandler
-----------------------------------------------------------------------------
(* One lemma for each action.                                               *)

LEMMA InitIInv ==
  ASSUME Init
  PROVE  IInv
<1>1. QueueOK
  BY DEF Init, QueueOK
<1>2. HandlersOK
  BY IdleOK DEF Init, HandlersOK
<1>3. PICK no : no = <<>>
  OBVIOUS
<1>4. DOMAIN no = {} /\ Len(no) = 0 /\ no \in Seq(ToSet(no))
  BY <1>3
<1>5. JobsOK
  BY <1>3, <1>4 DEF Init, JobsOK, IsSeq
<1>6. AllSentOK
  BY <1>3, <1>4, SentAssumption DEF Init, AllSentOK, IsSeq
<1> QED
  BY <1>1, <1>2, <1>5, <1>6 DEF IInv

\* Steps that change the handlers only.
LEMMA HandlersStep ==
  ASSUME IInv, HandlersOK', UNCHANGED <<configured, model, jobs, sent>>
  PROVE  IInv'
<1>1. QueueOK' /\ JobsOK' /\ AllSentOK'
  BY DEF IInv, QueueOK, JobsOK, AllSentOK
<1> QED
  BY <1>1 DEF IInv

LEMMA RefreshStep ==
  ASSUME IInv, refreshCapabilities
  PROVE  IInv'
<1>1. QueueOK'
  <2>1. configured' = configured /\ configured \in Policies
    BY DEF IInv, QueueOK, refreshCapabilities
  <2>2. PICK up \in Upstreams : model' \in Models(up, configured)
    BY DEF refreshCapabilities
  <2> QED
    BY <2>1, <2>2 DEF QueueOK
<1>2. HandlersOK' /\ JobsOK' /\ AllSentOK'
  BY DEF IInv, HandlersOK, JobsOK, AllSentOK, refreshCapabilities
<1> QED
  BY <1>1, <1>2 DEF IInv

LEMMA ArriveStep ==
  ASSUME IInv, NEW c \in Clients, Arrive(c)
  PROVE  IInv'
<1>1. PICK r \in Requests :
        handlers' = [handlers EXCEPT ![c].req = r,
                      ![c].pc = IF r.op = "print" THEN "format" ELSE "policy"]
  BY DEF Arrive
<1>2. UNCHANGED <<configured, model, jobs, sent>>
  BY DEF Arrive
<1>3. PICK p \in {"format", "policy"} : p = IF r.op = "print" THEN "format" ELSE "policy"
  OBVIOUS
<1>4. DOMAIN handlers = Clients /\ DOMAIN handlers[c] = HandlerFields
  BY DEF IInv, HandlersOK, HandlerOK
<1>5. PICK h : h = [handlers[c] EXCEPT !.req = r, !.pc = p]
  OBVIOUS
<1>6. handlers' = [handlers EXCEPT ![c] = h]
  BY <1>1, <1>3, <1>4, <1>5
<1>7. DOMAIN h = HandlerFields /\ h.pc = p /\ h.req = r
  BY <1>4, <1>5, FieldsOfHandler
<1>8. HandlerOK(h, configured)
  BY <1>3, <1>7 DEF HandlerOK, Steps
<1>9. HandlersOK'
  BY <1>2, <1>6, <1>8, OneHandler DEF IInv
<1> QED
  BY <1>2, <1>9, HandlersStep

LEMMA ValidateFormatStep ==
  ASSUME IInv, NEW c \in Clients, ValidateFormat(c)
  PROVE  IInv'
<1>1. UNCHANGED <<configured, model, jobs, sent>>
  BY DEF ValidateFormat
<1>2. CASE Answered(c)
  <2>1. HandlersOK'
    BY <1>1, <1>2, AnsweredKeeps DEF IInv
  <2> QED
    BY <1>1, <2>1, HandlersStep
<1>3. CASE ~Answered(c)
  <2>1. handlers[c].pc = "format" /\ handlers' = [handlers EXCEPT ![c].pc = "route"]
    BY <1>3 DEF ValidateFormat
  <2>2. DOMAIN handlers = Clients /\ HandlerOK(handlers[c], configured)
    BY DEF IInv, HandlersOK
  <2>3. PICK h : h = [handlers[c] EXCEPT !.pc = "route"]
    OBVIOUS
  <2>4. handlers' = [handlers EXCEPT ![c] = h]
    BY <2>1, <2>2, <2>3
  <2>5. /\ DOMAIN h = HandlerFields /\ h.pc = "route"
        /\ h.req = handlers[c].req /\ h.req \in Requests /\ h.req.op = "print"
    BY <2>1, <2>2, <2>3, FieldsOfHandler DEF HandlerOK
  <2>6. HandlerOK(h, configured)
    BY <2>5 DEF HandlerOK, Steps
  <2>7. HandlersOK'
    BY <1>1, <2>4, <2>6, OneHandler DEF IInv
  <2> QED
    BY <1>1, <2>7, HandlersStep
<1> QED
  BY <1>2, <1>3

LEMMA ClientRouteStep ==
  ASSUME IInv, NEW c \in Clients, ClientRoute(c)
  PROVE  IInv'
<1>1. UNCHANGED <<configured, model, jobs, sent>> /\ handlers[c].pc = "route"
  BY DEF ClientRoute
<1>2. PICK r : r = routeForRequest(handlers[c].req.format)
  OBVIOUS
<1>3. CASE r = None
  <2>1. Answered(c)
    BY <1>2, <1>3 DEF ClientRoute
  <2>2. HandlersOK'
    BY <1>1, <2>1, AnsweredKeeps DEF IInv
  <2> QED
    BY <1>1, <2>2, HandlersStep
<1>4. CASE r # None
  <2>1. PICK p \in {"policy", "submit"} :
          p = IF handlers[c].req.op = "print" THEN "policy" ELSE "submit"
    OBVIOUS
  <2>2. handlers' = [handlers EXCEPT ![c].route = r, ![c].pc = p]
    BY <1>2, <1>4, <2>1 DEF ClientRoute
  <2>3. DOMAIN handlers = Clients /\ HandlerOK(handlers[c], configured)
    BY DEF IInv, HandlersOK
  <2>4. PICK h : h = [handlers[c] EXCEPT !.route = r, !.pc = p]
    OBVIOUS
  <2>5. DOMAIN handlers[c] = HandlerFields
    BY <2>3 DEF HandlerOK
  <2>6. handlers' = [handlers EXCEPT ![c] = h]
    BY <2>2, <2>3, <2>4, <2>5
  <2>7. /\ DOMAIN h = HandlerFields /\ h.pc = p /\ h.route = r
        /\ h.req = handlers[c].req /\ h.attrs = handlers[c].attrs
    BY <2>4, <2>5, FieldsOfHandler
  <2>8. h.req \in Requests
    BY <1>1, <2>3, <2>7 DEF HandlerOK
  <2>9. p = "submit" => h.req.op # "print"
    BY <2>1, <2>7
  <2>10. p = "submit" => KeepsPolicy(configured, h.attrs)
    BY <1>1, <2>3, <2>7, <2>9 DEF HandlerOK
  <2>11. RouteOK(h.route, configured) /\ h.route # None
    BY <1>2, <1>4, <2>7, FoundRoute
  <2>12. HandlerOK(h, configured)
    BY <2>1, <2>7, <2>8, <2>10, <2>11 DEF HandlerOK, Steps
  <2>13. HandlersOK'
    BY <1>1, <2>6, <2>12, OneHandler DEF IInv
  <2> QED
    BY <1>1, <2>13, HandlersStep
<1> QED
  BY <1>3, <1>4

LEMMA ReadPolicyStep ==
  ASSUME IInv, NEW c \in Clients, ReadPolicy(c)
  PROVE  IInv'
<1>1. UNCHANGED <<configured, model, jobs, sent>> /\ handlers[c].pc = "policy"
  BY DEF ReadPolicy
<1>2. PICK q : q = model.policy
  OBVIOUS
<1>3. ProjectsTo(q, configured)
  BY <1>2, CommittedModel DEF ModelOK
<1>4. DOMAIN handlers = Clients /\ HandlerOK(handlers[c], configured)
  BY DEF IInv, HandlersOK
<1>5. DOMAIN handlers[c] = HandlerFields
  BY <1>4 DEF HandlerOK
<1>6. PICK h : h = [handlers[c] EXCEPT !.pc = "normalize", !.policy = q]
  OBVIOUS
<1>7. handlers' = [handlers EXCEPT ![c] = h]
  BY <1>2, <1>4, <1>5, <1>6 DEF ReadPolicy
<1>8. /\ DOMAIN h = HandlerFields /\ h.pc = "normalize" /\ h.policy = q
      /\ h.req = handlers[c].req /\ h.route = handlers[c].route
  BY <1>5, <1>6, FieldsOfHandler
<1>9. /\ h.req \in Requests
      /\ h.req.op = "print" => h.route # None /\ RouteOK(h.route, configured)
  BY <1>1, <1>4, <1>8 DEF HandlerOK
<1>10. HandlerOK(h, configured)
  BY <1>3, <1>8, <1>9 DEF HandlerOK, Steps
<1>11. HandlersOK'
  BY <1>1, <1>7, <1>10, OneHandler DEF IInv
<1> QED
  BY <1>1, <1>11, HandlersStep

LEMMA NormalizeStep ==
  ASSUME IInv, NEW c \in Clients, NormalizeRequest(c)
  PROVE  IInv'
<1>1. UNCHANGED <<configured, model, jobs, sent>> /\ handlers[c].pc = "normalize"
  BY DEF NormalizeRequest
<1>2. DOMAIN handlers = Clients /\ HandlerOK(handlers[c], configured)
  BY DEF IInv, HandlersOK
<1>3. PICK g : g = handlers[c]
  OBVIOUS
<1>4. PICK up \in Upstreams : up = model.upstream
  BY CommittedModel DEF ModelOK
<1>5. PICK n : n = normalize(g.req.attrs, buildMediaCatalog(up, g.policy), g.policy, VendorDrop,
                             Preserve, g.req.fidelity)
  OBVIOUS
<1>6. PICK p \in {"submit", "route"} : p = IF g.req.op = "print" THEN "submit" ELSE "route"
  OBVIOUS
<1>7. IF ~n.ok THEN Answered(c)
      ELSE handlers' = [handlers EXCEPT ![c].attrs = n.attrs, ![c].policy = None, ![c].pc = p]
  BY <1>3, <1>4, <1>5, <1>6 DEF NormalizeRequest
<1>8. CASE ~n.ok
  <2>1. HandlersOK'
    BY <1>1, <1>7, <1>8, AnsweredKeeps DEF IInv
  <2> QED
    BY <1>1, <2>1, HandlersStep
<1>9. CASE n.ok
  <2>1. handlers' = [handlers EXCEPT ![c].attrs = n.attrs, ![c].policy = None, ![c].pc = p]
    BY <1>7, <1>9
  <2>2. DOMAIN g = HandlerFields
    BY <1>2, <1>3 DEF HandlerOK
  <2>3. PICK a : a = n.attrs
    OBVIOUS
  <2>4. KeepsPolicy(configured, a)
    <3>1. ProjectsTo(g.policy, configured)
      BY <1>1, <1>2, <1>3 DEF HandlerOK
    <3>2. configured \in Policies /\ Listed(up)
      BY CommittedModel, ListedUpstream
    <3> QED
      BY <1>5, <1>9, <2>3, <3>1, <3>2, NormalizedKeeps
  <2>5. PICK h : h = [g EXCEPT !.attrs = a, !.policy = None, !.pc = p]
    OBVIOUS
  <2>6. handlers' = [handlers EXCEPT ![c] = h]
    BY <1>2, <1>3, <2>1, <2>2, <2>3, <2>5
  <2>7. DOMAIN h = HandlerFields /\ h.pc = p /\ h.attrs = a /\ h.req = g.req /\ h.route = g.route
    BY <2>2, <2>5, FieldsOfHandler
  <2>8. /\ h.req \in Requests
        /\ p = "submit" => h.route # None /\ RouteOK(h.route, configured)
    BY <1>1, <1>2, <1>3, <1>6, <2>7 DEF HandlerOK
  <2>9. HandlerOK(h, configured)
    BY <1>6, <2>4, <2>7, <2>8 DEF HandlerOK, Steps
  <2>10. HandlersOK'
    BY <1>1, <2>6, <2>9, OneHandler DEF IInv
  <2> QED
    BY <1>1, <2>10, HandlersStep
<1> QED
  BY <1>8, <1>9

\* What is sent joins what was sent.
LEMMA SentGrows ==
  ASSUME AllSentOK, NEW s, SentOK(s, configured), Len(sent) < MaxSent,
         sent' = Append(sent, s), configured' = configured
  PROVE  AllSentOK'
<1>1. PICK t : t = Append(sent, s)
  OBVIOUS
<1>2. /\ IsSeq(t) /\ Len(t) = Len(sent) + 1 /\ Len(sent) \in Nat
      /\ \A i \in DOMAIN t : t[i] = s \/ (i \in DOMAIN sent /\ t[i] = sent[i])
  BY <1>1, AppendFacts DEF AllSentOK
<1>3. Len(t) <= MaxSent
  BY <1>2, SentAssumption
<1>4. \A i \in DOMAIN t : SentOK(t[i], configured)
  BY <1>2 DEF AllSentOK
<1> QED
  BY <1>1, <1>2, <1>3, <1>4 DEF AllSentOK

LEMMA SubmitStep ==
  ASSUME IInv, NEW c \in Clients, Submit(c)
  PROVE  IInv'
<1>1. /\ configured' = configured /\ model' = model /\ handlers[c].pc = "submit"
      /\ Len(sent) < MaxSent /\ Answered(c)
  BY DEF Submit
<1>2. PICK h : h = handlers[c]
  OBVIOUS
<1>3. HandlerOK(h, configured)
  BY <1>2 DEF IInv, HandlersOK
<1>4. RouteOK(h.route, configured) /\ KeepsPolicy(configured, h.attrs)
  BY <1>1, <1>2, <1>3 DEF HandlerOK
<1>5. PICK up \in Upstreams : up = model.upstream
  BY CommittedModel DEF ModelOK
<1>6. PICK page : page = routePageSettings(h.route, h.attrs, up)
  OBVIOUS
<1>7. DOMAIN page = PageFields /\ PageFollows(page, h.attrs)
  <2>1. DOMAIN h.route.page = PageFields
    BY <1>4 DEF RouteOK
  <2> QED
    BY <1>4, <1>6, <2>1, CommittedModel, PageSettingsFollow
<1>8. PICK route : route = [h.route EXCEPT !.page = page]
  OBVIOUS
<1>9. /\ DOMAIN route = RouteFields /\ route.page = page /\ route.client = h.route.client
      /\ route.upstream = h.route.upstream /\ route.transform = h.route.transform
      /\ route.mapping = h.route.mapping
  BY <1>4, <1>8 DEF RouteOK, RouteFields
<1>10. route.transform => Translates(route.upstream, route.mapping, configured)
  BY <1>4, <1>9 DEF RouteOK
<1>11. PICK r : r = IF h.req.op = "validate" THEN h.route ELSE route
  OBVIOUS
<1>12. PICK s : s = Forwarded(h.req.op, r, h.attrs)
  OBVIOUS
<1>13. sent' = Append(sent, s)
  BY <1>2, <1>5, <1>6, <1>8, <1>11, <1>12 DEF Submit
<1>14. /\ s.attrs = h.attrs /\ s.op = h.req.op /\ s.transform = r.transform
       /\ s.format = r.upstream /\ s.mapping = r.mapping /\ s.page = r.page
  BY <1>12 DEF Forwarded
<1>15. SentOK(s, configured)
  BY <1>4, <1>7, <1>9, <1>10, <1>11, <1>14 DEF SentOK
<1>16. AllSentOK'
  BY <1>1, <1>13, <1>15, SentGrows DEF IInv
<1>17. HandlersOK'
  BY <1>1, AnsweredKeeps DEF IInv
<1>18. JobsOK'
  <2>1. PICK row : row = [client |-> route.client, upstream |-> route.upstream,
                          kind |-> IF route.transform THEN "urf-to-pwg" ELSE "pass-through",
                          mapping |-> route.mapping, page |-> route.page]
    OBVIOUS
  <2>2. row = routeToStore(route)
    BY <2>1 DEF routeToStore
  <2>3. PICK j : j = [route |-> row, attrs |-> h.attrs, documents |-> 0]
    OBVIOUS
  <2>4. jobs' = IF h.req.op = "create" THEN Append(jobs, j) ELSE jobs
    BY <1>2, <1>5, <1>6, <1>8, <2>2, <2>3 DEF Submit
  <2>5. JobOK(j, configured)
    <3>1. /\ DOMAIN row = {"client", "upstream", "kind", "mapping", "page"}
          /\ row.page = page /\ row.upstream = route.upstream /\ row.mapping = route.mapping
          /\ row.kind = IF route.transform THEN "urf-to-pwg" ELSE "pass-through"
      BY <1>9, <2>1
    <3>2. row.kind = "urf-to-pwg" => Translates(row.upstream, row.mapping, configured)
      BY <1>10, <3>1
    <3>3. /\ DOMAIN j = {"route", "attrs", "documents"} /\ j.documents \in 0..1
          /\ j.route = row /\ j.attrs = h.attrs
      BY <2>3
    <3> QED
      BY <1>4, <1>7, <3>1, <3>2, <3>3 DEF JobOK
  <2>6. PICK t : t = Append(jobs, j)
    OBVIOUS
  <2>7. IsSeq(jobs) /\ \A i \in DOMAIN jobs : JobOK(jobs[i], configured)
    BY DEF IInv, JobsOK
  <2>8. IsSeq(t) /\ \A i \in DOMAIN t : t[i] = j \/ (i \in DOMAIN jobs /\ t[i] = jobs[i])
    BY <2>6, <2>7, AppendFacts
  <2>9. \A i \in DOMAIN t : JobOK(t[i], configured)
    BY <2>5, <2>7, <2>8
  <2>10. jobs' = t \/ jobs' = jobs
    BY <2>4, <2>6
  <2> QED
    BY <1>1, <2>7, <2>8, <2>9, <2>10 DEF JobsOK
<1>19. QueueOK'
  BY <1>1 DEF IInv, QueueOK
<1> QED
  BY <1>16, <1>17, <1>18, <1>19 DEF IInv

LEMMA SendDocumentStep ==
  ASSUME IInv, NEW c \in Clients, handleSendDocument(c)
  PROVE  IInv'
<1>1. PICK k \in DOMAIN jobs :
        /\ sent' = Append(sent, Forwarded("send",
              [routeFromStore(jobs[k].route) EXCEPT !.page =
                 routePageSettings(routeFromStore(jobs[k].route), <<>>, model.upstream)],
              jobs[k].attrs))
        /\ jobs' = [jobs EXCEPT ![k].documents = 1]
  BY DEF handleSendDocument
<1>2. Len(sent) < MaxSent /\ UNCHANGED <<configured, model, handlers>>
  BY DEF handleSendDocument
<1>3. PICK j : j = jobs[k]
  OBVIOUS
<1>4. JobOK(j, configured)
  BY <1>1, <1>3 DEF IInv, JobsOK
<1>5. PICK stored : stored = routeFromStore(j.route)
  OBVIOUS
<1>6. /\ stored.upstream = j.route.upstream /\ stored.mapping = j.route.mapping
      /\ stored.page = j.route.page /\ DOMAIN stored = RouteFields
      /\ stored.transform = (j.route.kind = "urf-to-pwg")
  BY <1>5 DEF routeFromStore, RouteFields
<1>7. PICK page : page = routePageSettings(stored, <<>>, model.upstream)
  OBVIOUS
<1>8. PageFollows(page, j.attrs)
  <2>1. DOMAIN stored.page = PageFields /\ PageFollows(stored.page, j.attrs)
    BY <1>4, <1>6 DEF JobOK
  <2> QED
    BY <1>7, <2>1, PageSettingsStay
<1>9. PICK route : route = [stored EXCEPT !.page = page]
  OBVIOUS
<1>10. /\ route.upstream = stored.upstream /\ route.mapping = stored.mapping
       /\ route.transform = stored.transform /\ route.page = page
  BY <1>6, <1>9 DEF RouteFields
<1>11. PICK s : s = Forwarded("send", route, j.attrs)
  OBVIOUS
<1>12. sent' = Append(sent, s)
  BY <1>1, <1>3, <1>5, <1>7, <1>9, <1>11
<1>13. /\ s.attrs = j.attrs /\ s.transform = route.transform
       /\ s.format = route.upstream /\ s.mapping = route.mapping /\ s.page = route.page
  BY <1>11 DEF Forwarded
<1>14. s.transform => Translates(s.format, s.mapping, configured)
  BY <1>4, <1>6, <1>10, <1>13 DEF JobOK
<1>15. SentOK(s, configured)
  BY <1>4, <1>8, <1>10, <1>13, <1>14 DEF SentOK, JobOK
<1>16. AllSentOK'
  BY <1>2, <1>12, <1>15, SentGrows DEF IInv
<1>17. JobsOK'
  <2>1. IsSeq(jobs) /\ \A i \in DOMAIN jobs : JobOK(jobs[i], configured)
    BY DEF IInv, JobsOK
  <2>2. PICK g : g = [j EXCEPT !.documents = 1]
    OBVIOUS
  <2>3. /\ DOMAIN g = {"route", "attrs", "documents"} /\ g.documents = 1
        /\ g.route = j.route /\ g.attrs = j.attrs
    BY <1>4, <2>2 DEF JobOK
  <2>4. JobOK(g, configured)
    BY <1>4, <2>3 DEF JobOK
  <2>5. PICK t : t = [jobs EXCEPT ![k] = g]
    OBVIOUS
  <2>6. jobs' = t
    BY <1>1, <1>3, <2>2, <2>5
  <2>7. DOMAIN t = DOMAIN jobs /\ \A i \in DOMAIN t : t[i] = g \/ t[i] = jobs[i]
    BY <2>5
  <2>8. IsSeq(t)
    <3>1. Len(jobs) \in Nat /\ DOMAIN jobs = 1..Len(jobs)
      BY <2>1 DEF IsSeq
    <3>2. PICK n \in Nat : DOMAIN t = 1..n
      BY <2>7, <3>1
    <3>3. t = [i \in 1..n |-> t[i]]
      BY <2>5, <2>7, <3>2
    <3>4. \A i \in 1..n : t[i] \in ToSet(t)
      BY <3>2 DEF ToSet
    <3>5. t \in [1..n -> ToSet(t)]
      BY <3>3, <3>4
    <3> QED
      BY <3>5 DEF IsSeq
  <2>9. \A i \in DOMAIN t : JobOK(t[i], configured)
    BY <2>1, <2>4, <2>7
  <2> QED
    BY <1>2, <2>6, <2>8, <2>9 DEF JobsOK
<1>18. QueueOK' /\ HandlersOK'
  BY <1>2 DEF IInv, QueueOK, HandlersOK
<1> QED
  BY <1>16, <1>17, <1>18 DEF IInv
-----------------------------------------------------------------------------
(* The theorems.                                                            *)

LEMMA NextKeeps ==
  ASSUME IInv, [Next]_vars
  PROVE  IInv'
<1>1. CASE UNCHANGED vars
  BY <1>1 DEF vars, IInv, QueueOK, HandlersOK, JobsOK, AllSentOK
<1>2. CASE refreshCapabilities
  BY <1>2, RefreshStep
<1>3. ASSUME NEW c \in Clients,
             \/ Arrive(c) \/ ValidateFormat(c) \/ ClientRoute(c) \/ ReadPolicy(c)
             \/ NormalizeRequest(c) \/ Submit(c) \/ handleSendDocument(c)
      PROVE  IInv'
  BY <1>3, ArriveStep, ValidateFormatStep, ClientRouteStep, ReadPolicyStep, NormalizeStep,
     SubmitStep, SendDocumentStep
<1> QED
  BY <1>1, <1>2, <1>3 DEF Next

\* The inductive invariant: the committed model is that of an answer and the
\* configured policy, a request in progress holds a policy, a route and
\* attributes of the queue although it read them from different models, and a
\* row holds the route its document needs (refreshCapabilities, handlePrintJob,
\* handleCreateJob, handleSendDocument).
THEOREM RoutingInvariant == Spec => []IInv
<1>1. Init => IInv
  BY InitIInv
<1>2. IInv /\ [Next]_vars => IInv'
  BY NextKeeps
<1> QED
  BY <1>1, <1>2, PTL DEF Spec

\* The variables keep their types, and a request that is submitted has a route
\* and attributes (clientRoute, normalizeJobRequest).
THEOREM RoutingTypes == Spec => []TypeOK
<1>1. IInv => TypeOK
  <2> SUFFICES ASSUME IInv PROVE TypeOK
    OBVIOUS
  <2>1. configured \in Policies /\ model.upstream \in Upstreams
    BY CommittedModel DEF ModelOK
  <2>2. ASSUME NEW c \in Clients
        PROVE  /\ handlers[c].pc \in {"idle", "format", "policy", "normalize", "route", "submit"}
               /\ handlers[c].pc # "idle" => handlers[c].req \in Requests
               /\ handlers[c].pc = "submit" => handlers[c].route # None /\ handlers[c].attrs # <<>>
    <3>1. PICK h : h = handlers[c]
      OBVIOUS
    <3>2. HandlerOK(h, configured)
      BY <3>1 DEF IInv, HandlersOK
    <3>3. KeepsPolicy(configured, h.attrs) => h.attrs # <<>>
      <4>1. KeepsPolicy(configured, h.attrs) => "print-color-mode" \in DOMAIN h.attrs
        BY DEF KeepsPolicy
      <4>2. h.attrs = <<>> => DOMAIN h.attrs = {}
        OBVIOUS
      <4> QED
        BY <4>1, <4>2
    <3> QED
      BY <3>1, <3>2, <3>3 DEF HandlerOK, Steps
  <2>3. Len(sent) <= MaxSent
    BY DEF IInv, AllSentOK
  <2>4. \A j \in DOMAIN jobs : jobs[j].documents \in 0..1
    BY DEF IInv, JobsOK, JobOK
  <2> QED
    BY <2>1, <2>2, <2>3, <2>4 DEF TypeOK
<1> QED
  BY <1>1, RoutingInvariant, PTL

\* No value of a client for an attribute the policy controls reaches the
\* printer (NormalizeJobAttrsWithOptions, sanitizeOverrides).
THEOREM PolicyReachesPrinter == Spec => []PolicyEnforced
<1>1. IInv => PolicyEnforced
  BY DEF IInv, AllSentOK, SentOK, PolicyEnforced
<1> QED
  BY <1>1, RoutingInvariant, PTL

\* What a committed model advertises, it honours, with two exceptions that the
\* code has: formats are advertised although the queue has no route at all, and
\* a default format may have none when no token of the native URF family fits
\* the policy (buildRouteSnapshot, synthesizedFormatAttributes,
\* applyRouteCapabilities, evaluateCapabilityProfiles).
THEOREM AdvertisedHolds == Spec => []AdvertisedIsHonoured
<1>1. IInv => AdvertisedIsHonoured
  <2> SUFFICES ASSUME IInv PROVE AdvertisedIsHonoured
    OBVIOUS
  <2>1. Honoured(model, configured)
    BY ModelHonours DEF IInv, QueueOK
  <2> QED
    BY <2>1 DEF Honoured, AdvertisedIsHonoured
<1> QED
  BY <1>1, RoutingInvariant, PTL

\* A document is translated with the medium and the colour of its job
\* (handlePrintJob, handleCreateJob, handleSendDocument).
THEOREM DocumentsFollowJobs == Spec => []TranslatedAsForwarded
<1>1. IInv => TranslatedAsForwarded
  <2> SUFFICES ASSUME IInv, NEW i \in DOMAIN sent, sent[i].transform, sent[i].op # "validate"
               PROVE  /\ (sent[i].mapping = "W8")
                           <=> (sent[i].attrs["print-color-mode"] = "monochrome")
                      /\ sent[i].format = "pwg"
                      /\ PageFollows(sent[i].page, sent[i].attrs)
    BY DEF TranslatedAsForwarded
  <2>1. PICK s : s = sent[i]
    OBVIOUS
  <2>2. SentOK(s, configured)
    BY <2>1 DEF IInv, AllSentOK
  <2>3. s.attrs["print-color-mode"] = configured.colorMode
    BY <2>2 DEF SentOK, KeepsPolicy
  <2>4. Translates(s.format, s.mapping, configured) /\ PageFollows(s.page, s.attrs)
    BY <2>1, <2>2 DEF SentOK
  <2> QED
    BY <2>1, <2>3, <2>4 DEF Translates
<1> QED
  BY <1>1, RoutingInvariant, PTL
===============================================================================
