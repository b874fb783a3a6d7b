---------------------------- MODULE SequenceLemmas ----------------------------
(***************************************************************************)
(* What the proofs about lists need of the sequence operators: FlattenSeq, *)
(* RemoveAt, InsertAt, Tail and IsPrefix.                                  *)
(***************************************************************************)
EXTENDS Integers, SequencesExt, WellFoundedInduction, SequenceTheorems, TLAPS

-----------------------------------------------------------------------------
(* Induction over sets of numbers.                                          *)

\* Every set of naturals has a least element.
LEMMA LeastNatural ==
    ASSUME NEW T \in SUBSET Nat, T # {}
    PROVE  \E x \in T : \A y \in T : x <= y
<1> DEFINE R == {ss \in Nat \X Nat : ss[1] < ss[2]}
<1>1. IsWellFoundedOn(R, Nat)
  BY NatLessThanWellFounded DEF OpToRel
<1>2. \E x \in T : \A y \in T : <<y, x>> \notin R
  <2> HIDE DEF R
  <2> QED
    BY <1>1, WFMin, Zenon
<1>3. PICK x \in T : \A y \in T : <<y, x>> \notin R
  BY <1>2
<1>4. ASSUME NEW y \in T, y < x PROVE FALSE
  <2>1. <<y, x>> \in Nat \X Nat /\ <<y, x>>[1] < <<y, x>>[2]
    BY <1>4
  <2> QED
    BY <1>3, <2>1
<1> QED
  BY <1>4

\* A set that has 0 and with each number the next one has all up to m.
LEMMA UpTo ==
    ASSUME NEW m \in Nat, NEW S, 0 \in S, \A k \in 0 .. m - 1 : k \in S => k + 1 \in S
    PROVE  \A k \in 0 .. m : k \in S
<1> DEFINE T == {k \in 0 .. m : k \notin S}
<1> SUFFICES ASSUME T # {} PROVE FALSE
  OBVIOUS
<1>0. T \in SUBSET Nat
  OBVIOUS
<1>1. PICK k \in T : \A j \in T : k <= j
  <2> HIDE DEF T
  <2> QED
    BY <1>0, LeastNatural
<1>2. k - 1 \in 0 .. m - 1 /\ k - 1 \notin T /\ (k - 1) + 1 = k
  BY <1>1
<1> QED
  BY <1>1, <1>2

-----------------------------------------------------------------------------
(* FlattenSeq is defined by recursion over the places of a sequence.  There *)
(* is one function that satisfies the recursion, and it grows by one        *)
(* concatenation with each place.                                           *)

\* f lists the concatenations of the first pieces of a.
Flattens(f, a, n) ==
    f = [i \in 1 .. n |-> IF i = 1 THEN a[i] ELSE f[i - 1] \o a[i]]

\* Such a function exists up to every place.
LEMMA FlattenExists ==
    ASSUME NEW n \in Nat, NEW a
    PROVE  \E f : Flattens(f, a, n)
<1> DEFINE S == {m \in Nat : \E f : Flattens(f, a, m)}
<1>1. 0 \in S
  <2>1. Flattens([i \in 1 .. 0 |-> a[i]], a, 0)
    BY DEF Flattens
  <2> QED
    BY <2>1
<1>2. ASSUME NEW k \in 0 .. n - 1, k \in S PROVE k + 1 \in S
  <2>1. PICK f : Flattens(f, a, k)
    BY <1>2
  <2> DEFINE g == [i \in 1 .. k + 1 |->
                     IF i = 1 THEN a[i] ELSE f[i - 1] \o a[i]]
  <2>2. ASSUME NEW i \in 1 .. k PROVE g[i] = f[i]
    <3>1. f[i] = IF i = 1 THEN a[i] ELSE f[i - 1] \o a[i]
      BY <2>1 DEF Flattens
    <3> QED
      BY <3>1
  <2>3. \A i \in 1 .. k + 1 : g[i] = IF i = 1 THEN a[i] ELSE g[i - 1] \o a[i]
    <3> SUFFICES ASSUME NEW i \in 1 .. k + 1, i # 1 PROVE g[i] = g[i - 1] \o a[i]
      OBVIOUS
    <3>1. i - 1 \in 1 .. k
      OBVIOUS
    <3>2. g[i] = f[i - 1] \o a[i]
      OBVIOUS
    <3>3. g[i - 1] = f[i - 1]
      BY <3>1, <2>2
    <3> QED
      BY <3>2, <3>3
  <2>4. g = [i \in 1 .. k + 1 |-> g[i]]
    OBVIOUS
  <2>5. Flattens(g, a, k + 1)
    <3> HIDE DEF g
    <3> QED
      BY <2>3, <2>4 DEF Flattens
  <2> QED
    BY <2>5
<1> HIDE DEF S
<1>3. \A k \in 0 .. n : k \in S
  BY <1>1, <1>2, UpTo
<1>4. n \in S
  BY <1>3
<1> QED
  BY <1>4 DEF S

\* Two such functions agree where both are defined.
LEMMA FlattenUnique ==
    ASSUME NEW n \in Nat, NEW m \in Nat, n <= m, NEW a, NEW b, NEW f, NEW g,
           Flattens(f, a, n), Flattens(g, b, m), \A i \in 1 .. n : a[i] = b[i]
    PROVE  \A i \in 1 .. n : f[i] = g[i]
<1> DEFINE S == {i \in Nat : i >= 1 /\ i <= n => f[i] = g[i]}
<1>1. 0 \in S
  OBVIOUS
<1>2. ASSUME NEW k \in 0 .. n - 1, k \in S PROVE k + 1 \in S
  <2>1. /\ f[k + 1] = IF k + 1 = 1 THEN a[k + 1] ELSE f[(k + 1) - 1] \o a[k + 1]
        /\ g[k + 1] = IF k + 1 = 1 THEN b[k + 1] ELSE g[(k + 1) - 1] \o b[k + 1]
    <3>1. k + 1 \in 1 .. n /\ k + 1 \in 1 .. m
      OBVIOUS
    <3> QED
      BY <3>1 DEF Flattens
  <2>2. (k + 1) - 1 = k /\ a[k + 1] = b[k + 1]
    OBVIOUS
  <2>3. k + 1 # 1 => f[k] = g[k]
    BY <1>2
  <2>4. f[k + 1] = g[k + 1]
    BY <2>1, <2>2, <2>3
  <2> QED
    BY <2>4
<1> HIDE DEF S
<1>3. \A k \in 0 .. n : k \in S
  BY <1>1, <1>2, UpTo
<1> QED
  BY <1>3 DEF S

\* FlattenSeq of a sequence of n pieces is the last value of the function.
LEMMA FlattenLast ==
    ASSUME NEW n \in Nat \ {0}, NEW a, Len(a) = n, NEW f, Flattens(f, a, n)
    PROVE  FlattenSeq(a) = f[n]
<1> DEFINE g == CHOOSE h : h = [i \in 1 .. n |-> IF i = 1 THEN a[i] ELSE h[i - 1] \o a[i]]
<1>1. FlattenSeq(a) = g[n]
  BY DEF FlattenSeq
<1>2. Flattens(g, a, n)
  BY DEF Flattens
<1> HIDE DEF g
<1>3. g[n] = f[n]
  BY <1>2, FlattenUnique
<1> QED
  BY <1>1, <1>3

\* One piece more is one concatenation more.
LEMMA FlattenGrows ==
    ASSUME NEW n \in Nat, NEW a, NEW b, Len(a) = n, Len(b) = n + 1,
           n = 0 => a = <<>>, b[n + 1] \in Seq(Nat), \A i \in 1 .. n : a[i] = b[i]
    PROVE  FlattenSeq(b) = FlattenSeq(a) \o b[n + 1]
<1>1. PICK g : Flattens(g, b, n + 1)
  BY FlattenExists
<1>2. FlattenSeq(b) = g[n + 1]
  BY <1>1, FlattenLast
<1>3. g[n + 1] = IF n + 1 = 1 THEN b[n + 1] ELSE g[(n + 1) - 1] \o b[n + 1]
  <2>1. n + 1 \in 1 .. n + 1
    OBVIOUS
  <2>2. \A i \in 1 .. n + 1 : g[i] = IF i = 1 THEN b[i] ELSE g[i - 1] \o b[i]
    BY <1>1 DEF Flattens
  <2> QED
    BY <2>1, <2>2
<1>4. CASE n = 0
  <2>1. FlattenSeq(a) = <<>>
    BY <1>4 DEF FlattenSeq
  <2>2. <<>> \o b[n + 1] = b[n + 1]
    OBVIOUS
  <2> QED
    BY <1>2, <1>3, <1>4, <2>1, <2>2
<1>5. CASE n # 0
  <2>1. PICK f : Flattens(f, a, n)
    BY FlattenExists
  <2>2. FlattenSeq(a) = f[n]
    BY <1>5, <2>1, FlattenLast
  <2>3. f[n] = g[n]
    <3>1. \A i \in 1 .. n : f[i] = g[i]
      BY <1>1, <2>1, FlattenUnique
    <3> QED
      BY <3>1, <1>5
  <2>4. n + 1 # 1 /\ (n + 1) - 1 = n
    BY <1>5
  <2>5. FlattenSeq(b) = g[n] \o b[n + 1]
    BY <1>2, <1>3, <2>4
  <2> QED
    BY <2>2, <2>3, <2>5
<1> QED
  BY <1>4, <1>5

-----------------------------------------------------------------------------
(* Places.                                                                  *)

\* RemoveAt closes the gap.
LEMMA Removed ==
    ASSUME NEW T, NEW q \in Seq(T), NEW k \in 1 .. Len(q)
    PROVE  /\ RemoveAt(q, k) \in Seq(T) /\ Len(RemoveAt(q, k)) = Len(q) - 1
           /\ \A i \in 1 .. Len(q) - 1 :
                 RemoveAt(q, k)[i] = IF i < k THEN q[i] ELSE q[i + 1]
<1> DEFINE u == SubSeq(q, 1, k - 1)
           v == SubSeq(q, k + 1, Len(q))
<1>1. Len(q) \in Nat /\ k \in Nat
  OBVIOUS
<1>2. u \in Seq(T) /\ Len(u) = k - 1 /\ \A i \in 1 .. k - 1 : u[i] = q[i]
  BY <1>1, SubSeqProperties
<1>3. v \in Seq(T) /\ Len(v) = Len(q) - k /\ \A i \in 1 .. Len(q) - k : v[i] = q[k + i]
  BY <1>1, SubSeqProperties
<1>4. RemoveAt(q, k) = u \o v
  BY DEF RemoveAt
<1> HIDE DEF u, v
<1>5. /\ u \o v \in Seq(T) /\ Len(u \o v) = Len(u) + Len(v)
      /\ \A i \in 1 .. Len(u) + Len(v) :
            (u \o v)[i] = IF i <= Len(u) THEN u[i] ELSE v[i - Len(u)]
  BY <1>2, <1>3, ConcatProperties
<1>6. ASSUME NEW i \in 1 .. Len(q) - 1
      PROVE  (u \o v)[i] = IF i < k THEN q[i] ELSE q[i + 1]
  <2>1. CASE i < k
    BY <1>1, <1>2, <1>3, <1>5, <2>1
  <2>2. CASE ~(i < k)
    <3>1. i - (k - 1) \in 1 .. Len(q) - k /\ k + (i - (k - 1)) = i + 1 /\ ~(i <= k - 1)
      BY <1>1, <2>2
    <3>2. (u \o v)[i] = v[i - (k - 1)]
      BY <1>1, <1>2, <1>3, <1>5, <3>1
    <3> QED
      BY <1>3, <2>2, <3>1, <3>2
  <2> QED
    BY <2>1, <2>2
<1> QED
  BY <1>1, <1>2, <1>3, <1>4, <1>5, <1>6

\* r is q, of n elements of T, with e put at place k.
PutAt(T, n, q, k, e, r) ==
    /\ r \in Seq(T) /\ Len(r) = n + 1 /\ r[k] = e
    /\ \A i \in 1 .. k - 1 : r[i] = q[i]
    /\ \A i \in k + 1 .. n + 1 : r[i] = q[i - 1]

\* InsertAt makes room.
LEMMA InsertedAt ==
    ASSUME NEW T, NEW q \in Seq(T), NEW k \in 1 .. Len(q) + 1, NEW e \in T
    PROVE  PutAt(T, Len(q), q, k, e, InsertAt(q, k, e))
<1> DEFINE u == SubSeq(q, 1, k - 1)
           m == <<e>>
           v == SubSeq(q, k, Len(q))
<1>1. Len(q) \in Nat /\ k \in Nat
  OBVIOUS
<1>2. u \in Seq(T) /\ Len(u) = k - 1 /\ \A i \in 1 .. k - 1 : u[i] = q[i]
  BY <1>1, SubSeqProperties
<1>3. v \in Seq(T) /\ Len(v) = Len(q) - k + 1
      /\ \A i \in 1 .. Len(q) - k + 1 : v[i] = q[k + i - 1]
  BY <1>1, SubSeqProperties
<1>4. m \in Seq(T) /\ Len(m) = 1 /\ m[1] = e
  OBVIOUS
<1>5. InsertAt(q, k, e) = (u \o m) \o v
  BY DEF InsertAt
<1> HIDE DEF u, m, v
<1>6. /\ u \o m \in Seq(T) /\ Len(u \o m) = k
      /\ \A i \in 1 .. k : (u \o m)[i] = IF i < k THEN q[i] ELSE e
  <2>1. /\ u \o m \in Seq(T) /\ Len(u \o m) = Len(u) + Len(m)
        /\ \A i \in 1 .. Len(u) + Len(m) :
              (u \o m)[i] = IF i <= Len(u) THEN u[i] ELSE m[i - Len(u)]
    BY <1>2, <1>4, ConcatProperties
  <2>2. ASSUME NEW i \in 1 .. k PROVE (u \o m)[i] = IF i < k THEN q[i] ELSE e
    <3>1. CASE i < k
      <4>1. i \in 1 .. k - 1 /\ i <= k - 1 /\ i \in 1 .. (k - 1) + 1
        BY <1>1, <3>1
      <4>2. (u \o m)[i] = u[i]
        BY <1>2, <1>4, <2>1, <4>1
      <4>3. u[i] = q[i]
        BY <1>2, <4>1
      <4> QED
        BY <3>1, <4>2, <4>3
    <3>2. CASE i = k
      <4>1. /\ i - Len(u) = 1 /\ ~(i <= Len(u)) /\ i \in 1 .. Len(u) + Len(m)
            /\ ~(i < k)
        BY <1>1, <1>2, <1>4, <3>2
      <4>2. (u \o m)[i] = m[i - Len(u)]
        BY <2>1, <4>1
      <4>3. m[i - Len(u)] = e
        BY <1>4, <4>1
      <4> QED
        BY <4>1, <4>2, <4>3
    <3>3. i < k \/ i = k
      BY <1>1
    <3> QED
      BY <3>1, <3>2, <3>3
  <2> QED
    BY <1>1, <1>2, <1>4, <2>1, <2>2
<1> DEFINE r == u \o m
<1> HIDE DEF r
<1>7. /\ r \o v \in Seq(T) /\ Len(r \o v) = k + (Len(q) - k + 1)
      /\ \A i \in 1 .. k + (Len(q) - k + 1) :
            (r \o v)[i] = IF i <= k THEN r[i] ELSE v[i - k]
  <2>1. /\ r \in Seq(T) /\ v \in Seq(T) /\ Len(r) = k /\ Len(v) = Len(q) - k + 1
    BY <1>3, <1>6 DEF r
  <2>2. /\ r \o v \in Seq(T) /\ Len(r \o v) = Len(r) + Len(v)
        /\ \A i \in 1 .. Len(r) + Len(v) :
              (r \o v)[i] = IF i <= Len(r) THEN r[i] ELSE v[i - Len(r)]
    BY <2>1, ConcatProperties
  <2> QED
    BY <2>1, <2>2
<1>8. ASSUME NEW i \in 1 .. k
      PROVE  (r \o v)[i] = IF i < k THEN q[i] ELSE e
  <2>1. i \in 1 .. k + (Len(q) - k + 1) /\ i <= k
    BY <1>1
  <2> QED
    BY <1>6, <1>7, <2>1 DEF r
<1>9. ASSUME NEW i \in k + 1 .. Len(q) + 1
      PROVE  (r \o v)[i] = q[i - 1]
  <2>1. /\ i \in 1 .. k + (Len(q) - k + 1) /\ ~(i <= k)
        /\ i - k \in 1 .. Len(q) - k + 1 /\ k + (i - k) - 1 = i - 1
    BY <1>1
  <2>2. (r \o v)[i] = v[i - k]
    BY <1>7, <2>1
  <2> QED
    BY <1>3, <2>1, <2>2
<1>10. k + (Len(q) - k + 1) = Len(q) + 1 /\ k \in 1 .. k /\ 1 .. k - 1 \subseteq 1 .. k
  BY <1>1
<1>11. /\ r \o v \in Seq(T) /\ Len(r \o v) = Len(q) + 1 /\ (r \o v)[k] = e
       /\ \A i \in 1 .. k - 1 : (r \o v)[i] = q[i]
       /\ \A i \in k + 1 .. Len(q) + 1 : (r \o v)[i] = q[i - 1]
  <2> DEFINE z == r \o v
  <2>1. \A i \in 1 .. k : z[i] = IF i < k THEN q[i] ELSE e
    BY <1>8
  <2>2. \A i \in k + 1 .. Len(q) + 1 : z[i] = q[i - 1]
    BY <1>9
  <2> HIDE DEF z
  <2>3. z[k] = e /\ \A i \in 1 .. k - 1 : z[i] = q[i]
    BY <1>1, <1>10, <2>1
  <2> QED
    BY <1>7, <1>10, <2>2, <2>3 DEF z
<1> QED
  BY <1>5, <1>11 DEF r, PutAt

\* What Tail leaves.
LEMMA TailFacts ==
    ASSUME NEW q \in Seq(Nat), q # <<>>
    PROVE  /\ Len(q) \in Nat /\ Len(q) > 0 /\ Head(q) = q[1] /\ q[1] \in Nat
           /\ Tail(q) \in Seq(Nat) /\ Len(Tail(q)) = Len(q) - 1
           /\ \A k \in 1 .. Len(q) - 1 : Tail(q)[k] = q[k + 1]
<1>1. /\ Head(q) \in Nat /\ Tail(q) \in Seq(Nat) /\ Len(Tail(q)) = Len(q) - 1
      /\ \A i \in 1 .. Len(Tail(q)) : Tail(q)[i] = q[i + 1]
  BY HeadTailProperties
<1>2. Len(q) \in Nat /\ Head(q) = q[1]
  OBVIOUS
<1>3. Len(q) # 0
  OBVIOUS
<1> QED
  BY <1>1, <1>2, <1>3

\* A sequence whose places are those of a longer one is a prefix of it.
LEMMA PrefixOf ==
    ASSUME NEW p \in Seq(Nat), NEW q \in Seq(Nat), Len(p) <= Len(q),
           \A i \in 1 .. Len(p) : p[i] = q[i]
    PROVE  IsPrefix(p, q)
<1>1. Len(p) \in Nat /\ Len(q) \in Nat
  OBVIOUS
<1>2. \A i \in 1 .. Len(p) : p[i] \in Nat /\ q[i] \in Nat
  BY <1>1
<1>3. SubSeq(p, 1, Len(p)) \in Seq(Nat) /\ Len(SubSeq(p, 1, Len(p))) = Len(p)
      /\ \A i \in 1 .. Len(p) : SubSeq(p, 1, Len(p))[i] = p[i]
  BY <1>1, <1>2, SubSeqProperties
<1>4. SubSeq(q, 1, Len(p)) \in Seq(Nat) /\ Len(SubSeq(q, 1, Len(p))) = Len(p)
      /\ \A i \in 1 .. Len(p) : SubSeq(q, 1, Len(p))[i] = q[i]
  BY <1>1, <1>2, SubSeqProperties
<1>5. SubSeq(p, 1, Len(p)) = SubSeq(q, 1, Len(p))
  BY <1>3, <1>4, SeqEqual
<1> QED
  BY <1>5 DEF IsPrefix
=============================================================================
