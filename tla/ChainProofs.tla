----------------------------- MODULE ChainProofs -----------------------------
(***************************************************************************)
(* The frames in processing are one chain from the head, oldest first.     *)
(*                                                                         *)
(* The invariant (Chained) has a witness: a list c of the n claimed frames *)
(* without repetition, which next walks (Linked), and whose ids do not     *)
(* decrease (Sorted).  Seen from the chain every step is one of the six    *)
(* passages (NextPasses), and each passage turns the list into another     *)
(* one.  What can break it is the pair of LinkAfter, after which prev does *)
(* not invert next, and of the removal of a frame amid the chain, which    *)
(* needs prev: where filters do not both clone and skip, or no worker      *)
(* runs their results, one of the two is missing.  Then nothing is cut out *)
(* of the chain, the output is in order and the pipeline implements        *)
(* FrameQueue; where nothing is cloned, prev inverts next too.             *)
(***************************************************************************)
EXTENDS FramePipelineProofs, WellFoundedInduction, SequenceTheorems

-----------------------------------------------------------------------------
(* Induction over sets of numbers.                                          *)

\* Every set of naturals has a least element.
LEMMA LeastNatural ==
    ASSUME NEW T \in SUBSET Nat, T # {}
    PROVE  \E x \in T : \A y \in T : x <= y
<1> DEFINE R == {ss \in Nat \X Nat : ss[1] < ss[2]}
<1>1. IsWellFoundedOn(R, Nat)
  BY NatLessThanWellFounded DEF OpToRel
<1>2. \E x \in T : \A y \in T : <<y, x>> \notin R
  <2> HIDE DEF R
  <2> QED
    BY <1>1, WFMin, Zenon
<1>3. PICK x \in T : \A y \in T : <<y, x>> \notin R
  BY <1>2
<1>4. ASSUME NEW y \in T, y < x PROVE FALSE
  <2>1. <<y, x>> \in Nat \X Nat /\ <<y, x>>[1] < <<y, x>>[2]
    BY <1>4
  <2> QED
    BY <1>3, <2>1
<1> QED
  BY <1>4

\* A set that has 0 and with each number the next one has all up to m.
LEMMA UpTo ==
    ASSUME NEW m \in Nat, NEW S, 0 \in S, \A k \in 0 .. m - 1 : k \in S => k + 1 \in S
    PROVE  \A k \in 0 .. m : k \in S
<1> DEFINE T == {k \in 0 .. m : k \notin S}
<1> SUFFICES ASSUME T # {} PROVE FALSE
  OBVIOUS
<1>0. T \in SUBSET Nat
  OBVIOUS
<1>1. PICK k \in T : \A j \in T : k <= j
  <2> HIDE DEF T
  <2> QED
    BY <1>0, LeastNatural
<1>2. k - 1 \in 0 .. m - 1 /\ k - 1 \notin T /\ (k - 1) + 1 = k
  BY <1>1
<1> QED
  BY <1>1, <1>2

-----------------------------------------------------------------------------
(* The links.  The n frames c[1], ..., c[n] are what can be reached from the *)
(* head.  Back says that the links back are right as well: LinkAfter spoils  *)
(* one of them.                                                              *)

Linked(n, c) ==
    /\ n \in Nat /\ c \in [1 .. n -> Frames]
    /\ \A i, j \in 1 .. n : c[i] = c[j] => i = j
    /\ head = IF n = 0 THEN NoFrame ELSE c[1]
    /\ tail = IF n = 0 THEN NoFrame ELSE c[n]
    /\ \A i \in 1 .. n : nxt[c[i]] = IF i = n THEN NoFrame ELSE c[i + 1]
    /\ n > 0 => prv[c[1]] = NoFrame

Back(n, c) == \A i \in 2 .. n : prv[c[i]] = c[i - 1]

\* c with the frame p at place k, and without what is at place k.
With1(n, c, k, p) == [i \in 1 .. n + 1 |-> IF i < k THEN c[i]
                                           ELSE IF i = k THEN p ELSE c[i - 1]]
Less1(n, c, k) == [i \in 1 .. n - 1 |-> IF i < k THEN c[i] ELSE c[i + 1]]

\* The links are functions, and NULL is no frame.
LEMMA LinksFacts ==
    ASSUME BufferTypeOK
    PROVE  /\ nxt \in [Frames -> FramePtr] /\ prv \in [Frames -> FramePtr]
           /\ NoFrame \notin Frames
BY PointerFacts DEF BufferTypeOK

\* LIST_FRAME_APPEND lengthens the chain by the frame; prev keeps inverting next.
LEMMA AppendLinks ==
    ASSUME BufferTypeOK, NEW n, NEW c, Linked(n, c), NEW f \in Frames,
           \A i \in 1 .. n : c[i] # f, AppendFrame(f)
    PROVE  LET d == With1(n, c, n + 1, f)
           IN  Linked(n + 1, d)' /\ (Back(n, c) => Back(n + 1, d)')
<1> DEFINE d == With1(n, c, n + 1, f)
<1> USE LinksFacts
<1>0. n \in Nat /\ c \in [1 .. n -> Frames]
  BY DEF Linked
<1>1. /\ d \in [1 .. n + 1 -> Frames] /\ d[n + 1] = f
      /\ \A i \in 1 .. n : d[i] = c[i]
  BY <1>0 DEF With1
<1> HIDE DEF d
<1>2. \A i, j \in 1 .. n + 1 : d[i] = d[j] => i = j
  BY <1>0, <1>1 DEF Linked
<1>3. CASE n = 0
  <2>1. tail = NoFrame /\ head = NoFrame
    BY <1>3 DEF Linked
  <2>2. nxt'[f] = NoFrame /\ prv'[f] = NoFrame /\ tail' = f /\ head' = f
    BY <2>1 DEF AppendFrame
  <2> QED
    BY <1>1, <1>2, <1>3, <2>2 DEF Linked, Back, d
<1>4. CASE n # 0
  <2>1. tail = c[n] /\ tail \in Frames /\ head = c[1] /\ head \in Frames
    BY <1>0, <1>4 DEF Linked
  <2>2. /\ nxt' = [nxt EXCEPT ![f] = NoFrame, ![c[n]] = f]
        /\ prv' = [prv EXCEPT ![f] = c[n]] /\ tail' = f /\ head' = c[1]
    BY <2>1 DEF AppendFrame
  <2>3. nxt'[f] = NoFrame /\ nxt'[c[n]] = f /\ prv'[f] = c[n]
    BY <1>0, <1>4, <2>2
  <2>4. \A i \in 1 .. n : i # n => nxt'[c[i]] = c[i + 1]
    BY <1>0, <1>4, <2>2 DEF Linked
  <2>5. \A i \in 1 .. n : prv'[c[i]] = prv[c[i]]
    BY <1>0, <2>2
  <2>6. Linked(n + 1, d)'
    BY <1>0, <1>1, <1>2, <1>4, <2>2, <2>3, <2>4, <2>5 DEF Linked
  <2>7. Back(n, c) => Back(n + 1, d)'
    BY <1>0, <1>1, <2>3, <2>5 DEF Back
  <2> QED
    BY <2>6, <2>7 DEF d
<1> QED
  BY <1>3, <1>4

\* LinkAfter puts the copy behind its frame; prev is no longer the inverse of next.
LEMMA CopyLinks ==
    ASSUME BufferTypeOK, NEW n, NEW c, Linked(n, c), NEW p \in Frames,
           \A i \in 1 .. n : c[i] # p, NEW k \in 1 .. n, LinkAfter(p, c[k])
    PROVE  Linked(n + 1, With1(n, c, k + 1, p))'
<1> DEFINE d == With1(n, c, k + 1, p)
<1> USE LinksFacts
<1>0. n \in Nat /\ c \in [1 .. n -> Frames] /\ n # 0
  BY DEF Linked
<1>1. /\ d \in [1 .. n + 1 -> Frames] /\ d[k + 1] = p
      /\ \A i \in 1 .. k : d[i] = c[i]
      /\ \A i \in k + 2 .. n + 1 : d[i] = c[i - 1]
  BY <1>0 DEF With1
<1> HIDE DEF d
<1>2. \A i, j \in 1 .. n + 1 : d[i] = d[j] => i = j
  <2> DEFINE at(i) == IF i <= k THEN i ELSE i - 1
  <2>1. \A i \in 1 .. n + 1 : i # k + 1 => at(i) \in 1 .. n /\ d[i] = c[at(i)]
    BY <1>0, <1>1
  <2>2. \A i \in 1 .. n + 1 : d[i] = p <=> i = k + 1
    BY <1>1, <2>1
  <2>3. \A i, j \in 1 .. n + 1 : i # k + 1 /\ j # k + 1 /\ at(i) = at(j) => i = j
    OBVIOUS
  <2> HIDE DEF at
  <2> QED
    BY <1>1, <2>1, <2>2, <2>3 DEF Linked
<1>3. /\ nxt' = [nxt EXCEPT ![p] = nxt[c[k]], ![c[k]] = p]
      /\ prv' = [prv EXCEPT ![p] = c[k]] /\ head' = head
      /\ tail' = IF nxt[c[k]] = NoFrame THEN p ELSE tail
  BY DEF LinkAfter
<1>4. nxt[c[k]] = IF k = n THEN NoFrame ELSE c[k + 1]
  BY DEF Linked
<1>5. nxt'[p] = nxt[c[k]] /\ nxt'[c[k]] = p
  BY <1>0, <1>3
<1>6. \A i \in 1 .. n : i # k => nxt'[c[i]] = IF i = n THEN NoFrame ELSE c[i + 1]
  BY <1>0, <1>3 DEF Linked
<1>7. \A i \in 1 .. n + 1 : nxt'[d[i]] = IF i = n + 1 THEN NoFrame ELSE d[i + 1]
  <2> TAKE i \in 1 .. n + 1
  <2>1. CASE i < k
    BY <1>0, <1>1, <1>6, <2>1
  <2>2. CASE i = k
    BY <1>0, <1>1, <1>5, <2>2
  <2>3. CASE i = k + 1
    BY <1>0, <1>1, <1>4, <1>5, <2>3
  <2>4. CASE i > k + 1
    <3>1. d[i] = c[i - 1] /\ i - 1 \in 1 .. n /\ i - 1 # k
      BY <1>0, <1>1, <2>4
    <3>2. i # n + 1 => d[i + 1] = c[(i - 1) + 1]
      BY <1>0, <1>1, <2>4
    <3> QED
      BY <1>0, <1>6, <3>1, <3>2
  <2> QED
    BY <2>1, <2>2, <2>3, <2>4
<1>8. head' = d[1] /\ prv'[d[1]] = NoFrame
  BY <1>0, <1>1, <1>3 DEF Linked
<1>9. tail' = d[n + 1]
  <2>1. tail = c[n]
    BY <1>0 DEF Linked
  <2> QED
    BY <1>0, <1>1, <1>3, <1>4, <2>1, SMTT(30)
<1> QED
  BY <1>0, <1>1, <1>2, <1>7, <1>8, <1>9 DEF Linked, d

\* LIST_FRAME_REMOVE shortens the chain by the frame, at the head whatever the prev
\* links are, elsewhere if prev inverts next.
LEMMA UnlinkLinks ==
    ASSUME BufferTypeOK, NEW n, NEW c, Linked(n, c), NEW k \in 1 .. n,
           k = 1 \/ Back(n, c), Unlink(c[k])
    PROVE  LET d == Less1(n, c, k)
           IN  Linked(n - 1, d)' /\ (Back(n, c) => Back(n - 1, d)')
<1> DEFINE d == Less1(n, c, k)
<1> USE LinksFacts
<1>0. n \in Nat /\ c \in [1 .. n -> Frames] /\ n # 0
  BY DEF Linked
<1>1. /\ d \in [1 .. n - 1 -> Frames]
      /\ \A i \in 1 .. k - 1 : d[i] = c[i]
      /\ \A i \in k .. n - 1 : d[i] = c[i + 1]
  BY <1>0 DEF Less1
<1> HIDE DEF d
<1>2. \A i, j \in 1 .. n - 1 : d[i] = d[j] => i = j
  BY <1>0, <1>1 DEF Linked
<1>3. nxt[c[k]] = IF k = n THEN NoFrame ELSE c[k + 1]
  BY DEF Linked
<1>4. prv[c[k]] = IF k = 1 THEN NoFrame ELSE c[k - 1]
  BY DEF Linked, Back
<1>5. nxt' = IF k = 1 THEN nxt ELSE [nxt EXCEPT ![c[k - 1]] = nxt[c[k]]]
  BY <1>0, <1>4 DEF Unlink
<1>6. prv' = IF k = n THEN prv ELSE [prv EXCEPT ![c[k + 1]] = prv[c[k]]]
  BY <1>0, <1>3 DEF Unlink
<1>7. \A i \in 1 .. n : i # k /\ i # k - 1 => nxt'[c[i]] = IF i = n THEN NoFrame ELSE c[i + 1]
  BY <1>0, <1>5 DEF Linked
<1>8. k > 1 => nxt'[c[k - 1]] = IF k = n THEN NoFrame ELSE c[k + 1]
  BY <1>0, <1>3, <1>5
<1>9. nxt'[c[k]] = nxt[c[k]]
  BY <1>0, <1>5 DEF Linked
<1>10. \A i \in 1 .. n - 1 : nxt'[d[i]] = IF i = n - 1 THEN NoFrame ELSE d[i + 1]
  <2> TAKE i \in 1 .. n - 1
  <2>1. CASE i < k - 1
    BY <1>0, <1>1, <1>7, <2>1
  <2>2. CASE i = k - 1
    BY <1>0, <1>1, <1>8, <2>2
  <2>3. CASE i >= k
    <3>1. d[i] = c[i + 1] /\ i + 1 \in 1 .. n /\ i + 1 # k /\ i + 1 # k - 1
      BY <1>0, <1>1, <2>3
    <3>2. i # n - 1 => d[i + 1] = c[(i + 1) + 1]
      BY <1>0, <1>1, <2>3
    <3> QED
      BY <1>0, <1>7, <3>1, <3>2
  <2> QED
    BY <2>1, <2>2, <2>3
<1>11. prv'[c[k]] = prv[c[k]]
  BY <1>0, <1>6 DEF Linked
<1>12. head' = IF k = 1 THEN nxt[c[k]] ELSE head
  BY <1>0, <1>9 DEF Unlink, Linked
<1>13. tail' = IF k = n THEN prv[c[k]] ELSE tail
  BY <1>0, <1>11 DEF Unlink, Linked
<1>14. head' = IF n - 1 = 0 THEN NoFrame ELSE d[1]
  <2>1. head = c[1]
    BY <1>0 DEF Linked
  <2> QED
    BY <1>0, <1>1, <1>3, <1>12, <2>1
<1>15. tail' = IF n - 1 = 0 THEN NoFrame ELSE d[n - 1]
  <2>1. tail = c[n]
    BY <1>0 DEF Linked
  <2> QED
    BY <1>0, <1>1, <1>4, <1>13, <2>1
<1>16. n - 1 > 0 => prv'[d[1]] = NoFrame
  <2>1. CASE k = 1 /\ n > 1
    BY <1>0, <1>1, <1>4, <1>6, <2>1
  <2>2. CASE k > 1
    BY <1>0, <1>1, <1>6, <2>2 DEF Linked
  <2> QED
    BY <1>0, <2>1, <2>2
<1>17. ASSUME Back(n, c) PROVE Back(n - 1, d)'
  <2>1. \A i \in 2 .. n : i # k + 1 => prv'[c[i]] = c[i - 1]
    BY <1>0, <1>6, <1>17 DEF Linked, Back
  <2>2. k < n => prv'[c[k + 1]] = prv[c[k]]
    BY <1>0, <1>6
  <2> SUFFICES ASSUME NEW i \in 2 .. n - 1 PROVE prv'[d[i]] = d[i - 1]
    BY DEF Back
  <2>3. CASE i < k
    BY <1>0, <1>1, <2>1, <2>3
  <2>4. CASE i = k
    BY <1>0, <1>1, <1>4, <2>2, <2>4
  <2>5. CASE i > k
    <3>1. d[i] = c[i + 1] /\ d[i - 1] = c[i] /\ i + 1 \in 2 .. n /\ (i + 1) - 1 = i
      BY <1>0, <1>1, <2>5
    <3> QED
      BY <2>1, <2>5, <3>1
  <2> QED
    BY <2>3, <2>4, <2>5
<1> QED
  BY <1>0, <1>1, <1>2, <1>10, <1>14, <1>15, <1>16, <1>17 DEF Linked, d

-----------------------------------------------------------------------------
(* The frames of the chain are those in use, and ChainAt walks through them. *)

Members(n, c) == \A f \in Frames : status[f] # "NULL" <=> \E i \in 1 .. n : c[i] = f

\* The ring has room for every frame of the chain.
LEMMA ChainShort == ASSUME NEW n, NEW c, Linked(n, c) PROVE n \in 0 .. Last
<1>0. n \in Nat /\ n \in Int /\ 1 \in Int /\ 0 \in Int /\ Last \in Nat \ {0} /\ Last - 1 \in Int
  BY RingAssumption DEF Linked
<1>a. Cardinality(1 .. n) = IF 1 > n THEN 0 ELSE n - 1 + 1
  BY <1>0, FS_Interval
<1>b. /\ IsFiniteSet(0 .. Last - 1)
      /\ Cardinality(0 .. Last - 1) = IF 0 > Last - 1 THEN 0 ELSE (Last - 1) - 0 + 1
  BY <1>0, FS_Interval
<1>1. n \in Nat /\ Cardinality(1 .. n) = n /\ IsFiniteSet(Frames) /\ Cardinality(Frames) = Last
  BY <1>0, <1>a, <1>b DEF Frames
<1>2. c \in Injection(1 .. n, Frames)
  BY DEF Linked, Injection, IsInjective
<1>3. Cardinality(1 .. n) <= Cardinality(Frames)
  BY <1>1, <1>2, FS_Injection
<1> QED
  BY <1>1, <1>3, RingAssumption

\* It has as many frames as are in use.
LEMMA ChainLength ==
    ASSUME NEW n, NEW c, Linked(n, c), Members(n, c)
    PROVE  n = Cardinality(Frames \ With("NULL"))
<1> DEFINE S == Frames \ With("NULL")
<1>0. n \in Nat /\ n \in Int /\ 1 \in Int
  BY DEF Linked
<1>a. IsFiniteSet(1 .. n) /\ Cardinality(1 .. n) = IF 1 > n THEN 0 ELSE n - 1 + 1
  BY <1>0, FS_Interval
<1>1. IsFiniteSet(1 .. n) /\ Cardinality(1 .. n) = n
  BY <1>0, <1>a
<1>2. c \in Bijection(1 .. n, S)
  BY DEF Linked, Members, With, Bijection, Injection, Surjection, IsInjective
<1>3. Cardinality(S) = Cardinality(1 .. n)
  <2>1. ExistsBijection(1 .. n, S)
    BY <1>2 DEF ExistsBijection
  <2> HIDE DEF S
  <2> QED
    BY <1>1, <2>1, FS_Bijection
<1> QED
  BY <1>1, <1>3

\* ChainAt[k] is the frame at place k + 1, and NULL behind the end.
LEMMA ChainWalk ==
    ASSUME NEW n, NEW c, Linked(n, c)
    PROVE  \A k \in 0 .. Last : ChainAt[k] = IF k < n THEN c[k + 1] ELSE NoFrame
<1> DEFINE w == [k \in 0 .. Last |-> IF k < n THEN c[k + 1] ELSE NoFrame]
           Walk(g) == g = [k \in 0 .. Last |->
                             IF k = 0 THEN head
                             ELSE IF g[k - 1] = NoFrame THEN NoFrame ELSE nxt[g[k - 1]]]
<1>0. n \in 0 .. Last /\ c \in [1 .. n -> Frames] /\ NoFrame \notin Frames
      /\ Last \in Nat \ {0}
  BY ChainShort, PointerFacts, RingAssumption DEF Linked
<1>1. Walk(w)
  <2>1. w[0] = head
    BY <1>0 DEF Linked
  <2>2. \A k \in 1 .. Last : w[k] = IF w[k - 1] = NoFrame THEN NoFrame ELSE nxt[w[k - 1]]
    <3> TAKE k \in 1 .. Last
    <3>1. CASE k - 1 < n
      <4>1. w[k - 1] = c[k] /\ c[k] \in Frames /\ k \in 1 .. n
        BY <1>0, <3>1
      <4>2. nxt[c[k]] = IF k = n THEN NoFrame ELSE c[k + 1]
        BY <4>1 DEF Linked
      <4> QED
        BY <1>0, <4>1, <4>2
    <3>2. CASE ~(k - 1 < n)
      BY <1>0, <3>2
    <3> QED
      BY <3>1, <3>2
  <2> QED
    BY <2>1, <2>2, SMTT(30)
<1>2. ChainAt = CHOOSE g : Walk(g)
  BY DEF ChainAt
<1>3. Walk(ChainAt)
  <2> HIDE DEF Walk
  <2> QED
    BY <1>1, <1>2
<1> DEFINE S == {k \in 0 .. Last : ChainAt[k] = w[k]}
<1>4. 0 \in S
  <2>1. w[0] = head
    BY <1>0 DEF Linked
  <2>2. ChainAt[0] = head
    <3> HIDE DEF w
    <3> QED
      BY <1>0, <1>3
  <2> QED
    BY <1>0, <2>1, <2>2
<1>5. \A k \in 0 .. Last - 1 : k \in S => k + 1 \in S
  BY <1>0, <1>1, <1>3, SMTT(30)
<1>6. \A k \in 0 .. Last : k \in S
  <2> HIDE DEF S
  <2> QED
    BY <1>0, <1>4, <1>5, UpTo
<1> QED
  BY <1>6

\* The same from the other side.
LEMMA ChainSeen ==
    ASSUME NEW n, NEW c, Linked(n, c)
    PROVE  /\ n \in 0 .. Last /\ Last \in Nat /\ c \in [1 .. n -> Frames]
           /\ \A k \in 1 .. n : k - 1 \in 0 .. Last /\ ChainAt[k - 1] = c[k]
           /\ \A k \in 0 .. n - 1 : k + 1 \in 1 .. n /\ ChainAt[k] = c[k + 1]
           /\ \A k \in n .. Last : ChainAt[k] = NoFrame
<1>1. /\ n \in 0 .. Last /\ Last \in Nat /\ c \in [1 .. n -> Frames]
      /\ \A k \in 0 .. Last : ChainAt[k] = IF k < n THEN c[k + 1] ELSE NoFrame
  BY ChainShort, ChainWalk, RingAssumption DEF Linked
<1>2. ASSUME NEW k \in 1 .. n PROVE k - 1 \in 0 .. Last /\ ChainAt[k - 1] = c[k]
  <2>1. k - 1 \in 0 .. Last /\ k - 1 < n /\ (k - 1) + 1 = k
    BY <1>1
  <2> QED
    BY <1>1, <2>1
<1>3. ASSUME NEW k \in 0 .. n - 1 PROVE k + 1 \in 1 .. n /\ ChainAt[k] = c[k + 1]
  <2>1. k \in 0 .. Last /\ k < n /\ k + 1 \in 1 .. n
    BY <1>1
  <2> QED
    BY <1>1, <2>1
<1>4. ASSUME NEW k \in n .. Last PROVE ChainAt[k] = NoFrame
  <2>1. k \in 0 .. Last /\ ~(k < n)
    BY <1>1
  <2> QED
    BY <1>1, <2>1
<1> QED
  BY <1>1, <1>2, <1>3, <1>4

-----------------------------------------------------------------------------
(* Seen from the chain, every step is one of six passages.                  *)

Still == UNCHANGED <<chain, status, id, out>>

\* A new frame goes to the end of the chain with the next id.
Enters(f) ==
    /\ Restatus(f, "NULL", "EMPTY")
    /\ id' = [id EXCEPT ![f] = nextId]
    /\ AppendFrame(f)
    /\ UNCHANGED out

\* A frame goes on to the next stage where it stands.
Advances(f, s) ==
    /\ f \in Frames /\ <<status[f], s>> \in Queue!Flow
    /\ status' = [status EXCEPT ![f] = s]
    /\ UNCHANGED <<chain, id, out>>

\* A worker puts a copy behind its frame.
Copies(f, p) ==
    /\ f \in Frames /\ status[f] = "LOCKED"
    /\ Restatus(p, "NULL", "LOCKED")
    /\ id' = [id EXCEPT ![p] = id[f]]
    /\ LinkAfter(p, f)
    /\ \E w \in Workers : pc[w] = "dup"
    /\ UNCHANGED out

\* A worker takes a skipped frame out of the chain.
Skips(f) ==
    /\ Restatus(f, "LOCKED", "NULL")
    /\ Unlink(f)
    /\ \E w \in Workers : pc[w] = "remove"
    /\ UNCHANGED <<id, out>>

\* The head leaves, or stays; its id goes to the output, or does not.
Finishes ==
    /\ head \in Frames /\ status[head] = "READY"
    /\ out' \in {out, Append(out, id[head])}
    /\ \/ Unlink(head) /\ Restatus(head, "READY", "NULL")
       \/ UNCHANGED <<chain, status>>
    /\ cur'[Encoder] = NoFrame
    /\ UNCHANGED id

Passage ==
    \/ Still
    \/ \E f \in Frames : Enters(f)
    \/ \E f \in Frames, s \in Status : Advances(f, s)
    \/ \E f, p \in Frames : Copies(f, p)
    \/ \E f \in Frames : Skips(f)
    \/ Finishes

\* The encoder works on the head of the chain.
EncoderAtHead == cur[Encoder] # NoFrame => cur[Encoder] = head

\* What the importer does to the chain and to the ids.
LEMMA ImporterPasses == Typed /\ Apart /\ ImporterStep => Passage /\ nextId <= nextId'
<1> SUFFICES ASSUME Typed, Apart, ImporterStep PROVE Passage /\ nextId <= nextId'
  OBVIOUS
<1> USE ThreadFacts, StageFacts
<1>0. BufferTypeOK /\ nextId \in Nat
  BY DEF Typed, TypeOK
<1>1. CASE ImportLoop \/ ImportEnd
  BY <1>0, <1>1 DEF ImportLoop, ImportEnd, fbvars, ring, history, control, Passage, Still
<1>2. CASE ImportRegister
  <2>1. UNCHANGED <<nextId, out>>
    BY <1>2 DEF ImportRegister, control, history
  <2>2. \/ Sleep(Importer, "import") \/ GiveUp(Importer)
        \/ \E f \in Frames : ClaimEmpty(Importer, nextId, f)
    BY <1>2 DEF ImportRegister, Register
  <2>3. CASE Sleep(Importer, "import") \/ GiveUp(Importer)
    BY <1>0, <2>1, <2>3 DEF Sleep, GiveUp, ring, Passage, Still
  <2>4. CASE \E f \in Frames : ClaimEmpty(Importer, nextId, f)
    <3> PICK f \in Frames : ClaimEmpty(Importer, nextId, f)
      BY <2>4
    <3>1. Enters(f)
      BY <1>0, <2>1, FreeSlot DEF ClaimEmpty, Enters, Restatus
    <3> QED
      BY <1>0, <2>1, <3>1 DEF Passage
  <2> QED
    BY <2>2, <2>3, <2>4
<1>3. CASE ImportFill
  <2>1. cur[Importer] \in Frames /\ status[cur[Importer]] = "EMPTY"
    BY <1>0, <1>3 DEF ImportFill, At, Typed, Held, Apart, BufferTypeOK, FramePtr
  <2>2. Advances(cur[Importer], AfterImport) /\ AfterImport \in Status
    BY <1>3, <2>1
    DEF ImportFill, PushNext, Advances, AfterImport, Status, Queue!Flow, history
  <2>3. nextId <= nextId'
    BY <1>0, <1>3 DEF ImportFill
  <2> QED
    BY <2>1, <2>2, <2>3 DEF Passage
<1> QED
  BY <1>1, <1>2, <1>3 DEF ImporterStep

\* What a worker does to the chain and to the ids.
LEMMA WorkerPasses ==
    ASSUME NEW w \in Workers
    PROVE  Typed /\ Apart /\ WorkerStep(w) => Passage /\ nextId <= nextId'
<1> SUFFICES ASSUME Typed, Apart, WorkerStep(w) PROVE Passage /\ nextId <= nextId'
  OBVIOUS
<1> USE ThreadFacts, StageFacts
<1>0. BufferTypeOK /\ nextId \in Nat
  BY DEF Typed, TypeOK
<1>1. UNCHANGED nextId
  BY DEF WorkerStep, WorkerCheck, WorkerReserve, WorkerHalt, WorkerFrame, WorkerDup,
     WorkerQueue, WorkerPost, WorkerPush, WorkerRemove, control
<1> SUFFICES Passage
  BY <1>0, <1>1
<1>2. CASE WorkerCheck(w) \/ WorkerHalt(w) \/ WorkerFrame(w) \/ WorkerPost(w)
  BY <1>2 DEF WorkerCheck, WorkerHalt, WorkerFrame, WorkerPost, fbvars, ring, history,
     Passage, Still
<1>3. CASE WorkerReserve(w)
  <2>1. UNCHANGED out /\ (Sleep(w, "filter") \/ GiveUp(w) \/ LockWaiting(w))
    BY <1>3 DEF WorkerReserve, Reserve, history, control
  <2>2. CASE Sleep(w, "filter") \/ GiveUp(w)
    BY <2>1, <2>2 DEF Sleep, GiveUp, ring, Passage, Still
  <2>3. CASE LockWaiting(w)
    <3>1. PICK f \in Frames : Advances(f, "LOCKED")
      BY <2>1, <2>3 DEF LockWaiting, WaitingAt, Advances, Queue!Flow
    <3> QED
      BY <3>1 DEF Passage, Status
  <2> QED
    BY <2>1, <2>2, <2>3
<1>4. ASSUME pc[w] \in Working
      PROVE  cur[w] \in Frames /\ status[cur[w]] = "LOCKED"
  BY <1>4, WorkerFrameIn, PointerFacts DEF Apart
<1>5. CASE WorkerDup(w)
  <2>1. pc[w] = "dup" /\ cur[w] \in Frames /\ status[cur[w]] = "LOCKED" /\ UNCHANGED out
    BY <1>4, <1>5 DEF WorkerDup, At, Working, history
  <2>2. \/ UNCHANGED <<ring, chain, id>>
        \/ \E p \in Frames : ClaimCopy(w, cur[w], p)
    BY <1>5 DEF WorkerDup, Dup, Sleep
  <2>3. CASE UNCHANGED <<ring, chain, id>>
    BY <2>1, <2>3 DEF ring, Passage, Still
  <2>4. CASE \E p \in Frames : ClaimCopy(w, cur[w], p)
    <3> PICK p \in Frames : ClaimCopy(w, cur[w], p)
      BY <2>4
    <3>1. Copies(cur[w], p)
      BY <1>0, <2>1, FreeSlot DEF ClaimCopy, Copies, Restatus
    <3> QED
      BY <2>1, <3>1 DEF Passage
  <2> QED
    BY <2>2, <2>3, <2>4
<1>6. CASE WorkerQueue(w)
  <2>1. clone[w] \in Frames /\ status[clone[w]] = "LOCKED"
    BY <1>0, <1>6 DEF WorkerQueue, At, Typed, Held, Apart, BufferTypeOK, FramePtr
  <2>2. Advances(clone[w], "WAIT")
    BY <1>6, <2>1 DEF WorkerQueue, PushNext, Advances, Queue!Flow, history
  <2> QED
    BY <2>1, <2>2 DEF Passage, Status
<1>7. CASE WorkerPush(w)
  <2>1. cur[w] \in Frames /\ status[cur[w]] = "LOCKED"
    BY <1>4, <1>7 DEF WorkerPush, At, Working
  <2>2. Advances(cur[w], "READY")
    BY <1>7, <2>1 DEF WorkerPush, PushNext, Advances, Queue!Flow, history
  <2> QED
    BY <2>1, <2>2 DEF Passage, Status
<1>8. CASE WorkerRemove(w)
  <2>1. pc[w] = "remove" /\ cur[w] \in Frames /\ status[cur[w]] = "LOCKED"
    BY <1>4, <1>8 DEF WorkerRemove, At, Working
  <2>2. Skips(cur[w])
    BY <1>8, <2>1 DEF WorkerRemove, Drop, Remove, RemoveFrame, Skips, Restatus
  <2> QED
    BY <2>1, <2>2 DEF Passage
<1> QED
  BY <1>2, <1>3, <1>5, <1>6, <1>7, <1>8 DEF WorkerStep

\* What the encoder and the main thread do to the chain and to the ids.
LEMMA EncoderPasses ==
    Typed /\ Apart /\ EncoderAtHead /\ EncoderStep => Passage /\ nextId <= nextId'
<1> SUFFICES ASSUME Typed, Apart, EncoderAtHead, EncoderStep
             PROVE  Passage /\ nextId <= nextId'
  OBVIOUS
<1> USE ThreadFacts, StageFacts
<1>0. BufferTypeOK /\ nextId \in Nat
  BY DEF Typed, TypeOK
<1>1. UNCHANGED nextId
  BY DEF EncoderStep, EncoderCheck, EncoderAcquire, EncoderProcess, EncoderDispose,
     NextRange, StopAll, StopInterrupt, CancelImport, CancelWake, JoinImporter, Flush,
     CreateImporter, PoolStop, PoolJoin, control
<1> SUFFICES Passage
  BY <1>0, <1>1
<1>2. CASE \/ EncoderCheck \/ NextRange \/ StopAll \/ CancelImport
           \/ JoinImporter \/ CreateImporter \/ PoolStop \/ PoolJoin
  BY <1>2 DEF EncoderCheck, NextRange, StopAll, CancelImport, JoinImporter, MainStep,
     CreateImporter, PoolStop, PoolJoin, fbvars, ring, history, Passage, Still
<1>3. CASE StopInterrupt \/ CancelWake
  BY <1>3 DEF StopInterrupt, CancelWake, MainStep, Interrupt, InterruptImport, ring,
     history, Passage, Still
<1>4. CASE EncoderAcquire
  BY <1>4 DEF EncoderAcquire, Retrieve, Sleep, GiveUp, ring, history, Passage, Still
<1>5. ASSUME pc[Encoder] \in {"process", "dispose"}
      PROVE  /\ cur[Encoder] = head /\ head \in Frames /\ status[head] = "READY"
  BY <1>5, EncoderFrom, PointerFacts DEF Apart, EncoderAtHead
<1>6. ASSUME head \in Frames, status[head] = "READY", Remove(head),
             out' \in {out, Append(out, id[head])}, cur'[Encoder] = NoFrame
      PROVE  Finishes
  BY <1>6 DEF Remove, RemoveFrame, Finishes, Restatus
<1>7. CASE EncoderProcess
  <2>1. cur[Encoder] = head /\ head \in Frames /\ status[head] = "READY" /\ UNCHANGED out
    BY <1>5, <1>7 DEF EncoderProcess, At
  <2>2. \/ Remove(head) /\ cur'[Encoder] = NoFrame
        \/ UNCHANGED <<ring, chain, id>>
    BY <1>0, <1>7, <2>1 DEF EncoderProcess, Drop, Release, BufferTypeOK
  <2> QED
    BY <1>6, <2>1, <2>2 DEF ring, Passage, Still
<1>8. CASE EncoderDispose
  <2>1. cur[Encoder] = head /\ head \in Frames /\ status[head] = "READY"
    BY <1>5, <1>8 DEF EncoderDispose, At
  <2>2. /\ out' \in {out, Append(out, id[head])} /\ cur'[Encoder] = NoFrame
        /\ Remove(head) \/ UNCHANGED <<ring, chain, id>>
    BY <1>0, <1>8, <2>1 DEF EncoderDispose, Release, BufferTypeOK
  <2>3. CASE Remove(head)
    BY <1>6, <2>1, <2>2, <2>3 DEF Passage
  <2>4. CASE UNCHANGED <<ring, chain, id>>
    BY <2>1, <2>2, <2>4 DEF ring, Passage, Finishes
  <2> QED
    BY <2>2, <2>3, <2>4
<1>9. CASE Flush
  <2>1. UNCHANGED out
    BY <1>9 DEF Flush, history
  <2>2. CASE HeadReady /\ Remove(head) /\ UNCHANGED cur
    <3>1. head \in Frames /\ status[head] = "READY" /\ cur'[Encoder] = NoFrame
      BY <1>0, <1>9, <2>2, EncoderFrom DEF HeadReady, BufferTypeOK, FramePtr, Flush, At
    <3> QED
      BY <1>6, <2>1, <2>2, <3>1 DEF Passage
  <2>3. CASE UNCHANGED fbvars
    BY <2>1, <2>3 DEF fbvars, ring, Passage, Still
  <2> QED
    BY <1>9, <2>2, <2>3 DEF Flush
<1> QED
  BY <1>2, <1>3, <1>4, <1>7, <1>8, <1>9 DEF EncoderStep

\* Every step is a passage, and ids are given out in increasing order.
LEMMA NextPasses ==
    Typed /\ Apart /\ EncoderAtHead /\ [Next]_vars => Passage /\ nextId <= nextId'
<1> SUFFICES ASSUME Typed, Apart, EncoderAtHead, [Next]_vars
             PROVE  Passage /\ nextId <= nextId'
  OBVIOUS
<1>0. nextId \in Nat
  BY DEF Typed, TypeOK
<1>1. CASE SignalStep \/ UNCHANGED vars
  BY <1>0, <1>1 DEF SignalStep, SignalRaise, SignalWake, Interrupt, vars, fbvars, ring,
     history, control, Passage, Still
<1> QED
  BY <1>1, ImporterPasses, WorkerPasses, EncoderPasses DEF Next, Terminated

\* The encoder gets no frame but the head, and the chain stays when it gets that.
LEMMA EncoderMoves ==
    ASSUME Typed, [Next]_vars
    PROVE  \/ cur'[Encoder] \in {cur[Encoder], NoFrame}
           \/ cur'[Encoder] = head /\ UNCHANGED chain
<1> USE ThreadFacts
<1>0. cur \in [Threads -> FramePtr]
  BY DEF Typed, TypeOK, BufferTypeOK
<1>1. CASE ImporterStep
  <2>1. UNCHANGED cur \/ \E x : cur' = [cur EXCEPT ![Importer] = x]
    BY <1>1 DEF ImporterStep, ImportLoop, ImportRegister, ImportFill, ImportEnd, Register,
       Sleep, GiveUp, ClaimEmpty, Return, Release, fbvars
  <2> QED
    BY <1>0, <2>1
<1>2. ASSUME NEW w \in Workers, WorkerStep(w) PROVE cur'[Encoder] = cur[Encoder]
  <2>1. UNCHANGED cur \/ \E x : cur' = [cur EXCEPT ![w] = x]
    BY <1>2 DEF WorkerStep, WorkerCheck, WorkerReserve, WorkerHalt, WorkerFrame,
       WorkerDup, WorkerQueue, WorkerPost, WorkerPush, WorkerRemove, Reserve, LockWaiting,
       Dup, ClaimCopy, Drop, Sleep, GiveUp, Return, Release, fbvars
  <2> QED
    BY <1>0, <2>1
<1>3. CASE EncoderAcquire
  <2>1. \/ UNCHANGED cur \/ cur' = [cur EXCEPT ![Encoder] = NoFrame]
        \/ cur' = [cur EXCEPT ![Encoder] = head] /\ UNCHANGED chain
    BY <1>3 DEF EncoderAcquire, Retrieve, Sleep, GiveUp, Return
  <2> QED
    BY <1>0, <2>1
<1>4. CASE EncoderStep /\ ~EncoderAcquire
  <2>1. UNCHANGED cur \/ cur' = [cur EXCEPT ![Encoder] = NoFrame]
    BY <1>4 DEF EncoderStep, EncoderCheck, EncoderProcess, EncoderDispose, NextRange,
       StopAll, StopInterrupt, CancelImport, CancelWake, JoinImporter, Flush, MainStep,
       CreateImporter, PoolStop, PoolJoin, Drop, Release, Interrupt, InterruptImport, fbvars
  <2> QED
    BY <1>0, <2>1
<1>5. CASE SignalStep \/ UNCHANGED vars
  BY <1>5 DEF SignalStep, SignalRaise, SignalWake, Interrupt, vars, fbvars
<1> QED
  BY <1>1, <1>2, <1>3, <1>4, <1>5 DEF Next, Terminated

\* The frame the encoder works on stays at the head until it is given up.
LEMMA EncoderStaysAtHead ==
    Typed /\ Apart /\ EncoderAtHead /\ [Next]_vars => EncoderAtHead'
<1> SUFFICES ASSUME Typed, Apart, EncoderAtHead, [Next]_vars,
                    cur'[Encoder] # NoFrame
             PROVE  cur'[Encoder] = head'
  BY DEF EncoderAtHead
<1> USE ThreadFacts, StageFacts, PointerFacts
<1>1. CASE UNCHANGED chain
  BY <1>1, EncoderMoves DEF EncoderAtHead, chain
<1>2. CASE ~UNCHANGED chain
  <2>1. /\ cur'[Encoder] = cur[Encoder] /\ cur[Encoder] = head
        /\ status[cur[Encoder]] = "READY"
    BY <1>2, EncoderMoves DEF EncoderAtHead, Apart
  <2>2. Passage
    BY NextPasses
  <2>3. CASE \E f \in Frames : Enters(f)
    BY <2>1, <2>3 DEF Enters, AppendFrame
  <2>4. CASE \E f, p \in Frames : Copies(f, p)
    BY <2>1, <2>4 DEF Copies, LinkAfter
  <2>5. CASE \E f \in Frames : Skips(f)
    BY <2>1, <2>5 DEF Skips, Restatus, Unlink
  <2> QED
    BY <1>2, <2>2, <2>3, <2>4, <2>5 DEF Passage, Still, Advances, Finishes
<1> QED
  BY <1>1, <1>2

-----------------------------------------------------------------------------
(* The chain holds the frames in use in the order of their ids, the output  *)
(* goes on before its head, and where no worker copies the links back are   *)
(* right.                                                                   *)

\* No worker copies a frame; no worker removes one.
Uncopied == Unused("IS_CLONED") \/ Workers = {}
Unremoved == Unused("SKIPPED") \/ Workers = {}

Sorted(n, c) ==
    /\ \A i, j \in 1 .. n : i <= j => id[c[i]] <= id[c[j]]
    /\ \A i \in 1 .. n : id[c[i]] <= nextId
    /\ \A k, l \in 1 .. Len(out) : k <= l => out[k] <= out[l]
    /\ \A k \in 1 .. Len(out) : out[k] <= nextId
    /\ \A k \in 1 .. Len(out), i \in 1 .. n : out[k] <= id[c[i]]

Woven(n, c) == Linked(n, c) /\ Members(n, c) /\ Sorted(n, c) /\ (Uncopied => Back(n, c))

\* The types the arithmetic on ids needs.
LEMMA IdTypes ==
    ASSUME Typed
    PROVE  /\ id \in [Frames -> Nat] /\ status \in [Frames -> Status]
           /\ nextId \in Nat /\ out \in Seq(Nat) /\ Len(out) \in Nat
           /\ \A k \in 1 .. Len(out) : out[k] \in Nat
BY DEF Typed, TypeOK, BufferTypeOK

\* A frame that comes to a place between smaller and greater ids.
LEMMA JoinSorted ==
    ASSUME Typed, Typed', NEW n, NEW c, Woven(n, c),
           NEW k \in 1 .. n + 1, NEW p \in Frames, NEW x \in Nat, NEW s,
           id' = [id EXCEPT ![p] = x], status[p] = "NULL", s # "NULL",
           status' = [status EXCEPT ![p] = s], nextId <= nextId', UNCHANGED out,
           x <= nextId, \A i \in 1 .. k - 1 : id[c[i]] <= x,
           \A i \in k .. n : x <= id[c[i]], \A l \in 1 .. Len(out) : out[l] <= x
    PROVE  LET d == With1(n, c, k, p) IN Members(n + 1, d)' /\ Sorted(n + 1, d)'
<1> DEFINE d == With1(n, c, k, p)
<1> USE IdTypes
<1>0. /\ n \in Nat /\ c \in [1 .. n -> Frames] /\ \A i \in 1 .. n : c[i] # p
      /\ nextId' \in Nat
  BY DEF Woven, Linked, Members, Typed, TypeOK
<1> DEFINE at(i) == IF i < k THEN i ELSE i - 1
<1>1. d \in [1 .. n + 1 -> Frames] /\ d[k] = p
  BY <1>0 DEF With1
<1>2. \A i \in 1 .. n + 1 : i # k => /\ at(i) \in 1 .. n /\ d[i] = c[at(i)]
                                     /\ i < k => at(i) \in 1 .. k - 1
                                     /\ i > k => at(i) \in k .. n
  BY <1>0 DEF With1
<1>3. \A i, j \in 1 .. n + 1 : i # k /\ j # k /\ i <= j => at(i) <= at(j)
  BY <1>0
<1>4. \A j \in 1 .. n : \E i \in 1 .. n + 1 : i # k /\ at(i) = j
  <2> TAKE j \in 1 .. n
  <2>1. CASE j < k
    <3>1. j \in 1 .. n + 1 /\ j # k /\ at(j) = j
      BY <1>0, <2>1
    <3> QED
      BY <3>1
  <2>2. CASE ~(j < k)
    <3>1. j + 1 \in 1 .. n + 1 /\ j + 1 # k /\ at(j + 1) = j
      BY <1>0, <2>2
    <3> QED
      BY <3>1
  <2> QED
    BY <2>1, <2>2
<1> HIDE DEF at, d
<1>5. /\ \A i, j \in 1 .. n : i <= j => id[c[i]] <= id[c[j]]
      /\ \A i \in 1 .. n : id[c[i]] <= nextId /\ id[c[i]] \in Nat
      /\ \A l, m \in 1 .. Len(out) : l <= m => out[l] <= out[m]
      /\ \A l \in 1 .. Len(out) : out[l] <= nextId /\ out[l] \in Nat
      /\ \A l \in 1 .. Len(out), i \in 1 .. n : out[l] <= id[c[i]]
  BY <1>0 DEF Woven, Sorted
<1>6. id'[d[k]] = x /\ \A i \in 1 .. n + 1 : i # k => id'[d[i]] = id[c[at(i)]]
  BY <1>0, <1>1, <1>2
<1>7. \A i, j \in 1 .. n + 1 : i <= j => id'[d[i]] <= id'[d[j]]
  <2> TAKE i, j \in 1 .. n + 1
  <2> HAVE i <= j
  <2>1. CASE i # k /\ j # k
    BY <1>2, <1>3, <1>5, <1>6, <2>1
  <2>2. CASE i # k /\ j = k
    <3>1. at(i) \in 1 .. k - 1
      BY <1>0, <1>2, <2>2, SMTT(30)
    <3> QED
      BY <1>6, <2>2, <3>1
  <2>3. CASE i = k /\ j # k
    <3>1. at(j) \in k .. n
      BY <1>0, <1>2, <2>3
    <3> QED
      BY <1>6, <2>3, <3>1
  <2>4. CASE i = k /\ j = k
    BY <1>6, <2>4
  <2> QED
    BY <2>1, <2>2, <2>3, <2>4
<1>8. /\ \A i \in 1 .. n : id[c[i]] <= nextId'
      /\ \A l \in 1 .. Len(out) : out[l] <= nextId'
      /\ x <= nextId'
  BY <1>0, <1>5
<1>9. \A i \in 1 .. n + 1 : id'[d[i]] <= nextId'
  BY <1>2, <1>6, <1>8
<1>10. \A l \in 1 .. Len(out), i \in 1 .. n + 1 : out[l] <= id'[d[i]]
  BY <1>2, <1>5, <1>6
<1>11. Sorted(n + 1, d)'
  BY <1>5, <1>7, <1>8, <1>9, <1>10 DEF Sorted
<1>12. Members(n + 1, d)'
  <2>1. \A f \in Frames : f # p =>
           ((\E i \in 1 .. n + 1 : d[i] = f) <=> (\E i \in 1 .. n : c[i] = f))
    <3>1. \A f \in Frames, i \in 1 .. n + 1 : f # p /\ d[i] = f => \E j \in 1 .. n : c[j] = f
      BY <1>1, <1>2
    <3>2. \A f \in Frames, j \in 1 .. n : c[j] = f => \E i \in 1 .. n + 1 : d[i] = f
      BY <1>2, <1>4
    <3> QED
      BY <3>1, <3>2
  <2>2. \A f \in Frames : f # p => status'[f] = status[f]
    OBVIOUS
  <2>3. status'[p] = s
    OBVIOUS
  <2> QED
    BY <1>0, <1>1, <2>1, <2>2, <2>3 DEF Members, Woven
<1> QED
  BY <1>11, <1>12 DEF d

\* A frame that leaves its place, the head perhaps to the output.
LEMMA LeaveSorted ==
    ASSUME Typed, Typed', NEW n, NEW c, Woven(n, c), NEW k \in 1 .. n,
           status' = [status EXCEPT ![c[k]] = "NULL"], nextId <= nextId', UNCHANGED id,
           out' = out \/ (k = 1 /\ out' = Append(out, id[c[k]]))
    PROVE  LET d == Less1(n, c, k) IN Members(n - 1, d)' /\ Sorted(n - 1, d)'
<1> DEFINE d == Less1(n, c, k)
<1> USE IdTypes
<1>0. /\ n \in Nat /\ c \in [1 .. n -> Frames] /\ nextId' \in Nat /\ k \in Nat
  BY DEF Woven, Linked, Typed, TypeOK
<1>1. /\ d \in [1 .. n - 1 -> Frames]
      /\ \A i \in 1 .. k - 1 : d[i] = c[i]
      /\ \A i \in k .. n - 1 : d[i] = c[i + 1] /\ i + 1 \in 1 .. n
      /\ \A i \in 1 .. n - 1 : i \in 1 .. n
  BY <1>0 DEF Less1
<1> HIDE DEF d
<1> DEFINE at(i) == IF i < k THEN i ELSE i + 1
<1>2. \A i \in 1 .. n - 1 : at(i) \in 1 .. n /\ d[i] = c[at(i)] /\ at(i) # k
  BY <1>0, <1>1
<1>3. \A i, j \in 1 .. n - 1 : i <= j => at(i) <= at(j)
  BY <1>0
<1>4. \A j \in 1 .. n : j # k => \E i \in 1 .. n - 1 : at(i) = j
  <2> TAKE j \in 1 .. n
  <2> HAVE j # k
  <2>1. CASE j < k
    <3>1. j \in 1 .. n - 1 /\ at(j) = j
      BY <1>0, <2>1
    <3> QED
      BY <3>1
  <2>2. CASE ~(j < k)
    <3>1. j - 1 \in 1 .. n - 1 /\ at(j - 1) = j
      BY <1>0, <2>2
    <3> QED
      BY <3>1
  <2> QED
    BY <2>1, <2>2
<1> HIDE DEF at
<1>5. /\ \A i, j \in 1 .. n : i <= j => id[c[i]] <= id[c[j]]
      /\ \A i \in 1 .. n : id[c[i]] <= nextId /\ id[c[i]] \in Nat
      /\ \A l, m \in 1 .. Len(out) : l <= m => out[l] <= out[m]
      /\ \A l \in 1 .. Len(out) : out[l] <= nextId /\ out[l] \in Nat
      /\ \A l \in 1 .. Len(out), i \in 1 .. n : out[l] <= id[c[i]]
  BY <1>0 DEF Woven, Sorted
<1>6. /\ \A i, j \in 1 .. n - 1 : i <= j => id'[d[i]] <= id'[d[j]]
      /\ \A i \in 1 .. n - 1 : id'[d[i]] <= nextId'
  <2>1. \A i \in 1 .. n - 1 : id'[d[i]] = id[c[at(i)]]
    BY <1>2
  <2>2. \A i \in 1 .. n : id[c[i]] <= nextId'
    BY <1>0, <1>5
  <2> QED
    BY <1>2, <1>3, <1>5, <2>1, <2>2
<1>7. /\ \A l, m \in 1 .. Len(out') : l <= m => out'[l] <= out'[m]
      /\ \A l \in 1 .. Len(out') : out'[l] <= nextId'
      /\ \A l \in 1 .. Len(out'), i \in 1 .. n - 1 : out'[l] <= id'[d[i]]
  <2>1. CASE out' = out
    <3>1. \A l \in 1 .. Len(out) : out[l] <= nextId'
      BY <1>0, <1>5
    <3>2. \A i \in 1 .. n - 1 : id'[d[i]] = id[c[at(i)]] /\ at(i) \in 1 .. n
      BY <1>2
    <3> QED
      BY <1>5, <2>1, <3>1, <3>2
  <2>2. CASE k = 1 /\ out' = Append(out, id[c[k]])
    <3>1. /\ Len(out') = Len(out) + 1
          /\ \A l \in 1 .. Len(out) : out'[l] = out[l]
          /\ out'[Len(out) + 1] = id[c[k]]
          /\ id[c[k]] \in Nat
      BY <1>0, <2>2
    <3>2. \A l \in 1 .. Len(out') : l \in 1 .. Len(out) \/ l = Len(out) + 1
      BY <3>1
    <3>3. \A i \in 1 .. n : id[c[k]] <= id[c[i]] /\ id[c[k]] <= nextId'
      BY <1>0, <1>5, <2>2
    <3>4. \A l, m \in 1 .. Len(out') : l <= m => out'[l] <= out'[m]
      <4> TAKE l, m \in 1 .. Len(out')
      <4> HAVE l <= m
      <4>1. CASE m \in 1 .. Len(out)
        BY <1>5, <3>1, <4>1, SMTT(30)
      <4>2. CASE m = Len(out) + 1 /\ l \in 1 .. Len(out)
        BY <1>5, <3>1, <4>2
      <4>3. CASE m = Len(out) + 1 /\ l = Len(out) + 1
        BY <3>1, <4>3
      <4> QED
        BY <3>2, <4>1, <4>2, <4>3
    <3>5. \A l \in 1 .. Len(out) : out[l] <= nextId'
      BY <1>0, <1>5
    <3>6. \A l \in 1 .. Len(out'), i \in 1 .. n : out'[l] <= id[c[i]]
      BY <1>5, <3>1, <3>2, <3>3
    <3>7. \A l \in 1 .. Len(out') : out'[l] <= nextId'
      BY <3>1, <3>2, <3>3, <3>5, <1>0
    <3>8. \A i \in 1 .. n - 1 : id'[d[i]] = id[c[at(i)]] /\ at(i) \in 1 .. n
      BY <1>2
    <3> QED
      BY <3>4, <3>6, <3>7, <3>8
  <2> QED
    BY <2>1, <2>2
<1>8. Sorted(n - 1, d)'
  BY <1>6, <1>7 DEF Sorted
<1>9. Members(n - 1, d)'
  <2>1. \A f \in Frames : f # c[k] =>
           ((\E i \in 1 .. n - 1 : d[i] = f) <=> (\E i \in 1 .. n : c[i] = f))
    BY <1>2, <1>4
  <2>2. \A i \in 1 .. n - 1 : d[i] # c[k]
    BY <1>2, SMTT(30) DEF Woven, Linked
  <2>3. c[k] \in Frames /\ status'[c[k]] = "NULL"
    BY <1>0
  <2>4. \A f \in Frames : f # c[k] => status'[f] = status[f]
    OBVIOUS
  <2> QED
    BY <2>1, <2>2, <2>3, <2>4 DEF Members, Woven
<1> QED
  BY <1>8, <1>9 DEF d

\* The passages, one by one, with the chain after each.
LEMMA StayWoven ==
    ASSUME Typed, Typed', NEW n, NEW c, Woven(n, c), nextId <= nextId',
           UNCHANGED <<chain, id>>,
           \A f \in Frames : status'[f] = "NULL" <=> status[f] = "NULL",
           out' = out \/ (head \in Frames /\ out' = Append(out, id[head]))
    PROVE  Woven(n, c)'
<1> USE IdTypes
<1>0. /\ n \in Nat /\ c \in [1 .. n -> Frames] /\ nextId' \in Nat
      /\ nxt' = nxt /\ prv' = prv /\ head' = head /\ tail' = tail /\ id' = id
  BY DEF Woven, Linked, Typed, TypeOK, chain
<1>1. Linked(n, c)' /\ Members(n, c)' /\ (Uncopied => Back(n, c)')
  BY <1>0 DEF Woven, Linked, Members, Back
<1>2. /\ \A i, j \in 1 .. n : i <= j => id[c[i]] <= id[c[j]]
      /\ \A i \in 1 .. n : id[c[i]] <= nextId /\ id[c[i]] \in Nat
      /\ \A l, m \in 1 .. Len(out) : l <= m => out[l] <= out[m]
      /\ \A l \in 1 .. Len(out) : out[l] <= nextId /\ out[l] \in Nat
      /\ \A l \in 1 .. Len(out), i \in 1 .. n : out[l] <= id[c[i]]
  BY <1>0 DEF Woven, Sorted
<1>3. /\ \A i \in 1 .. n : id[c[i]] <= nextId'
      /\ \A l \in 1 .. Len(out) : out[l] <= nextId'
  BY <1>0, <1>2
<1>4. CASE out' = out
  BY <1>0, <1>1, <1>2, <1>3, <1>4 DEF Woven, Sorted
<1>5. CASE head \in Frames /\ out' = Append(out, id[head])
  <2>1. n > 0 /\ head = c[1] /\ 1 \in 1 .. n
    BY <1>0, <1>5, PointerFacts DEF Woven, Linked
  <2>2. /\ Len(out') = Len(out) + 1
        /\ \A l \in 1 .. Len(out) : out'[l] = out[l]
        /\ out'[Len(out) + 1] = id[c[1]]
        /\ id[c[1]] \in Nat
    BY <1>0, <1>5, <2>1
  <2>3. \A l \in 1 .. Len(out') : l \in 1 .. Len(out) \/ l = Len(out) + 1
    BY <2>2
  <2>4. \A i \in 1 .. n : id[c[1]] <= id[c[i]] /\ id[c[1]] <= nextId'
    BY <1>0, <1>2, <1>3, <2>1
  <2>5. \A l, m \in 1 .. Len(out') : l <= m => out'[l] <= out'[m]
    <3> TAKE l, m \in 1 .. Len(out')
    <3> HAVE l <= m
    <3>1. CASE m \in 1 .. Len(out)
      <4>1. l \in 1 .. Len(out) /\ out[l] <= out[m]
        BY <1>2, <2>2, <3>1
      <4> QED
        BY <2>2, <3>1, <4>1
    <3>2. CASE m = Len(out) + 1 /\ l \in 1 .. Len(out)
      <4>1. out[l] <= id[c[1]]
        BY <1>2, <2>1, <3>2
      <4> QED
        BY <2>2, <3>2, <4>1
    <3>3. CASE m = Len(out) + 1 /\ l = Len(out) + 1
      BY <2>2, <3>3
    <3> QED
      BY <2>3, <3>1, <3>2, <3>3
  <2>6. \A l \in 1 .. Len(out'), i \in 1 .. n : out'[l] <= id[c[i]]
    BY <1>2, <2>2, <2>3, <2>4
  <2>7. \A l \in 1 .. Len(out') : out'[l] <= nextId'
    BY <1>3, <2>1, <2>2, <2>3, <2>4
  <2> QED
    BY <1>0, <1>1, <1>2, <1>3, <2>5, <2>6, <2>7 DEF Woven, Sorted
<1> QED
  BY <1>4, <1>5

\* A registered frame makes the chain one longer.
LEMMA EnterWoven ==
    ASSUME Typed, Typed', NEW n, NEW c, Woven(n, c), nextId <= nextId',
           NEW f \in Frames, Enters(f)
    PROVE  Woven(n + 1, With1(n, c, n + 1, f))'
<1> USE IdTypes
<1>0. BufferTypeOK /\ n \in Nat /\ c \in [1 .. n -> Frames] /\ status[f] = "NULL"
  BY DEF Typed, TypeOK, Woven, Linked, Enters, Restatus
<1>1. \A i \in 1 .. n : c[i] # f
  BY <1>0 DEF Woven, Members
<1>2. LET d == With1(n, c, n + 1, f) IN Linked(n + 1, d)' /\ (Back(n, c) => Back(n + 1, d)')
  BY <1>0, <1>1, AppendLinks DEF Woven, Enters
<1>3. /\ \A i \in 1 .. (n + 1) - 1 : id[c[i]] <= nextId
      /\ \A l \in 1 .. Len(out) : out[l] <= nextId
      /\ \A i \in n + 1 .. n : nextId <= id[c[i]]
      /\ n + 1 \in 1 .. n + 1 /\ nextId <= nextId
  BY <1>0 DEF Woven, Sorted
<1>4. /\ id' = [id EXCEPT ![f] = nextId] /\ status' = [status EXCEPT ![f] = "EMPTY"]
      /\ UNCHANGED out
  BY DEF Enters, Restatus
<1>5. LET d == With1(n, c, n + 1, f) IN Members(n + 1, d)' /\ Sorted(n + 1, d)'
  BY <1>0, <1>3, <1>4, JoinSorted
<1> QED
  BY <1>2, <1>5 DEF Woven

\* A copy stands behind its frame.
LEMMA CopyWoven ==
    ASSUME Typed, Typed', NEW n, NEW c, Woven(n, c), nextId <= nextId', ~Uncopied,
           NEW p \in Frames, NEW k \in 1 .. n, Copies(c[k], p)
    PROVE  Woven(n + 1, With1(n, c, k + 1, p))'
<1> USE IdTypes
<1>0. BufferTypeOK /\ n \in Nat /\ c \in [1 .. n -> Frames] /\ status[p] = "NULL"
  BY DEF Typed, TypeOK, Woven, Linked, Copies, Restatus
<1>1. \A i \in 1 .. n : c[i] # p
  BY <1>0 DEF Woven, Members
<1>2. Linked(n + 1, With1(n, c, k + 1, p))'
  BY <1>0, <1>1, CopyLinks DEF Woven, Copies
<1>3. /\ \A i \in 1 .. (k + 1) - 1 : id[c[i]] <= id[c[k]]
      /\ \A l \in 1 .. Len(out) : out[l] <= id[c[k]]
      /\ \A i \in k + 1 .. n : id[c[k]] <= id[c[i]]
      /\ k + 1 \in 1 .. n + 1
      /\ id[c[k]] \in Nat /\ id[c[k]] <= nextId
  BY <1>0 DEF Woven, Sorted
<1>4. /\ id' = [id EXCEPT ![p] = id[c[k]]] /\ status' = [status EXCEPT ![p] = "LOCKED"]
      /\ UNCHANGED out
  BY DEF Copies, Restatus
<1>5. LET d == With1(n, c, k + 1, p) IN Members(n + 1, d)' /\ Sorted(n + 1, d)'
  BY <1>0, <1>3, <1>4, JoinSorted
<1> QED
  BY <1>2, <1>5 DEF Woven

\* A frame that leaves makes the chain one shorter.
LEMMA LeaveWoven ==
    ASSUME Typed, Typed', NEW n, NEW c, Woven(n, c), nextId <= nextId',
           NEW k \in 1 .. n, k = 1 \/ Uncopied, Unlink(c[k]), UNCHANGED id,
           status' = [status EXCEPT ![c[k]] = "NULL"],
           out' = out \/ (k = 1 /\ out' = Append(out, id[c[k]]))
    PROVE  Woven(n - 1, Less1(n, c, k))'
<1>1. BufferTypeOK
  BY DEF Typed, TypeOK
<1>2. LET d == Less1(n, c, k) IN Linked(n - 1, d)' /\ (Back(n, c) => Back(n - 1, d)')
  BY <1>1, UnlinkLinks DEF Woven
<1>3. LET d == Less1(n, c, k) IN Members(n - 1, d)' /\ Sorted(n - 1, d)'
  BY LeaveSorted
<1> QED
  BY <1>2, <1>3 DEF Woven

\* Where a chain stays whole: nobody copies, or nobody removes from its middle.
Whole ==
    /\ Uncopied => NobodyAt("IS_CLONED")
    /\ Unremoved => NobodyAt("SKIPPED")

\* A mark no filter sets is on no frame.
Clean == \A m \in {"SKIPPED", "IS_CLONED"} : Unused(m) => Absent(m)

\* No step puts a mark on a frame that no filter puts there.
LEMMA CleanNext == Typed /\ Clean /\ [Next]_vars => Clean'
BY AbsentNext DEF Clean

\* Without filters that set a mark, or without workers, no worker handles it.
LEMMA CleanWhole == Clean => Whole
BY DEF Clean, Whole, Absent, Uncopied, Unremoved, NobodyAt

Chained == \E n, c : Woven(n, c)

\* Every step leaves a chain.
LEMMA SomeChainNext ==
    ASSUME Uncopied \/ Unremoved
    PROVE  Typed /\ Typed' /\ Apart /\ EncoderAtHead /\ Whole /\ Chained /\ [Next]_vars
             => Chained'
<1> SUFFICES ASSUME Typed, Typed', Apart, EncoderAtHead, Whole, [Next]_vars,
                    NEW n, NEW c, Woven(n, c)
             PROVE  (\E m, d : Woven(m, d))'
  BY DEF Chained
<1>0. Passage /\ nextId <= nextId' /\ n \in Nat /\ c \in [1 .. n -> Frames]
  BY NextPasses DEF Woven, Linked
<1>1. CASE Still
  <2>1. Woven(n, c)'
    BY <1>0, <1>1, StayWoven DEF Still
  <2> QED
    BY <2>1
<1>2. CASE \E f \in Frames : Enters(f)
  BY <1>0, <1>2, EnterWoven
<1>3. CASE \E f \in Frames, s \in Status : Advances(f, s)
  <2> PICK f \in Frames, s \in Status : Advances(f, s)
    BY <1>3
  <2>1. \A g \in Frames : status'[g] = "NULL" <=> status[g] = "NULL"
    BY IdTypes DEF Advances, Queue!Flow
  <2>2. Woven(n, c)'
    BY <1>0, <2>1, StayWoven DEF Advances
  <2> QED
    BY <2>2
<1>4. CASE \E f, p \in Frames : Copies(f, p)
  <2> PICK f \in Frames, p \in Frames : Copies(f, p)
    BY <1>4
  <2>1. PICK k \in 1 .. n : c[k] = f
    BY DEF Woven, Members, Copies
  <2>2. ~Uncopied
    BY DEF Copies, Whole, NobodyAt, LinesOf
  <2>3. Woven(n + 1, With1(n, c, k + 1, p))'
    BY <1>0, <2>1, <2>2, CopyWoven
  <2> QED
    BY <2>3
<1>5. CASE \E f \in Frames : Skips(f)
  <2> PICK f \in Frames : Skips(f)
    BY <1>5
  <2>1. PICK k \in 1 .. n : c[k] = f
    BY DEF Woven, Members, Skips, Restatus
  <2>2. Uncopied
    BY DEF Skips, Whole, NobodyAt, LinesOf
  <2>3. Woven(n - 1, Less1(n, c, k))'
    BY <1>0, <2>1, <2>2, LeaveWoven DEF Skips, Restatus
  <2> QED
    BY <2>3
<1>6. CASE Finishes
  <2>1. n > 0 /\ 1 \in 1 .. n /\ head = c[1]
    BY <1>0, <1>6, PointerFacts DEF Finishes, Woven, Linked
  <2>2. CASE Unlink(head) /\ Restatus(head, "READY", "NULL")
    <3>1. Woven(n - 1, Less1(n, c, 1))'
      BY <1>0, <1>6, <2>1, <2>2, LeaveWoven DEF Finishes, Restatus
    <3> QED
      BY <3>1
  <2>3. CASE UNCHANGED <<chain, status>>
    <3>1. Woven(n, c)'
      BY <1>0, <1>6, <2>3, StayWoven DEF Finishes
    <3> QED
      BY <3>1
  <2> QED
    BY <1>6, <2>2, <2>3 DEF Finishes
<1> QED
  BY <1>0, <1>1, <1>2, <1>3, <1>4, <1>5, <1>6 DEF Passage

\* The empty chain.
LEMMA ChainedInit == Init => Chained
<1> SUFFICES ASSUME Init PROVE Woven(0, [i \in 1 .. 0 |-> 0])
  BY DEF Chained
<1>1. /\ head = NoFrame /\ tail = NoFrame /\ out = <<>>
      /\ \A f \in Frames : status[f] = "NULL"
  BY DEF Init, InitFrameBuffer
<1>2. 1 .. 0 = {} /\ Len(out) = 0
  BY <1>1
<1> QED
  BY <1>1, <1>2 DEF Woven, Linked, Members, Sorted, Back

\* What holds of every state, about the chain and the threads at it.
Orderly == Typed /\ Apart /\ EncoderAtHead /\ Clean /\ Chained

\* The invariant of this module is inductive.
LEMMA OrderlyNext ==
    ASSUME Uncopied \/ Unremoved
    PROVE  Orderly /\ [Next]_vars => Orderly'
<1>1. Orderly /\ [Next]_vars => Typed' /\ EncoderAtHead' /\ Clean'
  BY TypedNext, EncoderStaysAtHead, CleanNext DEF Orderly
<1>2. Orderly /\ [Next]_vars => Apart'
  BY NextTransfers, TransferKeepsApart DEF Orderly, Typed, TypeOK
<1>3. Orderly /\ [Next]_vars => Chained'
  BY <1>1, CleanWhole, SomeChainNext DEF Orderly
<1> QED
  BY <1>1, <1>2, <1>3 DEF Orderly

\* It holds in every run in which filters do not both clone and skip.
LEMMA OrderlyAlways == ASSUME Uncopied \/ Unremoved PROVE Spec => []Orderly
<1>1. Init => Apart /\ EncoderAtHead
  BY ThreadFacts DEF Init, InitFrameBuffer, Apart, EncoderAtHead
<1>2. Init => Clean
  BY AbsentInit DEF Clean
<1>3. Init => Orderly
  BY <1>1, <1>2, TypedInit, ChainedInit DEF Orderly
<1> QED
  BY <1>3, OrderlyNext, PTL DEF Spec

\* Where no filter clones, the chain from the head visits the claimed frames, each once,
\* prev inverts next and the tail is the last frame, whatever the workers remove from its
\* middle (LIST_FRAME_APPEND, LIST_FRAME_REMOVE of framebuffer.c).
THEOREM ChainWhole == ASSUME Uncopied PROVE Spec => []ChainOfClaimed
<1>1. ASSUME Orderly PROVE ChainOfClaimed
  <2> PICK n, c : Woven(n, c)
    BY <1>1 DEF Orderly, Chained
  <2>0. n \in Nat /\ n <= Last /\ Last \in Nat
    BY ChainSeen DEF Woven
  <2>1. /\ n \in 0 .. Last /\ n = Cardinality(Frames \ With("NULL"))
        /\ c \in [1 .. n -> Frames]
        /\ \A k \in n .. Last : ChainAt[k] = NoFrame
    BY ChainSeen, ChainLength DEF Woven
  <2>2. \A k \in 0 .. n - 1 : k + 1 \in 1 .. n /\ ChainAt[k] = c[k + 1]
    BY ChainSeen DEF Woven
  <2>3. \A k \in 1 .. n : ChainAt[k - 1] = c[k]
    BY ChainSeen DEF Woven
  <2>4. {ChainAt[k] : k \in 0 .. n - 1} = Frames \ With("NULL")
    <3>1. \A f \in Frames : status[f] # "NULL" <=> \E k \in 1 .. n : c[k] = f
      BY DEF Woven, Members
    <3>2. ASSUME NEW k \in 0 .. n - 1 PROVE ChainAt[k] \in Frames \ With("NULL")
      <4>1. ChainAt[k] = c[k + 1] /\ k + 1 \in 1 .. n
        BY <2>2
      <4>2. c[k + 1] \in Frames
        BY <4>1 DEF Woven, Linked
      <4>3. ChainAt[k] \in Frames
        BY <4>1, <4>2
      <4>4. status[ChainAt[k]] # "NULL"
        BY <3>1, <4>1, <4>3
      <4> QED
        BY <4>3, <4>4 DEF With
    <3>3. ASSUME NEW f \in Frames \ With("NULL") PROVE \E k \in 0 .. n - 1 : ChainAt[k] = f
      <4>1. PICK k \in 1 .. n : c[k] = f
        BY <3>1 DEF With
      <4>2. k - 1 \in 0 .. n - 1 /\ ChainAt[k - 1] = f
        BY <2>0, <2>3, <4>1
      <4> QED
        BY <4>2
    <3> QED
      BY <3>2, <3>3
  <2>5. ChainAt[n] = NoFrame
    <3>1. n \in n .. Last
      BY <2>0
    <3> QED
      BY <2>1, <3>1
  <2>6. tail = IF n = 0 THEN NoFrame ELSE ChainAt[n - 1]
    <3>1. tail = IF n = 0 THEN NoFrame ELSE c[n]
      BY DEF Woven, Linked
    <3>2. n # 0 => n \in 1 .. n
      BY <2>1
    <3> QED
      BY <2>3, <3>1, <3>2
  <2>7. \A k \in 1 .. n : prv[ChainAt[k - 1]] = IF k - 1 = 0 THEN NoFrame
                                                 ELSE ChainAt[(k - 1) - 1]
    <3> TAKE k \in 1 .. n
    <3>1. CASE k = 1
      BY <2>3, <3>1 DEF Woven, Linked
    <3>2. CASE k # 1
      <4>1. k \in 2 .. n /\ k - 1 \in 1 .. n /\ k - 1 # 0
        BY <2>0, <3>2
      <4>2. prv[c[k]] = c[k - 1]
        BY <4>1 DEF Woven, Back
      <4> QED
        BY <2>3, <4>1, <4>2
    <3> QED
      BY <3>1, <3>2
  <2> QED
    BY <2>1, <2>4, <2>5, <2>6, <2>7 DEF ChainOfClaimed
<1> QED
  BY <1>1, OrderlyAlways, PTL

\* The encoder writes the frames in the order they were imported, whatever the filters
\* clone, or whatever they skip, and in whichever order the workers finish.
THEOREM OutputInOrder ==
    ASSUME Uncopied \/ Unremoved PROVE Spec => []EncodedInOrder
<1>1. ASSUME Orderly PROVE EncodedInOrder
  <2> PICK n, c : Woven(n, c)
    BY <1>1 DEF Orderly, Chained
  <2>1. Len(out) \in Nat
    BY <1>1, IdTypes DEF Orderly
  <2>2. \A k, l \in 1 .. Len(out) : k <= l => out[k] <= out[l]
    BY DEF Woven, Sorted
  <2> SUFFICES ASSUME NEW i \in 1 .. Len(out) - 1 PROVE out[i] <= out[i + 1]
    BY DEF EncodedInOrder
  <2>3. i \in 1 .. Len(out) /\ i + 1 \in 1 .. Len(out) /\ i <= i + 1
    BY <2>1
  <2> QED
    BY <2>2, <2>3
<1> QED
  BY <1>1, OrderlyAlways, PTL

\* Where nobody clones and skips both, every frame in use can be reached from the head.
THEOREM NoFrameCutOut ==
    ASSUME Uncopied \/ Unremoved PROVE Spec => []ClaimedInChain
<1>1. ASSUME Orderly PROVE ClaimedInChain
  <2> PICK n, c : Woven(n, c)
    BY <1>1 DEF Orderly, Chained
  <2> SUFFICES ASSUME NEW f \in Frames, status[f] # "NULL"
               PROVE  \E k \in 0 .. Last : ChainAt[k] = f
    BY DEF ClaimedInChain, With
  <2>2. PICK k \in 1 .. n : c[k] = f
    BY DEF Woven, Members
  <2>3. k - 1 \in 0 .. Last /\ ChainAt[k - 1] = f
    BY <2>2, ChainSeen DEF Woven
  <2> QED
    BY <2>3
<1> QED
  BY <1>1, OrderlyAlways, PTL

-----------------------------------------------------------------------------
(* The chain as a queue: every passage is a step of FrameQueue.              *)

\* A sequence with one element doubled.
LEMMA DoubledSeq ==
    ASSUME NEW S, NEW q \in Seq(S), NEW r \in Seq(S), NEW k \in 1 .. Len(q),
           Len(r) = Len(q) + 1, \A i \in 1 .. k : r[i] = q[i],
           \A i \in k + 1 .. Len(r) : r[i] = q[i - 1]
    PROVE  r = SubSeq(q, 1, k) \o SubSeq(q, k, Len(q))
<1>0. Len(q) \in Nat /\ Len(r) \in Nat /\ k \in Nat /\ 1 \in Int /\ k \in Int /\ Len(q) \in Int
  BY LenProperties
<1>1. \A i \in 1 .. Len(q) : q[i] \in S
  BY ElementOfSeq
<1> DEFINE a == SubSeq(q, 1, k)
           b == SubSeq(q, k, Len(q))
<1>2. /\ a \in Seq(S) /\ Len(a) = IF 1 <= k THEN k - 1 + 1 ELSE 0
      /\ \A i \in 1 .. k - 1 + 1 : a[i] = q[1 + i - 1]
  <2>1. \A i \in 1 .. k : q[i] \in S
    BY <1>0, <1>1
  <2> QED
    BY <1>0, <2>1, SubSeqProperties
<1>3. /\ b \in Seq(S) /\ Len(b) = IF k <= Len(q) THEN Len(q) - k + 1 ELSE 0
      /\ \A i \in 1 .. Len(q) - k + 1 : b[i] = q[k + i - 1]
  <2>1. \A i \in k .. Len(q) : q[i] \in S
    BY <1>0, <1>1
  <2> QED
    BY <1>0, <2>1, SubSeqProperties
<1>4. /\ Len(a) = k /\ \A i \in 1 .. k : a[i] = q[i]
      /\ Len(b) = Len(q) - k + 1 /\ \A i \in 1 .. Len(q) - k + 1 : b[i] = q[k + i - 1]
  BY <1>0, <1>2, <1>3
<1> HIDE DEF a, b
<1>5. /\ a \o b \in Seq(S) /\ Len(a \o b) = Len(a) + Len(b)
      /\ \A i \in 1 .. Len(a) + Len(b) : (a \o b)[i] = IF i <= Len(a) THEN a[i]
                                                       ELSE b[i - Len(a)]
  BY <1>2, <1>3, ConcatProperties
<1>6. \A i \in 1 .. Len(r) : r[i] = (a \o b)[i]
  <2> TAKE i \in 1 .. Len(r)
  <2>1. CASE i <= k
    BY <1>0, <1>4, <1>5, <2>1
  <2>2. CASE ~(i <= k)
    <3>1. i - k \in 1 .. Len(q) - k + 1 /\ k + (i - k) - 1 = i - 1 /\ i \in k + 1 .. Len(r)
      BY <1>0, <2>2
    <3>2. b[i - k] = q[i - 1]
      BY <1>4, <3>1
    <3>3. (a \o b)[i] = b[i - k]
      BY <1>0, <1>4, <1>5, <2>2
    <3> QED
      BY <3>1, <3>2, <3>3
  <2> QED
    BY <2>1, <2>2
<1>7. Len(r) = Len(a \o b)
  <2>1. Len(a) + Len(b) = Len(r)
    BY <1>0, <1>4
  <2> QED
    BY <1>5, <2>1
<1>8. r = a \o b
  BY <1>5, <1>6, <1>7, SeqEqual
<1> QED
  BY <1>8 DEF a, b

\* A sequence without one element.
LEMMA ShortenedSeq ==
    ASSUME NEW S, NEW q \in Seq(S), NEW r \in Seq(S), NEW k \in 1 .. Len(q),
           Len(r) = Len(q) - 1, \A i \in 1 .. k - 1 : r[i] = q[i],
           \A i \in k .. Len(r) : r[i] = q[i + 1]
    PROVE  /\ r = SubSeq(q, 1, k - 1) \o SubSeq(q, k + 1, Len(q))
           /\ k = 1 => r = Tail(q)
<1>0. /\ Len(q) \in Nat /\ Len(r) \in Nat /\ k \in Nat /\ 1 \in Int /\ k - 1 \in Int
      /\ k + 1 \in Int /\ Len(q) \in Int
  BY LenProperties
<1>1. \A i \in 1 .. Len(q) : q[i] \in S
  BY ElementOfSeq
<1> DEFINE a == SubSeq(q, 1, k - 1)
           b == SubSeq(q, k + 1, Len(q))
<1>2. /\ a \in Seq(S) /\ Len(a) = IF 1 <= k - 1 THEN (k - 1) - 1 + 1 ELSE 0
      /\ \A i \in 1 .. (k - 1) - 1 + 1 : a[i] = q[1 + i - 1]
  <2>1. \A i \in 1 .. k - 1 : q[i] \in S
    BY <1>0, <1>1
  <2> QED
    BY <1>0, <2>1, SubSeqProperties
<1>3. /\ b \in Seq(S)
      /\ Len(b) = IF k + 1 <= Len(q) THEN Len(q) - (k + 1) + 1 ELSE 0
      /\ \A i \in 1 .. Len(q) - (k + 1) + 1 : b[i] = q[(k + 1) + i - 1]
  <2>1. \A i \in k + 1 .. Len(q) : q[i] \in S
    BY <1>0, <1>1
  <2> QED
    BY <1>0, <2>1, SubSeqProperties
<1>4. /\ Len(a) = k - 1 /\ \A i \in 1 .. k - 1 : a[i] = q[i]
      /\ Len(b) = Len(q) - k /\ \A i \in 1 .. Len(q) - k : b[i] = q[k + i]
  BY <1>0, <1>2, <1>3
<1> HIDE DEF a, b
<1>5. /\ a \o b \in Seq(S) /\ Len(a \o b) = Len(a) + Len(b)
      /\ \A i \in 1 .. Len(a) + Len(b) : (a \o b)[i] = IF i <= Len(a) THEN a[i]
                                                       ELSE b[i - Len(a)]
  BY <1>2, <1>3, ConcatProperties
<1>6. \A i \in 1 .. Len(r) : r[i] = (a \o b)[i]
  <2> TAKE i \in 1 .. Len(r)
  <2>1. CASE i <= k - 1
    BY <1>0, <1>4, <1>5, <2>1
  <2>2. CASE ~(i <= k - 1)
    <3>1. /\ i - (k - 1) \in 1 .. Len(q) - k /\ k + (i - (k - 1)) = i + 1
          /\ i \in k .. Len(r)
      BY <1>0, <2>2
    <3>2. b[i - (k - 1)] = q[i + 1]
      BY <1>4, <3>1
    <3>3. (a \o b)[i] = b[i - (k - 1)]
      BY <1>0, <1>4, <1>5, <2>2
    <3> QED
      BY <3>1, <3>2, <3>3
  <2> QED
    BY <2>1, <2>2
<1>7. Len(r) = Len(a \o b)
  <2>1. Len(a) + Len(b) = Len(r)
    BY <1>0, <1>4
  <2> QED
    BY <1>5, <2>1
<1>8. r = a \o b
  BY <1>5, <1>6, <1>7, SeqEqual
<1>9. ASSUME k = 1 PROVE r = Tail(q)
  <2>1. q # << >>
    BY <1>0
  <2>2. /\ Tail(q) \in Seq(S) /\ Len(Tail(q)) = Len(q) - 1
        /\ \A i \in 1 .. Len(Tail(q)) : Tail(q)[i] = q[i + 1]
    BY <2>1, HeadTailProperties
  <2>3. Len(r) = Len(Tail(q)) /\ \A i \in 1 .. Len(r) : r[i] = Tail(q)[i]
    BY <1>0, <1>9, <2>2
  <2> QED
    BY <2>2, <2>3, SeqEqual
<1> QED
  BY <1>8, <1>9 DEF a, b

Entries == [id : Nat, stage : Status]

\* What the queue shows of a chain.
Seen(n, c) == [i \in 1 .. n |-> [id |-> id[c[i]], stage |-> status[c[i]]]]

\* The queue of the refinement is the chain.
LEMMA ChainMeans ==
    ASSUME NEW n, NEW c, Linked(n, c)
    PROVE  Chain = Seen(n, c)
<1> DEFINE Ends(m) == /\ \A j \in 0 .. m - 1 : ChainAt[j] # NoFrame
                      /\ m < Last => ChainAt[m] = NoFrame
<1>0. /\ n \in Nat /\ n <= Last /\ Last \in Nat /\ NoFrame \notin Frames
      /\ c \in [1 .. n -> Frames]
      /\ \A k \in 1 .. n : ChainAt[k - 1] = c[k]
      /\ \A k \in 0 .. n - 1 : k + 1 \in 1 .. n /\ ChainAt[k] = c[k + 1]
      /\ \A k \in n .. Last : ChainAt[k] = NoFrame
  BY ChainSeen, PointerFacts
<1>1. Ends(n)
  BY <1>0
<1>2. \A m \in 0 .. Last : Ends(m) => m = n
  <2> TAKE m \in 0 .. Last
  <2> HAVE Ends(m)
  <2>1. CASE m < n
    <3>1. m \in 0 .. n - 1 /\ ChainAt[m] \in Frames /\ m < Last
      BY <1>0, <2>1
    <3> QED
      BY <1>0, <3>1
  <2>2. CASE m > n
    <3>1. n \in 0 .. m - 1 /\ n \in n .. Last
      BY <1>0, <2>2
    <3> QED
      BY <1>0, <3>1
  <2> QED
    BY <1>0, <2>1, <2>2
<1>3. n = CHOOSE m \in 0 .. Last : Ends(m)
  <2> HIDE DEF Ends
  <2> QED
    BY <1>0, <1>1, <1>2
<1>4. Chain = [m \in 1 .. n |-> [id |-> id[ChainAt[m - 1]], stage |-> status[ChainAt[m - 1]]]]
  BY <1>3 DEF Chain
<1> QED
  BY <1>0, <1>4 DEF Seen

\* It is a sequence of entries.
LEMMA SeenType ==
    ASSUME Typed, NEW n, NEW c, Linked(n, c)
    PROVE  /\ Seen(n, c) \in Seq(Entries) /\ Len(Seen(n, c)) = n
           /\ n \in Nat /\ \A i \in 1 .. n : Seen(n, c)[i] = [id |-> id[c[i]], stage |-> status[c[i]]]
<1>1. n \in Nat /\ \A i \in 1 .. n : [id |-> id[c[i]], stage |-> status[c[i]]] \in Entries
  BY IdTypes DEF Linked, Entries
<1>2. Seen(n, c) \in [1 .. n -> Entries]
  BY <1>1 DEF Seen
<1> QED
  BY <1>1, <1>2 DEF Seen

\* The chain is a queue of entries, before a step and after it.
LEMMA QueueNow ==
    \A n, c : Typed /\ Linked(n, c) =>
        /\ Chain = Seen(n, c) /\ Chain \in Seq(Entries) /\ Len(Chain) = n /\ n \in Nat
        /\ DOMAIN Chain = 1 .. n
        /\ \A i \in 1 .. n : Chain[i] = [id |-> id[c[i]], stage |-> status[c[i]]]
BY ChainMeans, SeenType DEF Seen

LEMMA QueueThen ==
    (\A n, c : Typed /\ Linked(n, c) =>
        /\ Chain = Seen(n, c) /\ Chain \in Seq(Entries) /\ Len(Chain) = n /\ n \in Nat
        /\ DOMAIN Chain = 1 .. n
        /\ \A i \in 1 .. n : Chain[i] = [id |-> id[c[i]], stage |-> status[c[i]]])'
BY QueueNow, PTL

\* A step that moves no frame leaves the queue as it is.
LEMMA StillQueues ==
    ASSUME Typed, Typed', NEW n, NEW c, Woven(n, c), Woven(n, c)', UNCHANGED <<id, status>>
    PROVE  Chain' = Chain
<1>1. Chain = Seen(n, c) /\ Chain' = Seen(n, c)'
  BY QueueNow, QueueThen DEF Woven
<1> QED
  BY <1>1 DEF Seen

\* The chain fits the ring, in a state and in the next.
LEMMA RoomNow == \A n, c : Linked(n, c) => n \in 0 .. Last
BY ChainShort

LEMMA RoomThen == (\A n, c : Linked(n, c) => n \in 0 .. Last)'
BY RoomNow, PTL

\* A registered frame enters the queue.
LEMMA EnterQueues ==
    ASSUME Typed, Typed', NEW n, NEW c, Woven(n, c), NEW f \in Frames, Enters(f),
           Woven(n + 1, With1(n, c, n + 1, f))'
    PROVE  Queue!Enter
<1> USE IdTypes
<1> DEFINE d == With1(n, c, n + 1, f)
<1>0. /\ n \in Nat /\ c \in [1 .. n -> Frames] /\ status[f] = "NULL"
      /\ \A i \in 1 .. n : c[i] # f /\ id[c[i]] <= nextId
  BY DEF Woven, Linked, Members, Sorted, Enters, Restatus
<1>1. n + 1 <= Last
  BY <1>0, RoomThen, RingAssumption DEF Woven
<1>2. d[n + 1] = f /\ \A i \in 1 .. n : d[i] = c[i]
  BY <1>0 DEF With1
<1> HIDE DEF d
<1>3. /\ Chain \in Seq(Entries) /\ Len(Chain) = n
      /\ \A i \in 1 .. n : Chain[i] = [id |-> id[c[i]], stage |-> status[c[i]]]
  BY QueueNow DEF Woven
<1>4. /\ Chain' \in Seq(Entries) /\ Len(Chain') = n + 1
      /\ \A i \in 1 .. n + 1 : Chain'[i] = [id |-> id'[d[i]], stage |-> status'[d[i]]]
  BY QueueThen DEF Woven, d
<1>5. /\ id'[f] = nextId /\ status'[f] = "EMPTY" /\ UNCHANGED out
      /\ \A i \in 1 .. n : id'[c[i]] = id[c[i]] /\ status'[c[i]] = status[c[i]]
  BY <1>0 DEF Enters, Restatus
<1>6. Chain'[n + 1] = [id |-> nextId, stage |-> "EMPTY"]
  BY <1>0, <1>2, <1>4, <1>5
<1>7. \A i \in 1 .. n : Chain'[i] = Chain[i] /\ Chain[i].id <= nextId
  <2> TAKE i \in 1 .. n
  <2>1. id'[d[i]] = id[c[i]] /\ status'[d[i]] = status[c[i]] /\ i \in 1 .. n + 1
    BY <1>0, <1>2, <1>5
  <2>2. Chain'[i] = Chain[i]
    BY <1>3, <1>4, <2>1
  <2>3. Chain[i].id = id[c[i]]
    BY <1>3
  <2> QED
    BY <1>0, <2>2, <2>3
<1>8. SubSeq(Chain', 1, n) = Chain
  <2> DEFINE r == Chain'
             t == SubSeq(r, 1, n)
  <2>0. \A i \in 1 .. Len(Chain) : Chain[i] \in Entries
    BY <1>3, ElementOfSeq
  <2>1. n \in Int /\ 1 \in Int /\ \A i \in 1 .. n : r[i] \in Entries
    BY <1>0, <1>3, <1>7, <2>0
  <2> HIDE DEF r
  <2>2. /\ t \in Seq(Entries) /\ Len(t) = IF 1 <= n THEN n - 1 + 1 ELSE 0
        /\ \A i \in 1 .. n - 1 + 1 : t[i] = r[1 + i - 1]
    BY <2>1, SubSeqProperties
  <2>3. Len(t) = n /\ \A i \in 1 .. n : t[i] = r[i]
    BY <1>0, <2>2
  <2>4. \A i \in 1 .. n : t[i] = Chain[i]
    BY <1>7, <2>3 DEF r
  <2> HIDE DEF t
  <2>5. t = Chain
    BY <1>3, <2>2, <2>3, <2>4, SeqEqual
  <2> QED
    BY <2>5 DEF t, r
<1>9. Chain'[n + 1].stage = "EMPTY" /\ Chain'[n + 1].id = nextId /\ n < Last
  BY <1>0, <1>1, <1>6, RingAssumption
<1> QED
  BY <1>3, <1>4, <1>5, <1>7, <1>8, <1>9 DEF Queue!Enter

\* A frame that gets a new status advances in the queue.
LEMMA AdvanceQueues ==
    ASSUME Typed, Typed', NEW n, NEW c, Woven(n, c), Woven(n, c)', NEW k \in 1 .. n,
           NEW s, Advances(c[k], s)
    PROVE  k \in DOMAIN Chain /\ Queue!Advance(k)
<1> USE IdTypes
<1>0. /\ n \in Nat /\ c \in [1 .. n -> Frames]
      /\ \A i, j \in 1 .. n : c[i] = c[j] => i = j
  BY DEF Woven, Linked
<1>3. /\ Chain \in Seq(Entries) /\ Len(Chain) = n /\ DOMAIN Chain = 1 .. n
      /\ \A i \in 1 .. n : Chain[i] = [id |-> id[c[i]], stage |-> status[c[i]]]
  BY QueueNow DEF Woven
<1>4. /\ Chain' \in Seq(Entries) /\ Len(Chain') = n
      /\ \A i \in 1 .. n : Chain'[i] = [id |-> id'[c[i]], stage |-> status'[c[i]]]
  BY QueueThen DEF Woven
<1>5. /\ UNCHANGED <<id, out>> /\ status'[c[k]] = s
      /\ \A i \in 1 .. n : i # k => status'[c[i]] = status[c[i]]
  BY <1>0 DEF Advances
<1>6. PICK g \in Queue!Flow : g = <<status[c[k]], s>>
  BY DEF Advances
<1> DEFINE e == [Chain[k] EXCEPT !.stage = s]
           r == [Chain EXCEPT ![k] = e]
<1>7. e = [id |-> id[c[k]], stage |-> s] /\ e \in Entries
  <2>1. s \in Status
    BY <1>6 DEF Queue!Flow, Status
  <2>2. Chain[k] = [id |-> id[c[k]], stage |-> status[c[k]]]
    BY <1>3
  <2>3. e = [id |-> id[c[k]], stage |-> s]
    BY <2>2
  <2>4. c[k] \in Frames /\ id[c[k]] \in Nat
    BY <1>0
  <2> QED
    BY <2>1, <2>3, <2>4 DEF Entries
<1> HIDE DEF e
<1>8. /\ r \in Seq(Entries) /\ Len(r) = n
      /\ \A i \in 1 .. n : r[i] = IF i = k THEN e ELSE Chain[i]
  BY <1>3, <1>7, ExceptSeq
<1>9. \A i \in 1 .. n : r[i] = Chain'[i]
  <2> HIDE DEF r
  <2> TAKE i \in 1 .. n
  <2>1. CASE i = k
    BY <1>4, <1>5, <1>7, <1>8, <2>1
  <2>2. CASE i # k
    <3>1. id'[c[i]] = id[c[i]] /\ status'[c[i]] = status[c[i]]
      BY <1>5, <2>2
    <3> QED
      BY <1>3, <1>4, <1>8, <2>2, <3>1
  <2> QED
    BY <2>1, <2>2
<1>10. Chain' = r
  <2> HIDE DEF r
  <2> QED
    BY <1>4, <1>8, <1>9, SeqEqual
<1>11. g[1] = status[c[k]] /\ g[2] = s
  BY <1>6
<1>12. Chain[k].stage = status[c[k]]
  BY <1>3
<1>13. Chain' = [Chain EXCEPT ![k].stage = g[2]]
  BY <1>10, <1>11 DEF e
<1> QED
  BY <1>3, <1>5, <1>6, <1>11, <1>12, <1>13 DEF Queue!Advance

\* A copied frame is copied in the queue.
LEMMA CopyQueues ==
    ASSUME Typed, Typed', NEW n, NEW c, Woven(n, c), NEW k \in 1 .. n, NEW p \in Frames,
           Copies(c[k], p), Woven(n + 1, With1(n, c, k + 1, p))'
    PROVE  k \in DOMAIN Chain /\ Queue!Copy(k)
<1> USE IdTypes
<1> DEFINE d == With1(n, c, k + 1, p)
<1>0. /\ n \in Nat /\ k \in Nat /\ c \in [1 .. n -> Frames] /\ status[p] = "NULL"
      /\ \A i \in 1 .. n : c[i] # p
  <2> HIDE DEF d
  <2>1. status[p] = "NULL"
    BY DEF Copies, Restatus
  <2>2. n \in Nat /\ c \in [1 .. n -> Frames]
    BY DEF Woven, Linked
  <2>3. \A i \in 1 .. n : c[i] \in Frames /\ status[c[i]] # "NULL"
    BY <2>2 DEF Woven, Members
  <2> QED
    BY <2>1, <2>2, <2>3
<1>1. n < Last
  BY <1>0, RoomThen, RingAssumption DEF Woven
<1>2. /\ d[k + 1] = p /\ \A i \in 1 .. k : d[i] = c[i]
      /\ \A i \in k + 2 .. n + 1 : d[i] = c[i - 1] /\ i - 1 \in 1 .. n
  BY <1>0 DEF With1
<1> HIDE DEF d
<1>3. /\ Chain \in Seq(Entries) /\ Len(Chain) = n /\ DOMAIN Chain = 1 .. n
      /\ \A i \in 1 .. n : Chain[i] = [id |-> id[c[i]], stage |-> status[c[i]]]
  BY QueueNow DEF Woven
<1>4. /\ Chain' \in Seq(Entries) /\ Len(Chain') = n + 1
      /\ \A i \in 1 .. n + 1 : Chain'[i] = [id |-> id'[d[i]], stage |-> status'[d[i]]]
  BY QueueThen DEF Woven, d
<1>5. /\ id'[p] = id[c[k]] /\ status'[p] = status[c[k]] /\ UNCHANGED out
      /\ \A i \in 1 .. n : id'[c[i]] = id[c[i]] /\ status'[c[i]] = status[c[i]]
  BY <1>0 DEF Copies, Restatus
<1>6. \A i \in 1 .. k : Chain'[i] = Chain[i]
  <2> TAKE i \in 1 .. k
  <2>1. i \in 1 .. n /\ i \in 1 .. n + 1 /\ d[i] = c[i]
    BY <1>0, <1>2
  <2> QED
    BY <1>3, <1>4, <1>5, <2>1, SMTT(30)
<1>7. Chain'[k + 1] = Chain[k]
  <2>1. k \in 1 .. n /\ k + 1 \in 1 .. n + 1 /\ d[k + 1] = p
    BY <1>0, <1>2
  <2>2. /\ Chain[k] = [id |-> id[c[k]], stage |-> status[c[k]]]
        /\ Chain'[k + 1] = [id |-> id'[p], stage |-> status'[p]]
    BY <1>3, <1>4, <2>1
  <2> QED
    BY <1>5, <2>2
<1>8. \A i \in k + 2 .. n + 1 : Chain'[i] = Chain[i - 1]
  <2> TAKE i \in k + 2 .. n + 1
  <2>1. i - 1 \in 1 .. n /\ i \in 1 .. n + 1 /\ d[i] = c[i - 1]
    BY <1>0, <1>2
  <2> DEFINE j == i - 1
  <2>2. j \in 1 .. n /\ d[i] = c[j]
    BY <2>1
  <2> HIDE DEF j
  <2>3. id'[d[i]] = id[c[j]] /\ status'[d[i]] = status[c[j]]
    BY <1>5, <2>2
  <2>4. Chain'[i] = [id |-> id'[d[i]], stage |-> status'[d[i]]]
    BY <1>4, <2>1
  <2>5. Chain[j] = [id |-> id[c[j]], stage |-> status[c[j]]]
    BY <1>3, <2>2
  <2> QED
    BY <2>3, <2>4, <2>5 DEF j
<1>9. \A i \in k + 1 .. Len(Chain') : Chain'[i] = Chain[i - 1]
  <2> TAKE i \in k + 1 .. Len(Chain')
  <2>1. (i = k + 1 /\ i - 1 = k) \/ i \in k + 2 .. n + 1
    BY <1>0, <1>4
  <2> QED
    BY <1>7, <1>8, <2>1
<1>10. Chain' = SubSeq(Chain, 1, k) \o SubSeq(Chain, k, Len(Chain))
  BY <1>3, <1>4, <1>6, <1>9, DoubledSeq
<1>11. Chain[k].stage = "LOCKED"
  BY <1>3 DEF Copies
<1> QED
  BY <1>1, <1>3, <1>5, <1>10, <1>11 DEF Queue!Copy

\* A frame that leaves, seen from the queue.
LEMMA LeaveQueues ==
    ASSUME Typed, Typed', NEW n, NEW c, Woven(n, c), NEW k \in 1 .. n, UNCHANGED id,
           status' = [status EXCEPT ![c[k]] = "NULL"],
           Woven(n - 1, Less1(n, c, k))'
    PROVE  /\ k \in DOMAIN Chain /\ Chain # << >>
           /\ Chain[k] = [id |-> id[c[k]], stage |-> status[c[k]]]
           /\ Chain' = SubSeq(Chain, 1, k - 1) \o SubSeq(Chain, k + 1, Len(Chain))
           /\ k = 1 => Chain' = Tail(Chain)
<1> USE IdTypes
<1> DEFINE d == Less1(n, c, k)
<1>0. /\ n \in Nat /\ k \in Nat /\ c \in [1 .. n -> Frames]
      /\ \A i, j \in 1 .. n : c[i] = c[j] => i = j
  BY DEF Woven, Linked
<1>2. /\ \A i \in 1 .. k - 1 : d[i] = c[i] /\ i \in 1 .. n /\ i # k /\ i \in 1 .. n - 1
      /\ \A i \in k .. n - 1 : d[i] = c[i + 1] /\ i + 1 \in 1 .. n /\ i + 1 # k
                               /\ i \in 1 .. n - 1
  BY <1>0 DEF Less1
<1> HIDE DEF d
<1>3. /\ Chain \in Seq(Entries) /\ Len(Chain) = n /\ DOMAIN Chain = 1 .. n
      /\ \A i \in 1 .. n : Chain[i] = [id |-> id[c[i]], stage |-> status[c[i]]]
  BY QueueNow DEF Woven
<1>4. /\ Chain' \in Seq(Entries) /\ Len(Chain') = n - 1
      /\ \A i \in 1 .. n - 1 : Chain'[i] = [id |-> id'[d[i]], stage |-> status'[d[i]]]
  BY QueueThen DEF Woven, d
<1>5. \A i \in 1 .. n : i # k => id'[c[i]] = id[c[i]] /\ status'[c[i]] = status[c[i]]
  BY <1>0
<1>6. \A i \in 1 .. k - 1 : Chain'[i] = Chain[i]
  <2> TAKE i \in 1 .. k - 1
  <2>1. i \in 1 .. n /\ i # k /\ i \in 1 .. n - 1 /\ d[i] = c[i]
    BY <1>2
  <2> QED
    BY <1>3, <1>4, <1>5, <2>1
<1>7. \A i \in k .. Len(Chain') : Chain'[i] = Chain[i + 1]
  <2> TAKE i \in k .. Len(Chain')
  <2>1. i + 1 \in 1 .. n /\ i + 1 # k /\ i \in 1 .. n - 1 /\ d[i] = c[i + 1]
    BY <1>2, <1>4
  <2> QED
    BY <1>3, <1>4, <1>5, <2>1, SMTT(30)
<1>8. /\ Chain' = SubSeq(Chain, 1, k - 1) \o SubSeq(Chain, k + 1, Len(Chain))
      /\ k = 1 => Chain' = Tail(Chain)
  BY <1>3, <1>4, <1>6, <1>7, ShortenedSeq
<1>9. Chain # << >>
  BY <1>0, <1>3
<1> QED
  BY <1>3, <1>8, <1>9

\* Every step of the pipeline is a step of the queue or leaves it alone.
LEMMA NextQueues ==
    ASSUME Uncopied \/ Unremoved
    PROVE  Orderly /\ Orderly' /\ [Next]_vars => [Queue!Step]_<<Chain, out>>
<1> SUFFICES ASSUME Orderly, Orderly', [Next]_vars
             PROVE  Queue!Step \/ (Chain' = Chain /\ out' = out)
  OBVIOUS
<1> PICK n, c : Woven(n, c)
  BY DEF Orderly, Chained
<1>0. /\ Passage /\ nextId <= nextId' /\ Whole /\ Typed /\ Typed'
      /\ n \in Nat /\ c \in [1 .. n -> Frames]
  BY NextPasses, CleanWhole DEF Orderly, Woven, Linked
<1>1. CASE Still
  <2>1. Woven(n, c)'
    BY <1>0, <1>1, StayWoven DEF Still
  <2> QED
    BY <1>0, <1>1, <2>1, StillQueues DEF Still
<1>2. CASE \E f \in Frames : Enters(f)
  BY <1>0, <1>2, EnterWoven, EnterQueues DEF Queue!Step
<1>3. CASE \E f \in Frames, s \in Status : Advances(f, s)
  <2> PICK f \in Frames, s \in Status : Advances(f, s)
    BY <1>3
  <2>1. /\ \A g \in Frames : status'[g] = "NULL" <=> status[g] = "NULL"
        /\ status[f] # "NULL"
    BY <1>0, IdTypes DEF Advances, Queue!Flow
  <2>2. Woven(n, c)'
    BY <1>0, <2>1, StayWoven DEF Advances
  <2>3. PICK k \in 1 .. n : c[k] = f
    BY <2>1 DEF Woven, Members
  <2>4. k \in DOMAIN Chain /\ Queue!Advance(k)
    BY <1>0, <2>2, <2>3, AdvanceQueues
  <2> QED
    BY <2>4 DEF Queue!Step
<1>4. CASE \E f, p \in Frames : Copies(f, p)
  <2> PICK f \in Frames, p \in Frames : Copies(f, p)
    BY <1>4
  <2>1. PICK k \in 1 .. n : c[k] = f
    BY DEF Woven, Members, Copies
  <2>2. ~Uncopied
    BY <1>0 DEF Copies, Whole, NobodyAt, LinesOf
  <2>3. Woven(n + 1, With1(n, c, k + 1, p))'
    BY <1>0, <2>1, <2>2, CopyWoven
  <2>4. k \in DOMAIN Chain /\ Queue!Copy(k)
    BY <1>0, <2>1, <2>3, CopyQueues
  <2> QED
    BY <2>4 DEF Queue!Step
<1>5. CASE \E f \in Frames : Skips(f)
  <2> PICK f \in Frames : Skips(f)
    BY <1>5
  <2>1. PICK k \in 1 .. n : c[k] = f
    BY DEF Woven, Members, Skips, Restatus
  <2>2. Uncopied
    BY <1>0 DEF Skips, Whole, NobodyAt, LinesOf
  <2>3. /\ Unlink(c[k]) /\ status[c[k]] = "LOCKED" /\ UNCHANGED <<id, out>>
        /\ status' = [status EXCEPT ![c[k]] = "NULL"]
    BY <2>1 DEF Skips, Restatus
  <2>4. Woven(n - 1, Less1(n, c, k))'
    BY <1>0, <2>2, <2>3, LeaveWoven
  <2>5. /\ k \in DOMAIN Chain /\ Chain[k] = [id |-> id[c[k]], stage |-> status[c[k]]]
        /\ Chain' = SubSeq(Chain, 1, k - 1) \o SubSeq(Chain, k + 1, Len(Chain))
    BY <1>0, <2>3, <2>4, LeaveQueues
  <2>6. Queue!Discard(k)
    BY <2>3, <2>5 DEF Queue!Discard, Queue!Without
  <2> QED
    BY <2>5, <2>6 DEF Queue!Step
<1>6. CASE Finishes
  <2>1. n > 0 /\ 1 \in 1 .. n /\ head = c[1]
    BY <1>0, <1>6, PointerFacts DEF Finishes, Woven, Linked
  <2>2. Chain # << >> /\ Chain[1] = [id |-> id[c[1]], stage |-> status[c[1]]]
    BY <1>0, <2>1, QueueNow DEF Woven
  <2>3. /\ Chain[1].id = id[head] /\ Chain[1].stage = "READY"
        /\ out' \in {out, Append(out, id[head])} /\ id' = id
    BY <1>6, <2>1, <2>2 DEF Finishes
  <2>4. CASE Unlink(head) /\ Restatus(head, "READY", "NULL")
    <3>1. /\ Unlink(c[1]) /\ UNCHANGED id /\ status' = [status EXCEPT ![c[1]] = "NULL"]
          /\ out' = out \/ (1 = 1 /\ out' = Append(out, id[c[1]]))
      BY <2>1, <2>3, <2>4 DEF Restatus
    <3>2. Woven(n - 1, Less1(n, c, 1))'
      BY <1>0, <2>1, <3>1, LeaveWoven
    <3>3. /\ 1 \in DOMAIN Chain /\ Chain' = Tail(Chain)
          /\ Chain' = SubSeq(Chain, 1, 1 - 1) \o SubSeq(Chain, 1 + 1, Len(Chain))
      BY <1>0, <2>1, <3>1, <3>2, LeaveQueues
    <3>4. CASE out' = out
      <4>1. Queue!Discard(1)
        BY <2>3, <3>3, <3>4 DEF Queue!Discard, Queue!Without
      <4> QED
        BY <3>3, <4>1 DEF Queue!Step
    <3>5. CASE out' = Append(out, id[head])
      BY <2>2, <2>3, <3>3, <3>5 DEF Queue!Step, Queue!Encode
    <3> QED
      BY <2>3, <3>4, <3>5
  <2>5. CASE UNCHANGED <<chain, status>>
    <3>1. Woven(n, c)'
      BY <1>0, <1>6, <2>5, StayWoven DEF Finishes
    <3>2. Chain' = Chain
      BY <1>0, <2>3, <2>5, <3>1, StillQueues
    <3> QED
      BY <2>2, <2>3, <3>2 DEF Queue!Step, Queue!Encode
  <2> QED
    BY <1>6, <2>4, <2>5 DEF Finishes
<1> QED
  BY <1>0, <1>1, <1>2, <1>3, <1>4, <1>5, <1>6 DEF Passage

\* The ring, the links and the statuses implement the bounded queue of FrameQueue: frames
\* enter at the end in the order of their ids, pass through the stages one by one where
\* they stand, and leave for the output from the front only.
THEOREM PipelineIsQueue ==
    ASSUME Uncopied \/ Unremoved PROVE Spec => ImplementsQueue
<1>1. Init => Queue!Empty
  <2> SUFFICES ASSUME Init PROVE Chain = <<>> /\ out = <<>>
    BY DEF Queue!Empty
  <2>1. Linked(0, [i \in 1 .. 0 |-> 0]) /\ Typed /\ out = <<>>
    <3>1. head = NoFrame /\ tail = NoFrame /\ 1 .. 0 = {} /\ out = <<>>
      BY DEF Init, InitFrameBuffer
    <3> QED
      BY <3>1, TypedInit DEF Linked
  <2>2. Chain \in Seq(Entries) /\ Len(Chain) = 0
    BY <2>1, QueueNow
  <2> QED
    BY <2>1, <2>2, EmptySeq
<1> QED
  BY <1>1, NextQueues, OrderlyAlways, PTL DEF Spec, ImplementsQueue, Queue!Spec

-----------------------------------------------------------------------------
(* What a NULL from the ring means.                                         *)

\* A frame that waits is found from the head.
LEMMA WaitingFound == Typed /\ Chained /\ With("WAIT") # {} => WaitingAt # {}
<1> SUFFICES ASSUME Typed, NEW n, NEW c, Woven(n, c), NEW f \in With("WAIT")
             PROVE  WaitingAt # {}
  BY DEF Chained
<1>1. f \in Frames /\ status[f] = "WAIT"
  BY DEF With
<1>2. PICK k \in 1 .. n : c[k] = f
  BY <1>1 DEF Woven, Members
<1>3. k - 1 \in 0 .. Last /\ ChainAt[k - 1] = f
  BY <1>2, ChainSeen DEF Woven
<1> QED
  BY <1>1, <1>3 DEF WaitingAt

\* A worker comes to the line that stops the pool from the reservation only.
LEMMA HaltsAfterReserve ==
    ASSUME Typed, NEW w \in Workers, WorkerStep(w), pc'[w] = "halt"
    PROVE  WorkerReserve(w)
<1>1. pc \in [Threads -> ImporterPC \cup WorkerPC \cup EncoderPC] /\ w \in Threads
  BY ThreadFacts DEF Typed, TypeOK
<1>2. ~WorkerCheck(w)
  BY <1>1 DEF WorkerCheck, Goto
<1>3. ~WorkerHalt(w)
  BY <1>1 DEF WorkerHalt, Goto
<1>4. ~WorkerFrame(w)
  BY <1>1 DEF WorkerFrame, Goto
<1>5. ~WorkerDup(w)
  BY <1>1 DEF WorkerDup, Goto
<1>6. ~WorkerQueue(w)
  BY <1>1 DEF WorkerQueue, Goto
<1>7. ~WorkerPost(w)
  BY <1>1 DEF WorkerPost, Goto
<1>8. ~WorkerPush(w) /\ ~WorkerRemove(w)
  BY <1>1 DEF WorkerPush, WorkerRemove, Goto
<1> QED
  BY <1>2, <1>3, <1>4, <1>5, <1>6, <1>7, <1>8 DEF WorkerStep

\* A worker that stops the pool has seen the interruption.
LEMMA NullNext ==
    Typed /\ Chained /\ CountersExact /\ NullMeansInterrupted /\ [Next]_vars
      => NullMeansInterrupted'
<1> SUFFICES ASSUME Typed, Chained, CountersExact, NullMeansInterrupted, [Next]_vars,
                    NEW w \in Workers, pc'[w] = "halt"
             PROVE  ~Running'
  BY DEF NullMeansInterrupted
<1>1. ASSUME ~WorkerStep(w) PROVE ~Running'
  <2>1. pc[w] = "halt"
    BY <1>1, WorkerAlone
  <2> QED
    BY <2>1, StopsForGood DEF NullMeansInterrupted
<1>2. ASSUME WorkerStep(w) PROVE ~Running'
  <2>1. WorkerReserve(w)
    BY <1>2, HaltsAfterReserve
  <2>0. /\ w \in Threads /\ pc \in [Threads -> ImporterPC \cup WorkerPC \cup EncoderPC]
        /\ cv \in [Threads -> Conditions \cup {"none", "signalled"}]
        /\ cur \in [Threads -> FramePtr] /\ BufferTypeOK
    BY ThreadFacts DEF Typed, TypeOK, BufferTypeOK
  <2>2. pc[w] = "reserve" /\ Reserve(w, Running) /\ AfterClaim(w, "halt", "frame")
        /\ run' = run
    BY <2>1 DEF WorkerReserve, At, control
  <2>3. cv'[w] \notin Conditions /\ cur'[w] = NoFrame
    BY <2>0, <2>2 DEF AfterClaim, Goto
  <2>4. ~Sleep(w, "filter")
    BY <2>0, <2>3 DEF Sleep, Conditions
  <2>5. ~LockWaiting(w)
    <3> SUFFICES ASSUME LockWaiting(w) PROVE FALSE
      OBVIOUS
    <3>1. PICK n \in WaitingAt : Return(w, ChainAt[n])
      BY DEF LockWaiting
    <3> QED
      BY <2>0, <2>3, <3>1, PointerFacts DEF WaitingAt, Return
  <2>6. ASSUME count["WAIT"] # 0 PROVE WaitingAt # {}
    <3>1. count["WAIT"] = Cardinality(With("WAIT"))
      BY DEF CountersExact, Status
    <3>2. With("WAIT") # {}
      BY <2>6, <3>1, FS_EmptySet
    <3> QED
      BY <3>2, WaitingFound
  <2>7. Interrupted(w, Running)
    BY <2>2, <2>4, <2>5, <2>6 DEF Reserve
  <2> QED
    BY <2>2, <2>7 DEF Interrupted, Running
<1> QED
  BY <1>1, <1>2

\* Where no filter clones, a worker that finds no frame, and therefore stops its
\* pool ({a,v}frame_reserve, process_{v,a}frame), was told to stop: a counter never
\* promises a frame the search then misses.
THEOREM NullOnlyWhenStopped ==
    ASSUME Unused("IS_CLONED") PROVE Spec => []NullMeansInterrupted
<1>0. Uncopied
  BY DEF Uncopied
<1>1. Init => NullMeansInterrupted
  BY ThreadFacts DEF Init, NullMeansInterrupted
<1>2. Orderly /\ CountersExact /\ NullMeansInterrupted /\ [Next]_vars => NullMeansInterrupted'
  BY NullNext DEF Orderly
<1>3. Spec => []Orderly
  BY <1>0, OrderlyAlways
<1>4. Spec => []CountersExact
  BY UnclonedCountersExact
<1> QED
  BY <1>1, <1>2, <1>3, <1>4, PTL DEF Spec

-----------------------------------------------------------------------------
(* What a flush leaves.                                                     *)

\* Without workers a frame is unused, with the importer, or ready.
Straight == \A f \in Frames : status[f] \in {"NULL", "READY"} \/ f = cur[Importer]

\* The importer leaves at most the frame it fills in between.
LEMMA StraightImporter ==
    ASSUME Workers = {} PROVE Typed /\ Straight /\ ImporterStep => Straight'
<1> SUFFICES ASSUME Typed, Straight, ImporterStep PROVE Straight'
  OBVIOUS
<1>0. /\ BufferTypeOK /\ Importer \in Threads
      /\ status \in [Frames -> Status] /\ cur \in [Threads -> FramePtr]
  BY ThreadFacts DEF Typed, TypeOK, BufferTypeOK
<1>1. CASE ImportLoop \/ ImportEnd
  BY <1>1 DEF ImportLoop, ImportEnd, fbvars, ring, Straight
<1>2. CASE ImportRegister
  <2>1. cur[Importer] = NoFrame
    BY <1>2 DEF ImportRegister, At, Typed, Held
  <2>2. \A f \in Frames : status[f] \in {"NULL", "READY"}
    BY <2>1, PointerFacts DEF Straight
  <2>3. Register(Importer, nextId, Running, active[Media])
    BY <1>2 DEF ImportRegister
  <2>4. status' = status \/ \E f \in Frames : ClaimEmpty(Importer, nextId, f)
    BY <2>3 DEF Register, Sleep, GiveUp, ring
  <2>5. ASSUME NEW f \in Frames, ClaimEmpty(Importer, nextId, f) PROVE Straight'
    BY <1>0, <2>2, <2>5 DEF ClaimEmpty, Return, Straight
  <2> QED
    BY <2>2, <2>4, <2>5 DEF Straight
<1>3. CASE ImportFill
  <2>1. PushNext(cur[Importer], "READY")
    BY <1>3 DEF ImportFill, AfterImport
  <2> QED
    BY <1>0, <2>1 DEF PushNext, Straight
<1> QED
  BY <1>1, <1>2, <1>3 DEF ImporterStep

\* The encoder and the flush only take frames back.
LEMMA StraightEncoder == Typed /\ Straight /\ EncoderStep => Straight'
<1> SUFFICES ASSUME Typed, Straight, EncoderStep PROVE Straight'
  OBVIOUS
<1>0. /\ BufferTypeOK /\ Importer \in Threads /\ Encoder \in Threads /\ Importer # Encoder
      /\ status \in [Frames -> Status] /\ cur \in [Threads -> FramePtr]
  BY ThreadFacts DEF Typed, TypeOK, BufferTypeOK
<1>1. cur'[Importer] = cur[Importer] /\ (status' = status \/ \E f : RemoveFrame(f))
  <2>1. CASE EncoderCheck \/ NextRange \/ StopAll \/ CancelImport \/ JoinImporter
             \/ CreateImporter \/ PoolStop \/ PoolJoin
    BY <2>1 DEF EncoderCheck, NextRange, StopAll, CancelImport, JoinImporter,
       CreateImporter, PoolStop, PoolJoin, fbvars, ring
  <2>2. CASE StopInterrupt \/ CancelWake
    BY <2>2 DEF StopInterrupt, CancelWake, Interrupt, InterruptImport, ring
  <2>3. CASE EncoderAcquire
    BY <1>0, <2>3 DEF EncoderAcquire, Retrieve, Sleep, GiveUp, Return, ring
  <2>4. CASE EncoderProcess
    BY <1>0, <2>4 DEF EncoderProcess, Drop, Remove, Release, ring
  <2>5. CASE EncoderDispose
    BY <1>0, <2>5 DEF EncoderDispose, Remove, Release, ring
  <2>6. CASE Flush
    BY <2>6 DEF Flush, Remove, fbvars, ring
  <2> QED
    BY <2>1, <2>2, <2>3, <2>4, <2>5, <2>6 DEF EncoderStep
<1> QED
  BY <1>0, <1>1 DEF RemoveFrame, Straight

\* Without workers this is inductive.
LEMMA StraightNext ==
    ASSUME Workers = {} PROVE Typed /\ Straight /\ [Next]_vars => Straight'
<1> SUFFICES ASSUME Typed, Straight, [Next]_vars PROVE Straight'
  OBVIOUS
<1>1. CASE SignalStep \/ Terminated \/ UNCHANGED vars
  BY <1>1 DEF SignalStep, SignalRaise, SignalWake, Interrupt, Terminated, vars, fbvars,
     ring, Straight
<1> QED
  BY <1>1, StraightImporter, StraightEncoder DEF Next

\* Nothing moves a frame while the main thread is about to start the importer.
LEMMA FlushNext ==
    ASSUME Workers = {}
    PROVE  Typed /\ Chained /\ Straight /\ FlushEmpties /\ [Next]_vars => FlushEmpties'
<1> SUFFICES ASSUME Typed, Chained, Straight, FlushEmpties, [Next]_vars,
                    pc'[Encoder] = "create"
             PROVE  \A f \in Frames : status'[f] = "NULL"
  BY DEF FlushEmpties, With
<1>0. /\ Importer \in Threads /\ Encoder \in Threads /\ Importer # Encoder
      /\ pc \in [Threads -> ImporterPC \cup WorkerPC \cup EncoderPC]
  BY ThreadFacts DEF Typed, TypeOK
<1>1. CASE Flush
  <2>1. ~HeadReady /\ status' = status /\ pc[Encoder] = "flush"
    BY <1>1 DEF Flush, fbvars, ring, At
  <2>2. cur[Importer] = NoFrame
    BY <2>1 DEF Typed, MainInOrder, Held
  <2>3. \A f \in Frames : status[f] \in {"NULL", "READY"}
    BY <2>2, PointerFacts DEF Straight
  <2>4. PICK n, c : Woven(n, c)
    BY DEF Chained
  <2>5. n = 0
    <3> SUFFICES ASSUME n # 0 PROVE FALSE
      OBVIOUS
    <3>1. n \in Nat /\ 1 \in 1 .. n /\ head = c[1] /\ c[1] \in Frames
      BY <2>4 DEF Woven, Linked
    <3>2. status[c[1]] # "NULL"
      BY <2>4, <3>1 DEF Woven, Members
    <3> QED
      BY <2>1, <2>3, <3>1, <3>2, PointerFacts DEF HeadReady
  <2> QED
    BY <2>1, <2>4, <2>5 DEF Woven, Members
<1>2. CASE ~Flush
  <2>1. pc[Encoder] = "create" /\ status' = status
    <3>1. CASE ImporterStep
      <4>1. pc'[Encoder] = pc[Encoder]
        BY <1>0, <3>1 DEF ImporterStep, ImportLoop, ImportRegister, ImportFill, ImportEnd,
           AfterClaim, Goto
      <4>2. pc[Importer] = "exit"
        BY <4>1 DEF Typed, MainInOrder
      <4> QED
        BY <3>1, <4>2 DEF ImporterStep, ImportLoop, ImportRegister, ImportFill, ImportEnd, At
    <3>2. CASE EncoderStep
      <4> QED
        BY <1>0, <1>2, <3>2 DEF EncoderStep, EncoderCheck, EncoderAcquire, EncoderProcess,
           EncoderDispose, NextRange, StopAll, StopInterrupt, CancelImport, CancelWake,
           JoinImporter, CreateImporter, PoolStop, PoolJoin, MainStep, AfterClaim, Goto, At
    <3>3. CASE SignalStep \/ Terminated \/ UNCHANGED vars
      BY <3>3 DEF SignalStep, SignalRaise, SignalWake, Interrupt, Terminated, vars, fbvars,
         ring
    <3> QED
      BY <3>1, <3>2, <3>3 DEF Next
  <2> QED
    BY <2>1 DEF FlushEmpties, With
<1> QED
  BY <1>1, <1>2

\* Without frame threads the flush between two ranges ({a,v}frame_flush) leaves no
\* frame of the old range behind, whatever the filters do.
THEOREM FlushLeavesNothing == ASSUME Workers = {} PROVE Spec => []FlushEmpties
<1>0. Uncopied
  BY DEF Uncopied
<1>1. Init => FlushEmpties /\ Straight
  BY ThreadFacts DEF Init, InitFrameBuffer, FlushEmpties, Straight
<1>2. Orderly /\ Straight /\ FlushEmpties /\ [Next]_vars => FlushEmpties' /\ Straight'
  BY FlushNext, StraightNext DEF Orderly
<1>3. Spec => []Orderly
  BY <1>0, OrderlyAlways
<1> QED
  BY <1>1, <1>2, <1>3, PTL DEF Spec
=============================================================================
