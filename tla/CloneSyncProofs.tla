--------------------------- MODULE CloneSyncProofs ---------------------------
(***************************************************************************)
(* The importer follows the log, for every log and every number of frames. *)
(*                                                                         *)
(* The invariant (Follows) says where the log is.  What was read of it and *)
(* not yet used is the end of the list of infos, behind what the openings  *)
(* before left there that never got ready; the ready ones of these infos   *)
(* are as many as buffer_fill_ctr, the one in the importer's hands and the *)
(* one the thread has not counted yet say.  What was used of it was shown, *)
(* but for the repeats still to come.                                      *)
(***************************************************************************)
EXTENDS CloneSync, SequenceLemmas

-----------------------------------------------------------------------------
(* The corrected sequence.                                                  *)

\* The first n frames of the log w, each as often as w says.
Corr(w, n) == FlattenSeq([k \in 1 .. n |-> [j \in 1 .. w[k] |-> k]])

\* It begins empty, and each frame adds its repeats.
LEMMA CorrNext ==
    ASSUME NEW w \in Seq(Nat), NEW n \in 0 .. Len(w) - 1
    PROVE  Corr(w, n + 1) = Corr(w, n) \o [j \in 1 .. w[n + 1] |-> n + 1]
<1> DEFINE a == [k \in 1 .. n |-> [j \in 1 .. w[k] |-> k]]
           b == [k \in 1 .. n + 1 |-> [j \in 1 .. w[k] |-> k]]
<1>1. n \in Nat /\ n + 1 \in 1 .. n + 1 /\ n + 1 \in 1 .. Len(w)
  OBVIOUS
<1>2. Len(a) = n /\ Len(b) = n + 1
  BY <1>1
<1>3. n = 0 => a = <<>>
  OBVIOUS
<1>4. b[n + 1] = [j \in 1 .. w[n + 1] |-> n + 1]
  BY <1>1
<1>5. b[n + 1] \in Seq(Nat)
  <2>1. w[n + 1] \in Nat
    BY <1>1
  <2> HIDE DEF b
  <2> QED
    BY <1>1, <1>4, <2>1
<1>6. \A i \in 1 .. n : a[i] = b[i]
  OBVIOUS
<1>7. Corr(w, n) = FlattenSeq(a) /\ Corr(w, n + 1) = FlattenSeq(b)
  BY DEF Corr
<1> HIDE DEF a, b
<1>8. FlattenSeq(b) = FlattenSeq(a) \o b[n + 1]
  BY <1>1, <1>2, <1>3, <1>5, <1>6, FlattenGrows
<1> QED
  BY <1>4, <1>7, <1>8

LEMMA CorrEmpty ==
    ASSUME NEW w
    PROVE  Corr(w, 0) = <<>>
<1>1. [k \in 1 .. 0 |-> [j \in 1 .. w[k] |-> k]] = <<>>
  OBVIOUS
<1>2. FlattenSeq(<<>>) = <<>>
  BY DEF FlattenSeq
<1> QED
  BY <1>1, <1>2 DEF Corr

\* It is a sequence of frame numbers, and the repeats are at its end.
LEMMA CorrSeq ==
    ASSUME NEW w \in Seq(Nat), NEW n \in 0 .. Len(w)
    PROVE  Corr(w, n) \in Seq(Nat)
<1> DEFINE S == {m \in Nat : m <= Len(w) => Corr(w, m) \in Seq(Nat)}
<1>1. 0 \in S
  <2>1. Corr(w, 0) \in Seq(Nat)
    BY CorrEmpty, EmptySeq
  <2> QED
    BY <2>1
<1>2. ASSUME NEW k \in 0 .. Len(w) - 1, k \in S PROVE k + 1 \in S
  <2>1. Corr(w, k) \in Seq(Nat)
    BY <1>2
  <2>2. Corr(w, k + 1) = Corr(w, k) \o [j \in 1 .. w[k + 1] |-> k + 1]
    BY CorrNext
  <2>3. k + 1 \in Nat /\ w[k + 1] \in Nat
    OBVIOUS
  <2>4. [j \in 1 .. w[k + 1] |-> k + 1] \in Seq(Nat)
    BY <2>3
  <2>5. Corr(w, k + 1) \in Seq(Nat)
    BY <2>1, <2>2, <2>4, ConcatProperties
  <2> QED
    BY <2>5
<1> HIDE DEF S
<1>3. Len(w) \in Nat
  OBVIOUS
<1>4. \A k \in 0 .. Len(w) : k \in S
  BY <1>1, <1>2, <1>3, UpTo
<1> QED
  BY <1>4 DEF S

LEMMA CorrGrows ==
    ASSUME NEW w \in Seq(Nat), NEW n \in 0 .. Len(w) - 1
    PROVE  /\ Corr(w, n) \in Seq(Nat) /\ Corr(w, n + 1) \in Seq(Nat)
           /\ w[n + 1] \in Nat
           /\ Len(Corr(w, n + 1)) = Len(Corr(w, n)) + w[n + 1]
           /\ \A i \in 1 .. Len(Corr(w, n)) : Corr(w, n + 1)[i] = Corr(w, n)[i]
           /\ \A i \in Len(Corr(w, n)) + 1 .. Len(Corr(w, n + 1)) :
                 Corr(w, n + 1)[i] = n + 1
<1> DEFINE u == [j \in 1 .. w[n + 1] |-> n + 1]
           c == Corr(w, n)
<1>1. c \in Seq(Nat) /\ Corr(w, n + 1) \in Seq(Nat)
  BY CorrSeq
<1>2. n + 1 \in Nat /\ w[n + 1] \in Nat
  OBVIOUS
<1>3. u \in Seq(Nat) /\ Len(u) = w[n + 1] /\ \A j \in 1 .. Len(u) : u[j] = n + 1
  BY <1>2
<1>4. Corr(w, n + 1) = c \o u
  BY CorrNext
<1> HIDE DEF c, u
<1>5. /\ Len(c \o u) = Len(c) + Len(u)
      /\ \A i \in 1 .. Len(c) + Len(u) :
            (c \o u)[i] = IF i <= Len(c) THEN c[i] ELSE u[i - Len(c)]
  BY <1>1, <1>3, ConcatProperties
<1>6. Len(c) \in Nat
  BY <1>1
<1>7. ASSUME NEW i \in 1 .. Len(c) PROVE (c \o u)[i] = c[i]
  BY <1>2, <1>3, <1>5, <1>6
<1>8. ASSUME NEW i \in Len(c) + 1 .. Len(c \o u) PROVE (c \o u)[i] = n + 1
  <2>1. i \in 1 .. Len(c) + Len(u) /\ ~(i <= Len(c)) /\ i - Len(c) \in 1 .. Len(u)
    BY <1>2, <1>3, <1>5, <1>6
  <2> QED
    BY <1>3, <1>5, <2>1
<1> QED
  BY <1>1, <1>2, <1>3, <1>4, <1>5, <1>7, <1>8 DEF c

-----------------------------------------------------------------------------
(* The invariant.                                                           *)

Bit(b) == IF b THEN 1 ELSE 0

\* What was read of the log, what of that was not used, and what of that is ready.
Read == Len(whole) - Len(log)
Pending == Read - taken
Ready == Pending - Bit(thread = "ready")

SyncTypeOK ==
    /\ whole \in Seq(Nat) /\ log \in Seq(Nat)
    /\ pipe \in Nat /\ pipe0 \in Nat
    /\ infos \in Seq([adj : Nat, ready : BOOLEAN])
    /\ thread \in {"off", "register", "read", "ready", "count", "gone"}
    /\ importer \in {"closed", "idle", "again", "waiting", "woken", "retrieve",
                     "fread", "ended"}
    /\ fill \in Nat /\ repeat \in Nat /\ taken \in Nat
    /\ reading \in BOOLEAN /\ fiptr \in Int

\* What is left of the log is its end.
LogLeft ==
    /\ Len(log) <= Len(whole)
    /\ \A k \in 1 .. Len(log) : log[k] = whole[Read + k]
    /\ thread = "gone" => Len(log) = 0

\* Behind s items of the openings before the list has what was read and not used;
\* the last item is still empty while the thread is in its read.
Follows(s) ==
    /\ s \in Nat
    /\ Len(infos) = s + Pending + Bit(thread \in {"read", "gone"})
    /\ \A k \in 1 .. Pending : infos[s + k].adj = whole[taken + k]
    /\ ReadyInfos = s + 1 .. s + Ready
    /\ importer = "fread" => fiptr = s + 1
FollowsLog == importer # "closed" => \E s \in Nat : Follows(s)

\* Every ready item is counted, in the importer's hands, or about to be counted.
Counted ==
    importer \notin {"closed", "ended"} =>
       fill + Bit(importer \in {"retrieve", "fread"}) = Ready - Bit(thread = "count")

\* The frames are taken from the pipe, no faster than the log is read.
Taken ==
    /\ pipe0 = pipe + taken
    /\ taken + Bit(thread = "ready") <= Read
    /\ importer = "ended" => taken = Len(whole) \/ (taken = pipe0 /\ taken < Len(whole))

\* The importer waits with nothing counted; the thread's flag is up until it leaves.
Waits ==
    /\ importer = "waiting" => fill = 0
    /\ thread = "off" <=> importer = "closed"
    /\ importer # "closed" =>
          (reading <=> thread \in {"register", "read", "ready", "count"})

\* Only the frame that was taken last is repeated.
Repeats ==
    /\ importer \in {"again", "waiting", "woken", "retrieve", "fread"} => repeat = 0
    /\ repeat > 0 => taken > 0 /\ repeat < whole[taken]

\* What was shown is the corrected sequence, without the repeats to come.
Shown ==
    LET c == Corr(whole, taken)
    IN  /\ shown \in Seq(Nat)
        /\ repeat + Len(shown) = Len(c)
        /\ \A i \in 1 .. Len(shown) : shown[i] = c[i]

SyncInv ==
    clean => /\ SyncTypeOK /\ LogLeft /\ FollowsLog /\ Counted
             /\ Taken /\ Waits /\ Repeats /\ Shown

\* It holds when the importer is opened.
THEOREM SyncStarts == SyncInit => SyncInv
<1> SUFFICES ASSUME SyncInit PROVE SyncInv
  OBVIOUS
<1> USE DEF SyncInit
<1>0. <<>> \in Seq(Nat) /\ Len(<<>>) = 0 /\ infos \in Seq([adj : Nat, ready : BOOLEAN])
  BY EmptySeq
<1>1. SyncTypeOK
  <2>1. whole \in Seq(Nat) /\ log \in Seq(Nat) /\ reading \in BOOLEAN
    BY <1>0
  <2>2. /\ pipe \in Nat /\ pipe0 \in Nat /\ fill \in Nat /\ repeat \in Nat
        /\ taken \in Nat /\ fiptr \in Int
    OBVIOUS
  <2>3. thread = "off" /\ importer = "closed"
    OBVIOUS
  <2> QED
    BY <1>0, <2>1, <2>2, <2>3, Zenon DEF SyncTypeOK
<1>2. LogLeft /\ Taken
  BY <1>0 DEF LogLeft, Taken, Read, Bit
<1>3. FollowsLog /\ Counted /\ Waits /\ Repeats
  BY DEF FollowsLog, Counted, Waits, Repeats
<1>4. Shown
  BY <1>0, CorrEmpty DEF Shown
<1> QED
  BY <1>1, <1>2, <1>3, <1>4 DEF SyncInv

-----------------------------------------------------------------------------
(* The steps of clone_read_thread().                                        *)

\* Numbers the leaves need of the types.
LEMMA SyncNumbers ==
    ASSUME SyncTypeOK
    PROVE  /\ Len(whole) \in Nat /\ Len(log) \in Nat /\ Len(infos) \in Nat
           /\ \A k \in 1 .. Len(whole) : whole[k] \in Nat
           /\ \A k \in 1 .. Len(infos) : infos[k] \in [adj : Nat, ready : BOOLEAN]
           /\ ReadyInfos = {k \in 1 .. Len(infos) : infos[k].ready}
           /\ Read \in Int /\ Pending \in Int /\ Ready \in Int
<1>1. /\ whole \in Seq(Nat) /\ log \in Seq(Nat) /\ taken \in Nat
      /\ infos \in Seq([adj : Nat, ready : BOOLEAN])
  BY DEF SyncTypeOK
<1>2. Len(whole) \in Nat /\ Len(log) \in Nat /\ Len(infos) \in Nat
  BY <1>1
<1>3. Read \in Int
  BY <1>2 DEF Read
<1>4. Pending \in Int
  BY <1>1, <1>3 DEF Pending
<1>5. Ready \in Int
  BY <1>4 DEF Ready, Bit
<1>6. \A k \in 1 .. Len(whole) : whole[k] \in Nat
  BY <1>1
<1>7. \A k \in 1 .. Len(infos) : infos[k] \in [adj : Nat, ready : BOOLEAN]
  BY <1>1, ElementOfSeq
<1>8. DOMAIN infos = 1 .. Len(infos)
  BY <1>1
<1>9. ReadyInfos = {k \in 1 .. Len(infos) : infos[k].ready}
  BY <1>8 DEF ReadyInfos
<1> QED
  BY <1>2, <1>3, <1>4, <1>5, <1>6, <1>7, <1>9

LEMMA RegisterKeeps ==
    ASSUME SyncInv, clean, Register
    PROVE  SyncInv'
<1> USE DEF Register, ReaderOnly
<1>0. /\ SyncTypeOK /\ LogLeft /\ FollowsLog /\ Counted
      /\ Taken /\ Waits /\ Repeats /\ Shown
  BY DEF SyncInv
<1> DEFINE x == [adj |-> 0, ready |-> FALSE]
<1>1. x \in [adj : Nat, ready : BOOLEAN] /\ x.ready = FALSE
  OBVIOUS
<1>2. infos \in Seq([adj : Nat, ready : BOOLEAN])
  BY <1>0 DEF SyncTypeOK
<1>3. infos' = Append(infos, x)
  OBVIOUS
<1> HIDE DEF x
<1>4. /\ infos' \in Seq([adj : Nat, ready : BOOLEAN])
      /\ Len(infos') = Len(infos) + 1
      /\ \A k \in 1 .. Len(infos) : infos'[k] = infos[k]
      /\ infos'[Len(infos) + 1] = x
  BY <1>1, <1>2, <1>3, AppendProperties
<1>5. SyncTypeOK'
  BY <1>0, <1>4 DEF SyncTypeOK
<1>6. LogLeft'
  BY <1>0 DEF LogLeft, Read
<1>7. ReadyInfos' = ReadyInfos
  <2>1. ReadyInfos = {k \in 1 .. Len(infos) : infos[k].ready}
    BY <1>0, SyncNumbers
  <2>2. ReadyInfos' = {k \in 1 .. Len(infos') : infos'[k].ready}
    BY <1>4 DEF ReadyInfos
  <2>3. Len(infos) \in Nat
    BY <1>2
  <2>4. ASSUME NEW k PROVE k \in ReadyInfos' <=> k \in ReadyInfos
    <3>1. CASE k \in 1 .. Len(infos)
      BY <1>4, <2>1, <2>2, <2>3, <3>1
    <3>2. CASE k = Len(infos) + 1
      BY <1>1, <1>4, <2>1, <2>2, <2>3, <3>2
    <3>3. CASE k \notin 1 .. Len(infos) + 1
      BY <1>4, <2>1, <2>2, <2>3, <3>3
    <3> QED
      BY <2>3, <3>1, <3>2, <3>3
  <2> QED
    BY <2>4
<1>8. FollowsLog'
  <2> SUFFICES ASSUME importer # "closed" PROVE \E s \in Nat : Follows(s)'
    BY DEF FollowsLog
  <2>1. PICK s \in Nat : Follows(s)
    BY <1>0 DEF FollowsLog
  <2>2. Pending' = Pending /\ Ready' = Ready
    BY DEF Pending, Ready, Read, Bit
  <2>3. Len(infos) = s + Pending /\ Len(infos') = s + Pending + 1
    BY <1>0, <1>4, <2>1, SyncNumbers DEF Follows, Bit
  <2>4. \A k \in 1 .. Pending : infos'[s + k].adj = whole[taken + k]
    <3> SUFFICES ASSUME NEW k \in 1 .. Pending PROVE infos'[s + k].adj = whole[taken + k]
      OBVIOUS
    <3>1. s + k \in 1 .. Len(infos)
      BY <1>0, <2>3, SyncNumbers
    <3>2. infos'[s + k] = infos[s + k]
      BY <1>4, <3>1
    <3> QED
      BY <2>1, <3>2 DEF Follows
  <2>5. Follows(s)'
    BY <1>7, <2>1, <2>2, <2>3, <2>4 DEF Follows, Bit
  <2> QED
    BY <2>5
<1>9. Counted' /\ Taken' /\ Waits' /\ Repeats'
  BY <1>0 DEF Counted, Taken, Waits, Repeats, Ready, Pending, Read, Bit
<1>10. Shown'
  BY <1>0 DEF Shown
<1> QED
  BY <1>5, <1>6, <1>8, <1>9, <1>10 DEF SyncInv

LEMMA ReadInfoKeeps ==
    ASSUME SyncInv, clean, ReadInfo
    PROVE  SyncInv'
<1> USE DEF ReadInfo, ReaderOnly
<1>0. /\ SyncTypeOK /\ LogLeft /\ FollowsLog /\ Counted
      /\ Taken /\ Waits /\ Repeats /\ Shown
  BY DEF SyncInv
<1>a. importer # "closed"
  BY <1>0 DEF Waits
<1>b. PICK s \in Nat : Follows(s)
  BY <1>0, <1>a DEF FollowsLog
<1>10. Shown' /\ Repeats'
  BY <1>0 DEF Shown, Repeats
<1>1. CASE log = <<>>
  <2>1. Len(log) = 0
    BY <1>1
  <2>2. SyncTypeOK'
    BY <1>0, <1>1 DEF SyncTypeOK
  <2>3. LogLeft'
    BY <1>0, <1>1, <2>1 DEF LogLeft, Read
  <2>4. Follows(s)'
    BY <1>b, <1>1 DEF Follows, Pending, Ready, Read, Bit, ReadyInfos
  <2>5. Counted' /\ Taken' /\ Waits'
    BY <1>0, <1>1 DEF Counted, Taken, Waits, Ready, Pending, Read, Bit
  <2> QED
    BY <2>2, <2>3, <2>4, <2>5, <1>10 DEF SyncInv, FollowsLog
<1>2. CASE log # <<>>
  <2> DEFINE n == Len(infos)
  <2>1. /\ log \in Seq(Nat) /\ Len(log) \in Nat /\ Len(log) > 0
        /\ Len(log') = Len(log) - 1 /\ log' \in Seq(Nat)
        /\ \A k \in 1 .. Len(log) - 1 : log'[k] = log[k + 1]
        /\ Head(log) = log[1] /\ log[1] \in Nat
    <3>1. log \in Seq(Nat)
      BY <1>0 DEF SyncTypeOK
    <3>2. log' = Tail(log)
      BY <1>2
    <3> QED
      BY <1>2, <3>1, <3>2, TailFacts
  <2>2. Read' = Read + 1 /\ Pending' = Pending + 1 /\ Ready' = Ready
    <3>1. Len(whole) \in Nat /\ taken \in Nat
      BY <1>0, SyncNumbers DEF SyncTypeOK
    <3>2. Read' = Read + 1
      BY <2>1, <3>1 DEF Read
    <3>3. Pending' = Pending + 1
      BY <1>0, <3>1, <3>2, SyncNumbers DEF Pending
    <3>4. thread = "read" /\ thread' = "ready"
      BY <1>2
    <3>5. Ready = Pending /\ Ready' = Pending' - 1
      BY <1>0, <3>4, SyncNumbers DEF Ready, Bit
    <3> QED
      BY <1>0, <3>2, <3>3, <3>5, SyncNumbers
  <2>3. n \in Nat /\ Len(infos) = s + Pending + 1 /\ Pending \in Nat
    <3>1. n \in Nat /\ Pending \in Int
      BY <1>0, SyncNumbers
    <3>2. n = s + Pending + 1
      BY <1>b DEF Follows, Bit
    <3>3. Pending >= 0
      BY <1>0, SyncNumbers DEF Taken, Pending, Bit, SyncTypeOK
    <3> QED
      BY <3>1, <3>2, <3>3
  <2>4. infos \in Seq([adj : Nat, ready : BOOLEAN])
    BY <1>0 DEF SyncTypeOK
  <2>5. infos' = [infos EXCEPT ![n].adj = log[1]]
    BY <1>2, <2>1
  <2>6. n \in 1 .. Len(infos) /\ infos[n] \in [adj : Nat, ready : BOOLEAN]
    <3>1. n >= 1
      BY <2>3
    <3>2. n \in 1 .. Len(infos)
      BY <2>3, <3>1
    <3> QED
      BY <1>0, <3>2, SyncNumbers
  <2>6a. infos[n].ready \in BOOLEAN
    BY <2>6
  <2> HIDE DEF n
  <2>7. /\ infos' \in Seq([adj : Nat, ready : BOOLEAN])
        /\ Len(infos') = Len(infos)
        /\ \A k \in 1 .. Len(infos) : k # n => infos'[k] = infos[k]
        /\ infos'[n].adj = log[1] /\ infos'[n].ready = infos[n].ready
    <3> DEFINE y == [infos[n] EXCEPT !.adj = log[1]]
    <3>1. y \in [adj : Nat, ready : BOOLEAN] /\ y.adj = log[1] /\ y.ready = infos[n].ready
      BY <2>1, <2>6
    <3>2. infos' = [infos EXCEPT ![n] = y]
      BY <2>5
    <3> HIDE DEF y
    <3>3. /\ infos' \in Seq([adj : Nat, ready : BOOLEAN])
          /\ Len(infos') = Len(infos)
          /\ \A k \in 1 .. Len(infos) : k # n => infos'[k] = infos[k]
          /\ infos'[n] = y
      BY <2>4, <2>6, <3>1, <3>2, ExceptSeq
    <3> QED
      BY <3>1, <3>3
  <2>8. SyncTypeOK'
    BY <1>0, <1>2, <2>1, <2>7 DEF SyncTypeOK
  <2>9. whole[Read + 1] = log[1] /\ log[1] \in Nat
    <3>1. 1 \in 1 .. Len(log)
      BY <2>1
    <3>2. log[1] = whole[Read + 1]
      BY <1>0, <3>1 DEF LogLeft
    <3> QED
      BY <2>1, <3>2
  <2>10. LogLeft'
    <3>1. ASSUME NEW k \in 1 .. Len(log') PROVE log'[k] = whole[Read' + k]
      <4>0. k \in 1 .. Len(log) - 1
        BY <2>1
      <4>1. k + 1 \in 1 .. Len(log) /\ k \in 1 .. Len(log) - 1
        <5>1. Len(log) \in Nat
          BY <2>1
        <5> QED
          BY <4>0, <5>1
      <4>2. log'[k] = whole[Read + (k + 1)]
        BY <1>0, <2>1, <4>1 DEF LogLeft
      <4>3. Read + (k + 1) = Read' + k
        BY <1>0, <2>2, SyncNumbers
      <4> QED
        BY <4>2, <4>3
    <3> QED
      BY <1>0, <1>2, <2>1, <3>1, SyncNumbers DEF LogLeft
  <2>11. ReadyInfos' = ReadyInfos
    <3>1. ReadyInfos = {k \in 1 .. Len(infos) : infos[k].ready}
      BY <1>0, SyncNumbers
    <3>2. ReadyInfos' = {k \in 1 .. Len(infos) : infos'[k].ready}
      BY <2>7 DEF ReadyInfos
    <3>3. \A k \in 1 .. Len(infos) : infos'[k].ready = infos[k].ready
      BY <2>7
    <3> QED
      BY <3>1, <3>2, <3>3
  <2>12. \A k \in 1 .. Pending + 1 : infos'[s + k].adj = whole[taken + k]
    <3>1. ASSUME NEW k \in 1 .. Pending PROVE infos'[s + k].adj = whole[taken + k]
      <4>1. s + k \in 1 .. Len(infos) /\ s + k # n
        BY <2>3 DEF n
      <4>2. infos'[s + k] = infos[s + k]
        BY <2>7, <4>1
      <4> QED
        BY <1>b, <4>2 DEF Follows
    <3>2. n = s + (Pending + 1) /\ taken + (Pending + 1) = Read + 1
      <4>1. taken \in Nat /\ Read \in Int
        BY <1>0, SyncNumbers DEF SyncTypeOK
      <4>2. taken + Pending = Read
        BY <4>1 DEF Pending
      <4> QED
        BY <2>3, <4>1, <4>2 DEF n
    <3>3. infos'[s + (Pending + 1)].adj = whole[taken + (Pending + 1)]
      BY <2>7, <2>9, <3>2
    <3>4. \A k \in 1 .. Pending + 1 : k \in 1 .. Pending \/ k = Pending + 1
      BY <2>3
    <3> QED
      BY <3>1, <3>3, <3>4
  <2>13. Follows(s)'
    <3>1. ReadyInfos' = s + 1 .. s + Ready'
      BY <1>b, <2>2, <2>11 DEF Follows
    <3>2. Len(infos') = s + Pending'
      BY <2>2, <2>3, <2>7
    <3> QED
      BY <1>b, <1>2, <2>2, <2>3, <2>12, <3>1, <3>2 DEF Follows, Bit
  <2>14. Counted'
    BY <1>0, <1>2, <2>2 DEF Counted, Bit
  <2>15. Taken'
    <3>1. taken \in Nat /\ Read \in Int
      BY <1>0, SyncNumbers DEF SyncTypeOK
    <3>2. taken <= Read
      BY <1>0, <3>1 DEF Taken, Bit
    <3>3. taken + 1 <= Read + 1
      BY <3>1, <3>2
    <3> QED
      BY <1>0, <1>2, <2>2, <3>3 DEF Taken, Bit
  <2>16. Waits'
    BY <1>0, <1>2 DEF Waits
  <2> QED
    BY <2>8, <2>10, <2>13, <2>14, <2>15, <2>16, <1>10 DEF SyncInv, FollowsLog
<1> QED
  BY <1>1, <1>2

LEMMA SetReadyKeeps ==
    ASSUME SyncInv, clean, SetReady
    PROVE  SyncInv'
<1> USE DEF SetReady, ReaderOnly
<1> DEFINE n == Len(infos)
<1>0. /\ SyncTypeOK /\ LogLeft /\ FollowsLog /\ Counted
      /\ Taken /\ Waits /\ Repeats /\ Shown
  BY DEF SyncInv
<1>1. importer # "closed"
  BY <1>0 DEF Waits
<1>2. PICK s \in Nat : Follows(s)
  BY <1>0, <1>1 DEF FollowsLog
<1>3. /\ n \in Nat /\ Pending \in Int /\ Ready \in Int
      /\ infos \in Seq([adj : Nat, ready : BOOLEAN])
  BY <1>0, SyncNumbers DEF SyncTypeOK
<1>4. n = s + Pending /\ Pending >= 1 /\ Ready = Pending - 1
  <2>1. n = s + Pending + 0 /\ Ready = Pending - 1
    BY <1>2 DEF Follows, Bit, Ready
  <2>2. taken + 1 <= Read /\ taken \in Nat /\ Read \in Int
    BY <1>0, SyncNumbers DEF Taken, Bit, SyncTypeOK
  <2> QED
    BY <1>3, <2>1, <2>2 DEF Pending
<1>5. n \in 1 .. Len(infos)
  BY <1>3, <1>4
<1>6. /\ infos' \in Seq([adj : Nat, ready : BOOLEAN])
      /\ Len(infos') = Len(infos)
      /\ \A k \in 1 .. Len(infos) : k # n => infos'[k] = infos[k]
      /\ infos'[n].adj = infos[n].adj /\ infos'[n].ready = TRUE
  <2> DEFINE y == [infos[n] EXCEPT !.ready = TRUE]
  <2>1. infos[n] \in [adj : Nat, ready : BOOLEAN]
    BY <1>3, <1>5, ElementOfSeq
  <2>2. infos' = [infos EXCEPT ![n] = y]
    OBVIOUS
  <2> HIDE DEF n
  <2>3. y \in [adj : Nat, ready : BOOLEAN] /\ y.adj = infos[n].adj /\ y.ready = TRUE
    BY <2>1
  <2> HIDE DEF y
  <2>4. /\ infos' \in Seq([adj : Nat, ready : BOOLEAN])
        /\ Len(infos') = Len(infos)
        /\ \A k \in 1 .. Len(infos) : k # n => infos'[k] = infos[k]
        /\ infos'[n] = y
    <3> DEFINE e == [infos EXCEPT ![n] = y]
    <3>1. /\ e \in Seq([adj : Nat, ready : BOOLEAN]) /\ Len(e) = Len(infos)
          /\ \A j \in 1 .. Len(infos) : e[j] = IF j = n THEN y ELSE infos[j]
      BY <1>3, <1>5, <2>3, ExceptSeq
    <3> HIDE DEF e, SetReady
    <3>2. infos' = e
      BY <2>2 DEF e
    <3> QED
      BY <1>5, <3>1, <3>2
  <2> QED
    BY <2>3, <2>4
<1> HIDE DEF n
<1>7. SyncTypeOK'
  BY <1>0, <1>6 DEF SyncTypeOK
<1>8. LogLeft'
  BY <1>0 DEF LogLeft, Read
<1>9. Pending' = Pending /\ Ready' = Ready + 1 /\ Read' = Read
  <2>1. Pending' = Pending /\ Read' = Read
    BY DEF Pending, Read
  <2>2. Ready' = Pending - 0
    BY <2>1 DEF Ready, Bit
  <2> QED
    BY <1>3, <1>4, <2>1, <2>2
<1>10. ReadyInfos' = ReadyInfos \cup {n}
  <2>1. ReadyInfos = {k \in 1 .. Len(infos) : infos[k].ready}
    BY <1>0, SyncNumbers
  <2>2. ReadyInfos' = {k \in 1 .. Len(infos) : infos'[k].ready}
    BY <1>6 DEF ReadyInfos
  <2>3. ASSUME NEW k PROVE k \in ReadyInfos' <=> k \in ReadyInfos \/ k = n
    BY <1>5, <1>6, <2>1, <2>2
  <2> QED
    BY <2>3
<1>11. Follows(s)'
  <2>1. ReadyInfos' = s + 1 .. s + Ready'
    <3>1. ReadyInfos = s + 1 .. s + Ready
      BY <1>2 DEF Follows
    <3>2. n = s + Ready + 1
      BY <1>3, <1>4
    <3>3. (s + 1 .. s + Ready) \cup {n} = s + 1 .. s + (Ready + 1)
      BY <1>3, <1>4, <3>2
    <3> QED
      BY <1>9, <1>10, <3>1, <3>3
  <2>2. Len(infos') = s + Pending' + 0
    BY <1>3, <1>4, <1>6, <1>9 DEF n
  <2>3. \A k \in 1 .. Pending : infos'[s + k].adj = whole[taken + k]
    <3> SUFFICES ASSUME NEW k \in 1 .. Pending PROVE infos'[s + k].adj = whole[taken + k]
      OBVIOUS
    <3>1. s + k \in 1 .. Len(infos)
      BY <1>3, <1>4 DEF n
    <3>2. infos'[s + k].adj = infos[s + k].adj
      BY <1>6, <3>1
    <3> QED
      BY <1>2, <3>2 DEF Follows
  <2> QED
    BY <1>2, <1>9, <2>1, <2>2, <2>3 DEF Follows, Bit
<1>12. Counted'
  BY <1>0, <1>3, <1>9 DEF Counted, Bit
<1>13. Taken'
  <2>1. taken \in Nat /\ Read \in Int
    BY <1>0, SyncNumbers DEF SyncTypeOK
  <2> QED
    BY <1>0, <1>9, <2>1 DEF Taken, Bit
<1>14. Waits' /\ Repeats' /\ Shown'
  BY <1>0 DEF Waits, Repeats, Shown
<1> QED
  BY <1>7, <1>8, <1>11, <1>12, <1>13, <1>14 DEF SyncInv, FollowsLog

LEMMA CountInfoKeeps ==
    ASSUME SyncInv, clean, CountInfo
    PROVE  SyncInv'
<1> USE DEF CountInfo, ReaderOnly
<1>0. /\ SyncTypeOK /\ LogLeft /\ FollowsLog /\ Counted
      /\ Taken /\ Waits /\ Repeats /\ Shown
  BY DEF SyncInv
<1>1. Pending' = Pending /\ Read' = Read /\ Ready' = Ready /\ ReadyInfos' = ReadyInfos
  BY DEF Pending, Read, Ready, Bit, ReadyInfos
<1>2. SyncTypeOK'
  BY <1>0 DEF SyncTypeOK
<1>3. FollowsLog'
  <2> SUFFICES ASSUME importer' # "closed" PROVE \E s \in Nat : Follows(s)'
    BY DEF FollowsLog
  <2>1. PICK s \in Nat : Follows(s)
    BY <1>0 DEF FollowsLog
  <2>2. Follows(s)'
    BY <1>1, <2>1 DEF Follows, Bit
  <2> QED
    BY <2>2
<1>4. Counted'
  <2> SUFFICES ASSUME importer' \notin {"closed", "ended"}
               PROVE  fill' + Bit(importer' \in {"retrieve", "fread"}) = Ready' - 0
    BY DEF Counted, Bit
  <2>1. fill + Bit(importer \in {"retrieve", "fread"}) = Ready - 1
    BY <1>0 DEF Counted, Bit
  <2>2. Bit(importer' \in {"retrieve", "fread"}) = Bit(importer \in {"retrieve", "fread"})
    BY DEF Bit
  <2>3. Bit(importer \in {"retrieve", "fread"}) \in Int /\ fill \in Int /\ Ready \in Int
    BY <1>0, SyncNumbers DEF Bit, SyncTypeOK
  <2>4. fill' = fill + 1
    OBVIOUS
  <2> QED
    BY <1>1, <2>1, <2>2, <2>3, <2>4
<1>5. LogLeft' /\ Taken' /\ Waits' /\ Repeats' /\ Shown'
  BY <1>0, <1>1 DEF LogLeft, Taken, Waits, Repeats, Shown, Bit
<1> QED
  BY <1>2, <1>3, <1>4, <1>5 DEF SyncInv

-----------------------------------------------------------------------------
(* The steps of clone_frame(), and opening and closing.                     *)

LEMMA RepeatFrameKeeps ==
    ASSUME SyncInv, clean, RepeatFrame
    PROVE  SyncInv'
<1> USE DEF RepeatFrame, ImporterOnly
<1>0. /\ SyncTypeOK /\ LogLeft /\ FollowsLog /\ Counted
      /\ Taken /\ Waits /\ Repeats /\ Shown
  BY DEF SyncInv
<1>1. Pending' = Pending /\ Read' = Read /\ Ready' = Ready /\ ReadyInfos' = ReadyInfos
  BY DEF Pending, Read, Ready, Bit, ReadyInfos
<1>2. SyncTypeOK'
  BY <1>0 DEF SyncTypeOK
<1>3. FollowsLog' /\ Counted' /\ LogLeft' /\ Taken' /\ Waits'
  BY <1>0, <1>1 DEF FollowsLog, Follows, Counted, LogLeft, Taken, Waits, Bit
<1>4. Repeats'
  <2>1. taken \in Nat /\ repeat \in Nat /\ taken > 0 /\ repeat < whole[taken]
    BY <1>0 DEF SyncTypeOK, Repeats
  <2>2. taken \in 1 .. Len(whole)
    BY <1>0, <2>1, SyncNumbers DEF Taken, Bit, LogLeft, Read
  <2>3. whole[taken] \in Nat
    BY <1>0, <2>2, SyncNumbers
  <2> QED
    BY <2>1, <2>3 DEF Repeats
<1>5. Shown'
  <2> DEFINE c == Corr(whole, taken)
             l == Len(shown)
  <2>1. /\ taken \in Nat /\ repeat \in Nat /\ repeat > 0 /\ taken > 0
        /\ repeat < whole[taken] /\ whole \in Seq(Nat)
    BY <1>0 DEF SyncTypeOK, Repeats
  <2>2. taken - 1 \in 0 .. Len(whole) - 1 /\ (taken - 1) + 1 = taken
    BY <1>0, <2>1, SyncNumbers DEF Taken, Bit, LogLeft, Read
  <2>3. /\ Corr(whole, taken - 1) \in Seq(Nat) /\ c \in Seq(Nat) /\ whole[taken] \in Nat
        /\ Len(c) = Len(Corr(whole, taken - 1)) + whole[taken]
        /\ \A i \in Len(Corr(whole, taken - 1)) + 1 .. Len(c) : c[i] = taken
    <3>1. ASSUME NEW p \in 0 .. Len(whole) - 1
          PROVE  /\ Corr(whole, p) \in Seq(Nat) /\ Corr(whole, p + 1) \in Seq(Nat)
                 /\ whole[p + 1] \in Nat
                 /\ Len(Corr(whole, p + 1)) = Len(Corr(whole, p)) + whole[p + 1]
                 /\ \A i \in Len(Corr(whole, p)) + 1 .. Len(Corr(whole, p + 1)) :
                       Corr(whole, p + 1)[i] = p + 1
      BY <2>1, CorrGrows
    <3>2. ASSUME NEW p \in 0 .. Len(whole) - 1, NEW n, p + 1 = n
          PROVE  /\ Corr(whole, p) \in Seq(Nat) /\ Corr(whole, n) \in Seq(Nat)
                 /\ whole[n] \in Nat
                 /\ Len(Corr(whole, n)) = Len(Corr(whole, p)) + whole[n]
                 /\ \A i \in Len(Corr(whole, p)) + 1 .. Len(Corr(whole, n)) :
                       Corr(whole, n)[i] = n
      BY <3>1, <3>2
    <3> QED
      BY <2>2, <3>2
  <2>4. shown \in Seq(Nat) /\ repeat + l = Len(c) /\ \A i \in 1 .. l : shown[i] = c[i]
    BY <1>0 DEF Shown
  <2>5. /\ shown' \in Seq(Nat) /\ Len(shown') = l + 1
        /\ \A i \in 1 .. l : shown'[i] = shown[i]
        /\ shown'[l + 1] = taken
    BY <2>1, <2>4, AppendProperties
  <2>6. Len(Corr(whole, taken - 1)) \in Nat /\ l \in Nat
    BY <2>3, <2>4
  <2> HIDE DEF c, l
  <2>7. c[l + 1] = taken
    <3> DEFINE b == Len(Corr(whole, taken - 1))
    <3>1. /\ b \in Nat /\ Len(c) = b + whole[taken] /\ whole[taken] \in Nat
          /\ Len(c) \in Nat /\ \A i \in b + 1 .. Len(c) : c[i] = taken
      BY <2>3, <2>6
    <3> HIDE DEF b, RepeatFrame
    <3>2. l + 1 \in b + 1 .. Len(c)
      BY <2>1, <2>4, <2>6, <3>1
    <3> QED
      BY <3>1, <3>2
  <2>8. \A i \in 1 .. l + 1 : shown'[i] = c[i]
    BY <2>4, <2>5, <2>6, <2>7
  <2>9. repeat' + (l + 1) = Len(c) /\ Corr(whole', taken') = c
    <3>1. Corr(whole', taken') = c
      BY DEF c
    <3>2. repeat' = repeat - 1
      OBVIOUS
    <3>3. repeat + l = Len(c) /\ repeat \in Nat /\ l \in Nat
      BY <2>1, <2>4, <2>6
    <3> HIDE DEF RepeatFrame
    <3>4. repeat' + (l + 1) = Len(c)
      BY <3>2, <3>3
    <3> QED
      BY <3>1, <3>4
  <2> QED
    BY <2>5, <2>8, <2>9 DEF Shown
<1> QED
  BY <1>2, <1>3, <1>4, <1>5 DEF SyncInv

LEMMA AskInfoKeeps ==
    ASSUME SyncInv, clean, AskInfo
    PROVE  SyncInv'
<1> USE DEF AskInfo, ImporterOnly
<1>0. /\ SyncTypeOK /\ LogLeft /\ FollowsLog /\ Counted
      /\ Taken /\ Waits /\ Repeats /\ Shown
  BY DEF SyncInv
<1>1. Pending' = Pending /\ Read' = Read /\ Ready' = Ready /\ ReadyInfos' = ReadyInfos
  BY DEF Pending, Read, Ready, Bit, ReadyInfos
<1>2. importer \in {"idle", "again", "woken"} /\ repeat = 0
  BY <1>0 DEF Repeats
<1>3. importer' \in {"ended", "waiting", "retrieve"}
  BY DEF AskInfo
<1>4. fill' \in Nat
  BY <1>0 DEF SyncTypeOK
<1>5. SyncTypeOK'
  BY <1>0, <1>3, <1>4 DEF SyncTypeOK
<1>6. FollowsLog'
  <2>1. PICK s \in Nat : Follows(s)
    BY <1>0, <1>2 DEF FollowsLog
  <2>2. Follows(s)'
    BY <1>1, <1>3, <2>1 DEF Follows, Bit
  <2> QED
    BY <2>2 DEF FollowsLog
<1>7. fill + 0 = Ready - Bit(thread = "count")
  BY <1>0, <1>2 DEF Counted, Bit
<1>8. Counted'
  <2>1. Bit(thread' = "count") = Bit(thread = "count") /\ Bit(thread = "count") \in Int
    BY DEF Bit
  <2>2. CASE importer' = "ended"
    BY <2>2 DEF Counted
  <2>3. CASE importer' = "waiting"
    <3>1. fill' = fill
      BY <2>3
    <3> QED
      BY <1>1, <1>7, <2>1, <2>3, <3>1 DEF Counted, Bit
  <2>4. CASE importer' = "retrieve"
    <3>1. fill' = fill - 1 /\ fill \in Nat
      BY <1>0, <2>4 DEF SyncTypeOK
    <3>2. fill' + 1 = Ready' - Bit(thread' = "count")
      BY <1>0, <1>1, <1>7, <2>1, <3>1, SyncNumbers
    <3> QED
      BY <2>4, <3>2 DEF Counted, Bit
  <2> QED
    BY <1>3, <2>2, <2>3, <2>4
<1>9. Taken'
  <2>1. ASSUME importer' = "ended" PROVE taken = Len(whole)
    <3>1. fill = 0 /\ ~reading
      BY <1>0, <2>1 DEF NothingLeft, SyncTypeOK
    <3>2. thread = "gone"
      BY <1>0, <1>2, <3>1 DEF Waits, SyncTypeOK
    <3>3. Ready = 0
      BY <1>0, <1>7, <3>1, <3>2, SyncNumbers DEF Bit
    <3>4. Len(log) = 0 /\ Pending = 0
      BY <1>0, <3>2, <3>3, SyncNumbers DEF Ready, Bit, LogLeft
    <3> QED
      BY <1>0, <3>4, SyncNumbers DEF Pending, Read, SyncTypeOK
  <2> QED
    BY <1>0, <1>1, <2>1 DEF Taken, Bit
<1>10. Waits'
  BY <1>0, <1>2, <1>3 DEF Waits
<1>11. LogLeft' /\ Repeats' /\ Shown'
  BY <1>0, <1>1, <1>2 DEF LogLeft, Repeats, Shown
<1> QED
  BY <1>5, <1>6, <1>8, <1>9, <1>10, <1>11 DEF SyncInv

LEMMA RetrieveKeeps ==
    ASSUME SyncInv, clean, Retrieve
    PROVE  SyncInv'
<1> USE DEF Retrieve, ImporterOnly
<1>0. /\ SyncTypeOK /\ LogLeft /\ FollowsLog /\ Counted
      /\ Taken /\ Waits /\ Repeats /\ Shown
  BY DEF SyncInv
<1>1. Pending' = Pending /\ Read' = Read /\ Ready' = Ready /\ ReadyInfos' = ReadyInfos
  BY DEF Pending, Read, Ready, Bit, ReadyInfos
<1>2. PICK s \in Nat : Follows(s)
  BY <1>0 DEF FollowsLog
<1>3. fiptr' = s + 1
  <2>1. ReadyInfos = s + 1 .. s + Ready /\ Ready \in Int
    BY <1>0, <1>2, SyncNumbers DEF Follows
  <2>2. s + 1 \in ReadyInfos /\ \A y \in ReadyInfos : s + 1 <= y
    BY <2>1
  <2>3. \A x \in ReadyInfos : (\A y \in ReadyInfos : x <= y) => x = s + 1
    BY <2>1, <2>2
  <2> QED
    BY <2>2, <2>3 DEF Min
<1>4. SyncTypeOK'
  BY <1>0, <1>3 DEF SyncTypeOK
<1>5. Follows(s)'
  BY <1>1, <1>2, <1>3 DEF Follows, Bit
<1>6. Counted' /\ LogLeft' /\ Taken' /\ Waits' /\ Repeats' /\ Shown'
  BY <1>0, <1>1 DEF Counted, LogLeft, Taken, Waits, Repeats, Shown, Bit
<1> QED
  BY <1>4, <1>5, <1>6 DEF SyncInv, FollowsLog

LEMMA ReadFrameKeeps ==
    ASSUME SyncInv, clean, ReadFrame
    PROVE  SyncInv'
<1>0. /\ SyncTypeOK /\ LogLeft /\ FollowsLog /\ Counted
      /\ Taken /\ Waits /\ Repeats /\ Shown
  BY DEF SyncInv
<1>1. /\ importer = "fread" /\ fill' = fill /\ whole' = whole /\ log' = log
      /\ pipe0' = pipe0 /\ thread' = thread /\ reading' = reading /\ clean' = clean
  BY DEF ReadFrame, ImporterOnly
<1>2. PICK s \in Nat : Follows(s)
  BY <1>0, <1>1 DEF FollowsLog
<1>3. /\ taken \in Nat /\ Read \in Int /\ Pending \in Int /\ Ready \in Int /\ Read' = Read
      /\ fill \in Nat /\ pipe \in Nat /\ pipe0 \in Nat /\ pipe0 = pipe + taken
      /\ Len(whole) \in Nat /\ Len(infos) \in Nat /\ Len(log) \in Nat /\ repeat = 0
  BY <1>0, <1>1, SyncNumbers DEF SyncTypeOK, Taken, Repeats, Read
<1>4. fill + 1 = Ready - Bit(thread = "count")
  BY <1>0, <1>1 DEF Counted, Bit
<1>5. Ready = Pending - Bit(thread = "ready") /\ Pending = Read - taken
  BY DEF Ready, Pending
<1>6. /\ Bit(thread = "ready") \in 0 .. 1 /\ Bit(thread = "count") \in 0 .. 1
      /\ Bit(thread \in {"read", "gone"}) \in 0 .. 1
  BY DEF Bit
<1>7. Ready >= 1 /\ Pending >= 1 /\ Pending >= Ready /\ taken + 1 + Bit(thread = "ready") <= Read
  BY <1>3, <1>4, <1>5, <1>6
<1>8. taken < Len(whole) /\ Read = Len(whole) - Len(log)
  BY <1>3, <1>7, <1>6 DEF Read
<1>9. LogLeft'
  BY <1>0, <1>1, <1>3 DEF LogLeft
<1>10. CASE pipe = 0
  <2>1. /\ importer' = "ended" /\ pipe' = pipe /\ taken' = taken /\ infos' = infos
        /\ fiptr' = fiptr /\ shown' = shown /\ repeat' = repeat
    BY <1>10 DEF ReadFrame
  <2>2. SyncTypeOK'
    BY <1>0, <1>1, <2>1 DEF SyncTypeOK
  <2>3. Follows(s)'
    BY <1>2, <1>1, <2>1 DEF Follows, Pending, Ready, Read, Bit, ReadyInfos
  <2>4. Taken'
    BY <1>0, <1>1, <1>3, <1>8, <1>10, <2>1 DEF Taken
  <2>5. Counted' /\ Waits' /\ Repeats' /\ Shown'
    BY <1>0, <1>1, <2>1 DEF Counted, Waits, Repeats, Shown
  <2> QED
    BY <1>9, <2>2, <2>3, <2>4, <2>5 DEF SyncInv, FollowsLog
<1>11. CASE pipe # 0
  <2> DEFINE adj == infos[fiptr].adj
  <2>1. /\ pipe' = pipe - 1 /\ taken' = taken + 1 /\ infos' = RemoveAt(infos, fiptr)
        /\ fiptr' = 0 /\ importer' = IF adj = 0 THEN "again" ELSE "idle"
        /\ shown' = IF adj = 0 THEN shown ELSE Append(shown, taken + 1)
        /\ repeat' = IF adj > 1 THEN adj - 1 ELSE repeat
    BY <1>11 DEF ReadFrame
  <2>2. fiptr = s + 1 /\ fiptr \in 1 .. Len(infos)
    <3>1. fiptr = s + 1
      BY <1>1, <1>2 DEF Follows
    <3>2. Len(infos) = s + Pending + Bit(thread \in {"read", "gone"})
      BY <1>2 DEF Follows
    <3> QED
      BY <1>3, <1>6, <1>7, <3>1, <3>2
  <2>3. adj = whole[taken + 1]
    <3>1. 1 \in 1 .. Pending
      BY <1>3, <1>7
    <3> QED
      BY <1>2, <2>2, <3>1 DEF Follows
  <2>4. taken \in 0 .. Len(whole) - 1 /\ taken + 1 \in 1 .. Len(whole) /\ whole \in Seq(Nat)
    BY <1>0, <1>3, <1>8 DEF SyncTypeOK
  <2>5. /\ Corr(whole, taken) \in Seq(Nat) /\ Corr(whole, taken + 1) \in Seq(Nat)
        /\ adj \in Nat
        /\ Len(Corr(whole, taken + 1)) = Len(Corr(whole, taken)) + adj
        /\ \A i \in 1 .. Len(Corr(whole, taken)) :
              Corr(whole, taken + 1)[i] = Corr(whole, taken)[i]
        /\ \A i \in Len(Corr(whole, taken)) + 1 .. Len(Corr(whole, taken + 1)) :
              Corr(whole, taken + 1)[i] = taken + 1
    BY <2>3, <2>4, CorrGrows
  <2>6. infos \in Seq([adj : Nat, ready : BOOLEAN])
    BY <1>0 DEF SyncTypeOK
  <2>7. /\ infos' \in Seq([adj : Nat, ready : BOOLEAN]) /\ Len(infos') = Len(infos) - 1
        /\ \A i \in 1 .. Len(infos) - 1 :
              infos'[i] = IF i < s + 1 THEN infos[i] ELSE infos[i + 1]
    BY <2>1, <2>2, <2>6, Removed
  <2> HIDE DEF adj
  <2>8. SyncTypeOK'
    <3>1. /\ pipe' \in Nat /\ taken' \in Nat /\ repeat' \in Nat /\ fiptr' \in Int
      BY <1>3, <1>11, <2>1, <2>5
    <3>2. importer' \in {"again", "idle"}
      BY <2>1
    <3> QED
      BY <1>0, <1>1, <2>7, <3>1, <3>2 DEF SyncTypeOK
  <2>9. Pending' = Pending - 1 /\ Ready' = Ready - 1
    BY <1>1, <1>3, <1>5, <1>6, <2>1 DEF Pending, Ready
  <2>10. ReadyInfos' = s + 1 .. s + Ready'
    <3>1. ReadyInfos = {k \in 1 .. Len(infos) : infos[k].ready}
      BY <1>0, SyncNumbers
    <3>2. ReadyInfos' = {k \in 1 .. Len(infos) - 1 : infos'[k].ready}
      BY <2>7 DEF ReadyInfos
    <3>3. ReadyInfos = s + 1 .. s + Ready
      BY <1>2 DEF Follows
    <3>4. Len(infos) >= s + Ready
      BY <1>2, <1>3, <1>6, <1>7 DEF Follows
    <3>5. ASSUME NEW k \in 1 .. Len(infos) - 1
          PROVE  k \in ReadyInfos' <=> k \in s + 1 .. s + (Ready - 1)
      <4>1. CASE k < s + 1
        <5>1. infos'[k] = infos[k] /\ k \in 1 .. Len(infos)
          BY <1>3, <2>7, <4>1
        <5>2. k \in ReadyInfos' <=> k \in ReadyInfos
          BY <3>1, <3>2, <5>1
        <5> QED
          BY <1>3, <3>3, <4>1, <5>2
      <4>2. CASE ~(k < s + 1)
        <5>1. infos'[k] = infos[k + 1] /\ k + 1 \in 1 .. Len(infos)
          BY <1>3, <2>7, <4>2
        <5>2. k \in ReadyInfos' <=> k + 1 \in ReadyInfos
          BY <3>1, <3>2, <5>1
        <5> QED
          BY <1>3, <3>3, <4>2, <5>2
      <4> QED
        BY <4>1, <4>2
    <3>6. s + 1 .. s + (Ready - 1) \subseteq 1 .. Len(infos) - 1
      BY <1>3, <3>4
    <3> QED
      BY <2>9, <3>2, <3>5, <3>6
  <2>11. \A k \in 1 .. Pending - 1 : infos'[s + k].adj = whole[(taken + 1) + k]
    <3> SUFFICES ASSUME NEW k \in 1 .. Pending - 1
                 PROVE  infos'[s + k].adj = whole[(taken + 1) + k]
      OBVIOUS
    <3>1. Len(infos) >= s + Pending
      BY <1>2, <1>3, <1>6 DEF Follows
    <3>2. s + k \in 1 .. Len(infos) - 1 /\ ~(s + k < s + 1) /\ (s + k) + 1 = s + (k + 1)
      BY <1>3, <3>1
    <3>3. infos'[s + k] = infos[s + (k + 1)]
      BY <2>7, <3>2
    <3>4. k + 1 \in 1 .. Pending /\ taken + (k + 1) = (taken + 1) + k
      BY <1>3
    <3>5. infos[s + (k + 1)].adj = whole[taken + (k + 1)]
      BY <1>2, <3>4 DEF Follows
    <3> QED
      BY <3>3, <3>4, <3>5
  <2>12. Follows(s)'
    <3>1. Len(infos') = s + (Pending - 1) + Bit(thread \in {"read", "gone"})
      BY <1>2, <1>3, <1>6, <2>7 DEF Follows
    <3>2. importer' # "fread"
      BY <2>1
    <3> QED
      BY <1>1, <2>1, <2>9, <2>10, <2>11, <3>1, <3>2 DEF Follows
  <2>13. importer' \in {"again", "idle"} /\ (importer' = "again" => repeat' = 0)
    BY <1>3, <2>1
  <2>14. Counted'
    <3>1. fill' = Ready' - Bit(thread' = "count")
      BY <1>1, <1>3, <1>4, <1>6, <2>9
    <3>2. fill' \in Nat
      BY <1>1, <1>3
    <3> QED
      BY <2>13, <3>1, <3>2 DEF Counted, Bit
  <2>15. Taken'
    BY <1>1, <1>3, <1>6, <1>7, <2>1, <2>13 DEF Taken
  <2>16. Waits'
    BY <1>0, <1>1, <2>13 DEF Waits
  <2>17. Repeats'
    BY <1>1, <1>3, <2>1, <2>3, <2>5, <2>13 DEF Repeats
  <2>18. Shown'
    <3> DEFINE c == Corr(whole, taken)
               d == Corr(whole, taken + 1)
               l == Len(shown)
    <3>1. /\ c \in Seq(Nat) /\ d \in Seq(Nat) /\ Len(d) = Len(c) + adj
          /\ \A i \in 1 .. Len(c) : d[i] = c[i]
          /\ \A i \in Len(c) + 1 .. Len(d) : d[i] = taken + 1
      BY <2>5
    <3>2. shown \in Seq(Nat) /\ repeat + l = Len(c) /\ \A i \in 1 .. l : shown[i] = c[i]
      BY <1>0 DEF Shown
    <3>3. Corr(whole', taken') = d
      BY <1>1, <2>1
    <3> HIDE DEF c, d, l
    <3>4. Len(c) \in Nat /\ l = Len(c)
      BY <1>3, <3>1, <3>2 DEF l
    <3>5. CASE adj = 0
      <4>1. shown' = shown /\ repeat' = 0 /\ Len(d) = l
        BY <1>3, <2>1, <3>1, <3>4, <3>5
      <4>2. Len(shown) = l
        BY DEF l
      <4> QED
        BY <3>1, <3>2, <3>3, <3>4, <4>1, <4>2 DEF Shown
    <3>6. CASE adj # 0
      <4>1. shown' = Append(shown, taken + 1) /\ repeat' = adj - 1
        BY <1>3, <2>1, <2>5, <3>6
      <4>2. taken + 1 \in Nat
        BY <1>3
      <4>3. /\ shown' \in Seq(Nat) /\ Len(shown') = l + 1
            /\ \A i \in 1 .. l : shown'[i] = shown[i]
            /\ shown'[l + 1] = taken + 1
        BY <3>2, <4>1, <4>2, AppendProperties DEF l
      <4>4. repeat' + Len(shown') = Len(d)
        BY <2>5, <3>1, <3>4, <4>1, <4>3
      <4>5. l + 1 \in Len(c) + 1 .. Len(d)
        BY <2>5, <3>1, <3>4, <3>6
      <4>6. ASSUME NEW i \in 1 .. l + 1 PROVE shown'[i] = d[i]
        <5>1. CASE i = l + 1
          BY <3>1, <4>3, <4>5, <5>1
        <5>2. CASE i # l + 1
          <6>1. i \in 1 .. l
            BY <3>4, <5>2
          <6> QED
            BY <3>1, <3>2, <3>4, <4>3, <6>1
        <5> QED
          BY <5>1, <5>2
      <4> QED
        BY <3>3, <4>3, <4>4, <4>6 DEF Shown
    <3> QED
      BY <3>5, <3>6
  <2> QED
    BY <1>9, <2>8, <2>12, <2>14, <2>15, <2>16, <2>17, <2>18 DEF SyncInv, FollowsLog
<1> QED
  BY <1>10, <1>11

LEMMA SyncOpenKeeps ==
    ASSUME SyncInv, clean, SyncOpen
    PROVE  SyncInv'
<1> SUFFICES ASSUME clean' PROVE SyncInv'
  BY DEF SyncInv
<1>0. /\ SyncTypeOK /\ LogLeft /\ FollowsLog /\ Counted
      /\ Taken /\ Waits /\ Repeats /\ Shown
  BY DEF SyncInv
<1>1. /\ log' = whole' /\ pipe' = pipe0' /\ thread' = "register" /\ reading'
      /\ reading' \in BOOLEAN
      /\ importer' = "idle" /\ taken' = 0 /\ shown' = <<>> /\ fill = 0 /\ repeat = 0
      /\ ReadyInfos = {} /\ infos' = infos /\ fill' = fill /\ fiptr' = fiptr
      /\ repeat' = repeat
  BY DEF SyncOpen
<1>2. whole' \in Seq(Nat) /\ pipe0' \in Nat
  BY SyncAssumption DEF SyncOpen
<1>3. Len(whole') \in Nat
  BY <1>2
<1>4. Read' = 0 /\ Pending' = 0 /\ Ready' = 0
  BY <1>1, <1>3 DEF Read, Pending, Ready, Bit
<1>5. SyncTypeOK'
  BY <1>0, <1>1, <1>2 DEF SyncTypeOK
<1>6. LogLeft'
  BY <1>1, <1>3, <1>4 DEF LogLeft
<1>7. FollowsLog'
  <2>1. Len(infos) \in Nat
    BY <1>0, SyncNumbers
  <2>2. ReadyInfos' = ReadyInfos
    BY <1>1 DEF ReadyInfos
  <2>3. Len(infos) + 1 .. Len(infos) + 0 = {}
    BY <2>1
  <2>4. PICK s \in Nat : s = Len(infos)
    BY <2>1
  <2>5. s + 1 .. s + 0 = {}
    BY <2>3, <2>4
  <2>6. Len(infos') = s + 0 + 0
    BY <1>1, <2>4
  <2>7. Follows(s)'
    BY <1>1, <1>4, <2>2, <2>5, <2>6 DEF Follows, Bit
  <2> QED
    BY <2>7 DEF FollowsLog
<1>8. Counted'
  BY <1>1, <1>4 DEF Counted, Bit
<1>9. Taken'
  <2>1. pipe0' = pipe' + taken'
    <3>1. pipe' = pipe0' /\ taken' = 0 /\ pipe0' \in Nat
      BY <1>1, <1>2
    <3>2. \A p \in Nat : p = p + 0
      OBVIOUS
    <3> QED
      BY <3>1, <3>2, Zenon
  <2> QED
    BY <1>1, <1>4, <2>1 DEF Taken, Bit
<1>10. Waits' /\ Repeats'
  BY <1>1 DEF Waits, Repeats
<1>11. Shown'
  <2>1. Corr(whole', taken') = <<>>
    BY <1>1, CorrEmpty
  <2>2. <<>> \in Seq(Nat) /\ Len(<<>>) = 0
    BY EmptySeq
  <2> QED
    BY <1>1, <2>1, <2>2 DEF Shown
<1> QED
  BY <1>5, <1>6, <1>7, <1>8, <1>9, <1>10, <1>11 DEF SyncInv

LEMMA SyncCloseKeeps ==
    ASSUME SyncInv, clean, SyncClose
    PROVE  SyncInv'
<1> USE DEF SyncClose
<1>0. /\ SyncTypeOK /\ LogLeft /\ FollowsLog /\ Counted
      /\ Taken /\ Waits /\ Repeats /\ Shown
  BY DEF SyncInv
<1>1. SyncTypeOK' /\ LogLeft' /\ FollowsLog' /\ Counted' /\ Shown'
  BY <1>0 DEF SyncTypeOK, LogLeft, FollowsLog, Counted, Shown, Read
<1>2. Taken' /\ Waits' /\ Repeats'
  BY <1>0 DEF Taken, Waits, Repeats, Read, Bit
<1> QED
  BY <1>1, <1>2 DEF SyncInv

-----------------------------------------------------------------------------
(* The theorems.                                                            *)

\* Once an opening began with a rest, clean stays FALSE.
LEMMA SyncStep == SyncInv /\ [SyncNext]_syncvars => SyncInv'
<1> SUFFICES ASSUME SyncInv, [SyncNext]_syncvars PROVE SyncInv'
  OBVIOUS
<1>1. CASE ~clean
  <2>1. ~clean'
    BY <1>1 DEF SyncNext, syncvars, SyncOpen, SyncClose, Register, ReadInfo, SetReady,
                CountInfo, RepeatFrame, AskInfo, Retrieve, ReadFrame, ReaderOnly,
                ImporterOnly
  <2> QED
    BY <2>1 DEF SyncInv
<1>2. CASE clean /\ SyncNext
  BY <1>2, SyncOpenKeeps, SyncCloseKeeps, RegisterKeeps, ReadInfoKeeps, SetReadyKeeps,
     CountInfoKeeps, RepeatFrameKeeps, AskInfoKeeps, RetrieveKeeps, ReadFrameKeeps
     DEF SyncNext
<1>3. CASE clean /\ UNCHANGED syncvars
  <2> USE <1>3 DEF syncvars
  <2>1. /\ SyncTypeOK /\ LogLeft /\ FollowsLog /\ Counted
        /\ Taken /\ Waits /\ Repeats /\ Shown
    BY DEF SyncInv
  <2>2. SyncTypeOK' /\ LogLeft' /\ Counted' /\ Shown'
    BY <2>1 DEF SyncTypeOK, LogLeft, Counted, Shown, Read, Pending, Ready
  <2>3. FollowsLog' /\ Taken' /\ Waits' /\ Repeats'
    BY <2>1 DEF FollowsLog, Follows, Taken, Waits, Repeats, Read, Pending, Ready, ReadyInfos
  <2> QED
    BY <2>2, <2>3 DEF SyncInv
<1> QED
  BY <1>1, <1>2, <1>3

\* What the invariant says of what the importer showed, where it ended, and of
\* its waits.
THEOREM SyncFollows == SyncInv => FramesFollowLog
<1> SUFFICES ASSUME SyncInv, clean
             PROVE  /\ taken <= Len(whole)
                    /\ repeat + Len(shown) = Len(Corrected(taken))
                    /\ IsPrefix(shown, Corrected(taken))
                    /\ importer = "ended" => taken = Min({Len(whole), pipe0})
                    /\ importer = "retrieve" => ReadyInfos # {}
                    /\ importer = "waiting" => fill = 0
                    /\ importer = "waiting" /\ thread = "gone" => taken = Len(whole)
  BY DEF FramesFollowLog
<1>0. /\ SyncTypeOK /\ LogLeft /\ FollowsLog /\ Counted
      /\ Taken /\ Waits /\ Repeats /\ Shown
  BY DEF SyncInv
<1>1. /\ Len(whole) \in Nat /\ Len(log) \in Nat /\ taken \in Nat /\ Read \in Int
      /\ pipe0 \in Nat /\ pipe \in Nat /\ Ready \in Int /\ fill \in Nat
      /\ whole \in Seq(Nat) /\ repeat \in Nat
  BY <1>0, SyncNumbers DEF SyncTypeOK
<1>2. taken <= Read /\ Read = Len(whole) - Len(log) /\ taken <= Len(whole)
  BY <1>0, <1>1 DEF Taken, Bit, Read
<1>3. Corrected(taken) = Corr(whole, taken)
  BY DEF Corrected, Corr
<1>4. /\ repeat + Len(shown) = Len(Corrected(taken))
      /\ IsPrefix(shown, Corrected(taken))
  <2> DEFINE c == Corr(whole, taken)
  <2>1. shown \in Seq(Nat) /\ repeat + Len(shown) = Len(c)
        /\ \A i \in 1 .. Len(shown) : shown[i] = c[i]
    BY <1>0 DEF Shown
  <2>2. c \in Seq(Nat)
    <3>1. taken \in 0 .. Len(whole)
      BY <1>1, <1>2
    <3> QED
      BY <1>1, <3>1, CorrSeq
  <2> HIDE DEF c
  <2>3. Len(shown) <= Len(c)
    <3>1. Len(shown) \in Nat /\ Len(c) \in Nat
      BY <2>1, <2>2
    <3> QED
      BY <1>1, <2>1, <3>1
  <2>4. IsPrefix(shown, c)
    BY <2>1, <2>2, <2>3, PrefixOf
  <2> QED
    BY <1>3, <2>1, <2>4 DEF c
<1>5. ASSUME importer = "ended" PROVE taken = Min({Len(whole), pipe0})
  <2> DEFINE S == {Len(whole), pipe0}
  <2>1. taken \in S /\ \A y \in S : taken <= y
    BY <1>0, <1>1, <1>2, <1>5 DEF Taken
  <2>2. \A x \in S : (\A y \in S : x <= y) => x = taken
    BY <1>1, <2>1
  <2> QED
    BY <2>1, <2>2 DEF Min
<1>6. ASSUME importer = "retrieve" PROVE ReadyInfos # {}
  <2>1. PICK s \in Nat : Follows(s)
    BY <1>0, <1>6 DEF FollowsLog
  <2>2. fill + 1 = Ready - Bit(thread = "count") /\ Bit(thread = "count") \in 0 .. 1
    BY <1>0, <1>6 DEF Counted, Bit
  <2>3. Ready >= 1
    BY <1>1, <2>2
  <2>4. s + 1 \in ReadyInfos
    BY <1>1, <2>1, <2>3 DEF Follows
  <2> QED
    BY <2>4
<1>7. ASSUME importer = "waiting", thread = "gone" PROVE taken = Len(whole)
  <2>1. fill = 0 /\ Len(log) = 0
    BY <1>0, <1>7 DEF Waits, LogLeft
  <2>2. fill + 0 = Ready - 0 /\ Ready = Pending - 0
    BY <1>0, <1>7 DEF Counted, Bit, Ready
  <2>3. Pending = Read - taken
    BY DEF Pending
  <2> QED
    BY <1>0, <1>1, <1>2, <2>1, <2>2, <2>3, SyncNumbers
<1> QED
  BY <1>0, <1>2, <1>4, <1>5, <1>6, <1>7 DEF Waits

\* For every log and every number of frames the importer shows the frames as the
\* log says, stops early only where log or decoder end, finds an item for every
\* count and waits in vain only when the log has ended, unless an opening began
\* with a rest of the one before.
THEOREM SyncFramesFollowLog == SyncSpec => []FramesFollowLog
<1>1. SyncInit => SyncInv
  BY SyncStarts
<1>2. SyncInv /\ [SyncNext]_syncvars => SyncInv'
  BY SyncStep
<1>3. SyncInv => FramesFollowLog
  BY SyncFollows
<1> QED
  BY <1>1, <1>2, <1>3, PTL DEF SyncSpec
=============================================================================
