---------------------------- MODULE ClusterProofs ----------------------------
(***************************************************************************)
(* The cluster mode, for any number of slaves, length of chunks and        *)
(* frames, whatever fails.                                                 *)
(*                                                                         *)
(* The balancer, with and without overtaking.  A slave that is listed as   *)
(* free (an ENDTASK waits at the master) is one of the set Freed: its      *)
(* chunk is complete, the table p_used_tid has it, nothing is on the way   *)
(* to it and its encoder is unloaded.  What carries this is the order of   *)
(* one sender's messages: the restart that ends a chunk is the last        *)
(* message of the master that a slave has not received.                    *)
(*                                                                         *)
(* The merger, without overtaking.  The destination holds all frames in    *)
(* their order because the order to join comes after every file: the       *)
(* slaves announce a file before they pass the token of MOD_close, and     *)
(* the master gives the order when the token is back.  So the invariant    *)
(* follows the token (a slave it has passed is Calm), the mails (what may  *)
(* stand before what: Before), and the chunks, whose frames are partly on  *)
(* their way (Coming) and partly in files the merger knows or is being     *)
(* told of (Parts).                                                        *)
(***************************************************************************)
EXTENDS Cluster, SequenceLemmas, FiniteSetTheorems

-----------------------------------------------------------------------------
(* Types.                                                                   *)

Orders == Casts \cup {"encode", "first-free", "run", "over"}
Tags == {"CONF", "WORK", "RING", "JOIN", "ENDTASK", "REPLY"}
Options == Casts \cup {"join_init", "run", "encode", "restart1", "restart2", "",
                     "add_elab", "add_remove"}
Message == [from : Tasks, tag : Tags, opt : Options, seq : Int, body : Int]
SlaveState == [first : BOOLEAN, loaded : BOOLEAN, able : BOOLEAN, ready : BOOLEAN,
               ring : Int, rc : Int, files : Seq(Seq(Int))]
Boxes == [Tasks -> Seq(Message)]

ClusterTypeOK ==
    /\ mail \in Boxes
    /\ order \in Orders
    /\ sendSeq \in Int /\ castSeq \in Int
    /\ chunk \in Nat /\ inChunk \in Nat /\ given \in Nat
    /\ current \in Slaves /\ used \in [Slaves -> Int]
    /\ slave \in [Slaves -> SlaveState]
    /\ elab \in Seq([seq : Int, file : Int]) /\ erase \subseteq Int

LEMMA TaskFacts ==
    /\ Master \in Tasks /\ Merger \in Tasks /\ Slaves \subseteq Tasks
    /\ Master \in Int /\ Merger \in Int /\ Slaves \subseteq Int /\ NoTask \in Int
    /\ Master \notin Slaves /\ Merger \notin Slaves /\ Master # Merger
    /\ NoTask < 0 /\ NProc \in Nat /\ NProc > 0
BY NProcAssumption DEF Master, Merger, Slaves, Tasks, NoTask

LEMMA TagFacts ==
    /\ "CONF" \in Tags /\ "WORK" \in Tags /\ "RING" \in Tags /\ "JOIN" \in Tags
    /\ "ENDTASK" \in Tags /\ "REPLY" \in Tags
    /\ "join_init" \in Options /\ "run" \in Options /\ "encode" \in Options
    /\ "restart1" \in Options /\ "restart2" \in Options /\ "" \in Options
    /\ "add_elab" \in Options /\ "add_remove" \in Options
    /\ Casts \subseteq Options
    /\ 0 \in Int /\ 1 \in Int /\ -1 \in Int
<1>1. /\ "CONF" \in Tags /\ "WORK" \in Tags /\ "RING" \in Tags /\ "JOIN" \in Tags
      /\ "ENDTASK" \in Tags /\ "REPLY" \in Tags
  BY DEF Tags
<1>2. /\ "join_init" \in Options /\ "run" \in Options /\ "encode" \in Options
      /\ "restart1" \in Options /\ "restart2" \in Options
      /\ "add_elab" \in Options /\ "add_remove" \in Options
  BY DEF Options
<1>3. "" \in Options
  BY DEF Options
<1>4. Casts \subseteq Options
  BY DEF Options
<1>5. 0 \in Int /\ 1 \in Int /\ -1 \in Int
  OBVIOUS
<1> QED
  BY <1>1, <1>2, <1>3, <1>4, <1>5

\* A message put behind the others.
LEMMA Posted ==
    ASSUME NEW box \in Boxes, NEW to \in Tasks, NEW m \in Message
    PROVE  /\ Post(box, to, m) \in Boxes
           /\ \A t \in Tasks : t # to => Post(box, to, m)[t] = box[t]
           /\ Post(box, to, m)[to] = Append(box[to], m)
<1>1. box[to] \in Seq(Message)
  BY DEF Boxes
<1>2. Append(box[to], m) \in Seq(Message)
  BY <1>1, AppendProperties
<1>3. Post(box, to, m) = [t \in Tasks |-> IF t = to THEN Append(box[to], m) ELSE box[t]]
  BY DEF Post, Boxes
<1> QED
  BY <1>2, <1>3 DEF Boxes

\* A message taken out.
LEMMA TakenOut ==
    ASSUME mail \in Boxes, NEW t \in Tasks, NEW i \in DOMAIN mail[t]
    PROVE  /\ Taken(t, i) \in Boxes
           /\ \A u \in Tasks : u # t => Taken(t, i)[u] = mail[u]
           /\ Taken(t, i)[t] = RemoveAt(mail[t], i)
           /\ mail[t] \in Seq(Message) /\ i \in 1 .. Len(mail[t]) /\ mail[t][i] \in Message
<1>1. mail[t] \in Seq(Message)
  BY DEF Boxes
<1>2. i \in 1 .. Len(mail[t])
  BY <1>1
<1>3. RemoveAt(mail[t], i) \in Seq(Message)
  BY <1>1, <1>2, Removed
<1>4. Taken(t, i) = [u \in Tasks |-> IF u = t THEN RemoveAt(mail[t], i) ELSE mail[u]]
  BY DEF Taken, Boxes
<1>5. mail[t][i] \in Message
  BY <1>1, <1>2, ElementOfSeq
<1> QED
  BY <1>1, <1>2, <1>3, <1>4, <1>5 DEF Boxes

LEMMA MsgType ==
    ASSUME NEW f \in Tasks, NEW tag \in Tags, NEW opt \in Options, NEW q \in Int, NEW b \in Int
    PROVE  /\ Msg(f, tag, opt, q, b) \in Message
           /\ Msg(f, tag, opt, q, b).from = f /\ Msg(f, tag, opt, q, b).tag = tag
           /\ Msg(f, tag, opt, q, b).opt = opt /\ Msg(f, tag, opt, q, b).seq = q
           /\ Msg(f, tag, opt, q, b).body = b
BY DEF Msg, Message

\* The least of a set is one of it.
LEMMA MinLeast ==
    ASSUME NEW S \in SUBSET Nat, S # {}
    PROVE  Min(S) \in S /\ \A y \in S : Min(S) <= y
BY LeastNatural DEF Min

LEMMA CandidateIn ==
    ASSUME current \in Slaves
    PROVE  Candidate \in Slaves
<1>0. NProc \in Nat /\ NProc > 0 /\ current \in 0 .. NProc - 1
  BY TaskFacts DEF Slaves
<1> DEFINE start == (current + 1) % NProc
           S == {t \in start .. current : t = current \/ used[t] = NoTask}
<1>1. start \in 0 .. NProc - 1
  BY <1>0
<1>2. CASE start >= current
  BY <1>1, <1>2 DEF Candidate, Slaves
<1>3. CASE ~(start >= current)
  <2> HIDE DEF start
  <2>1. S \in SUBSET Nat /\ current \in S /\ S \subseteq Slaves
    BY <1>0, <1>1, <1>3 DEF Slaves
  <2>2. Min(S) \in S
    <3> HIDE DEF S
    <3> QED
      BY <2>1, MinLeast
  <2>3. Candidate = Min(S)
    BY <1>3 DEF Candidate, start
  <2> QED
    BY <2>1, <2>2, <2>3
<1> QED
  BY <1>2, <1>3

\* The number of a file.
LEMMA FileNumber ==
    ASSUME NEW n \in Int, NEW s \in Int, NProc \in Int
    PROVE  n * NProc + s \in Int
OBVIOUS

\* The steps of the master.
LEMMA MasterTypes ==
    ASSUME ClusterTypeOK, MasterStep
    PROVE  ClusterTypeOK'
<1> USE TaskFacts
<1>0. /\ mail \in Boxes /\ order \in Orders /\ sendSeq \in Int /\ castSeq \in Int
      /\ chunk \in Nat /\ inChunk \in Nat /\ given \in Nat
      /\ current \in Slaves /\ used \in [Slaves -> Int]
      /\ slave \in [Slaves -> SlaveState]
      /\ elab \in Seq([seq : Int, file : Int]) /\ erase \subseteq Int
  BY DEF ClusterTypeOK
<1>1. CASE MultiSend
  <2> DEFINE m == Msg(Master, "CONF", order, castSeq', 0)
  <2>1. castSeq' \in Int /\ order \in Options
    <3>1. castSeq' = castSeq + 1 /\ order \in Casts
      BY <1>1 DEF MultiSend
    <3>2. castSeq \in Int
      BY <1>0
    <3>3. castSeq' \in Int
      BY <3>1, <3>2
    <3>4. order \in Options
      BY <3>1, TagFacts
    <3> QED
      BY <3>3, <3>4
  <2>2. m \in Message
    BY <2>1, MsgType, TagFacts, TaskFacts
  <2>3. mail' = [t \in Tasks |-> IF t \in Slaves THEN Append(mail[t], m) ELSE mail[t]]
    BY <1>1 DEF MultiSend
  <2> HIDE DEF m
  <2>4. mail' \in Boxes
    <3>1. ASSUME NEW t \in Tasks PROVE Append(mail[t], m) \in Seq(Message)
          /\ mail[t] \in Seq(Message)
      <4>1. mail[t] \in Seq(Message)
        BY <1>0 DEF Boxes
      <4> QED
        BY <2>2, <4>1, AppendProperties
    <3> QED
      BY <2>3, <3>1 DEF Boxes
  <2> QED
    BY <1>0, <1>1, <2>1, <2>4 DEF MultiSend, ClusterTypeOK, mergervars
<1>2. CASE MultiSent
  <2>1. PICK i \in Receivable(Master, LAMBDA m : m.tag = "RING" /\ m.seq = castSeq) :
          LET failed == mail[Master][i].body = -1 /\ order # "stop"
          IN /\ mail' = IF failed THEN Taken(Master, i)
                        ELSE ToMerger(Taken(Master, i))
             /\ order' = IF failed THEN "over" ELSE FollowingCast[order]
             /\ awaiting' = (order' = "run")
             /\ sendSeq' = IF ~failed /\ order \in {"init", "close"}
                           THEN sendSeq + 1 ELSE sendSeq
    BY <1>2 DEF MultiSent
  <2>2. i \in DOMAIN mail[Master]
    BY DEF Receivable
  <2>3. Taken(Master, i) \in Boxes
    BY <1>0, <2>2, TakenOut
  <2>4. ASSUME NEW box \in Boxes PROVE ToMerger(box) \in Boxes
    <3>1. sendSeq + 1 \in Int
      BY <1>0
    <3>2. /\ Msg(Master, "WORK", "join_init", sendSeq + 1, 0) \in Message
          /\ Msg(Master, "WORK", "run", sendSeq + 1, 0) \in Message
      BY <3>1, MsgType, TagFacts, TaskFacts
    <3>3. /\ Post(box, Merger, Msg(Master, "WORK", "join_init", sendSeq + 1, 0)) \in Boxes
          /\ Post(box, Merger, Msg(Master, "WORK", "run", sendSeq + 1, 0)) \in Boxes
      BY <3>2, Posted
    <3> QED
      BY <3>3 DEF ToMerger
  <2>5. mail' \in Boxes
    BY <2>1, <2>3, <2>4
  <2>6. order' \in Orders
    <3>1. order \in Casts
      BY <1>2 DEF MultiSent
    <3>2. FollowingCast[order] \in Orders
      BY <3>1 DEF FollowingCast, Orders, Casts
    <3> QED
      BY <2>1, <3>2 DEF Orders
  <2>7. sendSeq' \in Int
    BY <1>0, <2>1
  <2> QED
    BY <1>0, <1>2, <2>5, <2>6, <2>7 DEF MultiSent, ClusterTypeOK, mergervars
<1>3. CASE HandOver
  <2> DEFINE m == Msg(Master, "WORK", "encode", chunk, given')
             n == Msg(Master, "WORK", "restart1", chunk, 0)
  <2>1. given' \in Nat /\ sendSeq' \in Int /\ used' \in [Slaves -> Int]
    BY <1>0, <1>3 DEF HandOver
  <2>2. m \in Message /\ n \in Message
    <3>1. chunk \in Int /\ given' \in Int
      BY <1>0, <2>1
    <3> QED
      BY <3>1, MsgType, TagFacts, TaskFacts
  <2>3. mail' = Post(mail, current, m) \/ mail' = Post(Post(mail, current, m), current, n)
    BY <1>3 DEF HandOver
  <2>4. order' \in Orders /\ inChunk' \in Nat
    BY <1>0, <1>3 DEF HandOver, Orders
  <2> HIDE DEF m, n
  <2>5. mail' \in Boxes
    BY <1>0, <2>2, <2>3, Posted
  <2> QED
    BY <1>0, <1>3, <2>1, <2>4, <2>5 DEF HandOver, ClusterTypeOK, mergervars
<1>4. ASSUME NEW t \in Slaves, NEW box \in Boxes, Restart(t, box) PROVE ClusterTypeOK'
  <2> DEFINE m == Msg(Master, "WORK", "restart2", chunk + 1, 0)
  <2>1. m \in Message
    <3>1. chunk + 1 \in Int
      BY <1>0
    <3> QED
      BY <3>1, MsgType, TagFacts, TaskFacts
  <2>2. mail' = Post(box, t, m)
    BY <1>4 DEF Restart
  <2> HIDE DEF m
  <2>3. mail' \in Boxes
    BY <2>1, <2>2, <1>4, Posted
  <2>4. sendSeq' \in Int /\ chunk' \in Nat /\ inChunk' \in Nat /\ current' \in Slaves
        /\ order' \in Orders
    BY <1>0, <1>4 DEF Restart, Orders
  <2> QED
    BY <1>0, <1>4, <2>3, <2>4 DEF Restart, ClusterTypeOK, mergervars
<1>5. CASE TakeUnused
  BY <1>0, <1>4, <1>5, CandidateIn DEF TakeUnused
<1>6. CASE TakeEnded
  <2>1. PICK i \in Receivable(Master, LAMBDA m : m.tag = "ENDTASK") :
          /\ WhoHad(mail[Master][i].seq) # {}
          /\ Restart(Min(WhoHad(mail[Master][i].seq)), Taken(Master, i))
    BY <1>6 DEF TakeEnded
  <2>2. i \in DOMAIN mail[Master]
    BY DEF Receivable
  <2>3. Taken(Master, i) \in Boxes
    BY <1>0, <2>2, TakenOut
  <2>4. WhoHad(mail[Master][i].seq) \in SUBSET Nat
    BY DEF WhoHad, Slaves
  <2>5. Min(WhoHad(mail[Master][i].seq)) \in Slaves
    BY <2>1, <2>4, MinLeast DEF WhoHad
  <2> QED
    BY <1>4, <2>1, <2>3, <2>5
<1>7. CASE CloseCodec
  <2> DEFINE m == Msg(Master, "WORK", "restart1", sendSeq', 0)
  <2>1. sendSeq' \in Int /\ order' \in Orders
    BY <1>0, <1>7 DEF CloseCodec, Orders, Casts
  <2>2. m \in Message
    BY <2>1, MsgType, TagFacts, TaskFacts
  <2>3. mail' = Post(mail, current, m)
    BY <1>7 DEF CloseCodec
  <2> HIDE DEF m
  <2>4. mail' \in Boxes
    BY <1>0, <2>2, <2>3, Posted
  <2> QED
    BY <1>0, <1>7, <2>1, <2>4 DEF CloseCodec, ClusterTypeOK, mergervars
<1>8. CASE MergerDone
  <2>1. PICK i \in Receivable(Master, LAMBDA m : m.tag = "REPLY" /\ m.seq = sendSeq) :
          /\ order' = IF mail[Master][i].body # 0 THEN "over" ELSE "stop"
          /\ mail' = Taken(Master, i)
    BY <1>8 DEF MergerDone
  <2>2. i \in DOMAIN mail[Master]
    BY DEF Receivable
  <2>3. mail' \in Boxes
    BY <1>0, <2>1, <2>2, TakenOut
  <2>4. order' \in Orders
    BY <2>1 DEF Orders, Casts
  <2> QED
    BY <1>0, <1>8, <2>3, <2>4 DEF MergerDone, ClusterTypeOK, mergervars
<1> QED
  BY <1>1, <1>2, <1>3, <1>5, <1>6, <1>7, <1>8 DEF MasterStep

\* The steps of a slave.
LEMMA SlaveTypes ==
    ASSUME ClusterTypeOK, NEW s \in Slaves, SlaveStep(s)
    PROVE  ClusterTypeOK'
<1> USE TaskFacts
<1>0. /\ mail \in Boxes /\ order \in Orders /\ sendSeq \in Int /\ castSeq \in Int
      /\ chunk \in Nat /\ inChunk \in Nat /\ given \in Nat
      /\ current \in Slaves /\ used \in [Slaves -> Int]
      /\ slave \in [Slaves -> SlaveState]
      /\ elab \in Seq([seq : Int, file : Int]) /\ erase \subseteq Int
  BY DEF ClusterTypeOK
<1>a. s \in Tasks /\ s \in Int /\ Following(s) \in Tasks
  <2>1. s \in 0 .. NProc - 1 /\ NProc \in Nat /\ NProc > 0
    BY DEF Slaves
  <2>2. (s + 1) % NProc \in 0 .. NProc - 1
    BY <2>1
  <2> QED
    BY <2>2 DEF Following, Slaves
<1>b. /\ slave[s] \in SlaveState
      /\ Len(slave[s].files) \in Nat /\ slave[s].files \in Seq(Seq(Int))
      /\ slave[s].rc \in Int /\ slave[s].ring \in Int
  BY <1>0 DEF SlaveState
<1>c. NextFile(s) \in Int /\ CurrentFile(s) \in Int
  <2>1. Len(slave[s].files) \in Int /\ Len(slave[s].files) - 1 \in Int
    BY <1>b
  <2>2. NProc \in Int
    BY NProcAssumption
  <2>3. /\ Len(slave[s].files) * NProc + s \in Int
        /\ (Len(slave[s].files) - 1) * NProc + s \in Int
    BY <1>a, <2>1, <2>2, FileNumber
  <2> QED
    BY <2>3 DEF NextFile, CurrentFile, FileOf
<1>d. ASSUME NEW i \in DOMAIN mail[s]
      PROVE  /\ Taken(s, i) \in Boxes /\ mail[s][i] \in Message
             /\ mail[s][i].seq \in Int /\ mail[s][i].body \in Int
  <2>1. Taken(s, i) \in Boxes /\ mail[s][i] \in Message
    BY <1>0, <1>a, TakenOut
  <2> QED
    BY <2>1 DEF Message
<1>e. ASSUME NEW box \in Boxes, NEW rc \in Int PROVE EnterRing(s, rc, box) \in Boxes
  <2>1. Msg(s, "RING", "", 0, rc) \in Message
    BY <1>a, MsgType, TagFacts
  <2>2. Post(box, Following(s), Msg(s, "RING", "", 0, rc)) \in Boxes
    BY <1>a, <2>1, Posted
  <2> QED
    BY <2>2 DEF EnterRing
<1>f. ASSUME NEW box \in Boxes, NEW q \in Int PROVE Report(s, q, box) \in Boxes
  <2>1. Msg(s, "REPLY", "", q, -1) \in Message
    BY <1>a, MsgType, TagFacts
  <2> QED
    BY <2>1, Posted DEF Report
<1>g. ASSUME NEW box \in Boxes, NEW opt \in {"add_remove", "add_elab"},
             NEW q \in Int, NEW file \in Int
      PROVE  Post(box, Merger, Msg(s, "JOIN", opt, q, file)) \in Boxes
  <2>1. opt \in Options /\ "JOIN" \in Tags
    BY TagFacts
  <2>2. Msg(s, "JOIN", opt, q, file) \in Message
    BY <1>a, <2>1, MsgType
  <2> QED
    BY <2>2, Posted
<1>h. ASSUME UNCHANGED <<mastervars, mergervars>>, mail' \in Boxes,
             slave' \in [Slaves -> SlaveState]
      PROVE  ClusterTypeOK'
  BY <1>0, <1>h DEF ClusterTypeOK, mastervars, mergervars
<1>1. CASE Discard(s)
  <2>1. PICK i \in Receivable(s, LAMBDA m : TRUE) : mail' = Taken(s, i)
    BY <1>1 DEF Discard
  <2>2. i \in DOMAIN mail[s]
    BY DEF Receivable
  <2>3. mail' \in Boxes /\ UNCHANGED <<mastervars, mergervars>> /\ slave' = slave
    BY <1>1, <1>d, <2>1, <2>2 DEF Discard
  <2> QED
    BY <1>0, <1>h, <2>3
<1>2. CASE Configure(s)
  <2>0. PICK i \in DOMAIN mail[s] : \E rc \in {0} \cup Refusals(s, mail[s][i].opt) :
          /\ slave' = [slave EXCEPT ![s] = Carried(s, mail[s][i], rc)]
          /\ mail' = EnterRing(s, rc,
                        IF mail[s][i].opt = "open" /\ rc = 0
                        THEN Post(Taken(s, i), Merger,
                                  Msg(s, "JOIN", "add_remove", mail[s][i].seq, NextFile(s)))
                        ELSE Taken(s, i))
    BY <1>2 DEF Configure
  <2>1. PICK rc \in {0} \cup Refusals(s, mail[s][i].opt) :
          /\ slave' = [slave EXCEPT ![s] = Carried(s, mail[s][i], rc)]
          /\ mail' = EnterRing(s, rc,
                        IF mail[s][i].opt = "open" /\ rc = 0
                        THEN Post(Taken(s, i), Merger,
                                  Msg(s, "JOIN", "add_remove", mail[s][i].seq, NextFile(s)))
                        ELSE Taken(s, i))
    BY <2>0
  <2>2. rc \in Int
    BY DEF Refusals
  <2>3. mail' \in Boxes
    BY <1>c, <1>d, <1>e, <1>g, <2>1, <2>2
  <2>4. Carried(s, mail[s][i], rc) \in SlaveState
    <3>1. mail[s][i].seq \in Int
      BY <1>d
    <3>2. <<>> \in Seq(Int)
      BY EmptySeq
    <3>3. Append(slave[s].files, <<>>) \in Seq(Seq(Int))
      BY <1>b, <3>2, AppendProperties
    <3> QED
      BY <1>b, <2>2, <3>1, <3>3 DEF Carried, SlaveState
  <2>5. slave' \in [Slaves -> SlaveState]
    BY <1>0, <2>1, <2>4
  <2> QED
    BY <1>2, <1>h, <2>3, <2>5 DEF Configure
<1>3. CASE PassToken(s)
  <2>1. PICK i \in Receivable(s, LAMBDA m : m.tag = "RING" /\ m.from = Preceding(s)) :
          LET rc == mail[s][i].body
          IN mail' = IF s = 0
                     THEN Post(Taken(s, i), Master, Msg(s, "RING", "", slave[s].ring, rc))
                     ELSE Post(Taken(s, i), Following(s),
                               Msg(s, "RING", "", 0, IF rc # 0 THEN rc ELSE slave[s].rc))
    BY <1>3 DEF PassToken
  <2>2. i \in DOMAIN mail[s]
    BY DEF Receivable
  <2> DEFINE rc == mail[s][i].body
  <2>3. /\ rc \in Int /\ (IF rc # 0 THEN rc ELSE slave[s].rc) \in Int
        /\ Taken(s, i) \in Boxes
    BY <1>b, <1>d, <2>2
  <2>4. /\ Msg(s, "RING", "", slave[s].ring, rc) \in Message
        /\ Msg(s, "RING", "", 0, IF rc # 0 THEN rc ELSE slave[s].rc) \in Message
    <3> DEFINE r == IF rc # 0 THEN rc ELSE slave[s].rc
               g == slave[s].ring
    <3>1. rc \in Int /\ r \in Int /\ g \in Int
      BY <1>b, <2>3
    <3> HIDE DEF rc, r, g
    <3>2. Msg(s, "RING", "", g, rc) \in Message /\ Msg(s, "RING", "", 0, r) \in Message
      BY <1>a, <3>1, MsgType, TagFacts
    <3> QED
      BY <3>2 DEF r, g
  <2>5. /\ Post(Taken(s, i), Master, Msg(s, "RING", "", slave[s].ring, rc)) \in Boxes
        /\ Post(Taken(s, i), Following(s),
                Msg(s, "RING", "", 0, IF rc # 0 THEN rc ELSE slave[s].rc)) \in Boxes
    BY <1>a, <2>3, <2>4, Posted
  <2>6. mail' \in Boxes
    BY <2>1, <2>5
  <2>7. slave' = [slave EXCEPT ![s] = [slave[s] EXCEPT !.ring = -1]]
    BY <1>3 DEF PassToken
  <2>8. [slave[s] EXCEPT !.ring = -1] \in SlaveState
    <3>1. \A n \in Int : [slave[s] EXCEPT !.ring = n] \in SlaveState
      BY <1>b DEF SlaveState
    <3> QED
      BY <3>1, TagFacts
  <2>9. slave' \in [Slaves -> SlaveState]
    BY <1>0, <2>7, <2>8
  <2> QED
    BY <1>3, <1>h, <2>6, <2>9 DEF PassToken
<1>4. CASE Encode(s)
  <2> DEFINE fs == slave[s].files
             fuller(b) == [fs EXCEPT ![Len(fs)] = Append(fs[Len(fs)], b)]
  <2>1. PICK i \in DOMAIN mail[s] :
          \/ /\ slave' = [slave EXCEPT ![s].files = fuller(mail[s][i].body),
                                       ![s].first = TRUE]
             /\ mail' = IF slave[s].first THEN Taken(s, i)
                        ELSE Post(Taken(s, i), Merger,
                                  Msg(s, "JOIN", "add_elab", mail[s][i].seq, CurrentFile(s)))
          \/ /\ mail' = Report(s, mail[s][i].seq, Taken(s, i))
             /\ UNCHANGED slave
    BY <1>4 DEF Encode
  <2> DEFINE gs == fuller(mail[s][i].body)
             new == [slave[s] EXCEPT !.files = gs, !.first = TRUE]
  <2>2. mail' \in Boxes
    <3>1. Taken(s, i) \in Boxes /\ mail[s][i].seq \in Int
      BY <1>d
    <3>2. Report(s, mail[s][i].seq, Taken(s, i)) \in Boxes
      BY <1>f, <3>1
    <3>3. Post(Taken(s, i), Merger,
               Msg(s, "JOIN", "add_elab", mail[s][i].seq, CurrentFile(s))) \in Boxes
      BY <1>c, <1>g, <3>1
    <3> QED
      BY <2>1, <3>1, <3>2, <3>3
  <2>3. gs \in Seq(Seq(Int))
    <3>1. fs \in Seq(Seq(Int)) /\ mail[s][i].body \in Int
      BY <1>b, <1>d
    <3> HIDE DEF fs
    <3>2. CASE Len(fs) \in 1 .. Len(fs)
      <4>1. fs[Len(fs)] \in Seq(Int)
        BY <3>1, <3>2, ElementOfSeq
      <4>2. Append(fs[Len(fs)], mail[s][i].body) \in Seq(Int)
        BY <3>1, <4>1, AppendProperties
      <4> QED
        BY <3>1, <3>2, <4>2, ExceptSeq
    <3>3. CASE Len(fs) \notin 1 .. Len(fs)
      <4>1. PICK n \in Nat : fs \in [1 .. n -> Seq(Int)]
        BY <3>1, SeqDef
      <4>2. DOMAIN fs = 1 .. Len(fs)
        BY <3>1
      <4>3. gs = fs
        BY <3>3, <4>1, <4>2
      <4> QED
        BY <3>1, <4>3
    <3> QED
      BY <3>2, <3>3
  <2>4. new \in SlaveState
    <3> HIDE DEF gs
    <3> QED
      BY <1>b, <2>3 DEF SlaveState
  <2>5. slave' \in [Slaves -> SlaveState]
    <3>1. slave' = [slave EXCEPT ![s].files = gs, ![s].first = TRUE] \/ slave' = slave
      BY <2>1
    <3> HIDE DEF gs
    <3>2. slave' = [slave EXCEPT ![s] = new] \/ slave' = slave
      BY <3>1
    <3> HIDE DEF new
    <3> QED
      BY <1>0, <2>4, <3>2
  <2> QED
    BY <1>4, <1>h, <2>2, <2>5 DEF Encode
<1>5. CASE CloseChunk(s)
  <2>1. PICK i \in DOMAIN mail[s] :
          \/ /\ slave' = [slave EXCEPT ![s].loaded = FALSE, ![s].ready = FALSE]
             /\ mail' = Post(Taken(s, i), Master,
                             Msg(s, "ENDTASK", "", mail[s][i].seq, 0))
          \/ /\ slave' = [slave EXCEPT ![s].ready = FALSE]
             /\ mail' = Report(s, mail[s][i].seq, Taken(s, i))
    BY <1>5 DEF CloseChunk
  <2>2. Msg(s, "ENDTASK", "", mail[s][i].seq, 0) \in Message
    BY <1>a, <1>d, MsgType, TagFacts
  <2>3. Post(Taken(s, i), Master, Msg(s, "ENDTASK", "", mail[s][i].seq, 0)) \in Boxes
    BY <1>d, <2>2, Posted
  <2>4. mail' \in Boxes
    BY <1>d, <1>f, <2>1, <2>3
  <2>5. /\ [slave[s] EXCEPT !.loaded = FALSE, !.ready = FALSE] \in SlaveState
        /\ [slave[s] EXCEPT !.ready = FALSE] \in SlaveState
    BY <1>b DEF SlaveState
  <2>6. \/ slave' = [slave EXCEPT ![s] = [slave[s] EXCEPT !.loaded = FALSE, !.ready = FALSE]]
        \/ slave' = [slave EXCEPT ![s] = [slave[s] EXCEPT !.ready = FALSE]]
    BY <2>1
  <2>7. slave' \in [Slaves -> SlaveState]
    BY <1>0, <2>5, <2>6
  <2> QED
    BY <1>5, <1>h, <2>4, <2>7 DEF CloseChunk
<1>6. CASE OpenNext(s)
  <2> DEFINE again == [slave[s] EXCEPT !.loaded = TRUE, !.files = Append(@, <<>>)]
  <2>1. PICK i \in DOMAIN mail[s] :
          \/ /\ slave' = [slave EXCEPT ![s] = [again EXCEPT !.ready = TRUE, !.first = FALSE]]
             /\ mail' = Post(Taken(s, i), Merger,
                             Msg(s, "JOIN", "add_remove", mail[s][i].seq, NextFile(s)))
          \/ /\ slave' = [slave EXCEPT ![s] = again]
             /\ mail' = Report(s, mail[s][i].seq, Taken(s, i))
          \/ /\ slave' = [slave EXCEPT ![s] = [again EXCEPT !.ring = mail[s][i].seq, !.rc = 1]]
             /\ mail' = EnterRing(s, 1, Taken(s, i))
    BY <1>6 DEF OpenNext
  <2>2. mail' \in Boxes
    <3>1. Taken(s, i) \in Boxes /\ mail[s][i].seq \in Int
      BY <1>d
    <3>2. Report(s, mail[s][i].seq, Taken(s, i)) \in Boxes
      BY <1>f, <3>1
    <3>3. Post(Taken(s, i), Merger,
               Msg(s, "JOIN", "add_remove", mail[s][i].seq, NextFile(s))) \in Boxes
      BY <1>c, <1>g, <3>1
    <3>4. EnterRing(s, 1, Taken(s, i)) \in Boxes
      BY <1>e, <3>1
    <3> QED
      BY <2>1, <3>2, <3>3, <3>4
  <2>3. again \in SlaveState
    <3>1. <<>> \in Seq(Int)
      BY EmptySeq
    <3>2. Append(slave[s].files, <<>>) \in Seq(Seq(Int))
      BY <1>b, <3>1, AppendProperties
    <3> QED
      BY <1>b, <3>2 DEF SlaveState
  <2>4. mail[s][i].seq \in Int
    BY <1>d
  <2> HIDE DEF again
  <2>5. /\ [again EXCEPT !.ready = TRUE, !.first = FALSE] \in SlaveState
        /\ [again EXCEPT !.ring = mail[s][i].seq, !.rc = 1] \in SlaveState
    <3>1. [again EXCEPT !.ready = TRUE, !.first = FALSE] \in SlaveState
      BY <2>3 DEF SlaveState
    <3>2. \A n, c \in Int : [again EXCEPT !.ring = n, !.rc = c] \in SlaveState
      BY <2>3 DEF SlaveState
    <3> QED
      BY <2>4, <3>1, <3>2, TagFacts
  <2>6. slave' \in [Slaves -> SlaveState]
    BY <1>0, <2>1, <2>3, <2>5
  <2> QED
    BY <1>6, <1>h, <2>2, <2>6 DEF OpenNext
<1> QED
  BY <1>1, <1>2, <1>3, <1>4, <1>5, <1>6 DEF SlaveStep

\* The steps of the merger.
LEMMA MergerTypes ==
    ASSUME ClusterTypeOK, MergerStep
    PROVE  ClusterTypeOK'
<1> USE TaskFacts
<1>0. /\ mail \in Boxes /\ order \in Orders /\ sendSeq \in Int /\ castSeq \in Int
      /\ chunk \in Nat /\ inChunk \in Nat /\ given \in Nat
      /\ current \in Slaves /\ used \in [Slaves -> Int]
      /\ slave \in [Slaves -> SlaveState]
      /\ elab \in Seq([seq : Int, file : Int]) /\ erase \subseteq Int
  BY DEF ClusterTypeOK
<1>a. ASSUME NEW i \in DOMAIN mail[Merger]
      PROVE  /\ Taken(Merger, i) \in Boxes
             /\ mail[Merger][i].seq \in Int /\ mail[Merger][i].body \in Int
  <2>1. Taken(Merger, i) \in Boxes /\ mail[Merger][i] \in Message
    BY <1>0, TakenOut
  <2> QED
    BY <2>1 DEF Message
<1>b. ASSUME mail' \in Boxes, UNCHANGED <<mastervars, slave>>,
             elab' \in Seq([seq : Int, file : Int]), erase' \subseteq Int
      PROVE  ClusterTypeOK'
  BY <1>0, <1>b DEF ClusterTypeOK, mastervars
<1>1. CASE NameDestination
  <2>1. PICK i \in DOMAIN mail[Merger] : mail' = Taken(Merger, i)
    BY <1>1 DEF NameDestination
  <2>2. mail' \in Boxes /\ UNCHANGED <<mastervars, slave>> /\ elab' = elab /\ erase' = erase
    BY <1>1, <1>a, <2>1 DEF NameDestination, mergervars
  <2> QED
    BY <1>0, <1>b, <2>2
<1>2. CASE AddElab
  <2>1. PICK i \in DOMAIN mail[Merger] :
          LET m == mail[Merger][i]
          IN elab' = Inserted(elab, [seq |-> m.seq, file |-> m.body])
    BY <1>2 DEF AddElab
  <2> DEFINE x == [seq |-> mail[Merger][i].seq, file |-> mail[Merger][i].body]
             later == {k \in DOMAIN elab : elab[k].seq > x.seq}
             p == IF later = {} THEN Len(elab) + 1 ELSE Min(later)
  <2>2. x \in [seq : Int, file : Int]
    BY <1>a
  <2>3. elab' = InsertAt(elab, p, x)
    BY <2>1 DEF Inserted
  <2>4. later \in SUBSET Nat /\ later \subseteq 1 .. Len(elab) /\ Len(elab) \in Nat
    <3>1. DOMAIN elab = 1 .. Len(elab) /\ Len(elab) \in Nat
      BY <1>0
    <3>2. later \subseteq 1 .. Len(elab)
      BY <3>1
    <3> QED
      BY <3>1, <3>2
  <2> HIDE DEF later, x
  <2>5. p \in 1 .. Len(elab) + 1
    <3>1. CASE later = {}
      BY <2>4, <3>1
    <3>2. CASE later # {}
      <4>1. Min(later) \in later
        BY <2>4, <3>2, MinLeast
      <4>2. p = Min(later)
        BY <3>2
      <4> HIDE DEF p
      <4>3. p \in 1 .. Len(elab)
        BY <2>4, <4>1, <4>2
      <4> QED
        BY <2>4, <4>3
    <3> QED
      BY <3>1, <3>2
  <2> HIDE DEF p
  <2>6. elab' \in Seq([seq : Int, file : Int])
    BY <1>0, <2>2, <2>3, <2>5, InsertedAt DEF PutAt
  <2>7. UNCHANGED <<mastervars, slave>> /\ erase' = erase /\ mail' \in Boxes
    BY <1>2, <1>a DEF AddElab
  <2> QED
    BY <1>0, <1>b, <2>6, <2>7
<1>3. CASE AddRemove
  <2>1. PICK i \in DOMAIN mail[Merger] :
          /\ erase' = erase \cup {mail[Merger][i].body}
          /\ mail' = Taken(Merger, i)
    BY <1>3 DEF AddRemove
  <2>2. /\ mail' \in Boxes /\ UNCHANGED <<mastervars, slave>> /\ elab' = elab
        /\ erase' \subseteq Int
    BY <1>0, <1>3, <1>a, <2>1 DEF AddRemove
  <2> QED
    BY <1>0, <1>b, <2>2
<1>4. CASE Merge
  <2> DEFINE reply(i, rc) == Post(Taken(Merger, i), Master,
                                  Msg(Merger, "REPLY", "", mail[Merger][i].seq, rc))
  <2>1. PICK i \in DOMAIN mail[Merger] :
          mail' = reply(i, 0) \/ mail' = reply(i, 1) \/ mail' = Taken(Merger, i)
    BY <1>4 DEF Merge
  <2>2. ASSUME NEW rc \in Int PROVE reply(i, rc) \in Boxes
    <3>1. Taken(Merger, i) \in Boxes /\ mail[Merger][i].seq \in Int
      BY <1>a
    <3>2. Msg(Merger, "REPLY", "", mail[Merger][i].seq, rc) \in Message
      BY <3>1, MsgType, TagFacts
    <3> QED
      BY <3>1, <3>2, Posted
  <2> HIDE DEF reply
  <2>3. mail' \in Boxes
    BY <1>a, <2>1, <2>2, TagFacts
  <2>4. UNCHANGED <<mastervars, slave>> /\ elab' = elab /\ erase' = erase
    BY <1>4 DEF Merge
  <2> QED
    BY <1>0, <1>b, <2>3, <2>4
<1> QED
  BY <1>1, <1>2, <1>3, <1>4 DEF MergerStep

LEMMA ClusterStartsTyped == ClusterInit => ClusterTypeOK
<1> SUFFICES ASSUME ClusterInit PROVE ClusterTypeOK
  OBVIOUS
<1>1. <<>> \in Seq(Message) /\ <<>> \in Seq(Seq(Int)) /\ <<>> \in Seq([seq : Int, file : Int])
  BY EmptySeq
<1>2. mail \in Boxes
  BY <1>1 DEF ClusterInit, Boxes
<1>3. slave \in [Slaves -> SlaveState]
  <2> DEFINE x == [first |-> FALSE, loaded |-> TRUE, able |-> TRUE, ready |-> FALSE,
                   ring |-> -1, rc |-> 0, files |-> <<>>]
  <2>1. \A n \in Int, q \in Seq(Seq(Int)) :
          [first |-> FALSE, loaded |-> TRUE, able |-> TRUE, ready |-> FALSE,
           ring |-> n, rc |-> 0, files |-> q] \in SlaveState
    BY DEF SlaveState
  <2>2. x \in SlaveState
    BY <1>1, <2>1, TagFacts
  <2>3. slave = [s \in Slaves |-> x]
    BY DEF ClusterInit
  <2> HIDE DEF x
  <2> QED
    BY <2>2, <2>3
<1>4. current \in Slaves /\ used \in [Slaves -> Int]
  BY TaskFacts DEF ClusterInit, Slaves
<1>5. sendSeq \in Int /\ castSeq \in Int
  BY TagFacts DEF ClusterInit
<1>6. /\ order \in Orders /\ chunk \in Nat /\ inChunk \in Nat /\ given \in Nat
      /\ elab \in Seq([seq : Int, file : Int]) /\ erase \subseteq Int
  BY <1>1 DEF ClusterInit, Orders, Casts
<1> QED
  BY <1>2, <1>3, <1>4, <1>5, <1>6 DEF ClusterTypeOK

LEMMA ClusterStepTyped == ClusterTypeOK /\ [ClusterNext]_clustervars => ClusterTypeOK'
<1> SUFFICES ASSUME ClusterTypeOK, [ClusterNext]_clustervars PROVE ClusterTypeOK'
  OBVIOUS
<1>1. CASE UNCHANGED clustervars
  BY <1>1 DEF ClusterTypeOK, clustervars, mastervars, mergervars
<1> QED
  BY <1>1, MasterTypes, SlaveTypes, MergerTypes DEF ClusterNext

-----------------------------------------------------------------------------
(* The invariant.                                                           *)

Early == {"version", "sked", "join", "init", "open"}
Working == Early \cup {"encode", "first-free"}

\* No message of the master is in the mail q.
Quiet(q) == \A i \in 1 .. Len(q) : q[i].from # Master

\* The message that ends chunk u, of which there is none unless b, is the last
\* of the master in q.
Closing(q, u, b) ==
    \A i \in 1 .. Len(q) :
       q[i].from = Master /\ q[i].opt = "restart1" =>
          /\ b /\ q[i].seq = u
          /\ \A j \in i + 1 .. Len(q) : q[j].from # Master

\* The ends of chunks reported in q are of N, and each is reported once.
EndsIn(q, N) ==
    \A i \in 1 .. Len(q) :
       q[i].tag = "ENDTASK" =>
          /\ q[i].seq \in N
          /\ \A j \in 1 .. Len(q) :
                q[j].tag = "ENDTASK" /\ q[j].seq = q[i].seq => j = i

\* The slaves that were given a whole chunk, and those of them that are free.
Complete(t) == used[t] # NoTask /\ (t = current => order = "first-free")
Freed == {t \in Slaves : Complete(t) /\ Quiet(mail[t]) /\ ~slave[t].loaded}

\* Every slave has its own chunk, and only the current one the chunk in work.
ChunksApart ==
    /\ \A s, t \in Slaves : used[s] = used[t] /\ used[s] # NoTask => s = t
    /\ \A s \in Slaves :
          used[s] # NoTask => used[s] \in 0 .. chunk /\ (used[s] = chunk => s = current)
    /\ order = "first-free" => used[current] = chunk
    /\ order \in Early => \A s \in Slaves : used[s] = NoTask

ClosedLast == \A t \in Slaves : Closing(mail[t], used[t], Complete(t))
Listed == EndsIn(mail[Master], {used[t] : t \in Freed})

FreeInv == order \in Working => ChunksApart /\ ClosedLast /\ Listed

\* The same of the next state.
LEMMA FreeInvNext ==
    ASSUME order' \in Working =>
              /\ ChunksApart'
              /\ \A t \in Slaves : Closing(mail'[t], used'[t], Complete(t)')
              /\ EndsIn(mail'[Master], {used'[t] : t \in Freed'})
    PROVE  FreeInv'
<1>1. (order \in Working)' <=> order' \in Working
  BY DEF Working, Early
<1>2. (\A t \in Slaves : Closing(mail'[t], used'[t], Complete(t)')) => ClosedLast'
  BY DEF ClosedLast, Closing, Complete, Slaves, Master, NoTask
<1>3. EndsIn(mail'[Master], {used'[t] : t \in Freed'}) => Listed'
  BY DEF Listed, EndsIn, Master
<1> QED
  BY <1>1, <1>2, <1>3 DEF FreeInv

\* Taking a message out, and putting one behind.
LEMMA QuietKept ==
    ASSUME NEW q \in Seq(Message), Quiet(q)
    PROVE  /\ \A i \in 1 .. Len(q) : Quiet(RemoveAt(q, i))
           /\ \A m \in Message : m.from # Master => Quiet(Append(q, m))
<1>1. Len(q) \in Nat
  OBVIOUS
<1>2. ASSUME NEW i \in 1 .. Len(q) PROVE Quiet(RemoveAt(q, i))
  <2> DEFINE r == RemoveAt(q, i)
  <2>1. Len(r) = Len(q) - 1 /\ \A k \in 1 .. Len(q) - 1 : r[k] = IF k < i THEN q[k] ELSE q[k + 1]
    BY Removed
  <2> HIDE DEF r
  <2>2. ASSUME NEW k \in 1 .. Len(r) PROVE r[k].from # Master
    BY <1>1, <2>1 DEF Quiet
  <2>3. Quiet(r)
    BY <2>2 DEF Quiet
  <2> QED
    BY <2>3 DEF r
<1>3. ASSUME NEW m \in Message, m.from # Master PROVE Quiet(Append(q, m))
  <2> DEFINE r == Append(q, m)
  <2>1. /\ Len(r) = Len(q) + 1 /\ \A k \in 1 .. Len(q) : r[k] = q[k]
        /\ r[Len(q) + 1] = m
    BY AppendProperties
  <2> HIDE DEF r
  <2>2. ASSUME NEW k \in 1 .. Len(r) PROVE r[k].from # Master
    <3>1. CASE k = Len(q) + 1
      BY <1>3, <2>1, <3>1
    <3>2. CASE k # Len(q) + 1
      BY <1>1, <2>1, <3>2 DEF Quiet
    <3> QED
      BY <3>1, <3>2
  <2>3. Quiet(r)
    BY <2>2 DEF Quiet
  <2> QED
    BY <2>3 DEF r
<1> QED
  BY <1>2, <1>3

LEMMA ClosingRemoved ==
    ASSUME NEW q \in Seq(Message), NEW i \in 1 .. Len(q), NEW u, NEW b, Closing(q, u, b)
    PROVE  Closing(RemoveAt(q, i), u, b)
<1> DEFINE r == RemoveAt(q, i)
<1>1. Len(r) = Len(q) - 1 /\ \A k \in 1 .. Len(q) - 1 : r[k] = IF k < i THEN q[k] ELSE q[k + 1]
  BY Removed
<1>2. Len(q) \in Nat
  OBVIOUS
<1> HIDE DEF r
<1>3. ASSUME NEW k \in 1 .. Len(r), r[k].from = Master, r[k].opt = "restart1"
      PROVE  b /\ r[k].seq = u /\ \A j \in k + 1 .. Len(r) : r[j].from # Master
  <2>1. PICK l \in 1 .. Len(q) : r[k] = q[l] /\ (l = k \/ (l = k + 1 /\ ~(k < i)))
    BY <1>1, <1>2
  <2>2. b /\ q[l].seq = u /\ \A j \in l + 1 .. Len(q) : q[j].from # Master
    BY <1>3, <2>1 DEF Closing
  <2>3. ASSUME NEW j \in k + 1 .. Len(r) PROVE r[j].from # Master
    <3>1. PICK n \in 1 .. Len(q) : r[j] = q[n] /\ (n = j \/ n = j + 1) /\ (~(j < i) => n = j + 1)
      BY <1>1, <1>2
    <3>2. n \in l + 1 .. Len(q)
      BY <1>2, <2>1, <3>1
    <3> QED
      BY <2>2, <3>1, <3>2
  <2> QED
    BY <2>1, <2>2, <2>3
<1>4. Closing(r, u, b)
  BY <1>3 DEF Closing
<1> QED
  BY <1>4 DEF r

\* A message of somebody else, or one of the master behind a mail without an end.
LEMMA ClosingAppended ==
    ASSUME NEW q \in Seq(Message), NEW m \in Message, NEW u, NEW b,
           \/ Closing(q, u, b) /\ m.from # Master
           \/ Closing(q, u, FALSE) /\ (m.opt = "restart1" => b /\ m.seq = u)
    PROVE  Closing(Append(q, m), u, b)
<1> DEFINE r == Append(q, m)
<1>1. /\ Len(r) = Len(q) + 1 /\ \A k \in 1 .. Len(q) : r[k] = q[k]
      /\ r[Len(q) + 1] = m
  BY AppendProperties
<1>2. Len(q) \in Nat
  OBVIOUS
<1> HIDE DEF r
<1>3. ASSUME NEW k \in 1 .. Len(r), r[k].from = Master, r[k].opt = "restart1"
      PROVE  b /\ r[k].seq = u /\ \A j \in k + 1 .. Len(r) : r[j].from # Master
  <2>1. CASE k = Len(q) + 1
    <3>1. r[k] = m /\ k + 1 .. Len(r) = {}
      BY <1>1, <1>2, <2>1
    <3> QED
      BY <1>3, <3>1
  <2>2. CASE k # Len(q) + 1
    <3>1. k \in 1 .. Len(q) /\ r[k] = q[k]
      BY <1>1, <1>2, <2>2
    <3>2. ~Closing(q, u, FALSE)
      BY <1>3, <3>1 DEF Closing
    <3>3. b /\ q[k].seq = u /\ \A j \in k + 1 .. Len(q) : q[j].from # Master
      BY <1>3, <3>1, <3>2 DEF Closing
    <3>4. ASSUME NEW j \in k + 1 .. Len(r) PROVE r[j].from # Master
      <4>1. CASE j = Len(q) + 1
        BY <1>1, <3>2, <4>1
      <4>2. CASE j # Len(q) + 1
        <5>1. j \in k + 1 .. Len(q) /\ j \in 1 .. Len(q)
          BY <1>1, <1>2, <4>2
        <5> QED
          BY <1>1, <3>3, <5>1
      <4> QED
        BY <4>1, <4>2
    <3> QED
      BY <3>1, <3>3, <3>4
  <2> QED
    BY <2>1, <2>2
<1>4. Closing(r, u, b)
  BY <1>3 DEF Closing
<1> QED
  BY <1>4 DEF r

LEMMA EndsRemoved ==
    ASSUME NEW q \in Seq(Message), NEW i \in 1 .. Len(q), NEW N, EndsIn(q, N)
    PROVE  /\ EndsIn(RemoveAt(q, i), N)
           /\ q[i].tag = "ENDTASK" => EndsIn(RemoveAt(q, i), N \ {q[i].seq})
<1> DEFINE r == RemoveAt(q, i)
<1>1. Len(r) = Len(q) - 1 /\ \A k \in 1 .. Len(q) - 1 : r[k] = IF k < i THEN q[k] ELSE q[k + 1]
  BY Removed
<1>2. Len(q) \in Nat
  OBVIOUS
<1> HIDE DEF r
<1>3. ASSUME NEW k \in 1 .. Len(r), r[k].tag = "ENDTASK"
      PROVE  /\ r[k].seq \in N
             /\ q[i].tag = "ENDTASK" => r[k].seq # q[i].seq
             /\ \A j \in 1 .. Len(r) :
                   r[j].tag = "ENDTASK" /\ r[j].seq = r[k].seq => j = k
  <2>1. PICK l \in 1 .. Len(q) : r[k] = q[l] /\ l = IF k < i THEN k ELSE k + 1
    BY <1>1, <1>2
  <2>2. /\ q[l].seq \in N
        /\ \A j \in 1 .. Len(q) : q[j].tag = "ENDTASK" /\ q[j].seq = q[l].seq => j = l
    BY <1>3, <2>1 DEF EndsIn
  <2>3. l # i
    BY <1>2, <2>1
  <2>4. ASSUME NEW j \in 1 .. Len(r), r[j].tag = "ENDTASK", r[j].seq = r[k].seq
        PROVE  j = k
    <3>1. PICK n \in 1 .. Len(q) : r[j] = q[n] /\ n = IF j < i THEN j ELSE j + 1
      BY <1>1, <1>2
    <3>2. n = l
      BY <2>1, <2>2, <2>4, <3>1
    <3> QED
      BY <1>2, <2>1, <3>1, <3>2
  <2> QED
    BY <2>1, <2>2, <2>3, <2>4
<1>4. EndsIn(r, N) /\ (q[i].tag = "ENDTASK" => EndsIn(r, N \ {q[i].seq}))
  BY <1>3 DEF EndsIn
<1> QED
  BY <1>4 DEF r

LEMMA EndsAppended ==
    ASSUME NEW q \in Seq(Message), NEW m \in Message, NEW N, EndsIn(q, N)
    PROVE  /\ m.tag # "ENDTASK" => EndsIn(Append(q, m), N)
           /\ m.tag = "ENDTASK" /\ m.seq \notin N => EndsIn(Append(q, m), N \cup {m.seq})
<1> DEFINE r == Append(q, m)
<1>1. /\ Len(r) = Len(q) + 1 /\ \A k \in 1 .. Len(q) : r[k] = q[k]
      /\ r[Len(q) + 1] = m
  BY AppendProperties
<1>2. Len(q) \in Nat
  OBVIOUS
<1> HIDE DEF r
<1>3. \A k \in 1 .. Len(r) : k \in 1 .. Len(q) \/ k = Len(q) + 1
  BY <1>1, <1>2
<1>4. ASSUME m.tag # "ENDTASK" PROVE EndsIn(r, N)
  <2> SUFFICES ASSUME NEW k \in 1 .. Len(r), r[k].tag = "ENDTASK"
               PROVE  /\ r[k].seq \in N
                      /\ \A j \in 1 .. Len(r) :
                            r[j].tag = "ENDTASK" /\ r[j].seq = r[k].seq => j = k
    BY DEF EndsIn
  <2>1. k \in 1 .. Len(q)
    BY <1>1, <1>3, <1>4
  <2>2. \A j \in 1 .. Len(r) : r[j].tag = "ENDTASK" => j \in 1 .. Len(q)
    BY <1>1, <1>3, <1>4
  <2> QED
    BY <1>1, <2>1, <2>2 DEF EndsIn
<1>5. ASSUME m.tag = "ENDTASK", m.seq \notin N PROVE EndsIn(r, N \cup {m.seq})
  <2> SUFFICES ASSUME NEW k \in 1 .. Len(r), r[k].tag = "ENDTASK"
               PROVE  /\ r[k].seq \in N \cup {m.seq}
                      /\ \A j \in 1 .. Len(r) :
                            r[j].tag = "ENDTASK" /\ r[j].seq = r[k].seq => j = k
    BY DEF EndsIn
  <2>1. CASE k = Len(q) + 1
    <3>1. ASSUME NEW j \in 1 .. Len(q), r[j].tag = "ENDTASK" PROVE r[j].seq # m.seq
      BY <1>1, <1>5, <3>1 DEF EndsIn
    <3> QED
      BY <1>1, <1>3, <2>1, <3>1
  <2>2. CASE k \in 1 .. Len(q)
    <3>1. r[k].seq \in N
      BY <1>1, <2>2 DEF EndsIn
    <3>2. \A j \in 1 .. Len(q) : r[j].tag = "ENDTASK" /\ r[j].seq = r[k].seq => j = k
      BY <1>1, <2>2 DEF EndsIn
    <3> QED
      BY <1>1, <1>3, <1>5, <3>1, <3>2
  <2> QED
    BY <1>3, <2>1, <2>2
<1> QED
  BY <1>4, <1>5 DEF r

-----------------------------------------------------------------------------
(* The steps.  Most of them send no message of the master to a slave and    *)
(* report no end of a chunk.                                                *)

Passive(a, b) ==
    /\ \A t \in Slaves : Quiet(a[t]) => Quiet(b[t])
    /\ \A t \in Slaves, u \in Int, c \in BOOLEAN : Closing(a[t], u, c) => Closing(b[t], u, c)
    /\ \A N \in SUBSET Int : EndsIn(a[Master], N) => EndsIn(b[Master], N)

LEMMA TakenPassive ==
    ASSUME mail \in Boxes, NEW t \in Tasks, NEW i \in DOMAIN mail[t]
    PROVE  Passive(mail, Taken(t, i)) /\ Taken(t, i) \in Boxes
<1> DEFINE b == Taken(t, i)
<1>1. /\ b \in Boxes /\ \A u \in Tasks : u # t => b[u] = mail[u]
      /\ b[t] = RemoveAt(mail[t], i) /\ mail[t] \in Seq(Message) /\ i \in 1 .. Len(mail[t])
  BY TakenOut
<1> HIDE DEF b
<1>2. /\ Quiet(mail[t]) => Quiet(b[t])
      /\ \A u \in Int, c \in BOOLEAN : Closing(mail[t], u, c) => Closing(b[t], u, c)
      /\ \A N \in SUBSET Int : EndsIn(mail[t], N) => EndsIn(b[t], N)
  BY <1>1, QuietKept, ClosingRemoved, EndsRemoved
<1>3. ASSUME NEW u \in Slaves PROVE Quiet(mail[u]) => Quiet(b[u])
  BY <1>1, <1>2, TaskFacts
<1>4. ASSUME NEW u \in Slaves, NEW v \in Int, NEW c \in BOOLEAN, Closing(mail[u], v, c)
      PROVE  Closing(b[u], v, c)
  BY <1>1, <1>2, <1>4, TaskFacts
<1>5. ASSUME NEW N \in SUBSET Int, EndsIn(mail[Master], N) PROVE EndsIn(b[Master], N)
  BY <1>1, <1>2, <1>5, TaskFacts
<1> QED
  BY <1>1, <1>3, <1>4, <1>5 DEF Passive, b

LEMMA PostPassive ==
    ASSUME NEW a \in Boxes, NEW to \in Tasks, NEW m \in Message,
           to \in Slaves => m.from # Master, to = Master => m.tag # "ENDTASK"
    PROVE  Passive(a, Post(a, to, m)) /\ Post(a, to, m) \in Boxes
<1> DEFINE b == Post(a, to, m)
<1>1. /\ b \in Boxes /\ \A u \in Tasks : u # to => b[u] = a[u]
      /\ b[to] = Append(a[to], m)
  BY Posted
<1>2. a[to] \in Seq(Message)
  BY DEF Boxes
<1> HIDE DEF b
<1>3. ASSUME NEW u \in Slaves, Quiet(a[u]) PROVE Quiet(b[u])
  BY <1>1, <1>2, <1>3, TaskFacts, QuietKept
<1>4. ASSUME NEW u \in Slaves, NEW v \in Int, NEW c \in BOOLEAN, Closing(a[u], v, c)
      PROVE  Closing(b[u], v, c)
  <2>1. CASE u = to
    BY <1>1, <1>2, <1>4, <2>1, ClosingAppended
  <2>2. CASE u # to
    BY <1>1, <1>4, <2>2, TaskFacts
  <2> QED
    BY <2>1, <2>2
<1>5. ASSUME NEW N \in SUBSET Int, EndsIn(a[Master], N) PROVE EndsIn(b[Master], N)
  BY <1>1, <1>2, <1>5, TaskFacts, EndsAppended
<1> QED
  BY <1>1, <1>3, <1>4, <1>5 DEF Passive, b

LEMMA PassiveTwice ==
    ASSUME NEW a, NEW b, NEW c, Passive(a, b), Passive(b, c)
    PROVE  Passive(a, c)
BY DEF Passive

\* A passive step that loads no encoder of a free slave.
LEMMA PassiveKeeps ==
    ASSUME ClusterTypeOK, FreeInv, UNCHANGED <<order, current, used, chunk>>,
           Passive(mail, mail'), \A t \in Freed : ~slave'[t].loaded
    PROVE  FreeInv'
<1> SUFFICES ASSUME order' \in Working
             PROVE  /\ ChunksApart'
                    /\ \A t \in Slaves : Closing(mail'[t], used'[t], Complete(t)')
                    /\ EndsIn(mail'[Master], {used'[t] : t \in Freed'})
  BY FreeInvNext
<1>0. used \in [Slaves -> Int]
  BY DEF ClusterTypeOK
<1>1. /\ ChunksApart
      /\ \A t \in Slaves : Closing(mail[t], used[t], Complete(t))
      /\ EndsIn(mail[Master], {used[t] : t \in Freed})
  BY DEF FreeInv, ClosedLast, Listed
<1>2. ChunksApart'
  BY <1>1 DEF ChunksApart
<1>3. ASSUME NEW t \in Slaves PROVE Closing(mail'[t], used'[t], Complete(t)')
  <2>1. Complete(t)' = Complete(t) /\ Complete(t) \in BOOLEAN
    BY DEF Complete
  <2>2. used'[t] = used[t] /\ used[t] \in Int
    BY <1>0
  <2>3. Closing(mail'[t], used[t], Complete(t))
    BY <1>1, <2>1, <2>2 DEF Passive
  <2> QED
    BY <2>1, <2>2, <2>3
<1>4. EndsIn(mail'[Master], {used'[t] : t \in Freed'})
  <2>1. Freed \subseteq Slaves
    BY DEF Freed
  <2>2. {used[t] : t \in Freed} \in SUBSET Int
    BY <1>0, <2>1
  <2>3. EndsIn(mail'[Master], {used[t] : t \in Freed})
    BY <1>1, <2>2 DEF Passive
  <2>4. \A t \in Freed : t \in Freed'
    BY DEF Freed, Complete, Passive
  <2>5. {used[t] : t \in Freed} \subseteq {used'[t] : t \in Freed'}
    BY <2>4
  <2> QED
    BY <2>3, <2>5 DEF EndsIn
<1> QED
  BY <1>2, <1>3, <1>4

LEMMA MergerFree ==
    ASSUME ClusterTypeOK, FreeInv, MergerStep
    PROVE  FreeInv'
<1>0. mail \in Boxes
  BY DEF ClusterTypeOK
<1>1. /\ UNCHANGED <<order, current, used, chunk>> /\ UNCHANGED slave
      /\ \E i \in DOMAIN mail[Merger] :
            \/ mail' = Taken(Merger, i)
            \/ \E rc \in {0, 1} :
                  mail' = Post(Taken(Merger, i), Master,
                               Msg(Merger, "REPLY", "", mail[Merger][i].seq, rc))
  BY DEF MergerStep, NameDestination, AddElab, AddRemove, Merge, mastervars
<1>2. PICK i \in DOMAIN mail[Merger] :
         \/ mail' = Taken(Merger, i)
         \/ \E rc \in {0, 1} :
               mail' = Post(Taken(Merger, i), Master,
                            Msg(Merger, "REPLY", "", mail[Merger][i].seq, rc))
  BY <1>1
<1>3. /\ Passive(mail, Taken(Merger, i)) /\ Taken(Merger, i) \in Boxes
      /\ mail[Merger][i].seq \in Int
  <2>1. mail[Merger][i] \in Message
    BY <1>0, TaskFacts, TakenOut
  <2> QED
    BY <1>0, <2>1, TaskFacts, TakenPassive DEF Message
<1>4. ASSUME NEW rc \in {0, 1}
      PROVE  Passive(mail, Post(Taken(Merger, i), Master,
                                Msg(Merger, "REPLY", "", mail[Merger][i].seq, rc)))
  <2> DEFINE m == Msg(Merger, "REPLY", "", mail[Merger][i].seq, rc)
  <2>1. m \in Message /\ m.tag = "REPLY"
    <3>1. rc \in Int /\ "REPLY" \in Tags /\ "" \in Options /\ Merger \in Tasks
      BY TagFacts, TaskFacts
    <3>2. \A q \in Int, b \in Int : Msg(Merger, "REPLY", "", q, b) \in Message
      BY <3>1, MsgType
    <3>4. m \in Message
      BY <1>3, <3>1, <3>2
    <3>3. m.tag = "REPLY"
      BY DEF Msg
    <3> QED
      BY <3>3, <3>4
  <2> HIDE DEF m
  <2>2. Passive(Taken(Merger, i), Post(Taken(Merger, i), Master, m))
    BY <1>3, <2>1, TaskFacts, PostPassive
  <2> QED
    BY <1>3, <2>2, PassiveTwice DEF m
<1>5. Passive(mail, mail')
  BY <1>2, <1>3, <1>4
<1>6. \A t \in Freed : ~slave'[t].loaded
  BY <1>1 DEF Freed
<1> QED
  BY <1>1, <1>5, <1>6, PassiveKeeps

\* The steps of a slave but the end of a chunk.
LEMMA SlaveFree ==
    ASSUME ClusterTypeOK, FreeInv, NEW s \in Slaves,
           \/ Discard(s) \/ Configure(s) \/ PassToken(s) \/ Encode(s) \/ OpenNext(s)
    PROVE  FreeInv'
<1>0. mail \in Boxes /\ slave \in [Slaves -> SlaveState]
  BY DEF ClusterTypeOK
<1>a. s \in Tasks /\ s \in Int /\ s # Master /\ Following(s) \in Slaves
  <2>1. s \in 0 .. NProc - 1 /\ NProc \in Nat /\ NProc > 0
    BY TaskFacts DEF Slaves
  <2>2. (s + 1) % NProc \in 0 .. NProc - 1
    BY <2>1
  <2> QED
    BY <2>1, <2>2, TaskFacts DEF Following, Slaves
<1>b. /\ Len(slave[s].files) \in Nat /\ slave[s].rc \in Int /\ slave[s].ring \in Int
      /\ slave[s] \in SlaveState
  BY <1>0 DEF SlaveState
<1>c. NextFile(s) \in Int /\ CurrentFile(s) \in Int
  <2>1. Len(slave[s].files) \in Int /\ Len(slave[s].files) - 1 \in Int
    BY <1>b
  <2>2. NProc \in Int
    BY NProcAssumption
  <2>3. /\ Len(slave[s].files) * NProc + s \in Int
        /\ (Len(slave[s].files) - 1) * NProc + s \in Int
    BY <1>a, <2>1, <2>2, FileNumber
  <2> QED
    BY <2>3 DEF NextFile, CurrentFile, FileOf
<1>d. ASSUME NEW i \in DOMAIN mail[s]
      PROVE  /\ Taken(s, i) \in Boxes /\ Passive(mail, Taken(s, i))
             /\ mail[s][i].seq \in Int /\ mail[s][i].body \in Int
  <2>1. Taken(s, i) \in Boxes /\ mail[s][i] \in Message
    BY <1>0, <1>a, TakenOut
  <2>2. Passive(mail, Taken(s, i))
    BY <1>0, <1>a, TakenPassive
  <2> QED
    BY <2>1, <2>2 DEF Message
<1>e. ASSUME NEW box \in Boxes, NEW rc \in Int
      PROVE  Passive(box, EnterRing(s, rc, box))
  <2> DEFINE m == Msg(s, "RING", "", 0, rc)
  <2>1. m \in Message /\ m.from = s
    <3>1. 0 \in Int /\ "RING" \in Tags /\ "" \in Options
      BY TagFacts
    <3>2. m \in Message
      BY <1>a, <3>1, MsgType
    <3>3. m.from = s
      BY DEF Msg
    <3> QED
      BY <3>2, <3>3
  <2>2. Following(s) \in Tasks /\ Following(s) # Master
    BY <1>a, TaskFacts
  <2>3. Passive(box, Post(box, Following(s), m))
    <3> HIDE DEF m
    <3> QED
      BY <1>a, <2>1, <2>2, PostPassive
  <2>4. Passive(box, box)
    BY DEF Passive
  <2> QED
    BY <2>3, <2>4 DEF EnterRing
<1>f. ASSUME NEW box \in Boxes, NEW q \in Int PROVE Passive(box, Report(s, q, box))
  <2> DEFINE m == Msg(s, "REPLY", "", q, -1)
  <2>1. m \in Message /\ m.tag = "REPLY"
    <3>1. -1 \in Int /\ "REPLY" \in Tags /\ "" \in Options
      BY TagFacts
    <3>2. m \in Message
      BY <1>a, <3>1, MsgType
    <3>3. m.tag = "REPLY"
      BY DEF Msg
    <3> QED
      BY <3>2, <3>3
  <2>2. Passive(box, Post(box, Master, m))
    <3> HIDE DEF m
    <3> QED
      BY <2>1, TaskFacts, PostPassive
  <2> QED
    BY <2>2 DEF Report
<1>g. ASSUME NEW box \in Boxes, NEW opt \in {"add_remove", "add_elab"},
             NEW q \in Int, NEW file \in Int
      PROVE  LET new == Post(box, Merger, Msg(s, "JOIN", opt, q, file))
             IN  Passive(box, new) /\ new \in Boxes
  <2> DEFINE m == Msg(s, "JOIN", opt, q, file)
  <2>1. opt \in Options /\ "JOIN" \in Tags
    BY TagFacts
  <2>2. m \in Message
    BY <1>a, <2>1, MsgType
  <2>3. Passive(box, Post(box, Merger, m)) /\ Post(box, Merger, m) \in Boxes
    <3> HIDE DEF m
    <3> QED
      BY <2>2, TaskFacts, PostPassive
  <2> QED
    BY <2>3
<1>h. ASSUME UNCHANGED mastervars, Passive(mail, mail'),
             \A t \in Freed : ~slave'[t].loaded
      PROVE  FreeInv'
  BY <1>h, PassiveKeeps DEF mastervars
<1>1. CASE Discard(s)
  <2>1. PICK i \in Receivable(s, LAMBDA m : TRUE) : mail' = Taken(s, i)
    BY <1>1 DEF Discard
  <2>2. i \in DOMAIN mail[s]
    BY DEF Receivable
  <2>3. Passive(mail, mail') /\ slave' = slave /\ UNCHANGED mastervars
    BY <1>1, <1>d, <2>1, <2>2 DEF Discard
  <2>4. \A t \in Freed : ~slave'[t].loaded
    BY <2>3 DEF Freed
  <2> QED
    BY <1>h, <2>3, <2>4
<1>2. CASE Configure(s)
  <2>0. PICK i \in DOMAIN mail[s] : \E rc \in {0} \cup Refusals(s, mail[s][i].opt) :
          /\ slave' = [slave EXCEPT ![s] = Carried(s, mail[s][i], rc)]
          /\ mail' = EnterRing(s, rc,
                        IF mail[s][i].opt = "open" /\ rc = 0
                        THEN Post(Taken(s, i), Merger,
                                  Msg(s, "JOIN", "add_remove", mail[s][i].seq, NextFile(s)))
                        ELSE Taken(s, i))
    BY <1>2 DEF Configure
  <2>1. PICK rc \in {0} \cup Refusals(s, mail[s][i].opt) :
          /\ slave' = [slave EXCEPT ![s] = Carried(s, mail[s][i], rc)]
          /\ mail' = EnterRing(s, rc,
                        IF mail[s][i].opt = "open" /\ rc = 0
                        THEN Post(Taken(s, i), Merger,
                                  Msg(s, "JOIN", "add_remove", mail[s][i].seq, NextFile(s)))
                        ELSE Taken(s, i))
    BY <2>0
  <2>2. rc \in Int
    BY DEF Refusals
  <2> DEFINE box == IF mail[s][i].opt = "open" /\ rc = 0
                    THEN Post(Taken(s, i), Merger,
                              Msg(s, "JOIN", "add_remove", mail[s][i].seq, NextFile(s)))
                    ELSE Taken(s, i)
  <2>3. box \in Boxes /\ Passive(mail, box)
    BY <1>c, <1>d, <1>g, PassiveTwice
  <2>4. mail' = EnterRing(s, rc, box)
    BY <2>1
  <2>5. Passive(mail, mail')
    <3> HIDE DEF box
    <3> QED
      BY <1>e, <2>2, <2>3, <2>4, PassiveTwice
  <2>6. Carried(s, mail[s][i], rc).loaded = slave[s].loaded
    BY <1>b DEF Carried, SlaveState
  <2>7. \A t \in Slaves : slave'[t].loaded = slave[t].loaded
    BY <1>0, <2>1, <2>6
  <2>8. \A t \in Freed : ~slave'[t].loaded
    BY <2>7 DEF Freed
  <2>9. UNCHANGED mastervars
    BY <1>2 DEF Configure
  <2> QED
    BY <1>h, <2>5, <2>8, <2>9
<1>3. CASE PassToken(s)
  <2>1. PICK i \in Receivable(s, LAMBDA m : m.tag = "RING" /\ m.from = Preceding(s)) :
          LET rc == mail[s][i].body
          IN mail' = IF s = 0
                     THEN Post(Taken(s, i), Master, Msg(s, "RING", "", slave[s].ring, rc))
                     ELSE Post(Taken(s, i), Following(s),
                               Msg(s, "RING", "", 0, IF rc # 0 THEN rc ELSE slave[s].rc))
    BY <1>3 DEF PassToken
  <2>2. i \in DOMAIN mail[s]
    BY DEF Receivable
  <2> DEFINE rc == mail[s][i].body
             r == IF rc # 0 THEN rc ELSE slave[s].rc
             g == slave[s].ring
             m == Msg(s, "RING", "", g, rc)
             n == Msg(s, "RING", "", 0, r)
  <2>3. rc \in Int /\ r \in Int /\ g \in Int
    BY <1>b, <1>d, <2>2
  <2>4. m \in Message /\ n \in Message /\ m.tag = "RING" /\ n.from = s
    <3>1. 0 \in Int /\ "RING" \in Tags /\ "" \in Options
      BY TagFacts
    <3> HIDE DEF rc, r, g
    <3>2. m \in Message /\ n \in Message
      BY <1>a, <2>3, <3>1, MsgType
    <3>3. m.tag = "RING" /\ n.from = s
      BY DEF Msg
    <3> QED
      BY <3>2, <3>3
  <2>5. mail' = Post(Taken(s, i), Master, m) \/ mail' = Post(Taken(s, i), Following(s), n)
    BY <2>1
  <2> HIDE DEF m, n
  <2>6. Taken(s, i) \in Boxes /\ Passive(mail, Taken(s, i))
    BY <1>d, <2>2
  <2>7. Passive(Taken(s, i), Post(Taken(s, i), Master, m))
    BY <2>4, <2>6, TaskFacts, PostPassive
  <2>8. Passive(Taken(s, i), Post(Taken(s, i), Following(s), n))
    BY <1>a, <2>4, <2>6, TaskFacts, PostPassive
  <2>9. Passive(mail, mail')
    BY <2>5, <2>6, <2>7, <2>8, PassiveTwice
  <2>10. UNCHANGED mastervars /\ slave' = [slave EXCEPT ![s] = [slave[s] EXCEPT !.ring = -1]]
    BY <1>3 DEF PassToken
  <2>11. [slave[s] EXCEPT !.ring = -1].loaded = slave[s].loaded
    BY <1>b DEF SlaveState
  <2>12. \A t \in Slaves : slave'[t].loaded = slave[t].loaded
    BY <1>0, <2>10, <2>11
  <2>13. \A t \in Freed : ~slave'[t].loaded
    BY <2>12 DEF Freed
  <2> QED
    BY <1>h, <2>9, <2>10, <2>13
<1>4. CASE Encode(s)
  <2>1. PICK i \in DOMAIN mail[s] :
          /\ \/ mail' = Taken(s, i)
             \/ mail' = Post(Taken(s, i), Merger,
                             Msg(s, "JOIN", "add_elab", mail[s][i].seq, CurrentFile(s)))
             \/ mail' = Report(s, mail[s][i].seq, Taken(s, i))
          /\ \/ \E gs : slave' = [slave EXCEPT ![s].files = gs, ![s].first = TRUE]
             \/ slave' = slave
    BY <1>4 DEF Encode
  <2>2. Taken(s, i) \in Boxes /\ Passive(mail, Taken(s, i)) /\ mail[s][i].seq \in Int
    BY <1>d
  <2>3. Passive(mail, mail')
    BY <1>c, <1>f, <1>g, <2>1, <2>2, PassiveTwice
  <2>4. ASSUME NEW gs PROVE [slave[s] EXCEPT !.files = gs, !.first = TRUE].loaded = slave[s].loaded
    BY <1>b DEF SlaveState
  <2>5. \A t \in Slaves : slave'[t].loaded = slave[t].loaded
    <3>1. CASE slave' = slave
      BY <3>1
    <3>2. ASSUME NEW gs, slave' = [slave EXCEPT ![s].files = gs, ![s].first = TRUE]
          PROVE  \A t \in Slaves : slave'[t].loaded = slave[t].loaded
      <4> DEFINE new == [slave[s] EXCEPT !.files = gs, !.first = TRUE]
      <4>1. slave' = [slave EXCEPT ![s] = new]
        BY <3>2
      <4>2. new.loaded = slave[s].loaded
        BY <2>4
      <4> HIDE DEF new
      <4> QED
        BY <1>0, <4>1, <4>2
    <3> QED
      BY <2>1, <3>1, <3>2
  <2>6. \A t \in Freed : ~slave'[t].loaded
    BY <2>5 DEF Freed
  <2>7. UNCHANGED mastervars
    BY <1>4 DEF Encode
  <2> QED
    BY <1>h, <2>3, <2>6, <2>7
<1>5. CASE OpenNext(s)
  <2>1. PICK i \in DOMAIN mail[s] :
          /\ mail[s][i].from = Master
          /\ \/ mail' = Post(Taken(s, i), Merger,
                             Msg(s, "JOIN", "add_remove", mail[s][i].seq, NextFile(s)))
             \/ mail' = Report(s, mail[s][i].seq, Taken(s, i))
             \/ mail' = EnterRing(s, 1, Taken(s, i))
          /\ \E new : slave' = [slave EXCEPT ![s] = new]
    BY <1>5 DEF OpenNext, Ordered
  <2>2. Taken(s, i) \in Boxes /\ Passive(mail, Taken(s, i)) /\ mail[s][i].seq \in Int
    BY <1>d
  <2>3. Passive(mail, mail')
    <3>1. CASE mail' = EnterRing(s, 1, Taken(s, i))
      <4>1. Passive(Taken(s, i), mail')
        BY <1>e, <2>2, <3>1
      <4> QED
        BY <2>2, <4>1, PassiveTwice
    <3>2. CASE mail' = Report(s, mail[s][i].seq, Taken(s, i))
      <4>1. Passive(Taken(s, i), mail')
        BY <1>f, <2>2, <3>2
      <4> QED
        BY <2>2, <4>1, PassiveTwice
    <3>3. CASE mail' = Post(Taken(s, i), Merger,
                            Msg(s, "JOIN", "add_remove", mail[s][i].seq, NextFile(s)))
      <4>1. Passive(Taken(s, i), mail')
        BY <1>c, <1>g, <2>2, <3>3
      <4> QED
        BY <2>2, <4>1, PassiveTwice
    <3> QED
      BY <2>1, <3>1, <3>2, <3>3
  <2>4. s \notin Freed
    <3>1. i \in 1 .. Len(mail[s])
      BY <1>0, <1>a, TakenOut
    <3> QED
      BY <2>1, <3>1 DEF Freed, Quiet
  <2>5. \A t \in Freed : ~slave'[t].loaded
    <3>1. \A t \in Slaves : t # s => slave'[t] = slave[t]
      BY <1>0, <2>1
    <3> QED
      BY <2>4, <3>1 DEF Freed
  <2>6. UNCHANGED mastervars
    BY <1>5 DEF OpenNext
  <2> QED
    BY <1>h, <2>3, <2>5, <2>6
<1> QED
  BY <1>1, <1>2, <1>3, <1>4, <1>5

\* The end of a chunk: the slave joins the free ones.
LEMMA ChunkEnds ==
    ASSUME ClusterTypeOK, FreeInv, NEW s \in Slaves, CloseChunk(s)
    PROVE  FreeInv'
<1>0. mail \in Boxes /\ slave \in [Slaves -> SlaveState] /\ used \in [Slaves -> Int]
  BY DEF ClusterTypeOK
<1>a. s \in Tasks /\ s # Master
  BY TaskFacts
<1>b. UNCHANGED <<order, current, used, chunk>>
  BY DEF CloseChunk, mastervars
<1>1. PICK i \in DOMAIN mail[s] :
        /\ Ordered(s, "WORK", i) /\ mail[s][i].opt = "restart1"
        /\ \/ /\ slave' = [slave EXCEPT ![s].loaded = FALSE, ![s].ready = FALSE]
              /\ mail' = Post(Taken(s, i), Master,
                              Msg(s, "ENDTASK", "", mail[s][i].seq, 0))
           \/ /\ slave' = [slave EXCEPT ![s].ready = FALSE]
              /\ mail' = Report(s, mail[s][i].seq, Taken(s, i))
  BY DEF CloseChunk
<1> DEFINE q == mail[s][i].seq
<1>2. /\ Taken(s, i) \in Boxes /\ Passive(mail, Taken(s, i)) /\ q \in Int
      /\ \A t \in Tasks : t # s => Taken(s, i)[t] = mail[t]
      /\ Taken(s, i)[s] = RemoveAt(mail[s], i)
      /\ mail[s] \in Seq(Message) /\ i \in 1 .. Len(mail[s])
  <2>1. /\ mail[s][i] \in Message /\ Taken(s, i) \in Boxes
        /\ \A t \in Tasks : t # s => Taken(s, i)[t] = mail[t]
        /\ Taken(s, i)[s] = RemoveAt(mail[s], i)
        /\ mail[s] \in Seq(Message) /\ i \in 1 .. Len(mail[s])
    BY <1>0, <1>a, TakenOut
  <2> QED
    BY <1>0, <1>a, <2>1, TakenPassive DEF Message
<1>3. CASE /\ slave' = [slave EXCEPT ![s].ready = FALSE]
           /\ mail' = Report(s, q, Taken(s, i))
  <2> DEFINE m == Msg(s, "REPLY", "", q, -1)
  <2>1. m \in Message /\ m.tag = "REPLY"
    <3>1. -1 \in Int /\ "REPLY" \in Tags /\ "" \in Options
      BY TagFacts
    <3>2. m \in Message
      <4> HIDE DEF q
      <4>1. q \in Int
        BY <1>2
      <4> QED
        BY <1>a, <3>1, <4>1, MsgType
    <3>3. m.tag = "REPLY"
      BY DEF Msg
    <3> QED
      BY <3>2, <3>3
  <2>2. mail' = Post(Taken(s, i), Master, m)
    BY <1>3 DEF Report
  <2> HIDE DEF m, q
  <2>3. Passive(mail, mail')
    <3>1. Passive(Taken(s, i), mail')
      BY <1>2, <2>1, <2>2, TaskFacts, PostPassive
    <3> QED
      BY <1>2, <3>1, PassiveTwice
  <2>4. \A t \in Slaves : slave'[t].loaded = slave[t].loaded
    <3>1. slave' = [slave EXCEPT ![s] = [slave[s] EXCEPT !.ready = FALSE]]
      BY <1>3
    <3>2. [slave[s] EXCEPT !.ready = FALSE].loaded = slave[s].loaded
      BY <1>0 DEF SlaveState
    <3> QED
      BY <1>0, <3>1, <3>2
  <2>5. \A t \in Freed : ~slave'[t].loaded
    BY <2>4 DEF Freed
  <2> QED
    BY <1>b, <2>3, <2>5, PassiveKeeps
<1>4. CASE /\ slave' = [slave EXCEPT ![s].loaded = FALSE, ![s].ready = FALSE]
           /\ mail' = Post(Taken(s, i), Master, Msg(s, "ENDTASK", "", q, 0))
  <2> DEFINE m == Msg(s, "ENDTASK", "", q, 0)
  <2>1. m \in Message /\ m.tag = "ENDTASK" /\ m.seq = q
    <3>1. 0 \in Int /\ "ENDTASK" \in Tags /\ "" \in Options
      BY TagFacts
    <3>2. m \in Message
      <4> HIDE DEF q
      <4>1. q \in Int
        BY <1>2
      <4> QED
        BY <1>a, <3>1, <4>1, MsgType
    <3>3. m.tag = "ENDTASK" /\ m.seq = q
      BY DEF Msg
    <3> QED
      BY <3>2, <3>3
  <2>2. mail' = Post(Taken(s, i), Master, m)
    BY <1>4
  <2> HIDE DEF m, q
  <2>3. /\ \A t \in Slaves : mail'[t] = Taken(s, i)[t]
        /\ mail'[Master] = Append(mail[Master], m)
        /\ mail[Master] \in Seq(Message)
    <3>1. /\ \A t \in Tasks : t # Master => mail'[t] = Taken(s, i)[t]
          /\ mail'[Master] = Append(Taken(s, i)[Master], m)
      BY <1>2, <2>1, <2>2, TaskFacts, Posted
    <3>2. Taken(s, i)[Master] = mail[Master] /\ mail[Master] \in Seq(Message)
      BY <1>0, <1>2, <1>a, TaskFacts DEF Boxes
    <3> QED
      BY <3>1, <3>2, TaskFacts
  <2> SUFFICES ASSUME order' \in Working
               PROVE  /\ ChunksApart'
                      /\ \A t \in Slaves : Closing(mail'[t], used'[t], Complete(t)')
                      /\ EndsIn(mail'[Master], {used'[t] : t \in Freed'})
    BY FreeInvNext
  <2>4. /\ ChunksApart
        /\ \A t \in Slaves : Closing(mail[t], used[t], Complete(t))
        /\ EndsIn(mail[Master], {used[t] : t \in Freed})
    BY <1>b DEF FreeInv, ClosedLast, Listed
  <2>5. \A t \in Slaves : Complete(t)' = Complete(t) /\ Complete(t) \in BOOLEAN
    BY <1>b DEF Complete
  <2>6. ChunksApart'
    BY <1>b, <2>4 DEF ChunksApart
  <2>7. ASSUME NEW t \in Slaves PROVE Closing(mail'[t], used'[t], Complete(t)')
    <3>1. used[t] \in Int /\ used'[t] = used[t]
      BY <1>0, <1>b
    <3>2. Closing(Taken(s, i)[t], used[t], Complete(t))
      BY <1>2, <2>4, <2>5, <3>1 DEF Passive
    <3> QED
      BY <2>3, <2>5, <3>1, <3>2
  <2>8. /\ Complete(s) /\ q = used[s]
        /\ \A j \in i + 1 .. Len(mail[s]) : mail[s][j].from # Master
    BY <1>1, <1>2, <2>4 DEF Closing, Ordered, q
  <2>9. \A j \in 1 .. i - 1 : mail[s][j].from # Master
    BY <1>1 DEF Ordered, Receivable
  <2>10. Quiet(mail'[s])
    <3> DEFINE r == RemoveAt(mail[s], i)
    <3>0. Len(mail[s]) \in Nat /\ mail[s] \in Seq(Message)
      BY <1>2
    <3>1. /\ Len(r) = Len(mail[s]) - 1
          /\ \A k \in 1 .. Len(mail[s]) - 1 :
                r[k] = IF k < i THEN mail[s][k] ELSE mail[s][k + 1]
      BY <1>2, <3>0, Removed
    <3> HIDE DEF r
    <3>2. ASSUME NEW k \in 1 .. Len(r) PROVE r[k].from # Master
      <4>1. CASE k < i
        BY <1>2, <2>9, <3>0, <3>1, <4>1
      <4>2. CASE ~(k < i)
        <5>1. k + 1 \in i + 1 .. Len(mail[s]) /\ r[k] = mail[s][k + 1]
          BY <1>2, <3>0, <3>1, <4>2
        <5> QED
          BY <2>8, <5>1
      <4> QED
        BY <4>1, <4>2
    <3>3. Quiet(r)
      BY <3>2 DEF Quiet
    <3> QED
      BY <1>2, <2>3, <3>3 DEF r
  <2>11. /\ \A t \in Slaves : t # s => slave'[t] = slave[t]
         /\ ~slave'[s].loaded
    <3>1. slave' = [slave EXCEPT ![s] = [slave[s] EXCEPT !.loaded = FALSE, !.ready = FALSE]]
      BY <1>4
    <3>2. [slave[s] EXCEPT !.loaded = FALSE, !.ready = FALSE].loaded = FALSE
      BY <1>0 DEF SlaveState
    <3> QED
      BY <1>0, <3>1, <3>2
  <2>12. \A t \in Freed : t # s
    <3>1. ~Quiet(mail[s])
      BY <1>1, <1>2 DEF Quiet, Ordered
    <3> QED
      BY <3>1 DEF Freed
  <2>13. q \notin {used[t] : t \in Freed}
    BY <2>4, <2>8, <2>12 DEF ChunksApart, Complete, Freed
  <2>14. s \in Freed' /\ \A t \in Freed : t \in Freed'
    <3>1. s \in Freed'
      BY <2>5, <2>8, <2>10, <2>11 DEF Freed, Complete
    <3>2. ASSUME NEW t \in Freed PROVE t \in Freed'
      <4>1. t \in Slaves /\ t # s /\ Complete(t) /\ Quiet(mail[t]) /\ ~slave[t].loaded
        BY <2>12 DEF Freed
      <4>2. mail'[t] = mail[t] /\ slave'[t] = slave[t]
        BY <1>2, <2>3, <2>11, <4>1, TaskFacts
      <4> QED
        BY <1>b, <4>1, <4>2 DEF Freed, Complete
    <3> QED
      BY <3>1, <3>2
  <2>15. EndsIn(mail'[Master], {used[t] : t \in Freed} \cup {q})
    BY <2>1, <2>3, <2>4, <2>13, EndsAppended
  <2>16. {used[t] : t \in Freed} \cup {q} \subseteq {used'[t] : t \in Freed'}
    BY <1>b, <2>8, <2>14
  <2>17. EndsIn(mail'[Master], {used'[t] : t \in Freed'})
    BY <2>15, <2>16 DEF EndsIn
  <2> QED
    BY <2>6, <2>7, <2>17
<1> QED
  BY <1>1, <1>3, <1>4

\* The broadcasts: before the first frame no slave has a chunk.
LEMMA CastFree ==
    ASSUME ClusterTypeOK, FreeInv, MultiSend \/ MultiSent
    PROVE  FreeInv'
<1> SUFFICES ASSUME order' \in Working
             PROVE  /\ ChunksApart'
                    /\ \A t \in Slaves : Closing(mail'[t], used'[t], Complete(t)')
                    /\ EndsIn(mail'[Master], {used'[t] : t \in Freed'})
  BY FreeInvNext
<1>0. mail \in Boxes /\ castSeq \in Int /\ sendSeq \in Int /\ used \in [Slaves -> Int]
  BY DEF ClusterTypeOK
<1>1. order \in Early
  <2>1. CASE MultiSend
    BY <2>1 DEF MultiSend, Working, Early, Casts
  <2>2. CASE MultiSent
    <3>1. /\ order \in Casts
          /\ order' = "over" \/ order' = FollowingCast[order]
      BY <2>2 DEF MultiSent
    <3>2. order = "close" => FollowingCast[order] = "run"
      BY DEF FollowingCast
    <3>3. order = "stop" => FollowingCast[order] = "over"
      BY DEF FollowingCast
    <3> QED
      BY <3>1, <3>2, <3>3 DEF Working, Early, Casts
  <2> QED
    BY <2>1, <2>2
<1>2. UNCHANGED <<current, used, chunk>> /\ order' # "first-free"
  <2>1. CASE MultiSend
    BY <1>1, <2>1 DEF MultiSend, Early
  <2>2. CASE MultiSent
    <3>1. /\ order \in Casts /\ UNCHANGED <<current, used, chunk>>
          /\ order' = "over" \/ order' = FollowingCast[order]
      BY <2>2 DEF MultiSent
    <3>2. FollowingCast[order] # "first-free"
      BY <1>1 DEF FollowingCast, Early
    <3> QED
      BY <3>1, <3>2
  <2> QED
    BY <2>1, <2>2
<1>3. /\ ChunksApart /\ \A t \in Slaves : used[t] = NoTask
      /\ \A t \in Slaves : Closing(mail[t], used[t], Complete(t))
      /\ EndsIn(mail[Master], {used[t] : t \in Freed})
  BY <1>1 DEF FreeInv, ClosedLast, Listed, Working, ChunksApart
<1>4. \A t \in Slaves : ~Complete(t) /\ ~Complete(t)'
  BY <1>2, <1>3 DEF Complete
<1>5. ChunksApart'
  BY <1>2, <1>3 DEF ChunksApart
<1>6. \A t \in Slaves : Closing(mail[t], used[t], FALSE)
  BY <1>3, <1>4 DEF Closing
<1>7. {used[t] : t \in Freed} = {} /\ EndsIn(mail[Master], {})
  <2>1. Freed = {}
    BY <1>4 DEF Freed
  <2>2. {used[t] : t \in Freed} = {}
    BY <2>1
  <2> QED
    BY <1>3, <2>2
<1>8. ASSUME \A t \in Slaves : Closing(mail'[t], used[t], FALSE), EndsIn(mail'[Master], {})
      PROVE  /\ ChunksApart'
             /\ \A t \in Slaves : Closing(mail'[t], used'[t], Complete(t)')
             /\ EndsIn(mail'[Master], {used'[t] : t \in Freed'})
  <2>1. ASSUME NEW t \in Slaves PROVE Closing(mail'[t], used'[t], Complete(t)')
    BY <1>2, <1>4, <1>8 DEF Closing
  <2>2. EndsIn(mail'[Master], {used'[t] : t \in Freed'})
    BY <1>8 DEF EndsIn
  <2> QED
    BY <1>5, <2>1, <2>2
<1>9. CASE MultiSend
  <2> DEFINE m == Msg(Master, "CONF", order, castSeq', 0)
  <2>1. castSeq' \in Int /\ order \in Options
    <3>1. castSeq' = castSeq + 1 /\ order \in Casts
      BY <1>9 DEF MultiSend
    <3>2. castSeq' \in Int
      BY <1>0, <3>1
    <3> QED
      BY <3>1, <3>2, TagFacts
  <2>2. m \in Message /\ m.opt # "restart1"
    <3>1. "CONF" \in Tags /\ 0 \in Int /\ Master \in Tasks
      BY TagFacts, TaskFacts
    <3>2. m \in Message
      BY <2>1, <3>1, MsgType
    <3>3. m.opt = order
      BY DEF Msg
    <3> QED
      BY <1>1, <3>2, <3>3 DEF Early
  <2>3. mail' = [t \in Tasks |-> IF t \in Slaves THEN Append(mail[t], m) ELSE mail[t]]
    BY <1>9 DEF MultiSend
  <2> HIDE DEF m
  <2>4. ASSUME NEW t \in Slaves PROVE Closing(mail'[t], used[t], FALSE)
    <3>1. mail[t] \in Seq(Message) /\ mail'[t] = Append(mail[t], m)
      BY <1>0, <2>3, TaskFacts DEF Boxes
    <3> QED
      BY <1>6, <2>2, <3>1, ClosingAppended
  <2>5. mail'[Master] = mail[Master]
    BY <2>3, TaskFacts
  <2> QED
    BY <1>7, <1>8, <2>4, <2>5
<1>10. CASE MultiSent
  <2>1. PICK i \in Receivable(Master, LAMBDA m : m.tag = "RING" /\ m.seq = castSeq) :
          mail' = Taken(Master, i) \/ mail' = ToMerger(Taken(Master, i))
    BY <1>10 DEF MultiSent
  <2>2. i \in DOMAIN mail[Master]
    BY DEF Receivable
  <2>3. Taken(Master, i) \in Boxes /\ Passive(mail, Taken(Master, i))
    BY <1>0, <2>2, TaskFacts, TakenPassive
  <2> DEFINE m == Msg(Master, "WORK", "join_init", sendSeq + 1, 0)
             n == Msg(Master, "WORK", "run", sendSeq + 1, 0)
  <2>4. m \in Message /\ n \in Message
    <3>1. sendSeq + 1 \in Int
      BY <1>0
    <3>2. /\ "WORK" \in Tags /\ "join_init" \in Options /\ "run" \in Options
          /\ 0 \in Int /\ Master \in Tasks
      BY TagFacts, TaskFacts
    <3> QED
      BY <3>1, <3>2, MsgType
  <2>5. \/ mail' = Taken(Master, i) \/ mail' = Post(Taken(Master, i), Merger, m)
        \/ mail' = Post(Taken(Master, i), Merger, n)
    BY <2>1 DEF ToMerger
  <2> HIDE DEF m, n
  <2>6. /\ Passive(Taken(Master, i), Post(Taken(Master, i), Merger, m))
        /\ Passive(Taken(Master, i), Post(Taken(Master, i), Merger, n))
    BY <2>3, <2>4, TaskFacts, PostPassive
  <2>7. Passive(mail, mail')
    BY <2>3, <2>5, <2>6, PassiveTwice
  <2>8. ASSUME NEW t \in Slaves PROVE Closing(mail'[t], used[t], FALSE)
    <3>1. used[t] \in Int /\ FALSE \in BOOLEAN
      BY <1>0
    <3> QED
      BY <1>6, <2>7, <3>1 DEF Passive
  <2>9. EndsIn(mail'[Master], {})
    BY <1>7, <2>7 DEF Passive
  <2> QED
    BY <1>8, <2>8, <2>9
<1> QED
  BY <1>9, <1>10

\* A frame is handed over, the last one of a chunk with its end.
LEMMA HandOverFree ==
    ASSUME ClusterTypeOK, FreeInv, HandOver
    PROVE  FreeInv'
<1>0. /\ mail \in Boxes /\ chunk \in Nat /\ given \in Nat /\ current \in Slaves
      /\ used \in [Slaves -> Int]
  BY DEF ClusterTypeOK
<1> DEFINE m == Msg(Master, "WORK", "encode", chunk, given')
           n == Msg(Master, "WORK", "restart1", chunk, 0)
<1>1. /\ order = "encode" /\ used' = [used EXCEPT ![current] = chunk]
      /\ UNCHANGED <<current, chunk, slave>>
      /\ \/ mail' = Post(mail, current, m) /\ order' = "encode"
         \/ mail' = Post(Post(mail, current, m), current, n) /\ order' = "first-free"
  BY DEF HandOver
<1>2. m \in Message /\ n \in Message /\ m.opt # "restart1" /\ n.seq = chunk
  <2>1. given' \in Int /\ chunk \in Int
    BY <1>0 DEF HandOver
  <2>2. /\ "WORK" \in Tags /\ "encode" \in Options /\ "restart1" \in Options
        /\ 0 \in Int /\ Master \in Tasks
    BY TagFacts, TaskFacts
  <2>3. m \in Message /\ n \in Message
    BY <2>1, <2>2, MsgType
  <2>4. m.opt = "encode" /\ n.seq = chunk
    BY DEF Msg
  <2> QED
    BY <2>3, <2>4
<1> HIDE DEF m, n
<1>3. /\ ChunksApart
      /\ \A t \in Slaves : Closing(mail[t], used[t], Complete(t))
      /\ EndsIn(mail[Master], {used[t] : t \in Freed})
  BY <1>1 DEF FreeInv, ClosedLast, Listed, Working
<1> SUFFICES ASSUME order' \in Working
             PROVE  /\ ChunksApart'
                    /\ \A t \in Slaves : Closing(mail'[t], used'[t], Complete(t)')
                    /\ EndsIn(mail'[Master], {used'[t] : t \in Freed'})
  BY FreeInvNext
<1>4. /\ used'[current] = chunk /\ chunk # NoTask /\ chunk \in 0 .. chunk
      /\ \A t \in Slaves : t # current => used'[t] = used[t]
  BY <1>0, <1>1 DEF NoTask
<1>5. ChunksApart'
  <2>1. \A t \in Slaves : t # current /\ used[t] # NoTask => used[t] # chunk
        /\ used[t] \in 0 .. chunk
    BY <1>3 DEF ChunksApart
  <2>2. ASSUME NEW t \in Slaves, NEW u \in Slaves, used'[t] = used'[u], used'[t] # NoTask
        PROVE  t = u
    BY <1>3, <1>4, <2>1, <2>2 DEF ChunksApart
  <2>3. ASSUME NEW t \in Slaves, used'[t] # NoTask
        PROVE  used'[t] \in 0 .. chunk' /\ (used'[t] = chunk' => t = current')
    <3>1. CASE t = current
      BY <1>1, <1>4, <3>1
    <3>2. CASE t # current
      BY <1>1, <1>4, <2>1, <2>3, <3>2
    <3> QED
      BY <3>1, <3>2
  <2>4. order' \notin Early /\ used'[current'] = chunk'
    BY <1>1, <1>4 DEF Early
  <2> QED
    BY <2>2, <2>3, <2>4 DEF ChunksApart, Slaves, NoTask
<1>6. ~Complete(current) /\ current \in Tasks /\ current # Master
  BY <1>0, <1>1, TaskFacts DEF Complete
<1>7. /\ \A t \in Tasks : t # current => mail'[t] = mail[t]
      /\ Closing(mail'[current], chunk, order' = "first-free")
  <2>1. mail[current] \in Seq(Message)
    BY <1>0, <1>6 DEF Boxes
  <2>2. /\ Post(mail, current, m) \in Boxes
        /\ \A t \in Tasks : t # current => Post(mail, current, m)[t] = mail[t]
        /\ Post(mail, current, m)[current] = Append(mail[current], m)
    BY <1>0, <1>2, <1>6, Posted
  <2>3. Append(mail[current], m) \in Seq(Message)
    BY <1>2, <2>1, AppendProperties
  <2>4. Closing(mail[current], chunk, FALSE)
    BY <1>0, <1>3, <1>6 DEF Closing
  <2>5. Closing(Append(mail[current], m), chunk, FALSE)
    BY <1>2, <2>1, <2>4, ClosingAppended
  <2>6. CASE mail' = Post(mail, current, m) /\ order' = "encode"
    <3>1. (order' = "first-free") = FALSE
      BY <2>6
    <3> QED
      BY <2>2, <2>5, <2>6, <3>1
  <2>7. CASE mail' = Post(Post(mail, current, m), current, n) /\ order' = "first-free"
    <3>1. (order' = "first-free") = TRUE
      BY <2>7
    <3>2. /\ \A t \in Tasks : t # current => mail'[t] = Post(mail, current, m)[t]
          /\ mail'[current] = Append(Append(mail[current], m), n)
      <4> DEFINE box == Post(mail, current, m)
      <4>1. box \in Boxes /\ box[current] = Append(mail[current], m)
        BY <2>2
      <4>2. mail' = Post(box, current, n)
        BY <2>7
      <4> HIDE DEF box
      <4>3. /\ \A t \in Tasks : t # current => mail'[t] = box[t]
            /\ mail'[current] = Append(box[current], n)
        BY <1>2, <1>6, <4>1, <4>2, Posted
      <4> QED
        BY <4>1, <4>3 DEF box
    <3>3. Closing(Append(Append(mail[current], m), n), chunk, TRUE)
      BY <1>2, <2>3, <2>5, ClosingAppended
    <3> QED
      BY <2>2, <3>1, <3>2, <3>3
  <2> QED
    BY <1>1, <2>6, <2>7
<1>8. /\ Complete(current)' = (order' = "first-free")
      /\ \A t \in Slaves : t # current => Complete(t)' = Complete(t)
  <2>1. Complete(current)' = (order' = "first-free")
    BY <1>1, <1>4 DEF Complete, NoTask
  <2>2. ASSUME NEW t \in Slaves, t # current PROVE Complete(t)' = Complete(t)
    BY <1>1, <1>4, <2>2 DEF Complete, NoTask
  <2> QED
    BY <2>1, <2>2
<1>9. ASSUME NEW t \in Slaves PROVE Closing(mail'[t], used'[t], Complete(t)')
  <2>1. CASE t = current
    <3>1. Complete(t)' = (order' = "first-free")
      <4>1. Complete(t)' = (used'[t] # NoTask /\ (t = current' => order' = "first-free"))
        BY DEF Complete, NoTask
      <4> QED
        BY <1>1, <1>4, <2>1, <4>1
    <3> QED
      BY <1>4, <1>7, <2>1, <3>1
  <2>2. CASE t # current
    <3>1. mail'[t] = mail[t]
      BY <1>7, <2>2, TaskFacts
    <3> QED
      BY <1>3, <1>4, <1>8, <2>2, <3>1
  <2> QED
    BY <2>1, <2>2
<1>10. EndsIn(mail'[Master], {used'[t] : t \in Freed'})
  <2>1. ASSUME NEW t \in Freed PROVE t \in Freed' /\ used'[t] = used[t]
    <3>1. t \in Slaves /\ t # current /\ Complete(t) /\ Quiet(mail[t]) /\ ~slave[t].loaded
      BY <1>6 DEF Freed
    <3>2. mail'[t] = mail[t] /\ slave'[t] = slave[t] /\ Complete(t)' /\ used'[t] = used[t]
      BY <1>1, <1>4, <1>7, <1>8, <3>1, TaskFacts
    <3> QED
      BY <3>1, <3>2 DEF Freed
  <2>2. {used[t] : t \in Freed} \subseteq {used'[t] : t \in Freed'}
    BY <2>1
  <2>3. mail'[Master] = mail[Master]
    BY <1>6, <1>7, TaskFacts
  <2> QED
    BY <1>3, <2>2, <2>3 DEF EndsIn
<1> QED
  BY <1>5, <1>9, <1>10

\* Slave t, which has nothing to do, gets the next chunk; its report is taken
\* out of the mail of the master, if it is there.
LEMMA RestartFree ==
    ASSUME ClusterTypeOK, FreeInv, order = "first-free", NEW t \in Slaves, NEW box \in Boxes,
           Restart(t, box), Passive(mail, box), Closing(box[t], used[t], FALSE),
           EndsIn(box[Master], {used[u] : u \in Freed \ {t}})
    PROVE  FreeInv'
<1>0. /\ chunk \in Nat /\ used \in [Slaves -> Int] /\ t \in Tasks /\ t # Master
  BY TaskFacts DEF ClusterTypeOK
<1> DEFINE m == Msg(Master, "WORK", "restart2", chunk + 1, 0)
<1>1. /\ current' = t /\ chunk' = chunk + 1 /\ order' = "encode"
      /\ mail' = Post(box, t, m) /\ UNCHANGED <<used, slave>>
  BY DEF Restart
<1>2. m \in Message /\ m.opt # "restart1"
  <2>1. chunk + 1 \in Int
    BY <1>0
  <2>2. "WORK" \in Tags /\ "restart2" \in Options /\ 0 \in Int /\ Master \in Tasks
    BY TagFacts, TaskFacts
  <2>3. m \in Message
    BY <2>1, <2>2, MsgType
  <2>4. m.opt = "restart2"
    BY DEF Msg
  <2> QED
    BY <2>3, <2>4
<1> HIDE DEF m
<1>3. /\ \A u \in Tasks : u # t => mail'[u] = box[u]
      /\ mail'[t] = Append(box[t], m) /\ box[t] \in Seq(Message)
  BY <1>0, <1>1, <1>2, Posted DEF Boxes
<1>4. /\ ChunksApart
      /\ \A u \in Slaves : Closing(mail[u], used[u], Complete(u))
  BY DEF FreeInv, ClosedLast, Working
<1>5. /\ ~Complete(t)'
      /\ \A u \in Slaves : u # t => Complete(u)' = Complete(u) /\ Complete(u) \in BOOLEAN
  <2>1. ~Complete(t)'
    BY <1>1 DEF Complete
  <2>2. ASSUME NEW u \in Slaves, u # t PROVE Complete(u)' = Complete(u) /\ Complete(u) \in BOOLEAN
    BY <1>1, <2>2 DEF Complete, NoTask
  <2> QED
    BY <2>1, <2>2
<1> SUFFICES ASSUME order' \in Working
             PROVE  /\ ChunksApart'
                    /\ \A u \in Slaves : Closing(mail'[u], used'[u], Complete(u)')
                    /\ EndsIn(mail'[Master], {used'[u] : u \in Freed'})
  BY FreeInvNext
<1>6. ChunksApart'
  <2>1. ASSUME NEW u \in Slaves, used[u] # NoTask
        PROVE  used[u] \in 0 .. chunk + 1 /\ used[u] # chunk + 1
    <3>1. used[u] \in 0 .. chunk
      BY <1>4, <2>1 DEF ChunksApart
    <3> QED
      BY <1>0, <3>1
  <2>2. order' # "first-free" /\ order' \notin Early
    BY <1>1 DEF Early
  <2>3. \A u, v \in Slaves : used'[u] = used'[v] /\ used'[u] # NoTask => u = v
    BY <1>1, <1>4 DEF ChunksApart
  <2>4. \A u \in Slaves :
           used'[u] # NoTask => used'[u] \in 0 .. chunk' /\ (used'[u] = chunk' => u = current')
    BY <1>1, <2>1
  <2> QED
    BY <2>2, <2>3, <2>4 DEF ChunksApart, Slaves, NoTask
<1>7. ASSUME NEW u \in Slaves PROVE Closing(mail'[u], used'[u], Complete(u)')
  <2>1. CASE u = t
    <3>1. Closing(mail'[t], used[t], FALSE)
      BY <1>2, <1>3, ClosingAppended
    <3>2. Complete(u)' = FALSE
      <4>1. Complete(u)' = (used'[u] # NoTask /\ (u = current' => order' = "first-free"))
        BY DEF Complete, NoTask
      <4> QED
        BY <1>1, <2>1, <4>1
    <3> QED
      BY <1>1, <2>1, <3>1, <3>2
  <2>2. CASE u # t
    <3>1. Closing(box[u], used[u], Complete(u))
      BY <1>0, <1>4, <1>5, <2>2 DEF Passive
    <3>2. mail'[u] = box[u]
      BY <1>3, <2>2, TaskFacts
    <3> QED
      BY <1>1, <1>5, <2>2, <3>1, <3>2
  <2> QED
    BY <2>1, <2>2
<1>8. EndsIn(mail'[Master], {used'[u] : u \in Freed'})
  <2>1. ASSUME NEW u \in Freed \ {t} PROVE u \in Freed'
    <3>1. u \in Slaves /\ u # t /\ Complete(u) /\ Quiet(mail[u]) /\ ~slave[u].loaded
      BY DEF Freed
    <3>2. mail'[u] = box[u] /\ Quiet(box[u])
      BY <1>3, <3>1, TaskFacts DEF Passive
    <3> QED
      BY <1>1, <1>5, <3>1, <3>2 DEF Freed
  <2>2. {used[u] : u \in Freed \ {t}} \subseteq {used'[u] : u \in Freed'}
    BY <1>1, <2>1
  <2>3. mail'[Master] = box[Master]
    BY <1>0, <1>3, TaskFacts
  <2> QED
    BY <2>2, <2>3 DEF EndsIn
<1> QED
  BY <1>6, <1>7, <1>8

\* Nobody but the owner of the chunk is found in the table.
LEMMA OwnerFree ==
    ASSUME ClusterTypeOK, FreeInv, order = "first-free",
           NEW i \in DOMAIN mail[Master], mail[Master][i].tag = "ENDTASK"
    PROVE  \E t \in Freed : WhoHad(mail[Master][i].seq) = {t}
<1>1. /\ ChunksApart
      /\ EndsIn(mail[Master], {used[u] : u \in Freed})
  BY DEF FreeInv, Listed, Working
<1>2. i \in 1 .. Len(mail[Master])
  BY TaskFacts, TakenOut DEF ClusterTypeOK
<1>3. PICK t \in Freed : mail[Master][i].seq = used[t]
  BY <1>1, <1>2 DEF EndsIn
<1>4. used[t] # NoTask /\ t \in Slaves
  BY DEF Freed, Complete
<1>5. WhoHad(used[t]) = {t}
  BY <1>1, <1>4 DEF WhoHad, ChunksApart
<1> QED
  BY <1>3, <1>5

LEMMA TakeFree ==
    ASSUME ClusterTypeOK, FreeInv, TakeUnused \/ TakeEnded
    PROVE  FreeInv'
<1>0. mail \in Boxes /\ used \in [Slaves -> Int] /\ order = "first-free" /\ current \in Slaves
  BY DEF ClusterTypeOK, TakeUnused, TakeEnded
<1>1. /\ ChunksApart
      /\ \A t \in Slaves : Closing(mail[t], used[t], Complete(t))
      /\ EndsIn(mail[Master], {used[t] : t \in Freed})
  BY <1>0 DEF FreeInv, ClosedLast, Listed, Working
<1>2. CASE TakeUnused
  <2> DEFINE t == Candidate
  <2>1. t \in Slaves /\ used[t] = NoTask /\ Restart(t, mail)
    BY <1>0, <1>2, CandidateIn DEF TakeUnused
  <2> HIDE DEF t
  <2>2. ~Complete(t)
    BY <2>1 DEF Complete
  <2>3. Closing(mail[t], used[t], FALSE)
    BY <1>1, <2>1, <2>2 DEF Closing
  <2>4. Freed \ {t} = Freed
    BY <2>2 DEF Freed
  <2>5. Passive(mail, mail)
    BY DEF Passive
  <2>6. EndsIn(mail[Master], {used[u] : u \in Freed \ {t}})
    BY <1>1, <2>4
  <2> QED
    BY <1>0, <2>1, <2>3, <2>5, <2>6, RestartFree
<1>3. CASE TakeEnded
  <2>1. PICK i \in Receivable(Master, LAMBDA m : m.tag = "ENDTASK") :
          Restart(Min(WhoHad(mail[Master][i].seq)), Taken(Master, i))
    BY <1>3 DEF TakeEnded
  <2>2. i \in DOMAIN mail[Master] /\ mail[Master][i].tag = "ENDTASK"
    BY DEF Receivable
  <2> DEFINE q == mail[Master][i].seq
  <2>3. PICK t \in Freed : WhoHad(q) = {t}
    BY <1>0, <2>2, OwnerFree
  <2>4. t \in Slaves /\ Quiet(mail[t]) /\ used[t] = q /\ used[t] # NoTask
    <3>1. t \in WhoHad(q)
      BY <2>3
    <3> QED
      BY <3>1 DEF Freed, WhoHad, Complete
  <2>5. Min(WhoHad(q)) = t
    <3> HIDE DEF q
    <3>1. {t} \in SUBSET Nat
      BY <2>4, TaskFacts DEF Slaves
    <3>2. Min({t}) \in {t}
      BY <3>1, MinLeast
    <3> QED
      BY <2>3, <3>2
  <2>6. /\ Taken(Master, i) \in Boxes /\ Passive(mail, Taken(Master, i))
        /\ Taken(Master, i)[t] = mail[t]
        /\ Taken(Master, i)[Master] = RemoveAt(mail[Master], i)
        /\ mail[Master] \in Seq(Message) /\ i \in 1 .. Len(mail[Master])
    <3>1. Passive(mail, Taken(Master, i))
      BY <1>0, <2>2, TaskFacts, TakenPassive
    <3> QED
      BY <1>0, <2>2, <2>4, <3>1, TaskFacts, TakenOut
  <2>7. Closing(Taken(Master, i)[t], used[t], FALSE)
    BY <2>4, <2>6 DEF Quiet, Closing
  <2>8. EndsIn(RemoveAt(mail[Master], i), {used[u] : u \in Freed} \ {q})
    BY <1>1, <2>2, <2>6, EndsRemoved
  <2>9. {used[u] : u \in Freed} \ {q} \subseteq {used[u] : u \in Freed \ {t}}
    BY <2>4
  <2>10. EndsIn(Taken(Master, i)[Master], {used[u] : u \in Freed \ {t}})
    BY <2>6, <2>8, <2>9 DEF EndsIn
  <2>11. Restart(t, Taken(Master, i))
    BY <2>1, <2>5
  <2> QED
    BY <1>0, <2>4, <2>6, <2>7, <2>10, <2>11, RestartFree
<1> QED
  BY <1>2, <1>3

LEMMA FreeInit == ClusterInit => FreeInv
<1> SUFFICES ASSUME ClusterInit PROVE FreeInv
  OBVIOUS
<1>1. /\ order = "version" /\ used = [s \in Slaves |-> NoTask]
      /\ mail = [t \in Tasks |-> <<>>]
  BY DEF ClusterInit
<1>2. \A t \in Tasks : Len(mail[t]) = 0 /\ 1 .. Len(mail[t]) = {}
  BY <1>1
<1>3. ChunksApart
  BY <1>1 DEF ChunksApart
<1>4. ClosedLast
  BY <1>2, TaskFacts DEF ClosedLast, Closing
<1>5. Listed
  BY <1>2, TaskFacts DEF Listed, EndsIn
<1> QED
  BY <1>3, <1>4, <1>5 DEF FreeInv

LEMMA FreeStep == ClusterTypeOK /\ FreeInv /\ [ClusterNext]_clustervars => FreeInv'
<1> SUFFICES ASSUME ClusterTypeOK, FreeInv, [ClusterNext]_clustervars PROVE FreeInv'
  OBVIOUS
<1>1. CASE UNCHANGED clustervars
  <2>1. Passive(mail, mail') /\ UNCHANGED <<order, current, used, chunk>> /\ UNCHANGED slave
    BY <1>1 DEF clustervars, mastervars, Passive
  <2>2. \A t \in Freed : ~slave'[t].loaded
    BY <2>1 DEF Freed
  <2> QED
    BY <2>1, <2>2, PassiveKeeps
<1>2. CASE CloseCodec
  <2>1. order' \notin Working
    BY <1>2 DEF CloseCodec, Working, Early
  <2> QED
    BY <2>1, FreeInvNext
<1>3. CASE MergerDone
  <2>1. order' \notin Working
    BY <1>3 DEF MergerDone, Working, Early
  <2> QED
    BY <2>1, FreeInvNext
<1>4. CASE MasterStep
  BY <1>2, <1>3, <1>4, CastFree, HandOverFree, TakeFree DEF MasterStep
<1>5. ASSUME NEW s \in Slaves, SlaveStep(s) PROVE FreeInv'
  BY <1>5, SlaveFree, ChunkEnds DEF SlaveStep
<1> QED
  BY <1>1, <1>4, <1>5, MergerFree DEF ClusterNext

-----------------------------------------------------------------------------
(* What a step does to the mail.                                            *)

\* What must hold of a message of which another is behind it in the same mail:
\* what a chunk has sent comes before what closes the session, a slave is given
\* a chunk when it has nothing to do, frames come in their order, the order to
\* join comes after the files, and no two files are announced for one chunk.
Before(a, b) ==
    /\ a.tag = "CONF" => b.opt \notin {"encode", "restart1", "restart2"}
    /\ a.opt = "encode" /\ b.opt = "encode" => a.body < b.body
    /\ b.opt = "restart2" => a.from # Master
    /\ a.opt = "run" => b.opt # "add_elab"
    /\ a.opt = "add_elab" /\ b.opt = "add_elab" => a.seq # b.seq

Lined(q) == \A i, j \in 1 .. Len(q) : i < j => Before(q[i], q[j])

\* The messages of a mail.
LEMMA MailSet ==
    ASSUME NEW q \in Seq(Message)
    PROVE  /\ ToSet(q) \subseteq Message
           /\ \A i \in 1 .. Len(q) : q[i] \in ToSet(q)
           /\ \A x \in ToSet(q) : \E i \in 1 .. Len(q) : x = q[i]
<1>1. DOMAIN q = 1 .. Len(q)
  OBVIOUS
<1>2. \A i \in 1 .. Len(q) : q[i] \in Message
  BY ElementOfSeq
<1> QED
  BY <1>1, <1>2 DEF ToSet

LEMMA SetRemoved ==
    ASSUME NEW q \in Seq(Message), NEW i \in 1 .. Len(q)
    PROVE  /\ ToSet(RemoveAt(q, i)) \subseteq ToSet(q)
           /\ \A x \in ToSet(q) : x = q[i] \/ x \in ToSet(RemoveAt(q, i))
           /\ Lined(q) => Lined(RemoveAt(q, i))
           /\ Lined(q) /\ i = 1 => \A x \in ToSet(RemoveAt(q, i)) : Before(q[i], x)
<1> DEFINE r == RemoveAt(q, i)
<1>1. /\ r \in Seq(Message) /\ Len(r) = Len(q) - 1
      /\ \A k \in 1 .. Len(q) - 1 : r[k] = IF k < i THEN q[k] ELSE q[k + 1]
  BY Removed
<1>2. Len(q) \in Nat
  OBVIOUS
<1> HIDE DEF r
<1>3. /\ \A k \in 1 .. Len(q) : q[k] \in ToSet(q)
      /\ \A x \in ToSet(q) : \E k \in 1 .. Len(q) : x = q[k]
  BY MailSet
<1>4. /\ \A k \in 1 .. Len(r) : r[k] \in ToSet(r)
      /\ \A x \in ToSet(r) : \E k \in 1 .. Len(r) : x = r[k]
  BY <1>1, MailSet
<1>5. \A k \in 1 .. Len(r) : \E j \in 1 .. Len(q) :
         r[k] = q[j] /\ j = (IF k < i THEN k ELSE k + 1)
  <2> SUFFICES ASSUME NEW k \in 1 .. Len(r)
               PROVE  \E j \in 1 .. Len(q) : r[k] = q[j] /\ j = (IF k < i THEN k ELSE k + 1)
    OBVIOUS
  <2>1. k \in 1 .. Len(q) - 1
    BY <1>1
  <2>2. CASE k < i
    <3>1. r[k] = q[k] /\ k \in 1 .. Len(q)
      BY <1>1, <1>2, <2>1, <2>2
    <3> QED
      BY <2>2, <3>1
  <2>3. CASE ~(k < i)
    <3>1. r[k] = q[k + 1] /\ k + 1 \in 1 .. Len(q)
      BY <1>1, <1>2, <2>1, <2>3
    <3> QED
      BY <2>3, <3>1
  <2> QED
    BY <2>2, <2>3
<1>6. ASSUME NEW x \in ToSet(q), x # q[i] PROVE x \in ToSet(r)
  <2>1. PICK k \in 1 .. Len(q) : x = q[k]
    BY <1>3
  <2>2. k # i
    BY <1>6, <2>1
  <2>3. CASE k < i
    <3>1. k \in 1 .. Len(r) /\ r[k] = q[k]
      BY <1>1, <1>2, <2>3
    <3> QED
      BY <1>4, <2>1, <3>1
  <2>4. CASE k > i
    <3>1. k - 1 \in 1 .. Len(r) /\ r[k - 1] = q[k]
      BY <1>1, <1>2, <2>4
    <3> QED
      BY <1>4, <2>1, <3>1
  <2> QED
    BY <1>2, <2>2, <2>3, <2>4
<1>7. ASSUME Lined(q) PROVE Lined(r)
  <2> SUFFICES ASSUME NEW j \in 1 .. Len(r), NEW k \in 1 .. Len(r), j < k
               PROVE  Before(r[j], r[k])
    BY DEF Lined
  <2>1. PICK m \in 1 .. Len(q) : r[j] = q[m] /\ m = (IF j < i THEN j ELSE j + 1)
    BY <1>5
  <2>2. PICK n \in 1 .. Len(q) : r[k] = q[n] /\ n = (IF k < i THEN k ELSE k + 1)
    BY <1>5
  <2>3. m < n
    BY <1>1, <1>2, <2>1, <2>2
  <2> QED
    BY <1>7, <2>1, <2>2, <2>3 DEF Lined
<1>8. ASSUME Lined(q), i = 1, NEW x \in ToSet(r) PROVE Before(q[i], x)
  <2>1. PICK k \in 1 .. Len(r) : x = r[k]
    BY <1>4
  <2>2. k + 1 \in 1 .. Len(q) /\ r[k] = q[k + 1] /\ 1 < k + 1 /\ 1 \in 1 .. Len(q)
    BY <1>1, <1>2, <1>8
  <2> QED
    BY <1>8, <2>1, <2>2 DEF Lined
<1>9. ToSet(r) \subseteq ToSet(q)
  BY <1>3, <1>4, <1>5
<1> QED
  BY <1>6, <1>7, <1>8, <1>9 DEF r

LEMMA SetAppended ==
    ASSUME NEW q \in Seq(Message), NEW m \in Message
    PROVE  /\ ToSet(Append(q, m)) = ToSet(q) \cup {m}
           /\ Lined(q) /\ (\A x \in ToSet(q) : Before(x, m)) => Lined(Append(q, m))
<1> DEFINE r == Append(q, m)
<1>1. /\ r \in Seq(Message) /\ Len(r) = Len(q) + 1 /\ \A k \in 1 .. Len(q) : r[k] = q[k]
      /\ r[Len(q) + 1] = m
  BY AppendProperties
<1>2. Len(q) \in Nat
  OBVIOUS
<1> HIDE DEF r
<1>3. /\ \A k \in 1 .. Len(q) : q[k] \in ToSet(q)
      /\ \A x \in ToSet(q) : \E k \in 1 .. Len(q) : x = q[k]
  BY MailSet
<1>4. /\ \A k \in 1 .. Len(r) : r[k] \in ToSet(r)
      /\ \A x \in ToSet(r) : \E k \in 1 .. Len(r) : x = r[k]
  BY <1>1, MailSet
<1>5. \A k \in 1 .. Len(r) : k \in 1 .. Len(q) \/ k = Len(q) + 1
  BY <1>1, <1>2
<1>6. \A k \in 1 .. Len(q) : k \in 1 .. Len(r)
  BY <1>1, <1>2
<1>7. Len(q) + 1 \in 1 .. Len(r)
  BY <1>1, <1>2
<1>8. ToSet(r) = ToSet(q) \cup {m}
  BY <1>1, <1>3, <1>4, <1>5, <1>6, <1>7
<1>9. ASSUME Lined(q), \A x \in ToSet(q) : Before(x, m) PROVE Lined(r)
  <2> SUFFICES ASSUME NEW j \in 1 .. Len(r), NEW k \in 1 .. Len(r), j < k
               PROVE  Before(r[j], r[k])
    BY DEF Lined
  <2>1. j \in 1 .. Len(q) /\ r[j] = q[j]
    BY <1>1, <1>2
  <2>2. CASE k = Len(q) + 1
    BY <1>1, <1>3, <1>9, <2>1, <2>2
  <2>3. CASE k \in 1 .. Len(q)
    BY <1>1, <1>9, <2>1, <2>3 DEF Lined
  <2> QED
    BY <1>5, <2>2, <2>3
<1> QED
  BY <1>8, <1>9 DEF r

\* The messages P, pairs of the task they are for and the message, are all that
\* is new in the mail b, and nothing is missing but message m of task t.  The
\* mail stays in line when what is new is in line with what it is put behind.
Moved(a, b, t, m, P) ==
    /\ \A u \in Tasks : \A x \in ToSet(b[u]) : x \in ToSet(a[u]) \/ <<u, x>> \in P
    /\ \A u \in Tasks : \A x \in ToSet(a[u]) : x \in ToSet(b[u]) \/ (u = t /\ x = m)
    /\ \A u \in Tasks : \A x \in Message : <<u, x>> \in P => x \in ToSet(b[u])

KeepsLine(a, b, P) ==
    (\A u \in Tasks : Lined(a[u])) /\ (\A u \in Tasks : \A x \in Message, y \in ToSet(a[u]) :
                                          <<u, x>> \in P => Before(y, x))
       => \A u \in Tasks : Lined(b[u])

\* What is left was behind m.
Behind(b, t, m, P) == \A x \in ToSet(b[t]) : <<t, x>> \in P \/ Before(m, x)

Takes(b, t, i, P) ==
    /\ mail[t] \in Seq(Message) /\ i \in 1 .. Len(mail[t])
    /\ mail[t][i] \in Message /\ mail[t][i] \in ToSet(mail[t])
    /\ Moved(mail, b, t, mail[t][i], P) /\ KeepsLine(mail, b, P)
    /\ Lined(mail[t]) /\ i = 1 => Behind(b, t, mail[t][i], P)

LEMMA TakesOne ==
    ASSUME mail \in Boxes, NEW t \in Tasks, NEW i \in DOMAIN mail[t]
    PROVE  Takes(Taken(t, i), t, i, {}) /\ Taken(t, i) \in Boxes
<1> DEFINE b == Taken(t, i)
<1>1. /\ b \in Boxes /\ \A u \in Tasks : u # t => b[u] = mail[u]
      /\ b[t] = RemoveAt(mail[t], i) /\ mail[t] \in Seq(Message) /\ i \in 1 .. Len(mail[t])
      /\ mail[t][i] \in Message
  BY TakenOut
<1> HIDE DEF b
<1>2. mail[t][i] \in ToSet(mail[t])
  BY <1>1, MailSet
<1>3. /\ ToSet(b[t]) \subseteq ToSet(mail[t])
      /\ \A x \in ToSet(mail[t]) : x = mail[t][i] \/ x \in ToSet(b[t])
      /\ Lined(mail[t]) => Lined(b[t])
      /\ Lined(mail[t]) /\ i = 1 => \A x \in ToSet(b[t]) : Before(mail[t][i], x)
  BY <1>1, SetRemoved
<1>4. Moved(mail, b, t, mail[t][i], {})
  BY <1>1, <1>3 DEF Moved
<1>5. KeepsLine(mail, b, {})
  BY <1>1, <1>3 DEF KeepsLine
<1>6. Lined(mail[t]) /\ i = 1 => Behind(b, t, mail[t][i], {})
  BY <1>3 DEF Behind
<1> QED
  BY <1>1, <1>2, <1>4, <1>5, <1>6 DEF Takes, b

\* Nothing is missing.
Nobody == NProc + 1
Adds(b, P) == Moved(mail, b, Nobody, 0, P) /\ KeepsLine(mail, b, P)

LEMMA AddsNothing ==
    ASSUME mail \in Boxes
    PROVE  Adds(mail, {})
<1>1. Moved(mail, mail, Nobody, 0, {})
  BY DEF Moved
<1>2. KeepsLine(mail, mail, {})
  BY DEF KeepsLine
<1> QED
  BY <1>1, <1>2 DEF Adds

\* One message more.
LEMMA MoreMoved ==
    ASSUME mail \in Boxes, NEW t, NEW m, NEW P, NEW b \in Boxes, Moved(mail, b, t, m, P),
           NEW to \in Tasks, NEW y \in Message
    PROVE  /\ Moved(mail, Post(b, to, y), t, m, P \cup {<<to, y>>})
           /\ Post(b, to, y) \in Boxes
           /\ \A u \in Tasks : \A x \in ToSet(Post(b, to, y)[u]) :
                 x \in ToSet(b[u]) \/ (u = to /\ x = y)
           /\ KeepsLine(mail, b, P) /\ (\A x \in Message : <<to, x>> \in P => Before(x, y))
                 => KeepsLine(mail, Post(b, to, y), P \cup {<<to, y>>})
<1> DEFINE c == Post(b, to, y)
           R == P \cup {<<to, y>>}
<1>1. /\ c \in Boxes /\ \A u \in Tasks : u # to => c[u] = b[u]
      /\ c[to] = Append(b[to], y)
  BY Posted
<1>2. b[to] \in Seq(Message)
  BY DEF Boxes
<1>3. /\ ToSet(c[to]) = ToSet(b[to]) \cup {y}
      /\ Lined(b[to]) /\ (\A x \in ToSet(b[to]) : Before(x, y)) => Lined(c[to])
  BY <1>1, <1>2, SetAppended
<1> HIDE DEF c
<1>5. \A u \in Tasks, x \in Message : <<u, x>> \in R <=> (<<u, x>> \in P \/ (u = to /\ x = y))
  OBVIOUS
<1>6. \A u \in Tasks : ToSet(b[u]) \subseteq Message /\ ToSet(mail[u]) \subseteq Message
  BY MailSet DEF Boxes
<1>7. \A u \in Tasks : \A x \in ToSet(c[u]) : x \in Message
      /\ (x \in ToSet(b[u]) \/ (u = to /\ x = y))
  BY <1>1, <1>3, <1>6
<1> HIDE DEF R
<1>8. Moved(mail, c, t, m, R)
  <2>1. ASSUME NEW u \in Tasks, NEW x \in ToSet(c[u]) PROVE x \in ToSet(mail[u]) \/ <<u, x>> \in R
    BY <1>5, <1>7 DEF Moved
  <2>2. ASSUME NEW u \in Tasks, NEW x \in ToSet(mail[u])
        PROVE  x \in ToSet(c[u]) \/ (u = t /\ x = m)
    <3>1. x \in ToSet(b[u]) \/ (u = t /\ x = m)
      BY DEF Moved
    <3> QED
      BY <1>1, <1>3, <3>1
  <2>3. ASSUME NEW u \in Tasks, NEW x \in Message, <<u, x>> \in R PROVE x \in ToSet(c[u])
    <3>1. x \in ToSet(b[u]) \/ (u = to /\ x = y)
      BY <1>5, <2>3 DEF Moved
    <3> QED
      BY <1>1, <1>3, <3>1
  <2> QED
    BY <2>1, <2>2, <2>3 DEF Moved
<1>9. ASSUME KeepsLine(mail, b, P), \A x \in Message : <<to, x>> \in P => Before(x, y)
      PROVE  KeepsLine(mail, c, R)
  <2> SUFFICES ASSUME \A u \in Tasks : Lined(mail[u]),
                      \A u \in Tasks : \A x \in Message, z \in ToSet(mail[u]) :
                          <<u, x>> \in R => Before(z, x),
                      NEW u \in Tasks
               PROVE  Lined(c[u])
    BY DEF KeepsLine
  <2>1. Lined(b[u])
    BY <1>5, <1>9 DEF KeepsLine
  <2>2. CASE u # to
    BY <1>1, <2>1, <2>2
  <2>3. CASE u = to
    <3>1. ASSUME NEW x \in ToSet(b[to]) PROVE Before(x, y)
      <4>1. x \in Message
        BY <1>6
      <4>2. x \in ToSet(mail[to]) \/ <<to, x>> \in P
        BY DEF Moved
      <4> QED
        BY <1>5, <1>9, <4>1, <4>2
    <3> QED
      BY <1>3, <2>1, <2>3, <3>1
  <2> QED
    BY <2>2, <2>3
<1> QED
  BY <1>1, <1>7, <1>8, <1>9 DEF c, R

LEMMA TakesMore ==
    ASSUME mail \in Boxes, NEW t \in Tasks, NEW i, NEW P, NEW b \in Boxes, Takes(b, t, i, P),
           NEW to \in Tasks, NEW y \in Message, \A x \in Message : <<to, x>> \notin P
    PROVE  Takes(Post(b, to, y), t, i, P \cup {<<to, y>>}) /\ Post(b, to, y) \in Boxes
<1> DEFINE c == Post(b, to, y)
           R == P \cup {<<to, y>>}
<1>1. /\ Moved(mail, b, t, mail[t][i], P) /\ KeepsLine(mail, b, P)
      /\ Lined(mail[t]) /\ i = 1 => Behind(b, t, mail[t][i], P)
  BY DEF Takes
<1>2. /\ Moved(mail, c, t, mail[t][i], R) /\ c \in Boxes /\ KeepsLine(mail, c, R)
      /\ \A u \in Tasks : \A x \in ToSet(c[u]) : x \in ToSet(b[u]) \/ (u = to /\ x = y)
  BY <1>1, MoreMoved
<1> HIDE DEF c
<1>3. Lined(mail[t]) /\ i = 1 => Behind(c, t, mail[t][i], R)
  <2> SUFFICES ASSUME Lined(mail[t]), i = 1, NEW x \in ToSet(c[t])
               PROVE  <<t, x>> \in R \/ Before(mail[t][i], x)
    BY DEF Behind
  <2>1. x \in ToSet(b[t]) \/ <<t, x>> \in R
    BY <1>2
  <2> QED
    BY <1>1, <2>1 DEF Behind
<1> QED
  BY <1>2, <1>3 DEF Takes, c, R

\* Without overtaking a task receives its first message.
LEMMA FirstReceived ==
    ASSUME Overtaking = FALSE, mail \in Boxes, NEW t \in Tasks,
           NEW i \in Receivable(t, LAMBDA m : TRUE)
    PROVE  i = 1 /\ i \in DOMAIN mail[t]
<1>1. i \in DOMAIN mail[t] /\ \A j \in 1 .. i - 1 : FALSE
  BY DEF Receivable
<1>2. i \in 1 .. Len(mail[t]) /\ Len(mail[t]) \in Nat
  BY <1>1 DEF Boxes
<1>3. 1 \notin 1 .. i - 1
  BY <1>1
<1> QED
  BY <1>1, <1>2, <1>3

-----------------------------------------------------------------------------
(* What each step does to the mail, in these terms.                         *)

\* The mail of a task whose first message is of the master.
Commanded(s, tag) ==
    /\ mail[s][1].from = Master /\ mail[s][1].tag = tag
    /\ slave[s].ring = -1 /\ order # "over"

LEMMA OrderedFirst ==
    ASSUME Overtaking = FALSE, mail \in Boxes, NEW s \in Slaves, NEW tag,
           NEW i \in DOMAIN mail[s], Ordered(s, tag, i)
    PROVE  i = 1 /\ Commanded(s, tag)
<1>1. /\ i \in Receivable(s, LAMBDA m : TRUE) /\ mail[s][i].from = Master
      /\ mail[s][i].tag = tag /\ slave[s].ring = -1 /\ order # "over"
  BY DEF Ordered
<1>2. i = 1
  BY <1>1, TaskFacts, FirstReceived
<1> QED
  BY <1>1, <1>2 DEF Commanded

\* Slave 0 may send the token out.
Token(s, x) == x \in Message /\ x.from = s /\ x.tag = "RING" /\ x.opt = ""
Entering(s, P) ==
    P = {} \/ \E x : s = 0 /\ Token(s, x) /\ P = {<<Following(s), x>>}

LEMMA FollowingIn ==
    ASSUME NEW s \in Slaves
    PROVE  Following(s) \in Slaves /\ Preceding(s) \in Slaves
<1>1. s \in 0 .. NProc - 1 /\ NProc \in Nat /\ NProc > 0
  BY TaskFacts DEF Slaves
<1>2. (s + 1) % NProc \in 0 .. NProc - 1 /\ (s + NProc - 1) % NProc \in 0 .. NProc - 1
  BY <1>1
<1> QED
  BY <1>2 DEF Following, Preceding, Slaves

LEMMA EnteringSends ==
    ASSUME mail \in Boxes, NEW s \in Slaves, NEW rc \in Int, NEW b \in Boxes,
           NEW i, NEW P, Takes(b, s, i, P),
           \A u \in Slaves, x \in Message : <<u, x>> \notin P
    PROVE  \E Q : Entering(s, Q) /\ Takes(EnterRing(s, rc, b), s, i, P \cup Q)
<1>0. s \in Tasks /\ Following(s) \in Tasks /\ Following(s) \in Slaves
  BY FollowingIn, TaskFacts
<1>1. CASE s # 0
  <2>1. EnterRing(s, rc, b) = b /\ P = P \cup {}
    BY <1>1 DEF EnterRing
  <2>2. Entering(s, {})
    BY DEF Entering
  <2> QED
    BY <2>1, <2>2
<1>2. CASE s = 0
  <2> DEFINE x == Msg(s, "RING", "", 0, rc)
  <2>1. EnterRing(s, rc, b) = Post(b, Following(s), x)
    BY <1>2 DEF EnterRing
  <2>2. x \in Message /\ x.from = s /\ x.tag = "RING" /\ x.opt = ""
    <3>1. x \in Message
      BY <1>0, MsgType, TagFacts
    <3> QED
      BY <3>1 DEF Msg
  <2> HIDE DEF x
  <2>3. Takes(Post(b, Following(s), x), s, i, P \cup {<<Following(s), x>>})
    BY <1>0, <2>2, TakesMore
  <2>4. Entering(s, {<<Following(s), x>>})
    BY <1>2, <2>2 DEF Entering, Token
  <2> QED
    BY <2>1, <2>3, <2>4
<1> QED
  BY <1>1, <1>2

LEMMA DiscardEffect ==
    ASSUME Overtaking = FALSE, mail \in Boxes, NEW s \in Slaves, Discard(s)
    PROVE  /\ Takes(mail', s, 1, {}) /\ mail[s][1].from # Master
           /\ UNCHANGED <<mastervars, slave, mergervars>>
<1>1. PICK i \in Receivable(s, LAMBDA m : TRUE) : mail[s][i].from # Master /\ mail' = Taken(s, i)
  BY DEF Discard
<1>2. i = 1 /\ i \in DOMAIN mail[s] /\ s \in Tasks
  BY <1>1, TaskFacts, FirstReceived
<1>3. Takes(Taken(s, i), s, i, {})
  BY <1>2, TakesOne
<1> QED
  BY <1>1, <1>2, <1>3 DEF Discard

LEMMA ConfigureEffect ==
    ASSUME Overtaking = FALSE, ClusterTypeOK, NEW s \in Slaves, Configure(s),
           mail[s][1].opt # "open"
    PROVE  /\ Commanded(s, "CONF")
           /\ \E P : Entering(s, P) /\ Takes(mail', s, 1, P)
           /\ \E rc \in Int : slave' = [slave EXCEPT ![s] = Carried(s, mail[s][1], rc)]
           /\ UNCHANGED <<mastervars, mergervars>>
<1>0. mail \in Boxes /\ s \in Tasks
  BY TaskFacts DEF ClusterTypeOK
<1>1. PICK i \in DOMAIN mail[s] :
        /\ Ordered(s, "CONF", i)
        /\ \E rc \in {0} \cup Refusals(s, mail[s][i].opt) :
              /\ slave' = [slave EXCEPT ![s] = Carried(s, mail[s][i], rc)]
              /\ mail' = EnterRing(s, rc,
                   IF mail[s][i].opt = "open" /\ rc = 0
                   THEN Post(Taken(s, i), Merger,
                             Msg(s, "JOIN", "add_remove", mail[s][i].seq, NextFile(s)))
                   ELSE Taken(s, i))
  BY DEF Configure
<1>2. i = 1 /\ Commanded(s, "CONF")
  BY <1>0, <1>1, OrderedFirst
<1>3. PICK rc \in {0} \cup Refusals(s, mail[s][i].opt) :
         /\ slave' = [slave EXCEPT ![s] = Carried(s, mail[s][i], rc)]
         /\ mail' = EnterRing(s, rc, Taken(s, i))
  BY <1>1, <1>2
<1>4. rc \in Int
  BY DEF Refusals
<1>5. Takes(Taken(s, i), s, i, {}) /\ Taken(s, i) \in Boxes
  BY <1>0, TakesOne
<1>6. \E Q : Entering(s, Q) /\ Takes(mail', s, i, {} \cup Q)
  BY <1>0, <1>3, <1>4, <1>5, EnteringSends
<1>7. \E Q : Entering(s, Q) /\ Takes(mail', s, 1, Q)
  <2>1. PICK Q : Entering(s, Q) /\ Takes(mail', s, i, {} \cup Q)
    BY <1>6
  <2>2. {} \cup Q = Q
    OBVIOUS
  <2> QED
    BY <1>2, <2>1, <2>2
<1> QED
  BY <1>2, <1>3, <1>4, <1>7 DEF Configure

LEMMA PassTokenEffect ==
    ASSUME ClusterTypeOK, NEW s \in Slaves, PassToken(s)
    PROVE  /\ slave[s].ring # -1 /\ slave' = [slave EXCEPT ![s].ring = -1]
           /\ \E i \in DOMAIN mail[s] : \E x :
                 /\ mail[s][i].tag = "RING" /\ mail[s][i].from = Preceding(s)
                 /\ Token(s, x)
                 /\ Takes(mail', s, i, {<<IF s = 0 THEN Master ELSE Following(s), x>>})
           /\ UNCHANGED <<mastervars, mergervars>>
<1>0. /\ mail \in Boxes /\ s \in Tasks /\ Following(s) \in Tasks /\ Master \in Tasks
      /\ slave[s].rc \in Int /\ slave[s].ring \in Int
  BY TaskFacts, FollowingIn DEF ClusterTypeOK, SlaveState
<1>1. PICK i \in Receivable(s, LAMBDA m : m.tag = "RING" /\ m.from = Preceding(s)) :
         mail' = IF s = 0
                 THEN Post(Taken(s, i), Master,
                           Msg(s, "RING", "", slave[s].ring, mail[s][i].body))
                 ELSE Post(Taken(s, i), Following(s),
                           Msg(s, "RING", "", 0,
                               IF mail[s][i].body # 0 THEN mail[s][i].body ELSE slave[s].rc))
  BY DEF PassToken
<1>2. i \in DOMAIN mail[s] /\ mail[s][i].tag = "RING" /\ mail[s][i].from = Preceding(s)
  BY DEF Receivable
<1>3. Takes(Taken(s, i), s, i, {}) /\ Taken(s, i) \in Boxes /\ mail[s][i].body \in Int
  <2>1. mail[s][i] \in Message
    BY <1>0, <1>2, TakenOut
  <2> QED
    BY <1>0, <1>2, <2>1, TakesOne DEF Message
<1>4. ASSUME NEW to \in Tasks, NEW q \in Int, NEW c \in Int,
             mail' = Post(Taken(s, i), to, Msg(s, "RING", "", q, c))
      PROVE  \E x : Token(s, x) /\ Takes(mail', s, i, {<<to, x>>})
  <2> DEFINE x == Msg(s, "RING", "", q, c)
  <2>1. x \in Message /\ x.from = s /\ x.tag = "RING" /\ x.opt = ""
    <3>1. x \in Message
      BY <1>0, MsgType, TagFacts
    <3> QED
      BY <3>1 DEF Msg
  <2>2. mail' = Post(Taken(s, i), to, x)
    BY <1>4
  <2> HIDE DEF x
  <2>3. Takes(Post(Taken(s, i), to, x), s, i, {} \cup {<<to, x>>})
    BY <1>0, <1>3, <2>1, TakesMore
  <2>4. Takes(mail', s, i, {<<to, x>>})
    BY <2>2, <2>3
  <2> QED
    BY <2>1, <2>4 DEF Token
<1>5. \E x : Token(s, x) /\ Takes(mail', s, i, {<<IF s = 0 THEN Master ELSE Following(s), x>>})
  <2>1. CASE s = 0
    BY <1>0, <1>1, <1>3, <1>4, <2>1
  <2>2. CASE s # 0
    <3> DEFINE c == IF mail[s][i].body # 0 THEN mail[s][i].body ELSE slave[s].rc
    <3>1. c \in Int /\ 0 \in Int
      BY <1>0, <1>3
    <3>2. mail' = Post(Taken(s, i), Following(s), Msg(s, "RING", "", 0, c))
      BY <1>1, <2>2
    <3> HIDE DEF c
    <3>3. \E x : Token(s, x) /\ Takes(mail', s, i, {<<Following(s), x>>})
      BY <1>0, <1>4, <3>1, <3>2
    <3> QED
      BY <2>2, <3>3
  <2> QED
    BY <2>1, <2>2
<1> QED
  BY <1>2, <1>5 DEF PassToken

\* A message is taken and another sent.
LEMMA TakesAndSends ==
    ASSUME mail \in Boxes, NEW t \in Tasks, NEW i \in DOMAIN mail[t],
           NEW to \in Tasks, NEW x \in Message, mail' = Post(Taken(t, i), to, x)
    PROVE  Takes(mail', t, i, {<<to, x>>}) /\ mail' \in Boxes
<1>1. Takes(Taken(t, i), t, i, {}) /\ Taken(t, i) \in Boxes
  BY TakesOne
<1>2. Takes(Post(Taken(t, i), to, x), t, i, {} \cup {<<to, x>>})
      /\ Post(Taken(t, i), to, x) \in Boxes
  BY <1>1, TakesMore
<1>3. {} \cup {<<to, x>>} = {<<to, x>>}
  OBVIOUS
<1> QED
  BY <1>2, <1>3

\* Posts of a slave to the master or to the merger.
LEMMA SlavePosts ==
    ASSUME ClusterTypeOK, NEW s \in Slaves, NEW i \in DOMAIN mail[s],
           NEW to \in {Master, Merger}, NEW tag \in Tags, NEW opt \in Options,
           NEW q \in Int, NEW c \in Int,
           mail' = Post(Taken(s, i), to, Msg(s, tag, opt, q, c))
    PROVE  /\ Takes(mail', s, i, {<<to, Msg(s, tag, opt, q, c)>>})
           /\ Msg(s, tag, opt, q, c) \in Message
<1> DEFINE x == Msg(s, tag, opt, q, c)
<1>1. x \in Message /\ s \in Tasks /\ to \in Tasks /\ mail \in Boxes
  BY MsgType, TaskFacts DEF ClusterTypeOK
<1>2. mail' = Post(Taken(s, i), to, x)
  OBVIOUS
<1> HIDE DEF x
<1> QED
  BY <1>1, <1>2, TakesAndSends DEF x

LEMMA SlaveTyped ==
    ASSUME ClusterTypeOK, NEW s \in Slaves
    PROVE  /\ slave[s] \in SlaveState /\ s \in Tasks /\ s \in Nat
           /\ slave[s].files \in Seq(Seq(Int)) /\ Len(slave[s].files) \in Nat
           /\ slave[s].ring \in Int /\ slave[s].rc \in Int
           /\ NextFile(s) \in Int /\ CurrentFile(s) \in Int
<1>1. /\ slave[s] \in SlaveState /\ s \in Tasks /\ s \in Nat /\ s \in Int /\ NProc \in Int
  BY TaskFacts DEF ClusterTypeOK, Slaves
<1>2. /\ slave[s].files \in Seq(Seq(Int)) /\ Len(slave[s].files) \in Nat
      /\ slave[s].ring \in Int /\ slave[s].rc \in Int
  BY <1>1 DEF SlaveState
<1>3. Len(slave[s].files) \in Int /\ Len(slave[s].files) - 1 \in Int
  BY <1>2
<1>4. /\ Len(slave[s].files) * NProc + s \in Int
      /\ (Len(slave[s].files) - 1) * NProc + s \in Int
  BY <1>1, <1>3, FileNumber
<1> QED
  BY <1>1, <1>2, <1>4 DEF NextFile, CurrentFile, FileOf

LEMMA FrontTyped ==
    ASSUME mail \in Boxes, NEW t \in Tasks, NEW i \in DOMAIN mail[t]
    PROVE  mail[t][i] \in Message /\ mail[t][i].seq \in Int /\ mail[t][i].body \in Int
<1>1. mail[t][i] \in Message
  BY TakenOut
<1> QED
  BY <1>1 DEF Message

\* The slave answers with a failure.
Reports(s, P) ==
    \E x : /\ x \in Message /\ x.tag = "REPLY" /\ x.opt = ""
           /\ P = {<<Master, x>>}

LEMMA ReportSent ==
    ASSUME ClusterTypeOK, NEW s \in Slaves, NEW i \in DOMAIN mail[s],
           mail' = Report(s, mail[s][i].seq, Taken(s, i))
    PROVE  \E P : Reports(s, P) /\ Takes(mail', s, i, P)
<1>0. mail \in Boxes /\ s \in Tasks
  BY TaskFacts DEF ClusterTypeOK
<1> DEFINE x == Msg(s, "REPLY", "", mail[s][i].seq, -1)
<1>1. /\ Takes(mail', s, i, {<<Master, x>>}) /\ x \in Message
  <2>1. mail[s][i].seq \in Int
    BY <1>0, FrontTyped
  <2>2. mail' = Post(Taken(s, i), Master, x)
    BY DEF Report
  <2> QED
    BY <2>1, <2>2, SlavePosts, TagFacts
<1>2. x.tag = "REPLY" /\ x.opt = ""
  BY DEF Msg
<1> HIDE DEF x
<1> QED
  BY <1>1, <1>2 DEF Reports

\* The announcement of file f for chunk q.
Announcement(x, q, f) == x \in Message /\ x.opt = "add_elab" /\ x.seq = q /\ x.body = f
      /\ x.tag = "JOIN"

LEMMA EncodeEffect ==
    ASSUME Overtaking = FALSE, ClusterTypeOK, NEW s \in Slaves, Encode(s)
    PROVE  /\ Commanded(s, "WORK") /\ mail[s][1].opt = "encode"
           /\ \/ /\ slave[s].ready
                 /\ slave' = [slave EXCEPT
                      ![s].files[Len(slave[s].files)] = Append(@, mail[s][1].body),
                      ![s].first = TRUE]
                 /\ IF slave[s].first THEN Takes(mail', s, 1, {})
                    ELSE \E x : /\ Announcement(x, mail[s][1].seq, CurrentFile(s))
                                /\ Takes(mail', s, 1, {<<Merger, x>>})
              \/ slave' = slave /\ \E P : Reports(s, P) /\ Takes(mail', s, 1, P)
           /\ UNCHANGED <<mastervars, mergervars>>
<1>0. mail \in Boxes /\ s \in Tasks
  BY TaskFacts DEF ClusterTypeOK
<1>1. PICK i \in DOMAIN mail[s] :
        /\ Ordered(s, "WORK", i) /\ mail[s][i].opt = "encode"
        /\ \/ /\ slave[s].ready
              /\ slave' = [slave EXCEPT
                   ![s].files[Len(slave[s].files)] = Append(@, mail[s][i].body),
                   ![s].first = TRUE]
              /\ mail' = IF slave[s].first THEN Taken(s, i)
                         ELSE Post(Taken(s, i), Merger,
                                   Msg(s, "JOIN", "add_elab", mail[s][i].seq, CurrentFile(s)))
           \/ /\ mail' = Report(s, mail[s][i].seq, Taken(s, i))
              /\ UNCHANGED slave
  BY DEF Encode
<1>2. i = 1 /\ Commanded(s, "WORK")
  BY <1>0, <1>1, OrderedFirst
<1>3. mail[s][i].seq \in Int /\ CurrentFile(s) \in Int
  BY <1>0, FrontTyped, SlaveTyped
<1>4. CASE mail' = Report(s, mail[s][i].seq, Taken(s, i)) /\ UNCHANGED slave
  <2>1. \E P : Reports(s, P) /\ Takes(mail', s, i, P)
    BY <1>4, ReportSent
  <2> QED
    BY <1>1, <1>2, <1>4, <2>1 DEF Encode
<1>5. CASE /\ slave[s].ready
           /\ slave' = [slave EXCEPT
                   ![s].files[Len(slave[s].files)] = Append(@, mail[s][i].body),
                   ![s].first = TRUE]
           /\ mail' = IF slave[s].first THEN Taken(s, i)
                      ELSE Post(Taken(s, i), Merger,
                                Msg(s, "JOIN", "add_elab", mail[s][i].seq, CurrentFile(s)))
  <2>1. CASE slave[s].first
    <3>1. Takes(Taken(s, i), s, i, {})
      BY <1>0, TakesOne
    <3>2. mail' = Taken(s, i)
      BY <1>5, <2>1
    <3> QED
      BY <1>1, <1>2, <1>5, <2>1, <3>1, <3>2 DEF Encode
  <2>2. CASE ~slave[s].first
    <3> DEFINE x == Msg(s, "JOIN", "add_elab", mail[s][i].seq, CurrentFile(s))
    <3>1. mail' = Post(Taken(s, i), Merger, x)
      BY <1>5, <2>2
    <3>2. Takes(mail', s, i, {<<Merger, x>>}) /\ x \in Message
      BY <1>3, <3>1, SlavePosts, TagFacts
    <3>3. x.opt = "add_elab" /\ x.seq = mail[s][i].seq /\ x.body = CurrentFile(s) /\ x.tag = "JOIN"
      BY DEF Msg
    <3> HIDE DEF x
    <3>4. Announcement(x, mail[s][i].seq, CurrentFile(s))
      BY <3>2, <3>3 DEF Announcement
    <3> QED
      BY <1>1, <1>2, <1>5, <2>2, <3>2, <3>4 DEF Encode
  <2> QED
    BY <2>1, <2>2
<1> QED
  BY <1>1, <1>4, <1>5

LEMMA CloseChunkEffect ==
    ASSUME Overtaking = FALSE, ClusterTypeOK, NEW s \in Slaves, CloseChunk(s)
    PROVE  /\ Commanded(s, "WORK") /\ mail[s][1].opt = "restart1"
           /\ \E l \in BOOLEAN : slave' = [slave EXCEPT ![s].loaded = l, ![s].ready = FALSE]
           /\ \E x : /\ x \in Message /\ x.tag \in {"ENDTASK", "REPLY"} /\ x.opt = ""
                     /\ Takes(mail', s, 1, {<<Master, x>>})
           /\ UNCHANGED <<mastervars, mergervars>>
<1>0. mail \in Boxes /\ s \in Tasks
  BY TaskFacts DEF ClusterTypeOK
<1>1. PICK i \in DOMAIN mail[s] :
        /\ Ordered(s, "WORK", i) /\ mail[s][i].opt = "restart1"
        /\ \/ /\ slave' = [slave EXCEPT ![s].loaded = FALSE, ![s].ready = FALSE]
              /\ mail' = Post(Taken(s, i), Master,
                              Msg(s, "ENDTASK", "", mail[s][i].seq, 0))
           \/ /\ slave' = [slave EXCEPT ![s].ready = FALSE]
              /\ mail' = Report(s, mail[s][i].seq, Taken(s, i))
  BY DEF CloseChunk
<1>2. i = 1 /\ Commanded(s, "WORK")
  BY <1>0, <1>1, OrderedFirst
<1>3. mail[s][i].seq \in Int
  BY <1>0, FrontTyped
<1>4. CASE /\ slave' = [slave EXCEPT ![s].loaded = FALSE, ![s].ready = FALSE]
           /\ mail' = Post(Taken(s, i), Master,
                           Msg(s, "ENDTASK", "", mail[s][i].seq, 0))
  <2> DEFINE x == Msg(s, "ENDTASK", "", mail[s][i].seq, 0)
  <2>1. mail' = Post(Taken(s, i), Master, x)
    BY <1>4
  <2>2. Takes(mail', s, i, {<<Master, x>>}) /\ x \in Message
    BY <1>3, <2>1, SlavePosts, TagFacts
  <2>3. x.opt = "" /\ x.tag = "ENDTASK"
    BY DEF Msg
  <2> HIDE DEF x
  <2> QED
    BY <1>1, <1>2, <1>4, <2>2, <2>3 DEF CloseChunk
<1>5. CASE /\ slave' = [slave EXCEPT ![s].ready = FALSE]
           /\ mail' = Report(s, mail[s][i].seq, Taken(s, i))
  <2>1. PICK P : Reports(s, P) /\ Takes(mail', s, i, P)
    BY <1>5, ReportSent
  <2>2. \E x : /\ x \in Message /\ x.tag \in {"ENDTASK", "REPLY"} /\ x.opt = ""
               /\ Takes(mail', s, 1, {<<Master, x>>})
    BY <1>2, <2>1 DEF Reports
  <2>3. slave' = [slave EXCEPT ![s].loaded = slave[s].loaded, ![s].ready = FALSE]
        /\ slave[s].loaded \in BOOLEAN
    <3>1. slave \in [Slaves -> SlaveState]
      BY DEF ClusterTypeOK
    <3>2. slave[s] \in SlaveState
      BY <3>1
    <3>3. [slave[s] EXCEPT !.ready = FALSE] = [slave[s] EXCEPT !.loaded = slave[s].loaded, !.ready = FALSE]
          /\ slave[s].loaded \in BOOLEAN
      BY <3>2 DEF SlaveState
    <3> QED
      BY <1>5, <3>1, <3>3
  <2> QED
    BY <1>1, <1>2, <2>2, <2>3 DEF CloseChunk
<1> QED
  BY <1>1, <1>4, <1>5

LEMMA OpenNextEffect ==
    ASSUME Overtaking = FALSE, ClusterTypeOK, NEW s \in Slaves, OpenNext(s)
    PROVE  /\ Commanded(s, "WORK") /\ mail[s][1].opt = "restart2"
           /\ LET again == [slave[s] EXCEPT !.loaded = TRUE,
                                            !.files = Append(@, <<>>)]
              IN \/ /\ slave[s].able
                    /\ slave' = [slave EXCEPT ![s] = [again EXCEPT !.ready = TRUE,
                                                                   !.first = FALSE]]
                    /\ \E x : /\ x \in Message /\ x.opt = "add_remove" /\ x.tag = "JOIN"
                              /\ Takes(mail', s, 1, {<<Merger, x>>})
                 \/ /\ slave[s].able /\ slave' = [slave EXCEPT ![s] = again]
                    /\ \E P : Reports(s, P) /\ Takes(mail', s, 1, P)
                 \/ /\ ~slave[s].able
                    /\ slave' = [slave EXCEPT ![s] = [again EXCEPT !.ring = mail[s][1].seq,
                                                                   !.rc = 1]]
                    /\ \E P : Entering(s, P) /\ Takes(mail', s, 1, P)
           /\ UNCHANGED <<mastervars, mergervars>>
<1>0. mail \in Boxes /\ s \in Tasks
  BY TaskFacts DEF ClusterTypeOK
<1> DEFINE again == [slave[s] EXCEPT !.loaded = TRUE, !.files = Append(@, <<>>)]
<1>1. PICK i \in DOMAIN mail[s] :
        /\ Ordered(s, "WORK", i) /\ mail[s][i].opt = "restart2"
        /\ \/ /\ slave[s].able
              /\ slave' = [slave EXCEPT ![s] = [again EXCEPT !.ready = TRUE,
                                                             !.first = FALSE]]
              /\ mail' = Post(Taken(s, i), Merger,
                              Msg(s, "JOIN", "add_remove", mail[s][i].seq, NextFile(s)))
           \/ /\ slave[s].able
              /\ slave' = [slave EXCEPT ![s] = again]
              /\ mail' = Report(s, mail[s][i].seq, Taken(s, i))
           \/ /\ ~slave[s].able
              /\ slave' = [slave EXCEPT ![s] = [again EXCEPT !.ring = mail[s][i].seq,
                                                             !.rc = 1]]
              /\ mail' = EnterRing(s, 1, Taken(s, i))
  BY DEF OpenNext
<1>2. i = 1 /\ Commanded(s, "WORK")
  BY <1>0, <1>1, OrderedFirst
<1>3. mail[s][i].seq \in Int /\ NextFile(s) \in Int
  BY <1>0, FrontTyped, SlaveTyped
<1> HIDE DEF again
<1>4. CASE /\ slave[s].able
           /\ slave' = [slave EXCEPT ![s] = [again EXCEPT !.ready = TRUE,
                                                          !.first = FALSE]]
           /\ mail' = Post(Taken(s, i), Merger,
                           Msg(s, "JOIN", "add_remove", mail[s][i].seq, NextFile(s)))
  <2> DEFINE x == Msg(s, "JOIN", "add_remove", mail[s][i].seq, NextFile(s))
  <2>1. mail' = Post(Taken(s, i), Merger, x)
    BY <1>4
  <2>2. Takes(mail', s, i, {<<Merger, x>>}) /\ x \in Message
    BY <1>3, <2>1, SlavePosts, TagFacts
  <2>3. x.opt = "add_remove" /\ x.tag = "JOIN"
    BY DEF Msg
  <2> HIDE DEF x
  <2> QED
    BY <1>1, <1>2, <1>4, <2>2, <2>3 DEF OpenNext, again
<1>5. CASE /\ slave[s].able
           /\ slave' = [slave EXCEPT ![s] = again]
           /\ mail' = Report(s, mail[s][i].seq, Taken(s, i))
  <2>1. \E P : Reports(s, P) /\ Takes(mail', s, i, P)
    BY <1>5, ReportSent
  <2> QED
    BY <1>1, <1>2, <1>5, <2>1 DEF OpenNext, again
<1>6. CASE /\ ~slave[s].able
           /\ slave' = [slave EXCEPT ![s] = [again EXCEPT !.ring = mail[s][i].seq,
                                                          !.rc = 1]]
           /\ mail' = EnterRing(s, 1, Taken(s, i))
  <2>1. Takes(Taken(s, i), s, i, {}) /\ Taken(s, i) \in Boxes
    BY <1>0, TakesOne
  <2>2. PICK Q : Entering(s, Q) /\ Takes(mail', s, i, {} \cup Q)
    BY <1>0, <1>6, <2>1, EnteringSends
  <2>3. {} \cup Q = Q
    OBVIOUS
  <2>4. Takes(mail', s, 1, Q)
    BY <1>2, <2>2, <2>3
  <2> QED
    BY <1>1, <1>2, <1>6, <2>2, <2>4 DEF OpenNext, again
<1> QED
  BY <1>1, <1>4, <1>5, <1>6

\* The merger.
LEMMA ToldFirst ==
    ASSUME Overtaking = FALSE, mail \in Boxes, NEW opt, NEW i, Told(opt, i)
    PROVE  i = 1 /\ i \in DOMAIN mail[Merger] /\ mail[Merger][1].opt = opt
<1>1. i \in Receivable(Merger, LAMBDA m : TRUE) /\ mail[Merger][i].opt = opt
  BY DEF Told
<1> QED
  BY <1>1, TaskFacts, FirstReceived

LEMMA HeardEffect ==
    ASSUME Overtaking = FALSE, mail \in Boxes, NameDestination \/ AddRemove
    PROVE  /\ mail[Merger][1].opt \in {"join_init", "add_remove"}
           /\ Takes(mail', Merger, 1, {})
           /\ UNCHANGED <<mastervars, slave, elab, merged, failures>>
<1>1. PICK i \in DOMAIN mail[Merger] :
         /\ Told("join_init", i) \/ Told("add_remove", i)
         /\ mail' = Taken(Merger, i)
  BY DEF NameDestination, AddRemove
<1>2. i = 1 /\ mail[Merger][1].opt \in {"join_init", "add_remove"}
  BY <1>1, ToldFirst
<1>3. Takes(mail', Merger, 1, {})
  BY <1>1, <1>2, TaskFacts, TakesOne
<1> QED
  BY <1>2, <1>3 DEF NameDestination, AddRemove, mergervars

LEMMA AddElabEffect ==
    ASSUME Overtaking = FALSE, mail \in Boxes, AddElab
    PROVE  /\ mail[Merger][1].opt = "add_elab"
           /\ elab' = Inserted(elab, [seq |-> mail[Merger][1].seq, file |-> mail[Merger][1].body])
           /\ Takes(mail', Merger, 1, {})
           /\ UNCHANGED <<mastervars, slave, merged, failures>>
<1>1. PICK i \in DOMAIN mail[Merger] :
         /\ Told("add_elab", i)
         /\ elab' = Inserted(elab, [seq |-> mail[Merger][i].seq, file |-> mail[Merger][i].body])
         /\ mail' = Taken(Merger, i)
  BY DEF AddElab
<1>2. i = 1 /\ mail[Merger][1].opt = "add_elab"
  BY <1>1, ToldFirst
<1>3. Takes(mail', Merger, 1, {})
  BY <1>1, <1>2, TaskFacts, TakesOne
<1> QED
  BY <1>1, <1>2, <1>3 DEF AddElab

LEMMA MergeEffect ==
    ASSUME Overtaking = FALSE, mail \in Boxes, Merge
    PROVE  /\ mail[Merger][1].opt = "run" /\ order # "over"
           /\ \/ merged' = FlattenSeq([k \in DOMAIN elab |-> ContentOf(elab[k].file)])
              \/ "copy" \in failures'
              \/ merged' = merged /\ failures \subseteq failures'
           /\ \E P : /\ Takes(mail', Merger, 1, P)
                     /\ P = {} \/ \E x \in Message : x.tag = "REPLY" /\ x.opt = ""
                           /\ P = {<<Master, x>>}
           /\ UNCHANGED <<mastervars, slave, elab>>
<1>1. PICK i \in DOMAIN mail[Merger] :
         /\ Told("run", i)
         /\ \/ mail' = Taken(Merger, i)
            \/ \E rc \in {0, 1} : mail' = Post(Taken(Merger, i), Master,
                                         Msg(Merger, "REPLY", "", mail[Merger][i].seq, rc))
  BY DEF Merge
<1>2. i = 1 /\ mail[Merger][1].opt = "run" /\ order # "over"
  BY <1>1, ToldFirst DEF Told
<1>3. \/ merged' = FlattenSeq([k \in DOMAIN elab |-> ContentOf(elab[k].file)])
      \/ "copy" \in failures'
      \/ merged' = merged /\ failures \subseteq failures'
  BY DEF Merge, Strike
<1>4. \E P : /\ Takes(mail', Merger, 1, P)
             /\ P = {} \/ \E x \in Message : x.tag = "REPLY" /\ x.opt = "" /\ P = {<<Master, x>>}
  <2>1. CASE mail' = Taken(Merger, i)
    BY <1>2, <2>1, TaskFacts, TakesOne
  <2>2. ASSUME NEW rc \in {0, 1},
               mail' = Post(Taken(Merger, i), Master,
                            Msg(Merger, "REPLY", "", mail[Merger][i].seq, rc))
        PROVE  \E x \in Message : x.tag = "REPLY" /\ x.opt = ""
              /\ Takes(mail', Merger, i, {<<Master, x>>})
    <3> DEFINE x == Msg(Merger, "REPLY", "", mail[Merger][i].seq, rc)
    <3>1. mail[Merger][i].seq \in Int /\ rc \in Int
      BY TaskFacts, FrontTyped
    <3>2. x \in Message
      <4>1. "REPLY" \in Tags /\ "" \in Options /\ Merger \in Tasks
        BY TagFacts, TaskFacts
      <4>2. \A q \in Int, c \in Int : Msg(Merger, "REPLY", "", q, c) \in Message
        BY <4>1, MsgType
      <4> QED
        BY <3>1, <4>2
    <3>3. x.tag = "REPLY" /\ x.opt = ""
      BY DEF Msg
    <3>4. mail' = Post(Taken(Merger, i), Master, x)
      BY <2>2
    <3> HIDE DEF x
    <3>5. Takes(mail', Merger, i, {<<Master, x>>})
      BY <3>2, <3>4, TaskFacts, TakesAndSends
    <3> QED
      BY <3>2, <3>3, <3>5
  <2> QED
    BY <1>1, <1>2, <2>1, <2>2
<1> QED
  BY <1>2, <1>3, <1>4 DEF Merge

\* The master.
LEMMA MultiSendEffect ==
    ASSUME ClusterTypeOK, MultiSend
    PROVE  \E c \in Message :
              /\ c.from = Master /\ c.tag = "CONF" /\ c.opt = order /\ c.seq = castSeq'
              /\ mail' = [t \in Tasks |-> IF t \in Slaves THEN Append(mail[t], c) ELSE mail[t]]
              /\ Adds(mail', {<<s, c>> : s \in Slaves})
<1>0. mail \in Boxes /\ castSeq \in Int
  BY DEF ClusterTypeOK
<1> DEFINE c == Msg(Master, "CONF", order, castSeq', 0)
           P == {<<s, c>> : s \in Slaves}
<1>1. c \in Message
  <2>1. castSeq' = castSeq + 1 /\ order \in Casts
    BY DEF MultiSend
  <2>2. castSeq' \in Int
    BY <1>0, <2>1
  <2>3. order \in Options
    BY <2>1, TagFacts
  <2> QED
    BY <2>2, <2>3, MsgType, TagFacts, TaskFacts
<1>2. c.from = Master /\ c.tag = "CONF" /\ c.opt = order /\ c.seq = castSeq'
  BY DEF Msg
<1>3. mail' = [t \in Tasks |-> IF t \in Slaves THEN Append(mail[t], c) ELSE mail[t]]
  BY DEF MultiSend
<1> HIDE DEF c
<1>4. \A u \in Tasks, x \in Message : <<u, x>> \in P <=> (u \in Slaves /\ x = c)
  OBVIOUS
<1>5. \A u \in Tasks : mail[u] \in Seq(Message) /\ ToSet(mail[u]) \subseteq Message
  BY <1>0, MailSet DEF Boxes
<1>6. ASSUME NEW u \in Tasks
      PROVE  /\ \A x \in ToSet(mail'[u]) : x \in ToSet(mail[u]) \/ <<u, x>> \in P
             /\ \A x \in ToSet(mail[u]) : x \in ToSet(mail'[u])
             /\ \A x \in Message : <<u, x>> \in P => x \in ToSet(mail'[u])
             /\ Lined(mail[u]) /\ (u \in Slaves => \A y \in ToSet(mail[u]) : Before(y, c))
                   => Lined(mail'[u])
  <2>1. CASE u \in Slaves
    <3>1. mail'[u] = Append(mail[u], c)
      BY <1>3, <2>1
    <3>2. /\ ToSet(mail'[u]) = ToSet(mail[u]) \cup {c}
          /\ Lined(mail[u]) /\ (\A x \in ToSet(mail[u]) : Before(x, c)) => Lined(mail'[u])
      BY <1>1, <1>5, <3>1, SetAppended
    <3> HIDE DEF P
    <3> QED
      BY <1>1, <1>4, <1>5, <2>1, <3>2
  <2>2. CASE u \notin Slaves
    <3>1. mail'[u] = mail[u]
      BY <1>3, <2>2
    <3> HIDE DEF P
    <3> QED
      BY <1>4, <2>2, <3>1
  <2> QED
    BY <2>1, <2>2
<1> HIDE DEF P
<1>7. Moved(mail, mail', Nobody, 0, P)
  BY <1>6 DEF Moved
<1>8. KeepsLine(mail, mail', P)
  <2> SUFFICES ASSUME \A u \in Tasks : Lined(mail[u]),
                      \A u \in Tasks : \A x \in Message, y \in ToSet(mail[u]) :
                          <<u, x>> \in P => Before(y, x),
                      NEW u \in Tasks
               PROVE  Lined(mail'[u])
    BY DEF KeepsLine
  <2>1. u \in Slaves => \A y \in ToSet(mail[u]) : Before(y, c)
    BY <1>1, <1>4
  <2> QED
    BY <1>6, <2>1
<1> QED
  BY <1>1, <1>2, <1>3, <1>7, <1>8 DEF Adds, P

\* What the master sends to the merger when a broadcast is over.
Forwards(P) ==
    \/ P = {}
    \/ \E x \in Message :
          /\ P = {<<Merger, x>>}
          /\ \/ x.opt = "join_init"
             \/ x.opt = "run" /\ order = "close" /\ order' = "run"

LEMMA MultiSentEffect ==
    ASSUME ClusterTypeOK, MultiSent
    PROVE  \E i \in DOMAIN mail[Master] :
              /\ mail[Master][i].tag = "RING"
              /\ \E P : Forwards(P) /\ Takes(mail', Master, i, P)
<1>0. mail \in Boxes /\ sendSeq \in Int
  BY DEF ClusterTypeOK
<1>1. PICK i \in Receivable(Master, LAMBDA m : m.tag = "RING" /\ m.seq = castSeq) :
        LET failed == mail[Master][i].body = -1 /\ order # "stop"
        IN /\ mail' = IF failed THEN Taken(Master, i)
                      ELSE ToMerger(Taken(Master, i))
           /\ order' = IF failed THEN "over" ELSE FollowingCast[order]
  BY DEF MultiSent
<1>2. i \in DOMAIN mail[Master] /\ mail[Master][i].tag = "RING"
  BY DEF Receivable
<1>3. Takes(Taken(Master, i), Master, i, {}) /\ Taken(Master, i) \in Boxes
  BY <1>0, <1>2, TaskFacts, TakesOne
<1>4. ASSUME NEW opt \in {"join_init", "run"},
             mail' = Post(Taken(Master, i), Merger, Msg(Master, "WORK", opt, sendSeq + 1, 0))
      PROVE  \E x \in Message : x.opt = opt /\ Takes(mail', Master, i, {<<Merger, x>>})
  <2> DEFINE x == Msg(Master, "WORK", opt, sendSeq + 1, 0)
  <2>1. x \in Message /\ x.opt = opt
    <3>1. opt \in Options
      BY TagFacts
    <3>2. sendSeq + 1 \in Int
      BY <1>0
    <3>3. x \in Message
      BY <3>1, <3>2, MsgType, TagFacts, TaskFacts
    <3> QED
      BY <3>3 DEF Msg
  <2>2. mail' = Post(Taken(Master, i), Merger, x)
    BY <1>4
  <2> HIDE DEF x
  <2>3. Takes(mail', Master, i, {<<Merger, x>>})
    BY <1>0, <1>2, <2>1, <2>2, TaskFacts, TakesAndSends
  <2> QED
    BY <2>1, <2>3
<1>5. \E P : Forwards(P) /\ Takes(mail', Master, i, P)
  <2>1. CASE mail' = Taken(Master, i)
    BY <1>3, <2>1 DEF Forwards
  <2>2. CASE /\ order = "init"
             /\ mail' = Post(Taken(Master, i), Merger, Msg(Master, "WORK", "join_init", sendSeq + 1, 0))
    BY <1>4, <2>2 DEF Forwards
  <2>3. CASE /\ order = "close" /\ order' = "run"
             /\ mail' = Post(Taken(Master, i), Merger, Msg(Master, "WORK", "run", sendSeq + 1, 0))
    BY <1>4, <2>3 DEF Forwards
  <2>4. FollowingCast["close"] = "run"
    BY DEF FollowingCast
  <2> QED
    BY <1>1, <2>1, <2>2, <2>3, <2>4 DEF ToMerger
<1> QED
  BY <1>2, <1>5

LEMMA MergerDoneEffect ==
    ASSUME ClusterTypeOK, MergerDone
    PROVE  \E i \in DOMAIN mail[Master] : Takes(mail', Master, i, {})
<1>0. mail \in Boxes
  BY DEF ClusterTypeOK
<1>1. PICK i \in Receivable(Master, LAMBDA m : m.tag = "REPLY" /\ m.seq = sendSeq) :
         mail' = Taken(Master, i)
  BY DEF MergerDone
<1>2. i \in DOMAIN mail[Master]
  BY DEF Receivable
<1> QED
  BY <1>0, <1>1, <1>2, TaskFacts, TakesOne

\* An order of the master to a slave.
Command(x, opt, q) ==
    x \in Message /\ x.from = Master /\ x.tag = "WORK" /\ x.opt = opt /\ x.seq = q

LEMMA CommandMsg ==
    ASSUME NEW opt \in {"encode", "restart1", "restart2"}, NEW q \in Int, NEW n \in Int
    PROVE  /\ Command(Msg(Master, "WORK", opt, q, n), opt, q)
           /\ Msg(Master, "WORK", opt, q, n).body = n
<1>1. opt \in Options
  BY TagFacts
<1>2. Msg(Master, "WORK", opt, q, n) \in Message
  BY <1>1, MsgType, TagFacts, TaskFacts
<1> QED
  BY <1>2 DEF Command, Msg

LEMMA CloseCodecEffect ==
    ASSUME ClusterTypeOK, CloseCodec
    PROVE  \E x, q : Command(x, "restart1", q) /\ Adds(mail', {<<current, x>>})
<1>0. mail \in Boxes /\ sendSeq \in Int /\ current \in Tasks
  BY TaskFacts DEF ClusterTypeOK
<1> DEFINE x == Msg(Master, "WORK", "restart1", sendSeq', 0)
<1>1. sendSeq' \in Int
  BY <1>0 DEF CloseCodec
<1>2. Command(x, "restart1", sendSeq')
  BY <1>1, CommandMsg
<1>3. mail' = Post(mail, current, x)
  BY DEF CloseCodec
<1> HIDE DEF x
<1>4. x \in Message
  BY <1>2 DEF Command
<1>5. Moved(mail, mail, Nobody, 0, {}) /\ KeepsLine(mail, mail, {})
  BY <1>0, AddsNothing DEF Adds
<1>6. Moved(mail, mail', Nobody, 0, {<<current, x>>}) /\ KeepsLine(mail, mail', {<<current, x>>})
  <2>1. {} \cup {<<current, x>>} = {<<current, x>>}
    OBVIOUS
  <2> QED
    BY <1>0, <1>3, <1>4, <1>5, <2>1, MoreMoved
<1> QED
  BY <1>2, <1>6 DEF Adds

\* The frame, and after the last one of the chunk its end.
LEMMA HandOverEffect ==
    ASSUME ClusterTypeOK, HandOver
    PROVE  \E x, P :
              /\ Command(x, "encode", chunk) /\ x.body = given + 1
              /\ \/ P = {<<current, x>>} /\ order' = "encode"
                 \/ /\ order' = "first-free"
                    /\ \E y : Command(y, "restart1", chunk) /\ P = {<<current, x>>, <<current, y>>}
              /\ Adds(mail', P)
<1>0. /\ mail \in Boxes /\ given \in Nat /\ chunk \in Int /\ current \in Tasks
  BY TaskFacts DEF ClusterTypeOK
<1> DEFINE x == Msg(Master, "WORK", "encode", chunk, given')
           y == Msg(Master, "WORK", "restart1", chunk, 0)
<1>1. given' = given + 1 /\ given' \in Int
  BY <1>0 DEF HandOver
<1>2. /\ Command(x, "encode", chunk) /\ x.body = given'
      /\ Command(y, "restart1", chunk)
  BY <1>0, <1>1, CommandMsg
<1>3. \/ mail' = Post(mail, current, x) /\ order' = "encode"
      \/ mail' = Post(Post(mail, current, x), current, y) /\ order' = "first-free"
  BY DEF HandOver
<1> HIDE DEF x, y
<1>4. x \in Message /\ y \in Message /\ Before(x, y)
  BY <1>2 DEF Command, Before
<1>5. Moved(mail, mail, Nobody, 0, {}) /\ KeepsLine(mail, mail, {})
  BY <1>0, AddsNothing DEF Adds
<1> DEFINE b == Post(mail, current, x)
           P == {<<current, x>>}
<1>6. Moved(mail, b, Nobody, 0, P) /\ KeepsLine(mail, b, P) /\ b \in Boxes
  <2>1. {} \cup P = P
    OBVIOUS
  <2> QED
    BY <1>0, <1>4, <1>5, <2>1, MoreMoved
<1>7. CASE mail' = b /\ order' = "encode"
  BY <1>1, <1>2, <1>6, <1>7 DEF Adds
<1>8. CASE mail' = Post(b, current, y) /\ order' = "first-free"
  <2> DEFINE Q == {<<current, x>>, <<current, y>>}
  <2>1. P \cup {<<current, y>>} = Q
    OBVIOUS
  <2>2. \A z \in Message : <<current, z>> \in P => z = x
    OBVIOUS
  <2> HIDE DEF P, b
  <2>3. Moved(mail, mail', Nobody, 0, Q) /\ KeepsLine(mail, mail', Q)
    BY <1>0, <1>4, <1>6, <1>8, <2>1, <2>2, MoreMoved
  <2> QED
    BY <1>1, <1>2, <1>8, <2>3 DEF Adds
<1> QED
  BY <1>3, <1>7, <1>8

\* Slave t, which has nothing to do, is given the next chunk with message x.
Gives(t, x, P) ==
    /\ Command(x, "restart2", chunk + 1) /\ P = {<<t, x>>}
    /\ Adds(mail', P) \/ \E i \in DOMAIN mail[Master] : Takes(mail', Master, i, P)
    /\ current' = t /\ chunk' = chunk + 1 /\ order' = "encode"
    /\ UNCHANGED <<used, given, slave, mergervars, failures>>
    /\ \/ used[t] = NoTask
       \/ ~slave[t].loaded /\ \A y \in ToSet(mail[t]) : y.from # Master

LEMMA TakeEffect ==
    ASSUME ClusterTypeOK, FreeInv, TakeUnused \/ TakeEnded
    PROVE  \E t \in Slaves : \E x, P : Gives(t, x, P)
<1>0. /\ mail \in Boxes /\ chunk \in Nat /\ order = "first-free" /\ current \in Slaves
      /\ Moved(mail, mail, Nobody, 0, {}) /\ KeepsLine(mail, mail, {})
  BY AddsNothing DEF ClusterTypeOK, TakeUnused, TakeEnded, Adds
<1>1. CASE TakeUnused
  <2> DEFINE t == Candidate
             x == Msg(Master, "WORK", "restart2", chunk + 1, 0)
  <2>1. t \in Slaves /\ used[t] = NoTask /\ Restart(t, mail)
    BY <1>0, <1>1, CandidateIn DEF TakeUnused
  <2> HIDE DEF t
  <2>2. Command(x, "restart2", chunk + 1) /\ mail' = Post(mail, t, x)
    BY <1>0, <2>1, CommandMsg DEF Restart
  <2> HIDE DEF x
  <2>3. x \in Message /\ t \in Tasks
    BY <2>1, <2>2, TaskFacts DEF Command
  <2>4. {} \cup {<<t, x>>} = {<<t, x>>}
    OBVIOUS
  <2>5. Adds(mail', {<<t, x>>})
    BY <1>0, <2>2, <2>3, <2>4, MoreMoved DEF Adds
  <2> QED
    <3>1. Gives(t, x, {<<t, x>>})
      BY <2>1, <2>2, <2>5 DEF Restart, Gives
    <3> QED
      BY <2>1, <3>1
<1>2. CASE TakeEnded
  <2>1. PICK i \in Receivable(Master, LAMBDA m : m.tag = "ENDTASK") :
          Restart(Min(WhoHad(mail[Master][i].seq)), Taken(Master, i))
    BY <1>2 DEF TakeEnded
  <2>2. i \in DOMAIN mail[Master] /\ mail[Master][i].tag = "ENDTASK"
    BY DEF Receivable
  <2> DEFINE q == mail[Master][i].seq
             x == Msg(Master, "WORK", "restart2", chunk + 1, 0)
  <2>3. PICK t \in Freed : WhoHad(q) = {t}
    BY <1>0, <2>2, OwnerFree
  <2>4. t \in Slaves /\ Quiet(mail[t]) /\ ~slave[t].loaded
    BY DEF Freed
  <2>5. Min(WhoHad(q)) = t
    <3> HIDE DEF q
    <3>1. {t} \in SUBSET Nat
      BY <2>4, TaskFacts DEF Slaves
    <3>2. Min({t}) \in {t}
      BY <3>1, MinLeast
    <3> QED
      BY <2>3, <3>2
  <2>6. Restart(t, Taken(Master, i))
    BY <2>1, <2>5
  <2>7. Command(x, "restart2", chunk + 1) /\ mail' = Post(Taken(Master, i), t, x)
    <3>1. chunk + 1 \in Int /\ 0 \in Int
      BY <1>0
    <3>2. Command(x, "restart2", chunk + 1)
      BY <3>1, CommandMsg
    <3> QED
      BY <2>6, <3>2 DEF Restart
  <2> HIDE DEF x
  <2>8. x \in Message /\ t \in Tasks
    BY <2>4, <2>7, TaskFacts DEF Command
  <2>9. Takes(mail', Master, i, {<<t, x>>})
    BY <1>0, <2>2, <2>7, <2>8, TaskFacts, TakesAndSends
  <2>10. \A y \in ToSet(mail[t]) : y.from # Master
    <3>1. mail[t] \in Seq(Message)
      BY <1>0, <2>8 DEF Boxes
    <3> QED
      BY <2>4, <3>1, MailSet DEF Quiet
  <2> QED
    <3>1. Gives(t, x, {<<t, x>>})
      BY <2>2, <2>4, <2>6, <2>7, <2>9, <2>10 DEF Restart, Gives
    <3> QED
      BY <2>4, <3>1
<1> QED
  BY <1>1, <1>2

-----------------------------------------------------------------------------
(* A broadcast before the first chunk.  The token is at place k: 0 before   *)
(* slave 0 has sent it out, NProc when it is back at slave 0, NProc + 1     *)
(* when slave 0 has told the master.                                        *)

\* The broadcast itself.
Cast(m) == m.from = Master /\ m.tag = "CONF" /\ m.opt = order /\ m.seq = castSeq

HasToken(s, k) == k = IF s = 0 THEN NProc ELSE s
Gone(s, k) == k = NProc + 1 \/ (1 <= s /\ s < k)

\* A slave that has passed the token is idle; one that has not waits in
\* f_ring(), or has not received the broadcast.
Place(s, k) ==
    \/ Gone(s, k) /\ slave[s].ring = -1 /\ Len(mail[s]) = 0
    \/ /\ ~Gone(s, k) /\ slave[s].ring = -1 /\ (s = 0 => k = 0) /\ Cast(mail[s][1])
       /\ Len(mail[s]) = IF HasToken(s, k) THEN 2 ELSE 1
    \/ /\ ~Gone(s, k) /\ slave[s].ring = castSeq /\ (s = 0 => k # 0)
       /\ Len(mail[s]) = IF HasToken(s, k) THEN 1 ELSE 0

TokenAt(k) ==
    /\ Len(mail[Master]) = IF k = NProc + 1 THEN 1 ELSE 0
    /\ \A s \in Slaves : Place(s, k)

Idle == Len(mail[Master]) = 0 /\ \A s \in Slaves : slave[s].ring = -1 /\ Len(mail[s]) = 0

Round ==
    /\ castSeq >= -1
    /\ awaiting => castSeq >= 0 /\ \E k \in 0 .. NProc + 1 : TokenAt(k)
    /\ ~awaiting => Idle

\* Nothing has been encoded yet.
Fresh ==
    /\ chunk = 0 /\ given = 0 /\ current = 0 /\ elab = <<>>
    /\ \A s \in Slaves :
          /\ used[s] = NoTask /\ ~slave[s].first /\ slave[s].loaded
          /\ order \in Early \ {"open"} => ~slave[s].ready
          /\ \A n \in 1 .. Len(slave[s].files) : slave[s].files[n] = <<>>
    /\ \A m \in ToSet(mail[Merger]) : m.opt \in {"join_init", "add_remove"}

\* A slave that can take frames has an encoder and a file.
Ready ==
    \A s \in Slaves : slave[s].ready =>
       slave[s].able /\ slave[s].loaded /\ Len(slave[s].files) > 0

EarlyInv == order \in Early => Round /\ Fresh

LEMMA FollowingIs ==
    ASSUME NEW s \in Slaves
    PROVE  Following(s) = IF s = NProc - 1 THEN 0 ELSE s + 1
<1>1. s \in 0 .. NProc - 1 /\ NProc \in Nat /\ NProc > 0
  BY TaskFacts DEF Slaves
<1>2. CASE s = NProc - 1
  <2>1. s + 1 = NProc
    BY <1>1, <1>2
  <2>2. NProc % NProc = 0
    BY <1>1
  <2> QED
    BY <1>2, <2>1, <2>2 DEF Following
<1>3. CASE s # NProc - 1
  <2>1. s + 1 \in 0 .. NProc - 1
    BY <1>1, <1>3
  <2>2. \A x \in 0 .. NProc - 1 : x % NProc = x
    BY <1>1
  <2> QED
    BY <1>3, <2>1, <2>2 DEF Following
<1> QED
  BY <1>2, <1>3

LEMMA TakenLength ==
    ASSUME mail \in Boxes, NEW t \in Tasks, NEW i \in DOMAIN mail[t]
    PROVE  /\ Taken(t, i) \in Boxes /\ Len(Taken(t, i)[t]) = Len(mail[t]) - 1
           /\ \A u \in Tasks : u # t => Taken(t, i)[u] = mail[u]
           /\ Len(mail[t]) \in Nat /\ Len(mail[t]) > 0 /\ 1 \in DOMAIN mail[t]
<1>1. /\ Taken(t, i) \in Boxes /\ \A u \in Tasks : u # t => Taken(t, i)[u] = mail[u]
      /\ Taken(t, i)[t] = RemoveAt(mail[t], i) /\ mail[t] \in Seq(Message)
            /\ i \in 1 .. Len(mail[t])
  BY TakenOut
<1>2. Len(RemoveAt(mail[t], i)) = Len(mail[t]) - 1
  BY <1>1, Removed
<1>3. Len(mail[t]) \in Nat /\ Len(mail[t]) > 0 /\ 1 \in DOMAIN mail[t]
  BY <1>1
<1> QED
  BY <1>1, <1>2, <1>3

LEMMA PostedLength ==
    ASSUME NEW b \in Boxes, NEW to \in Tasks, NEW m \in Message
    PROVE  /\ Post(b, to, m) \in Boxes /\ Len(Post(b, to, m)[to]) = Len(b[to]) + 1
           /\ \A u \in Tasks : u # to => Post(b, to, m)[u] = b[u]
           /\ \A j \in 1 .. Len(b[to]) : Post(b, to, m)[to][j] = b[to][j]
           /\ Len(b[to]) \in Nat
<1>1. /\ Post(b, to, m) \in Boxes /\ \A t \in Tasks : t # to => Post(b, to, m)[t] = b[t]
      /\ Post(b, to, m)[to] = Append(b[to], m)
  BY Posted
<1>2. b[to] \in Seq(Message)
  BY DEF Boxes
<1>3. /\ Len(Append(b[to], m)) = Len(b[to]) + 1
      /\ \A j \in 1 .. Len(b[to]) : Append(b[to], m)[j] = b[to][j]
  BY <1>2, AppendProperties
<1>4. Len(b[to]) \in Nat
  BY <1>2
<1> QED
  BY <1>1, <1>3, <1>4

\* The first message of a slave that is not in f_ring() is the broadcast.
LEMMA EarlyFront ==
    ASSUME ClusterTypeOK, EarlyInv, order \in Early, NEW s \in Slaves,
           slave[s].ring = -1, NEW i \in DOMAIN mail[s]
    PROVE  /\ awaiting /\ Cast(mail[s][1])
           /\ \E k \in 0 .. NProc + 1 : TokenAt(k) /\ ~Gone(s, k) /\ (s = 0 => k = 0)
<1>1. Len(mail[s]) \in Nat /\ Len(mail[s]) > 0
  BY TaskFacts, TakenLength DEF ClusterTypeOK
<1>2. Round
  BY DEF EarlyInv
<1>3. awaiting /\ castSeq >= 0 /\ castSeq \in Int
  BY <1>1, <1>2 DEF Round, Idle, ClusterTypeOK
<1>4. PICK k \in 0 .. NProc + 1 : TokenAt(k)
  BY <1>2, <1>3 DEF Round
<1>5. Place(s, k)
  BY <1>4 DEF TokenAt
<1>6. slave[s].ring # castSeq
  BY <1>3
<1> QED
  BY <1>1, <1>3, <1>4, <1>5, <1>6 DEF Place

LEMMA EarlySteps ==
    ASSUME ClusterTypeOK, Overtaking = FALSE, EarlyInv, order \in Early,
           NEW s \in Slaves, SlaveStep(s)
    PROVE  Configure(s) \/ PassToken(s)
<1>0. mail \in Boxes
  BY DEF ClusterTypeOK
<1>1. ASSUME NEW i \in DOMAIN mail[s], Ordered(s, "WORK", i) PROVE FALSE
  <2>1. Commanded(s, "WORK")
    BY <1>0, <1>1, OrderedFirst
  <2>2. Cast(mail[s][1])
    BY <2>1, EarlyFront DEF Commanded
  <2> QED
    BY <2>1, <2>2 DEF Commanded, Cast
<1>2. ~Encode(s) /\ ~CloseChunk(s) /\ ~OpenNext(s)
  BY <1>1 DEF Encode, CloseChunk, OpenNext
<1>3. ~Discard(s)
  <2> SUFFICES ASSUME Discard(s) PROVE FALSE
    OBVIOUS
  <2>1. mail[s][1].from # Master /\ Takes(mail', s, 1, {}) /\ slave[s].ring = -1
    BY <1>0, DiscardEffect DEF Discard
  <2>2. 1 \in DOMAIN mail[s]
    BY <2>1 DEF Takes
  <2>3. Cast(mail[s][1])
    BY <2>1, <2>2, EarlyFront
  <2> QED
    BY <2>1, <2>3 DEF Cast
<1> QED
  BY <1>2, <1>3 DEF SlaveStep

\* What receiving the broadcast does to the mail that matters here.
LEMMA EarlyConfigure ==
    ASSUME ClusterTypeOK, Overtaking = FALSE, EarlyInv, order \in Early,
           NEW s \in Slaves, Configure(s)
    PROVE  /\ slave[s].ring = -1 /\ awaiting /\ Cast(mail[s][1]) /\ 1 \in DOMAIN mail[s]
           /\ \E rc \in Int : slave' = [slave EXCEPT ![s] = Carried(s, mail[s][1], rc)]
           /\ \E b \in Boxes :
                 /\ Len(b[s]) = Len(mail[s]) - 1
                 /\ \A u \in Tasks \ {Merger} : u # s => b[u] = mail[u]
                 /\ \A x \in ToSet(b[Merger]) : x \in ToSet(mail[Merger]) \/ x.opt = "add_remove"
                 /\ s # 0 => mail' = b
                 /\ s = 0 => \E x \in Message : mail' = Post(b, Following(s), x)
           /\ UNCHANGED <<mastervars, mergervars>>
<1>0. mail \in Boxes /\ s \in Tasks /\ s # Merger
  BY TaskFacts DEF ClusterTypeOK
<1>1. PICK i \in DOMAIN mail[s] :
        /\ Ordered(s, "CONF", i)
        /\ \E rc \in {0} \cup Refusals(s, mail[s][i].opt) :
              /\ slave' = [slave EXCEPT ![s] = Carried(s, mail[s][i], rc)]
              /\ mail' = EnterRing(s, rc,
                   IF mail[s][i].opt = "open" /\ rc = 0
                   THEN Post(Taken(s, i), Merger,
                             Msg(s, "JOIN", "add_remove", mail[s][i].seq, NextFile(s)))
                   ELSE Taken(s, i))
  BY DEF Configure
<1>2. i = 1 /\ Commanded(s, "CONF")
  BY <1>0, <1>1, OrderedFirst
<1>3. PICK rc \in {0} \cup Refusals(s, mail[s][i].opt) :
         /\ slave' = [slave EXCEPT ![s] = Carried(s, mail[s][i], rc)]
         /\ mail' = EnterRing(s, rc,
                   IF mail[s][i].opt = "open" /\ rc = 0
                   THEN Post(Taken(s, i), Merger,
                             Msg(s, "JOIN", "add_remove", mail[s][i].seq, NextFile(s)))
                   ELSE Taken(s, i))
  BY <1>1
<1>4. rc \in Int
  BY DEF Refusals
<1> DEFINE a == Taken(s, i)
           y == Msg(s, "JOIN", "add_remove", mail[s][i].seq, NextFile(s))
           b == IF mail[s][i].opt = "open" /\ rc = 0 THEN Post(a, Merger, y) ELSE a
           x == Msg(s, "RING", "", 0, rc)
<1>5. /\ a \in Boxes /\ Len(a[s]) = Len(mail[s]) - 1
      /\ \A u \in Tasks : u # s => a[u] = mail[u]
  BY <1>0, TakenLength
<1>6. y \in Message /\ x \in Message /\ y.opt = "add_remove"
  <2>1. mail[s][i].seq \in Int /\ NextFile(s) \in Int
    BY <1>0, FrontTyped, SlaveTyped
  <2>2. y \in Message
    BY <1>0, <2>1, MsgType, TagFacts
  <2>3. x \in Message
    BY <1>0, <1>4, MsgType, TagFacts
  <2>4. y.opt = "add_remove"
    BY DEF Msg
  <2> QED
    BY <2>2, <2>3, <2>4
<1>7. mail' = IF s = 0 THEN Post(b, Following(s), x) ELSE b
  BY <1>3 DEF EnterRing
<1> HIDE DEF a, y, x
<1>8. /\ b \in Boxes /\ Len(b[s]) = Len(mail[s]) - 1
      /\ \A u \in Tasks \ {Merger} : u # s => b[u] = mail[u]
      /\ \A z \in ToSet(b[Merger]) : z \in ToSet(mail[Merger]) \/ z.opt = "add_remove"
  <2>1. CASE b = a
    BY <1>0, <1>5, <2>1, TaskFacts
  <2>2. CASE b = Post(a, Merger, y)
    <3> HIDE DEF b
    <3>1. /\ b \in Boxes /\ \A u \in Tasks : u # Merger => b[u] = a[u]
          /\ b[Merger] = Append(a[Merger], y)
      <4>1. a \in Boxes /\ Merger \in Tasks /\ y \in Message
        BY <1>5, <1>6, TaskFacts
      <4>2. /\ Post(a, Merger, y) \in Boxes
            /\ \A u \in Tasks : u # Merger => Post(a, Merger, y)[u] = a[u]
            /\ Post(a, Merger, y)[Merger] = Append(a[Merger], y)
        BY <4>1, Posted
      <4> QED
        BY <2>2, <4>2
    <3>2. a[Merger] \in Seq(Message) /\ a[Merger] = mail[Merger]
      BY <1>0, <1>5, TaskFacts DEF Boxes
    <3>3. ToSet(b[Merger]) = ToSet(a[Merger]) \cup {y}
      BY <1>6, <3>1, <3>2, SetAppended
    <3> QED
      BY <1>0, <1>5, <1>6, <3>1, <3>2, <3>3
  <2> QED
    BY <2>1, <2>2
<1>9. slave[s].ring = -1 /\ awaiting /\ Cast(mail[s][1]) /\ 1 \in DOMAIN mail[s]
  BY <1>2, EarlyFront DEF Commanded
<1>10. UNCHANGED <<mastervars, mergervars>>
  BY DEF Configure
<1>11. s # 0 => mail' = b
  BY <1>7
<1>12. s = 0 => mail' = Post(b, Following(s), x)
  BY <1>7
<1> HIDE DEF b
<1> QED
  BY <1>2, <1>3, <1>4, <1>6, <1>8, <1>9, <1>10, <1>11, <1>12

LEMMA RoundNext ==
    ASSUME castSeq' \in Int, castSeq' >= 0, awaiting', NEW k \in 0 .. NProc + 1, TokenAt(k)'
    PROVE  Round'
<1>1. castSeq' >= -1
  OBVIOUS
<1> QED
  BY <1>1 DEF Round, TokenAt, Place, Gone, HasToken, Cast, Slaves, Master

LEMMA RoundConfigure ==
    ASSUME ClusterTypeOK, Overtaking = FALSE, EarlyInv, order \in Early,
           NEW s \in Slaves, Configure(s)
    PROVE  Round'
<1>0. /\ mail \in Boxes /\ s \in Tasks /\ s # Merger /\ slave \in [Slaves -> SlaveState]
      /\ castSeq \in Int /\ NProc \in Nat /\ NProc > 0 /\ s \in 0 .. NProc - 1
      /\ Master \in Tasks /\ Master # Merger
  BY TaskFacts DEF ClusterTypeOK, Slaves
<1>1. /\ slave[s].ring = -1 /\ awaiting /\ Cast(mail[s][1]) /\ 1 \in DOMAIN mail[s]
      /\ UNCHANGED <<mastervars, mergervars>>
  BY EarlyConfigure
<1>2. PICK k \in 0 .. NProc + 1 : TokenAt(k) /\ ~Gone(s, k) /\ (s = 0 => k = 0)
  BY <1>1, EarlyFront
<1>3. PICK b \in Boxes :
         /\ Len(b[s]) = Len(mail[s]) - 1
         /\ \A u \in Tasks \ {Merger} : u # s => b[u] = mail[u]
         /\ s # 0 => mail' = b
         /\ s = 0 => \E x \in Message : mail' = Post(b, Following(s), x)
  BY EarlyConfigure
<1>4. castSeq >= 0
  BY <1>1 DEF EarlyInv, Round
<1>5. /\ \A u \in Slaves : u # s => slave'[u] = slave[u]
      /\ slave'[s].ring = castSeq
  <2>1. PICK rc \in Int : slave' = [slave EXCEPT ![s] = Carried(s, mail[s][1], rc)]
    BY EarlyConfigure
  <2>2. Carried(s, mail[s][1], rc).ring = castSeq
    <3>1. slave[s] \in SlaveState /\ mail[s][1].seq = castSeq
      BY <1>0, <1>1 DEF Cast
    <3> QED
      BY <3>1 DEF Carried, SlaveState
  <2> QED
    BY <1>0, <2>1, <2>2
<1>6. /\ castSeq' = castSeq /\ order' = order /\ awaiting' = awaiting
  BY <1>1 DEF mastervars
<1>7. /\ Len(mail[s]) = IF HasToken(s, k) THEN 2 ELSE 1
      /\ \A u \in Slaves : Place(u, k)
      /\ Len(mail[Master]) = IF k = NProc + 1 THEN 1 ELSE 0
  <2>1. Place(s, k)
    BY <1>2 DEF TokenAt
  <2> QED
    BY <1>1, <1>2, <1>4, <2>1 DEF Place, TokenAt
<1>8. CASE s # 0
  <2>1. mail' = b
    BY <1>3, <1>8
  <2>2. ASSUME NEW u \in Slaves PROVE Place(u, k)'
    <3>1. CASE u # s
      <4>1. u \in Tasks \ {Merger}
        BY TaskFacts
      <4>2. mail'[u] = mail[u] /\ slave'[u] = slave[u] /\ Place(u, k)
        BY <1>3, <1>5, <1>7, <2>1, <3>1, <4>1
      <4> QED
        BY <1>6, <4>2 DEF Place, Gone, HasToken, Cast, Master
    <3>2. CASE u = s
      <4>1. Len(mail'[s]) = IF HasToken(s, k) THEN 1 ELSE 0
        BY <1>3, <1>7, <2>1
      <4> QED
        BY <1>2, <1>5, <1>6, <1>8, <3>2, <4>1 DEF Place, Gone, HasToken
    <3> QED
      BY <3>1, <3>2
  <2>3. mail'[Master] = mail[Master]
    BY <1>0, <1>3, <2>1, TaskFacts
  <2>4. TokenAt(k)'
    BY <1>7, <2>2, <2>3 DEF TokenAt, Slaves, Master
  <2> QED
    BY <1>0, <1>1, <1>4, <1>6, <2>4, RoundNext
<1>9. CASE s = 0
  <2>1. PICK x \in Message : mail' = Post(b, Following(s), x)
    BY <1>3, <1>9
  <2>2. k = 0 /\ Len(b[0]) = 0
    <3>1. k = 0
      BY <1>2, <1>9
    <3>2. ~HasToken(0, 0)
      BY <1>0 DEF HasToken
    <3>3. Len(mail[0]) = 1
      BY <1>7, <1>9, <3>1, <3>2
    <3> QED
      BY <1>3, <1>9, <3>1, <3>3
  <2>3. /\ Following(s) \in Slaves /\ Following(s) \in Tasks
        /\ Following(s) = IF NProc = 1 THEN 0 ELSE 1
    <3>1. Following(s) = IF s = NProc - 1 THEN 0 ELSE s + 1
      BY FollowingIs
    <3> QED
      BY <1>0, <1>9, <3>1, FollowingIn, TaskFacts
  <2> DEFINE f == Following(s)
  <2>4. /\ Len(mail'[f]) = Len(b[f]) + 1 /\ \A j \in 1 .. Len(b[f]) : mail'[f][j] = b[f][j]
        /\ \A u \in Tasks : u # f => mail'[u] = b[u]
        /\ Len(b[f]) \in Nat
    BY <2>1, <2>3, PostedLength
  <2> HIDE DEF f
  <2>5. ASSUME NEW u \in Slaves PROVE Place(u, 1)'
    <3>1. u \in 0 .. NProc - 1 /\ u \in Tasks \ {Merger} /\ ~Gone(u, 0) /\ ~Gone(u, 1)
          /\ Place(u, 0)
      <4>1. u \in 0 .. NProc - 1 /\ u \in Tasks \ {Merger}
        BY TaskFacts DEF Slaves
      <4>2. ~Gone(u, 0) /\ ~Gone(u, 1)
        BY <1>0, <4>1 DEF Gone
      <4> QED
        BY <1>7, <2>2, <4>1, <4>2
    <3>2. CASE u = 0
      <4>1. Len(mail'[0]) = IF NProc = 1 THEN 1 ELSE 0
        <5>1. CASE NProc = 1
          <6>1. f = 0
            BY <2>3, <5>1 DEF f
          <6>2. Len(b[f]) = 0
            BY <2>2, <6>1
          <6>3. Len(mail'[f]) = Len(b[f]) + 1
            BY <2>4
          <6>4. Len(mail'[f]) = 1
            BY <6>2, <6>3
          <6> QED
            BY <5>1, <6>1, <6>4
        <5>2. CASE NProc # 1
          BY <1>9, <2>2, <2>3, <2>4, <3>1, <3>2, <5>2 DEF f
        <5> QED
          BY <5>1, <5>2
      <4>2. HasToken(0, 1) <=> NProc = 1
        BY <1>0 DEF HasToken
      <4> QED
        BY <1>5, <1>6, <1>9, <3>1, <3>2, <4>1, <4>2 DEF Place, Gone, HasToken
    <3>3. CASE u # 0
      <4>1. b[u] = mail[u] /\ slave'[u] = slave[u] /\ ~HasToken(u, 0)
        BY <1>3, <1>5, <1>9, <3>1, <3>3 DEF HasToken
      <4>2. CASE u = 1
        <5>1. u = f /\ HasToken(u, 1)
          BY <2>3, <3>1, <4>2 DEF f, HasToken
        <5>2. \/ slave[u].ring = -1 /\ Cast(mail[u][1]) /\ Len(mail[u]) = 1
              \/ slave[u].ring = castSeq /\ Len(mail[u]) = 0
          BY <3>1, <4>1 DEF Place
        <5>3. Len(mail'[u]) = Len(mail[u]) + 1
              /\ \A j \in 1 .. Len(mail[u]) : mail'[u][j] = mail[u][j]
          BY <2>4, <4>1, <5>1
        <5>4. CASE slave[u].ring = -1 /\ Cast(mail[u][1]) /\ Len(mail[u]) = 1
          <6>1. Len(mail'[u]) = 2 /\ mail'[u][1] = mail[u][1]
            BY <5>3, <5>4
          <6> QED
            BY <1>6, <3>1, <3>3, <4>1, <5>1, <5>4, <6>1 DEF Place, Gone, HasToken, Cast, Master
        <5>5. CASE slave[u].ring = castSeq /\ Len(mail[u]) = 0
          <6>1. Len(mail'[u]) = 1
            BY <5>3, <5>5
          <6> QED
            BY <1>6, <3>1, <3>3, <4>1, <5>1, <5>5, <6>1 DEF Place, Gone, HasToken, Cast, Master
        <5> QED
          BY <5>2, <5>4, <5>5
      <4>3. CASE u # 1
        <5>1. u # f /\ ~HasToken(u, 1)
          BY <2>3, <3>3, <4>3 DEF f, HasToken
        <5>2. mail'[u] = mail[u]
          BY <2>4, <3>1, <4>1, <5>1
        <5>3. \/ slave[u].ring = -1 /\ Cast(mail[u][1]) /\ Len(mail[u]) = 1
              \/ slave[u].ring = castSeq /\ Len(mail[u]) = 0
          BY <3>1, <4>1 DEF Place
        <5> QED
          BY <1>6, <3>1, <3>3, <4>1, <5>1, <5>2, <5>3 DEF Place, Gone, HasToken, Cast, Master
      <4> QED
        BY <4>2, <4>3
    <3> QED
      BY <3>2, <3>3
  <2>6. Len(mail'[Master]) = 0
    <3>1. Master # f /\ Master # s
      BY <2>3, TaskFacts DEF f
    <3> QED
      BY <1>0, <1>3, <1>7, <2>2, <2>4, <3>1
  <2>7. TokenAt(1)'
    <3>1. 1 # NProc + 1
      BY <1>0
    <3> QED
      BY <2>5, <2>6, <3>1 DEF TokenAt, Slaves, Master
  <2>8. 1 \in 0 .. NProc + 1
    BY <1>0
  <2> QED
    BY <1>0, <1>1, <1>4, <1>6, <2>7, <2>8, RoundNext
<1> QED
  BY <1>8, <1>9

LEMMA RoundPass ==
    ASSUME ClusterTypeOK, Overtaking = FALSE, EarlyInv, order \in Early,
           NEW s \in Slaves, PassToken(s)
    PROVE  Round' /\ \A x \in ToSet(mail'[Merger]) : x \in ToSet(mail[Merger])
<1>0. /\ mail \in Boxes /\ s \in Tasks /\ s # Merger /\ slave \in [Slaves -> SlaveState]
      /\ castSeq \in Int /\ NProc \in Nat /\ NProc > 0 /\ s \in 0 .. NProc - 1
      /\ Master \in Tasks /\ Master # Merger
  BY TaskFacts DEF ClusterTypeOK, Slaves
<1>1. /\ UNCHANGED <<mastervars, mergervars>>
      /\ slave[s].ring # -1 /\ slave' = [slave EXCEPT ![s].ring = -1]
  BY PassTokenEffect
<1>2. Round
  BY DEF EarlyInv
<1>3. awaiting /\ castSeq >= 0
  BY <1>1, <1>2 DEF Round, Idle
<1>4. PICK k \in 0 .. NProc + 1 : TokenAt(k)
  BY <1>2, <1>3 DEF Round
<1>5. /\ \A u \in Slaves : u # s => slave'[u] = slave[u]
      /\ slave'[s].ring = -1
  <2>1. slave[s] \in SlaveState
    BY <1>0
  <2> QED
    BY <1>0, <1>1, <2>1 DEF SlaveState
<1>6. castSeq' = castSeq /\ order' = order /\ awaiting' = awaiting
  BY <1>1 DEF mastervars
<1> DEFINE to == IF s = 0 THEN Master ELSE Following(s)
<1>7. PICK i \in DOMAIN mail[s], x \in Message : mail' = Post(Taken(s, i), to, x)
  <2>1. PICK i \in Receivable(s, LAMBDA m : m.tag = "RING" /\ m.from = Preceding(s)) :
           mail' = IF s = 0
                   THEN Post(Taken(s, i), Master,
                             Msg(s, "RING", "", slave[s].ring, mail[s][i].body))
                   ELSE Post(Taken(s, i), Following(s),
                             Msg(s, "RING", "", 0,
                                 IF mail[s][i].body # 0 THEN mail[s][i].body ELSE slave[s].rc))
    BY DEF PassToken
  <2>2. i \in DOMAIN mail[s]
    BY DEF Receivable
  <2>3. mail[s][i].body \in Int /\ slave[s].rc \in Int /\ slave[s].ring \in Int
    BY <1>0, <2>2, FrontTyped, SlaveTyped
  <2>4. \A q \in Int, c \in Int : Msg(s, "RING", "", q, c) \in Message
    BY <1>0, MsgType, TagFacts
  <2>5. Msg(s, "RING", "", slave[s].ring, mail[s][i].body) \in Message
    BY <2>3, <2>4
  <2>6. Msg(s, "RING", "", 0,
            IF mail[s][i].body # 0 THEN mail[s][i].body ELSE slave[s].rc) \in Message
    <3> DEFINE c == IF mail[s][i].body # 0 THEN mail[s][i].body ELSE slave[s].rc
    <3>1. c \in Int /\ 0 \in Int
      BY <2>3
    <3> HIDE DEF c
    <3>2. Msg(s, "RING", "", 0, c) \in Message
      BY <2>4, <3>1
    <3> QED
      BY <3>2 DEF c
  <2> QED
    BY <2>1, <2>2, <2>5, <2>6
<1>8. /\ ~Gone(s, k) /\ HasToken(s, k) /\ Len(mail[s]) = 1
      /\ \A u \in Slaves : Place(u, k)
      /\ Len(mail[Master]) = IF k = NProc + 1 THEN 1 ELSE 0
  <2>1. Len(mail[s]) \in Nat /\ Len(mail[s]) > 0
    BY <1>0, <1>7, TakenLength
  <2>2. Place(s, k)
    BY <1>4 DEF TokenAt
  <2>3. Len(mail[s]) # 0
    BY <2>1
  <2>4. ~Gone(s, k) /\ HasToken(s, k) /\ Len(mail[s]) = 1
    BY <1>1, <2>2, <2>3 DEF Place
  <2> QED
    BY <1>4, <2>4 DEF TokenAt
<1> DEFINE a == Taken(s, i)
<1>9. /\ a \in Boxes /\ Len(a[s]) = 0 /\ \A u \in Tasks : u # s => a[u] = mail[u]
  <2>1. /\ a \in Boxes /\ Len(a[s]) = Len(mail[s]) - 1
        /\ \A u \in Tasks : u # s => a[u] = mail[u]
    BY <1>0, <1>7, TakenLength
  <2>2. Len(a[s]) = 0
    BY <1>8, <2>1
  <2> QED
    BY <2>1, <2>2
<1> HIDE DEF a
<1>10. to \in Tasks /\ to # Merger
  BY TaskFacts, FollowingIn
<1> HIDE DEF to
<1>11. /\ Len(mail'[to]) = Len(a[to]) + 1 /\ \A j \in 1 .. Len(a[to]) : mail'[to][j] = a[to][j]
       /\ \A u \in Tasks : u # to => mail'[u] = a[u]
  <2>1. mail' = Post(a, to, x)
    BY <1>7 DEF a
  <2> QED
    BY <1>9, <1>10, <2>1, PostedLength
<1>12. mail'[Merger] = mail[Merger]
  BY <1>0, <1>9, <1>10, <1>11, TaskFacts
<1>13. CASE s = 0
  <2>1. to = Master /\ k = NProc
    BY <1>8, <1>13 DEF to, HasToken
  <2>2. Len(mail'[Master]) = 1
    <3>1. Len(mail[Master]) = 0 /\ a[Master] = mail[Master]
      BY <1>0, <1>8, <1>9, <2>1, TaskFacts
    <3>2. Len(a[to]) = 0
      BY <2>1, <3>1
    <3>3. Len(mail'[to]) = Len(a[to]) + 1
      BY <1>11
    <3>4. Len(mail'[to]) = 1
      BY <3>2, <3>3
    <3> QED
      BY <2>1, <3>4
  <2>3. ASSUME NEW u \in Slaves PROVE slave'[u].ring = -1 /\ Len(mail'[u]) = 0
    <3>1. u \in Tasks /\ u # Master /\ u \in 0 .. NProc - 1
      BY TaskFacts DEF Slaves
    <3>2. CASE u = s
      BY <1>5, <1>9, <1>11, <2>1, <3>1, <3>2
    <3>3. CASE u # s
      <4>1. Gone(u, k) /\ Place(u, k)
        BY <1>0, <1>8, <1>13, <2>1, <3>1, <3>3 DEF Gone
      <4>2. slave[u].ring = -1 /\ Len(mail[u]) = 0
        BY <4>1 DEF Place
      <4> QED
        BY <1>5, <1>9, <1>11, <2>1, <3>1, <3>3, <4>2
    <3> QED
      BY <3>2, <3>3
  <2>4. TokenAt(NProc + 1)'
    BY <2>2, <2>3 DEF TokenAt, Place, Gone, Slaves, Master
  <2>5. NProc + 1 \in 0 .. NProc + 1
    BY <1>0
  <2> QED
    BY <1>0, <1>3, <1>6, <1>12, <2>4, <2>5, RoundNext
<1>14. CASE s # 0
  <2>1. k = s /\ to \in Slaves /\ to = IF s = NProc - 1 THEN 0 ELSE s + 1
    BY <1>8, <1>14, FollowingIs, FollowingIn DEF to, HasToken
  <2>2. ASSUME NEW u \in Slaves PROVE Place(u, s + 1)'
    <3>1. u \in Tasks /\ u \in 0 .. NProc - 1 /\ Place(u, s)
      BY <1>8, <2>1, TaskFacts DEF Slaves
    <3>2. CASE u = s
      <4>1. Gone(u, s + 1)
        BY <1>0, <1>14, <3>2 DEF Gone
      <4>2. u # to
        BY <1>0, <1>14, <2>1, <3>2
      <4>3. Len(mail'[u]) = 0
        BY <1>9, <1>11, <3>1, <3>2, <4>2
      <4> QED
        BY <1>5, <3>2, <4>1, <4>3 DEF Place, Gone
    <3>3. CASE u # s
      <4>1. a[u] = mail[u] /\ slave'[u] = slave[u] /\ ~HasToken(u, s)
        BY <1>0, <1>5, <1>9, <1>14, <3>1, <3>3 DEF HasToken
      <4>2. (Gone(u, s + 1) <=> Gone(u, s)) /\ (HasToken(u, s + 1) <=> u = to)
        BY <1>0, <1>14, <2>1, <3>1, <3>3 DEF Gone, HasToken
      <4>3. CASE u # to
        <5>1. mail'[u] = mail[u]
          BY <1>11, <3>1, <4>1, <4>3
        <5>2. \/ Gone(u, s) /\ slave[u].ring = -1 /\ Len(mail[u]) = 0
              \/ /\ ~Gone(u, s) /\ slave[u].ring = -1 /\ (u = 0 => s = 0) /\ Cast(mail[u][1])
                 /\ Len(mail[u]) = 1
              \/ ~Gone(u, s) /\ slave[u].ring = castSeq /\ Len(mail[u]) = 0
          BY <3>1, <4>1 DEF Place
        <5>3. ~HasToken(u, s + 1) /\ s + 1 # 0
          BY <1>0, <4>2, <4>3
        <5> QED
          BY <1>6, <1>14, <4>1, <4>2, <5>1, <5>2, <5>3 DEF Place, Gone, HasToken, Cast, Master
      <4>4. CASE u = to
        <5>1. ~Gone(u, s)
          BY <1>0, <1>14, <2>1, <3>1, <4>4 DEF Gone
        <5>2. \/ slave[u].ring = -1 /\ (u = 0 => s = 0) /\ Cast(mail[u][1]) /\ Len(mail[u]) = 1
              \/ slave[u].ring = castSeq /\ Len(mail[u]) = 0
          BY <3>1, <4>1, <5>1 DEF Place
        <5>3. Len(mail'[u]) = Len(mail[u]) + 1
              /\ \A j \in 1 .. Len(mail[u]) : mail'[u][j] = mail[u][j]
          BY <1>11, <4>1, <4>4
        <5>4. HasToken(u, s + 1) /\ ~Gone(u, s + 1) /\ s + 1 # 0
          BY <1>0, <4>2, <4>4, <5>1
        <5>5. CASE slave[u].ring = -1 /\ (u = 0 => s = 0) /\ Cast(mail[u][1]) /\ Len(mail[u]) = 1
          <6>1. Len(mail'[u]) = 2 /\ mail'[u][1] = mail[u][1]
            BY <5>3, <5>5
          <6> QED
            BY <1>6, <1>14, <4>1, <5>4, <5>5, <6>1 DEF Place, Gone, HasToken, Cast, Master
        <5>6. CASE slave[u].ring = castSeq /\ Len(mail[u]) = 0
          <6>1. Len(mail'[u]) = 1
            BY <5>3, <5>6
          <6> QED
            BY <1>6, <1>14, <4>1, <5>4, <5>6, <6>1 DEF Place, Gone, HasToken, Cast, Master
        <5> QED
          BY <5>2, <5>5, <5>6
      <4> QED
        BY <4>3, <4>4
    <3> QED
      BY <3>2, <3>3
  <2>3. Len(mail'[Master]) = 0
    <3>1. Master # to /\ Master # s /\ k # NProc + 1
      BY <1>0, <2>1, TaskFacts
    <3> QED
      BY <1>0, <1>8, <1>9, <1>11, <3>1
  <2>4. TokenAt(s + 1)'
    <3>1. s + 1 # NProc + 1
      BY <1>0
    <3> QED
      BY <2>2, <2>3, <3>1 DEF TokenAt, Slaves, Master
  <2>5. s + 1 \in 0 .. NProc + 1
    BY <1>0
  <2> QED
    BY <1>0, <1>3, <1>6, <1>12, <2>4, <2>5, RoundNext
<1> QED
  BY <1>13, <1>14

LEMMA EarlyCast ==
    ASSUME ClusterTypeOK, EarlyInv, order \in Early, MultiSend
    PROVE  Round' /\ Fresh'
<1>0. /\ mail \in Boxes /\ castSeq \in Int /\ NProc \in Nat /\ NProc > 0
      /\ Master \in Tasks /\ Merger \in Tasks /\ Master \notin Slaves /\ Merger \notin Slaves
  BY TaskFacts DEF ClusterTypeOK
<1>1. /\ castSeq' = castSeq + 1 /\ order' = order /\ awaiting' = TRUE /\ ~awaiting
      /\ UNCHANGED <<chunk, given, current, used, elab, slave>>
  BY DEF MultiSend, mergervars
<1>2. castSeq' \in Int /\ castSeq' >= 0 /\ Idle
  BY <1>0, <1>1 DEF EarlyInv, Round
<1>3. PICK c \in Message :
         /\ c.from = Master /\ c.tag = "CONF" /\ c.opt = order /\ c.seq = castSeq'
         /\ mail' = [t \in Tasks |-> IF t \in Slaves THEN Append(mail[t], c) ELSE mail[t]]
  BY MultiSendEffect
<1>4. mail'[Master] = mail[Master] /\ mail'[Merger] = mail[Merger]
  BY <1>0, <1>3
<1>5. ASSUME NEW s \in Slaves
      PROVE  slave'[s].ring = -1 /\ Len(mail'[s]) = 1 /\ mail'[s][1] = c
  <2>1. s \in Tasks /\ mail[s] \in Seq(Message) /\ Len(mail[s]) = 0 /\ slave[s].ring = -1
    BY <1>0, <1>2, TaskFacts DEF Idle, Boxes
  <2>2. mail'[s] = Append(mail[s], c)
    BY <1>3, <2>1
  <2>3. Len(mail'[s]) = Len(mail[s]) + 1 /\ mail'[s][Len(mail[s]) + 1] = c
    BY <2>1, <2>2, AppendProperties
  <2> QED
    BY <1>1, <2>1, <2>3
<1>6. TokenAt(0)'
  <2>1. ASSUME NEW s \in Slaves PROVE ~HasToken(s, 0) /\ ~Gone(s, 0)
    BY <1>0 DEF HasToken, Gone, Slaves
  <2>2. \A s \in Slaves : Place(s, 0)'
    BY <1>1, <1>3, <1>5, <2>1 DEF Place, HasToken, Gone, Cast, Master
  <2>3. Len(mail'[Master]) = 0 /\ 0 # NProc + 1
    BY <1>0, <1>2, <1>4 DEF Idle
  <2> QED
    BY <2>2, <2>3 DEF TokenAt, Slaves, Master
<1>7. 0 \in 0 .. NProc + 1
  BY <1>0
<1>8. Fresh'
  BY <1>1, <1>4 DEF EarlyInv, Fresh, Slaves, Merger, NoTask, Early
<1> QED
  BY <1>1, <1>2, <1>6, <1>7, <1>8, RoundNext

\* The token has come back: the mails of the slaves are empty again.
LEMMA RoundOver ==
    ASSUME ClusterTypeOK, EarlyInv, order \in Early, MultiSent
    PROVE  Idle' /\ Fresh' /\ (castSeq >= -1)'
<1>0. /\ mail \in Boxes /\ castSeq \in Int /\ NProc \in Nat /\ sendSeq \in Int
      /\ Master \in Tasks /\ Merger \in Tasks /\ Master \notin Slaves /\ Merger \notin Slaves
      /\ Master # Merger /\ Slaves \subseteq Tasks
  BY TaskFacts DEF ClusterTypeOK
<1>1. PICK i \in Receivable(Master, LAMBDA m : m.tag = "RING" /\ m.seq = castSeq) :
        LET failed == mail[Master][i].body = -1 /\ order # "stop"
        IN /\ mail' = IF failed THEN Taken(Master, i)
                      ELSE ToMerger(Taken(Master, i))
           /\ order' = IF failed THEN "over" ELSE FollowingCast[order]
  BY DEF MultiSent
<1>2. i \in DOMAIN mail[Master]
  BY DEF Receivable
<1>3. /\ Taken(Master, i) \in Boxes /\ Len(Taken(Master, i)[Master]) = Len(mail[Master]) - 1
      /\ \A u \in Tasks : u # Master => Taken(Master, i)[u] = mail[u]
      /\ Len(mail[Master]) \in Nat /\ Len(mail[Master]) > 0
  BY <1>0, <1>2, TakenLength
<1>4. awaiting /\ castSeq >= -1 /\ Fresh /\ Round
  BY DEF MultiSent, EarlyInv, Round
<1>5. PICK k \in 0 .. NProc + 1 : TokenAt(k)
  BY <1>4 DEF Round
<1>6. k = NProc + 1 /\ Len(mail[Master]) = 1
  <2>1. Len(mail[Master]) # 0
    BY <1>3
  <2> QED
    BY <1>5, <2>1 DEF TokenAt
<1>7. Len(Taken(Master, i)[Master]) = 0
  BY <1>3, <1>6
<1>8. \A s \in Slaves : slave[s].ring = -1 /\ Len(mail[s]) = 0
  BY <1>5, <1>6 DEF TokenAt, Place, Gone
<1>9. order # "close"
  BY DEF Early
<1>10. \/ mail' = Taken(Master, i)
       \/ \E x \in Message : x.opt = "join_init" /\ mail' = Post(Taken(Master, i), Merger, x)
  <2> DEFINE x == Msg(Master, "WORK", "join_init", sendSeq + 1, 0)
  <2>1. x \in Message /\ x.opt = "join_init"
    <3>1. sendSeq + 1 \in Int
      BY <1>0
    <3>2. x \in Message
      BY <3>1, MsgType, TagFacts, TaskFacts
    <3> QED
      BY <3>2 DEF Msg
  <2>2. ToMerger(Taken(Master, i)) \in {Taken(Master, i), Post(Taken(Master, i), Merger, x)}
    BY <1>9 DEF ToMerger
  <2> HIDE DEF x
  <2> QED
    BY <1>1, <2>1, <2>2
<1>11. /\ Len(mail'[Master]) = 0 /\ \A s \in Slaves : mail'[s] = mail[s]
       /\ \A x \in ToSet(mail'[Merger]) : x \in ToSet(mail[Merger]) \/ x.opt = "join_init"
  <2>1. CASE mail' = Taken(Master, i)
    BY <1>0, <1>3, <1>7, <2>1
  <2>2. ASSUME NEW x \in Message, x.opt = "join_init", mail' = Post(Taken(Master, i), Merger, x)
        PROVE  /\ Len(mail'[Master]) = 0 /\ \A s \in Slaves : mail'[s] = mail[s]
               /\ \A y \in ToSet(mail'[Merger]) : y \in ToSet(mail[Merger]) \/ y.opt = "join_init"
    <3> DEFINE a == Taken(Master, i)
    <3>1. a \in Boxes /\ a[Merger] = mail[Merger] /\ a[Merger] \in Seq(Message)
      BY <1>0, <1>3 DEF Boxes
    <3>2. /\ \A u \in Tasks : u # Merger => a[u] = mail'[u]
          /\ mail'[Merger] = Append(a[Merger], x)
      <4>1. mail' = Post(a, Merger, x)
        BY <2>2
      <4> HIDE DEF a
      <4> QED
        BY <1>0, <3>1, <4>1, Posted
    <3>3. ToSet(mail'[Merger]) = ToSet(a[Merger]) \cup {x}
      BY <3>1, <3>2, SetAppended
    <3>4. Len(a[Master]) = 0 /\ \A s \in Slaves : a[s] = mail[s]
      BY <1>0, <1>3, <1>7
    <3> HIDE DEF a
    <3> QED
      BY <1>0, <2>2, <3>1, <3>2, <3>3, <3>4
  <2> QED
    BY <1>10, <2>1, <2>2
<1>12. /\ UNCHANGED <<castSeq, chunk, given, current, used, elab, slave>>
  BY DEF MultiSent, mergervars
<1>13. Idle'
  BY <1>8, <1>11, <1>12 DEF Idle, Slaves, Master
<1>14. Fresh'
  <2>1. \A s \in Slaves : order' \in Early \ {"open"} => order \in Early \ {"open"}
    BY <1>1, <1>9 DEF Early, FollowingCast
  <2>2. ASSUME order' \in Early \ {"open"}, NEW s \in Slaves PROVE ~slave[s].ready
    BY <1>4, <2>1, <2>2 DEF Fresh
  <2>3. /\ chunk' = 0 /\ given' = 0 /\ current' = 0 /\ elab' = <<>>
        /\ \A s \in Slaves :
              /\ used'[s] = NoTask /\ ~slave'[s].first /\ slave'[s].loaded
              /\ order' \in Early \ {"open"} => ~slave'[s].ready
              /\ \A n \in 1 .. Len(slave'[s].files) : slave'[s].files[n] = <<>>
    BY <1>4, <1>12, <2>2 DEF Fresh
  <2>4. \A m \in ToSet(mail'[Merger]) : m.opt \in {"join_init", "add_remove"}
    BY <1>4, <1>11 DEF Fresh
  <2> QED
    BY <2>3, <2>4 DEF Fresh, Slaves, Merger, NoTask, Early
<1> QED
  BY <1>4, <1>12, <1>13, <1>14

\* The fields of a slave that has carried out a broadcast.
LEMMA CarriedFields ==
    ASSUME ClusterTypeOK, NEW s \in Slaves, NEW m, NEW rc
    PROVE  /\ Carried(s, m, rc).first = slave[s].first
           /\ Carried(s, m, rc).loaded = slave[s].loaded
           /\ Carried(s, m, rc).able = (slave[s].able /\ ~(m.opt = "init" /\ rc = 1))
           /\ m.opt = "open" => Carried(s, m, rc).files = Append(slave[s].files, <<>>)
           /\ m.opt # "open" => Carried(s, m, rc).files = slave[s].files
           /\ m.opt = "open" /\ rc = 0 => Carried(s, m, rc).ready = slave[s].able
           /\ m.opt = "close" => ~Carried(s, m, rc).ready
           /\ m.opt \notin {"open", "close"} \/ (m.opt = "open" /\ rc # 0)
                 => Carried(s, m, rc).ready = slave[s].ready
           /\ Carried(s, m, rc).ring = m.seq
<1>1. slave[s] \in SlaveState
  BY DEF ClusterTypeOK
<1> QED
  BY <1>1 DEF Carried, SlaveState

LEMMA FilesAppended ==
    ASSUME NEW f \in Seq(Seq(Int))
    PROVE  /\ Append(f, <<>>) \in Seq(Seq(Int)) /\ Len(Append(f, <<>>)) = Len(f) + 1
           /\ \A n \in 1 .. Len(f) : Append(f, <<>>)[n] = f[n]
           /\ Append(f, <<>>)[Len(f) + 1] = <<>>
           /\ \A n \in 1 .. Len(f) + 1 : n \in 1 .. Len(f) \/ n = Len(f) + 1
<1>1. <<>> \in Seq(Int) /\ Len(f) \in Nat
  BY EmptySeq
<1> QED
  BY <1>1, AppendProperties

LEMMA EarlySlave ==
    ASSUME ClusterTypeOK, Overtaking = FALSE, EarlyInv, order \in Early,
           NEW s \in Slaves, SlaveStep(s)
    PROVE  Round' /\ Fresh'
<1>0. Fresh /\ slave \in [Slaves -> SlaveState]
  BY DEF EarlyInv, ClusterTypeOK
<1>1. CASE Configure(s)
  <2>1. /\ UNCHANGED <<mastervars, mergervars>> /\ Cast(mail[s][1])
    BY <1>1, EarlyConfigure
  <2>2. PICK rc \in Int : slave' = [slave EXCEPT ![s] = Carried(s, mail[s][1], rc)]
    BY <1>1, EarlyConfigure
  <2>3. mail[s][1].opt = order
    BY <2>1 DEF Cast
  <2> DEFINE c == Carried(s, mail[s][1], rc)
  <2>4. /\ slave'[s] = c /\ \A u \in Slaves : u # s => slave'[u] = slave[u]
    BY <1>0, <2>2
  <2>5. /\ ~c.first /\ c.loaded
        /\ order \in Early \ {"open"} => ~c.ready
        /\ \A n \in 1 .. Len(c.files) : c.files[n] = <<>>
    <3>1. ~slave[s].first /\ slave[s].loaded /\ (order \in Early \ {"open"} => ~slave[s].ready)
          /\ \A n \in 1 .. Len(slave[s].files) : slave[s].files[n] = <<>>
      BY <1>0 DEF Fresh
    <3>2. c.first = slave[s].first /\ c.loaded = slave[s].loaded
      BY CarriedFields
    <3>3. order \in Early \ {"open"} => c.ready = slave[s].ready
      BY <2>3, CarriedFields DEF Early
    <3>4. \A n \in 1 .. Len(c.files) : c.files[n] = <<>>
      <4> DEFINE f == slave[s].files
      <4>1. f \in Seq(Seq(Int))
        BY SlaveTyped
      <4>2. c.files = f \/ c.files = Append(f, <<>>)
        BY CarriedFields
      <4>3. CASE c.files = f
        BY <3>1, <4>3
      <4>4. CASE c.files = Append(f, <<>>)
        <5> HIDE DEF c
        <5>1. \A n \in 1 .. Len(f) : f[n] = <<>>
          BY <3>1
        <5> HIDE DEF f
        <5> QED
          BY <4>1, <4>4, <5>1, FilesAppended
      <4> QED
        BY <4>2, <4>3, <4>4
    <3> HIDE DEF c
    <3> QED
      BY <3>1, <3>2, <3>3, <3>4
  <2> HIDE DEF c
  <2>6. \A u \in Slaves :
           /\ used'[u] = NoTask /\ ~slave'[u].first /\ slave'[u].loaded
           /\ order' \in Early \ {"open"} => ~slave'[u].ready
           /\ \A n \in 1 .. Len(slave'[u].files) : slave'[u].files[n] = <<>>
    BY <1>0, <2>1, <2>4, <2>5 DEF Fresh, mastervars
  <2>7. \A m \in ToSet(mail'[Merger]) : m.opt \in {"join_init", "add_remove"}
    <3>1. PICK b \in Boxes :
             /\ \A x \in ToSet(b[Merger]) : x \in ToSet(mail[Merger]) \/ x.opt = "add_remove"
             /\ s # 0 => mail' = b
             /\ s = 0 => \E x \in Message : mail' = Post(b, Following(s), x)
      BY <1>1, EarlyConfigure
    <3>2. mail'[Merger] = b[Merger]
      <4>1. Following(s) \in Tasks /\ Following(s) # Merger /\ Merger \in Tasks
        BY FollowingIn, TaskFacts
      <4>2. CASE s # 0
        BY <3>1, <4>2
      <4>3. CASE s = 0
        <5>1. PICK x \in Message : mail' = Post(b, Following(s), x)
          BY <3>1, <4>3
        <5>2. \A t \in Tasks : t # Following(s) => Post(b, Following(s), x)[t] = b[t]
          BY <4>1, Posted
        <5> QED
          BY <4>1, <5>1, <5>2
      <4> QED
        BY <4>2, <4>3
    <3> QED
      BY <1>0, <3>1, <3>2 DEF Fresh
  <2>8. Fresh'
    BY <1>0, <2>1, <2>6, <2>7 DEF Fresh, Slaves, Merger, NoTask, Early, mastervars, mergervars
  <2> QED
    BY <1>1, <2>8, RoundConfigure
<1>2. CASE PassToken(s)
  <2>1. /\ UNCHANGED <<mastervars, mergervars>>
        /\ slave' = [slave EXCEPT ![s].ring = -1]
    BY <1>2, PassTokenEffect
  <2>2. \A u \in Slaves :
           /\ slave'[u].first = slave[u].first /\ slave'[u].loaded = slave[u].loaded
           /\ slave'[u].ready = slave[u].ready /\ slave'[u].files = slave[u].files
    BY <1>0, <2>1 DEF SlaveState
  <2>3. \A m \in ToSet(mail'[Merger]) : m.opt \in {"join_init", "add_remove"}
    BY <1>0, <1>2, RoundPass DEF Fresh
  <2>4. \A u \in Slaves :
           /\ used'[u] = NoTask /\ ~slave'[u].first /\ slave'[u].loaded
           /\ order' \in Early \ {"open"} => ~slave'[u].ready
           /\ \A n \in 1 .. Len(slave'[u].files) : slave'[u].files[n] = <<>>
    BY <1>0, <2>1, <2>2 DEF Fresh, mastervars
  <2>5. Fresh'
    BY <1>0, <2>1, <2>3, <2>4 DEF Fresh, Slaves, Merger, NoTask, Early, mastervars, mergervars
  <2> QED
    BY <1>2, <2>5, RoundPass
<1> QED
  BY <1>1, <1>2, EarlySteps

LEMMA EarlyMerger ==
    ASSUME ClusterTypeOK, Overtaking = FALSE, EarlyInv, order \in Early, MergerStep
    PROVE  Round' /\ Fresh'
<1>0. mail \in Boxes /\ Fresh /\ Round
  BY DEF EarlyInv, ClusterTypeOK
<1>1. ~AddElab /\ ~Merge
  <2>1. ASSUME AddElab \/ Merge PROVE FALSE
    <3>1. mail[Merger][1].opt \in {"add_elab", "run"} /\ \E P : Takes(mail', Merger, 1, P)
      BY <1>0, <2>1, AddElabEffect, MergeEffect
    <3> QED
      BY <1>0, <3>1 DEF Takes, Fresh
  <2> QED
    BY <2>1
<1>2. /\ \E i \in DOMAIN mail[Merger] : mail' = Taken(Merger, i)
      /\ UNCHANGED <<mastervars, slave, elab>>
  BY <1>1 DEF MergerStep, NameDestination, AddRemove, mergervars
<1>3. /\ \A u \in Tasks : u # Merger => mail'[u] = mail[u]
      /\ ToSet(mail'[Merger]) \subseteq ToSet(mail[Merger])
  <2>1. PICK i \in DOMAIN mail[Merger] : mail' = Taken(Merger, i)
    BY <1>2
  <2>2. Takes(mail', Merger, i, {})
    BY <1>0, <2>1, TaskFacts, TakesOne
  <2>3. ToSet(mail'[Merger]) \subseteq ToSet(mail[Merger])
    BY <2>2, TaskFacts DEF Takes, Moved
  <2> QED
    BY <1>0, <2>1, <2>3, TaskFacts, TakenLength
<1>4. mail'[Master] = mail[Master] /\ \A s \in Slaves : mail'[s] = mail[s]
  BY <1>3, TaskFacts
<1>5. Fresh'
  BY <1>0, <1>2, <1>3 DEF Fresh, Slaves, Merger, NoTask, Early, mastervars
<1>6. Round'
  BY <1>0, <1>2, <1>4 DEF Round, TokenAt, Place, Gone, HasToken, Cast, Idle, Slaves, Master,
                          mastervars
<1> QED
  BY <1>5, <1>6

LEMMA EarlyStep ==
    ASSUME ClusterTypeOK, Overtaking = FALSE, EarlyInv, [ClusterNext]_clustervars
    PROVE  EarlyInv'
<1> SUFFICES ASSUME order' \in Early PROVE Round' /\ Fresh'
  BY DEF EarlyInv, Early
<1>1. CASE UNCHANGED clustervars
  <2>1. Round /\ Fresh
    BY <1>1 DEF EarlyInv, clustervars, mastervars
  <2>2. Round'
    BY <1>1, <2>1 DEF Round, TokenAt, Place, Gone, HasToken, Cast, Idle, Slaves, Master,
                      clustervars, mastervars
  <2>3. Fresh'
    BY <1>1, <2>1 DEF Fresh, Slaves, Merger, NoTask, Early, clustervars, mastervars, mergervars
  <2> QED
    BY <2>2, <2>3
<1>2. CASE MasterStep
  <2>1. ~HandOver /\ ~TakeUnused /\ ~TakeEnded /\ ~CloseCodec /\ ~MergerDone
    BY DEF HandOver, TakeUnused, TakeEnded, Restart, CloseCodec, MergerDone, Early
  <2>2. CASE MultiSend
    <3>1. order \in Early
      BY <2>2 DEF MultiSend
    <3> QED
      BY <2>2, <3>1, EarlyCast
  <2>3. CASE MultiSent
    <3>1. order \in Early
      BY <2>3 DEF MultiSent, FollowingCast, Casts, Early
    <3>2. ~awaiting'
      BY <2>3 DEF MultiSent, Early
    <3>3. Idle' /\ Fresh' /\ (castSeq >= -1)'
      BY <2>3, <3>1, RoundOver
    <3> QED
      BY <3>2, <3>3 DEF Round, Idle
  <2> QED
    BY <1>2, <2>1, <2>2, <2>3 DEF MasterStep
<1>3. CASE MergerStep
  <2>1. order \in Early
    BY <1>3 DEF MergerStep, NameDestination, AddElab, AddRemove, Merge, mastervars
  <2> QED
    BY <1>3, <2>1, EarlyMerger
<1>4. ASSUME NEW s \in Slaves, SlaveStep(s) PROVE Round' /\ Fresh'
  <2>1. order \in Early
    BY <1>4 DEF SlaveStep, Discard, Configure, PassToken, Encode, CloseChunk, OpenNext, mastervars
  <2> QED
    BY <1>4, <2>1, EarlySlave
<1> QED
  BY <1>1, <1>2, <1>3, <1>4 DEF ClusterNext

-----------------------------------------------------------------------------
(* From the first chunk to the end.                                         *)

Giving == {"encode", "first-free"}
Ending == {"close", "run", "stop"}
Late == Giving \cup Ending

InLine == \A t \in Tasks : Lined(mail[t])

\* The chunk a slave is encoding, or encoded last.
Job == [t \in Slaves |-> IF t = current THEN chunk ELSE used[t]]

Rising(q) == \A i, j \in 1 .. Len(q) : i < j => q[i] < q[j]

\* The slaves that will write no frame any more.
Calm == {u \in Slaves :
           /\ ~slave[u].ready
           /\ \/ ~slave[u].able
              \/ order \notin Giving /\ \A m \in ToSet(mail[u]) : m.tag # "WORK"}

\* A message a slave may have in its mail: m for one with job j, when the export
\* module does o and the slaves S are calm.  The token tells of the slaves it
\* has passed.
Expected(m, j, o, S) ==
    \/ /\ m.tag = "CONF" /\ m.from = Master
       /\ (m.opt = "close" /\ o \in Ending) \/ (m.opt = "stop" /\ o = "stop")
    \/ /\ m.tag = "WORK" /\ m.from = Master /\ m.opt \in {"encode", "restart1", "restart2"}
       /\ j # NoTask /\ (m.opt # "restart1" => m.seq = j)
    \/ m.tag = "RING" /\ m.opt = "" /\ m.from \in Slaves /\ 0 .. m.from \subseteq S

Mailed ==
    /\ \A t \in Slaves : \A m \in ToSet(mail[t]) : Expected(m, Job[t], order, Calm)
    /\ \A m \in ToSet(mail[Master]) : m.tag = "RING" => Slaves \subseteq Calm
    /\ \A m \in ToSet(mail[Merger]) : m.opt = "run" => order \in {"run", "stop"}

Rested ==
    /\ \A s \in Slaves : slave[s].ring # -1 => s \in Calm
    /\ order \in {"run", "stop"} => Slaves \subseteq Calm

Jobs ==
    /\ \A t \in Slaves : used[t] \in -1 .. chunk /\ (t # current => used[t] < chunk)
    /\ order = "first-free" => used[current] = chunk
    /\ \A t, u \in Slaves : t # u /\ Job[t] # NoTask => Job[t] # Job[u]

\* The list of the merger is sorted, and what is still to be put on it has
\* numbers of its own.
Sorted ==
    /\ \A i, j \in 1 .. Len(elab) : i < j => elab[i].seq < elab[j].seq
    /\ \A e \in ToSet(elab), m \in ToSet(mail[Merger]) :
          m.opt = "add_elab" => e.seq # m.seq

\* Chunk p[1] is file p[3] of slave p[2], which the merger knows or is being told.
Part(q, f) == <<q, f % NProc, f \div NProc + 1>>
Parts ==
    {Part(e.seq, e.file) : e \in ToSet(elab)} \cup
    {Part(m.seq, m.body) : m \in {m \in ToSet(mail[Merger]) : m.opt = "add_elab"}}

\* Frame c[3] of chunk c[2] is on its way to slave c[1].
Coming ==
    UNION {{<<t, m.seq, m.body>> : m \in {m \in ToSet(mail[t]) : m.opt = "encode"}} :
           t \in Slaves}

\* The slaves that are to open the file of their next chunk.
Reopening == {t \in Slaves : \E m \in ToSet(mail[t]) : m.opt = "restart2"}

Files == [s \in Slaves |-> slave[s].files]
Able == {s \in Slaves : slave[s].ready}
Begun == {s \in Slaves : slave[s].first}

LastFile(F, s) == F[s][Len(F[s])]
Content(F, p) == F[p[2]][p[3]]

\* Every file with a frame in it is announced, once, and the file a slave writes
\* as that of its job.
Filed(J, R, P, F, ch) ==
    /\ \A p \in P : /\ p[1] \in 0 .. ch /\ p[2] \in Slaves /\ p[3] \in 1 .. Len(F[p[2]])
                    /\ Content(F, p) # <<>>
    /\ \A s \in Slaves : \A n \in 1 .. Len(F[s]) : F[s][n] # <<>> =>
          \E p \in P : p[2] = s /\ p[3] = n
    /\ \A p \in P, t \in Slaves : p[1] = J[t] => t \notin R /\ p[2] = t /\ p[3] = Len(F[t])
    /\ \A p \in P : p[2] \notin R /\ p[3] = Len(F[p[2]]) => p[1] = J[p[2]]

\* A slave knows whether there is a frame in its file.
Marked(J, R, F, rdy, fst) ==
    /\ \A t \in rdy : Len(F[t]) > 0 /\ (t \in fst <=> LastFile(F, t) # <<>>)
    /\ \A t \in Slaves : (t \in R /\ t \in rdy) \/ J[t] = NoTask => t \notin fst

\* The frames, stored and to come, are in the order of the chunks.
Framed(P, C, F, ch, gv) ==
    /\ \A c \in C : c[2] \in 0 .. ch /\ c[3] \in 1 .. gv
    /\ \A p \in P : \A f \in ToSet(Content(F, p)) : f \in 1 .. gv
    /\ \A c, d \in C : c[2] < d[2] => c[3] < d[3]
    /\ \A p \in P, c \in C : \A f \in ToSet(Content(F, p)) :
          (p[1] <= c[2] => f < c[3]) /\ (c[2] < p[1] => c[3] < f)
    /\ \A p, r \in P : p[1] < r[1] =>
          \A f \in ToSet(Content(F, p)), g \in ToSet(Content(F, r)) : f < g
    /\ \A s \in Slaves : \A n \in 1 .. Len(F[s]) : Rising(F[s][n])

Kept ==
    /\ Filed(Job, Reopening, Parts, Files, chunk)
    /\ Marked(Job, Reopening, Files, Able, Begun)
    /\ Framed(Parts, Coming, Files, chunk, given)

-----------------------------------------------------------------------------
(* Frames and files.                                                        *)

LEMMA SetOf ==
    ASSUME NEW q \in Seq(Int), NEW x \in Int
    PROVE  /\ \A i \in 1 .. Len(q) : q[i] \in ToSet(q) /\ q[i] \in Int
           /\ \A f \in ToSet(q) : f \in Int /\ \E i \in 1 .. Len(q) : f = q[i]
           /\ \A f \in ToSet(Append(q, x)) : f \in ToSet(q) \/ f = x
           /\ \A f \in ToSet(q) : f \in ToSet(Append(q, x))
           /\ x \in ToSet(Append(q, x)) /\ Append(q, x) # <<>>
           /\ q = <<>> => ToSet(q) = {}
           /\ Rising(q) /\ (\A f \in ToSet(q) : f < x) => Rising(Append(q, x))
<1> DEFINE r == Append(q, x)
<1>1. /\ r \in Seq(Int) /\ Len(r) = Len(q) + 1 /\ \A k \in 1 .. Len(q) : r[k] = q[k]
      /\ r[Len(q) + 1] = x
  BY AppendProperties
<1>2. Len(q) \in Nat /\ DOMAIN q = 1 .. Len(q) /\ DOMAIN r = 1 .. Len(r)
  BY <1>1
<1>3. \A i \in 1 .. Len(q) : q[i] \in Int
  BY ElementOfSeq
<1> HIDE DEF r
<1>4. \A k \in 1 .. Len(r) : k \in 1 .. Len(q) \/ k = Len(q) + 1
  BY <1>1, <1>2
<1>5. Len(q) + 1 \in 1 .. Len(r) /\ \A k \in 1 .. Len(q) : k \in 1 .. Len(r)
  BY <1>1, <1>2
<1>6. /\ \A i \in 1 .. Len(q) : q[i] \in ToSet(q) /\ q[i] \in Int
      /\ \A f \in ToSet(q) : f \in Int /\ \E i \in 1 .. Len(q) : f = q[i]
  BY <1>2, <1>3 DEF ToSet
<1>7. /\ \A f \in ToSet(r) : f \in ToSet(q) \/ f = x
      /\ \A f \in ToSet(q) : f \in ToSet(r)
      /\ x \in ToSet(r)
  BY <1>1, <1>2, <1>4, <1>5 DEF ToSet
<1>8. r # <<>>
  BY <1>1, <1>2
<1>9. q = <<>> => ToSet(q) = {}
  BY DEF ToSet
<1>10. ASSUME Rising(q), \A f \in ToSet(q) : f < x PROVE Rising(r)
  <2> SUFFICES ASSUME NEW i \in 1 .. Len(r), NEW j \in 1 .. Len(r), i < j PROVE r[i] < r[j]
    BY DEF Rising
  <2>1. i \in 1 .. Len(q) /\ r[i] = q[i]
    BY <1>1, <1>2
  <2>2. CASE j = Len(q) + 1
    BY <1>1, <1>6, <1>10, <2>1, <2>2
  <2>3. CASE j \in 1 .. Len(q)
    BY <1>1, <1>10, <2>1, <2>3 DEF Rising
  <2> QED
    BY <1>4, <2>2, <2>3
<1> QED
  BY <1>6, <1>7, <1>8, <1>9, <1>10 DEF r

\* A frame more is on its way, in the chunk the export module is at.
LEMMA FrameGiven ==
    ASSUME NEW P, NEW C, NEW F, NEW ch \in Nat, NEW gv \in Nat, Framed(P, C, F, ch, gv),
           \A p \in P : p[1] \in 0 .. ch,
           NEW x, x[2] = ch, x[3] = gv + 1, NEW D, \A d \in D : d \in C \/ d = x
    PROVE  Framed(P, D, F, ch, gv + 1)
<1>1. \A d \in D : d[2] \in 0 .. ch /\ d[3] \in 1 .. gv + 1
  BY DEF Framed
<1>2. \A p \in P : \A f \in ToSet(Content(F, p)) : f \in 1 .. gv + 1 /\ f \in 1 .. gv
  BY DEF Framed
<1>3. ASSUME NEW c \in D, NEW d \in D, c[2] < d[2] PROVE c[3] < d[3]
  <2>1. CASE c \in C /\ d \in C
    BY <1>3, <2>1 DEF Framed
  <2>2. CASE c = x
    <3>1. ch < d[2]
      BY <1>3, <2>2
    <3> QED
      BY <1>1, <3>1
  <2>3. CASE c \in C /\ d = x
    <3>1. c[3] \in 1 .. gv
      BY <2>3 DEF Framed
    <3> QED
      BY <2>3, <3>1
  <2> QED
    BY <2>1, <2>2, <2>3
<1>4. ASSUME NEW p \in P, NEW c \in D, NEW f \in ToSet(Content(F, p))
      PROVE  (p[1] <= c[2] => f < c[3]) /\ (c[2] < p[1] => c[3] < f)
  <2>1. CASE c \in C
    BY <2>1 DEF Framed
  <2>2. CASE c = x
    <3>1. p[1] \in 0 .. ch /\ f \in 1 .. gv
      BY <1>2
    <3> QED
      BY <2>2, <3>1
  <2> QED
    BY <2>1, <2>2
<1>5. /\ \A p, r \in P : p[1] < r[1] =>
            \A f \in ToSet(Content(F, p)), g \in ToSet(Content(F, r)) : f < g
      /\ \A s \in Slaves : \A n \in 1 .. Len(F[s]) : Rising(F[s][n])
  BY DEF Framed
<1> QED
  BY <1>1, <1>2, <1>3, <1>4, <1>5 DEF Framed

\* Fewer frames are on their way.
LEMMA FramesLeft ==
    ASSUME NEW P, NEW C, NEW F, NEW ch, NEW gv, Framed(P, C, F, ch, gv),
           NEW D \in SUBSET C
    PROVE  Framed(P, D, F, ch, gv)
BY DEF Framed

\* Slave s has written the frame f into its last file.
Wrote(F, G, s, f) ==
    /\ Len(F[s]) \in 1 .. Len(F[s])
    /\ \A u \in Slaves : Len(G[u]) = Len(F[u])
    /\ \A u \in Slaves : u # s => G[u] = F[u]
    /\ \A u \in Slaves : \A k \in 1 .. Len(F[u]) : u # s \/ k # Len(F[s]) => G[u][k] = F[u][k]
    /\ G[s][Len(F[s])] = Append(F[s][Len(F[s])], f)
    /\ G[s][Len(F[s])] # <<>> /\ LastFile(G, s) # <<>>

\* The part p0 is known, and no other that was not.
Joined(P, Q, p0) ==
    /\ \A p \in Q : p \in P \/ p = p0
    /\ \A p \in P : p \in Q
    /\ \E p \in Q : p[2] = p0[2] /\ p[3] = p0[3]

\* The last file of slave s is part of chunk q and of no other.
Known(P, F, s, q) ==
    /\ \A p \in P : p[1] \in Int /\ p[2] \in Slaves /\ p[3] \in 1 .. Len(F[p[2]])
    /\ \A p \in P : p[2] = s /\ p[3] = Len(F[s]) => p[1] = q
    /\ F[s][Len(F[s])] # <<>> => \E p \in P : p[2] = s /\ p[3] = Len(F[s])

\* What is left of the frames on their way, of one chunk those behind x.
Left(C, D, x) == \A d \in D : d \in C /\ (d[2] = x[2] => x[3] < d[3])

\* Slave s writes the frame x, the first of those coming for the chunk, into its
\* last file, the part p0.
LEMMA FrameWritten ==
    ASSUME NEW P, NEW C, NEW F \in [Slaves -> Seq(Seq(Int))], NEW ch \in Nat, NEW gv \in Nat,
           Framed(P, C, F, ch, gv), NEW s \in Slaves, NEW n, n = Len(F[s]), NEW x \in C,
           NEW G, Wrote(F, G, s, x[3]), Known(P, F, s, x[2]),
           NEW Q, NEW p0, p0[1] = x[2], p0[2] = s, p0[3] = n, Joined(P, Q, p0),
           NEW D, Left(C, D, x)
    PROVE  Framed(Q, D, G, ch, gv)
<1> USE DEF Wrote, Joined, Known, Left
<1>1. x[2] \in 0 .. ch /\ x[3] \in 1 .. gv /\ x[2] \in Int /\ x[3] \in Int
  BY DEF Framed
<1>2. \A c \in C : c[2] \in 0 .. ch /\ c[3] \in 1 .. gv
  BY DEF Framed
<1>3. F[s][n] \in Seq(Int)
  BY ElementOfSeq
<1> DEFINE old == F[s][n]
           new == G[s][n]
<1>4. \A f \in ToSet(old) : \E r \in P : r[1] = x[2] /\ f \in ToSet(Content(F, r))
  <2> SUFFICES ASSUME NEW f \in ToSet(old)
               PROVE  \E r \in P : r[1] = x[2] /\ f \in ToSet(Content(F, r))
    OBVIOUS
  <2>1. old # <<>>
    BY <1>1, <1>3, SetOf
  <2>2. PICK p \in P : p[2] = s /\ p[3] = n
    BY <2>1
  <2>3. p[1] = x[2] /\ Content(F, p) = old
    BY <2>2 DEF Content
  <2> QED
    BY <2>3
<1>5. \A p \in Q : \A f \in ToSet(Content(G, p)) :
         \/ \E r \in P : r[1] = p[1] /\ f \in ToSet(Content(F, r))
         \/ p[1] = x[2] /\ f = x[3]
  <2> SUFFICES ASSUME NEW p \in Q, NEW f \in ToSet(Content(G, p))
               PROVE  \/ \E r \in P : r[1] = p[1] /\ f \in ToSet(Content(F, r))
                      \/ p[1] = x[2] /\ f = x[3]
    OBVIOUS
  <2>1. CASE p[2] = s /\ p[3] = n
    <3>1. p[1] = x[2] /\ Content(G, p) = Append(old, x[3])
      BY <2>1 DEF Content
    <3>2. f \in ToSet(old) \/ f = x[3]
      BY <1>1, <1>3, <3>1, SetOf
    <3> QED
      BY <1>4, <3>1, <3>2
  <2>2. CASE ~(p[2] = s /\ p[3] = n)
    <3>1. p \in P
      BY <2>2
    <3>2. p[2] \in Slaves /\ p[3] \in 1 .. Len(F[p[2]])
      BY <3>1
    <3>3. G[p[2]][p[3]] = F[p[2]][p[3]]
      BY <2>2, <3>2
    <3>4. Content(G, p) = Content(F, p)
      BY <3>3 DEF Content
    <3> QED
      BY <3>1, <3>4
  <2> QED
    BY <2>1, <2>2
<1>6. /\ \A c, d \in C : c[2] < d[2] => c[3] < d[3]
      /\ \A p \in P, c \in C : \A f \in ToSet(Content(F, p)) :
            (p[1] <= c[2] => f < c[3]) /\ (c[2] < p[1] => c[3] < f)
      /\ \A p, r \in P : p[1] < r[1] =>
            \A f \in ToSet(Content(F, p)), g \in ToSet(Content(F, r)) : f < g
      /\ \A p \in P : \A f \in ToSet(Content(F, p)) : f \in 1 .. gv
      /\ \A u \in Slaves : \A k \in 1 .. Len(F[u]) : Rising(F[u][k])
  BY DEF Framed
<1>7. \A p \in Q : \A f \in ToSet(Content(G, p)) : f \in 1 .. gv
  <2> SUFFICES ASSUME NEW p \in Q, NEW f \in ToSet(Content(G, p)) PROVE f \in 1 .. gv
    OBVIOUS
  <2>1. (\E r \in P : r[1] = p[1] /\ f \in ToSet(Content(F, r))) \/ f = x[3]
    BY <1>5
  <2> QED
    BY <1>1, <1>6, <2>1
<1>8. \A p \in Q : p[1] \in Int
  BY <1>1
<1>9. ASSUME NEW p \in Q, NEW c \in D, NEW f \in ToSet(Content(G, p))
      PROVE  (p[1] <= c[2] => f < c[3]) /\ (c[2] < p[1] => c[3] < f)
  <2>1. c \in C /\ (c[2] = x[2] => x[3] < c[3])
    OBVIOUS
  <2>2. ASSUME NEW r \in P, r[1] = p[1], f \in ToSet(Content(F, r))
        PROVE  (p[1] <= c[2] => f < c[3]) /\ (c[2] < p[1] => c[3] < f)
    BY <1>6, <2>1, <2>2
  <2>3. CASE p[1] = x[2] /\ f = x[3]
    <3>1. x[2] < c[2] => x[3] < c[3]
      BY <1>6, <2>1
    <3>2. c[2] < x[2] => c[3] < x[3]
      BY <1>6, <2>1
    <3>3. c[2] \in Int
      BY <1>2, <2>1
    <3> QED
      BY <1>1, <2>1, <2>3, <3>1, <3>2, <3>3
  <2> QED
    BY <1>5, <2>2, <2>3
<1>10. ASSUME NEW p \in Q, NEW r \in Q, p[1] < r[1],
              NEW f \in ToSet(Content(G, p)), NEW g \in ToSet(Content(G, r))
       PROVE  f < g
  <2>1. (\E p1 \in P : p1[1] = p[1] /\ f \in ToSet(Content(F, p1))) \/ (p[1] = x[2] /\ f = x[3])
    BY <1>5
  <2>2. (\E r1 \in P : r1[1] = r[1] /\ g \in ToSet(Content(F, r1))) \/ (r[1] = x[2] /\ g = x[3])
    BY <1>5
  <2>3. p[1] \in Int /\ r[1] \in Int
    BY <1>8
  <2>4. ASSUME NEW p1 \in P, p1[1] = p[1], f \in ToSet(Content(F, p1)) PROVE f < g
    <3>1. ASSUME NEW r1 \in P, r1[1] = r[1], g \in ToSet(Content(F, r1)) PROVE f < g
      BY <1>6, <1>10, <2>4, <3>1
    <3>2. CASE r[1] = x[2] /\ g = x[3]
      <4>1. p1[1] <= x[2]
        BY <1>10, <2>3, <2>4, <3>2
      <4> QED
        BY <1>6, <2>4, <3>2, <4>1
    <3> QED
      BY <2>2, <3>1, <3>2
  <2>5. CASE p[1] = x[2] /\ f = x[3]
    <3>1. ASSUME NEW r1 \in P, r1[1] = r[1], g \in ToSet(Content(F, r1)) PROVE f < g
      <4>1. x[2] < r1[1]
        BY <1>10, <2>5, <3>1
      <4> QED
        BY <1>6, <2>5, <3>1, <4>1
    <3>2. ~(r[1] = x[2])
      BY <1>1, <1>10, <2>5
    <3> QED
      BY <2>2, <3>1, <3>2
  <2> QED
    BY <2>1, <2>4, <2>5
<1>11. ASSUME NEW u \in Slaves, NEW k \in 1 .. Len(G[u]) PROVE Rising(G[u][k])
  <2>1. k \in 1 .. Len(F[u])
    OBVIOUS
  <2>2. CASE u # s \/ k # n
    BY <1>6, <2>1, <2>2
  <2>3. CASE u = s /\ k = n
    <3>1. \A f \in ToSet(old) : f < x[3]
      <4> SUFFICES ASSUME NEW f \in ToSet(old) PROVE f < x[3]
        OBVIOUS
      <4>1. PICK r \in P : r[1] = x[2] /\ f \in ToSet(Content(F, r))
        BY <1>4
      <4>2. r[1] <= x[2]
        BY <1>1, <4>1
      <4> QED
        BY <1>6, <4>1, <4>2
    <3>2. Rising(old)
      BY <1>6
    <3> HIDE DEF old
    <3>3. Rising(Append(old, x[3]))
      BY <1>1, <1>3, <3>1, <3>2, SetOf DEF old
    <3> QED
      BY <2>3, <3>3 DEF old
  <2> QED
    BY <2>2, <2>3
<1>12. \A c \in D : c \in C
  OBVIOUS
<1> QED
  BY <1>2, <1>6, <1>7, <1>9, <1>10, <1>11, <1>12 DEF Framed

\* Slave t is given the next chunk.
LEMMA FiledTake ==
    ASSUME NEW P, NEW J, NEW R, NEW F, NEW ch \in Nat, Filed(J, R, P, F, ch),
           NEW t \in Slaves, NEW K, K[t] = ch + 1, \A u \in Slaves : u # t => K[u] = J[u],
           NEW S, \A u \in Slaves : u \in S <=> (u \in R \/ u = t)
    PROVE  Filed(K, S, P, F, ch + 1)
<1>1. \A p \in P : /\ p[1] \in 0 .. ch /\ p[2] \in Slaves /\ p[3] \in 1 .. Len(F[p[2]])
                   /\ Content(F, p) # <<>>
  BY DEF Filed
<1>2. \A p \in P : p[1] \in 0 .. ch + 1 /\ p[1] # ch + 1
  BY <1>1
<1>3. \A s \in Slaves : \A n \in 1 .. Len(F[s]) : F[s][n] # <<>> =>
          \E p \in P : p[2] = s /\ p[3] = n
  BY DEF Filed
<1>4. ASSUME NEW p \in P, NEW u \in Slaves, p[1] = K[u]
      PROVE  u \notin S /\ p[2] = u /\ p[3] = Len(F[u])
  <2>1. u # t
    BY <1>2, <1>4
  <2> QED
    BY <1>4, <2>1 DEF Filed
<1>5. ASSUME NEW p \in P, p[2] \notin S, p[3] = Len(F[p[2]]) PROVE p[1] = K[p[2]]
  <2>1. p[2] # t /\ p[2] \notin R /\ p[2] \in Slaves
    BY <1>1, <1>5
  <2> QED
    BY <1>5, <2>1 DEF Filed
<1> QED
  BY <1>1, <1>2, <1>3, <1>4, <1>5 DEF Filed

LEMMA MarkedTake ==
    ASSUME NEW J, NEW R, NEW F, NEW rdy \in SUBSET Slaves, NEW fst, NEW ch \in Nat,
           Marked(J, R, F, rdy, fst),
           NEW t \in Slaves, NEW K, K[t] = ch + 1, \A u \in Slaves : u # t => K[u] = J[u],
           NEW S, \A u \in Slaves : u \in S <=> (u \in R \/ u = t),
           t \in fst => t \notin rdy
    PROVE  Marked(K, S, F, rdy, fst)
<1>1. \A u \in rdy : Len(F[u]) > 0 /\ (u \in fst <=> LastFile(F, u) # <<>>)
  BY DEF Marked
<1>2. ASSUME NEW u \in Slaves, (u \in S /\ u \in rdy) \/ K[u] = NoTask PROVE u \notin fst
  <2>1. CASE u = t
    BY <1>2, <2>1, TaskFacts
  <2>2. CASE u # t
    BY <1>2, <2>2 DEF Marked
  <2> QED
    BY <2>1, <2>2
<1> QED
  BY <1>1, <1>2 DEF Marked

\* Slave s writes a frame into its last file, which is p0.
LEMMA FiledWritten ==
    ASSUME NEW P, NEW J, NEW R, NEW F, NEW ch, Filed(J, R, P, F, ch),
           NEW s \in Slaves, s \notin R, J[s] \in 0 .. ch,
           \A t \in Slaves : t # s => J[t] # J[s],
           NEW G, NEW f, Wrote(F, G, s, f),
           NEW Q, NEW p0, p0[1] = J[s], p0[2] = s, p0[3] = Len(F[s]), Joined(P, Q, p0)
    PROVE  Filed(J, R, Q, G, ch)
<1> USE DEF Wrote, Joined
<1>1. \A p \in P : /\ p[1] \in 0 .. ch /\ p[2] \in Slaves /\ p[3] \in 1 .. Len(F[p[2]])
                   /\ Content(F, p) # <<>>
  BY DEF Filed
<1>2. G[s][Len(F[s])] # <<>>
  BY DEF LastFile
<1>3. ASSUME NEW p \in Q
      PROVE  /\ p[1] \in 0 .. ch /\ p[2] \in Slaves /\ p[3] \in 1 .. Len(G[p[2]])
             /\ Content(G, p) # <<>>
  <2>1. p[1] \in 0 .. ch /\ p[2] \in Slaves /\ p[3] \in 1 .. Len(F[p[2]])
    BY <1>1
  <2>2. CASE p[2] = s /\ p[3] = Len(F[s])
    BY <1>2, <2>1, <2>2 DEF Content
  <2>3. CASE ~(p[2] = s /\ p[3] = Len(F[s]))
    <3>1. p \in P
      BY <2>3
    <3>2. G[p[2]][p[3]] = F[p[2]][p[3]]
      BY <2>1, <2>3
    <3> QED
      BY <1>1, <2>1, <3>1, <3>2 DEF Content
  <2> QED
    BY <2>2, <2>3
<1>4. ASSUME NEW u \in Slaves, NEW n \in 1 .. Len(G[u]), G[u][n] # <<>>
      PROVE  \E p \in Q : p[2] = u /\ p[3] = n
  <2>1. CASE u = s /\ n = Len(F[s])
    BY <2>1
  <2>2. CASE ~(u = s /\ n = Len(F[s]))
    <3>1. F[u][n] # <<>> /\ n \in 1 .. Len(F[u])
      BY <1>4, <2>2
    <3> QED
      BY <3>1 DEF Filed
  <2> QED
    BY <2>1, <2>2
<1>5. ASSUME NEW p \in Q, NEW t \in Slaves, p[1] = J[t]
      PROVE  t \notin R /\ p[2] = t /\ p[3] = Len(G[t])
  <2>1. CASE p \in P
    BY <1>5, <2>1 DEF Filed
  <2>2. CASE p = p0
    BY <1>5, <2>2
  <2> QED
    BY <2>1, <2>2
<1>6. ASSUME NEW p \in Q, p[2] \notin R, p[3] = Len(G[p[2]]) PROVE p[1] = J[p[2]]
  <2>1. CASE p \in P
    <3>1. p[3] = Len(F[p[2]])
      BY <1>1, <1>6, <2>1
    <3> QED
      BY <1>6, <2>1, <3>1 DEF Filed
  <2>2. CASE p = p0
    BY <2>2
  <2> QED
    BY <2>1, <2>2
<1> QED
  BY <1>3, <1>4, <1>5, <1>6 DEF Filed

LEMMA MarkedWritten ==
    ASSUME NEW J, NEW R, NEW F, NEW rdy \in SUBSET Slaves, NEW fst, Marked(J, R, F, rdy, fst),
           NEW s \in Slaves, s \notin R, J[s] # NoTask,
           NEW G, NEW f, Wrote(F, G, s, f),
           NEW beg, \A u \in Slaves : u \in beg <=> (u \in fst \/ u = s)
    PROVE  Marked(J, R, G, rdy, beg)
<1> USE DEF Wrote
<1>1. ASSUME NEW u \in rdy PROVE Len(G[u]) > 0 /\ (u \in beg <=> LastFile(G, u) # <<>>)
  <2>1. u \in Slaves /\ Len(F[u]) > 0 /\ (u \in fst <=> LastFile(F, u) # <<>>)
    BY DEF Marked
  <2>2. u # s => LastFile(G, u) = LastFile(F, u)
    BY <2>1 DEF LastFile
  <2> QED
    BY <2>1, <2>2
<1>2. \A u \in Slaves : (u \in R /\ u \in rdy) \/ J[u] = NoTask => u \notin beg
  BY DEF Marked
<1> QED
  BY <1>1, <1>2 DEF Marked

\* Slave s opens its next file.
Opened(F, G, s) ==
    /\ \A u \in Slaves : u # s => G[u] = F[u]
    /\ Len(G[s]) = Len(F[s]) + 1 /\ \A k \in 1 .. Len(F[s]) : G[s][k] = F[s][k]
    /\ G[s][Len(F[s]) + 1] = <<>>

Longer(F, G, s) ==
    /\ \A u \in Slaves : \A n \in 1 .. Len(F[u]) : n \in 1 .. Len(G[u]) /\ G[u][n] = F[u][n]
    /\ \A u \in Slaves : \A n \in 1 .. Len(G[u]) :
          n \in 1 .. Len(F[u]) \/ (u = s /\ n = Len(G[s]) /\ G[u][n] = <<>>)

LEMMA OpenedFacts ==
    ASSUME NEW F \in [Slaves -> Seq(Seq(Int))], NEW G, NEW s \in Slaves, Opened(F, G, s)
    PROVE  /\ LastFile(G, s) = <<>> /\ Len(G[s]) > 0 /\ Len(F[s]) \in Nat
           /\ Longer(F, G, s)
<1>1. Len(F[s]) \in Nat
  OBVIOUS
<1>2. LastFile(G, s) = <<>> /\ Len(G[s]) > 0
  BY <1>1 DEF Opened, LastFile
<1>3. ASSUME NEW u \in Slaves, NEW n \in 1 .. Len(F[u])
      PROVE  n \in 1 .. Len(G[u]) /\ G[u][n] = F[u][n]
  <2>1. CASE u # s
    BY <2>1 DEF Opened
  <2>2. CASE u = s
    BY <1>1, <2>2 DEF Opened
  <2> QED
    BY <2>1, <2>2
<1>4. ASSUME NEW u \in Slaves, NEW n \in 1 .. Len(G[u])
      PROVE  n \in 1 .. Len(F[u]) \/ (u = s /\ n = Len(G[s]) /\ G[u][n] = <<>>)
  <2>1. CASE u # s
    BY <2>1 DEF Opened
  <2>2. CASE u = s
    BY <1>1, <2>2 DEF Opened
  <2> QED
    BY <2>1, <2>2
<1> QED
  BY <1>1, <1>2, <1>3, <1>4 DEF Longer

LEMMA FiledOpened ==
    ASSUME NEW P, NEW J, NEW R, NEW F \in [Slaves -> Seq(Seq(Int))], NEW ch,
           Filed(J, R, P, F, ch), NEW s \in R, s \in Slaves, NEW G, Opened(F, G, s),
           NEW S, \A u \in Slaves : u \in S <=> (u \in R /\ u # s)
    PROVE  Filed(J, S, P, G, ch)
<1>0. /\ \A u \in Slaves : \A n \in 1 .. Len(F[u]) : n \in 1 .. Len(G[u]) /\ G[u][n] = F[u][n]
      /\ \A u \in Slaves : \A n \in 1 .. Len(G[u]) :
            n \in 1 .. Len(F[u]) \/ (u = s /\ n = Len(G[s]) /\ G[u][n] = <<>>)
      /\ Len(F[s]) \in Nat
  <2>1. Longer(F, G, s) /\ Len(F[s]) \in Nat
    BY OpenedFacts
  <2> QED
    BY <2>1 DEF Longer
<1>1. \A p \in P : /\ p[1] \in 0 .. ch /\ p[2] \in Slaves /\ p[3] \in 1 .. Len(F[p[2]])
                   /\ Content(F, p) # <<>>
  BY DEF Filed
<1>2. ASSUME NEW p \in P
      PROVE  p[3] \in 1 .. Len(G[p[2]]) /\ Content(G, p) # <<>>
  BY <1>0, <1>1 DEF Content
<1>3. ASSUME NEW u \in Slaves, NEW n \in 1 .. Len(G[u]), G[u][n] # <<>>
      PROVE  \E p \in P : p[2] = u /\ p[3] = n
  <2>1. n \in 1 .. Len(F[u]) /\ F[u][n] # <<>>
    BY <1>0, <1>3
  <2> QED
    BY <2>1 DEF Filed
<1>4. ASSUME NEW p \in P, NEW t \in Slaves, p[1] = J[t]
      PROVE  t \notin S /\ p[2] = t /\ p[3] = Len(G[t])
  <2>1. t \notin R /\ p[2] = t /\ p[3] = Len(F[t])
    BY <1>4 DEF Filed
  <2>2. G[t] = F[t]
    BY <2>1 DEF Opened
  <2> QED
    BY <2>1, <2>2
<1>5. ASSUME NEW p \in P, p[2] \notin S, p[3] = Len(G[p[2]]) PROVE p[1] = J[p[2]]
  <2>1. p[2] \in Slaves /\ p[3] \in 1 .. Len(F[p[2]])
    BY <1>1
  <2>2. p[2] # s
    <3> SUFFICES ASSUME p[2] = s PROVE FALSE
      OBVIOUS
    <3>1. p[3] = Len(F[s]) + 1 /\ p[3] \in 1 .. Len(F[s])
      BY <1>5, <2>1 DEF Opened
    <3> QED
      BY <1>0, <3>1
  <2>3. G[p[2]] = F[p[2]] /\ p[2] \notin R
    BY <1>5, <2>1, <2>2 DEF Opened
  <2> QED
    BY <1>5, <2>3 DEF Filed
<1> QED
  BY <1>1, <1>2, <1>3, <1>4, <1>5 DEF Filed

LEMMA MarkedOpened ==
    ASSUME NEW J, NEW R, NEW F \in [Slaves -> Seq(Seq(Int))], NEW rdy \in SUBSET Slaves,
           NEW fst, Marked(J, R, F, rdy, fst), NEW s \in Slaves, J[s] # NoTask,
           NEW G, Opened(F, G, s), NEW S, \A u \in Slaves : u \in S <=> (u \in R /\ u # s),
           NEW can \in SUBSET Slaves, NEW beg,
           \A u \in Slaves : u # s => (u \in can <=> u \in rdy) /\ (u \in beg <=> u \in fst),
           s \in can => s \notin beg
    PROVE  Marked(J, S, G, can, beg)
<1>0. LastFile(G, s) = <<>> /\ Len(G[s]) > 0
  BY OpenedFacts
<1>1. ASSUME NEW u \in can PROVE Len(G[u]) > 0 /\ (u \in beg <=> LastFile(G, u) # <<>>)
  <2>1. CASE u = s
    BY <1>0, <2>1
  <2>2. CASE u # s
    <3>1. u \in Slaves /\ u \in rdy /\ G[u] = F[u] /\ (u \in beg <=> u \in fst)
      BY <2>2 DEF Opened
    <3>2. Len(F[u]) > 0 /\ (u \in fst <=> LastFile(F, u) # <<>>)
      BY <3>1 DEF Marked
    <3> QED
      BY <3>1, <3>2 DEF LastFile
  <2> QED
    BY <2>1, <2>2
<1>2. ASSUME NEW u \in Slaves, (u \in S /\ u \in can) \/ J[u] = NoTask PROVE u \notin beg
  <2>1. u # s
    BY <1>2
  <2> QED
    BY <1>2, <2>1 DEF Marked
<1> QED
  BY <1>1, <1>2 DEF Marked

LEMMA FramedOpened ==
    ASSUME NEW P, NEW C, NEW F \in [Slaves -> Seq(Seq(Int))], NEW ch, NEW gv,
           Framed(P, C, F, ch, gv),
           \A p \in P : p[2] \in Slaves /\ p[3] \in 1 .. Len(F[p[2]]),
           NEW s \in Slaves, NEW G, Opened(F, G, s)
    PROVE  Framed(P, C, G, ch, gv)
<1>0. /\ \A u \in Slaves : \A n \in 1 .. Len(F[u]) : n \in 1 .. Len(G[u]) /\ G[u][n] = F[u][n]
      /\ \A u \in Slaves : \A n \in 1 .. Len(G[u]) :
            n \in 1 .. Len(F[u]) \/ (u = s /\ n = Len(G[s]) /\ G[u][n] = <<>>)
  <2>1. Longer(F, G, s)
    BY OpenedFacts
  <2> QED
    BY <2>1 DEF Longer
<1>1. \A p \in P : Content(G, p) = Content(F, p)
  BY <1>0 DEF Content
<1>2. \A u \in Slaves : \A n \in 1 .. Len(G[u]) : Rising(G[u][n])
  <2>1. Rising(<<>>)
    BY DEF Rising
  <2>2. \A u \in Slaves : \A n \in 1 .. Len(F[u]) : Rising(F[u][n])
    BY DEF Framed
  <2> QED
    BY <1>0, <2>1, <2>2
<1>3. /\ \A c \in C : c[2] \in 0 .. ch /\ c[3] \in 1 .. gv
      /\ \A c, d \in C : c[2] < d[2] => c[3] < d[3]
  BY DEF Framed
<1>4. \A p \in P : \A f \in ToSet(Content(G, p)) : f \in 1 .. gv
  BY <1>1 DEF Framed
<1>5. \A p \in P, c \in C : \A f \in ToSet(Content(G, p)) :
          (p[1] <= c[2] => f < c[3]) /\ (c[2] < p[1] => c[3] < f)
  BY <1>1 DEF Framed
<1>6. ASSUME NEW p \in P, NEW r \in P, p[1] < r[1]
      PROVE  \A f \in ToSet(Content(G, p)), g \in ToSet(Content(G, r)) : f < g
  BY <1>1, <1>6 DEF Framed
<1> QED
  BY <1>2, <1>3, <1>4, <1>5, <1>6 DEF Framed

-----------------------------------------------------------------------------
(* The parts of the invariant in the next state.                            *)

\* What these sets have in them, in a state and in the next.
LEMMA PartsAre ==
    /\ \A p : p \in Parts <=>
          \/ \E e \in ToSet(elab) : p = Part(e.seq, e.file)
          \/ \E m \in ToSet(mail[Merger]) : m.opt = "add_elab" /\ p = Part(m.seq, m.body)
    /\ \A p : p \in Parts' <=>
          \/ \E e \in ToSet(elab') : p = Part(e.seq, e.file)
          \/ \E m \in ToSet(mail'[Merger]) : m.opt = "add_elab" /\ p = Part(m.seq, m.body)
BY DEF Parts, Part, Merger

LEMMA ComingAre ==
    /\ \A c : c \in Coming <=> \E t \in Slaves : \E m \in ToSet(mail[t]) :
                                  m.opt = "encode" /\ c = <<t, m.seq, m.body>>
    /\ \A c : c \in Coming' <=> \E t \in Slaves : \E m \in ToSet(mail'[t]) :
                                   m.opt = "encode" /\ c = <<t, m.seq, m.body>>
BY DEF Coming, Slaves

LEMMA ReopeningAre ==
    /\ \A t \in Slaves : t \in Reopening <=> \E m \in ToSet(mail[t]) : m.opt = "restart2"
    /\ \A t \in Slaves : t \in Reopening' <=> \E m \in ToSet(mail'[t]) : m.opt = "restart2"
    /\ Reopening \subseteq Slaves /\ Reopening' \subseteq Slaves
BY DEF Reopening, Slaves

LEMMA SlaveSets ==
    /\ \A s \in Slaves : (s \in Able <=> slave[s].ready) /\ (s \in Able' <=> slave'[s].ready)
    /\ \A s \in Slaves : (s \in Begun <=> slave[s].first) /\ (s \in Begun' <=> slave'[s].first)
    /\ \A s \in Slaves : Files[s] = slave[s].files /\ Files'[s] = slave'[s].files
    /\ Able \subseteq Slaves /\ Able' \subseteq Slaves
BY DEF Able, Begun, Files, Slaves

LEMMA FilesTyped ==
    ASSUME ClusterTypeOK
    PROVE  Files \in [Slaves -> Seq(Seq(Int))]
<1>1. \A s \in Slaves : slave[s].files \in Seq(Seq(Int))
  BY SlaveTyped
<1> QED
  BY <1>1 DEF Files

LEMMA JobIs ==
    /\ \A t \in Slaves : Job[t] = IF t = current THEN chunk ELSE used[t]
    /\ \A t \in Slaves : Job'[t] = IF t = current' THEN chunk' ELSE used'[t]
BY DEF Job, Slaves

LEMMA KeptNext ==
    ASSUME Filed(Job', Reopening', Parts', Files', chunk'),
           Marked(Job', Reopening', Files', Able', Begun'),
           Framed(Parts', Coming', Files', chunk', given')
    PROVE  Kept'
BY DEF Kept, Filed, Marked, Framed, Slaves, Content, LastFile, NoTask, Rising

LEMMA MarkedLess ==
    ASSUME NEW J, NEW R, NEW F, NEW rdy, NEW fst, Marked(J, R, F, rdy, fst),
           NEW can \in SUBSET rdy
    PROVE  Marked(J, R, F, can, fst)
BY DEF Marked

\* A message that says nothing of frames or files.
Dull(x) == x.opt \notin {"encode", "restart2", "add_elab"}

LEMMA DullMail ==
    ASSUME mail \in Boxes, mail' \in Boxes, NEW t, NEW m, NEW P, Moved(mail, mail', t, m, P),
           \A u \in Tasks : \A x \in Message : <<u, x>> \in P => Dull(x),
           t \in Tasks \ {Master} => m.opt \notin {"restart2", "add_elab"}
    PROVE  /\ Reopening' = Reopening /\ Coming' \subseteq Coming
           /\ \A x \in Message : x.opt = "add_elab" =>
                 (x \in ToSet(mail'[Merger]) <=> x \in ToSet(mail[Merger]))
<1>1. \A u \in Tasks : ToSet(mail[u]) \subseteq Message /\ ToSet(mail'[u]) \subseteq Message
  BY MailSet DEF Boxes
<1>2. ASSUME NEW u \in Tasks, NEW x \in ToSet(mail'[u]), ~Dull(x) PROVE x \in ToSet(mail[u])
  BY <1>1, <1>2 DEF Moved
<1>3. ASSUME NEW u \in Tasks \ {Master}, NEW x \in ToSet(mail[u]),
             x.opt \in {"restart2", "add_elab"}
      PROVE  x \in ToSet(mail'[u])
  BY <1>3 DEF Moved
<1>4. \A u \in Slaves : u \in Reopening' <=> u \in Reopening
  <2> SUFFICES ASSUME NEW u \in Slaves PROVE u \in Reopening' <=> u \in Reopening
    OBVIOUS
  <2>1. u \in Tasks /\ u # Master
    BY TaskFacts
  <2>2. u \in Reopening' => u \in Reopening
    BY <1>2, <2>1, ReopeningAre DEF Dull
  <2>3. u \in Reopening => u \in Reopening'
    BY <1>3, <2>1, ReopeningAre
  <2> QED
    BY <2>2, <2>3
<1>5. ASSUME NEW c \in Coming' PROVE c \in Coming
  <2>1. PICK u \in Slaves :
           \E x \in ToSet(mail'[u]) : x.opt = "encode" /\ c = <<u, x.seq, x.body>>
    BY ComingAre
  <2>2. PICK x \in ToSet(mail'[u]) : x.opt = "encode" /\ c = <<u, x.seq, x.body>>
    BY <2>1
  <2>3. x \in ToSet(mail[u])
    BY <1>2, <2>2, TaskFacts DEF Dull
  <2> QED
    BY <2>2, <2>3, ComingAre
<1>6. Reopening' = Reopening
  BY <1>4, ReopeningAre
<1> QED
  BY <1>2, <1>3, <1>5, <1>6, TaskFacts DEF Dull

\* What the merger knows or is being told does not change.
LEMMA SameParts ==
    ASSUME mail \in Boxes, mail' \in Boxes, elab' = elab,
           \A x \in Message : x.opt = "add_elab" =>
              (x \in ToSet(mail'[Merger]) <=> x \in ToSet(mail[Merger]))
    PROVE  Parts' = Parts /\ (Sorted => Sorted')
<1>1. \A u \in Tasks : ToSet(mail[u]) \subseteq Message /\ ToSet(mail'[u]) \subseteq Message
  BY MailSet DEF Boxes
<1>2. Merger \in Tasks
  BY TaskFacts
<1>3. ASSUME NEW p PROVE p \in Parts' <=> p \in Parts
  BY <1>1, <1>2, PartsAre
<1>4. Sorted => Sorted'
  <2>1. Sorted <=> /\ \A i, j \in 1 .. Len(elab) : i < j => elab[i].seq < elab[j].seq
                   /\ \A e \in ToSet(elab), m \in ToSet(mail[Merger]) :
                         m.opt = "add_elab" => e.seq # m.seq
    BY DEF Sorted
  <2>2. Sorted' <=> /\ \A i, j \in 1 .. Len(elab') : i < j => elab'[i].seq < elab'[j].seq
                    /\ \A e \in ToSet(elab'), m \in ToSet(mail'[Merger]) :
                          m.opt = "add_elab" => e.seq # m.seq
    BY DEF Sorted, Merger
  <2> QED
    BY <1>1, <1>2, <2>1, <2>2
<1> QED
  BY <1>3, <1>4

\* The number of a chunk no slave has is no job.
LEMMA JobsStay ==
    ASSUME Jobs, UNCHANGED <<chunk, current, used>>, order' = "first-free" => order = "first-free"
    PROVE  Jobs' /\ Job' = Job
<1>1. Job' = Job
  BY DEF Job, Slaves
<1>2. \A t \in Slaves : used'[t] \in -1 .. chunk' /\ (t # current' => used'[t] < chunk')
  BY DEF Jobs
<1>3. order' = "first-free" => used'[current'] = chunk'
  BY DEF Jobs
<1>4. \A t, u \in Slaves : t # u /\ Job'[t] # NoTask => Job'[t] # Job'[u]
  BY <1>1 DEF Jobs
<1> QED
  BY <1>1, <1>2, <1>3, <1>4 DEF Jobs, Slaves, NoTask

\* The slaves keep their files, and those that can take frames are no others.
Steady ==
    \A s \in Slaves : /\ slave'[s].files = slave[s].files /\ slave'[s].first = slave[s].first
                      /\ slave'[s].ready => slave[s].ready

LEMMA KeptStill ==
    ASSUME mail \in Boxes, mail' \in Boxes, Kept, Jobs, Sorted, Steady,
           UNCHANGED <<chunk, given, current, used, elab>>,
           order' = "first-free" => order = "first-free",
           NEW t, NEW m, NEW P, Moved(mail, mail', t, m, P),
           \A u \in Tasks : \A x \in Message : <<u, x>> \in P => Dull(x),
           t \in Tasks \ {Master} => m.opt \notin {"restart2", "add_elab"}
    PROVE  Kept' /\ Jobs' /\ Sorted' /\ Job' = Job
<1>1. /\ Reopening' = Reopening /\ Coming' \subseteq Coming
      /\ \A x \in Message : x.opt = "add_elab" =>
            (x \in ToSet(mail'[Merger]) <=> x \in ToSet(mail[Merger]))
  BY DullMail
<1>2. Parts' = Parts /\ Sorted'
  BY <1>1, SameParts
<1>3. Jobs' /\ Job' = Job
  BY JobsStay
<1>4. Files' = Files /\ Begun' = Begun /\ Able' \subseteq Able
  BY DEF Steady, Files, Begun, Able, Slaves
<1>5. /\ Filed(Job, Reopening, Parts, Files, chunk)
      /\ Marked(Job, Reopening, Files, Able, Begun)
      /\ Framed(Parts, Coming, Files, chunk, given)
  BY DEF Kept
<1>6. Marked(Job, Reopening, Files, Able', Begun)
  BY <1>4, <1>5, MarkedLess
<1>7. Framed(Parts, Coming', Files, chunk, given)
  BY <1>1, <1>5, FramesLeft
<1> QED
  BY <1>1, <1>2, <1>3, <1>4, <1>5, <1>6, <1>7, KeptNext

\* Calm slaves stay calm.
LEMMA CalmKept ==
    ASSUME order \in Late, order' \in Late, order' \in Giving => order \in Giving,
           \A s \in Slaves : slave'[s].able => slave[s].able,
           \A s \in Slaves : slave'[s].ready => slave[s].ready \/ s \notin Calm,
           \A s \in Slaves : \A x \in ToSet(mail'[s]) :
              order \notin Giving /\ x.tag = "WORK" => x \in ToSet(mail[s])
    PROVE  Calm \subseteq Calm'
<1> SUFFICES ASSUME NEW u \in Slaves, u \in Calm PROVE u \in Calm'
  BY DEF Calm
<1>1. ~slave'[u].ready
  BY DEF Calm
<1>2. ~slave'[u].able \/ (order' \notin Giving /\ \A x \in ToSet(mail'[u]) : x.tag # "WORK")
  <2>1. CASE ~slave[u].able
    BY <2>1
  <2>2. CASE order \notin Giving /\ \A x \in ToSet(mail[u]) : x.tag # "WORK"
    BY <2>2
  <2> QED
    BY <2>1, <2>2 DEF Calm
<1> QED
  BY <1>1, <1>2 DEF Calm, Slaves, Giving

LEMMA CalmIs ==
    /\ \A u \in Slaves : u \in Calm' <=>
          /\ ~slave'[u].ready
          /\ \/ ~slave'[u].able
             \/ order' \notin Giving /\ \A m \in ToSet(mail'[u]) : m.tag # "WORK"
    /\ \A u \in Calm : u \in Slaves /\ ~slave[u].ready
BY DEF Calm, Slaves, Giving

LEMMA MailedNext ==
    ASSUME \A t \in Slaves : \A m \in ToSet(mail'[t]) : Expected(m, Job'[t], order', Calm'),
           \A m \in ToSet(mail'[Master]) : m.tag = "RING" => Slaves \subseteq Calm',
           \A m \in ToSet(mail'[Merger]) : m.opt = "run" => order' \in {"run", "stop"}
    PROVE  Mailed'
BY DEF Mailed, Expected, Slaves, Master, Merger, NoTask, Ending

LEMMA RestedNext ==
    ASSUME \A s \in Slaves : slave'[s].ring # -1 => s \in Calm',
           order' \in {"run", "stop"} => Slaves \subseteq Calm'
    PROVE  Rested'
BY DEF Rested, Slaves

LEMMA InLineNext ==
    ASSUME NEW P, InLine, KeepsLine(mail, mail', P),
           \A u \in Tasks : \A x \in Message : <<u, x>> \in P =>
              \A y \in ToSet(mail[u]) : Before(y, x)
    PROVE  InLine'
<1>1. \A u \in Tasks : Lined(mail'[u])
  BY DEF InLine, KeepsLine
<1> QED
  BY <1>1 DEF InLine, Lined, Before, Tasks, Master, Merger

LEMMA ExpectedStays ==
    ASSUME NEW m, NEW j, NEW k, NEW o, NEW p, NEW S, NEW T, Expected(m, j, o, S),
           S \subseteq T, k = j \/ m.tag # "WORK",
           o \in Ending => p \in Ending, o = "stop" => p = "stop"
    PROVE  Expected(m, k, p, T)
BY DEF Expected

\* What the steps have in common that give no chunk, take no frame and open no
\* file.
Gentle(t, m, P) ==
    /\ UNCHANGED <<chunk, given, current, used, elab>>
    /\ order' \in Giving => order' = order
    /\ order \in Ending => order' \in Ending
    /\ order \in {"run", "stop"} => order' \in {"run", "stop"}
    /\ order = "stop" => order' = "stop"
    /\ Steady /\ \A s \in Slaves : slave'[s].able => slave[s].able
    /\ Moved(mail, mail', t, m, P) /\ KeepsLine(mail, mail', P)
    /\ t \in Tasks \ {Master} => m.opt \notin {"restart2", "add_elab"}
    /\ \A u \in Tasks : \A x \in Message : <<u, x>> \in P =>
          /\ Dull(x) /\ \A y \in ToSet(mail[u]) : Before(y, x)
          /\ u \in Slaves /\ order \notin Giving => x.tag # "WORK"

LateState ==
    /\ ClusterTypeOK /\ mail' \in Boxes /\ order \in Late /\ Overtaking = FALSE
    /\ FreeInv /\ Ready /\ InLine /\ Mailed /\ Rested /\ Jobs /\ Sorted /\ Kept

LEMMA GentleCalm ==
    ASSUME LateState, order' \in Late, NEW t, NEW m, NEW P, Gentle(t, m, P)
    PROVE  Calm \subseteq Calm' /\ Job' = Job
<1>1. mail \in Boxes /\ mail' \in Boxes /\ order \in Late /\ Jobs
  BY DEF LateState, ClusterTypeOK
<1>2. /\ order' \in Giving => order' = order
      /\ Steady /\ \A s \in Slaves : slave'[s].able => slave[s].able
      /\ Moved(mail, mail', t, m, P)
      /\ \A u \in Tasks : \A x \in Message : <<u, x>> \in P =>
            (u \in Slaves /\ order \notin Giving => x.tag # "WORK")
      /\ UNCHANGED <<chunk, current, used>>
  BY DEF Gentle
<1>3. ASSUME NEW s \in Slaves, NEW x \in ToSet(mail'[s]), order \notin Giving, x.tag = "WORK"
      PROVE  x \in ToSet(mail[s])
  <2>1. s \in Tasks /\ x \in Message
    BY <1>1, TaskFacts, MailSet DEF Boxes
  <2> QED
    BY <1>2, <1>3, <2>1 DEF Moved
<1>4. \A s \in Slaves : slave'[s].ready => slave[s].ready \/ s \notin Calm
  BY <1>2 DEF Steady
<1>5. order' = "first-free" => order = "first-free"
  BY <1>2 DEF Giving
<1>6. Calm \subseteq Calm'
  BY <1>1, <1>2, <1>3, <1>4, CalmKept
<1>7. Job' = Job
  BY <1>1, <1>2, <1>5, JobsStay
<1> QED
  BY <1>6, <1>7

\* Messages P are such as the tasks may have in their mail.
Fitting(P) ==
    \A u \in Tasks : \A x \in Message : <<u, x>> \in P =>
       /\ u \in Slaves => Expected(x, Job'[u], order', Calm')
       /\ u = Master /\ x.tag = "RING" => Slaves \subseteq Calm'
       /\ u = Merger /\ x.opt = "run" => order' \in {"run", "stop"}

LEMMA MailedKept ==
    ASSUME mail \in Boxes, mail' \in Boxes, Mailed, NEW t, NEW m, NEW P,
           Moved(mail, mail', t, m, P), Fitting(P), Calm \subseteq Calm',
           \A u \in Slaves : Job'[u] = Job[u] \/ \A x \in ToSet(mail[u]) : x.tag # "WORK",
           order \in Ending => order' \in Ending, order = "stop" => order' = "stop",
           order \in {"run", "stop"} => order' \in {"run", "stop"}
    PROVE  Mailed'
<1>1. \A u \in Tasks : ToSet(mail'[u]) \subseteq Message
  BY MailSet DEF Boxes
<1>2. ASSUME NEW u \in Slaves, NEW x \in ToSet(mail'[u])
      PROVE  Expected(x, Job'[u], order', Calm')
  <2>1. u \in Tasks /\ x \in Message
    BY <1>1, TaskFacts
  <2>2. CASE x \in ToSet(mail[u])
    <3>1. Expected(x, Job[u], order, Calm)
      BY <2>2 DEF Mailed
    <3>2. Job'[u] = Job[u] \/ x.tag # "WORK"
      BY <2>2
    <3> QED
      BY <3>1, <3>2, ExpectedStays
  <2>3. CASE <<u, x>> \in P
    BY <2>1, <2>3 DEF Fitting
  <2> QED
    BY <2>1, <2>2, <2>3 DEF Moved
<1>3. ASSUME NEW x \in ToSet(mail'[Master]), x.tag = "RING" PROVE Slaves \subseteq Calm'
  <2>1. Master \in Tasks /\ x \in Message
    BY <1>1, TaskFacts
  <2>2. x \in ToSet(mail[Master]) \/ <<Master, x>> \in P
    BY <2>1 DEF Moved
  <2> QED
    BY <1>3, <2>1, <2>2 DEF Mailed, Fitting
<1>4. ASSUME NEW x \in ToSet(mail'[Merger]), x.opt = "run" PROVE order' \in {"run", "stop"}
  <2>1. Merger \in Tasks /\ x \in Message
    BY <1>1, TaskFacts
  <2>2. x \in ToSet(mail[Merger]) \/ <<Merger, x>> \in P
    BY <2>1 DEF Moved
  <2> QED
    BY <1>4, <2>1, <2>2 DEF Mailed, Fitting
<1> QED
  BY <1>2, <1>3, <1>4, MailedNext

Upheld == InLine /\ Mailed /\ Rested /\ Jobs /\ Sorted /\ Kept

LEMMA GentleStep ==
    ASSUME LateState, order' \in Late, NEW t, NEW m, NEW P, Gentle(t, m, P), Fitting(P),
           \A s \in Slaves : slave'[s].ring # -1 => slave[s].ring # -1 \/ s \in Calm',
           order' \in {"run", "stop"} => order \in {"run", "stop"} \/ Slaves \subseteq Calm'
    PROVE  Upheld'
<1>1. /\ mail \in Boxes /\ mail' \in Boxes /\ order \in Late
      /\ InLine /\ Mailed /\ Rested /\ Jobs /\ Sorted /\ Kept
  BY DEF LateState, ClusterTypeOK
<1>2. /\ UNCHANGED <<chunk, given, current, used, elab>>
      /\ order' \in Giving => order' = order
      /\ order \in Ending => order' \in Ending
      /\ order \in {"run", "stop"} => order' \in {"run", "stop"}
      /\ order = "stop" => order' = "stop"
      /\ Steady /\ Moved(mail, mail', t, m, P) /\ KeepsLine(mail, mail', P)
      /\ t \in Tasks \ {Master} => m.opt \notin {"restart2", "add_elab"}
      /\ \A u \in Tasks : \A x \in Message : <<u, x>> \in P => Dull(x)
      /\ \A u \in Tasks : \A x \in Message : <<u, x>> \in P =>
            \A y \in ToSet(mail[u]) : Before(y, x)
  BY DEF Gentle
<1>3. Calm \subseteq Calm' /\ Job' = Job
  BY GentleCalm
<1>4. order' = "first-free" => order = "first-free"
  BY <1>2 DEF Giving
<1>5. Kept' /\ Jobs' /\ Sorted'
  BY <1>1, <1>2, <1>4, KeptStill
<1>6. InLine'
  BY <1>1, <1>2, InLineNext
<1>7. Mailed'
  BY <1>1, <1>2, <1>3, MailedKept
<1>8. Rested'
  <2>1. \A s \in Slaves : slave'[s].ring # -1 => s \in Calm'
    BY <1>1, <1>3 DEF Rested
  <2>2. order' \in {"run", "stop"} => Slaves \subseteq Calm'
    BY <1>1, <1>3 DEF Rested
  <2> QED
    BY <2>1, <2>2, RestedNext
<1> QED
  BY <1>5, <1>6, <1>7, <1>8 DEF Upheld

-----------------------------------------------------------------------------
(* Steps that give no chunk, take no frame and open no file.                *)

Plain(x) == x.opt \notin {"encode", "restart1", "restart2", "add_elab"}

LEMMA PlainLast ==
    ASSUME NEW x, Plain(x)
    PROVE  Dull(x) /\ \A y : Before(y, x)
BY DEF Plain, Dull, Before

\* A step of a slave or the merger that takes a message and sends plain ones.
LEMMA GentleTakes ==
    ASSUME LateState, UNCHANGED <<mastervars, elab>>, NEW t \in Tasks, NEW i, NEW P,
           Takes(mail', t, i, P), mail[t][i].opt \notin {"restart2", "add_elab"},
           Steady, \A s \in Slaves : slave'[s].able => slave[s].able,
           \A u \in Tasks : \A x \in Message : <<u, x>> \in P => Plain(x) /\ x.tag # "WORK"
    PROVE  Gentle(t, mail[t][i], P) /\ order' \in Late /\ order' = order
<1>1. order \in Late /\ UNCHANGED <<chunk, given, current, used, elab, order>>
  BY DEF LateState, mastervars
<1>2. \A u \in Tasks : \A x \in Message : <<u, x>> \in P =>
          Dull(x) /\ (\A y \in ToSet(mail[u]) : Before(y, x)) /\ x.tag # "WORK"
  BY PlainLast
<1>3. Moved(mail, mail', t, mail[t][i], P) /\ KeepsLine(mail, mail', P)
  BY DEF Takes
<1> QED
  BY <1>1, <1>2, <1>3 DEF Gentle

\* The first message of a slave.
LEMMA LateFront ==
    ASSUME LateState, NEW s \in Slaves, NEW i, NEW P, Takes(mail', s, i, P)
    PROVE  /\ Expected(mail[s][i], Job[s], order, Calm)
           /\ mail[s][i] \in ToSet(mail[s]) /\ mail[s][i] \in Message
           /\ i = 1 => Behind(mail', s, mail[s][1], P)
<1>1. s \in Tasks /\ InLine /\ Mailed
  BY TaskFacts DEF LateState
<1>2. Lined(mail[s])
  BY <1>1 DEF InLine
<1> QED
  BY <1>1, <1>2 DEF Takes, Mailed

LEMMA DiscardLate ==
    ASSUME LateState, NEW s \in Slaves, Discard(s)
    PROVE  order' \in Late => Upheld'
<1>0. mail \in Boxes /\ Overtaking = FALSE /\ s \in Tasks
  BY TaskFacts DEF LateState, ClusterTypeOK
<1>1. /\ Takes(mail', s, 1, {}) /\ mail[s][1].from # Master
      /\ UNCHANGED <<mastervars, slave, mergervars>>
  BY <1>0, DiscardEffect
<1>2. mail[s][1].opt \notin {"restart2", "add_elab"}
  BY <1>1, LateFront DEF Expected
<1>3. Steady /\ elab' = elab
  BY <1>1 DEF Steady, mergervars
<1>4. Gentle(s, mail[s][1], {}) /\ order' \in Late /\ order' = order
  BY <1>0, <1>1, <1>2, <1>3, GentleTakes
<1>5. Fitting({})
  BY DEF Fitting
<1> QED
  BY <1>1, <1>4, <1>5, GentleStep

LEMMA EnteringPlain ==
    ASSUME NEW s, NEW P, Entering(s, P)
    PROVE  \A u \in Tasks : \A x \in Message : <<u, x>> \in P => Plain(x) /\ x.tag # "WORK"
<1> SUFFICES ASSUME NEW u \in Tasks, NEW x \in Message, <<u, x>> \in P
             PROVE  Plain(x) /\ x.tag # "WORK"
  OBVIOUS
<1>1. Token(s, x)
  BY DEF Entering
<1> QED
  BY <1>1 DEF Token, Plain

\* The token slave 0 sends out, when it is calm.
LEMMA EnteringFits ==
    ASSUME NEW s \in Slaves, NEW P, Entering(s, P), s \in Calm'
    PROVE  Fitting(P)
<1> SUFFICES ASSUME NEW u \in Tasks, NEW x \in Message, <<u, x>> \in P
             PROVE  /\ u \in Slaves => Expected(x, Job'[u], order', Calm')
                    /\ u = Master /\ x.tag = "RING" => Slaves \subseteq Calm'
                    /\ u = Merger /\ x.opt = "run" => order' \in {"run", "stop"}
  BY DEF Fitting
<1>1. s = 0 /\ Token(s, x) /\ u = Following(s)
  BY DEF Entering
<1>2. u \in Slaves /\ u # Master /\ u # Merger
  BY <1>1, FollowingIn, TaskFacts
<1>3. 0 .. x.from \subseteq Calm'
  <2>1. x.from = 0
    BY <1>1 DEF Token
  <2>2. \A k \in 0 .. 0 : k = 0
    OBVIOUS
  <2> QED
    BY <1>1, <2>1, <2>2
<1>4. Expected(x, Job'[u], order', Calm')
  BY <1>1, <1>3 DEF Token, Expected
<1> QED
  BY <1>2, <1>4

LEMMA ConfigureLate ==
    ASSUME LateState, NEW s \in Slaves, Configure(s)
    PROVE  order' \in Late => Upheld'
<1>0. /\ mail \in Boxes /\ Overtaking = FALSE /\ s \in Tasks /\ ClusterTypeOK
      /\ slave \in [Slaves -> SlaveState] /\ mail' \in Boxes /\ Mailed /\ Rested
  BY TaskFacts DEF LateState, ClusterTypeOK
<1>1. \E i \in DOMAIN mail[s] : Ordered(s, "CONF", i)
  BY DEF Configure
<1>2. Commanded(s, "CONF") /\ 1 \in DOMAIN mail[s]
  BY <1>0, <1>1, OrderedFirst
<1>3. mail[s][1] \in ToSet(mail[s])
  BY <1>2 DEF ToSet
<1>4. Expected(mail[s][1], Job[s], order, Calm)
  BY <1>0, <1>3 DEF Mailed
<1>5. /\ mail[s][1].tag = "CONF"
      /\ \/ mail[s][1].opt = "close" /\ order \in Ending
         \/ mail[s][1].opt = "stop" /\ order = "stop"
  BY <1>2, <1>4 DEF Expected, Commanded
<1>6. mail[s][1].opt # "open"
  BY <1>5
<1>7. UNCHANGED <<mastervars, mergervars>>
  BY DEF Configure
<1>8. PICK P : Entering(s, P) /\ Takes(mail', s, 1, P)
  BY <1>0, <1>6, ConfigureEffect
<1>9. PICK rc \in Int : slave' = [slave EXCEPT ![s] = Carried(s, mail[s][1], rc)]
  BY <1>0, <1>6, ConfigureEffect
<1> DEFINE c == Carried(s, mail[s][1], rc)
<1>10. slave'[s] = c /\ \A u \in Slaves : u # s => slave'[u] = slave[u]
  BY <1>0, <1>9
<1>11. /\ c.first = slave[s].first /\ c.files = slave[s].files
       /\ c.ready => slave[s].ready /\ mail[s][1].opt # "close"
       /\ c.able => slave[s].able
  <2>1. /\ c.first = slave[s].first
        /\ c.able = (slave[s].able /\ ~(mail[s][1].opt = "init" /\ rc = 1))
        /\ mail[s][1].opt # "open" => c.files = slave[s].files
        /\ mail[s][1].opt = "close" => ~c.ready
        /\ mail[s][1].opt \notin {"open", "close"} => c.ready = slave[s].ready
    BY <1>0, CarriedFields
  <2> HIDE DEF c
  <2> QED
    BY <1>6, <2>1
<1> HIDE DEF c
<1>12. Steady /\ \A u \in Slaves : slave'[u].able => slave[u].able
  BY <1>10, <1>11 DEF Steady
<1>13. \A u \in Tasks : \A x \in Message : <<u, x>> \in P => Plain(x) /\ x.tag # "WORK"
  BY <1>8, EnteringPlain
<1>14. Gentle(s, mail[s][1], P) /\ order' \in Late /\ order' = order
  <2>1. mail[s][1].opt \notin {"restart2", "add_elab"} /\ elab' = elab
    BY <1>5, <1>7 DEF mergervars
  <2> QED
    BY <1>0, <1>7, <1>8, <1>12, <1>13, <2>1, GentleTakes
<1>15. Calm \subseteq Calm' /\ Job' = Job
  BY <1>14, GentleCalm
<1>16. s \in Calm'
  <2>1. CASE mail[s][1].opt = "stop" /\ order = "stop"
    BY <1>0, <1>15, <2>1 DEF Rested
  <2>2. CASE mail[s][1].opt = "close" /\ order \in Ending
    <3>1. ~slave'[s].ready /\ order' \notin Giving
      BY <1>10, <1>11, <1>14, <2>2 DEF Ending, Giving
    <3>2. ASSUME NEW x \in ToSet(mail'[s]) PROVE x.tag # "WORK"
      <4>1. x \in Message
        BY <1>0, MailSet DEF Boxes
      <4>2. CASE <<s, x>> \in P
        BY <1>0, <1>13, <4>1, <4>2
      <4>3. CASE <<s, x>> \notin P
        <5>1. Before(mail[s][1], x)
          BY <1>8, <4>3, LateFront DEF Behind
        <5>2. x \in ToSet(mail[s])
          BY <1>0, <1>8, <4>3 DEF Takes, Moved
        <5>3. Expected(x, Job[s], order, Calm)
          BY <1>0, <5>2 DEF Mailed
        <5> QED
          BY <1>5, <5>1, <5>3 DEF Before, Expected
      <4> QED
        BY <4>2, <4>3
    <3> QED
      BY <3>1, <3>2, CalmIs
  <2> QED
    BY <1>5, <2>1, <2>2
<1>17. Fitting(P)
  BY <1>8, <1>16, EnteringFits
<1>18. \A u \in Slaves : slave'[u].ring # -1 => slave[u].ring # -1 \/ u \in Calm'
  BY <1>10, <1>16
<1> QED
  BY <1>14, <1>17, <1>18, GentleStep

LEMMA PassTokenLate ==
    ASSUME LateState, NEW s \in Slaves, PassToken(s)
    PROVE  order' \in Late => Upheld'
<1>0. /\ mail \in Boxes /\ s \in Tasks /\ ClusterTypeOK
      /\ slave \in [Slaves -> SlaveState] /\ mail' \in Boxes /\ Rested
      /\ NProc \in Nat /\ NProc > 0 /\ s \in 0 .. NProc - 1
  BY TaskFacts DEF LateState, ClusterTypeOK, Slaves
<1>1. /\ slave[s].ring # -1 /\ slave' = [slave EXCEPT ![s].ring = -1]
      /\ UNCHANGED <<mastervars, mergervars>>
  BY <1>0, PassTokenEffect
<1> DEFINE to == IF s = 0 THEN Master ELSE Following(s)
<1>1a. PICK i \in DOMAIN mail[s] :
          /\ mail[s][i].tag = "RING" /\ mail[s][i].from = Preceding(s)
          /\ \E x : Token(s, x) /\ Takes(mail', s, i, {<<to, x>>})
  BY <1>0, PassTokenEffect
<1>2. PICK x :
         /\ mail[s][i].tag = "RING" /\ mail[s][i].from = Preceding(s)
         /\ Token(s, x) /\ Takes(mail', s, i, {<<to, x>>})
  BY <1>1a
<1>3. Expected(mail[s][i], Job[s], order, Calm)
  BY <1>2, LateFront
<1>4. mail[s][i].opt = "" /\ 0 .. Preceding(s) \subseteq Calm
  BY <1>2, <1>3 DEF Expected
<1>5. \A u \in Slaves :
         /\ slave'[u].first = slave[u].first /\ slave'[u].files = slave[u].files
         /\ slave'[u].ready = slave[u].ready /\ slave'[u].able = slave[u].able
         /\ slave'[u].ring # -1 => slave[u].ring # -1
  BY <1>0, <1>1 DEF SlaveState
<1>6. Steady
  BY <1>5 DEF Steady
<1>7. \A u \in Tasks : \A y \in Message : <<u, y>> \in {<<to, x>>} => Plain(y) /\ y.tag # "WORK"
  BY <1>2 DEF Token, Plain
<1>8. Gentle(s, mail[s][i], {<<to, x>>}) /\ order' \in Late /\ order' = order
  <2>1. elab' = elab
    BY <1>1 DEF mergervars
  <2> HIDE DEF to
  <2> QED
    BY <1>0, <1>1, <1>2, <1>4, <1>5, <1>6, <1>7, <2>1, GentleTakes
<1>9. Calm \subseteq Calm' /\ Job' = Job
  BY <1>8, GentleCalm
<1>10. s \in Calm
  BY <1>0, <1>1 DEF Rested
<1>11. Fitting({<<to, x>>})
  <2> SUFFICES ASSUME NEW u \in Tasks, NEW y \in Message, <<u, y>> \in {<<to, x>>}
               PROVE  /\ u \in Slaves => Expected(y, Job'[u], order', Calm')
                      /\ u = Master /\ y.tag = "RING" => Slaves \subseteq Calm'
                      /\ u = Merger /\ y.opt = "run" => order' \in {"run", "stop"}
    BY DEF Fitting
  <2>1. u = to /\ y = x
    OBVIOUS
  <2>2. CASE s = 0
    <3>1. u = Master /\ u \notin Slaves /\ u # Merger
      BY <2>1, <2>2, TaskFacts
    <3>2. Preceding(s) = NProc - 1
      <4>1. (0 + NProc - 1) % NProc = NProc - 1
        BY <1>0
      <4> QED
        BY <2>2, <4>1 DEF Preceding
    <3>3. Slaves \subseteq Calm'
      BY <1>4, <1>9, <3>2 DEF Slaves
    <3> QED
      BY <3>1, <3>3
  <2>3. CASE s # 0
    <3>1. u \in Slaves /\ u # Master /\ u # Merger
      BY <2>1, <2>3, FollowingIn, TaskFacts
    <3>2. Preceding(s) = s - 1
      <4>1. s - 1 \in 0 .. NProc - 1 /\ s + NProc - 1 = (s - 1) + NProc
        BY <1>0, <2>3
      <4>2. \A k \in 0 .. NProc - 1 : (k + NProc) % NProc = k
        BY <1>0
      <4> QED
        BY <4>1, <4>2 DEF Preceding
    <3>3. 0 .. s \subseteq Calm'
      <4>1. \A k \in 0 .. s : k \in 0 .. s - 1 \/ k = s
        BY <1>0
      <4>2. 0 .. s - 1 \subseteq Calm /\ s \in Calm'
        BY <1>4, <1>9, <1>10, <3>2
      <4> QED
        BY <1>9, <4>1, <4>2
    <3>4. Expected(x, Job'[u], order', Calm')
      BY <1>2, <3>3 DEF Token, Expected
    <3> QED
      BY <2>1, <3>1, <3>4
  <2> QED
    BY <2>2, <2>3
<1> HIDE DEF to
<1> QED
  BY <1>5, <1>8, <1>11, GentleStep

\* An answer to the master.
Answer(x) == x \in Message /\ x.tag \in {"ENDTASK", "REPLY"} /\ x.opt = ""

LEMMA AnswerFits ==
    ASSUME NEW x, Answer(x)
    PROVE  /\ Fitting({<<Master, x>>})
           /\ \A u \in Tasks : \A y \in Message :
                 <<u, y>> \in {<<Master, x>>} => Plain(y) /\ y.tag # "WORK"
<1>1. \A u \in Tasks : \A y \in Message :
         <<u, y>> \in {<<Master, x>>} => u = Master /\ y = x /\ u \notin Slaves /\ u # Merger
  BY TaskFacts
<1>2. x.opt = "" /\ x.tag # "RING" /\ x.tag # "WORK"
  BY DEF Answer
<1>3. Plain(x)
  BY <1>2 DEF Plain
<1>4. Fitting({<<Master, x>>})
  <2> SUFFICES ASSUME NEW u \in Tasks, NEW y \in Message, <<u, y>> \in {<<Master, x>>}
               PROVE  /\ u \in Slaves => Expected(y, Job'[u], order', Calm')
                      /\ u = Master /\ y.tag = "RING" => Slaves \subseteq Calm'
                      /\ u = Merger /\ y.opt = "run" => order' \in {"run", "stop"}
    BY DEF Fitting
  <2>1. u = Master /\ y = x /\ u \notin Slaves /\ u # Merger
    BY <1>1
  <2> QED
    BY <1>2, <2>1
<1> QED
  BY <1>1, <1>2, <1>3, <1>4

\* An order of the master at the front of the mail of slave s.
LEMMA OrderFront ==
    ASSUME LateState, NEW s \in Slaves, NEW P, Takes(mail', s, 1, P), Commanded(s, "WORK")
    PROVE  /\ mail[s][1] \in ToSet(mail[s]) /\ mail[s][1] \in Message
           /\ mail[s][1].from = Master /\ mail[s][1].tag = "WORK"
           /\ Job[s] # NoTask /\ (mail[s][1].opt # "restart1" => mail[s][1].seq = Job[s])
           /\ Behind(mail', s, mail[s][1], P)
<1>1. Expected(mail[s][1], Job[s], order, Calm)
  BY LateFront
<1>2. mail[s][1].from = Master /\ mail[s][1].tag = "WORK"
  BY DEF Commanded
<1> QED
  BY <1>1, <1>2, LateFront DEF Expected

LEMMA CloseChunkLate ==
    ASSUME LateState, NEW s \in Slaves, CloseChunk(s)
    PROVE  order' \in Late => Upheld'
<1>0. /\ mail \in Boxes /\ Overtaking = FALSE /\ s \in Tasks /\ ClusterTypeOK
      /\ slave \in [Slaves -> SlaveState]
  BY TaskFacts DEF LateState, ClusterTypeOK
<1>1. /\ mail[s][1].opt = "restart1" /\ UNCHANGED <<mastervars, mergervars>>
  BY <1>0, CloseChunkEffect
<1>2. PICK l \in BOOLEAN : slave' = [slave EXCEPT ![s].loaded = l, ![s].ready = FALSE]
  BY <1>0, CloseChunkEffect
<1>3. PICK x : Answer(x) /\ Takes(mail', s, 1, {<<Master, x>>})
  <2>1. \E x : /\ x \in Message /\ x.tag \in {"ENDTASK", "REPLY"} /\ x.opt = ""
               /\ Takes(mail', s, 1, {<<Master, x>>})
    BY <1>0, CloseChunkEffect
  <2> QED
    BY <2>1 DEF Answer
<1>4. \A u \in Slaves :
         /\ slave'[u].first = slave[u].first /\ slave'[u].files = slave[u].files
         /\ slave'[u].ready => slave[u].ready
         /\ slave'[u].able = slave[u].able /\ slave'[u].ring = slave[u].ring
  BY <1>0, <1>2 DEF SlaveState
<1>5. Steady /\ elab' = elab
  BY <1>1, <1>4 DEF Steady, mergervars
<1>6. Gentle(s, mail[s][1], {<<Master, x>>}) /\ order' \in Late /\ order' = order
  BY <1>0, <1>1, <1>3, <1>4, <1>5, AnswerFits, GentleTakes
<1>7. Fitting({<<Master, x>>})
  BY <1>3, AnswerFits
<1> QED
  BY <1>4, <1>6, <1>7, GentleStep

\* What the other slaves are told does not change with the first message of s.
LEMMA FrontTaken ==
    ASSUME LateState, NEW s \in Slaves, NEW P, Takes(mail', s, 1, P), Commanded(s, "WORK"),
           \A u \in Tasks : \A x \in Message : <<u, x>> \in P =>
              x.opt \notin {"encode", "restart2"} /\ x.tag # "WORK"
    PROVE  /\ \A u \in Slaves : u \in Reopening' <=>
                 u \in Reopening /\ (mail[s][1].opt = "restart2" => u # s)
           /\ mail[s][1].opt = "encode" => s \notin Reopening
           /\ mail[s][1].opt = "restart2" => s \in Reopening
           /\ Coming' \subseteq Coming
           /\ mail[s][1].opt = "encode" =>
                 /\ <<s, Job[s], mail[s][1].body>> \in Coming
                 /\ \A d \in Coming' : d[2] = Job[s] => mail[s][1].body < d[3]
           /\ \A u \in Slaves : \A x \in ToSet(mail'[u]) :
                 x.tag = "WORK" => x \in ToSet(mail[u])
<1> DEFINE m == mail[s][1]
<1>0. /\ mail \in Boxes /\ mail' \in Boxes /\ s \in Tasks /\ Jobs /\ Mailed
      /\ \A u \in Slaves : u \in Tasks
  BY TaskFacts DEF LateState, ClusterTypeOK
<1>1. /\ m \in ToSet(mail[s]) /\ m.from = Master /\ Job[s] # NoTask
      /\ m.opt # "restart1" => m.seq = Job[s]
      /\ Behind(mail', s, m, P) /\ Moved(mail, mail', s, m, P)
  BY OrderFront DEF Takes
<1>2. \A u \in Tasks : ToSet(mail[u]) \subseteq Message /\ ToSet(mail'[u]) \subseteq Message
  BY <1>0, MailSet DEF Boxes
<1> HIDE DEF m
<1>3. ASSUME NEW u \in Tasks, NEW x \in ToSet(mail'[u]),
             x.opt \in {"encode", "restart2"} \/ x.tag = "WORK"
      PROVE  x \in ToSet(mail[u]) /\ (u = s => Before(m, x))
  <2>1. <<u, x>> \notin P
    BY <1>2, <1>3
  <2> QED
    BY <1>1, <2>1 DEF Moved, Behind
<1>4. ASSUME NEW u \in Tasks, NEW x \in ToSet(mail[u]), u # s \/ x # m
      PROVE  x \in ToSet(mail'[u])
  BY <1>1, <1>4 DEF Moved
<1>5. \A x \in ToSet(mail'[s]) : x.opt # "restart2"
  BY <1>0, <1>1, <1>3 DEF Before
<1>6. m.opt # "restart2" => s \notin Reopening
  <2> SUFFICES ASSUME m.opt # "restart2", NEW x \in ToSet(mail[s]), x.opt = "restart2" PROVE FALSE
    BY ReopeningAre
  <2>1. x \in ToSet(mail'[s])
    BY <1>0, <1>4
  <2> QED
    BY <1>5, <2>1
<1>7. ASSUME NEW u \in Slaves
      PROVE  u \in Reopening' <=> u \in Reopening /\ (m.opt = "restart2" => u # s)
  <2>1. CASE u = s
    <3>1. u \notin Reopening'
      BY <1>5, <2>1, ReopeningAre
    <3> QED
      BY <1>6, <2>1, <3>1
  <2>2. CASE u # s
    <3>1. u \in Reopening' => u \in Reopening
      BY <1>0, <1>3, ReopeningAre
    <3>2. u \in Reopening => u \in Reopening'
      BY <1>0, <1>4, <2>2, ReopeningAre
    <3> QED
      BY <2>2, <3>1, <3>2
  <2> QED
    BY <2>1, <2>2
<1>8. m.opt = "restart2" => s \in Reopening
  BY <1>1, ReopeningAre
<1>9. ASSUME NEW d \in Coming'
      PROVE  d \in Coming /\ (m.opt = "encode" /\ d[2] = Job[s] => m.body < d[3])
  <2>1. PICK u \in Slaves :
           \E x \in ToSet(mail'[u]) : x.opt = "encode" /\ d = <<u, x.seq, x.body>>
    BY ComingAre
  <2>2. PICK x \in ToSet(mail'[u]) : x.opt = "encode" /\ d = <<u, x.seq, x.body>>
    BY <2>1
  <2>3. x \in ToSet(mail[u]) /\ (u = s => Before(m, x))
    BY <1>0, <1>3, <2>2
  <2>4. d \in Coming
    BY <2>2, <2>3, ComingAre
  <2>5. ASSUME m.opt = "encode", d[2] = Job[s] PROVE m.body < d[3]
    <3>1. Expected(x, Job[u], order, Calm)
      BY <1>0, <2>3 DEF Mailed
    <3>2. x.seq = Job[u] /\ d[2] = x.seq /\ d[3] = x.body
      BY <2>2, <3>1 DEF Expected
    <3>3. u = s
      BY <1>0, <1>1, <2>5, <3>2 DEF Jobs
    <3> QED
      BY <2>2, <2>3, <2>5, <3>2, <3>3 DEF Before
  <2> QED
    BY <2>4, <2>5
<1>10. m.opt = "encode" => <<s, Job[s], m.body>> \in Coming
  BY <1>1, ComingAre
<1>11. \A u \in Slaves : \A x \in ToSet(mail'[u]) : x.tag = "WORK" => x \in ToSet(mail[u])
  BY <1>0, <1>3
<1>12. Coming' \subseteq Coming
  BY <1>9
<1>13. m.opt = "encode" => \A d \in Coming' : d[2] = Job[s] => m.body < d[3]
  BY <1>9
<1>14. m.opt = "encode" => s \notin Reopening
  BY <1>6
<1> QED
  BY <1>7, <1>8, <1>10, <1>11, <1>12, <1>13, <1>14 DEF m

-----------------------------------------------------------------------------
(* A slave opens its next file, or stores a frame.                          *)

\* The step of a slave that takes no order from the export module on: what is
\* said of the mail follows from what is new in it.
LEMMA SlaveKeeps ==
    ASSUME LateState, UNCHANGED mastervars, NEW s \in Tasks, NEW i, NEW P, Takes(mail', s, i, P),
           Fitting(P), Calm \subseteq Calm',
           \A u \in Tasks : \A x \in Message : <<u, x>> \in P =>
              \A y \in ToSet(mail[u]) : Before(y, x),
           \A u \in Slaves : slave'[u].ring # -1 => slave[u].ring # -1 \/ u \in Calm'
    PROVE  InLine' /\ Mailed' /\ Rested' /\ Jobs' /\ Job' = Job
<1>1. /\ mail \in Boxes /\ mail' \in Boxes /\ InLine /\ Mailed /\ Rested /\ Jobs
      /\ UNCHANGED <<chunk, current, used, order>>
  BY DEF LateState, ClusterTypeOK, mastervars
<1>2. Moved(mail, mail', s, mail[s][i], P) /\ KeepsLine(mail, mail', P)
  BY DEF Takes
<1>3. InLine'
  BY <1>1, <1>2, InLineNext
<1>4. Jobs' /\ Job' = Job
  BY <1>1, JobsStay
<1>5. Mailed'
  BY <1>1, <1>2, <1>4, MailedKept
<1>6. Rested'
  <2>1. \A u \in Slaves : slave'[u].ring # -1 => u \in Calm'
    BY <1>1 DEF Rested
  <2>2. order' \in {"run", "stop"} => Slaves \subseteq Calm'
    BY <1>1 DEF Rested
  <2> QED
    BY <2>1, <2>2, RestedNext
<1> QED
  BY <1>3, <1>4, <1>5, <1>6

\* A slave opens its next file, whatever comes of it.
LEMMA NextOpened ==
    ASSUME LateState, UNCHANGED <<mastervars, mergervars>>, NEW s \in Slaves, NEW P,
           Takes(mail', s, 1, P), Commanded(s, "WORK"), mail[s][1].opt = "restart2",
           \A u \in Slaves : u # s => slave'[u] = slave[u],
           slave'[s].files = Append(slave[s].files, <<>>),
           slave'[s].able = slave[s].able, slave'[s].ready => slave[s].able,
           slave'[s].ready => ~slave'[s].first,
           slave'[s].ring = slave[s].ring \/ s \in Calm',
           \A u \in Tasks : \A x \in Message : <<u, x>> \in P => Plain(x) /\ x.tag # "WORK",
           Fitting(P)
    PROVE  Upheld'
<1>0. /\ mail \in Boxes /\ mail' \in Boxes /\ s \in Tasks /\ ClusterTypeOK /\ order \in Late
      /\ Sorted /\ Kept /\ Jobs /\ Ready
  BY TaskFacts DEF LateState, ClusterTypeOK
<1>1. UNCHANGED <<chunk, given, current, used, order, elab>>
  BY DEF mastervars, mergervars
<1>2. \A u \in Tasks : \A x \in Message : <<u, x>> \in P =>
         Dull(x) /\ \A y \in ToSet(mail[u]) : Before(y, x)
  BY PlainLast
<1>3. /\ mail[s][1] \in ToSet(mail[s]) /\ mail[s][1].tag = "WORK" /\ Job[s] # NoTask
  BY OrderFront
<1>4. \A u \in Tasks : \A x \in Message : <<u, x>> \in P =>
              x.opt \notin {"encode", "restart2"} /\ x.tag # "WORK"
  BY DEF Plain
<1>5. /\ \A u \in Slaves : u \in Reopening' <=> u \in Reopening /\ u # s
      /\ s \in Reopening /\ Coming' \subseteq Coming
      /\ \A u \in Slaves : \A x \in ToSet(mail'[u]) : x.tag = "WORK" => x \in ToSet(mail[u])
  BY <1>4, FrontTaken
<1>6. Calm \subseteq Calm'
  <2>1. \A u \in Slaves : slave'[u].able => slave[u].able
    OBVIOUS
  <2>2. ASSUME NEW u \in Slaves, slave'[u].ready PROVE slave[u].ready \/ u \notin Calm
    <3>1. CASE u # s
      BY <2>2, <3>1
    <3>2. CASE u = s
      BY <1>3, <2>2, <3>2 DEF Calm
    <3> QED
      BY <3>1, <3>2
  <2> QED
    BY <1>0, <1>1, <1>5, <2>1, <2>2, CalmKept
<1>7. InLine' /\ Mailed' /\ Rested' /\ Jobs' /\ Job' = Job
  BY <1>0, <1>2, <1>6, SlaveKeeps
<1>8. Parts' = Parts /\ Sorted'
  <2>1. \A x \in Message : x.opt = "add_elab" =>
           (x \in ToSet(mail'[Merger]) <=> x \in ToSet(mail[Merger]))
    BY <1>2, TaskFacts DEF Takes, Moved, Dull
  <2> QED
    BY <1>0, <1>1, <2>1, SameParts
<1>9. Files \in [Slaves -> Seq(Seq(Int))] /\ Opened(Files, Files', s)
  <2>1. Files \in [Slaves -> Seq(Seq(Int))]
    BY <1>0, FilesTyped
  <2>2. \A u \in Slaves : u # s => Files'[u] = Files[u]
    BY SlaveSets
  <2>3. Files'[s] = Append(Files[s], <<>>) /\ Files[s] \in Seq(Seq(Int))
    BY <2>1, SlaveSets
  <2>4. /\ Len(Append(Files[s], <<>>)) = Len(Files[s]) + 1
        /\ \A n \in 1 .. Len(Files[s]) : Append(Files[s], <<>>)[n] = Files[s][n]
        /\ Append(Files[s], <<>>)[Len(Files[s]) + 1] = <<>>
    BY <2>3, FilesAppended
  <2> QED
    BY <2>1, <2>2, <2>3, <2>4 DEF Opened
<1>10. /\ Filed(Job, Reopening, Parts, Files, chunk)
       /\ Marked(Job, Reopening, Files, Able, Begun)
       /\ Framed(Parts, Coming, Files, chunk, given)
  BY <1>0 DEF Kept
<1>11. Filed(Job', Reopening', Parts', Files', chunk')
  <2>1. Filed(Job, Reopening', Parts, Files', chunk)
    BY <1>5, <1>9, <1>10, FiledOpened
  <2> QED
    BY <1>1, <1>7, <1>8, <2>1
<1>12. Marked(Job', Reopening', Files', Able', Begun')
  <2>1. /\ \A u \in Slaves : u # s => (u \in Able' <=> u \in Able) /\ (u \in Begun' <=> u \in Begun)
        /\ s \in Able' => s \notin Begun'
        /\ Able \in SUBSET Slaves /\ Able' \in SUBSET Slaves
    BY SlaveSets
  <2>2. Marked(Job, Reopening', Files', Able', Begun')
    <3> DEFINE J == Job
               F == Files
               G == Files'
               R == Reopening
               S == Reopening'
               rdy == Able
               can == Able'
               fst == Begun
               beg == Begun'
    <3>1. /\ F \in [Slaves -> Seq(Seq(Int))] /\ Opened(F, G, s) /\ Marked(J, R, F, rdy, fst)
          /\ J[s] # NoTask /\ rdy \in SUBSET Slaves /\ can \in SUBSET Slaves
          /\ \A u \in Slaves : u \in S <=> (u \in R /\ u # s)
          /\ \A u \in Slaves : u # s => (u \in can <=> u \in rdy) /\ (u \in beg <=> u \in fst)
          /\ s \in can => s \notin beg
      BY <1>3, <1>5, <1>9, <1>10, <2>1
    <3> HIDE DEF J, F, G, R, S, rdy, can, fst, beg
    <3>2. Marked(J, S, G, can, beg)
      BY <3>1, MarkedOpened
    <3> QED
      BY <3>2 DEF J, F, G, R, S, rdy, can, fst, beg
  <2> QED
    BY <1>7, <2>2
<1>13. Framed(Parts', Coming', Files', chunk', given')
  <2>1. \A p \in Parts : p[2] \in Slaves /\ p[3] \in 1 .. Len(Files[p[2]])
    BY <1>10 DEF Filed
  <2>2. Framed(Parts, Coming, Files', chunk, given)
    BY <1>9, <1>10, <2>1, FramedOpened
  <2>3. Framed(Parts, Coming', Files', chunk, given)
    BY <1>5, <2>2, FramesLeft
  <2> QED
    BY <1>1, <1>8, <2>3
<1>14. Kept'
  BY <1>11, <1>12, <1>13, KeptNext
<1> QED
  BY <1>7, <1>8, <1>14 DEF Upheld

LEMMA OpenNextLate ==
    ASSUME LateState, NEW s \in Slaves, OpenNext(s)
    PROVE  order' \in Late => Upheld'
<1>0. /\ mail \in Boxes /\ Overtaking = FALSE /\ s \in Tasks /\ ClusterTypeOK
      /\ slave \in [Slaves -> SlaveState] /\ slave[s] \in SlaveState /\ Ready /\ Kept
  BY TaskFacts DEF LateState, ClusterTypeOK
<1> DEFINE again == [slave[s] EXCEPT !.loaded = TRUE, !.files = Append(@, <<>>)]
           one == [again EXCEPT !.ready = TRUE, !.first = FALSE]
           two == [again EXCEPT !.ring = mail[s][1].seq, !.rc = 1]
<1>1. /\ Commanded(s, "WORK") /\ mail[s][1].opt = "restart2"
      /\ UNCHANGED <<mastervars, mergervars>>
      /\ \/ /\ slave[s].able /\ slave' = [slave EXCEPT ![s] = one]
            /\ \E x : x \in Message /\ x.opt = "add_remove" /\ x.tag = "JOIN"
                  /\ Takes(mail', s, 1, {<<Merger, x>>})
         \/ /\ slave[s].able /\ slave' = [slave EXCEPT ![s] = again]
            /\ \E P : Reports(s, P) /\ Takes(mail', s, 1, P)
         \/ /\ ~slave[s].able /\ slave' = [slave EXCEPT ![s] = two]
            /\ \E P : Entering(s, P) /\ Takes(mail', s, 1, P)
  BY <1>0, OpenNextEffect
<1>2. /\ again.files = Append(slave[s].files, <<>>) /\ again.able = slave[s].able
      /\ again.ready = slave[s].ready /\ again.ring = slave[s].ring
      /\ again.first = slave[s].first
  BY <1>0 DEF SlaveState
<1>3. /\ one.files = Append(slave[s].files, <<>>) /\ one.able = slave[s].able
      /\ one.ring = slave[s].ring /\ ~one.first
  BY <1>0 DEF SlaveState
<1>4. /\ two.files = Append(slave[s].files, <<>>) /\ two.able = slave[s].able
      /\ two.ready = slave[s].ready
  BY <1>0 DEF SlaveState
<1> HIDE DEF again, one, two
<1>5. ASSUME slave[s].ready, NEW P, Takes(mail', s, 1, P) PROVE slave[s].able /\ ~slave[s].first
  <2>1. slave[s].able
    BY <1>0, <1>5 DEF Ready
  <2>2. s \in Reopening
    BY <1>1, <1>5, OrderFront, ReopeningAre
  <2>3. s \in Able
    BY <1>5, SlaveSets
  <2>4. s \notin Begun
    BY <1>0, <2>2, <2>3 DEF Kept, Marked
  <2> QED
    BY <2>1, <2>4, SlaveSets
<1>6. ASSUME slave[s].able, slave' = [slave EXCEPT ![s] = one],
             NEW x \in Message, x.opt = "add_remove", x.tag = "JOIN", Takes(mail', s, 1, {<<Merger, x>>})
      PROVE  order' \in Late => Upheld'
  <2>1. slave'[s] = one /\ \A u \in Slaves : u # s => slave'[u] = slave[u]
    BY <1>0, <1>6
  <2> DEFINE P == {<<Merger, x>>}
  <2>2. \A u \in Tasks : \A y \in Message : <<u, y>> \in P => u = Merger /\ y = x
    OBVIOUS
  <2>3. \A u \in Tasks : \A y \in Message : <<u, y>> \in P => Plain(y)
    BY <1>6, <2>2 DEF Plain
  <2>4. Fitting(P) /\ \A u \in Tasks : \A y \in Message : <<u, y>> \in P => y.tag # "WORK"
    <3>1. x.tag # "WORK"
      BY <1>6
    <3> QED
      BY <1>6, <2>2, <3>1, TaskFacts DEF Fitting
  <2> HIDE DEF P
  <2> QED
    BY <1>1, <1>3, <1>6, <2>1, <2>3, <2>4, NextOpened DEF P
<1>7. ASSUME slave[s].able, slave' = [slave EXCEPT ![s] = again],
             NEW P, Reports(s, P), Takes(mail', s, 1, P)
      PROVE  order' \in Late => Upheld'
  <2>1. slave'[s] = again /\ \A u \in Slaves : u # s => slave'[u] = slave[u]
    BY <1>0, <1>7
  <2>2. PICK x : Answer(x) /\ P = {<<Master, x>>}
    BY <1>7 DEF Reports, Answer
  <2>3. Fitting(P) /\ \A u \in Tasks : \A y \in Message : <<u, y>> \in P => Plain(y)
        /\ y.tag # "WORK"
    BY <2>2, AnswerFits
  <2> QED
    BY <1>1, <1>2, <1>5, <1>7, <2>1, <2>3, NextOpened
<1>8. ASSUME ~slave[s].able, slave' = [slave EXCEPT ![s] = two],
             NEW P, Entering(s, P), Takes(mail', s, 1, P)
      PROVE  order' \in Late => Upheld'
  <2>1. slave'[s] = two /\ \A u \in Slaves : u # s => slave'[u] = slave[u]
    BY <1>0, <1>8
  <2>2. ~slave[s].ready
    BY <1>0, <1>8 DEF Ready
  <2>3. s \in Calm'
    BY <1>4, <1>8, <2>1, <2>2, CalmIs
  <2>4. Fitting(P)
    BY <1>8, <2>3, EnteringFits
  <2>5. \A u \in Tasks : \A y \in Message : <<u, y>> \in P => Plain(y) /\ y.tag # "WORK"
    BY <1>8, EnteringPlain
  <2> QED
    BY <1>1, <1>4, <1>8, <2>1, <2>2, <2>3, <2>4, <2>5, NextOpened
<1> QED
  BY <1>1, <1>6, <1>7, <1>8

\* The number of a file tells the slave and its place among the files of the slave.
LEMMA CurrentPart ==
    ASSUME ClusterTypeOK, NEW s \in Slaves, Len(slave[s].files) > 0, NEW q
    PROVE  Part(q, CurrentFile(s)) = <<q, s, Len(slave[s].files)>>
<1>1. NProc \in Nat /\ NProc > 0 /\ s \in 0 .. NProc - 1 /\ Len(slave[s].files) \in Nat
  BY TaskFacts, SlaveTyped DEF Slaves
<1>2. \A n \in Int : (n * NProc + s) % NProc = s /\ (n * NProc + s) \div NProc = n
  <2>1. \A N \in Nat : N > 0 => \A n \in Int, t \in 0 .. N - 1 :
           (n * N + t) % N = t /\ (n * N + t) \div N = n
    OBVIOUS
  <2> QED
    BY <1>1, <2>1
<1>3. Len(slave[s].files) - 1 \in Int
  BY <1>1
<1>4. /\ CurrentFile(s) % NProc = s
      /\ CurrentFile(s) \div NProc = Len(slave[s].files) - 1
  BY <1>2, <1>3 DEF CurrentFile, FileOf
<1>5. CurrentFile(s) \div NProc + 1 = Len(slave[s].files)
  BY <1>1, <1>4
<1> QED
  BY <1>4, <1>5 DEF Part

LEMMA FrameStored ==
    ASSUME ClusterTypeOK, NEW s \in Slaves, Len(slave[s].files) > 0, NEW f \in Int,
           slave' = [slave EXCEPT
             ![s].files[Len(slave[s].files)] = Append(@, f), ![s].first = TRUE]
    PROVE  /\ Wrote(Files, Files', s, f)
           /\ \A u \in Slaves : /\ slave'[u].ready = slave[u].ready
                                /\ slave'[u].able = slave[u].able
                                /\ slave'[u].ring = slave[u].ring
           /\ \A u \in Slaves : u \in Begun' <=> (u \in Begun \/ u = s)
           /\ Able' = Able
<1> DEFINE q == slave[s].files
           n == Len(q)
           g == [q EXCEPT ![n] = Append(@, f)]
<1>1. /\ slave \in [Slaves -> SlaveState] /\ q \in Seq(Seq(Int)) /\ n \in Nat /\ n > 0
      /\ \A u \in Slaves : slave[u] \in SlaveState
  BY SlaveTyped DEF ClusterTypeOK
<1>2. n \in 1 .. n /\ q[n] \in Seq(Int)
  BY <1>1
<1>3. /\ Len(g) = n /\ g[n] = Append(q[n], f)
      /\ \A k \in 1 .. n : k # n => g[k] = q[k]
  BY <1>1, <1>2
<1>4. g[n] # <<>>
  <2>1. Append(q[n], f) # <<>>
    BY <1>2, SetOf
  <2> QED
    BY <1>3, <2>1
<1> HIDE DEF g
<1>5. slave' = [slave EXCEPT ![s].files = g, ![s].first = TRUE]
  BY DEF g
<1>6. /\ slave'[s].files = g /\ slave'[s].first = TRUE
      /\ \A u \in Slaves : u # s => slave'[u] = slave[u]
      /\ \A u \in Slaves : /\ slave'[u].ready = slave[u].ready
                           /\ slave'[u].able = slave[u].able
                           /\ slave'[u].ring = slave[u].ring
  BY <1>1, <1>5 DEF SlaveState
<1>7. Files[s] = q /\ Files'[s] = g /\ \A u \in Slaves : u # s => Files'[u] = Files[u]
  <2>1. \A u \in Slaves : Files[u] = slave[u].files /\ Files'[u] = slave'[u].files
    BY SlaveSets
  <2>2. Files[s] = q
    BY <2>1
  <2>3. Files'[s] = g
    BY <1>6, <2>1
  <2>4. ASSUME NEW u \in Slaves, u # s PROVE Files'[u] = Files[u]
    <3>1. Files[u] = slave[u].files /\ Files'[u] = slave'[u].files
      BY <2>1
    <3>2. slave'[u] = slave[u]
      BY <1>6, <2>4
    <3> QED
      BY <3>1, <3>2
  <2> HIDE DEF q
  <2> QED
    BY <2>2, <2>3, <2>4
<1>8. Able' = Able /\ \A u \in Slaves : u \in Begun' <=> (u \in Begun \/ u = s)
  BY <1>6, SlaveSets
<1>9. Wrote(Files, Files', s, f)
  <2>1. \A u \in Slaves : Len(Files'[u]) = Len(Files[u])
    BY <1>3, <1>7
  <2>2. \A u \in Slaves : \A k \in 1 .. Len(Files[u]) :
           u # s \/ k # Len(Files[s]) => Files'[u][k] = Files[u][k]
    <3> SUFFICES ASSUME NEW u \in Slaves, NEW k \in 1 .. Len(Files[u]),
                        u # s \/ k # Len(Files[s])
                 PROVE  Files'[u][k] = Files[u][k]
      OBVIOUS
    <3>1. CASE u # s
      BY <1>7, <3>1
    <3>2. CASE u = s
      BY <1>3, <1>7, <3>2
    <3> QED
      BY <3>1, <3>2
  <2>3. LastFile(Files', s) # <<>>
    BY <1>3, <1>4, <1>7 DEF LastFile
  <2> QED
    BY <1>2, <1>3, <1>4, <1>7, <2>1, <2>2, <2>3 DEF Wrote
<1> QED
  BY <1>6, <1>8, <1>9

\* The frame that comes first is that of the job, and what is known of the files
\* stays true when it is stored.
LEMMA KeptWritten ==
    ASSUME LateState, NEW s \in Slaves, s \notin Reopening, Job[s] # NoTask,
           NEW f \in Int, Wrote(Files, Files', s, f),
           UNCHANGED <<chunk, given>>, Job' = Job, Able' = Able,
           \A u \in Slaves : u \in Reopening' <=> u \in Reopening,
           \A u \in Slaves : u \in Begun' <=> (u \in Begun \/ u = s),
           <<s, Job[s], f>> \in Coming,
           \A d \in Coming' : d \in Coming /\ (d[2] = Job[s] => f < d[3]),
           NEW p0, p0 = <<Job[s], s, Len(Files[s])>>,
           Joined(Parts, Parts', p0)
    PROVE  Kept'
<1> DEFINE x == <<s, Job[s], f>>
           J == Job
           F == Files
           G == Files'
           P == Parts
           Q == Parts'
           C == Coming
           D == Coming'
           R == Reopening
           n == Len(Files[s])
<1>1. /\ Filed(J, R, P, F, chunk) /\ Marked(J, R, F, Able, Begun)
      /\ Framed(P, C, F, chunk, given)
      /\ Jobs /\ chunk \in Nat /\ given \in Nat /\ current \in Slaves
      /\ used \in [Slaves -> Int] /\ F \in [Slaves -> Seq(Seq(Int))]
  BY FilesTyped DEF LateState, Kept, ClusterTypeOK
<1>2. J[s] \in 0 .. chunk /\ \A t \in Slaves : t # s => J[t] # J[s]
  <2>1. J[s] \in -1 .. chunk
    <3>1. used[s] \in -1 .. chunk /\ chunk \in -1 .. chunk
      BY <1>1 DEF Jobs
    <3>2. J[s] = chunk \/ J[s] = used[s]
      BY JobIs
    <3> QED
      BY <3>1, <3>2
  <2>2. \A t \in Slaves : t # s => J[t] # J[s]
    BY <1>1 DEF Jobs
  <2> QED
    BY <1>1, <2>1, <2>2 DEF NoTask
<1>3. /\ x[1] = s /\ x[2] = J[s] /\ x[3] = f /\ x \in C
      /\ p0[1] = J[s] /\ p0[2] = s /\ p0[3] = n
  OBVIOUS
<1>4. Wrote(F, G, s, x[3]) /\ n \in 1 .. n /\ n = Len(F[s])
  <2>1. Wrote(F, G, s, f)
    OBVIOUS
  <2>2. n \in 1 .. n
    BY DEF Wrote
  <2> QED
    BY <1>3, <2>1, <2>2
<1>5. /\ s \in Slaves /\ s \notin R /\ J[s] # NoTask /\ Job' = J /\ Able' = Able
      /\ \A u \in Slaves : u \in Reopening' <=> u \in R
      /\ \A u \in Slaves : u \in Begun' <=> (u \in Begun \/ u = s)
      /\ \A d \in D : d \in C /\ (d[2] = x[2] => x[3] < d[3])
      /\ Joined(P, Q, p0)
      /\ R = Reopening' /\ chunk' = chunk /\ given' = given
  <2>1. R = Reopening'
    BY ReopeningAre
  <2> QED
    BY <2>1
<1>6. /\ \A p \in P : p[1] \in Int /\ p[2] \in Slaves /\ p[3] \in 1 .. Len(F[p[2]])
      /\ \A p \in P : p[2] = s /\ p[3] = n => p[1] = J[s]
      /\ F[s][n] # <<>> => \E p \in P : p[2] = s /\ p[3] = n
  <2>1. \A p \in P : p[1] \in Int /\ p[2] \in Slaves /\ p[3] \in 1 .. Len(F[p[2]])
    BY <1>1 DEF Filed
  <2>2. \A p \in P : p[2] = s /\ p[3] = n => p[1] = J[s]
    BY <1>1, <1>5 DEF Filed
  <2>3. F[s][n] # <<>> => \E p \in P : p[2] = s /\ p[3] = n
    <3>1. n \in 1 .. Len(F[s])
      BY <1>4
    <3>2. \A u \in Slaves : \A k \in 1 .. Len(F[u]) : F[u][k] # <<>> =>
             \E p \in P : p[2] = u /\ p[3] = k
      BY <1>1 DEF Filed
    <3> HIDE DEF n, F, P
    <3> QED
      BY <3>1, <3>2
  <2> QED
    BY <2>1, <2>2, <2>3
<1> HIDE DEF x, J, F, G, P, Q, C, D, R, n
<1>7. Filed(J, R, Q, G, chunk)
  BY <1>1, <1>2, <1>3, <1>4, <1>5, FiledWritten
<1>8. Marked(J, R, G, Able, Begun')
  <2> DEFINE rdy == Able
             fst == Begun
             beg == Begun'
             g == x[3]
  <2>1. /\ rdy \in SUBSET Slaves /\ Marked(J, R, F, rdy, fst) /\ s \in Slaves
        /\ s \notin R /\ J[s] # NoTask /\ Wrote(F, G, s, g)
        /\ \A u \in Slaves : u \in beg <=> (u \in fst \/ u = s)
    BY <1>1, <1>4, <1>5, SlaveSets
  <2> HIDE DEF rdy, fst, beg, g
  <2>2. Marked(J, R, G, rdy, beg)
    BY <2>1, MarkedWritten
  <2> QED
    BY <2>2 DEF rdy, beg
<1>9. Framed(Q, D, G, chunk, given)
  <2>1. Known(P, F, s, x[2])
    BY <1>3, <1>4, <1>6 DEF Known
  <2>2. Left(C, D, x)
    BY <1>5 DEF Left
  <2> QED
    BY <1>1, <1>3, <1>4, <1>5, <2>1, <2>2, FrameWritten
<1>10. /\ Filed(Job', Reopening', Parts', Files', chunk')
       /\ Marked(Job', Reopening', Files', Able', Begun')
       /\ Framed(Parts', Coming', Files', chunk', given')
  BY <1>5, <1>7, <1>8, <1>9 DEF Q, D, G
<1> QED
  BY <1>10, KeptNext

LEMMA SortedNext ==
    ASSUME \A i, j \in 1 .. Len(elab') : i < j => elab'[i].seq < elab'[j].seq,
           \A e \in ToSet(elab'), m \in ToSet(mail'[Merger]) :
              m.opt = "add_elab" => e.seq # m.seq
    PROVE  Sorted'
BY DEF Sorted, Merger

\* A slave whose file is empty still has to announce it.
LEMMA NotAnnounced ==
    ASSUME LateState, NEW s \in Slaves, slave[s].ready, ~slave[s].first
    PROVE  /\ \A e \in ToSet(elab) : e.seq # Job[s]
           /\ \A m \in ToSet(mail[Merger]) :
                 m.opt # "run" /\ (m.opt = "add_elab" => m.seq # Job[s])
<1>0. Mailed /\ Rested /\ Kept
  BY DEF LateState
<1>1. Filed(Job, Reopening, Parts, Files, chunk) /\ Marked(Job, Reopening, Files, Able, Begun)
  BY <1>0 DEF Kept
<1>2. ASSUME NEW p \in Parts PROVE p[1] # Job[s]
  <2> SUFFICES ASSUME p[1] = Job[s] PROVE FALSE
    OBVIOUS
  <2>1. p[2] = s /\ p[3] = Len(Files[s]) /\ Content(Files, p) # <<>>
    BY <1>1 DEF Filed
  <2>2. LastFile(Files, s) # <<>>
    BY <2>1 DEF Content, LastFile
  <2>3. s \in Able /\ s \notin Begun
    BY SlaveSets
  <2> QED
    BY <1>1, <2>2, <2>3 DEF Marked
<1>3. \A q, f : Part(q, f)[1] = q
  BY DEF Part
<1>4. ASSUME NEW e \in ToSet(elab) PROVE e.seq # Job[s]
  <2>1. Part(e.seq, e.file) \in Parts
    BY PartsAre
  <2> QED
    BY <1>2, <1>3, <2>1
<1>5. ASSUME NEW m \in ToSet(mail[Merger]), m.opt = "add_elab" PROVE m.seq # Job[s]
  <2>1. Part(m.seq, m.body) \in Parts
    BY <1>5, PartsAre
  <2> QED
    BY <1>2, <1>3, <2>1
<1>6. ASSUME NEW m \in ToSet(mail[Merger]) PROVE m.opt # "run"
  <2>1. s \notin Calm
    BY CalmIs
  <2> QED
    BY <1>0, <2>1 DEF Mailed, Rested
<1> QED
  BY <1>4, <1>5, <1>6

\* The part the first frame of a file makes known.
LEMMA PartAnnounced ==
    ASSUME mail \in Boxes, mail' \in Boxes, elab' = elab, NEW t, NEW m, NEW x, NEW P,
           P = {<<Merger, x>>}, Moved(mail, mail', t, m, P), t # Merger,
           x \in Message, x.opt = "add_elab"
    PROVE  Joined(Parts, Parts', Part(x.seq, x.body))
<1> DEFINE p0 == Part(x.seq, x.body)
<1>0. Merger \in Tasks /\ ToSet(mail'[Merger]) \subseteq Message
  BY TaskFacts, MailSet DEF Boxes
<1>1. \A y \in ToSet(mail'[Merger]) : y \in ToSet(mail[Merger]) \/ y = x
  BY <1>0 DEF Moved
<1>2. \A y \in ToSet(mail[Merger]) : y \in ToSet(mail'[Merger])
  BY <1>0 DEF Moved
<1>3. x \in ToSet(mail'[Merger])
  BY <1>0 DEF Moved
<1>4. p0 \in Parts'
  BY <1>3, PartsAre
<1>5. ASSUME NEW p \in Parts' PROVE p \in Parts \/ p = p0
  BY <1>1, <1>5, PartsAre
<1>6. ASSUME NEW p \in Parts PROVE p \in Parts'
  BY <1>2, <1>6, PartsAre
<1> HIDE DEF p0
<1>7. Joined(Parts, Parts', p0)
  BY <1>4, <1>5, <1>6 DEF Joined
<1> QED
  BY <1>7 DEF p0

\* No order of the master is new.
LEMMA CalmWritten ==
    ASSUME LateState, UNCHANGED mastervars,
           \A u \in Slaves : /\ slave'[u].ready = slave[u].ready
                             /\ slave'[u].able = slave[u].able,
           \A u \in Slaves : \A x \in ToSet(mail'[u]) : x.tag = "WORK" => x \in ToSet(mail[u])
    PROVE  Calm \subseteq Calm'
<1>1. order \in Late /\ order' = order
  BY DEF LateState, mastervars
<1>2. \A s \in Slaves : slave'[s].able => slave[s].able
  OBVIOUS
<1>3. \A s \in Slaves : slave'[s].ready => slave[s].ready \/ s \notin Calm
  OBVIOUS
<1> QED
  BY <1>1, <1>2, <1>3, CalmKept

LEMMA EncodeLate ==
    ASSUME LateState, NEW s \in Slaves, Encode(s)
    PROVE  order' \in Late => Upheld'
<1>0. /\ mail \in Boxes /\ mail' \in Boxes /\ Overtaking = FALSE /\ s \in Tasks
      /\ ClusterTypeOK /\ Kept /\ Sorted /\ Ready
  BY TaskFacts DEF LateState, ClusterTypeOK
<1> DEFINE m == mail[s][1]
<1>1. /\ Commanded(s, "WORK") /\ m.opt = "encode"
      /\ \/ /\ slave[s].ready
            /\ slave' = [slave EXCEPT
                 ![s].files[Len(slave[s].files)] = Append(@, m.body), ![s].first = TRUE]
            /\ IF slave[s].first THEN Takes(mail', s, 1, {})
               ELSE \E x : /\ Announcement(x, m.seq, CurrentFile(s))
                           /\ Takes(mail', s, 1, {<<Merger, x>>})
         \/ slave' = slave /\ \E P : Reports(s, P) /\ Takes(mail', s, 1, P)
      /\ UNCHANGED <<mastervars, mergervars>>
  BY <1>0, EncodeEffect
<1>2. elab' = elab /\ UNCHANGED <<chunk, given>> /\ UNCHANGED mastervars
  BY <1>1 DEF mastervars, mergervars
<1> HIDE DEF m
<1>3. ASSUME slave' = slave, NEW P, Reports(s, P), Takes(mail', s, 1, P)
      PROVE  order' \in Late => Upheld'
  <2>1. PICK x : Answer(x) /\ P = {<<Master, x>>}
    BY <1>3 DEF Reports, Answer
  <2>2. Fitting(P) /\ \A u \in Tasks : \A y \in Message : <<u, y>> \in P => Plain(y)
        /\ y.tag # "WORK"
    BY <2>1, AnswerFits
  <2>3. Steady /\ \A u \in Slaves : slave'[u].able => slave[u].able
    BY <1>3 DEF Steady
  <2>4. m.opt \notin {"restart2", "add_elab"}
    BY <1>1
  <2>5. Gentle(s, mail[s][1], P) /\ order' \in Late /\ order' = order
    BY <1>0, <1>2, <1>3, <2>2, <2>3, <2>4, GentleTakes DEF m
  <2> QED
    BY <1>3, <2>2, <2>5, GentleStep
<1>4. ASSUME slave[s].ready, NEW P, Takes(mail', s, 1, P),
             slave' = [slave EXCEPT
               ![s].files[Len(slave[s].files)] = Append(@, m.body), ![s].first = TRUE],
             \/ slave[s].first /\ P = {}
             \/ /\ ~slave[s].first
                /\ \E x : Announcement(x, m.seq, CurrentFile(s)) /\ P = {<<Merger, x>>}
      PROVE  order' \in Late => Upheld'
  <2>1. /\ m \in ToSet(mail[s]) /\ m \in Message /\ Job[s] # NoTask /\ m.seq = Job[s]
    BY <1>1, <1>4, OrderFront DEF m
  <2>2. m.body \in Int /\ Len(slave[s].files) > 0
    BY <1>0, <1>4, <2>1 DEF Message, Ready
  <2>3. /\ Wrote(Files, Files', s, m.body)
        /\ \A u \in Slaves : /\ slave'[u].ready = slave[u].ready
                             /\ slave'[u].able = slave[u].able
                             /\ slave'[u].ring = slave[u].ring
        /\ \A u \in Slaves : u \in Begun' <=> (u \in Begun \/ u = s)
        /\ Able' = Able
    BY <1>0, <1>4, <2>2, FrameStored
  <2>4. \A u \in Tasks : \A x \in Message : <<u, x>> \in P =>
           /\ u = Merger /\ x.opt = "add_elab" /\ x.tag = "JOIN" /\ x.seq = Job[s]
           /\ ~slave[s].first
    BY <1>4, <2>1 DEF Announcement
  <2>5. \A u \in Tasks : \A x \in Message : <<u, x>> \in P =>
           x.opt \notin {"encode", "restart2"} /\ x.tag # "WORK"
    BY <2>4
  <2>6. /\ \A u \in Slaves : u \in Reopening' <=> u \in Reopening
        /\ s \notin Reopening
        /\ <<s, Job[s], m.body>> \in Coming
        /\ \A d \in Coming' : d \in Coming /\ (d[2] = Job[s] => m.body < d[3])
        /\ \A u \in Slaves : \A x \in ToSet(mail'[u]) : x.tag = "WORK" => x \in ToSet(mail[u])
    BY <1>1, <1>4, <2>5, FrontTaken DEF m
  <2>7. Calm \subseteq Calm'
    BY <1>2, <2>3, <2>6, CalmWritten
  <2>8. \A u \in Tasks : \A x \in Message : <<u, x>> \in P =>
           \A y \in ToSet(mail[u]) : Before(y, x)
    <3> SUFFICES ASSUME NEW u \in Tasks, NEW x \in Message, <<u, x>> \in P,
                        NEW y \in ToSet(mail[u])
                 PROVE  Before(y, x)
      OBVIOUS
    <3>1. u = Merger /\ x.opt = "add_elab" /\ x.seq = Job[s] /\ ~slave[s].first
      BY <2>4
    <3>2. y.opt # "run" /\ (y.opt = "add_elab" => y.seq # Job[s])
      BY <1>4, <3>1, NotAnnounced
    <3> QED
      BY <3>1, <3>2 DEF Before
  <2>9. Fitting(P)
    BY <2>4, TaskFacts DEF Fitting
  <2>10. InLine' /\ Mailed' /\ Rested' /\ Jobs' /\ Job' = Job
    BY <1>0, <1>2, <1>4, <2>3, <2>7, <2>8, <2>9, SlaveKeeps
  <2> DEFINE p0 == <<Job[s], s, Len(Files[s])>>
  <2>11. Joined(Parts, Parts', p0) /\ Sorted'
    <3>1. Moved(mail, mail', s, mail[s][1], P) /\ s # Merger /\ Merger \in Tasks
      BY <1>4, TaskFacts DEF Takes
    <3>2. CASE slave[s].first /\ P = {}
      <4>1. Parts' = Parts /\ Sorted'
        <5>1. \A x \in Message : x.opt = "add_elab" =>
                 (x \in ToSet(mail'[Merger]) <=> x \in ToSet(mail[Merger]))
          BY <3>1, <3>2 DEF Moved
        <5> QED
          BY <1>0, <1>2, <5>1, SameParts
      <4>2. s \in Able /\ s \in Begun
        BY <1>4, <3>2, SlaveSets
      <4>3. /\ Filed(Job, Reopening, Parts, Files, chunk)
            /\ Marked(Job, Reopening, Files, Able, Begun)
        BY <1>0 DEF Kept
      <4>4. Len(Files[s]) \in 1 .. Len(Files[s]) /\ Files[s][Len(Files[s])] # <<>>
        BY <2>3, <4>2, <4>3 DEF Marked, Wrote, LastFile
      <4>5. PICK p \in Parts : p[2] = s /\ p[3] = Len(Files[s])
        BY <4>3, <4>4 DEF Filed
      <4> QED
        BY <4>1, <4>5 DEF Joined
    <3>3. ASSUME ~slave[s].first, NEW x, Announcement(x, m.seq, CurrentFile(s)),
                 P = {<<Merger, x>>}
          PROVE  Joined(Parts, Parts', p0) /\ Sorted'
      <4>1. x \in Message /\ x.opt = "add_elab" /\ x.seq = Job[s] /\ x.body = CurrentFile(s)
        BY <2>1, <3>3 DEF Announcement
      <4>2. Joined(Parts, Parts', Part(x.seq, x.body))
        BY <1>0, <1>2, <3>1, <3>3, <4>1, PartAnnounced
      <4>3. Part(x.seq, x.body) = p0
        <5>1. Files[s] = slave[s].files
          BY SlaveSets
        <5> QED
          BY <1>0, <2>2, <4>1, <5>1, CurrentPart
      <4>4. Sorted'
        <5>1. \A i, j \in 1 .. Len(elab') : i < j => elab'[i].seq < elab'[j].seq
          BY <1>0, <1>2 DEF Sorted
        <5>2. ASSUME NEW e \in ToSet(elab'), NEW y \in ToSet(mail'[Merger]), y.opt = "add_elab"
              PROVE  e.seq # y.seq
          <6>1. e \in ToSet(elab) /\ e.seq # Job[s]
            BY <1>2, <1>4, <3>3, NotAnnounced
          <6>2. y \in ToSet(mail[Merger]) \/ <<Merger, y>> \in P
            BY <3>1 DEF Moved
          <6>3. CASE y \in ToSet(mail[Merger])
            BY <1>0, <5>2, <6>1, <6>3 DEF Sorted
          <6>4. CASE <<Merger, y>> \in P
            BY <3>3, <4>1, <6>1, <6>4
          <6> QED
            BY <6>2, <6>3, <6>4
        <5> QED
          BY <5>1, <5>2, SortedNext
      <4> QED
        BY <4>2, <4>3, <4>4
    <3> HIDE DEF p0
    <3> QED
      BY <1>4, <3>2, <3>3
  <2>12. Kept'
    <3> HIDE DEF p0
    <3>1. p0 = <<Job[s], s, Len(Files[s])>>
      BY DEF p0
    <3> QED
      BY <1>2, <2>1, <2>2, <2>3, <2>6, <2>10, <2>11, <3>1, KeptWritten
  <2> QED
    BY <2>10, <2>11, <2>12 DEF Upheld
<1>5. CASE slave' = slave /\ \E P : Reports(s, P) /\ Takes(mail', s, 1, P)
  BY <1>3, <1>5
<1>6. CASE /\ slave[s].ready
           /\ slave' = [slave EXCEPT
                ![s].files[Len(slave[s].files)] = Append(@, m.body), ![s].first = TRUE]
           /\ IF slave[s].first THEN Takes(mail', s, 1, {})
              ELSE \E x : /\ Announcement(x, m.seq, CurrentFile(s))
                          /\ Takes(mail', s, 1, {<<Merger, x>>})
  <2>1. PICK P : /\ Takes(mail', s, 1, P)
                 /\ \/ slave[s].first /\ P = {}
                    \/ /\ ~slave[s].first
                       /\ \E x : Announcement(x, m.seq, CurrentFile(s)) /\ P = {<<Merger, x>>}
    <3>1. CASE slave[s].first
      BY <1>6, <3>1
    <3>2. CASE ~slave[s].first
      <4>1. PICK x : /\ Announcement(x, m.seq, CurrentFile(s))
                     /\ Takes(mail', s, 1, {<<Merger, x>>})
        BY <1>6, <3>2
      <4> DEFINE P == {<<Merger, x>>}
      <4>2. Takes(mail', s, 1, P) /\ P = {<<Merger, x>>}
        BY <4>1
      <4> HIDE DEF P
      <4> QED
        BY <3>2, <4>1, <4>2
    <3> QED
      BY <3>1, <3>2
  <2> QED
    BY <1>4, <1>6, <2>1
<1> QED
  BY <1>1, <1>5, <1>6 DEF m

-----------------------------------------------------------------------------
(* The merger.                                                              *)

\* A file of a new number finds its place in the list.
LEMMA InsertedSorted ==
    ASSUME NEW T, \A x \in T : x.seq \in Int, NEW list \in Seq(T), NEW new \in T,
           \A i, j \in 1 .. Len(list) : i < j => list[i].seq < list[j].seq,
           \A e \in ToSet(list) : e.seq # new.seq,
           NEW r, r = Inserted(list, new)
    PROVE  /\ \A i, j \in 1 .. Len(r) : i < j => r[i].seq < r[j].seq
           /\ \A e \in ToSet(r) : e \in ToSet(list) \/ e = new
           /\ \A e \in ToSet(list) : e \in ToSet(r)
           /\ new \in ToSet(r)
<1> DEFINE n == Len(list)
           later == {k \in DOMAIN list : list[k].seq > new.seq}
           p == IF later = {} THEN n + 1 ELSE Min(later)
<1>1. n \in Nat /\ DOMAIN list = 1 .. n /\ \A i \in 1 .. n : list[i] \in T
  <2>1. n \in Nat /\ DOMAIN list = 1 .. n
    OBVIOUS
  <2>2. \A i \in 1 .. n : list[i] \in T
    BY ElementOfSeq
  <2> QED
    BY <2>1, <2>2
<1>2. \A i \in 1 .. n : list[i].seq \in Int /\ new.seq \in Int /\ list[i].seq # new.seq
  BY <1>1 DEF ToSet
<1>3. r = InsertAt(list, p, new)
  BY DEF Inserted
<1>4. later \in SUBSET Nat /\ \A k \in 1 .. n : k \in later <=> list[k].seq > new.seq
  BY <1>1
<1>5. later \subseteq 1 .. n
  BY <1>1
<1> HIDE DEF later
<1>6. /\ p \in 1 .. n + 1
      /\ \A i \in 1 .. p - 1 : i \in 1 .. n /\ i \notin later
      /\ p \in 1 .. n => p \in later
  <2>1. CASE later = {}
    <3>1. p = n + 1
      BY <2>1
    <3> HIDE DEF p
    <3> QED
      BY <1>1, <2>1, <3>1
  <2>2. CASE later # {}
    <3>1. p = Min(later)
      BY <2>2
    <3>2. p \in later /\ \A y \in later : p <= y
      BY <1>4, <2>2, <3>1, MinLeast
    <3> HIDE DEF p
    <3>3. p \in 1 .. n
      BY <1>5, <3>2
    <3>4. \A i \in 1 .. p - 1 : i \in 1 .. n /\ ~(p <= i)
      BY <1>1, <3>3
    <3> QED
      BY <1>1, <3>2, <3>3, <3>4
  <2> QED
    BY <2>1, <2>2
<1> HIDE DEF p
<1>7. /\ r \in Seq(T) /\ Len(r) = n + 1 /\ r[p] = new
      /\ \A i \in 1 .. p - 1 : r[i] = list[i]
      /\ \A i \in p + 1 .. n + 1 : r[i] = list[i - 1]
  <2>1. PutAt(T, n, list, p, new, r)
    BY <1>3, <1>6, InsertedAt
  <2> QED
    BY <2>1 DEF PutAt
<1>8. \A i \in 1 .. p - 1 : i \in 1 .. n /\ list[i].seq < new.seq
  <2> SUFFICES ASSUME NEW i \in 1 .. p - 1 PROVE i \in 1 .. n /\ list[i].seq < new.seq
    OBVIOUS
  <2>1. i \in 1 .. n /\ ~(list[i].seq > new.seq)
    BY <1>4, <1>6
  <2>2. list[i].seq \in Int /\ new.seq \in Int /\ list[i].seq # new.seq
    BY <1>2, <2>1
  <2> QED
    BY <2>1, <2>2
<1>9. \A i \in p .. n : i \in 1 .. n /\ new.seq < list[i].seq
  <2> SUFFICES ASSUME NEW i \in p .. n PROVE i \in 1 .. n /\ new.seq < list[i].seq
    OBVIOUS
  <2>1. p \in 1 .. n /\ i \in 1 .. n
    BY <1>1, <1>6
  <2>2. new.seq < list[p].seq /\ list[p].seq \in Int /\ list[i].seq \in Int /\ new.seq \in Int
    BY <1>2, <1>4, <1>6, <2>1
  <2>3. i = p \/ list[p].seq < list[i].seq
    BY <2>1
  <2> QED
    BY <2>1, <2>2, <2>3
<1>10. ASSUME NEW i \in 1 .. n + 1
       PROVE  \/ i \in 1 .. p - 1 /\ r[i] = list[i]
              \/ i = p /\ r[i] = new
              \/ i - 1 \in p .. n /\ r[i] = list[i - 1]
  <2>1. i \in 1 .. p - 1 \/ i = p \/ (i \in p + 1 .. n + 1 /\ i - 1 \in p .. n)
    BY <1>1, <1>6
  <2> QED
    BY <1>7, <2>1
<1>11. ASSUME NEW i \in 1 .. n + 1, NEW j \in 1 .. n + 1, i < j PROVE r[i].seq < r[j].seq
  <2>1. CASE i \in 1 .. p - 1 /\ r[i] = list[i]
    <3>1. list[i].seq < new.seq /\ i \in 1 .. n /\ list[i].seq \in Int /\ new.seq \in Int
      BY <1>2, <1>8, <2>1
    <3>2. CASE j \in 1 .. p - 1 /\ r[j] = list[j]
      BY <1>8, <1>11, <2>1, <3>1, <3>2
    <3>3. CASE j = p /\ r[j] = new
      BY <2>1, <3>1, <3>3
    <3>4. CASE j - 1 \in p .. n /\ r[j] = list[j - 1]
      <4>1. new.seq < list[j - 1].seq /\ list[j - 1].seq \in Int
        BY <1>2, <1>9, <3>4
      <4> QED
        BY <2>1, <3>1, <3>4, <4>1
    <3> QED
      BY <1>10, <3>2, <3>3, <3>4
  <2>2. CASE i = p /\ r[i] = new
    <3>1. j - 1 \in p .. n /\ r[j] = list[j - 1]
      <4>1. ~(j \in 1 .. p - 1) /\ j # p
        BY <1>6, <1>11, <2>2
      <4> QED
        BY <1>10, <4>1
    <3> QED
      BY <1>9, <2>2, <3>1
  <2>3. CASE i - 1 \in p .. n /\ r[i] = list[i - 1]
    <3>1. j - 1 \in p .. n /\ r[j] = list[j - 1]
      <4>1. ~(j \in 1 .. p - 1) /\ j # p
        BY <1>6, <1>11, <2>3
      <4> QED
        BY <1>10, <4>1
    <3>2. i - 1 \in 1 .. n /\ j - 1 \in 1 .. n /\ i - 1 < j - 1
      BY <1>9, <1>11, <2>3, <3>1
    <3> QED
      BY <2>3, <3>1, <3>2
  <2> QED
    BY <1>10, <2>1, <2>2, <2>3
<1>12. DOMAIN r = 1 .. n + 1 /\ Len(r) = n + 1
  BY <1>7
<1>13. ASSUME NEW e \in ToSet(r) PROVE e \in ToSet(list) \/ e = new
  <2>1. PICK i \in 1 .. n + 1 : e = r[i]
    BY <1>12 DEF ToSet
  <2>2. r[i] = new \/ \E k \in 1 .. n : r[i] = list[k]
    BY <1>8, <1>9, <1>10
  <2> QED
    BY <1>1, <2>1, <2>2 DEF ToSet
<1>14. ASSUME NEW e \in ToSet(list) PROVE e \in ToSet(r)
  <2>1. PICK k \in 1 .. n : e = list[k]
    BY <1>1 DEF ToSet
  <2>2. CASE k \in 1 .. p - 1
    <3>1. r[k] = e /\ k \in 1 .. n + 1
      BY <1>1, <1>7, <2>1, <2>2
    <3> QED
      BY <1>12, <3>1 DEF ToSet
  <2>3. CASE k \notin 1 .. p - 1
    <3>1. k + 1 \in p + 1 .. n + 1 /\ k + 1 \in 1 .. n + 1 /\ (k + 1) - 1 = k
      BY <1>1, <1>6, <2>3
    <3>2. r[k + 1] = e
      BY <1>7, <2>1, <3>1
    <3> QED
      BY <1>12, <3>1, <3>2 DEF ToSet
  <2> QED
    BY <2>2, <2>3
<1>15. new \in ToSet(r)
  BY <1>1, <1>6, <1>7, <1>12 DEF ToSet
<1> QED
  BY <1>11, <1>12, <1>13, <1>14, <1>15

LEMMA HeardLate ==
    ASSUME LateState, NameDestination \/ AddRemove
    PROVE  order' \in Late => Upheld'
<1>0. mail \in Boxes /\ Overtaking = FALSE /\ Merger \in Tasks
  BY TaskFacts DEF LateState, ClusterTypeOK
<1>1. /\ mail[Merger][1].opt \in {"join_init", "add_remove"} /\ Takes(mail', Merger, 1, {})
      /\ UNCHANGED <<mastervars, slave, elab>>
  BY <1>0, HeardEffect
<1>2. Steady /\ elab' = elab /\ mail[Merger][1].opt \notin {"restart2", "add_elab"}
  BY <1>1 DEF Steady
<1>3. Gentle(Merger, mail[Merger][1], {}) /\ order' \in Late /\ order' = order
  BY <1>0, <1>1, <1>2, GentleTakes
<1>4. Fitting({})
  BY DEF Fitting
<1> QED
  BY <1>1, <1>3, <1>4, GentleStep

LEMMA MergeLate ==
    ASSUME LateState, Merge
    PROVE  order' \in Late => Upheld'
<1>0. mail \in Boxes /\ Overtaking = FALSE /\ Merger \in Tasks
  BY TaskFacts DEF LateState, ClusterTypeOK
<1>1. mail[Merger][1].opt = "run" /\ UNCHANGED <<mastervars, slave, elab>>
  BY <1>0, MergeEffect
<1>2. PICK P : /\ Takes(mail', Merger, 1, P)
               /\ P = {} \/ \E x \in Message : x.tag = "REPLY" /\ x.opt = "" /\ P = {<<Master, x>>}
  BY <1>0, MergeEffect
<1>3. Steady /\ elab' = elab /\ mail[Merger][1].opt \notin {"restart2", "add_elab"}
  BY <1>1 DEF Steady
<1>4. /\ Fitting(P)
      /\ \A u \in Tasks : \A y \in Message : <<u, y>> \in P => Plain(y) /\ y.tag # "WORK"
  <2>1. CASE P = {}
    BY <2>1 DEF Fitting
  <2>2. ASSUME NEW x \in Message, x.tag = "REPLY", x.opt = "", P = {<<Master, x>>}
        PROVE  /\ Fitting(P)
               /\ \A u \in Tasks : \A y \in Message : <<u, y>> \in P => Plain(y) /\ y.tag # "WORK"
    <3>1. Answer(x)
      BY <2>2 DEF Answer
    <3> QED
      BY <2>2, <3>1, AnswerFits
  <2> QED
    BY <1>2, <2>1, <2>2
<1>5. Gentle(Merger, mail[Merger][1], P) /\ order' \in Late /\ order' = order
  BY <1>0, <1>1, <1>2, <1>3, <1>4, GentleTakes
<1> QED
  BY <1>1, <1>4, <1>5, GentleStep

LEMMA AddElabLate ==
    ASSUME LateState, AddElab
    PROVE  order' \in Late => Upheld'
<1> DEFINE T == [seq : Int, file : Int]
           m == mail[Merger][1]
           new == [seq |-> m.seq, file |-> m.body]
<1>0. /\ mail \in Boxes /\ mail' \in Boxes /\ Overtaking = FALSE /\ Merger \in Tasks
      /\ order \in Late /\ InLine /\ Sorted /\ Kept /\ elab \in Seq(T) /\ ClusterTypeOK
  BY TaskFacts DEF LateState, ClusterTypeOK
<1>1. /\ m.opt = "add_elab" /\ elab' = Inserted(elab, new) /\ Takes(mail', Merger, 1, {})
      /\ UNCHANGED <<mastervars, slave>>
  BY <1>0, AddElabEffect
<1>2. /\ m \in Message /\ m \in ToSet(mail[Merger])
      /\ Moved(mail, mail', Merger, m, {}) /\ Lined(mail[Merger])
      /\ Behind(mail', Merger, m, {})
  <2>1. Lined(mail[Merger])
    BY <1>0 DEF InLine
  <2> QED
    BY <1>1, <2>1 DEF Takes
<1>3. new \in T /\ new.seq = m.seq /\ new.file = m.body
  <2>1. m.seq \in Int /\ m.body \in Int
    BY <1>2 DEF Message
  <2> QED
    BY <2>1
<1> HIDE DEF m, new
<1>4. \A e \in ToSet(elab) : e.seq # new.seq
  BY <1>0, <1>1, <1>2, <1>3 DEF Sorted
<1>5. /\ \A i, j \in 1 .. Len(elab') : i < j => elab'[i].seq < elab'[j].seq
      /\ \A e \in ToSet(elab') : e \in ToSet(elab) \/ e = new
      /\ \A e \in ToSet(elab) : e \in ToSet(elab')
      /\ new \in ToSet(elab')
  <2>1. \A i, j \in 1 .. Len(elab) : i < j => elab[i].seq < elab[j].seq
    BY <1>0 DEF Sorted
  <2> DEFINE S == T
  <2>2. elab \in Seq(S) /\ new \in S /\ \A x \in S : x.seq \in Int
    BY <1>0, <1>3
  <2> HIDE DEF S
  <2> QED
    BY <1>1, <1>4, <2>1, <2>2, InsertedSorted
<1>6. \A y \in ToSet(mail'[Merger]) : y \in ToSet(mail[Merger]) /\ Before(m, y)
  BY <1>0, <1>2 DEF Moved, Behind
<1>7. \A y \in ToSet(mail[Merger]) : y = m \/ y \in ToSet(mail'[Merger])
  BY <1>0, <1>2 DEF Moved
<1>8. Sorted'
  <2>1. ASSUME NEW e \in ToSet(elab'), NEW y \in ToSet(mail'[Merger]), y.opt = "add_elab"
        PROVE  e.seq # y.seq
    <3>1. CASE e \in ToSet(elab)
      BY <1>0, <1>6, <2>1, <3>1 DEF Sorted
    <3>2. CASE e = new
      BY <1>1, <1>3, <1>6, <2>1, <3>2 DEF Before
    <3> QED
      BY <1>5, <3>1, <3>2
  <2> QED
    BY <1>5, <2>1, SortedNext
<1>9. Parts' = Parts
  <2>1. ASSUME NEW p \in Parts' PROVE p \in Parts
    <3>1. CASE \E e \in ToSet(elab') : p = Part(e.seq, e.file)
      <4>1. PICK e \in ToSet(elab') : p = Part(e.seq, e.file)
        BY <3>1
      <4>2. CASE e \in ToSet(elab)
        BY <4>1, <4>2, PartsAre
      <4>3. CASE e = new
        <5>1. p = Part(m.seq, m.body)
          BY <1>3, <4>1, <4>3
        <5> QED
          BY <1>1, <1>2, <5>1, PartsAre
      <4> QED
        BY <1>5, <4>2, <4>3
    <3>2. CASE \E y \in ToSet(mail'[Merger]) : y.opt = "add_elab" /\ p = Part(y.seq, y.body)
      BY <1>6, <3>2, PartsAre
    <3> QED
      BY <3>1, <3>2, PartsAre
  <2>2. ASSUME NEW p \in Parts PROVE p \in Parts'
    <3>1. CASE \E e \in ToSet(elab) : p = Part(e.seq, e.file)
      BY <1>5, <3>1, PartsAre
    <3>2. CASE \E y \in ToSet(mail[Merger]) : y.opt = "add_elab" /\ p = Part(y.seq, y.body)
      <4>1. PICK y \in ToSet(mail[Merger]) : y.opt = "add_elab" /\ p = Part(y.seq, y.body)
        BY <3>2
      <4>2. CASE y = m
        <5>1. p = Part(new.seq, new.file)
          BY <1>3, <4>1, <4>2
        <5> QED
          BY <1>5, <5>1, PartsAre
      <4>3. CASE y \in ToSet(mail'[Merger])
        BY <4>1, <4>3, PartsAre
      <4> QED
        BY <1>7, <4>2, <4>3
    <3> QED
      BY <3>1, <3>2, PartsAre
  <2> QED
    BY <2>1, <2>2
<1>10. \A u \in Slaves : u \in Tasks /\ u # Merger
      /\ \A x \in ToSet(mail'[u]) : x \in ToSet(mail[u])
  BY <1>2, TaskFacts DEF Moved
<1>11. Calm \subseteq Calm'
  BY <1>0, <1>1, <1>10, CalmWritten
<1>12. InLine' /\ Mailed' /\ Rested' /\ Jobs' /\ Job' = Job
  <2>1. \A u \in Tasks : \A x \in Message : <<u, x>> \in {} =>
        \A y \in ToSet(mail[u]) : Before(y, x)
    OBVIOUS
  <2>2. Fitting({})
    BY DEF Fitting
  <2>3. UNCHANGED mastervars /\ \A u \in Slaves : slave'[u].ring # -1 =>
        slave[u].ring # -1 \/ u \in Calm'
    BY <1>1
  <2> QED
    BY <1>0, <1>1, <1>11, <2>1, <2>2, <2>3, SlaveKeeps
<1>13. Kept'
  <2>1. Reopening' = Reopening
    <3>1. \A u \in Slaves : u \in Reopening' <=> u \in Reopening
      <4> SUFFICES ASSUME NEW u \in Slaves PROVE u \in Reopening' <=> u \in Reopening
        OBVIOUS
      <4>1. \A x \in ToSet(mail[u]) : x \in ToSet(mail'[u])
        BY <1>2, <1>10 DEF Moved
      <4> QED
        BY <1>10, <4>1, ReopeningAre
    <3> QED
      BY <3>1, ReopeningAre
  <2>2. Coming' \subseteq Coming
    <3> SUFFICES ASSUME NEW c \in Coming' PROVE c \in Coming
      OBVIOUS
    <3>1. PICK u \in Slaves :
             \E x \in ToSet(mail'[u]) : x.opt = "encode" /\ c = <<u, x.seq, x.body>>
      BY ComingAre
    <3> QED
      BY <1>10, <3>1, ComingAre
  <2>3. Files' = Files /\ Begun' = Begun /\ Able' = Able
    BY <1>1 DEF Files, Begun, Able, Slaves
  <2>4. /\ Filed(Job, Reopening, Parts, Files, chunk)
        /\ Marked(Job, Reopening, Files, Able, Begun)
        /\ Framed(Parts, Coming, Files, chunk, given)
    BY <1>0 DEF Kept
  <2>5. Framed(Parts, Coming', Files, chunk, given)
    BY <2>2, <2>4, FramesLeft
  <2>6. chunk' = chunk /\ given' = given
    BY <1>1 DEF mastervars
  <2> QED
    BY <1>9, <1>12, <2>1, <2>3, <2>4, <2>5, <2>6, KeptNext
<1> QED
  BY <1>8, <1>12, <1>13 DEF Upheld

-----------------------------------------------------------------------------
(* The master.                                                              *)

\* The steps of the master that leave the slaves and the chunks alone.
LEMMA GentleMaster ==
    ASSUME LateState, UNCHANGED <<chunk, given, current, used, slave, elab>>,
           NEW t \in {Master, Nobody}, NEW m, NEW P,
           Moved(mail, mail', t, m, P), KeepsLine(mail, mail', P),
           \/ order' = order /\ order \in Ending
           \/ order = "encode" /\ order' = "close"
           \/ order = "close" /\ order' = "run"
           \/ order = "run" /\ order' = "stop",
           \A u \in Tasks : \A x \in Message : <<u, x>> \in P =>
              /\ Dull(x) /\ \A y \in ToSet(mail[u]) : Before(y, x)
              /\ u \in Slaves /\ order \notin Giving => x.tag # "WORK"
    PROVE  Gentle(t, m, P)
<1>1. t \notin Tasks \ {Master}
  BY TaskFacts DEF Nobody, Tasks, Master, Merger
<1>2. Steady /\ \A s \in Slaves : slave'[s].able => slave[s].able
  BY DEF Steady
<1>3. /\ order' \in Giving => order' = order
      /\ order \in Ending => order' \in Ending
      /\ order \in {"run", "stop"} => order' \in {"run", "stop"}
      /\ order = "stop" => order' = "stop"
  BY DEF Giving, Ending
<1> QED
  BY <1>1, <1>2, <1>3 DEF Gentle

LEMMA MultiSendLate ==
    ASSUME LateState, MultiSend
    PROVE  order' \in Late => Upheld'
<1>0. ClusterTypeOK /\ order \in Late
  BY DEF LateState
<1>1. /\ order \in {"close", "stop"} /\ order' = order
      /\ UNCHANGED <<chunk, given, current, used, slave, elab>>
  BY <1>0 DEF MultiSend, Casts, Late, Giving, Ending, mergervars
<1>2. PICK c \in Message :
         /\ c.from = Master /\ c.tag = "CONF" /\ c.opt = order
         /\ Adds(mail', {<<s, c>> : s \in Slaves})
  BY <1>0, MultiSendEffect
<1> DEFINE P == {<<s, c>> : s \in Slaves}
<1>3. /\ Moved(mail, mail', Nobody, 0, P) /\ KeepsLine(mail, mail', P)
      /\ \A u \in Tasks : \A x \in Message : <<u, x>> \in P => u \in Slaves /\ x = c
  BY <1>2 DEF Adds
<1> HIDE DEF P
<1>4. Plain(c)
  BY <1>1, <1>2 DEF Plain
<1>5. \A u \in Tasks : \A x \in Message : <<u, x>> \in P =>
         /\ Dull(x) /\ \A y \in ToSet(mail[u]) : Before(y, x)
         /\ u \in Slaves /\ order \notin Giving => x.tag # "WORK"
  <2>1. Dull(c) /\ (\A y : Before(y, c)) /\ c.tag # "WORK"
    BY <1>2, <1>4, PlainLast
  <2> QED
    BY <1>3, <2>1
<1>6. order \in Ending
  BY <1>1 DEF Ending
<1>7. Gentle(Nobody, 0, P)
  BY <1>1, <1>3, <1>5, <1>6, GentleMaster
<1>8. Fitting(P)
  <2>1. \A j : Expected(c, j, order', Calm')
    BY <1>1, <1>2, <1>6 DEF Expected
  <2> QED
    BY <1>3, <2>1, TaskFacts DEF Fitting
<1> QED
  BY <1>1, <1>7, <1>8, GentleStep

LEMMA MultiSentLate ==
    ASSUME LateState, MultiSent
    PROVE  order' \in Late => Upheld'
<1> SUFFICES ASSUME order' \in Late PROVE Upheld'
  OBVIOUS
<1>0. ClusterTypeOK /\ order \in Late /\ Mailed
  BY DEF LateState
<1>1. UNCHANGED <<chunk, given, current, used, slave, elab>>
  BY DEF MultiSent, mergervars
<1>2. order = "close" /\ order' = "run"
  <2>1. order \in {"close", "stop"} /\ order' \in {"over", FollowingCast[order]}
    BY <1>0 DEF MultiSent, Casts, Late, Giving, Ending
  <2>2. FollowingCast["close"] = "run" /\ FollowingCast["stop"] = "over"
    BY DEF FollowingCast
  <2> QED
    BY <2>1, <2>2 DEF Late, Giving, Ending
<1>3. PICK i \in DOMAIN mail[Master] :
         mail[Master][i].tag = "RING" /\ \E P : Forwards(P) /\ Takes(mail', Master, i, P)
  BY <1>0, MultiSentEffect
<1>4. PICK P : Forwards(P) /\ Takes(mail', Master, i, P)
  BY <1>3
<1>5. Slaves \subseteq Calm
  BY <1>0, <1>3, <1>4 DEF Mailed, Takes
<1>6. \A u \in Tasks : \A x \in Message : <<u, x>> \in P => u = Merger /\ Plain(x)
  BY <1>4 DEF Forwards, Plain
<1>7. \A u \in Tasks : \A x \in Message : <<u, x>> \in P =>
         /\ Dull(x) /\ \A y \in ToSet(mail[u]) : Before(y, x)
         /\ u \in Slaves /\ order \notin Giving => x.tag # "WORK"
  BY <1>6, PlainLast, TaskFacts
<1>8. Moved(mail, mail', Master, mail[Master][i], P) /\ KeepsLine(mail, mail', P)
  BY <1>4 DEF Takes
<1>9. Gentle(Master, mail[Master][i], P)
  BY <1>1, <1>2, <1>7, <1>8, GentleMaster
<1>10. Calm \subseteq Calm'
  BY <1>9, GentleCalm
<1>11. Fitting(P)
  BY <1>2, <1>6, TaskFacts DEF Fitting
<1> QED
  BY <1>1, <1>5, <1>9, <1>10, <1>11, GentleStep

LEMMA MergerDoneLate ==
    ASSUME LateState, MergerDone
    PROVE  order' \in Late => Upheld'
<1> SUFFICES ASSUME order' \in Late PROVE Upheld'
  OBVIOUS
<1>0. ClusterTypeOK /\ order \in Late
  BY DEF LateState
<1>1. UNCHANGED <<chunk, given, current, used, slave, elab>>
  BY DEF MergerDone, mergervars
<1>2. order = "run" /\ order' = "stop"
  BY DEF MergerDone, Late, Giving, Ending
<1>3. PICK i \in DOMAIN mail[Master] : Takes(mail', Master, i, {})
  BY <1>0, MergerDoneEffect
<1>4. Moved(mail, mail', Master, mail[Master][i], {}) /\ KeepsLine(mail, mail', {})
  BY <1>3 DEF Takes
<1>5. Gentle(Master, mail[Master][i], {})
  BY <1>1, <1>2, <1>4, GentleMaster
<1>6. Fitting({})
  BY DEF Fitting
<1> QED
  BY <1>1, <1>2, <1>5, <1>6, GentleStep

LEMMA CloseCodecLate ==
    ASSUME LateState, CloseCodec
    PROVE  order' \in Late => Upheld'
<1>0. /\ ClusterTypeOK /\ order \in Late /\ Mailed /\ current \in Slaves /\ chunk \in Nat
      /\ current \in Tasks
  BY TaskFacts DEF LateState, ClusterTypeOK
<1>1. /\ UNCHANGED <<chunk, given, current, used, slave, elab>>
      /\ order = "encode" /\ order' = "close" /\ order' \in Late /\ order' \in Ending
      /\ order \notin Ending /\ order \in Giving
  BY DEF CloseCodec, mergervars, Late, Ending, Giving
<1>2. PICK x, q : Command(x, "restart1", q) /\ Adds(mail', {<<current, x>>})
  BY <1>0, CloseCodecEffect
<1> DEFINE P == {<<current, x>>}
<1>3. /\ Moved(mail, mail', Nobody, 0, P) /\ KeepsLine(mail, mail', P)
      /\ \A u \in Tasks : \A y \in Message : <<u, y>> \in P => u = current /\ y = x
  BY <1>2 DEF Adds
<1> HIDE DEF P
<1>4. /\ x \in Message /\ x.from = Master /\ x.tag = "WORK" /\ x.opt = "restart1"
  BY <1>2 DEF Command
<1>5. \A y \in ToSet(mail[current]) : Before(y, x)
  <2> SUFFICES ASSUME NEW y \in ToSet(mail[current]) PROVE Before(y, x)
    OBVIOUS
  <2>1. Expected(y, Job[current], order, Calm)
    BY <1>0 DEF Mailed
  <2>2. y.tag # "CONF"
    BY <1>1, <2>1 DEF Expected, Ending
  <2> QED
    BY <1>4, <2>2 DEF Before
<1>6. \A u \in Tasks : \A y \in Message : <<u, y>> \in P =>
         /\ Dull(y) /\ \A z \in ToSet(mail[u]) : Before(z, y)
         /\ u \in Slaves /\ order \notin Giving => y.tag # "WORK"
  BY <1>1, <1>3, <1>4, <1>5 DEF Dull
<1>7. Gentle(Nobody, 0, P)
  BY <1>1, <1>3, <1>6, GentleMaster
<1>8. Fitting(P)
  <2>1. Job'[current] = chunk
    BY <1>0, <1>1, JobIs
  <2>2. Job'[current] # NoTask
    BY <1>0, <2>1 DEF NoTask
  <2>3. Expected(x, Job'[current], order', Calm')
    BY <1>4, <2>2 DEF Expected
  <2> QED
    BY <1>0, <1>3, <2>3, TaskFacts DEF Fitting
<1> QED
  BY <1>1, <1>7, <1>8, GentleStep

\* Messages P are all that is new, and nothing is missing that matters to the
\* slaves or the merger.
LEMMA MasterSends ==
    ASSUME LateState, NEW t \in {Master, Nobody}, NEW m, NEW P,
           Moved(mail, mail', t, m, P), KeepsLine(mail, mail', P),
           order \in Giving, order' \in Giving, UNCHANGED slave, elab' = elab,
           \A u \in Tasks : \A x \in Message : <<u, x>> \in P =>
              u \in Slaves /\ \A y \in ToSet(mail[u]) : Before(y, x),
           Fitting(P),
           \A u \in Slaves : Job'[u] = Job[u] \/ \A x \in ToSet(mail[u]) : x.tag # "WORK"
    PROVE  /\ InLine' /\ Mailed' /\ Rested' /\ Sorted' /\ Parts' = Parts
           /\ \A u \in Slaves : \A x \in ToSet(mail[u]) : x \in ToSet(mail'[u])
<1>0. /\ mail \in Boxes /\ mail' \in Boxes /\ order \in Late /\ order' \in Late
      /\ InLine /\ Mailed /\ Rested /\ Sorted
      /\ order \notin Ending /\ order' \notin {"run", "stop"} /\ order # "stop"
  BY DEF LateState, ClusterTypeOK, Late, Giving, Ending
<1>1. Calm \subseteq Calm'
  BY <1>0, CalmKept
<1>2. InLine'
  BY <1>0, InLineNext
<1>3. Mailed'
  <2>1. /\ order \in Ending => order' \in Ending
        /\ order = "stop" => order' = "stop"
        /\ order \in {"run", "stop"} => order' \in {"run", "stop"}
    BY <1>0 DEF Ending
  <2> QED
    BY <1>0, <1>1, <2>1, MailedKept
<1>4. Rested'
  <2>1. \A s \in Slaves : slave'[s].ring # -1 => s \in Calm'
    BY <1>0, <1>1 DEF Rested
  <2> QED
    BY <1>0, <2>1, RestedNext
<1>5. \A u \in Tasks : u = t => u = Master
  BY TaskFacts DEF Nobody, Tasks, Master, Merger
<1>6. \A u \in Slaves : \A x \in ToSet(mail[u]) : x \in ToSet(mail'[u])
  BY <1>5, TaskFacts DEF Moved
<1>7. \A x \in Message : x \in ToSet(mail'[Merger]) <=> x \in ToSet(mail[Merger])
  <2>1. Merger \in Tasks /\ Merger \notin Slaves /\ Merger # Master
    BY TaskFacts
  <2> QED
    BY <1>5, <2>1 DEF Moved
<1>8. Parts' = Parts /\ Sorted'
  BY <1>0, <1>7, SameParts
<1> QED
  BY <1>2, <1>3, <1>4, <1>6, <1>8

\* The slaves that are given chunks have no broadcast before them.
LEMMA NoBroadcast ==
    ASSUME LateState, order \in Giving, NEW u \in Slaves, NEW y \in ToSet(mail[u])
    PROVE  /\ y.tag # "CONF" /\ (y.from # Master => y.tag # "WORK")
           /\ Job[u] = NoTask => y.from # Master
<1>1. Expected(y, Job[u], order, Calm)
  BY DEF LateState, Mailed
<1>2. order \notin Ending
  BY DEF Giving, Ending
<1>3. \/ y.tag = "WORK" /\ y.from = Master /\ Job[u] # NoTask
      \/ y.tag = "RING" /\ y.from \in Slaves
  BY <1>1, <1>2 DEF Expected, Ending
<1> QED
  BY <1>3, TaskFacts

LEMMA HandOverLate ==
    ASSUME LateState, HandOver
    PROVE  order' \in Late => Upheld'
<1>0. /\ ClusterTypeOK /\ mail \in Boxes /\ mail' \in Boxes /\ Jobs /\ Kept
      /\ current \in Slaves /\ current \in Tasks
      /\ chunk \in Nat /\ given \in Nat /\ used \in [Slaves -> Int]
  BY TaskFacts DEF LateState, ClusterTypeOK
<1>1. /\ UNCHANGED <<chunk, current, slave>> /\ elab' = elab
      /\ given' = given + 1 /\ used' = [used EXCEPT ![current] = chunk]
      /\ order = "encode"
  BY DEF HandOver, mergervars
<1>2. PICK x, P :
         /\ Command(x, "encode", chunk) /\ x.body = given + 1
         /\ \/ P = {<<current, x>>} /\ order' = "encode"
            \/ /\ order' = "first-free"
               /\ \E y : Command(y, "restart1", chunk) /\ P = {<<current, x>>, <<current, y>>}
         /\ Adds(mail', P)
  BY <1>0, HandOverEffect
<1>3. order \in Giving /\ order' \in Giving
  BY <1>1, <1>2 DEF Giving
<1>4. /\ Moved(mail, mail', Nobody, 0, P) /\ KeepsLine(mail, mail', P)
  BY <1>2 DEF Adds
<1>5. \A u \in Tasks : \A z \in Message : <<u, z>> \in P =>
         /\ u = current
         /\ z = x \/ Command(z, "restart1", chunk)
  BY <1>2
<1>6. /\ used'[current] = chunk /\ \A u \in Slaves : u # current => used'[u] = used[u]
      /\ Job' = Job /\ Job[current] = chunk
  <2>1. used'[current] = chunk /\ \A u \in Slaves : u # current => used'[u] = used[u]
    BY <1>0, <1>1
  <2>2. \A u \in Slaves : Job'[u] = Job[u]
    BY <1>0, <1>1, <2>1, JobIs
  <2>3. Job' = Job
    BY <1>1, <2>1 DEF Job, Slaves
  <2> QED
    BY <1>0, <2>1, <2>3, JobIs
<1>7. Jobs'
  <2>1. \A t \in Slaves : used'[t] \in -1 .. chunk' /\ (t # current' => used'[t] < chunk')
    <3>1. chunk \in -1 .. chunk
      BY <1>0
    <3> QED
      BY <1>0, <1>1, <1>6, <3>1 DEF Jobs
  <2>2. used'[current'] = chunk'
    BY <1>1, <1>6
  <2>3. \A t, u \in Slaves : t # u /\ Job'[t] # NoTask => Job'[t] # Job'[u]
    BY <1>0, <1>6 DEF Jobs
  <2> QED
    BY <2>1, <2>2, <2>3 DEF Jobs, Slaves, NoTask
<1>8. \A y \in ToSet(mail[current]) : y.opt = "encode" => y.body < given + 1
  <2> SUFFICES ASSUME NEW y \in ToSet(mail[current]), y.opt = "encode"
               PROVE  y.body < given + 1
    OBVIOUS
  <2>1. <<current, y.seq, y.body>> \in Coming
    BY <1>0, ComingAre
  <2>2. y.body \in 1 .. given
    BY <1>0, <2>1 DEF Kept, Framed
  <2> QED
    BY <1>0, <2>2
<1>9. \A u \in Tasks : \A z \in Message : <<u, z>> \in P =>
         u \in Slaves /\ \A y \in ToSet(mail[u]) : Before(y, z)
  <2> SUFFICES ASSUME NEW u \in Tasks, NEW z \in Message, <<u, z>> \in P,
                      NEW y \in ToSet(mail[u])
               PROVE  Before(y, z)
    BY <1>0, <1>5
  <2>1. u = current /\ y.tag # "CONF"
    BY <1>0, <1>3, <1>5, NoBroadcast
  <2>2. CASE z = x
    BY <1>2, <1>8, <2>1, <2>2 DEF Command, Before
  <2>3. CASE Command(z, "restart1", chunk)
    BY <2>1, <2>3 DEF Command, Before
  <2> QED
    BY <1>5, <2>2, <2>3
<1>10. Fitting(P)
  <2> SUFFICES ASSUME NEW u \in Tasks, NEW z \in Message, <<u, z>> \in P
               PROVE  /\ u \in Slaves => Expected(z, Job'[u], order', Calm')
                      /\ u = Master /\ z.tag = "RING" => Slaves \subseteq Calm'
                      /\ u = Merger /\ z.opt = "run" => order' \in {"run", "stop"}
    BY DEF Fitting
  <2>1. u = current /\ u # Master /\ u # Merger
    BY <1>0, <1>5, TaskFacts
  <2>2. Command(z, "encode", chunk) \/ Command(z, "restart1", chunk)
    BY <1>2, <1>5
  <2>3. Job'[u] = chunk /\ chunk # NoTask
    BY <1>0, <1>6, <2>1 DEF NoTask
  <2>4. Expected(z, Job'[u], order', Calm')
    BY <2>2, <2>3 DEF Command, Expected
  <2> QED
    BY <2>1, <2>4
<1>11. /\ InLine' /\ Mailed' /\ Rested' /\ Sorted' /\ Parts' = Parts
       /\ \A u \in Slaves : \A z \in ToSet(mail[u]) : z \in ToSet(mail'[u])
  BY <1>1, <1>3, <1>4, <1>6, <1>9, <1>10, MasterSends
<1>12. \A u \in Slaves : \A z \in ToSet(mail'[u]) :
          \/ z \in ToSet(mail[u])
          \/ u = current /\ (z = x \/ Command(z, "restart1", chunk))
  <2> SUFFICES ASSUME NEW u \in Slaves, NEW z \in ToSet(mail'[u])
               PROVE  \/ z \in ToSet(mail[u])
                      \/ u = current /\ (z = x \/ Command(z, "restart1", chunk))
    OBVIOUS
  <2>1. u \in Tasks /\ z \in Message
    BY <1>0, TaskFacts, MailSet DEF Boxes
  <2> QED
    BY <1>4, <1>5, <2>1 DEF Moved
<1>13. Reopening' = Reopening
  <2>1. \A u \in Slaves : u \in Reopening' <=> u \in Reopening
    <3> SUFFICES ASSUME NEW u \in Slaves PROVE u \in Reopening' <=> u \in Reopening
      OBVIOUS
    <3>1. \A z \in ToSet(mail'[u]) : z.opt = "restart2" => z \in ToSet(mail[u])
      BY <1>2, <1>12 DEF Command
    <3> QED
      BY <1>11, <3>1, ReopeningAre
  <2> QED
    BY <2>1, ReopeningAre
<1>14. \A d \in Coming' : d \in Coming \/ d = <<current, chunk, given + 1>>
  <2> SUFFICES ASSUME NEW d \in Coming'
               PROVE  d \in Coming \/ d = <<current, chunk, given + 1>>
    OBVIOUS
  <2>1. PICK u \in Slaves :
           \E z \in ToSet(mail'[u]) : z.opt = "encode" /\ d = <<u, z.seq, z.body>>
    BY ComingAre
  <2>2. PICK z \in ToSet(mail'[u]) : z.opt = "encode" /\ d = <<u, z.seq, z.body>>
    BY <2>1
  <2>3. CASE z \in ToSet(mail[u])
    BY <2>2, <2>3, ComingAre
  <2>4. CASE u = current /\ (z = x \/ Command(z, "restart1", chunk))
    BY <1>2, <2>2, <2>4 DEF Command
  <2> QED
    BY <1>12, <2>3, <2>4
<1>15. Kept'
  <2>1. /\ Filed(Job, Reopening, Parts, Files, chunk)
        /\ Marked(Job, Reopening, Files, Able, Begun)
        /\ Framed(Parts, Coming, Files, chunk, given)
    BY <1>0 DEF Kept
  <2>2. Files' = Files /\ Begun' = Begun /\ Able' = Able
    BY <1>1 DEF Files, Begun, Able, Slaves
  <2>3. Framed(Parts, Coming', Files, chunk, given + 1)
    <3> DEFINE c == <<current, chunk, given + 1>>
               C == Coming
               D == Coming'
    <3>1. c[2] = chunk /\ c[3] = given + 1 /\ \A d \in D : d \in C \/ d = c
      BY <1>14
    <3>2. \A p \in Parts : p[1] \in 0 .. chunk
      BY <2>1 DEF Filed
    <3>3. Framed(Parts, C, Files, chunk, given)
      BY <2>1
    <3> HIDE DEF c, C, D
    <3>4. Framed(Parts, D, Files, chunk, given + 1)
      BY <1>0, <3>1, <3>2, <3>3, FrameGiven
    <3> QED
      BY <3>4 DEF D
  <2> QED
    BY <1>1, <1>6, <1>11, <1>13, <2>1, <2>2, <2>3, KeptNext
<1> QED
  BY <1>7, <1>11, <1>15 DEF Upheld

\* The frames are those of one chunk more.
LEMMA ChunkMore ==
    ASSUME NEW P, NEW C, NEW F, NEW ch \in Nat, NEW gv, Framed(P, C, F, ch, gv),
           NEW D \in SUBSET C
    PROVE  Framed(P, D, F, ch + 1, gv)
<1>1. \A c \in D : c[2] \in 0 .. ch + 1 /\ c[3] \in 1 .. gv
  BY DEF Framed
<1> QED
  BY <1>1 DEF Framed

LEMMA TakeLate ==
    ASSUME LateState, TakeUnused \/ TakeEnded
    PROVE  order' \in Late => Upheld'
<1>0. /\ ClusterTypeOK /\ mail \in Boxes /\ mail' \in Boxes /\ Jobs /\ Kept /\ FreeInv
      /\ Mailed /\ Ready /\ current \in Slaves /\ chunk \in Nat /\ used \in [Slaves -> Int]
  BY DEF LateState, ClusterTypeOK
<1> PICK t \in Slaves : \E x, P : Gives(t, x, P)
  BY <1>0, TakeEffect
<1> PICK x, P : Gives(t, x, P)
  OBVIOUS
<1>1. /\ Command(x, "restart2", chunk + 1) /\ P = {<<t, x>>}
      /\ Adds(mail', P) \/ \E i \in DOMAIN mail[Master] : Takes(mail', Master, i, P)
      /\ current' = t /\ chunk' = chunk + 1 /\ order' = "encode"
      /\ UNCHANGED <<used, given, slave, mergervars, failures>>
      /\ \/ used[t] = NoTask
         \/ ~slave[t].loaded /\ \A y \in ToSet(mail[t]) : y.from # Master
  BY DEF Gives
<1>2. order = "first-free" /\ order \in Giving /\ order' \in Giving
  BY <1>1 DEF TakeUnused, TakeEnded, Giving
<1>3. elab' = elab /\ UNCHANGED slave /\ used' = used /\ given' = given
  BY <1>1 DEF mergervars
<1> PICK o \in {Master, Nobody} :
       \E m : Moved(mail, mail', o, m, P) /\ KeepsLine(mail, mail', P)
  BY <1>1 DEF Adds, Takes
<1>4. PICK m : Moved(mail, mail', o, m, P) /\ KeepsLine(mail, mail', P)
  OBVIOUS
<1>5. /\ \A u \in Slaves : Job[u] = used[u]
      /\ Job'[t] = chunk + 1 /\ \A u \in Slaves : u # t => Job'[u] = Job[u]
  <2>1. used[current] = chunk
    BY <1>0, <1>2 DEF Jobs
  <2>2. \A u \in Slaves : Job[u] = used[u]
    BY <2>1, JobIs
  <2> QED
    BY <1>1, <1>3, <2>2, JobIs
<1>6. \A u \in Slaves : used[u] \in -1 .. chunk /\ used[u] # chunk + 1
  <2>1. \A u \in Slaves : used[u] \in -1 .. chunk
    BY <1>0 DEF Jobs
  <2> QED
    BY <1>0, <2>1
<1>7. Jobs'
  <2>1. \A u \in Slaves : used'[u] \in -1 .. chunk' /\ (u # current' => used'[u] < chunk')
    BY <1>0, <1>1, <1>3, <1>6
  <2>2. \A u, w \in Slaves : u # w /\ Job'[u] # NoTask => Job'[u] # Job'[w]
    <3> SUFFICES ASSUME NEW u \in Slaves, NEW w \in Slaves, u # w, Job'[u] # NoTask
                 PROVE  Job'[u] # Job'[w]
      OBVIOUS
    <3>1. CASE u = t \/ w = t
      BY <1>5, <1>6, <3>1
    <3>2. CASE u # t /\ w # t
      BY <1>0, <1>5, <3>2 DEF Jobs
    <3> QED
      BY <3>1, <3>2
  <2>3. order' # "first-free"
    BY <1>1
  <2> QED
    BY <2>1, <2>2, <2>3 DEF Jobs, Slaves, NoTask
<1>8. \A y \in ToSet(mail[t]) : y.from # Master /\ y.tag # "CONF" /\ y.tag # "WORK"
  <2> SUFFICES ASSUME NEW y \in ToSet(mail[t])
               PROVE  y.from # Master /\ y.tag # "CONF" /\ y.tag # "WORK"
    OBVIOUS
  <2>1. y.from # Master
    BY <1>1, <1>2, <1>5, NoBroadcast
  <2> QED
    BY <1>2, <2>1, NoBroadcast
<1>9. x \in Message /\ x.from = Master /\ x.tag = "WORK" /\ x.opt = "restart2" /\ x.seq = chunk + 1
  BY <1>1 DEF Command
<1>10. \A u \in Tasks : \A z \in Message : <<u, z>> \in P =>
          u \in Slaves /\ u = t /\ z = x /\ \A y \in ToSet(mail[u]) : Before(y, z)
  <2>1. \A y \in ToSet(mail[t]) : Before(y, x)
    BY <1>8, <1>9 DEF Before
  <2> QED
    BY <1>1, <2>1
<1>11. Fitting(P)
  <2>1. chunk + 1 # NoTask
    BY <1>0 DEF NoTask
  <2>2. Expected(x, Job'[t], order', Calm')
    BY <1>5, <1>9, <2>1 DEF Expected
  <2> QED
    BY <1>10, <2>2, TaskFacts DEF Fitting
<1>12. /\ InLine' /\ Mailed' /\ Rested' /\ Sorted' /\ Parts' = Parts
       /\ \A u \in Slaves : \A z \in ToSet(mail[u]) : z \in ToSet(mail'[u])
  <2>1. \A u \in Slaves : Job'[u] = Job[u] \/ \A y \in ToSet(mail[u]) : y.tag # "WORK"
    BY <1>5, <1>8
  <2>2. \A u \in Tasks : \A z \in Message : <<u, z>> \in P =>
           u \in Slaves /\ \A y \in ToSet(mail[u]) : Before(y, z)
    BY <1>10
  <2> QED
    BY <1>2, <1>3, <1>4, <1>11, <2>1, <2>2, MasterSends
<1>13. \A u \in Slaves : \A z \in ToSet(mail'[u]) : z \in ToSet(mail[u]) \/ (u = t /\ z = x)
  <2> SUFFICES ASSUME NEW u \in Slaves, NEW z \in ToSet(mail'[u])
               PROVE  z \in ToSet(mail[u]) \/ (u = t /\ z = x)
    OBVIOUS
  <2>1. u \in Tasks /\ z \in Message
    BY <1>0, TaskFacts, MailSet DEF Boxes
  <2> QED
    BY <1>4, <1>10, <2>1 DEF Moved
<1>14. \A u \in Slaves : u \in Reopening' <=> (u \in Reopening \/ u = t)
  <2>1. x \in ToSet(mail'[t])
    BY <1>1, <1>4, <1>9, TaskFacts DEF Moved
  <2> SUFFICES ASSUME NEW u \in Slaves PROVE u \in Reopening' <=> (u \in Reopening \/ u = t)
    OBVIOUS
  <2>2. u \in Reopening' => (u \in Reopening \/ u = t)
    BY <1>13, ReopeningAre
  <2>3. u \in Reopening => u \in Reopening'
    BY <1>12, ReopeningAre
  <2>4. t \in Reopening'
    BY <1>9, <2>1, ReopeningAre
  <2> QED
    BY <2>2, <2>3, <2>4
<1>15. Coming' \subseteq Coming
  <2> SUFFICES ASSUME NEW d \in Coming' PROVE d \in Coming
    OBVIOUS
  <2>1. PICK u \in Slaves :
           \E z \in ToSet(mail'[u]) : z.opt = "encode" /\ d = <<u, z.seq, z.body>>
    BY ComingAre
  <2>2. PICK z \in ToSet(mail'[u]) : z.opt = "encode" /\ d = <<u, z.seq, z.body>>
    BY <2>1
  <2>3. z \in ToSet(mail[u])
    BY <1>9, <1>13, <2>2
  <2> QED
    BY <2>2, <2>3, ComingAre
<1>16. Kept'
  <2>1. /\ Filed(Job, Reopening, Parts, Files, chunk)
        /\ Marked(Job, Reopening, Files, Able, Begun)
        /\ Framed(Parts, Coming, Files, chunk, given)
    BY <1>0 DEF Kept
  <2>2. Files' = Files /\ Begun' = Begun /\ Able' = Able
    BY <1>3 DEF Files, Begun, Able, Slaves
  <2>3. t \in Begun => t \notin Able
    <3>1. CASE used[t] = NoTask
      <4>1. t \notin Begun
        BY <1>5, <2>1, <3>1 DEF Marked
      <4> QED
        BY <4>1
    <3>2. CASE ~slave[t].loaded
      BY <1>0, <3>2, SlaveSets DEF Ready
    <3> QED
      BY <1>1, <3>1, <3>2
  <2> DEFINE J == Job
             K == Job'
             R == Reopening
             S == Reopening'
             rdy == Able
             fst == Begun
  <2>4. /\ Filed(J, R, Parts, Files, chunk) /\ Marked(J, R, Files, rdy, fst)
        /\ K[t] = chunk + 1 /\ \A u \in Slaves : u # t => K[u] = J[u]
        /\ \A u \in Slaves : u \in S <=> (u \in R \/ u = t)
        /\ t \in fst => t \notin rdy
        /\ rdy \in SUBSET Slaves
    BY <1>5, <1>14, <2>1, <2>3, SlaveSets
  <2> HIDE DEF J, K, R, S, rdy, fst
  <2>5. Filed(K, S, Parts, Files, chunk + 1)
    BY <1>0, <2>4, FiledTake
  <2>6. Marked(K, S, Files, rdy, fst)
    BY <1>0, <2>4, MarkedTake
  <2>7. Framed(Parts, Coming', Files, chunk + 1, given)
    BY <1>0, <1>15, <2>1, ChunkMore
  <2>8. /\ Filed(Job', Reopening', Parts', Files', chunk')
        /\ Marked(Job', Reopening', Files', Able', Begun')
        /\ Framed(Parts', Coming', Files', chunk', given')
    BY <1>1, <1>3, <1>12, <2>2, <2>5, <2>6, <2>7 DEF K, S, rdy, fst
  <2> QED
    BY <2>8, KeptNext
<1> QED
  BY <1>7, <1>12, <1>16 DEF Upheld

-----------------------------------------------------------------------------
(* The encoder and the files of a slave, and all steps together.            *)

\* A slave that keeps its encoder, or may take no frames, is ready as before.
LEMMA ReadyNext ==
    ASSUME ClusterTypeOK, Ready, NEW s \in Slaves,
           \A u \in Slaves : u # s => slave'[u] = slave[u],
           slave'[s].ready =>
              slave'[s].able /\ slave'[s].loaded /\ Len(slave'[s].files) > 0
    PROVE  Ready'
<1>1. \A u \in Slaves : slave'[u].ready =>
         slave'[u].able /\ slave'[u].loaded /\ Len(slave'[u].files) > 0
  BY DEF Ready
<1> QED
  BY <1>1 DEF Ready, Slaves

LEMMA ReadyConfigure ==
    ASSUME ClusterTypeOK, Overtaking = FALSE, Ready, EarlyInv, NEW s \in Slaves, Configure(s),
           order \in Late => LateState
    PROVE  Ready'
<1>0. /\ mail \in Boxes /\ s \in Tasks /\ slave \in [Slaves -> SlaveState]
      /\ order \in Early \cup Late
  <2>1. order # "over"
    BY DEF Configure, Ordered
  <2> QED
    BY <2>1, TaskFacts DEF ClusterTypeOK, Orders, Casts, Early, Late, Giving, Ending
<1> DEFINE m == mail[s][1]
<1>1. PICK rc \in Int : slave' = [slave EXCEPT ![s] = Carried(s, m, rc)]
  <2>1. CASE order \in Early
    BY <2>1, EarlyConfigure
  <2>2. CASE order \in Late
    <3>1. LateState
      BY <2>2
    <3>2. \E i \in DOMAIN mail[s] : Ordered(s, "CONF", i)
      BY DEF Configure
    <3>3. Commanded(s, "CONF") /\ 1 \in DOMAIN mail[s]
      BY <1>0, <3>2, OrderedFirst
    <3>4. m \in ToSet(mail[s])
      BY <3>3 DEF ToSet
    <3>5. Expected(m, Job[s], order, Calm)
      BY <3>1, <3>4 DEF LateState, Mailed
    <3>6. m.opt # "open"
      BY <3>3, <3>5 DEF Expected, Commanded
    <3> QED
      BY <3>6, ConfigureEffect
  <2> QED
    BY <1>0, <2>1, <2>2
<1> DEFINE c == Carried(s, m, rc)
<1>2. slave'[s] = c /\ \A u \in Slaves : u # s => slave'[u] = slave[u]
  BY <1>0, <1>1
<1>3. /\ c.loaded = slave[s].loaded
      /\ c.able = (slave[s].able /\ ~(m.opt = "init" /\ rc = 1))
      /\ m.opt = "open" => c.files = Append(slave[s].files, <<>>)
      /\ m.opt # "open" => c.files = slave[s].files
      /\ m.opt = "open" /\ rc = 0 => c.ready = slave[s].able
      /\ m.opt = "close" => ~c.ready
      /\ m.opt \notin {"open", "close"} \/ (m.opt = "open" /\ rc # 0)
            => c.ready = slave[s].ready
  BY CarriedFields
<1>4. m.opt = "open" => Len(c.files) > 0
  <2>1. slave[s].files \in Seq(Seq(Int)) /\ Len(slave[s].files) \in Nat
    BY SlaveTyped
  <2>2. Len(Append(slave[s].files, <<>>)) = Len(slave[s].files) + 1
    BY <2>1, FilesAppended
  <2> QED
    BY <1>3, <2>1, <2>2
<1> HIDE DEF c
<1>5. ASSUME order \in Early, c.ready PROVE c.able /\ c.loaded /\ Len(c.files) > 0
  <2>1. m.opt = order /\ slave[s].loaded /\ (order # "open" => ~slave[s].ready)
    <3>1. Cast(m)
      BY <1>5, EarlyConfigure
    <3> QED
      BY <1>5, <3>1 DEF EarlyInv, Fresh, Cast
  <2>2. CASE order = "open"
    <3>1. (slave[s].able => c.able) /\ c.loaded /\ Len(c.files) > 0
      BY <1>3, <1>4, <2>1, <2>2
    <3>2. slave[s].able
      <4>1. CASE rc = 0
        BY <1>3, <1>5, <2>1, <2>2, <4>1
      <4>2. CASE rc # 0
        BY <1>3, <1>5, <2>1, <2>2, <4>2 DEF Ready
      <4> QED
        BY <4>1, <4>2
    <3> QED
      BY <3>1, <3>2
  <2>3. CASE order # "open"
    <3>1. m.opt \notin {"open", "close"}
      BY <1>5, <2>1, <2>3 DEF Early
    <3> QED
      BY <1>3, <1>5, <2>1, <2>3, <3>1
  <2> QED
    BY <2>2, <2>3
<1>6. ASSUME order \in Late, c.ready PROVE c.able /\ c.loaded /\ Len(c.files) > 0
  <2>1. LateState
    BY <1>6
  <2>2. \E i \in DOMAIN mail[s] : Ordered(s, "CONF", i)
    BY DEF Configure
  <2>3. Commanded(s, "CONF") /\ 1 \in DOMAIN mail[s]
    BY <1>0, <2>2, OrderedFirst
  <2>4. m \in ToSet(mail[s])
    BY <2>3 DEF ToSet
  <2>5. Expected(m, Job[s], order, Calm)
    BY <2>1, <2>4 DEF LateState, Mailed
  <2>6. m.opt \in {"close", "stop"}
    BY <2>3, <2>5 DEF Expected, Commanded
  <2>7. m.opt = "stop" /\ slave[s].ready
    BY <1>3, <1>6, <2>6
  <2> QED
    BY <1>3, <2>7 DEF Ready
<1> QED
  BY <1>0, <1>2, <1>5, <1>6, ReadyNext

LEMMA ReadySlave ==
    ASSUME ClusterTypeOK, Overtaking = FALSE, Ready, EarlyInv, NEW s \in Slaves, SlaveStep(s),
           order \in Late => LateState
    PROVE  Ready'
<1>0. mail \in Boxes /\ slave \in [Slaves -> SlaveState] /\ slave[s] \in SlaveState
  BY DEF ClusterTypeOK
<1>1. CASE Discard(s)
  <2>1. UNCHANGED slave
    BY <1>1 DEF Discard
  <2> QED
    BY <2>1, ReadyNext DEF Ready
<1>2. CASE Configure(s)
  BY <1>2, ReadyConfigure
<1>3. CASE PassToken(s)
  <2>1. slave' = [slave EXCEPT ![s].ring = -1]
    BY <1>3, PassTokenEffect
  <2>2. /\ \A u \in Slaves : u # s => slave'[u] = slave[u]
        /\ slave'[s].ready = slave[s].ready /\ slave'[s].able = slave[s].able
        /\ slave'[s].loaded = slave[s].loaded /\ slave'[s].files = slave[s].files
    BY <1>0, <2>1 DEF SlaveState
  <2> QED
    BY <2>2, ReadyNext DEF Ready
<1>4. CASE Encode(s)
  <2>1. \/ slave' = slave
        \/ /\ slave[s].ready
           /\ slave' = [slave EXCEPT
                ![s].files[Len(slave[s].files)] = Append(@, mail[s][1].body),
                ![s].first = TRUE]
    BY <1>4, EncodeEffect
  <2>2. CASE slave' = slave
    BY <2>2, ReadyNext DEF Ready
  <2>3. CASE /\ slave[s].ready
             /\ slave' = [slave EXCEPT
                  ![s].files[Len(slave[s].files)] = Append(@, mail[s][1].body),
                  ![s].first = TRUE]
    <3> DEFINE q == slave[s].files
               g == [q EXCEPT ![Len(q)] = Append(@, mail[s][1].body)]
    <3>1. q \in Seq(Seq(Int)) /\ Len(g) = Len(q)
      BY SlaveTyped
    <3>2. slave' = [slave EXCEPT ![s].files = g, ![s].first = TRUE]
      BY <2>3
    <3> HIDE DEF g
    <3>3. /\ \A u \in Slaves : u # s => slave'[u] = slave[u]
          /\ slave'[s].ready = slave[s].ready /\ slave'[s].able = slave[s].able
          /\ slave'[s].loaded = slave[s].loaded /\ slave'[s].files = g
      BY <1>0, <3>2 DEF SlaveState
    <3>4. slave[s].able /\ slave[s].loaded /\ Len(q) > 0
      BY <2>3 DEF Ready
    <3> QED
      BY <3>1, <3>3, <3>4, ReadyNext
  <2> QED
    BY <2>1, <2>2, <2>3
<1>5. CASE CloseChunk(s)
  <2>1. PICK l \in BOOLEAN : slave' = [slave EXCEPT ![s].loaded = l, ![s].ready = FALSE]
    BY <1>0, <1>5, CloseChunkEffect
  <2>2. (\A u \in Slaves : u # s => slave'[u] = slave[u]) /\ ~slave'[s].ready
    BY <1>0, <2>1 DEF SlaveState
  <2> QED
    BY <2>2, ReadyNext
<1>6. CASE OpenNext(s)
  <2> DEFINE again == [slave[s] EXCEPT !.loaded = TRUE, !.files = Append(@, <<>>)]
             one == [again EXCEPT !.ready = TRUE, !.first = FALSE]
             two == [again EXCEPT !.ring = mail[s][1].seq, !.rc = 1]
  <2>1. \/ slave[s].able /\ slave' = [slave EXCEPT ![s] = one]
        \/ slave' = [slave EXCEPT ![s] = again]
        \/ slave' = [slave EXCEPT ![s] = two]
    BY <1>6, OpenNextEffect
  <2>2. /\ again.able = slave[s].able /\ again.ready = slave[s].ready /\ again.loaded
        /\ again.files = Append(slave[s].files, <<>>)
    BY <1>0 DEF SlaveState
  <2>3. /\ one.able = slave[s].able /\ one.loaded
        /\ one.files = Append(slave[s].files, <<>>)
    BY <1>0 DEF SlaveState
  <2>4. /\ two.able = slave[s].able /\ two.ready = slave[s].ready /\ two.loaded
        /\ two.files = Append(slave[s].files, <<>>)
    BY <1>0 DEF SlaveState
  <2> HIDE DEF again, one, two
  <2>5. Len(Append(slave[s].files, <<>>)) > 0
    <3>1. slave[s].files \in Seq(Seq(Int)) /\ Len(slave[s].files) \in Nat
      BY SlaveTyped
    <3>2. Len(Append(slave[s].files, <<>>)) = Len(slave[s].files) + 1
      BY <3>1, FilesAppended
    <3> QED
      BY <3>1, <3>2
  <2>6. slave[s].ready => slave[s].able
    BY DEF Ready
  <2>7. CASE slave[s].able /\ slave' = [slave EXCEPT ![s] = one]
    <3>1. slave'[s] = one /\ \A u \in Slaves : u # s => slave'[u] = slave[u]
      BY <1>0, <2>7
    <3> QED
      BY <2>3, <2>5, <2>7, <3>1, ReadyNext
  <2>8. CASE slave' = [slave EXCEPT ![s] = again]
    <3>1. slave'[s] = again /\ \A u \in Slaves : u # s => slave'[u] = slave[u]
      BY <1>0, <2>8
    <3> QED
      BY <2>2, <2>5, <2>6, <3>1, ReadyNext
  <2>9. CASE slave' = [slave EXCEPT ![s] = two]
    <3>1. slave'[s] = two /\ \A u \in Slaves : u # s => slave'[u] = slave[u]
      BY <1>0, <2>9
    <3> QED
      BY <2>4, <2>5, <2>6, <3>1, ReadyNext
  <2> QED
    BY <2>1, <2>7, <2>8, <2>9
<1> QED
  BY <1>1, <1>2, <1>3, <1>4, <1>5, <1>6 DEF SlaveStep

LEMMA SlavesAlone ==
    ASSUME MasterStep \/ MergerStep \/ UNCHANGED clustervars
    PROVE  UNCHANGED slave
<1>1. MasterStep => UNCHANGED slave
  BY DEF MasterStep, MultiSend, MultiSent, HandOver, TakeUnused, TakeEnded, Restart,
         CloseCodec, MergerDone
<1>2. MergerStep => UNCHANGED slave
  BY DEF MergerStep, NameDestination, AddElab, AddRemove, Merge
<1> QED
  BY <1>1, <1>2 DEF clustervars

\* What a step from the first chunk on leaves.
LEMMA LateStep ==
    ASSUME LateState, [ClusterNext]_clustervars
    PROVE  order' \in Late => Upheld'
<1>1. CASE UNCHANGED clustervars
  <2>1. UNCHANGED <<mail, slave, elab>> /\ UNCHANGED <<mastervars, elab>>
    BY <1>1 DEF clustervars, mergervars
  <2>2. Gentle(Nobody, 0, {})
    <3>1. Adds(mail, {}) /\ mail' = mail
      BY <2>1, AddsNothing DEF LateState, ClusterTypeOK
    <3>2. Moved(mail, mail', Nobody, 0, {}) /\ KeepsLine(mail, mail', {})
      BY <3>1 DEF Adds
    <3>3. Nobody \notin Tasks
      BY TaskFacts DEF Nobody, Tasks, Master, Merger
    <3>4. Steady /\ \A s \in Slaves : slave'[s].able => slave[s].able
      BY <2>1 DEF Steady
    <3>5. UNCHANGED <<chunk, given, current, used, elab, order>>
      BY <2>1 DEF mastervars
    <3> QED
      BY <3>2, <3>3, <3>4, <3>5 DEF Gentle
  <2>3. Fitting({})
    BY DEF Fitting
  <2>4. order' = order /\ order \in Late
    BY <2>1 DEF mastervars, LateState
  <2> QED
    BY <2>1, <2>2, <2>3, <2>4, GentleStep
<1>2. CASE MasterStep
  BY <1>2, MultiSendLate, MultiSentLate, HandOverLate, TakeLate, CloseCodecLate,
     MergerDoneLate DEF MasterStep
<1>3. CASE MergerStep
  BY <1>3, HeardLate, AddElabLate, MergeLate DEF MergerStep
<1>4. ASSUME NEW s \in Slaves, SlaveStep(s) PROVE order' \in Late => Upheld'
  BY <1>4, DiscardLate, ConfigureLate, PassTokenLate, EncodeLate, CloseChunkLate,
     OpenNextLate DEF SlaveStep
<1> QED
  BY <1>1, <1>2, <1>3, <1>4 DEF ClusterNext

\* The first chunk is begun: nothing is on its way and every file is empty.
LEMMA Entry == ClusterTypeOK /\ Idle /\ Fresh /\ Ready /\ order = "encode" => Upheld
<1> SUFFICES ASSUME ClusterTypeOK, Idle, Fresh, Ready, order = "encode" PROVE Upheld
  OBVIOUS
<1>0. /\ mail \in Boxes /\ Master \in Tasks /\ Merger \in Tasks
      /\ \A t \in Slaves : t \in Tasks /\ t # Merger
      /\ order \notin Ending
  BY TaskFacts DEF ClusterTypeOK, Ending
<1>1. /\ chunk = 0 /\ given = 0 /\ current = 0 /\ elab = <<>>
      /\ \A s \in Slaves :
            /\ used[s] = NoTask /\ ~slave[s].first
            /\ \A n \in 1 .. Len(slave[s].files) : slave[s].files[n] = <<>>
      /\ \A m \in ToSet(mail[Merger]) : m.opt \in {"join_init", "add_remove"}
  BY DEF Fresh
<1>2. \A t \in Tasks \ {Merger} : ToSet(mail[t]) = {}
  <2> SUFFICES ASSUME NEW t \in Tasks \ {Merger} PROVE ToSet(mail[t]) = {}
    OBVIOUS
  <2>1. t \in Slaves \/ t = Master
    BY TaskFacts DEF Tasks, Slaves, Master, Merger
  <2>2. Len(mail[t]) = 0 /\ mail[t] \in Seq(Message)
    BY <1>0, <2>1 DEF Idle, Boxes
  <2> QED
    BY <2>2, MailSet
<1>3. InLine
  <2> SUFFICES ASSUME NEW t \in Tasks PROVE Lined(mail[t])
    BY DEF InLine
  <2>1. mail[t] \in Seq(Message)
    BY <1>0 DEF Boxes
  <2>2. \A i \in 1 .. Len(mail[t]) : mail[t][i] \in ToSet(mail[t])
    BY <2>1, MailSet
  <2>3. \A x, y : y.opt \in {"join_init", "add_remove"} => Before(x, y)
    BY DEF Before
  <2>4. CASE t = Merger
    <3>1. \A i \in 1 .. Len(mail[t]) : mail[t][i].opt \in {"join_init", "add_remove"}
      BY <1>1, <2>2, <2>4
    <3> SUFFICES ASSUME NEW i \in 1 .. Len(mail[t]), NEW j \in 1 .. Len(mail[t])
                 PROVE  Before(mail[t][i], mail[t][j])
      BY DEF Lined
    <3> QED
      BY <2>3, <3>1
  <2>5. CASE t # Merger
    <3> SUFFICES ASSUME NEW i \in 1 .. Len(mail[t]) PROVE FALSE
      BY DEF Lined
    <3>1. mail[t][i] \in ToSet(mail[t])
      BY <2>2
    <3>2. ToSet(mail[t]) = {}
      BY <1>2, <2>5
    <3> QED
      BY <3>1, <3>2
  <2> QED
    BY <2>4, <2>5
<1>4. Mailed
  BY <1>0, <1>1, <1>2, TaskFacts DEF Mailed
<1>5. Rested
  BY DEF Rested, Idle
<1>6. /\ \A t \in Slaves : Job[t] = IF t = 0 THEN 0 ELSE NoTask
      /\ NoTask = -1
  BY <1>1, JobIs DEF NoTask
<1>7. Jobs
  BY <1>1, <1>6 DEF Jobs
<1>8. ToSet(elab) = {} /\ Len(elab) = 0
  BY <1>1 DEF ToSet
<1>9. Sorted
  BY <1>8 DEF Sorted
<1>10. \A p : p \notin Parts
  BY <1>1, <1>8, PartsAre
<1>11. \A c : c \notin Coming
  BY <1>0, <1>2, ComingAre
<1>12. \A t \in Slaves : t \notin Reopening
  BY <1>0, <1>2, ReopeningAre
<1>13. \A s \in Slaves : \A n \in 1 .. Len(Files[s]) : Files[s][n] = <<>>
  BY <1>1, SlaveSets
<1>14. \A s \in Slaves : s \notin Begun
  BY <1>1, SlaveSets
<1>15. Filed(Job, Reopening, Parts, Files, chunk)
  BY <1>10, <1>13 DEF Filed
<1>16. Marked(Job, Reopening, Files, Able, Begun)
  <2>1. ASSUME NEW t \in Able PROVE Len(Files[t]) > 0 /\ t \notin Begun /\ LastFile(Files, t) = <<>>
    <3>1. t \in Slaves /\ slave[t].ready
      BY SlaveSets
    <3>2. Len(Files[t]) > 0 /\ Len(Files[t]) \in Nat
      BY <3>1, SlaveSets, SlaveTyped DEF Ready
    <3>3. Len(Files[t]) \in 1 .. Len(Files[t])
      BY <3>2
    <3> QED
      BY <1>13, <1>14, <3>1, <3>2, <3>3 DEF LastFile
  <2> QED
    BY <1>14, <2>1 DEF Marked
<1>17. Framed(Parts, Coming, Files, chunk, given)
  <2>1. Rising(<<>>)
    BY DEF Rising
  <2> QED
    BY <1>10, <1>11, <1>13, <2>1 DEF Framed
<1> QED
  BY <1>3, <1>4, <1>5, <1>7, <1>9, <1>15, <1>16, <1>17 DEF Upheld, Kept

\* The inductive invariant of the cluster.
ClusterInv ==
    /\ ClusterTypeOK /\ FreeInv /\ EarlyInv /\ Ready
    /\ order \in Late => Upheld

LEMMA InvInit == ClusterInit => ClusterInv
<1> SUFFICES ASSUME ClusterInit PROVE ClusterInv
  OBVIOUS
<1>1. ClusterTypeOK /\ FreeInv
  BY ClusterStartsTyped, FreeInit
<1>2. /\ order = "version" /\ awaiting = FALSE /\ castSeq = -1
      /\ chunk = 0 /\ given = 0 /\ current = 0 /\ elab = <<>>
      /\ used = [s \in Slaves |-> NoTask] /\ mail = [t \in Tasks |-> <<>>]
      /\ slave = [s \in Slaves |->
                    [first |-> FALSE, loaded |-> TRUE, able |-> TRUE, ready |-> FALSE,
                     ring |-> -1, rc |-> 0, files |-> <<>>]]
  BY DEF ClusterInit
<1>3. \A s \in Slaves :
         /\ used[s] = NoTask /\ ~slave[s].first /\ slave[s].loaded /\ ~slave[s].ready
         /\ slave[s].ring = -1 /\ Len(slave[s].files) = 0
  BY <1>2
<1>4. \A t \in Tasks : Len(mail[t]) = 0 /\ ToSet(mail[t]) = {}
  BY <1>2 DEF ToSet
<1>5. Idle
  BY <1>3, <1>4, TaskFacts DEF Idle
<1>6. Round
  BY <1>2, <1>5 DEF Round
<1>7. Fresh
  BY <1>2, <1>3, <1>4, TaskFacts DEF Fresh
<1>8. Ready
  BY <1>3 DEF Ready
<1>9. order \notin Late
  BY <1>2 DEF Late, Giving, Ending
<1> QED
  BY <1>1, <1>6, <1>7, <1>8, <1>9 DEF ClusterInv, EarlyInv

\* From a state in which nothing has been encoded only MOD_open leads on.
LEMMA EarlyOver ==
    ASSUME order \in Early, order' \in Late, [ClusterNext]_clustervars
    PROVE  MultiSent /\ order' = "encode"
<1>1. order' # order
  BY DEF Early, Late, Giving, Ending
<1>2. MasterStep
  <2>1. MergerStep => order' = order
    BY DEF MergerStep, NameDestination, AddElab, AddRemove, Merge, mastervars
  <2>2. \A s \in Slaves : SlaveStep(s) => order' = order
    BY DEF SlaveStep, Discard, Configure, PassToken, Encode, CloseChunk, OpenNext, mastervars
  <2>3. UNCHANGED clustervars => order' = order
    BY DEF clustervars, mastervars
  <2> QED
    BY <1>1, <2>1, <2>2, <2>3 DEF ClusterNext
<1>3. MultiSent
  BY <1>1, <1>2 DEF MasterStep, MultiSend, HandOver, TakeUnused, TakeEnded, CloseCodec,
                    MergerDone, Early
<1>4. order' \in {"over", FollowingCast[order]}
  BY <1>3 DEF MultiSent
<1>5. order' = "encode"
  BY <1>4 DEF FollowingCast, Early, Late, Giving, Ending
<1> QED
  BY <1>3, <1>5

LEMMA InvStep == Overtaking = FALSE /\ ClusterInv /\ [ClusterNext]_clustervars => ClusterInv'
<1> SUFFICES ASSUME Overtaking = FALSE, ClusterInv, [ClusterNext]_clustervars
             PROVE  ClusterInv'
  OBVIOUS
<1>1. ClusterTypeOK /\ FreeInv /\ EarlyInv /\ Ready /\ (order \in Late => Upheld)
  BY DEF ClusterInv
<1>2. ClusterTypeOK' /\ FreeInv'
  BY <1>1, ClusterStepTyped, FreeStep
<1>3. EarlyInv'
  BY <1>1, EarlyStep
<1>4. order \in Late => LateState
  BY <1>1, <1>2 DEF LateState, Upheld, ClusterTypeOK
<1>5. Ready'
  <2>1. ASSUME NEW s \in Slaves, SlaveStep(s) PROVE Ready'
    BY <1>1, <1>4, <2>1, ReadySlave
  <2>2. CASE MasterStep \/ MergerStep \/ UNCHANGED clustervars
    <3>1. slave' = slave
      BY <2>2, SlavesAlone
    <3> QED
      BY <1>1, <3>1 DEF Ready, Slaves
  <2> QED
    BY <2>1, <2>2 DEF ClusterNext
<1>6. ASSUME order' \in Late PROVE Upheld'
  <2>1. CASE order \in Late
    BY <1>4, <1>6, <2>1, LateStep
  <2>2. CASE order \in Early
    <3>1. MultiSent /\ order' = "encode"
      BY <1>6, <2>2, EarlyOver
    <3>2. Idle' /\ Fresh'
      BY <1>1, <2>2, <3>1, RoundOver
    <3>3. (ClusterTypeOK /\ Idle /\ Fresh /\ Ready /\ order = "encode")'
      BY <1>2, <1>5, <3>1, <3>2
    <3> QED
      BY <3>3, Entry, PTL
  <2>3. CASE order = "over"
    <3>1. order' = "over"
      BY <2>3 DEF ClusterNext, MasterStep, MultiSend, MultiSent, HandOver, TakeUnused,
                  TakeEnded, CloseCodec, MergerDone, MergerStep, NameDestination, AddElab,
                  AddRemove, Merge, SlaveStep, Discard, Configure, PassToken, Encode,
                  CloseChunk, OpenNext, clustervars, mastervars, Casts
    <3> QED
      BY <1>6, <3>1 DEF Late, Giving, Ending
  <2>4. order \in Early \cup Late \cup {"over"}
    BY <1>1 DEF ClusterTypeOK, Orders, Casts, Early, Late, Giving, Ending
  <2> QED
    BY <2>1, <2>2, <2>3, <2>4
<1>7. (order \in Late => Upheld)'
  BY <1>6 DEF Late, Giving, Ending
<1> QED
  BY <1>2, <1>3, <1>5, <1>7 DEF ClusterInv

-----------------------------------------------------------------------------
(* Joining the files.                                                       *)

\* Every frame of p is before every frame of q.
Precedes(p, q) == \A f \in ToSet(p), g \in ToSet(q) : f < g

LEMMA RisingConcat ==
    ASSUME NEW p \in Seq(Int), NEW q \in Seq(Int), Rising(p), Rising(q), Precedes(p, q)
    PROVE  /\ p \o q \in Seq(Int) /\ Rising(p \o q)
           /\ \A x : x \in ToSet(p \o q) <=> x \in ToSet(p) \/ x \in ToSet(q)
<1> DEFINE r == p \o q
           m == Len(p)
           n == Len(q)
<1>1. m \in Nat /\ n \in Nat
  OBVIOUS
<1>2. /\ r \in Seq(Int) /\ Len(r) = m + n
      /\ \A i \in 1 .. m + n : r[i] = IF i <= m THEN p[i] ELSE q[i - m]
  BY ConcatProperties
<1>3. /\ \A i \in 1 .. m : p[i] \in ToSet(p)
      /\ \A i \in 1 .. n : q[i] \in ToSet(q)
      /\ \A x \in ToSet(p) : \E i \in 1 .. m : x = p[i]
      /\ \A x \in ToSet(q) : \E i \in 1 .. n : x = q[i]
  BY SetOf
<1> HIDE DEF r, m, n
<1>4. /\ \A i \in 1 .. m + n : r[i] \in ToSet(r)
      /\ \A x \in ToSet(r) : \E i \in 1 .. m + n : x = r[i]
  <2>1. /\ \A i \in 1 .. Len(r) : r[i] \in ToSet(r)
        /\ \A x \in ToSet(r) : \E i \in 1 .. Len(r) : x = r[i]
    BY <1>2, SetOf
  <2> QED
    BY <1>2, <2>1
<1>5. \A i \in 1 .. m : i \in 1 .. m + n /\ r[i] = p[i]
  BY <1>1, <1>2
<1>6. \A i \in 1 .. n : m + i \in 1 .. m + n /\ r[m + i] = q[i]
  <2> SUFFICES ASSUME NEW i \in 1 .. n PROVE m + i \in 1 .. m + n /\ r[m + i] = q[i]
    OBVIOUS
  <2>1. m + i \in 1 .. m + n /\ ~(m + i <= m) /\ (m + i) - m = i
    BY <1>1
  <2> QED
    BY <1>2, <2>1
<1>7. \A i \in 1 .. m + n : i \in 1 .. m \/ (i > m /\ i - m \in 1 .. n /\ r[i] = q[i - m])
  BY <1>1, <1>2
<1>8. Rising(r)
  <2> SUFFICES ASSUME NEW i \in 1 .. m + n, NEW j \in 1 .. m + n, i < j PROVE r[i] < r[j]
    BY <1>2 DEF Rising
  <2>1. CASE i \in 1 .. m /\ j \in 1 .. m
    BY <1>5, <2>1 DEF Rising, m
  <2>2. CASE i \in 1 .. m /\ j \notin 1 .. m
    BY <1>3, <1>5, <1>7, <2>2 DEF Precedes
  <2>3. CASE i \notin 1 .. m
    <3>1. i > m /\ i - m \in 1 .. n /\ r[i] = q[i - m]
      BY <1>7, <2>3
    <3>2. j \notin 1 .. m
      BY <1>1, <3>1
    <3>3. j - m \in 1 .. n /\ r[j] = q[j - m]
      BY <1>7, <3>2
    <3>4. i - m < j - m
      BY <1>1
    <3> QED
      BY <3>1, <3>3, <3>4 DEF Rising, n
  <2> QED
    BY <2>1, <2>2, <2>3
<1>9. ASSUME NEW x PROVE x \in ToSet(r) <=> x \in ToSet(p) \/ x \in ToSet(q)
  <2>1. ASSUME x \in ToSet(r) PROVE x \in ToSet(p) \/ x \in ToSet(q)
    <3>1. PICK i \in 1 .. m + n : x = r[i]
      BY <1>4, <2>1
    <3>2. CASE i \in 1 .. m
      BY <1>3, <1>5, <3>1, <3>2
    <3>3. CASE i \notin 1 .. m
      BY <1>3, <1>7, <3>1, <3>3
    <3> QED
      BY <3>2, <3>3
  <2>2. ASSUME x \in ToSet(p) PROVE x \in ToSet(r)
    BY <1>3, <1>4, <1>5, <2>2
  <2>3. ASSUME x \in ToSet(q) PROVE x \in ToSet(r)
    BY <1>3, <1>4, <1>6, <2>3
  <2> QED
    BY <2>1, <2>2, <2>3
<1> QED
  BY <1>2, <1>8, <1>9 DEF r

\* Pieces that rise, each before the next, are a sequence that rises, of their
\* frames.
Piecewise(a, n) ==
    /\ \A i \in 1 .. n : a[i] \in Seq(Int) /\ Rising(a[i])
    /\ \A i, j \in 1 .. n : i < j => Precedes(a[i], a[j])

Holds(q, a, k) == \A x : x \in ToSet(q) <=> \E i \in 1 .. k : x \in ToSet(a[i])

LEMMA RisingPieces ==
    ASSUME NEW n \in Nat, NEW a, Len(a) = n, n = 0 => a = <<>>, Piecewise(a, n)
    PROVE  /\ FlattenSeq(a) \in Seq(Int) /\ Rising(FlattenSeq(a))
           /\ Holds(FlattenSeq(a), a, n)
<1>1. CASE n = 0
  <2>1. FlattenSeq(a) = <<>>
    BY <1>1 DEF FlattenSeq
  <2>2. <<>> \in Seq(Int) /\ Rising(<<>>) /\ ToSet(<<>>) = {}
    BY DEF Rising, ToSet
  <2> QED
    BY <1>1, <2>1, <2>2 DEF Holds
<1>2. CASE n # 0
  <2>1. PICK f : Flattens(f, a, n)
    BY FlattenExists
  <2> DEFINE Good(k) == f[k] \in Seq(Int) /\ Rising(f[k]) /\ Holds(f[k], a, k)
             S == {k \in Nat : k = 0 \/ Good(k)}
  <2>2. 0 \in S
    OBVIOUS
  <2>3. ASSUME NEW k \in 0 .. n - 1, k \in S PROVE k + 1 \in S
    <3>1. k + 1 \in 1 .. n /\ (k + 1) - 1 = k /\ k + 1 \in Nat /\ k \in Nat
      OBVIOUS
    <3>2. f[k + 1] = IF k + 1 = 1 THEN a[k + 1] ELSE f[(k + 1) - 1] \o a[k + 1]
      <4>1. \A i \in 1 .. n : f[i] = IF i = 1 THEN a[i] ELSE f[i - 1] \o a[i]
        BY <2>1 DEF Flattens
      <4> QED
        BY <3>1, <4>1
    <3>3. a[k + 1] \in Seq(Int) /\ Rising(a[k + 1])
      BY <3>1 DEF Piecewise
    <3>4. CASE k = 0
      <4>1. f[k + 1] = a[k + 1]
        BY <3>2, <3>4
      <4>2. \A i \in 1 .. k + 1 : i = k + 1
        BY <3>4
      <4>3. Holds(a[k + 1], a, k + 1)
        BY <3>4, <4>2 DEF Holds
      <4> QED
        BY <3>1, <3>3, <4>1, <4>3
    <3>5. CASE k # 0
      <4>1. f[k + 1] = f[k] \o a[k + 1]
        <5>1. k + 1 # 1
          BY <3>1, <3>5
        <5> QED
          BY <3>1, <3>2, <5>1
      <4>2. f[k] \in Seq(Int) /\ Rising(f[k]) /\ Holds(f[k], a, k)
        BY <2>3, <3>5
      <4>3. Precedes(f[k], a[k + 1])
        <5> SUFFICES ASSUME NEW x \in ToSet(f[k]), NEW y \in ToSet(a[k + 1]) PROVE x < y
          BY DEF Precedes
        <5>1. PICK i \in 1 .. k : x \in ToSet(a[i])
          BY <4>2 DEF Holds
        <5>2. i \in 1 .. n /\ i < k + 1
          BY <3>1
        <5>3. Precedes(a[i], a[k + 1])
          BY <3>1, <5>2 DEF Piecewise
        <5> QED
          BY <5>1, <5>3 DEF Precedes
      <4>4. /\ f[k] \o a[k + 1] \in Seq(Int) /\ Rising(f[k] \o a[k + 1])
            /\ \A x : x \in ToSet(f[k] \o a[k + 1]) <=> x \in ToSet(f[k]) \/ x \in ToSet(a[k + 1])
        BY <3>3, <4>2, <4>3, RisingConcat
      <4>5. Holds(f[k + 1], a, k + 1)
        <5>1. \A i : i \in 1 .. k + 1 <=> i \in 1 .. k \/ i = k + 1
          BY <3>1
        <5> SUFFICES ASSUME NEW x
                     PROVE  x \in ToSet(f[k + 1]) <=> \E i \in 1 .. k + 1 : x \in ToSet(a[i])
          BY DEF Holds
        <5>2. x \in ToSet(f[k + 1]) <=> x \in ToSet(f[k]) \/ x \in ToSet(a[k + 1])
          BY <4>1, <4>4
        <5>3. x \in ToSet(f[k]) <=> \E i \in 1 .. k : x \in ToSet(a[i])
          BY <4>2 DEF Holds
        <5> QED
          BY <5>1, <5>2, <5>3
      <4> QED
        BY <3>1, <4>1, <4>4, <4>5
    <3> QED
      BY <3>4, <3>5
  <2> HIDE DEF S
  <2>4. \A k \in 0 .. n : k \in S
    BY <2>2, <2>3, UpTo
  <2>5. n \in S
    BY <2>4
  <2>6. Good(n)
    BY <1>2, <2>5 DEF S
  <2>7. FlattenSeq(a) = f[n]
    BY <1>2, <2>1, FlattenLast
  <2> QED
    BY <2>6, <2>7
<1> QED
  BY <1>1, <1>2

\* The frames stored, in a state and in the next.
LEMMA StoredAre ==
    /\ \A f : f \in Stored <=>
          \E s \in Slaves : \E n \in DOMAIN slave[s].files : f \in ToSet(slave[s].files[n])
    /\ \A f : f \in Stored' <=>
          \E s \in Slaves : \E n \in DOMAIN slave'[s].files : f \in ToSet(slave'[s].files[n])
BY DEF Stored, Slaves

\* What the files on the list of the merger have in them.
LEMMA ListedContent ==
    ASSUME ClusterTypeOK, Upheld, NEW k \in DOMAIN elab
    PROVE  LET p == Part(elab[k].seq, elab[k].file)
           IN /\ p \in Parts /\ p[1] = elab[k].seq /\ p[1] \in Int
              /\ p[2] \in Slaves /\ p[3] \in DOMAIN slave[p[2]].files
              /\ Content(Files, p) = ContentOf(elab[k].file)
              /\ Content(Files, p) = slave[p[2]].files[p[3]]
              /\ Content(Files, p) \in Seq(Int) /\ Rising(Content(Files, p))
<1> DEFINE e == elab[k]
           p == Part(e.seq, e.file)
<1>1. k \in 1 .. Len(elab) /\ e \in ToSet(elab) /\ e.seq \in Int
  <2>1. elab \in Seq([seq : Int, file : Int])
    BY DEF ClusterTypeOK
  <2>2. DOMAIN elab = 1 .. Len(elab)
    BY <2>1
  <2>3. k \in 1 .. Len(elab)
    BY <2>2
  <2>4. e \in [seq : Int, file : Int]
    BY <2>1, <2>3, ElementOfSeq
  <2>5. e \in ToSet(elab)
    BY <2>2, <2>3 DEF ToSet
  <2> QED
    BY <2>3, <2>4, <2>5
<1>2. p[1] = e.seq /\ p[2] = e.file % NProc /\ p[3] = e.file \div NProc + 1
  BY DEF Part
<1>3. p \in Parts
  BY <1>1, PartsAre
<1> HIDE DEF p, e
<1>4. p[2] \in Slaves /\ p[3] \in 1 .. Len(Files[p[2]])
  BY <1>3 DEF Upheld, Kept, Filed
<1>5. Files[p[2]] = slave[p[2]].files /\ slave[p[2]].files \in Seq(Seq(Int))
  BY <1>4, SlaveSets, SlaveTyped
<1>6. p[3] \in DOMAIN slave[p[2]].files /\ slave[p[2]].files[p[3]] \in Seq(Int)
  BY <1>4, <1>5
<1>7. Content(Files, p) = slave[p[2]].files[p[3]]
  BY <1>5 DEF Content
<1>8. ContentOf(e.file) = slave[p[2]].files[p[3]]
  BY <1>2 DEF ContentOf
<1>9. Rising(Content(Files, p))
  BY <1>4 DEF Upheld, Kept, Framed, Content
<1> QED
  BY <1>1, <1>2, <1>3, <1>4, <1>6, <1>7, <1>8, <1>9 DEF p, e

\* With the order to join before it, the merger has been told of every file.
LEMMA AllListed ==
    ASSUME ClusterTypeOK, Upheld, mail[Merger] # <<>>, mail[Merger][1].opt = "run",
           NEW p \in Parts
    PROVE  \E k \in DOMAIN elab : p = Part(elab[k].seq, elab[k].file)
<1>1. mail[Merger] \in Seq(Message) /\ Lined(mail[Merger])
  BY TaskFacts DEF ClusterTypeOK, Boxes, Upheld, InLine
<1>2. ASSUME NEW m \in ToSet(mail[Merger]) PROVE m.opt # "add_elab"
  <2>1. PICK i \in 1 .. Len(mail[Merger]) : m = mail[Merger][i]
    BY <1>1, MailSet
  <2>2. CASE i = 1
    BY <2>1, <2>2
  <2>3. CASE i # 1
    <3>1. 1 \in 1 .. Len(mail[Merger]) /\ 1 < i
      BY <1>1, <2>3
    <3>2. Before(mail[Merger][1], mail[Merger][i])
      BY <1>1, <3>1 DEF Lined
    <3> QED
      BY <2>1, <3>2 DEF Before
  <2> QED
    BY <2>2, <2>3
<1>3. PICK e \in ToSet(elab) : p = Part(e.seq, e.file)
  BY <1>2, PartsAre
<1>4. \E k \in DOMAIN elab : e = elab[k]
  BY DEF ToSet, ClusterTypeOK
<1> QED
  BY <1>3, <1>4

InOrder(q, S) ==
    /\ ToSet(q) = S
    /\ \A i, j \in DOMAIN q : i < j => q[i] < q[j]

\* What the merger writes.
LEMMA JoinedInOrder ==
    ASSUME ClusterTypeOK, Upheld, mail[Merger] # <<>>, mail[Merger][1].opt = "run"
    PROVE  InOrder(FlattenSeq([k \in DOMAIN elab |-> ContentOf(elab[k].file)]), Stored)
<1> DEFINE n == Len(elab)
           a == [k \in DOMAIN elab |-> ContentOf(elab[k].file)]
           part(k) == Part(elab[k].seq, elab[k].file)
           r == FlattenSeq(a)
<1>1. n \in Nat /\ DOMAIN elab = 1 .. n
  BY DEF ClusterTypeOK
<1>2. a = [k \in 1 .. n |-> ContentOf(elab[k].file)]
      /\ \A k \in 1 .. n : a[k] = ContentOf(elab[k].file)
  BY <1>1
<1> HIDE DEF a
<1>3. Len(a) = n /\ (n = 0 => a = <<>>)
  BY <1>1, <1>2
<1>4. \A k \in 1 .. n :
         /\ part(k) \in Parts /\ part(k)[1] = elab[k].seq
         /\ part(k)[2] \in Slaves /\ part(k)[3] \in DOMAIN slave[part(k)[2]].files
         /\ Content(Files, part(k)) = a[k]
         /\ a[k] = slave[part(k)[2]].files[part(k)[3]]
         /\ a[k] \in Seq(Int) /\ Rising(a[k])
  BY <1>1, <1>2, ListedContent
<1> HIDE DEF n, part
<1>5. Piecewise(a, n)
  <2>1. ASSUME NEW i \in 1 .. n, NEW j \in 1 .. n, i < j PROVE Precedes(a[i], a[j])
    <3>1. elab[i].seq < elab[j].seq
      BY <2>1 DEF Upheld, Sorted, n
    <3>2. part(i) \in Parts /\ part(j) \in Parts /\ part(i)[1] < part(j)[1]
      BY <1>4, <3>1
    <3>3. \A f \in ToSet(Content(Files, part(i))), g \in ToSet(Content(Files, part(j))) : f < g
      BY <3>2 DEF Upheld, Kept, Framed
    <3> QED
      BY <1>4, <3>3 DEF Precedes
  <2> QED
    BY <1>4, <2>1 DEF Piecewise
<1>6. r \in Seq(Int) /\ Rising(r) /\ Holds(r, a, n)
  BY <1>1, <1>3, <1>5, RisingPieces
<1> HIDE DEF r
<1>7. \A i, j \in DOMAIN r : i < j => r[i] < r[j]
  <2>1. DOMAIN r = 1 .. Len(r)
    BY <1>6
  <2> QED
    BY <1>6, <2>1 DEF Rising
<1>8. ASSUME NEW x \in ToSet(r) PROVE x \in Stored
  <2>1. PICK k \in 1 .. n : x \in ToSet(a[k])
    BY <1>6 DEF Holds
  <2> QED
    BY <1>4, <2>1, StoredAre
<1>9. ASSUME NEW x \in Stored PROVE x \in ToSet(r)
  <2>1. PICK s \in Slaves : \E m \in DOMAIN slave[s].files : x \in ToSet(slave[s].files[m])
    BY StoredAre
  <2>2. PICK m \in DOMAIN slave[s].files : x \in ToSet(slave[s].files[m])
    BY <2>1
  <2>3. Files[s] = slave[s].files /\ m \in 1 .. Len(Files[s]) /\ Files[s][m] # <<>>
    <3>1. Files[s] = slave[s].files
      BY SlaveSets
    <3>2. slave[s].files \in Seq(Seq(Int))
      BY SlaveTyped
    <3>3. slave[s].files[m] # <<>>
      BY <2>2 DEF ToSet
    <3> QED
      BY <3>1, <3>2, <3>3
  <2>4. PICK p \in Parts : p[2] = s /\ p[3] = m
    BY <2>3 DEF Upheld, Kept, Filed
  <2>5. PICK k \in 1 .. n : p = part(k)
    BY <1>1, AllListed DEF part
  <2>6. x \in ToSet(a[k])
    BY <1>4, <2>2, <2>4, <2>5
  <2> QED
    BY <1>6, <2>6 DEF Holds
<1> QED
  BY <1>7, <1>8, <1>9 DEF InOrder, r, a

Joining == {"run", "stop", "over"}

MergedInv == merged # NotMerged => order \in Joining /\ MergedInOrder

\* Slave s may have opened a file; it has written no frame.
SameFrames(s) ==
    slave'[s].files = slave[s].files \/ slave'[s].files = Append(slave[s].files, <<>>)

LEMMA StoredStays ==
    ASSUME ClusterTypeOK, \A s \in Slaves : SameFrames(s)
    PROVE  Stored' = Stored
<1>1. ASSUME NEW s \in Slaves, NEW f
      PROVE  (\E n \in DOMAIN slave'[s].files : f \in ToSet(slave'[s].files[n]))
                <=> \E n \in DOMAIN slave[s].files : f \in ToSet(slave[s].files[n])
  <2>1. CASE slave'[s].files = slave[s].files
    BY <2>1
  <2>2. CASE slave'[s].files = Append(slave[s].files, <<>>)
    <3> DEFINE F == slave[s].files
               G == slave'[s].files
    <3>1. F \in Seq(Seq(Int))
      BY SlaveTyped
    <3> HIDE DEF F, G
    <3>2. G = Append(F, <<>>)
      BY <2>2 DEF F, G
    <3>3. /\ G \in Seq(Seq(Int)) /\ Len(G) = Len(F) + 1
          /\ \A n \in 1 .. Len(F) : G[n] = F[n]
          /\ G[Len(F) + 1] = <<>>
      BY <3>1, <3>2, FilesAppended
    <3>4. DOMAIN F = 1 .. Len(F) /\ Len(F) \in Nat /\ DOMAIN G = 1 .. Len(F) + 1
      BY <3>1, <3>3
    <3>5. /\ \A n \in DOMAIN F : n \in DOMAIN G /\ G[n] = F[n]
          /\ \A n \in DOMAIN G : n \in DOMAIN F \/ G[n] = <<>>
      BY <3>3, <3>4
    <3>6. ToSet(<<>>) = {}
      BY DEF ToSet
    <3>7. (\E n \in DOMAIN G : f \in ToSet(G[n])) <=> \E n \in DOMAIN F : f \in ToSet(F[n])
      BY <3>5, <3>6
    <3> QED
      BY <3>7 DEF F, G
  <2> QED
    BY <2>1, <2>2 DEF SameFrames
<1> QED
  BY <1>1, StoredAre

\* Slaves that are at rest store no frame.
LEMMA RestStores ==
    ASSUME ClusterInv, Overtaking = FALSE, order \in {"run", "stop"}, NEW s \in Slaves,
           SlaveStep(s)
    PROVE  \A u \in Slaves : SameFrames(u)
<1>1. ClusterTypeOK /\ mail \in Boxes /\ ~slave[s].ready /\ slave \in [Slaves -> SlaveState]
  <2>1. Upheld
    BY DEF ClusterInv, Late, Ending
  <2> QED
    BY <2>1 DEF ClusterInv, ClusterTypeOK, Upheld, Rested, Calm
<1>2. ASSUME NEW c, c.files = slave[s].files \/ c.files = Append(slave[s].files, <<>>),
             slave' = [slave EXCEPT ![s] = c]
      PROVE  \A u \in Slaves : SameFrames(u)
  BY <1>1, <1>2 DEF SameFrames
<1>3. CASE slave' = slave
  BY <1>3 DEF SameFrames
<1>4. CASE Discard(s)
  BY <1>3, <1>4 DEF Discard
<1>5. CASE Configure(s)
  <2>1. PICK i \in DOMAIN mail[s], rc \in {0} \cup {1, -1} :
           slave' = [slave EXCEPT ![s] = Carried(s, mail[s][i], rc)]
    BY <1>5 DEF Configure, Refusals
  <2>2. \/ Carried(s, mail[s][i], rc).files = slave[s].files
        \/ Carried(s, mail[s][i], rc).files = Append(slave[s].files, <<>>)
    BY <1>1, CarriedFields
  <2> QED
    BY <1>2, <2>1, <2>2
<1>6. CASE PassToken(s)
  <2>1. slave' = [slave EXCEPT ![s].ring = -1]
    BY <1>6 DEF PassToken
  <2> QED
    BY <1>1, <2>1 DEF SameFrames, SlaveState
<1>7. CASE Encode(s)
  <2>1. slave' = slave
    BY <1>1, <1>7, EncodeEffect
  <2> QED
    BY <1>3, <2>1
<1>8. CASE CloseChunk(s)
  <2>1. PICK l \in BOOLEAN : slave' = [slave EXCEPT ![s].loaded = l, ![s].ready = FALSE]
    BY <1>1, <1>8, CloseChunkEffect
  <2> QED
    BY <1>1, <2>1 DEF SameFrames, SlaveState
<1>9. CASE OpenNext(s)
  <2> DEFINE again == [slave[s] EXCEPT !.loaded = TRUE, !.files = Append(@, <<>>)]
  <2>1. \/ slave' = [slave EXCEPT ![s] = [again EXCEPT !.ready = TRUE, !.first = FALSE]]
        \/ slave' = [slave EXCEPT ![s] = again]
        \/ \E q : slave' = [slave EXCEPT ![s] = [again EXCEPT !.ring = q, !.rc = 1]]
    BY <1>1, <1>9, OpenNextEffect
  <2>2. slave[s] \in SlaveState
    BY <1>1
  <2>3. again.files = Append(slave[s].files, <<>>)
    BY <2>2 DEF SlaveState
  <2>4. /\ [again EXCEPT !.ready = TRUE, !.first = FALSE].files = again.files
        /\ \A q : [again EXCEPT !.ring = q, !.rc = 1].files = again.files
    BY <2>2 DEF SlaveState
  <2> HIDE DEF again
  <2> QED
    BY <1>2, <2>1, <2>3, <2>4
<1> QED
  BY <1>4, <1>5, <1>6, <1>7, <1>8, <1>9 DEF SlaveStep

\* Once the order to join has been given only MOD_stop follows.
LEMMA JoiningStays ==
    ASSUME order \in Joining, [ClusterNext]_clustervars
    PROVE  order' \in Joining
<1>1. CASE MasterStep
  <2>1. CASE MultiSend
    BY <2>1 DEF MultiSend
  <2>2. CASE MultiSent
    <3>1. order \in Casts /\ order' \in {"over", FollowingCast[order]}
      BY <2>2 DEF MultiSent
    <3>2. order = "stop"
      BY <3>1 DEF Joining, Casts
    <3>3. FollowingCast["stop"] = "over"
      BY DEF FollowingCast
    <3> QED
      BY <3>1, <3>2, <3>3 DEF Joining
  <2>3. CASE MergerDone
    <3>1. order' \in {"over", "stop"}
      BY <2>3 DEF MergerDone
    <3> QED
      BY <3>1 DEF Joining
  <2>4. ~HandOver /\ ~TakeUnused /\ ~TakeEnded /\ ~CloseCodec
    BY DEF HandOver, TakeUnused, TakeEnded, CloseCodec, Joining
  <2> QED
    BY <1>1, <2>1, <2>2, <2>3, <2>4 DEF MasterStep
<1>2. CASE MergerStep
  BY <1>2 DEF MergerStep, NameDestination, AddElab, AddRemove, Merge, mastervars
<1>3. ASSUME NEW s \in Slaves, SlaveStep(s) PROVE order' = order
  BY <1>3 DEF SlaveStep, Discard, Configure, PassToken, Encode, CloseChunk, OpenNext, mastervars
<1>4. CASE UNCHANGED clustervars
  BY <1>4 DEF clustervars, mastervars
<1> QED
  BY <1>1, <1>2, <1>3, <1>4 DEF ClusterNext

\* Only PVM_JOIN_OPT_RUN writes the destination.
LEMMA OthersWriteNothing ==
    ASSUME [ClusterNext]_clustervars, ~Merge
    PROVE  merged' = merged /\ failures \subseteq failures'
<1>1. CASE MasterStep
  BY <1>1 DEF MasterStep, MultiSend, MultiSent, HandOver, TakeUnused, TakeEnded, CloseCodec,
              MergerDone, Restart, mergervars
<1>2. CASE MergerStep
  BY <1>2 DEF MergerStep, NameDestination, AddElab, AddRemove, mergervars
<1>3. ASSUME NEW s \in Slaves, SlaveStep(s) PROVE merged' = merged /\ failures \subseteq failures'
  <2>1. merged' = merged
    BY <1>3 DEF SlaveStep, Discard, Configure, PassToken, Encode, CloseChunk, OpenNext,
                mergervars
  <2>2. failures \subseteq failures'
    BY <1>3 DEF SlaveStep, Discard, Configure, PassToken, Encode, CloseChunk, OpenNext,
                Strike, NoStrike
  <2> QED
    BY <2>1, <2>2
<1>4. CASE UNCHANGED clustervars
  BY <1>4 DEF clustervars, mergervars
<1> QED
  BY <1>1, <1>2, <1>3, <1>4 DEF ClusterNext

LEMMA MergedNext ==
    ASSUME merged' # NotMerged => order' \in Joining,
           merged' # NotMerged /\ "copy" \notin failures' => InOrder(merged', Stored')
    PROVE  MergedInv'
BY DEF MergedInv, MergedInOrder, InOrder, Joining, NotMerged

LEMMA MergedIs ==
    ASSUME MergedInv
    PROVE  /\ merged # NotMerged => order \in Joining
           /\ merged # NotMerged /\ "copy" \notin failures => InOrder(merged, Stored)
BY DEF MergedInv, MergedInOrder, InOrder

LEMMA MergedStep ==
    Overtaking = FALSE /\ ClusterInv /\ MergedInv /\ [ClusterNext]_clustervars => MergedInv'
<1> SUFFICES ASSUME Overtaking = FALSE, ClusterInv, MergedInv, [ClusterNext]_clustervars
             PROVE  MergedInv'
  OBVIOUS
<1>1. ClusterTypeOK /\ mail \in Boxes /\ EarlyInv /\ (order \in Late => Upheld)
  BY DEF ClusterInv, ClusterTypeOK
<1>2. CASE Merge
  <2>1. /\ mail[Merger][1].opt = "run" /\ order # "over"
        /\ \/ merged' = FlattenSeq([k \in DOMAIN elab |-> ContentOf(elab[k].file)])
           \/ "copy" \in failures'
           \/ merged' = merged /\ failures \subseteq failures'
        /\ UNCHANGED <<mastervars, slave, elab>>
    BY <1>1, <1>2, MergeEffect
  <2>2. 1 \in DOMAIN mail[Merger] /\ mail[Merger][1] \in ToSet(mail[Merger])
    <3>1. PICK P : Takes(mail', Merger, 1, P)
      BY <1>1, <1>2, MergeEffect
    <3>2. mail[Merger] \in Seq(Message) /\ 1 \in 1 .. Len(mail[Merger])
      BY <3>1 DEF Takes
    <3> QED
      BY <3>2, MailSet
  <2>3. order \in Late
    <3>1. order \notin Early
      BY <1>1, <2>1, <2>2 DEF EarlyInv, Fresh
    <3>2. order \in Early \cup Late \cup {"over"}
      BY <1>1 DEF ClusterTypeOK, Orders, Casts, Early, Late, Giving, Ending
    <3> QED
      BY <2>1, <3>1, <3>2
  <2>4. Upheld /\ order \in {"run", "stop"}
    BY <1>1, <2>1, <2>2, <2>3 DEF Upheld, Mailed
  <2>5. order' \in Joining
    BY <2>1, <2>4 DEF Joining, mastervars
  <2>6. Stored' = Stored
    BY <1>1, <2>1, StoredStays DEF SameFrames
  <2>7. CASE merged' = FlattenSeq([k \in DOMAIN elab |-> ContentOf(elab[k].file)])
    <3>1. mail[Merger] # <<>>
      BY <2>2
    <3>2. InOrder(merged', Stored)
      BY <1>1, <2>1, <2>4, <2>7, <3>1, JoinedInOrder
    <3> QED
      BY <2>5, <2>6, <3>2, MergedNext
  <2>8. CASE "copy" \in failures'
    BY <2>5, <2>8, MergedNext
  <2>9. CASE merged' = merged /\ failures \subseteq failures'
    BY <2>5, <2>6, <2>9, MergedIs, MergedNext
  <2> QED
    BY <2>1, <2>7, <2>8, <2>9
<1>3. CASE ~Merge
  <2>1. merged' = merged /\ failures \subseteq failures'
    BY <1>3, OthersWriteNothing
  <2>2. CASE merged = NotMerged
    BY <2>1, <2>2, MergedNext
  <2>3. CASE merged # NotMerged
    <3>1. order \in Joining /\ order' \in Joining
      BY <2>3, MergedIs, JoiningStays
    <3>2. \A u \in Slaves : SameFrames(u)
      <4>1. CASE \E s \in Slaves : SlaveStep(s)
        <5>1. PICK s \in Slaves : SlaveStep(s)
          BY <4>1
        <5>2. order # "over"
          BY <5>1 DEF SlaveStep, Discard, Configure, PassToken, Encode, CloseChunk, OpenNext,
                      Ordered
        <5>3. order \in {"run", "stop"}
          BY <3>1, <5>2 DEF Joining
        <5> QED
          BY <5>1, <5>3, RestStores
      <4>2. CASE MasterStep \/ MergerStep \/ UNCHANGED clustervars
        <5>1. slave' = slave
          BY <4>2, SlavesAlone
        <5> QED
          BY <5>1 DEF SameFrames
      <4> QED
        BY <4>1, <4>2 DEF ClusterNext
    <3>3. Stored' = Stored
      BY <1>1, <3>2, StoredStays
    <3> QED
      BY <2>1, <3>1, <3>3, MergedIs, MergedNext
  <2> QED
    BY <2>2, <2>3
<1> QED
  BY <1>2, <1>3

-----------------------------------------------------------------------------
(* The results.                                                             *)

\* The variables of the cluster keep their types.
THEOREM ClusterTyped == ClusterSpec => []ClusterTypeOK
BY ClusterStartsTyped, ClusterStepTyped, PTL DEF ClusterSpec

\* Whatever order the reports arrive in and whichever step fails: a slave that
\* has reported the end of its chunk is the one slave the table has for it, it
\* has been sent nothing since, and its encoder is unloaded, so MOD_encode can
\* give it the next chunk (f_pvm_balancer() with "first-free").
THEOREM FreeSlavesAreFree == ClusterSpec => []FreeTaskKnown
<1>1. FreeInv /\ ClusterTypeOK => FreeTaskKnown
  <2> SUFFICES ASSUME FreeInv, ClusterTypeOK, order = "first-free",
                      NEW i \in DOMAIN mail[Master], mail[Master][i].tag = "ENDTASK"
               PROVE  /\ Cardinality(WhoHad(mail[Master][i].seq)) = 1
                      /\ \A t \in WhoHad(mail[Master][i].seq) :
                            /\ \A k \in DOMAIN mail[t] : mail[t][k].from # Master
                            /\ ~slave[t].loaded
    BY DEF FreeTaskKnown
  <2>1. PICK t \in Freed : WhoHad(mail[Master][i].seq) = {t}
    BY OwnerFree
  <2>2. t \in Slaves /\ Quiet(mail[t]) /\ ~slave[t].loaded
    BY DEF Freed
  <2>3. \A k \in DOMAIN mail[t] : k \in 1 .. Len(mail[t])
    BY <2>2, TaskFacts, TakenOut DEF ClusterTypeOK
  <2>4. Cardinality({t}) = 1
    BY FS_Singleton
  <2> QED
    BY <2>1, <2>2, <2>3, <2>4 DEF Quiet
<1> QED
  BY <1>1, ClusterStartsTyped, ClusterStepTyped, FreeInit, FreeStep, PTL DEF ClusterSpec

\* When messages of different senders arrive in the order in which they are sent:
\* whatever fails, and however the chunks end and are announced, the destination
\* holds the frames that the slaves have encoded, all of them and in the order of
\* the stream (PVM_JOIN_OPT_RUN), but for a file the merger could not read.
THEOREM MergeKeepsOrder ==
    ASSUME Overtaking = FALSE
    PROVE  ClusterSpec => []MergedInOrder
<1>1. ClusterInit => ClusterInv /\ MergedInv
  <2>1. ClusterInit => MergedInv
    BY DEF ClusterInit, MergedInv
  <2> QED
    BY <2>1, InvInit
<1>2. ClusterInv /\ MergedInv /\ [ClusterNext]_clustervars => ClusterInv' /\ MergedInv'
  BY InvStep, MergedStep
<1>3. MergedInv => MergedInOrder
  BY DEF MergedInv, MergedInOrder
<1> QED
  BY <1>1, <1>2, <1>3, PTL DEF ClusterSpec
=============================================================================
