------------------------- MODULE AVTranscodeProofs -------------------------
(***************************************************************************)
(* Proofs about both streams of a transcoding (AVTranscode.tla), for every *)
(* capacity, every input, shift and list of ranges:                        *)
(*                                                                         *)
(*   AVTypeCorrect    the types, and what a queue may hold                 *)
(*   ContentsEncoded  the empty frame of a failed read is never encoded    *)
(*   PairsInSync      the audio that is encoded is the one recorded with   *)
(*                    the video                                            *)
(*                                                                         *)
(* ImporterFeeds and EncoderServes first reduce the actions to the few     *)
(* things that can happen to a queue.  AVBase, the types, is inductive by  *)
(* itself.  AVCore adds the numbers of the frames in a queue, where the    *)
(* encoder is in its range, and where a frame without contents whose flag  *)
(* was consumed can be (SpentGuarded).  AVSync adds, for one file of each  *)
(* stream, what the frames hold and how far the two streams are apart at   *)
(* each place of the encoder loop (Paired).                                *)
(*                                                                         *)
(* The last two theorems suppose a frame between two ranges (Gapped).  At  *)
(* the end of a range is_last_frame leaves its last pair at the heads of   *)
(* the queues without their END_OF_STREAM; a range that begins right there *)
(* encodes them.                                                           *)
(***************************************************************************)
EXTENDS AVTranscode, SequenceTheorems, TLAPS

-----------------------------------------------------------------------------
(* The four things that happen to a queue.                                  *)

Flags == {"END_OF_STREAM", "SKIPPED", "OUT_OF_RANGE", "IS_CLONED", "WAS_CLONED"}

Queues == queue \in [Streams -> Seq(AVFrames)]

Added(s, f) ==
    /\ Len(queue'[s]) = Len(queue[s]) + 1
    /\ \A i \in 1 .. Len(queue[s]) : queue'[s][i] = queue[s][i]
    /\ queue'[s][Len(queue[s]) + 1] = f

Pushed(s, d, a) ==
    /\ Len(queue'[s]) = Len(queue[s])
    /\ \A i \in 1 .. Len(queue[s]) - 1 : queue'[s][i] = queue[s][i]
    /\ queue'[s][Len(queue[s])] =
          [id |-> queue[s][Len(queue[s])].id, stage |-> "READY", data |-> d, attributes |-> a]

Dropped(s) ==
    /\ Len(queue[s]) > 0
    /\ Len(queue'[s]) = Len(queue[s]) - 1
    /\ \A i \in 1 .. Len(queue[s]) - 1 : queue'[s][i] = queue[s][i + 1]

Marked(s, a) ==
    /\ Len(queue[s]) > 0
    /\ Len(queue'[s]) = Len(queue[s])
    /\ queue'[s][1] = [id |-> queue[s][1].id, stage |-> queue[s][1].stage,
                       data |-> queue[s][1].data, attributes |-> a]
    /\ \A i \in 2 .. Len(queue[s]) : queue'[s][i] = queue[s][i]

Elsewhere(s) == \A t \in Streams : t # s => queue'[t] = queue[t]

\* The frames of a queue, and its head.
LEMMA QueueFacts ==
    ASSUME Queues, NEW s \in Streams
    PROVE  /\ queue[s] \in Seq(AVFrames) /\ Len(queue[s]) \in Nat
           /\ \A i \in 1 .. Len(queue[s]) : queue[s][i] \in AVFrames
           /\ queue[s] # <<>> <=> Len(queue[s]) > 0
           /\ queue[s] # <<>> => Head(queue[s]) = queue[s][1] /\ 1 \in 1 .. Len(queue[s])
                                 /\ Len(queue[s]) \in 1 .. Len(queue[s])
<1>1. queue[s] \in Seq(AVFrames)
  BY DEF Queues
<1>2. Len(queue[s]) \in Nat /\ \A i \in 1 .. Len(queue[s]) : queue[s][i] \in AVFrames
  BY <1>1, LenProperties, ElementOfSeq
<1>3. queue[s] = <<>> <=> Len(queue[s]) = 0
  BY <1>1, EmptySeq
<1>4. queue[s] # <<>> => Head(queue[s]) = queue[s][1]
  BY <1>1, HeadTailProperties
<1> QED
  BY <1>1, <1>2, <1>3, <1>4

\* A registered frame becomes the last.
LEMMA AppendEffect ==
    ASSUME Queues, NEW s \in Streams, NEW f \in AVFrames,
           queue' = [queue EXCEPT ![s] = Append(@, f)]
    PROVE  Queues' /\ Added(s, f) /\ Elsewhere(s)
<1>1. queue[s] \in Seq(AVFrames) /\ queue'[s] = Append(queue[s], f)
  BY DEF Queues
<1>2. /\ Append(queue[s], f) \in Seq(AVFrames)
      /\ Len(Append(queue[s], f)) = Len(queue[s]) + 1
      /\ \A i \in 1 .. Len(queue[s]) : Append(queue[s], f)[i] = queue[s][i]
      /\ Append(queue[s], f)[Len(queue[s]) + 1] = f
  BY <1>1, AppendProperties
<1> QED
  BY <1>1, <1>2 DEF Queues, Added, Elsewhere

\* A disposed frame was the first.
LEMMA TailEffect ==
    ASSUME Queues, NEW s \in Streams, queue[s] # <<>>,
           queue' = [queue EXCEPT ![s] = Tail(@)]
    PROVE  Queues' /\ Dropped(s) /\ Elsewhere(s)
<1>1. queue[s] \in Seq(AVFrames) /\ queue'[s] = Tail(queue[s])
  BY DEF Queues
<1>2. /\ Tail(queue[s]) \in Seq(AVFrames)
      /\ Len(Tail(queue[s])) = Len(queue[s]) - 1
      /\ \A i \in 1 .. Len(Tail(queue[s])) : Tail(queue[s])[i] = queue[s][i + 1]
  BY <1>1, HeadTailProperties
<1>3. Len(queue[s]) > 0
  BY QueueFacts
<1> QED
  BY <1>1, <1>2, <1>3 DEF Queues, Dropped, Elsewhere

\* A push changes the last frame, and nothing else.
LEMMA PushEffect ==
    ASSUME Queues, NEW s \in Streams, queue[s] # <<>>,
           NEW d \in Int, NEW a \in SUBSET Flags, Push(s, d, a)
    PROVE  Queues' /\ Pushed(s, d, a) /\ Elsewhere(s)
<1> DEFINE n == Len(queue[s])
           r == [id |-> queue[s][n].id, stage |-> "READY", data |-> d, attributes |-> a]
<1>1. queue[s] \in Seq(AVFrames) /\ n \in Nat /\ n \in 1 .. n /\ queue[s][n] \in AVFrames
  BY QueueFacts
<1>2. r \in AVFrames
  BY <1>1 DEF AVFrames, Flags
<1>3. [queue[s] EXCEPT ![n] = r] = [queue[s] EXCEPT ![n].stage = "READY", ![n].data = d,
                                                    ![n].attributes = a]
  BY <1>1 DEF AVFrames
<1>4. queue' = [queue EXCEPT ![s] = [queue[s] EXCEPT ![n] = r]]
  BY <1>1, <1>3 DEF Push, Queues
<1>5. /\ [queue[s] EXCEPT ![n] = r] \in Seq(AVFrames)
      /\ Len([queue[s] EXCEPT ![n] = r]) = n
      /\ \A i \in 1 .. n : [queue[s] EXCEPT ![n] = r][i] = IF i = n THEN r ELSE queue[s][i]
  BY <1>1, <1>2, ExceptSeq
<1>6. queue'[s] = [queue[s] EXCEPT ![n] = r] /\ queue' \in [Streams -> Seq(AVFrames)]
  BY <1>4, <1>5 DEF Queues
<1> HIDE DEF r
<1>7. Pushed(s, d, a)
  BY <1>1, <1>5, <1>6 DEF Pushed, r
<1> QED
  BY <1>4, <1>6, <1>7 DEF Queues, Elsewhere

\* New attributes change the first frame, and nothing else.
LEMMA HeadEffect ==
    ASSUME Queues, NEW s \in Streams, queue[s] # <<>>, NEW a \in SUBSET Flags,
           queue'[s] = [queue[s] EXCEPT ![1].attributes = a]
    PROVE  queue'[s] \in Seq(AVFrames) /\ Marked(s, a)
<1> DEFINE n == Len(queue[s])
           r == [id |-> queue[s][1].id, stage |-> queue[s][1].stage,
                 data |-> queue[s][1].data, attributes |-> a]
<1>1. queue[s] \in Seq(AVFrames) /\ n \in Nat /\ 1 \in 1 .. n /\ queue[s][1] \in AVFrames
  BY QueueFacts
<1>2. r \in AVFrames
  BY <1>1 DEF AVFrames, Flags
<1>3. queue'[s] = [queue[s] EXCEPT ![1] = r]
  BY <1>1 DEF AVFrames
<1>5. /\ [queue[s] EXCEPT ![1] = r] \in Seq(AVFrames)
      /\ Len([queue[s] EXCEPT ![1] = r]) = n
      /\ \A i \in 1 .. n : [queue[s] EXCEPT ![1] = r][i] = IF i = 1 THEN r ELSE queue[s][i]
  BY <1>1, <1>2, ExceptSeq
<1> HIDE DEF r
<1>7. Marked(s, a)
  BY <1>1, <1>3, <1>5 DEF Marked, r
<1> QED
  BY <1>3, <1>5, <1>7

\* The attributes of both heads change.
LEMMA MarkEffect ==
    ASSUME Queues, queue["video"] # <<>>, queue["audio"] # <<>>,
           NEW v \in SUBSET Flags, NEW a \in SUBSET Flags, Mark(v, a)
    PROVE  Queues' /\ Marked("video", v) /\ Marked("audio", a)
<1>0. "video" \in Streams /\ "audio" \in Streams
  BY DEF Streams
<1>1. /\ queue'["video"] = [queue["video"] EXCEPT ![1].attributes = v]
      /\ queue'["audio"] = [queue["audio"] EXCEPT ![1].attributes = a]
      /\ queue' = [s \in Streams |-> queue'[s]]
  BY <1>0 DEF Mark, Queues
<1>2. queue'["video"] \in Seq(AVFrames) /\ Marked("video", v)
  BY <1>0, <1>1, HeadEffect
<1>3. queue'["audio"] \in Seq(AVFrames) /\ Marked("audio", a)
  BY <1>0, <1>1, HeadEffect
<1>4. \A s \in Streams : queue'[s] \in Seq(AVFrames)
  BY <1>2, <1>3 DEF Streams
<1> QED
  BY <1>1, <1>2, <1>3, <1>4 DEF Queues

-----------------------------------------------------------------------------
(* The types.                                                               *)

\* At most the last frame of a queue is being filled.
Stages(s) ==
    /\ Len(queue[s]) <= Capacity
    /\ \A i \in 1 .. Len(queue[s]) : queue[s][i].stage = "EMPTY"
                                       <=> pc[s] = "fill" /\ i = Len(queue[s])
    /\ pc[s] = "fill" => queue[s] # <<>>

\* The head of s is ready and no skipped frame: the encoder can work on it.
Offered(s) ==
    /\ queue[s] # <<>> /\ queue[s][1].stage = "READY"
    /\ "SKIPPED" \notin queue[s][1].attributes

Acquired ==
    /\ pc["encoder"] \in {"audio", "pair", "dispose_video"} => Offered("video")
    /\ pc["encoder"] \in {"pair", "dispose_video", "dispose_audio"} => Offered("audio")

Lines ==
    /\ pc \in [Threads -> ImportPC \cup EncodePC]
    /\ \A s \in Streams : pc[s] \in ImportPC
    /\ pc["encoder"] \in EncodePC

Scalars ==
    /\ asleep \in [Threads -> {"no", "yes", "woken"}]
    /\ run \in {"RUNNING", "STOPPED", "INTERRUPTED"}
    /\ active \in [Streams -> BOOLEAN]
    /\ sync \in Int /\ shift \in Int
    /\ frameId \in [Streams -> Nat] /\ pos \in [Streams -> Nat]
    /\ cut \in DOMAIN Cuts /\ delays \in 0 .. MaxDelays

Files ==
    /\ input \in [Streams -> Seq(Nat) \ {<<>>}]
    /\ file \in [Streams -> Nat]
    /\ \A s \in Streams : file[s] \in 1 .. Len(input[s])

AVBase == Lines /\ Scalars /\ Files /\ Queues /\ (\A s \in Streams : Stages(s)) /\ Acquired

\* The inductive invariant implies the types.
LEMMA BaseTypes == AVBase => AVTypeOK
<1> SUFFICES ASSUME AVBase PROVE AVTypeOK
  OBVIOUS
<1>1. ASSUME NEW s \in Streams
      PROVE  /\ Len(queue[s]) <= Capacity
             /\ {i \in DOMAIN queue[s] : queue[s][i].stage = "EMPTY"}
                   = IF pc[s] = "fill" THEN {Len(queue[s])} ELSE {}
             /\ pc[s] = "fill" => queue[s] # <<>>
  <2>1. DOMAIN queue[s] = 1 .. Len(queue[s])
    BY LenProperties, QueueFacts DEF AVBase
  <2>2. Stages(s)
    BY DEF AVBase
  <2>3. queue[s] # <<>> => Len(queue[s]) \in 1 .. Len(queue[s])
    BY QueueFacts DEF AVBase
  <2> QED
    BY <2>1, <2>2, <2>3 DEF Stages
<1> QED
  BY <1>1 DEF AVBase, AVTypeOK, Lines, Scalars, Queues

\* The encoding ranges are pairs of numbers.
LEMMA CutFacts ==
    /\ Len(Cuts) \in Nat /\ DOMAIN Cuts = 1 .. Len(Cuts)
    /\ \A k \in DOMAIN Cuts : Cuts[k][1] \in Nat /\ Cuts[k][2] \in Nat
<1>1. Cuts \in Seq(Nat \X Nat)
  BY AVAssumption
<1> QED
  BY <1>1, LenProperties, ElementOfSeq

\* The three threads.
LEMMA ThreadNames ==
    /\ "video" \in Streams /\ "audio" \in Streams /\ "encoder" \notin Streams
    /\ Streams \subseteq Threads /\ "encoder" \in Threads
BY DEF Streams, Threads

-----------------------------------------------------------------------------
(* What an importer does.                                                   *)

\* No frame will come any more.
Ended(s) ==
    \/ pc[s] \in {"wake", "exit"}
    \/ pc[s] \in {"end", "next"} /\ file[s] = Len(input[s])

Importing(s) == pc[s] \in {"loop", "register", "fill"}

\* No frame comes or goes.
Quiet(s) ==
    /\ UNCHANGED <<queue, frameId, sync>>
    /\ pc[s] # "fill" /\ pc'[s] # "fill"
    /\ Ended(s) => Ended(s)'
    /\ ~Directory /\ pc[s] \notin {"open", "next", "wake"} =>
          /\ UNCHANGED <<pos, file>>
          /\ pc'[s] \notin {"open", "next", "wake"}
          /\ Importing(s)' => Importing(s)

\* An empty frame is registered.
Enters(s) ==
    /\ pc[s] = "register" /\ pc'[s] = "fill"
    /\ Len(queue[s]) < Capacity
    /\ Added(s, [id |-> frameId[s], stage |-> "EMPTY", data |-> NoData, attributes |-> {}])
    /\ UNCHANGED <<frameId, sync, file, pos>>

\* It gets contents.
Reads(s) ==
    /\ pc[s] = "fill" /\ pc'[s] = "loop"
    /\ frameId' = [frameId EXCEPT ![s] = @ + 1]
    /\ UNCHANGED file
    /\ \/ /\ s = "audio" /\ sync < 0 /\ Pushed(s, Silence, {})
          /\ sync' = sync + 1 /\ UNCHANGED pos
       \/ /\ ~(s = "audio" /\ sync < 0) /\ Pushed(s, pos[s] + Discards(s), {})
          /\ pos' = [pos EXCEPT ![s] = @ + Discards(s) + 1]
          /\ sync' = IF s = "audio" THEN 0 ELSE sync

\* It gets none.
Fails(s) ==
    /\ pc[s] = "fill" /\ pc'[s] = "end"
    /\ Pushed(s, NoData, {IF file[s] < Len(input[s]) THEN "SKIPPED" ELSE "END_OF_STREAM"})
    /\ UNCHANGED <<frameId, file>>
    /\ \A t \in Streams : t # s => pos'[t] = pos[t]
    /\ s # "audio" => sync' = sync

Feeds(s) == Quiet(s) \/ Enters(s) \/ Reads(s) \/ Fails(s)

\* As many frames are thrown away as the shift still asks for.
LEMMA DiscardsType == \A s \in Streams : Scalars => Discards(s) \in Nat
BY DEF Discards, Scalars

\* Every importer step is one of the four, and keeps the types of what it changes.
LEMMA ImporterFeeds ==
    ASSUME NEW s \in Streams
    PROVE  AVBase /\ ImporterStep(s) =>
               /\ Feeds(s) /\ Queues' /\ Elsewhere(s)
               /\ Lines' /\ \A t \in Threads : t # s => pc'[t] = pc[t]
               /\ Scalars' /\ Files'
               /\ UNCHANGED <<run, input, shift, cut, delays, sig>>
<1> SUFFICES ASSUME AVBase, ImporterStep(s)
             PROVE  /\ Feeds(s) /\ Queues' /\ Elsewhere(s)
                    /\ Lines' /\ \A t \in Threads : t # s => pc'[t] = pc[t]
                    /\ Scalars' /\ Files'
                    /\ UNCHANGED <<run, input, shift, cut, delays, sig>>
  OBVIOUS
<1>0. /\ s \in Threads /\ s # "encoder" /\ Lines /\ Scalars /\ Files /\ Queues /\ Stages(s)
      /\ "audio" \in Streams /\ "encoder" \in Threads /\ Discards(s) \in Nat
  BY ThreadNames, DiscardsType DEF AVBase
<1>1. ASSUME NEW l \in ImportPC, Goto(s, l)
      PROVE  /\ Lines' /\ pc'[s] = l /\ \A t \in Threads : t # s => pc'[t] = pc[t]
  BY <1>0, <1>1, ThreadNames DEF Goto, Lines
<1>2. \A T : Wake(T) \in [Threads -> {"no", "yes", "woken"}]
  BY <1>0 DEF Wake, Scalars
<1>3. UNCHANGED queue => Queues' /\ Elsewhere(s)
  BY <1>0 DEF Queues, Elsewhere
<1>4. input[s][file[s]] \in Nat /\ Left(s) \in Int /\ Len(input[s]) \in Nat
  <2>1. input[s] \in Seq(Nat) /\ file[s] \in 1 .. Len(input[s])
    BY <1>0 DEF Files
  <2>2. input[s][file[s]] \in Nat /\ Len(input[s]) \in Nat
    BY <2>1, ElementOfSeq, LenProperties
  <2>3. pos[s] \in Nat
    BY <1>0 DEF Scalars
  <2> QED
    BY <2>2, <2>3 DEF Left
<1>5. Over \in ImportPC /\ Over # "fill" /\ (~Directory => Over = "exit")
      /\ Over \in {"next", "exit"}
  BY DEF Over, ImportPC
<1>6. CASE Import(s)
  <2>1. PICK l \in {"register", Over} : Goto(s, l)
    BY <1>6 DEF Import
  <2>2. l \in ImportPC
    BY <1>5 DEF ImportPC
  <2>3. UNCHANGED <<asleep, queue, run, active, source, flow, sig>> /\ pc[s] = "loop"
    BY <1>6 DEF Import, At
  <2>4. Lines' /\ pc'[s] = l /\ \A t \in Threads : t # s => pc'[t] = pc[t]
    BY <1>1, <2>1, <2>2
  <2>5. Quiet(s)
    BY <1>5, <2>3, <2>4 DEF Quiet, Ended, Importing, source
  <2> QED
    BY <1>0, <1>3, <2>3, <2>4, <2>5 DEF Feeds, Scalars, Files, source, flow
<1>7. CASE ImportFrame(s)
  <2> DEFINE blank == [id |-> frameId[s], stage |-> "EMPTY", data |-> NoData,
                       attributes |-> {}]
  <2>1. pc[s] = "register" /\ UNCHANGED <<run, active, source, flow, sig>>
    BY <1>7 DEF ImportFrame, At
  <2>2. CASE Sleep(s)
    <3>1. UNCHANGED <<pc, queue>> /\ asleep' \in [Threads -> {"no", "yes", "woken"}]
      BY <1>0, <2>2 DEF Sleep, Scalars
    <3>2. Quiet(s) /\ Lines'
      BY <1>0, <2>1, <3>1 DEF Quiet, Ended, Importing, source, Lines
    <3> QED
      BY <1>0, <1>3, <2>1, <3>1, <3>2 DEF Feeds, Scalars, Files, source, flow
  <2>3. CASE /\ asleep' = [asleep EXCEPT ![s] = "no"]
             /\ Goto(s, Over) /\ UNCHANGED queue
    <3>1. Lines' /\ pc'[s] = Over /\ \A t \in Threads : t # s => pc'[t] = pc[t]
      BY <1>1, <1>5, <2>3
    <3>2. Quiet(s) /\ asleep' \in [Threads -> {"no", "yes", "woken"}]
      BY <1>0, <1>5, <2>1, <2>3, <3>1 DEF Quiet, Ended, Importing, source, Scalars
    <3> QED
      BY <1>0, <1>3, <2>1, <2>3, <3>1, <3>2 DEF Feeds, Scalars, Files, source, flow
  <2>4. CASE /\ Len(queue[s]) # Capacity
             /\ queue' = [queue EXCEPT ![s] = Append(@, blank)]
             /\ asleep' = [asleep EXCEPT ![s] = "no"]
             /\ Goto(s, "fill")
    <3>1. Lines' /\ pc'[s] = "fill" /\ \A t \in Threads : t # s => pc'[t] = pc[t]
      BY <1>1, <2>4 DEF ImportPC
    <3>2. blank \in AVFrames
      BY <1>0 DEF Scalars, AVFrames, NoData
    <3>3. Queues' /\ Added(s, blank) /\ Elsewhere(s)
      BY <1>0, <2>4, <3>2, AppendEffect
    <3>4. Len(queue[s]) < Capacity
      BY <1>0, <2>4, AVAssumption, QueueFacts DEF Stages
    <3>5. Enters(s)
      BY <2>1, <3>1, <3>3, <3>4 DEF Enters, source
    <3>6. asleep' \in [Threads -> {"no", "yes", "woken"}]
      BY <1>0, <2>4 DEF Scalars
    <3> QED
      BY <1>0, <2>1, <3>1, <3>3, <3>5, <3>6 DEF Feeds, Scalars, Files, source, flow
  <2> QED
    BY <1>7, <2>2, <2>3, <2>4 DEF ImportFrame
<1>8. ASSUME NEW d \in Int, NEW a \in SUBSET Flags, Push(s, d, a), pc[s] = "fill"
      PROVE  Queues' /\ Elsewhere(s) /\ Pushed(s, d, a)
             /\ asleep' \in [Threads -> {"no", "yes", "woken"}]
  <2>1. queue[s] # <<>>
    BY <1>0, <1>8 DEF Stages
  <2>2. asleep' \in [Threads -> {"no", "yes", "woken"}]
    BY <1>0, <1>2, <1>8 DEF Push, Scalars
  <2> QED
    BY <1>0, <1>8, <2>1, <2>2, PushEffect
<1>9. CASE Pad(s)
  <2>1. /\ pc[s] = "fill" /\ s = "audio" /\ sync < 0 /\ Push(s, Silence, {})
        /\ sync' = sync + 1 /\ frameId' = [frameId EXCEPT ![s] = @ + 1]
        /\ Goto(s, "loop")
        /\ UNCHANGED <<run, active, input, file, pos, shift, flow, sig>>
    BY <1>9 DEF Pad, At
  <2>2. /\ Queues' /\ Elsewhere(s) /\ Pushed(s, Silence, {})
        /\ asleep' \in [Threads -> {"no", "yes", "woken"}]
    BY <1>8, <2>1 DEF Silence, Flags
  <2>3. Lines' /\ pc'[s] = "loop" /\ \A t \in Threads : t # s => pc'[t] = pc[t]
    BY <1>1, <2>1 DEF ImportPC
  <2>4. Scalars' /\ Files'
    BY <1>0, <2>1, <2>2 DEF Scalars, Files, flow
  <2>5. Reads(s)
    BY <2>1, <2>2, <2>3 DEF Reads
  <2> QED
    BY <2>1, <2>2, <2>3, <2>4, <2>5 DEF Feeds, flow
<1>10. CASE Fill(s)
  <2>1. /\ pc[s] = "fill" /\ ~(s = "audio" /\ sync < 0)
        /\ Push(s, pos[s] + Discards(s), {})
        /\ pos' = [pos EXCEPT ![s] = @ + Discards(s) + 1]
        /\ sync' = IF s = "audio" THEN 0 ELSE sync
        /\ frameId' = [frameId EXCEPT ![s] = @ + 1]
        /\ Goto(s, "loop")
        /\ UNCHANGED <<run, active, input, file, shift, flow, sig>>
    BY <1>10 DEF Fill, At
  <2>a. pos[s] + Discards(s) \in Int
    BY <1>0 DEF Scalars
  <2>2. /\ Queues' /\ Elsewhere(s) /\ Pushed(s, pos[s] + Discards(s), {})
        /\ asleep' \in [Threads -> {"no", "yes", "woken"}]
    BY <1>8, <2>1, <2>a DEF Flags
  <2>3. Lines' /\ pc'[s] = "loop" /\ \A t \in Threads : t # s => pc'[t] = pc[t]
    BY <1>1, <2>1 DEF ImportPC
  <2>b. pos' \in [Streams -> Nat] /\ frameId' \in [Streams -> Nat] /\ sync' \in Int
    <3> HIDE DEF Discards
    <3>1. pos[s] \in Nat /\ pos[s] + Discards(s) + 1 \in Nat /\ frameId[s] + 1 \in Nat
      BY <1>0 DEF Scalars
    <3> QED
      BY <1>0, <2>1, <3>1 DEF Scalars
  <2>4. Scalars' /\ Files'
    BY <1>0, <2>1, <2>2, <2>b DEF Scalars, Files, flow
  <2>5. Reads(s)
    BY <2>1, <2>2, <2>3 DEF Reads
  <2> QED
    BY <2>1, <2>2, <2>3, <2>4, <2>5 DEF Feeds, flow
<1>11. CASE FillFails(s)
  <2> DEFINE a == {IF file[s] < Len(input[s]) THEN "SKIPPED" ELSE "END_OF_STREAM"}
  <2>1. /\ pc[s] = "fill" /\ Push(s, NoData, a)
        /\ pos' = [pos EXCEPT ![s] = @ + Left(s)]
        /\ sync' = IF s = "audio" THEN sync - Left(s) ELSE sync
        /\ Goto(s, "end")
        /\ UNCHANGED <<run, active, input, file, frameId, shift, flow, sig>>
    BY <1>11 DEF FillFails, At
  <2>a. pos' \in [Streams -> Nat] /\ sync' \in Int
    <3>1. pos[s] \in Nat /\ pos \in [Streams -> Nat] /\ sync \in Int
      BY <1>0 DEF Scalars
    <3>2. pos[s] + Left(s) = input[s][file[s]]
      BY <1>4, <3>1 DEF Left
    <3>3. pos[s] + Left(s) \in Nat /\ sync - Left(s) \in Int
      BY <1>4, <3>1, <3>2
    <3> QED
      BY <2>1, <3>1, <3>3
  <2>2. /\ Queues' /\ Elsewhere(s) /\ Pushed(s, NoData, a)
        /\ asleep' \in [Threads -> {"no", "yes", "woken"}]
    BY <1>8, <2>1 DEF NoData, Flags
  <2>3. Lines' /\ pc'[s] = "end" /\ \A t \in Threads : t # s => pc'[t] = pc[t]
    BY <1>1, <2>1 DEF ImportPC
  <2>4. Scalars' /\ Files'
    BY <1>0, <2>1, <2>2, <2>a DEF Scalars, Files, flow
  <2>5. Fails(s)
    <3>1. \A t \in Streams : t # s => pos'[t] = pos[t]
      BY <1>0, <2>1 DEF Scalars
    <3> QED
      BY <2>1, <2>2, <2>3, <3>1 DEF Fails
  <2> QED
    BY <2>1, <2>2, <2>3, <2>4, <2>5 DEF Feeds, flow
<1>12. CASE ImportEnd(s)
  <2>1. /\ pc[s] = "end" /\ active' = [active EXCEPT !["audio"] = FALSE]
        /\ Goto(s, Over) /\ UNCHANGED <<asleep, queue, run, source, flow, sig>>
    BY <1>12 DEF ImportEnd, At
  <2>2. Lines' /\ pc'[s] = Over /\ \A t \in Threads : t # s => pc'[t] = pc[t]
    BY <1>1, <1>5, <2>1
  <2>3. Quiet(s)
    BY <1>5, <2>1, <2>2 DEF Quiet, Ended, Importing, source
  <2> QED
    BY <1>0, <1>3, <2>1, <2>2, <2>3 DEF Feeds, Scalars, Files, source, flow
<1>13. CASE OpenFile(s)
  <2>1. PICK l \in {"loop", "wake"} : Goto(s, l)
    BY <1>13 DEF OpenFile
  <2>2. /\ pc[s] = "open" /\ UNCHANGED <<asleep, queue, run, active, source, flow, sig>>
    BY <1>13 DEF OpenFile, At
  <2>3. Lines' /\ pc'[s] = l /\ \A t \in Threads : t # s => pc'[t] = pc[t]
    BY <1>1, <2>1 DEF ImportPC
  <2>4. Quiet(s)
    BY <2>2, <2>3 DEF Quiet, Ended, Importing, source
  <2> QED
    BY <1>0, <1>3, <2>2, <2>3, <2>4 DEF Feeds, Scalars, Files, source, flow
<1>14. CASE NextFile(s)
  <2>1. /\ pc[s] = "next"
        /\ UNCHANGED <<asleep, queue, run, active, input, frameId, sync, shift, flow, sig>>
    BY <1>14 DEF NextFile, At
  <2>2. CASE /\ file[s] < Len(input[s])
             /\ file' = [file EXCEPT ![s] = @ + 1]
             /\ pos' = [pos EXCEPT ![s] = 0]
             /\ Goto(s, "open")
    <3>1. Lines' /\ pc'[s] = "open" /\ \A t \in Threads : t # s => pc'[t] = pc[t]
      BY <1>1, <2>2 DEF ImportPC
    <3>2. Quiet(s)
      BY <2>1, <2>2, <3>1 DEF Quiet, Ended
    <3>3. file' \in [Streams -> Nat] /\ pos' \in [Streams -> Nat]
          /\ \A t \in Streams : file'[t] \in 1 .. Len(input[t])
      <4>1. file[s] \in 1 .. Len(input[s]) /\ file[s] \in Nat
        BY <1>0 DEF Files
      <4>2. file[s] + 1 \in 1 .. Len(input[s]) /\ file[s] + 1 \in Nat
        BY <1>4, <2>2, <4>1
      <4> QED
        BY <1>0, <2>2, <4>2 DEF Files, Scalars
    <3>4. Scalars' /\ Files'
      BY <1>0, <2>1, <3>3 DEF Scalars, Files, flow
    <3> QED
      BY <1>3, <2>1, <3>1, <3>2, <3>4 DEF Feeds, flow
  <2>3. CASE Goto(s, "wake") /\ UNCHANGED <<file, pos>>
    <3>1. Lines' /\ pc'[s] = "wake" /\ \A t \in Threads : t # s => pc'[t] = pc[t]
      BY <1>1, <2>3 DEF ImportPC
    <3>2. Quiet(s)
      BY <2>1, <2>3, <3>1 DEF Quiet, Ended
    <3> QED
      BY <1>0, <1>3, <2>1, <2>3, <3>1, <3>2 DEF Feeds, Scalars, Files, flow
  <2> QED
    BY <1>14, <2>2, <2>3 DEF NextFile
<1>15. CASE ImportWakes(s)
  <2>1. /\ pc[s] = "wake" /\ asleep' = Wake(Threads) /\ Goto(s, "exit")
        /\ UNCHANGED <<queue, run, active, source, flow, sig>>
    BY <1>15 DEF ImportWakes, At
  <2>2. Lines' /\ pc'[s] = "exit" /\ \A t \in Threads : t # s => pc'[t] = pc[t]
    BY <1>1, <2>1 DEF ImportPC
  <2>3. Quiet(s)
    BY <2>1, <2>2 DEF Quiet, Ended, Importing, source
  <2> QED
    BY <1>0, <1>2, <1>3, <2>1, <2>2, <2>3 DEF Feeds, Scalars, Files, source, flow
<1> QED
  BY <1>6, <1>7, <1>9, <1>10, <1>11, <1>12, <1>13, <1>14, <1>15 DEF ImporterStep

-----------------------------------------------------------------------------
(* What the encoder and the main thread do.                                 *)

From(l, k) == pc["encoder"] = l /\ pc'["encoder"] = k

\* No frame comes, goes or changes.
Moves ==
    /\ UNCHANGED <<queue, cut, delays>>
    /\ \/ From("need_stop", "video") \/ From("need_stop", "range")
       \/ \E s \in Streams : From(s, s) \/ From(s, "range")
       \/ From("video", "audio") /\ Offered("video")
       \/ From("audio", "pair") /\ Offered("audio")
       \/ From("range", "stop")
       \/ LoopLeft /\ LoopLeft'

Advances ==
    /\ From("range", "need_stop")
    /\ cut < Len(Cuts) /\ cut' = cut + 1
    /\ UNCHANGED <<queue, delays>>

\* A skipped frame is removed on the way to the next.
Overlooks(s) ==
    /\ From(s, s) /\ HeadReady(s) /\ "SKIPPED" \in queue[s][1].attributes
    /\ Dropped(s) /\ Elsewhere(s)
    /\ UNCHANGED flow

\* The attributes of the pair change.
Labels(v, a) == Marked("video", v) /\ Marked("audio", a)

Consumes ==
    /\ From("pair", "range") /\ IsLast
    /\ Labels(queue["video"][1].attributes \ {"END_OF_STREAM"},
              queue["audio"][1].attributes \ {"END_OF_STREAM"})
    /\ UNCHANGED flow

Ignores ==
    /\ From("pair", "dispose_video") /\ ~IsLast /\ ~InRange
    /\ Labels(queue["video"][1].attributes \cup {"OUT_OF_RANGE"},
              queue["audio"][1].attributes \cup {"OUT_OF_RANGE"})
    /\ UNCHANGED flow

Encodes == From("pair", "dispose_video") /\ Exporting /\ UNCHANGED <<queue, cut, delays>>

Delays ==
    /\ From("pair", "dispose_video") /\ Exporting
    /\ Labels(queue["video"][1].attributes, queue["audio"][1].attributes \cup {"IS_CLONED"})
    /\ delays' = delays + 1 /\ UNCHANGED cut

DropsVideo ==
    /\ From("dispose_video", "dispose_audio")
    /\ Dropped("video") /\ Elsewhere("video")
    /\ UNCHANGED flow

DropsAudio ==
    /\ From("dispose_audio", "need_stop") /\ "IS_CLONED" \notin queue["audio"][1].attributes
    /\ Dropped("audio") /\ Elsewhere("audio")
    /\ UNCHANGED flow

KeepsAudio ==
    /\ From("dispose_audio", "need_stop") /\ "IS_CLONED" \in queue["audio"][1].attributes
    /\ Marked("audio", (queue["audio"][1].attributes \ {"IS_CLONED"}) \cup {"WAS_CLONED"})
    /\ Elsewhere("audio")
    /\ UNCHANGED flow

Serves ==
    \/ Moves \/ Advances \/ (\E s \in Streams : Overlooks(s)) \/ Consumes \/ Ignores
    \/ Encodes \/ Delays \/ DropsVideo \/ DropsAudio \/ KeepsAudio

\* The frame the encoder sees is the first of the queue.
LEMMA HeadFacts ==
    ASSUME Queues, NEW s \in Streams, queue[s] # <<>>
    PROVE  /\ First(s) = queue[s][1] /\ queue[s][1] \in AVFrames
           /\ queue[s][1].attributes \in SUBSET Flags
           /\ HeadReady(s) <=> queue[s][1].stage = "READY"
<1>1. Head(queue[s]) = queue[s][1] /\ queue[s][1] \in AVFrames
  BY QueueFacts
<1> QED
  BY <1>1 DEF First, HeadReady, AVFrames, Flags

\* Every step of the encoder and the main thread is one of the ten.
LEMMA EncoderServes ==
    AVBase /\ EncoderStep =>
        /\ Serves /\ Queues'
        /\ Lines' /\ \A s \in Streams : pc'[s] = pc[s]
        /\ Scalars' /\ UNCHANGED source
<1> SUFFICES ASSUME AVBase, EncoderStep
             PROVE  /\ Serves /\ Queues'
                    /\ Lines' /\ \A s \in Streams : pc'[s] = pc[s]
                    /\ Scalars' /\ UNCHANGED source
  OBVIOUS
<1>0. /\ Lines /\ Scalars /\ Queues /\ Acquired
      /\ "video" \in Streams /\ "audio" \in Streams /\ "encoder" \in Threads
      /\ "encoder" \notin Streams /\ "video" # "audio"
  BY ThreadNames DEF AVBase
<1>1. ASSUME NEW k \in EncodePC, Goto("encoder", k)
      PROVE  /\ Lines' /\ pc'["encoder"] = k /\ \A s \in Streams : pc'[s] = pc[s]
  BY <1>0, <1>1, ThreadNames DEF Goto, Lines
<1>2. \A T : Wake(T) \in [Threads -> {"no", "yes", "woken"}]
  BY <1>0 DEF Wake, Scalars
<1>3. UNCHANGED queue => Queues'
  BY <1>0 DEF Queues
<1>4. UNCHANGED pc => Lines' /\ \A s \in Streams : pc'[s] = pc[s]
  BY <1>0 DEF Lines
<1>5. ASSUME NEW s \in Streams, Dispose(s), queue[s] # <<>>
      PROVE  Dropped(s) /\ Elsewhere(s) /\ Queues' /\ asleep' \in [Threads -> {"no", "yes", "woken"}]
  <2>1. Dropped(s) /\ Elsewhere(s) /\ Queues'
    BY <1>0, <1>5, TailEffect DEF Dispose
  <2>2. asleep' \in [Threads -> {"no", "yes", "woken"}]
    BY <1>0, <1>2, <1>5 DEF Dispose
  <2> QED
    BY <2>1, <2>2
<1>6. CASE NeedStop
  <2>1. PICK k \in {"video", "range"} : Goto("encoder", k)
    BY <1>6 DEF NeedStop
  <2>2. pc["encoder"] = "need_stop" /\ UNCHANGED <<asleep, queue, run, active, source, flow, sig>>
    BY <1>6 DEF NeedStop, At
  <2>3. Lines' /\ pc'["encoder"] = k /\ \A s \in Streams : pc'[s] = pc[s]
    BY <1>1, <2>1 DEF EncodePC
  <2>4. Moves
    BY <2>1, <2>2, <2>3 DEF Moves, From, flow
  <2> QED
    BY <1>0, <1>3, <2>2, <2>3, <2>4 DEF Serves, Scalars, source, flow
<1>7. ASSUME NEW s \in Streams, Acquire(s)
      PROVE  /\ Serves /\ Queues'
             /\ Lines' /\ \A t \in Streams : pc'[t] = pc[t]
             /\ Scalars' /\ UNCHANGED source
  <2>1. pc["encoder"] = s /\ UNCHANGED <<run, active, source, flow, sig>>
    BY <1>7 DEF Acquire, At
  <2>2. CASE Sleep("encoder")
    <3>1. UNCHANGED <<pc, queue>> /\ asleep' \in [Threads -> {"no", "yes", "woken"}]
      BY <1>0, <2>2 DEF Sleep, Scalars
    <3>2. Moves
      BY <2>1, <3>1 DEF Moves, From, flow
    <3> QED
      BY <1>0, <1>3, <1>4, <2>1, <3>1, <3>2 DEF Serves, Scalars, source, flow
  <2>3. CASE /\ asleep' = [asleep EXCEPT !["encoder"] = "no"]
             /\ Goto("encoder", "range") /\ UNCHANGED queue
    <3>1. Lines' /\ pc'["encoder"] = "range" /\ \A t \in Streams : pc'[t] = pc[t]
      BY <1>1, <2>3 DEF EncodePC
    <3>2. Moves /\ asleep' \in [Threads -> {"no", "yes", "woken"}]
      BY <1>0, <2>1, <2>3, <3>1 DEF Moves, From, flow, Scalars
    <3> QED
      BY <1>0, <1>3, <2>1, <2>3, <3>1, <3>2 DEF Serves, Scalars, source, flow
  <2>4. CASE /\ HeadReady(s) /\ "SKIPPED" \in Head(queue[s]).attributes
             /\ Dispose(s) /\ UNCHANGED pc
    <3>1. queue[s] # <<>> /\ Head(queue[s]) = queue[s][1]
      BY <1>0, <2>4, QueueFacts DEF HeadReady
    <3>2. Dropped(s) /\ Elsewhere(s) /\ Queues' /\ asleep' \in [Threads -> {"no", "yes", "woken"}]
      BY <1>5, <2>4, <3>1
    <3>3. Overlooks(s)
      BY <2>1, <2>4, <3>1, <3>2 DEF Overlooks, From
    <3> QED
      BY <1>0, <1>4, <2>1, <2>4, <3>2, <3>3 DEF Serves, Scalars, source, flow
  <2>5. CASE /\ HeadReady(s) /\ "SKIPPED" \notin Head(queue[s]).attributes
             /\ asleep' = [asleep EXCEPT !["encoder"] = "no"]
             /\ Goto("encoder", IF s = "video" THEN "audio" ELSE "pair")
             /\ UNCHANGED queue
    <3>1. Offered(s)
      BY <1>0, <2>5, QueueFacts DEF HeadReady, Offered
    <3>2. /\ Lines' /\ pc'["encoder"] = (IF s = "video" THEN "audio" ELSE "pair")
          /\ \A t \in Streams : pc'[t] = pc[t]
      BY <1>1, <2>5 DEF EncodePC
    <3>3. Moves
      BY <2>1, <2>5, <3>1, <3>2 DEF Moves, From, flow, Streams
    <3>4. asleep' \in [Threads -> {"no", "yes", "woken"}]
      BY <1>0, <2>5 DEF Scalars
    <3> QED
      BY <1>0, <1>3, <2>1, <2>5, <3>2, <3>3, <3>4 DEF Serves, Scalars, source, flow
  <2> QED
    BY <1>7, <2>2, <2>3, <2>4, <2>5 DEF Acquire
<1>8. pc["encoder"] = "pair" =>
          /\ queue["video"] # <<>> /\ queue["audio"] # <<>>
          /\ First("video") = queue["video"][1] /\ First("audio") = queue["audio"][1]
          /\ queue["video"][1].attributes \in SUBSET Flags
          /\ queue["audio"][1].attributes \in SUBSET Flags
  BY <1>0, HeadFacts DEF Acquired, Offered
<1>9. ASSUME pc["encoder"] = "pair", NEW v \in SUBSET Flags, NEW a \in SUBSET Flags, Mark(v, a)
      PROVE  Queues' /\ Labels(v, a)
  BY <1>0, <1>8, <1>9, MarkEffect DEF Labels
<1>10. CASE Consume
  <2> DEFINE v == queue["video"][1].attributes \ {"END_OF_STREAM"}
             a == queue["audio"][1].attributes \ {"END_OF_STREAM"}
  <2>1. /\ pc["encoder"] = "pair" /\ IsLast /\ Goto("encoder", "range") /\ Mark(v, a)
        /\ UNCHANGED <<asleep, run, active, source, flow, sig>>
    BY <1>8, <1>10 DEF Consume, At
  <2>2. v \in SUBSET Flags /\ a \in SUBSET Flags
    BY <1>8, <2>1
  <2>3. Queues' /\ Labels(v, a)
    BY <1>9, <2>1, <2>2
  <2>4. Lines' /\ pc'["encoder"] = "range" /\ \A s \in Streams : pc'[s] = pc[s]
    BY <1>1, <2>1 DEF EncodePC
  <2>5. Consumes
    BY <2>1, <2>3, <2>4 DEF Consumes, From
  <2> QED
    BY <1>0, <2>1, <2>3, <2>4, <2>5 DEF Serves, Scalars, source, flow
<1>11. CASE Skip
  <2> DEFINE v == queue["video"][1].attributes \cup {"OUT_OF_RANGE"}
             a == queue["audio"][1].attributes \cup {"OUT_OF_RANGE"}
  <2>1. /\ pc["encoder"] = "pair" /\ ~IsLast /\ ~InRange
        /\ Goto("encoder", "dispose_video") /\ Mark(v, a)
        /\ UNCHANGED <<asleep, run, active, source, flow, sig>>
    BY <1>8, <1>11 DEF Skip, At
  <2>2. v \in SUBSET Flags /\ a \in SUBSET Flags
    BY <1>8, <2>1 DEF Flags
  <2>3. Queues' /\ Labels(v, a)
    BY <1>9, <2>1, <2>2
  <2>4. Lines' /\ pc'["encoder"] = "dispose_video" /\ \A s \in Streams : pc'[s] = pc[s]
    BY <1>1, <2>1 DEF EncodePC
  <2>5. Ignores
    BY <2>1, <2>3, <2>4 DEF Ignores, From
  <2> QED
    BY <1>0, <2>1, <2>3, <2>4, <2>5 DEF Serves, Scalars, source, flow
<1>12. CASE Export
  <2>1. /\ pc["encoder"] = "pair" /\ Exporting /\ Goto("encoder", "dispose_video")
        /\ UNCHANGED <<asleep, run, active, source, cut, sig>>
    BY <1>12 DEF Export, At
  <2>2. Lines' /\ pc'["encoder"] = "dispose_video" /\ \A s \in Streams : pc'[s] = pc[s]
    BY <1>1, <2>1 DEF EncodePC
  <2>3. CASE UNCHANGED <<queue, delays>>
    <3>1. Encodes
      BY <2>1, <2>2, <2>3 DEF Encodes, From
    <3> QED
      BY <1>0, <1>3, <2>1, <2>2, <2>3, <3>1 DEF Serves, Scalars, source
  <2>4. CASE /\ delays < MaxDelays /\ delays' = delays + 1
             /\ Mark(First("video").attributes, First("audio").attributes \cup {"IS_CLONED"})
    <3> DEFINE v == queue["video"][1].attributes
               a == queue["audio"][1].attributes \cup {"IS_CLONED"}
    <3>1. v \in SUBSET Flags /\ a \in SUBSET Flags
      BY <1>8, <2>1 DEF Flags
    <3>2. Queues' /\ Labels(v, a)
      BY <1>8, <1>9, <2>1, <2>4, <3>1
    <3>3. Delays
      BY <2>1, <2>2, <2>4, <3>2 DEF Delays, From
    <3>4. delays' \in 0 .. MaxDelays
      BY <1>0, <2>4, AVAssumption DEF Scalars
    <3> QED
      BY <1>0, <2>1, <2>2, <3>2, <3>3, <3>4 DEF Serves, Scalars, source
  <2> QED
    BY <1>12, <2>3, <2>4 DEF Export
<1>13. CASE DisposeVideo
  <2>1. /\ pc["encoder"] = "dispose_video" /\ Dispose("video") /\ Goto("encoder", "dispose_audio")
        /\ UNCHANGED <<run, active, source, flow, sig>>
    BY <1>13 DEF DisposeVideo, At
  <2>2. /\ Dropped("video") /\ Elsewhere("video") /\ Queues'
        /\ asleep' \in [Threads -> {"no", "yes", "woken"}]
    BY <1>0, <1>5, <2>1 DEF Acquired, Offered
  <2>3. Lines' /\ pc'["encoder"] = "dispose_audio" /\ \A s \in Streams : pc'[s] = pc[s]
    BY <1>1, <2>1 DEF EncodePC
  <2>4. DropsVideo
    BY <2>1, <2>2, <2>3 DEF DropsVideo, From
  <2> QED
    BY <1>0, <2>1, <2>2, <2>3, <2>4 DEF Serves, Scalars, source, flow
<1>14. CASE DisposeAudio
  <2>1. /\ pc["encoder"] = "dispose_audio" /\ Goto("encoder", "need_stop")
        /\ UNCHANGED <<run, active, source, flow, sig>>
    BY <1>14 DEF DisposeAudio, At
  <2>2. /\ queue["audio"] # <<>> /\ First("audio") = queue["audio"][1]
        /\ queue["audio"][1].attributes \in SUBSET Flags
    BY <1>0, <2>1, HeadFacts DEF Acquired, Offered
  <2>3. Lines' /\ pc'["encoder"] = "need_stop" /\ \A s \in Streams : pc'[s] = pc[s]
    BY <1>1, <2>1 DEF EncodePC
  <2>4. CASE "IS_CLONED" \in queue["audio"][1].attributes
    <3> DEFINE a == (queue["audio"][1].attributes \ {"IS_CLONED"}) \cup {"WAS_CLONED"}
    <3>1. queue' = [queue EXCEPT !["audio"][1].attributes = a] /\ UNCHANGED asleep
      BY <1>14, <2>2, <2>4 DEF DisposeAudio
    <3>2. a \in SUBSET Flags
      BY <2>2 DEF Flags
    <3>3. queue'["audio"] = [queue["audio"] EXCEPT ![1].attributes = a]
          /\ queue'["video"] = queue["video"] /\ queue' = [s \in Streams |-> queue'[s]]
      BY <1>0, <3>1 DEF Queues
    <3>4. queue'["audio"] \in Seq(AVFrames) /\ Marked("audio", a)
      BY <1>0, <2>2, <3>2, <3>3, HeadEffect
    <3>5. Queues' /\ Elsewhere("audio")
      <4>1. \A s \in Streams : queue'[s] \in Seq(AVFrames)
        BY <1>0, <3>3, <3>4 DEF Streams, Queues
      <4> QED
        BY <3>3, <4>1 DEF Queues, Elsewhere, Streams
    <3>6. KeepsAudio
      BY <2>1, <2>3, <2>4, <3>4, <3>5 DEF KeepsAudio, From
    <3> QED
      BY <1>0, <2>1, <2>3, <3>1, <3>5, <3>6 DEF Serves, Scalars, source, flow
  <2>5. CASE "IS_CLONED" \notin queue["audio"][1].attributes
    <3>1. Dispose("audio")
      BY <1>14, <2>2, <2>5 DEF DisposeAudio
    <3>2. /\ Dropped("audio") /\ Elsewhere("audio") /\ Queues'
          /\ asleep' \in [Threads -> {"no", "yes", "woken"}]
      BY <1>0, <1>5, <2>2, <3>1
    <3>3. DropsAudio
      BY <2>1, <2>3, <2>5, <3>2 DEF DropsAudio, From
    <3> QED
      BY <1>0, <2>1, <2>3, <3>2, <3>3 DEF Serves, Scalars, source, flow
  <2> QED
    BY <2>4, <2>5
<1>15. CASE NextCut
  <2>1. /\ pc["encoder"] = "range"
        /\ UNCHANGED <<asleep, queue, run, active, source, delays, sig>>
    BY <1>15 DEF NextCut, At
  <2>2. CASE Goto("encoder", "stop") /\ cut' = cut
    <3>1. Lines' /\ pc'["encoder"] = "stop" /\ \A s \in Streams : pc'[s] = pc[s]
      BY <1>1, <2>2 DEF EncodePC
    <3>2. Moves
      BY <2>1, <2>2, <3>1 DEF Moves, From
    <3> QED
      BY <1>0, <1>3, <2>1, <2>2, <3>1, <3>2 DEF Serves, Scalars, source
  <2>3. CASE cut # Len(Cuts) /\ Goto("encoder", "need_stop") /\ cut' = cut + 1
    <3>1. Lines' /\ pc'["encoder"] = "need_stop" /\ \A s \in Streams : pc'[s] = pc[s]
      BY <1>1, <2>3 DEF EncodePC
    <3>2. cut < Len(Cuts) /\ cut' \in DOMAIN Cuts
      BY <1>0, <2>3, CutFacts DEF Scalars
    <3>3. Advances
      BY <2>1, <2>3, <3>1, <3>2 DEF Advances, From
    <3> QED
      BY <1>0, <1>3, <2>1, <3>1, <3>2, <3>3 DEF Serves, Scalars, source
  <2> QED
    BY <1>15, <2>2, <2>3 DEF NextCut
<1>16. CASE Stop \/ StopWakes \/ Cancel \/ CancelWakes \/ Join
  <2>1. PICK k \in {"interrupt", "cancel", "wake", "join", "done"} : Goto("encoder", k)
    BY <1>16 DEF Stop, StopWakes, Cancel, CancelWakes, Join
  <2>2. LoopLeft /\ UNCHANGED <<queue, source, flow>>
    BY <1>16 DEF Stop, StopWakes, Cancel, CancelWakes, Join, At, LoopLeft
  <2>3. Lines' /\ pc'["encoder"] = k /\ \A s \in Streams : pc'[s] = pc[s]
    BY <1>1, <2>1 DEF EncodePC
  <2>4. Moves
    BY <2>1, <2>2, <2>3 DEF Moves, LoopLeft, flow
  <2>5. /\ asleep' \in [Threads -> {"no", "yes", "woken"}]
        /\ run' \in {"RUNNING", "STOPPED", "INTERRUPTED"}
        /\ active' \in [Streams -> BOOLEAN]
    BY <1>0, <1>2, <1>16 DEF Stop, StopWakes, Cancel, CancelWakes, Join, Scalars
  <2> QED
    BY <1>0, <1>3, <2>2, <2>3, <2>4, <2>5 DEF Serves, Scalars, source, flow
<1> QED
  BY <1>6, <1>7, <1>10, <1>11, <1>12, <1>13, <1>14, <1>15, <1>16 DEF EncoderStep

-----------------------------------------------------------------------------
(* The types are kept.                                                      *)

\* A feeding importer leaves the frames that are ready alone.
Untouched(s) ==
    /\ Len(queue[s]) <= Len(queue'[s])
    /\ \A i \in 1 .. Len(queue[s]) : queue[s][i].stage = "READY" => queue'[s][i] = queue[s][i]

\* Only the frame that is being filled changes under an importer.
LEMMA FeedingLeaves ==
    ASSUME Queues, NEW s \in Streams, Stages(s), Feeds(s)
    PROVE  Untouched(s)
<1>1. Len(queue[s]) \in Nat /\ (queue[s] # <<>> => Len(queue[s]) \in 1 .. Len(queue[s]))
  BY QueueFacts
<1>2. CASE Quiet(s)
  BY <1>1, <1>2 DEF Quiet, Untouched
<1>3. CASE Enters(s)
  BY <1>1, <1>3 DEF Enters, Added, Untouched
<1>4. ASSUME NEW d, NEW a, Pushed(s, d, a), pc[s] = "fill" PROVE Untouched(s)
  <2>1. queue[s][Len(queue[s])].stage = "EMPTY"
    BY <1>1, <1>4 DEF Stages
  <2>2. ASSUME NEW i \in 1 .. Len(queue[s]), queue[s][i].stage = "READY"
        PROVE  queue'[s][i] = queue[s][i]
    <3>1. i # Len(queue[s])
      BY <2>1, <2>2
    <3>2. i \in 1 .. Len(queue[s]) - 1
      BY <1>1, <3>1
    <3> QED
      BY <1>4, <3>2 DEF Pushed
  <2> QED
    BY <1>1, <1>4, <2>2 DEF Pushed, Untouched
<1>5. CASE Reads(s)
  BY <1>4, <1>5 DEF Reads
<1>6. CASE Fails(s)
  BY <1>4, <1>6 DEF Fails
<1> QED
  BY <1>2, <1>3, <1>5, <1>6 DEF Feeds

\* A frame the encoder holds stays where it is.
LEMMA OfferStays ==
    ASSUME Queues, Queues', NEW s \in Streams, Untouched(s)
    PROVE  Offered(s) => Offered(s)' /\ queue'[s][1] = queue[s][1]
<1> SUFFICES ASSUME Offered(s) PROVE Offered(s)' /\ queue'[s][1] = queue[s][1]
  OBVIOUS
<1>1. 1 \in 1 .. Len(queue[s]) /\ Len(queue[s]) \in Nat
  BY QueueFacts DEF Offered
<1>2. queue'[s][1] = queue[s][1]
  BY <1>1 DEF Untouched, Offered
<1>3. queue'[s] # <<>>
  <2>1. queue'[s] \in Seq(AVFrames) /\ Len(queue'[s]) > 0
    BY <1>1, LenProperties DEF Queues, Untouched
  <2> QED
    BY <2>1, EmptySeq
<1> QED
  BY <1>2, <1>3 DEF Offered

\* Importers keep the types.
LEMMA BaseImporter == ASSUME NEW s \in Streams PROVE AVBase /\ ImporterStep(s) => AVBase'
<1> SUFFICES ASSUME AVBase, ImporterStep(s) PROVE AVBase'
  OBVIOUS
<1>1. /\ Feeds(s) /\ Queues' /\ Elsewhere(s)
      /\ Lines' /\ \A t \in Threads : t # s => pc'[t] = pc[t]
      /\ Scalars' /\ Files'
  BY ImporterFeeds
<1>2. Queues /\ Stages(s) /\ "encoder" \in Threads /\ Streams \subseteq Threads /\ s # "encoder"
  BY ThreadNames DEF AVBase
<1>3. queue[s] \in Seq(AVFrames) /\ queue'[s] \in Seq(AVFrames) /\ Len(queue[s]) \in Nat
      /\ Len(queue'[s]) \in Nat /\ Capacity \in Nat
      /\ (queue'[s] # <<>> <=> Len(queue'[s]) > 0) /\ (queue[s] # <<>> <=> Len(queue[s]) > 0)
  BY <1>1, <1>2, LenProperties, EmptySeq, AVAssumption DEF Queues
<1>4. Stages(s)'
  <2>1. CASE Quiet(s)
    BY <1>2, <2>1 DEF Quiet, Stages
  <2>2. CASE Enters(s)
    <3>1. \A i \in 1 .. Len(queue'[s]) : i \in 1 .. Len(queue[s]) \/ i = Len(queue[s]) + 1
      BY <1>3, <2>2 DEF Enters, Added
    <3>2. \A i \in 1 .. Len(queue[s]) : i # Len(queue[s]) + 1 /\ queue[s][i].stage # "EMPTY"
      BY <1>2, <1>3, <2>2 DEF Enters, Stages
    <3> QED
      BY <1>3, <2>2, <3>1, <3>2, SMTT(30) DEF Enters, Added, Stages
  <2>3. ASSUME NEW d, NEW a, Pushed(s, d, a), pc[s] = "fill", pc'[s] # "fill" PROVE Stages(s)'
    <3>1. ASSUME NEW i \in 1 .. Len(queue'[s]) PROVE queue'[s][i].stage # "EMPTY"
      <4>1. CASE i = Len(queue[s])
        BY <2>3, <4>1 DEF Pushed
      <4>2. CASE i # Len(queue[s])
        <5>1. i \in 1 .. Len(queue[s]) - 1 /\ i \in 1 .. Len(queue[s])
          BY <1>3, <2>3, <4>2 DEF Pushed
        <5> QED
          BY <1>2, <2>3, <4>2, <5>1 DEF Pushed, Stages
      <4> QED
        BY <4>1, <4>2
    <3> QED
      BY <1>2, <1>3, <2>3, <3>1 DEF Pushed, Stages
  <2>4. CASE Reads(s)
    BY <2>3, <2>4 DEF Reads
  <2>5. CASE Fails(s)
    BY <2>3, <2>5 DEF Fails
  <2> QED
    BY <1>1, <2>1, <2>2, <2>4, <2>5 DEF Feeds
<1>5. \A t \in Streams : t # s => Stages(t)'
  BY <1>1, <1>2 DEF AVBase, Stages, Elsewhere
<1>6. \A t \in Streams : Offered(t) => Offered(t)'
  <2>1. Offered(s) => Offered(s)'
    BY <1>1, <1>2, FeedingLeaves, OfferStays
  <2> QED
    BY <1>1, <2>1 DEF Elsewhere, Offered
<1>7. Acquired'
  BY <1>1, <1>2, <1>6, ThreadNames DEF AVBase, Acquired
<1> QED
  BY <1>1, <1>4, <1>5, <1>7 DEF AVBase

\* The encoder and the main thread keep the types.
LEMMA BaseEncoder == AVBase /\ EncoderStep => AVBase'
<1> SUFFICES ASSUME AVBase, EncoderStep PROVE AVBase'
  OBVIOUS
<1>1. /\ Serves /\ Queues' /\ Lines' /\ \A s \in Streams : pc'[s] = pc[s]
      /\ Scalars' /\ UNCHANGED source
  BY EncoderServes
<1>2. Queues /\ Acquired /\ "video" \in Streams /\ "audio" \in Streams /\ "encoder" \notin Streams
      /\ "video" # "audio"
  BY ThreadNames DEF AVBase
<1>3. Files'
  BY <1>1 DEF AVBase, Files, source
<1>4. ASSUME NEW s \in Streams
      PROVE  /\ Stages(s) /\ Len(queue[s]) \in Nat /\ Len(queue'[s]) \in Nat /\ Capacity \in Nat
             /\ (queue'[s] # <<>> <=> Len(queue'[s]) > 0)
             /\ (queue[s] # <<>> <=> Len(queue[s]) > 0)
  <2>1. queue[s] \in Seq(AVFrames) /\ queue'[s] \in Seq(AVFrames)
    BY <1>1, <1>2 DEF Queues
  <2> QED
    BY <2>1, LenProperties, EmptySeq, AVAssumption DEF AVBase
<1>5. ASSUME NEW s \in Streams, queue'[s] = queue[s] PROVE Stages(s)'
  BY <1>1, <1>4, <1>5 DEF Stages
<1>6. ASSUME NEW s \in Streams, Dropped(s), queue[s][1].stage = "READY" PROVE Stages(s)'
  <2>1. \A i \in 1 .. Len(queue'[s]) :
            i \in 1 .. Len(queue[s]) - 1 /\ i + 1 \in 1 .. Len(queue[s])
            /\ (i + 1 = Len(queue[s]) <=> i = Len(queue'[s]))
    BY <1>4, <1>6 DEF Dropped
  <2>2. pc[s] = "fill" => Len(queue[s]) > 1
    BY <1>4, <1>6 DEF Stages
  <2>3. \A i \in 1 .. Len(queue'[s]) :
            queue'[s][i].stage = "EMPTY" <=> pc[s] = "fill" /\ i = Len(queue'[s])
    <3> TAKE i \in 1 .. Len(queue'[s])
    <3>1. i + 1 \in 1 .. Len(queue[s]) /\ queue'[s][i] = queue[s][i + 1]
          /\ (i + 1 = Len(queue[s]) <=> i = Len(queue'[s]))
      BY <1>6, <2>1 DEF Dropped
    <3>2. queue[s][i + 1].stage = "EMPTY" <=> pc[s] = "fill" /\ i + 1 = Len(queue[s])
      BY <1>4, <3>1 DEF Stages
    <3> QED
      BY <3>1, <3>2
  <2>4. Len(queue'[s]) <= Capacity /\ pc'[s] = pc[s]
        /\ (pc[s] = "fill" => queue'[s] # <<>>)
    BY <1>1, <1>4, <1>6, <2>2 DEF Dropped, Stages
  <2> QED
    BY <2>3, <2>4 DEF Stages
<1>7. ASSUME NEW s \in Streams, NEW a, Marked(s, a) PROVE Stages(s)'
  <2>1. \A i \in 1 .. Len(queue[s]) : queue'[s][i].stage = queue[s][i].stage
    <3> TAKE i \in 1 .. Len(queue[s])
    <3>1. i = 1 \/ i \in 2 .. Len(queue[s])
      BY <1>4
    <3> QED
      BY <1>7, <3>1 DEF Marked
  <2> QED
    BY <1>1, <1>4, <1>7, <2>1 DEF Marked, Stages
<1>8. (\A s \in Streams : Stages(s)') /\ Acquired'
  <2>1. CASE Moves \/ Advances \/ Encodes
    <3>1. queue' = queue
      BY <2>1 DEF Moves, Advances, Encodes
    <3>2. \A s \in Streams : Offered(s)' <=> Offered(s)
      BY <3>1 DEF Offered
    <3>3. Acquired'
      BY <1>2, <2>1, <3>2 DEF Acquired, Moves, Advances, Encodes, From, Streams, LoopLeft
    <3> QED
      BY <1>5, <3>1, <3>3
  <2>2. ASSUME NEW s \in Streams, Overlooks(s)
        PROVE  (\A t \in Streams : Stages(t)') /\ Acquired'
    <3>1. queue[s][1].stage = "READY"
      BY <1>2, <2>2, HeadFacts DEF Overlooks, HeadReady
    <3>2. \A t \in Streams : Stages(t)'
      BY <1>5, <1>6, <2>2, <3>1 DEF Overlooks, Elsewhere
    <3>3. Acquired'
      BY <1>2, <2>2 DEF Acquired, Overlooks, From, Elsewhere, Offered, Streams
    <3> QED
      BY <3>2, <3>3
  <2>3. ASSUME NEW v, NEW a, Labels(v, a), pc["encoder"] = "pair",
               "SKIPPED" \in v => "SKIPPED" \in queue["video"][1].attributes,
               "SKIPPED" \in a => "SKIPPED" \in queue["audio"][1].attributes
        PROVE  (\A s \in Streams : Stages(s)') /\ Offered("video")' /\ Offered("audio")'
    <3>1. Marked("video", v) /\ Marked("audio", a)
      BY <2>3 DEF Labels
    <3>2. Offered("video") /\ Offered("audio")
      BY <1>2, <2>3 DEF Acquired
    <3>3. \A s \in Streams : Stages(s)'
      BY <1>7, <3>1 DEF Streams
    <3>4. queue'["video"] # <<>> /\ queue'["audio"] # <<>>
      BY <1>2, <1>4, <3>1 DEF Marked
    <3> QED
      BY <2>3, <3>1, <3>2, <3>3, <3>4 DEF Marked, Offered
  <2>4. CASE Consumes \/ Ignores \/ Delays
    BY <2>3, <2>4 DEF Consumes, Ignores, Delays, From, Acquired
  <2>5. CASE DropsVideo
    <3>1. Offered("video") /\ Offered("audio")
      BY <1>2, <2>5 DEF DropsVideo, From, Acquired
    <3>2. \A s \in Streams : Stages(s)'
      BY <1>2, <1>5, <1>6, <2>5, <3>1 DEF DropsVideo, Elsewhere, Offered
    <3> QED
      BY <1>2, <2>5, <3>1, <3>2 DEF DropsVideo, From, Elsewhere, Acquired, Offered
  <2>6. CASE DropsAudio
    <3>1. Offered("audio")
      BY <1>2, <2>6 DEF DropsAudio, From, Acquired
    <3>2. \A s \in Streams : Stages(s)'
      BY <1>2, <1>5, <1>6, <2>6, <3>1 DEF DropsAudio, Elsewhere, Offered
    <3> QED
      BY <2>6, <3>2 DEF DropsAudio, From, Acquired
  <2>7. CASE KeepsAudio
    <3>1. \A s \in Streams : Stages(s)'
      BY <1>2, <1>5, <1>7, <2>7 DEF KeepsAudio, Elsewhere
    <3> QED
      BY <2>7, <3>1 DEF KeepsAudio, From, Acquired
  <2> QED
    BY <1>1, <2>1, <2>2, <2>4, <2>5, <2>6, <2>7 DEF Serves
<1> QED
  BY <1>1, <1>3, <1>8 DEF AVBase

\* Every step keeps the types.
LEMMA BaseNext == AVBase /\ [AVNext]_avvars => AVBase'
<1> SUFFICES ASSUME AVBase, [AVNext]_avvars PROVE AVBase'
  OBVIOUS
<1>1. CASE SignalRaised \/ SignalHandled \/ UNCHANGED avvars
  <2>1. /\ UNCHANGED <<pc, queue, active, source, flow>>
        /\ run' \in {"RUNNING", "STOPPED", "INTERRUPTED"}
    BY <1>1 DEF SignalRaised, SignalHandled, avvars, AVBase, Scalars
  <2>2. asleep' \in [Threads -> {"no", "yes", "woken"}]
    BY <1>1 DEF SignalRaised, SignalHandled, avvars, AVBase, Scalars, Wake
  <2> QED
    BY <2>1, <2>2 DEF AVBase, Lines, Scalars, Files, Queues, Stages, Acquired, Offered,
       source, flow
<1> QED
  BY <1>1, BaseImporter, BaseEncoder DEF AVNext

\* The types hold at the start.
LEMMA BaseInit == AVInit => AVBase
<1> SUFFICES ASSUME AVInit PROVE AVBase
  OBVIOUS
<1>1. Lines
  BY ThreadNames DEF AVInit, Lines, ImportPC, EncodePC
<1>2. Scalars
  BY AVAssumption, CutFacts DEF AVInit, Scalars
<1>3. Files
  <2>1. input \in [Streams -> Seq(Nat) \ {<<>>}]
    BY AVAssumption DEF AVInit
  <2>2. \A s \in Streams : 1 \in 1 .. Len(input[s])
    BY <2>1, LenProperties, EmptySeq
  <2> QED
    BY <2>1, <2>2 DEF AVInit, Files
<1>4. Queues /\ \A s \in Streams : Stages(s)
  <2>1. \A s \in Streams : queue[s] = <<>> /\ Len(queue[s]) = 0 /\ pc[s] # "fill"
    BY ThreadNames DEF AVInit
  <2>2. Queues
    BY DEF AVInit, Queues
  <2> QED
    BY <2>1, <2>2, AVAssumption DEF Stages
<1>5. Acquired
  BY ThreadNames DEF AVInit, Acquired
<1> QED
  BY <1>1, <1>2, <1>3, <1>4, <1>5 DEF AVBase

\* Every variable keeps its type, and only the last frame of a queue is being filled,
\* for every capacity, every input and every list of ranges.
THEOREM AVTypeCorrect == AVSpec => []AVTypeOK
<1>1. AVSpec => []AVBase
  BY BaseInit, BaseNext, PTL DEF AVSpec
<1> QED
  BY <1>1, BaseTypes, PTL

-----------------------------------------------------------------------------
(* The frames of a queue: their numbers follow each other, and a frame       *)
(* without contents is skipped or the last of all.                           *)

Step(f) == IF f.data = NoData THEN 0 ELSE 1

\* The number of the next frame the encoder gets.
Upcoming(s) == IF queue[s] = <<>> THEN frameId[s] ELSE queue[s][1].id

Numbered(s) ==
    /\ \A i \in 1 .. Len(queue[s]) - 1 : queue[s][i + 1].id = queue[s][i].id + Step(queue[s][i])
    /\ queue[s] # <<>> =>
          frameId[s] = queue[s][Len(queue[s])].id + Step(queue[s][Len(queue[s])])

Bare(f) == f.stage = "READY" /\ f.data = NoData

Kept(s) ==
    \A i \in 1 .. Len(queue[s]) :
        /\ queue[s][i].stage = "EMPTY" => queue[s][i].data = NoData /\ queue[s][i].attributes = {}
        /\ "SKIPPED" \in queue[s][i].attributes => queue[s][i].data = NoData
        /\ Bare(queue[s][i]) /\ "SKIPPED" \notin queue[s][i].attributes
              => i = Len(queue[s]) /\ Ended(s)

\* The flag that made a frame the last was consumed.
Spent(f) == Bare(f) /\ f.attributes \cap {"SKIPPED", "END_OF_STREAM"} = {}

\* What an importer adds is neither spent nor cloned.
Fresh(s) ==
    \A i \in 1 .. Len(queue'[s]) :
        \/ i \in 1 .. Len(queue[s]) /\ queue'[s][i] = queue[s][i]
        \/ queue'[s][i].attributes \subseteq {"SKIPPED", "END_OF_STREAM"} /\ ~Spent(queue'[s][i])

\* Lengths and frames of a queue, now and after a step.
LEMMA LongFacts ==
    ASSUME Queues, Queues', NEW s \in Streams
    PROVE  /\ Len(queue[s]) \in Nat /\ Len(queue'[s]) \in Nat
           /\ (queue[s] # <<>> <=> Len(queue[s]) > 0) /\ (queue'[s] # <<>> <=> Len(queue'[s]) > 0)
           /\ \A i \in 1 .. Len(queue[s]) : /\ queue[s][i].id \in Nat /\ queue[s][i].data \in Int
                                            /\ queue[s][i].stage \in {"EMPTY", "READY"}
           /\ \A i \in 1 .. Len(queue'[s]) : queue'[s][i].id \in Nat
<1>1. queue[s] \in Seq(AVFrames) /\ queue'[s] \in Seq(AVFrames)
  BY DEF Queues
<1>2. \A q \in Seq(AVFrames) : /\ Len(q) \in Nat /\ (q # <<>> <=> Len(q) > 0)
                               /\ \A i \in 1 .. Len(q) : q[i] \in AVFrames
  BY LenProperties, EmptySeq, ElementOfSeq
<1> QED
  BY <1>1, <1>2 DEF AVFrames

\* An importer numbers its frames in order, and leaves the next frame as it was.
LEMMA FeedsKeep ==
    ASSUME NEW s \in Streams, Queues, Queues', Stages(s), Scalars, Files, UNCHANGED input,
           Feeds(s), Kept(s), Numbered(s)
    PROVE  Kept(s)' /\ Numbered(s)' /\ Upcoming(s)' = Upcoming(s) /\ Fresh(s)
           /\ (Ended(s) => Ended(s)' /\ queue'[s] = queue[s])
<1> DEFINE n == Len(queue[s])
<1>1. /\ n \in Nat /\ Len(queue'[s]) \in Nat
      /\ (queue[s] # <<>> <=> n > 0) /\ (queue'[s] # <<>> <=> Len(queue'[s]) > 0)
      /\ \A i \in 1 .. n : queue[s][i].id \in Nat
      /\ \A i \in 1 .. Len(queue'[s]) : queue'[s][i].id \in Nat
      /\ frameId \in [Streams -> Nat] /\ sync \in Int /\ file[s] \in 1 .. Len(input[s])
      /\ pos[s] + Discards(s) \in Nat
  <2>1. pos[s] \in Nat /\ Discards(s) \in Nat
    BY DiscardsType DEF Scalars
  <2>2. pos[s] + Discards(s) \in Nat
    BY <2>1
  <2> QED
    BY <2>2, LongFacts DEF Scalars, Files
<1> HIDE DEF n
<1>2. CASE Quiet(s)
  BY <1>1, <1>2 DEF Quiet, Kept, Numbered, Upcoming, Fresh, n
<1>3. CASE Enters(s)
  <2> DEFINE blank == [id |-> frameId[s], stage |-> "EMPTY", data |-> NoData, attributes |-> {}]
  <2>1. /\ Len(queue'[s]) = n + 1 /\ queue'[s][n + 1] = blank
        /\ \A i \in 1 .. n : queue'[s][i] = queue[s][i]
        /\ pc[s] = "register" /\ frameId' = frameId
    BY <1>3 DEF Enters, Added, n
  <2>2. ~Ended(s)
    BY <2>1 DEF Ended
  <2>3. \A i \in 1 .. Len(queue'[s]) : i \in 1 .. n \/ i = n + 1
    BY <1>1, <2>1
  <2>4. Kept(s)'
    <3>1. \A i \in 1 .. n : ~(Bare(queue[s][i]) /\ "SKIPPED" \notin queue[s][i].attributes)
      BY <2>2 DEF Kept, n
    <3> QED
      BY <2>1, <2>3, <3>1 DEF Kept, Bare, n
  <2>5. Numbered(s)'
    <3>1. \A i \in 1 .. Len(queue'[s]) - 1 :
              queue'[s][i + 1].id = queue'[s][i].id + Step(queue'[s][i])
      <4> TAKE i \in 1 .. Len(queue'[s]) - 1
      <4>1. i \in 1 .. n /\ queue'[s][i] = queue[s][i]
        BY <1>1, <2>1
      <4>2. CASE i = n
        BY <1>1, <2>1, <4>1, <4>2 DEF Numbered, n
      <4>3. CASE i # n
        <5>1. i \in 1 .. n - 1 /\ i + 1 \in 1 .. n
          BY <1>1, <4>1, <4>3
        <5> QED
          BY <2>1, <4>1, <5>1 DEF Numbered, n
      <4> QED
        BY <4>2, <4>3
    <3>2. frameId'[s] = queue'[s][n + 1].id + Step(queue'[s][n + 1])
      BY <1>1, <2>1 DEF Step
    <3> QED
      BY <2>1, <3>1, <3>2 DEF Numbered
  <2>6. Upcoming(s)' = Upcoming(s)
    <3>1. CASE n = 0
      BY <1>1, <2>1, <3>1 DEF Upcoming
    <3>2. CASE n # 0
      <4>1. 1 \in 1 .. n
        BY <1>1, <3>2
      <4> QED
        BY <1>1, <2>1, <4>1 DEF Upcoming
    <3> QED
      BY <3>1, <3>2
  <2>7. Fresh(s)
    BY <2>1, <2>3 DEF Fresh, Spent, Bare, n
  <2> QED
    BY <2>2, <2>4, <2>5, <2>6, <2>7
<1>4. ASSUME NEW d, NEW a, Pushed(s, d, a), pc[s] = "fill",
             frameId' = IF d = NoData THEN frameId ELSE [frameId EXCEPT ![s] = @ + 1],
             \/ d # NoData /\ a = {}
             \/ d = NoData /\ a = {"SKIPPED"}
             \/ d = NoData /\ a = {"END_OF_STREAM"} /\ Ended(s)'
      PROVE  Kept(s)' /\ Numbered(s)' /\ Upcoming(s)' = Upcoming(s) /\ Fresh(s)
             /\ (Ended(s) => Ended(s)' /\ queue'[s] = queue[s])
  <2>1. /\ Len(queue'[s]) = n
        /\ \A i \in 1 .. n - 1 : queue'[s][i] = queue[s][i]
        /\ queue'[s][n] = [id |-> queue[s][n].id, stage |-> "READY", data |-> d, attributes |-> a]
    BY <1>4 DEF Pushed, n
  <2>2. ~Ended(s)
    BY <1>4 DEF Ended
  <2>3. n \in 1 .. n /\ queue[s][n].data = NoData /\ n > 0
    <3>1. n > 0
      BY <1>1, <1>4 DEF Stages
    <3>2. n \in 1 .. n
      BY <1>1, <3>1
    <3>3. queue[s][n].stage = "EMPTY"
      BY <1>4, <3>2 DEF Stages, n
    <3> QED
      BY <3>1, <3>2, <3>3 DEF Kept, n
  <2>4. \A i \in 1 .. n : i \in 1 .. n - 1 \/ i = n
    BY <1>1
  <2>5. Kept(s)'
    <3>1. \A i \in 1 .. n : ~(Bare(queue[s][i]) /\ "SKIPPED" \notin queue[s][i].attributes)
      BY <2>2 DEF Kept, n
    <3>2. \A i \in 1 .. n - 1 : i \in 1 .. n
      BY <1>1
    <3>3. ASSUME NEW i \in 1 .. n
          PROVE  /\ queue'[s][i].stage = "EMPTY"
                      => queue'[s][i].data = NoData /\ queue'[s][i].attributes = {}
                 /\ "SKIPPED" \in queue'[s][i].attributes => queue'[s][i].data = NoData
                 /\ Bare(queue'[s][i]) /\ "SKIPPED" \notin queue'[s][i].attributes
                      => i = n /\ Ended(s)'
      <4>1. CASE i = n
        BY <1>4, <2>1, <4>1 DEF Bare
      <4>2. CASE i # n
        <5>1. queue'[s][i] = queue[s][i]
          BY <2>1, <2>4, <4>2
        <5> QED
          BY <3>1, <5>1 DEF Kept, n
      <4> QED
        BY <4>1, <4>2
    <3> QED
      BY <2>1, <3>3 DEF Kept, Bare
  <2>6. Numbered(s)'
    <3>1. \A i \in 1 .. n : queue'[s][i].id = queue[s][i].id
      BY <2>1, <2>4
    <3>2. \A i \in 1 .. n - 1 : i \in 1 .. n /\ i + 1 \in 1 .. n
      BY <1>1
    <3>3. \A i \in 1 .. n - 1 : queue'[s][i + 1].id = queue'[s][i].id + Step(queue'[s][i])
      BY <2>1, <3>1, <3>2 DEF Numbered, n
    <3>4. frameId[s] = queue[s][n].id
      BY <1>1, <2>3 DEF Numbered, Step, n
    <3>5. frameId'[s] = queue'[s][n].id + Step(queue'[s][n])
      BY <1>1, <1>4, <2>1, <3>4 DEF Step
    <3> QED
      BY <2>1, <3>3, <3>5 DEF Numbered
  <2>7. Upcoming(s)' = Upcoming(s)
    <3>1. 1 \in 1 .. n
      BY <1>1, <2>3
    <3>2. queue'[s][1].id = queue[s][1].id
      BY <2>1, <2>4, <3>1
    <3> QED
      BY <1>1, <2>1, <2>3, <3>2 DEF Upcoming
  <2>8. Fresh(s)
    <3>1. ASSUME NEW i \in 1 .. n
          PROVE  \/ queue'[s][i] = queue[s][i]
                 \/ /\ queue'[s][i].attributes \subseteq {"SKIPPED", "END_OF_STREAM"}
                    /\ ~Spent(queue'[s][i])
      <4>1. CASE i = n
        BY <1>4, <2>1, <4>1 DEF Spent, Bare
      <4>2. CASE i # n
        BY <2>1, <2>4, <4>2
      <4> QED
        BY <4>1, <4>2
    <3> QED
      BY <2>1, <3>1 DEF Fresh, n
  <2> QED
    BY <2>2, <2>5, <2>6, <2>7, <2>8
<1>5. CASE Reads(s)
  <2>1. PICK d \in Int : d # NoData /\ Pushed(s, d, {})
    <3>1. CASE Pushed(s, Silence, {})
      BY <3>1 DEF Silence, NoData
    <3>2. CASE Pushed(s, pos[s] + Discards(s), {})
      <4>1. pos[s] + Discards(s) \in Int /\ pos[s] + Discards(s) # NoData
        BY <1>1 DEF NoData
      <4> QED
        BY <3>2, <4>1
    <3> QED
      BY <1>5, <3>1, <3>2 DEF Reads
  <2> QED
    BY <1>4, <1>5, <2>1 DEF Reads
<1>6. CASE Fails(s)
  <2>1. file[s] < Len(input[s]) \/ Ended(s)'
    BY <1>1, <1>6, LenProperties DEF Fails, Ended, Files
  <2> QED
    BY <1>4, <1>6, <2>1 DEF Fails
<1> QED
  BY <1>2, <1>3, <1>5, <1>6 DEF Feeds

\* When the first frame leaves, the next one has the following number.
LEMMA DropKeeps ==
    ASSUME NEW s \in Streams, Queues, Queues', Scalars, Dropped(s), frameId' = frameId,
           pc'[s] = pc[s], UNCHANGED <<file, input>>, Kept(s), Numbered(s)
    PROVE  Kept(s)' /\ Numbered(s)' /\ Upcoming(s)' = Upcoming(s) + Step(queue[s][1])
<1> DEFINE n == Len(queue[s])
<1>1. /\ n \in Nat /\ Len(queue'[s]) = n - 1 /\ n > 0
      /\ \A i \in 1 .. n - 1 : queue'[s][i] = queue[s][i + 1]
      /\ (queue[s] # <<>>) /\ (queue'[s] # <<>> <=> n - 1 > 0)
      /\ \A i \in 1 .. n - 1 : i + 1 \in 1 .. n /\ (i = n - 1 <=> i + 1 = n)
  BY LongFacts DEF Dropped
<1>2. Ended(s)' = Ended(s)
  BY DEF Ended
<1> HIDE DEF n
<1>3. Kept(s)'
  BY <1>1, <1>2 DEF Kept, Bare, n
<1>4. Numbered(s)'
  <2>1. \A i \in 1 .. (n - 1) - 1 : i \in 1 .. n - 1 /\ i + 1 \in 1 .. n - 1
    BY <1>1
  <2>2. \A i \in 1 .. (n - 1) - 1 : queue'[s][i + 1].id = queue'[s][i].id + Step(queue'[s][i])
    BY <1>1, <2>1 DEF Numbered, n
  <2>3. n - 1 > 0 => n - 1 \in 1 .. n - 1 /\ queue'[s][n - 1] = queue[s][n]
    BY <1>1
  <2>4. n - 1 > 0 => frameId'[s] = queue'[s][n - 1].id + Step(queue'[s][n - 1])
    BY <1>1, <2>3 DEF Numbered, n
  <2> QED
    BY <1>1, <2>2, <2>4 DEF Numbered
<1>5. Upcoming(s)' = Upcoming(s) + Step(queue[s][1])
  <2>1. CASE n = 1
    BY <1>1, <2>1 DEF Upcoming, Numbered, n
  <2>2. CASE n # 1
    <3>1. 1 \in 1 .. n - 1
      BY <1>1, <2>2
    <3>2. queue'[s][1] = queue[s][2] /\ queue[s][2].id = queue[s][1].id + Step(queue[s][1])
      BY <1>1, <3>1 DEF Numbered, n
    <3>3. queue'[s] # <<>>
      BY <1>1, <2>2
    <3> QED
      BY <1>1, <3>2, <3>3 DEF Upcoming
  <2> QED
    BY <2>1, <2>2
<1> QED
  BY <1>3, <1>4, <1>5

\* New attributes change neither numbers nor contents.
LEMMA MarkKeeps ==
    ASSUME NEW s \in Streams, Queues, Queues', Stages(s), NEW a, Marked(s, a), frameId' = frameId,
           queue[s][1].stage = "READY",
           pc'[s] = pc[s], UNCHANGED <<file, input>>, Kept(s), Numbered(s),
           "SKIPPED" \in a <=> "SKIPPED" \in queue[s][1].attributes
    PROVE  Kept(s)' /\ Numbered(s)' /\ Upcoming(s)' = Upcoming(s)
<1> DEFINE n == Len(queue[s])
<1>1. /\ n \in Nat /\ Len(queue'[s]) = n /\ n > 0 /\ 1 \in 1 .. n
      /\ queue'[s][1] = [id |-> queue[s][1].id, stage |-> queue[s][1].stage,
                         data |-> queue[s][1].data, attributes |-> a]
      /\ \A i \in 2 .. n : queue'[s][i] = queue[s][i]
      /\ (queue[s] # <<>>) /\ (queue'[s] # <<>>)
      /\ \A i \in 1 .. n : i = 1 \/ i \in 2 .. n
  BY LongFacts DEF Marked
<1>2. Ended(s)' = Ended(s)
  BY DEF Ended
<1> HIDE DEF n
<1>3. \A i \in 1 .. n : /\ queue'[s][i].id = queue[s][i].id
                        /\ queue'[s][i].data = queue[s][i].data
                        /\ queue'[s][i].stage = queue[s][i].stage
                        /\ ("SKIPPED" \in queue'[s][i].attributes
                              <=> "SKIPPED" \in queue[s][i].attributes)
                        /\ (queue[s][i].stage = "EMPTY" => queue'[s][i] = queue[s][i])
  BY <1>1
<1>4. Kept(s)'
  BY <1>1, <1>2, <1>3 DEF Kept, Bare, n
<1>5. Numbered(s)'
  <2>1. \A i \in 1 .. n - 1 : i \in 1 .. n /\ i + 1 \in 1 .. n
    BY <1>1
  <2>2. n \in 1 .. n
    BY <1>1
  <2> QED
    BY <1>1, <1>3, <2>1, <2>2, SMTT(30) DEF Numbered, Step, n
<1>6. Upcoming(s)' = Upcoming(s)
  BY <1>1 DEF Upcoming
<1> QED
  BY <1>4, <1>5, <1>6

-----------------------------------------------------------------------------
(* The encoder and the frames without contents.                             *)

\* Between two ranges lies at least one frame.
Gapped ==
    \A k \in 1 .. Len(Cuts) - 1 : Cuts[k][2] < Cuts[k + 1][1] /\ Cuts[k + 1][1] <= Cuts[k + 1][2]

\* The encoder has not gone past the end of the range.
Bound ==
    ~LoopLeft =>
        /\ Upcoming("video") <= Cuts[cut][2]
        /\ pc["encoder"] = "dispose_video" => Upcoming("video") < Cuts[cut][2]

\* An audio frame is marked as cloned only until it is disposed of.
Cloned ==
    \A s \in Streams : \A i \in 1 .. Len(queue[s]) : "IS_CLONED" \in queue[s][i].attributes =>
        /\ s = "audio" /\ i = 1 /\ queue[s][i].data # NoData
        /\ pc["encoder"] \in {"dispose_video", "dispose_audio"}

\* A spent frame will not be encoded: the video frame beside it lies before the range.
Guarded(s) ==
    \/ LoopLeft
    \/ s = "audio" /\ pc["encoder"] = "dispose_audio"
    \/ Offered("video") /\ pc["encoder"] = "range"
    \/ /\ Offered("video") /\ queue["video"][1].id < Cuts[cut][1]
       /\ pc["encoder"] \in {"need_stop", "video", "audio", "pair", "dispose_video"}

SpentGuarded ==
    \A s \in Streams : \A i \in 1 .. Len(queue[s]) : Spent(queue[s][i]) => i = 1 /\ Guarded(s)

AVCore ==
    /\ AVBase /\ \A s \in Streams : Kept(s) /\ Numbered(s)
    /\ Bound /\ Cloned /\ SpentGuarded

\* What is exported has contents.
LEMMA ExportsContents ==
    ASSUME AVBase, SpentGuarded, Exporting, NEW s \in Streams
    PROVE  First(s) = queue[s][1] /\ queue[s][1].data # NoData
<1>1. Queues /\ pc["encoder"] = "pair" /\ Offered("video") /\ Offered("audio")
  BY DEF AVBase, Acquired, Exporting
<1>2. Offered(s) /\ queue[s] # <<>>
  BY <1>1 DEF Streams, Offered
<1>3. First(s) = queue[s][1] /\ 1 \in 1 .. Len(queue[s])
  BY <1>1, <1>2, QueueFacts, HeadFacts
<1>4. "END_OF_STREAM" \notin queue[s][1].attributes
  BY <1>3 DEF Exporting, IsLast, EndsStream
<1>5. ASSUME queue[s][1].data = NoData PROVE FALSE
  <2>1. Spent(queue[s][1])
    BY <1>2, <1>4, <1>5 DEF Spent, Bare, Offered
  <2>2. Guarded(s)
    BY <1>3, <2>1 DEF SpentGuarded
  <2>3. queue["video"][1].id < Cuts[cut][1]
    BY <1>1, <2>2 DEF Guarded, LoopLeft
  <2>4. Frame = queue["video"][1].id
    BY <1>1, HeadFacts, ThreadNames DEF Frame, Offered
  <2>5. Cuts[cut][1] \in Nat /\ queue["video"][1].id \in Nat
    BY <1>1, CutFacts, HeadFacts, ThreadNames DEF AVBase, Scalars, Offered, AVFrames
  <2> QED
    BY <2>3, <2>4, <2>5 DEF Exporting, InRange
<1> QED
  BY <1>3, <1>5

\* An importer changes neither the next frames nor a frame the encoder holds, in either stream.
LEMMA ImporterKeeps ==
    ASSUME AVCore, NEW s \in Streams, ImporterStep(s)
    PROVE  \A t \in Streams :
              /\ Kept(t)' /\ Numbered(t)' /\ Upcoming(t)' = Upcoming(t)
              /\ Offered(t) => Offered(t)' /\ queue'[t][1] = queue[t][1]
              /\ queue[t] = <<>> /\ Ended(t) => queue'[t] = <<>> /\ Ended(t)'
              /\ \A i \in 1 .. Len(queue'[t]) :
                    \/ i \in 1 .. Len(queue[t]) /\ queue'[t][i] = queue[t][i]
                    \/ "IS_CLONED" \notin queue'[t][i].attributes /\ ~Spent(queue'[t][i])
<1>1. /\ Feeds(s) /\ Queues' /\ Elsewhere(s)
      /\ Lines' /\ \A t \in Threads : t # s => pc'[t] = pc[t]
      /\ Scalars' /\ Files' /\ UNCHANGED <<run, input, shift, cut, delays, sig>>
  BY ImporterFeeds DEF AVCore
<1>2. /\ Queues /\ Stages(s) /\ Scalars /\ Files /\ Kept(s) /\ Numbered(s)
      /\ Streams \subseteq Threads /\ "encoder" \in Threads /\ s # "encoder" /\ "video" \in Streams
  BY ThreadNames DEF AVCore, AVBase
<1>3. /\ Kept(s)' /\ Numbered(s)' /\ Upcoming(s)' = Upcoming(s) /\ Fresh(s) /\ Untouched(s)
        /\ (Ended(s) => Ended(s)' /\ queue'[s] = queue[s])
  BY <1>1, <1>2, FeedsKeep, FeedingLeaves
<1>4. \A t \in Streams : t # s => /\ queue'[t] = queue[t] /\ pc'[t] = pc[t]
                                  /\ frameId'[t] = frameId[t] /\ file'[t] = file[t]
  <2>1. \A t \in Streams : t # s => frameId'[t] = frameId[t] /\ file'[t] = file[t]
    <3>1. CASE Quiet(s)
      <4>1. CASE NextFile(s)
        BY <1>2, <4>1 DEF NextFile, Files
      <4>2. CASE ~NextFile(s)
        <5>1. file' = file
          BY <4>2 DEF ImporterStep, Import, ImportFrame, Pad, Fill, FillFails, ImportEnd,
             OpenFile, ImportWakes, source
        <5> QED
          BY <3>1, <5>1 DEF Quiet
      <4>3. frameId' = frameId
        BY <3>1 DEF Quiet
      <4> QED
        BY <4>1, <4>2, <4>3
    <3>2. CASE Enters(s) \/ Reads(s) \/ Fails(s)
      BY <1>2, <3>2 DEF Enters, Reads, Fails, Scalars
    <3> QED
      BY <1>1, <3>1, <3>2 DEF Feeds
  <2> QED
    BY <1>1, <1>2, <2>1 DEF Elsewhere
<1>5. ASSUME NEW t \in Streams, t # s
      PROVE  /\ Kept(t)' /\ Numbered(t)' /\ Upcoming(t)' = Upcoming(t)
             /\ Offered(t) => Offered(t)' /\ queue'[t][1] = queue[t][1]
             /\ queue[t] = <<>> /\ Ended(t) => queue'[t] = <<>> /\ Ended(t)'
             /\ \A i \in 1 .. Len(queue'[t]) : i \in 1 .. Len(queue[t]) /\ queue'[t][i] = queue[t][i]
  BY <1>1, <1>4, <1>5 DEF AVCore, Kept, Numbered, Upcoming, Ended, Offered
<1>6. /\ Offered(s) => Offered(s)' /\ queue'[s][1] = queue[s][1]
      /\ \A i \in 1 .. Len(queue'[s]) :
            \/ i \in 1 .. Len(queue[s]) /\ queue'[s][i] = queue[s][i]
            \/ "IS_CLONED" \notin queue'[s][i].attributes /\ ~Spent(queue'[s][i])
  <2>1. Offered(s) => Offered(s)' /\ queue'[s][1] = queue[s][1]
    BY <1>1, <1>2, <1>3, OfferStays
  <2> QED
    BY <1>3, <2>1 DEF Fresh
<1> QED
  BY <1>3, <1>5, <1>6

\* Importers keep the core invariant.
LEMMA CoreImporter == ASSUME NEW s \in Streams PROVE AVCore /\ ImporterStep(s) => AVCore'
<1> SUFFICES ASSUME AVCore, ImporterStep(s) PROVE AVCore'
  OBVIOUS
<1>1. /\ \A t \in Threads : t # s => pc'[t] = pc[t]
      /\ UNCHANGED <<cut, delays>> /\ AVBase'
      /\ "encoder" \in Threads /\ s # "encoder" /\ "video" \in Streams
  BY ImporterFeeds, BaseImporter, ThreadNames DEF AVCore
<1>2. \A t \in Streams :
          /\ Kept(t)' /\ Numbered(t)' /\ Upcoming(t)' = Upcoming(t)
          /\ Offered(t) => Offered(t)' /\ queue'[t][1] = queue[t][1]
          /\ \A i \in 1 .. Len(queue'[t]) :
                \/ i \in 1 .. Len(queue[t]) /\ queue'[t][i] = queue[t][i]
                \/ "IS_CLONED" \notin queue'[t][i].attributes /\ ~Spent(queue'[t][i])
  BY ImporterKeeps
<1>3. pc'["encoder"] = pc["encoder"] /\ (LoopLeft' <=> LoopLeft)
  BY <1>1 DEF LoopLeft
<1>4. Bound'
  BY <1>1, <1>2, <1>3 DEF AVCore, Bound
<1>5. Cloned'
  BY <1>2, <1>3 DEF AVCore, Cloned
<1>6. \A t \in Streams : Guarded(t) => Guarded(t)'
  BY <1>1, <1>2, <1>3 DEF Guarded
<1>7. SpentGuarded'
  BY <1>2, <1>6 DEF AVCore, SpentGuarded
<1> QED
  BY <1>1, <1>2, <1>4, <1>5, <1>7 DEF AVCore

\* The frames of an unchanged, a shortened and a marked queue.
LEMMA FramesThen ==
    ASSUME Queues, Queues', NEW s \in Streams, NEW i \in 1 .. Len(queue'[s])
    PROVE  /\ queue'[s] = queue[s] => i \in 1 .. Len(queue[s])
           /\ Dropped(s) => i + 1 \in 1 .. Len(queue[s]) /\ i + 1 # 1
                            /\ queue'[s][i] = queue[s][i + 1]
           /\ \A a : Marked(s, a) =>
                /\ i \in 1 .. Len(queue[s])
                /\ i = 1 => queue'[s][i] = [id |-> queue[s][1].id, stage |-> queue[s][1].stage,
                                            data |-> queue[s][1].data, attributes |-> a]
                /\ i # 1 => queue'[s][i] = queue[s][i]
<1>1. Len(queue[s]) \in Nat /\ Len(queue'[s]) \in Nat
  BY LongFacts
<1>2. Dropped(s) => i \in 1 .. Len(queue[s]) - 1 /\ i + 1 \in 1 .. Len(queue[s]) /\ i + 1 # 1
  BY <1>1 DEF Dropped
<1>3. \A a : Marked(s, a) => i \in 1 .. Len(queue[s]) /\ (i # 1 => i \in 2 .. Len(queue[s]))
  BY <1>1 DEF Marked
<1> QED
  BY <1>2, <1>3 DEF Dropped, Marked

\* The queues, their numbers and the next frames, after each kind of step.
LEMMA ServesKeep ==
    ASSUME AVBase, Queues', Serves, UNCHANGED source, \A s \in Streams : pc'[s] = pc[s],
           NEW s \in Streams, Kept(s), Numbered(s)
    PROVE  /\ Kept(s)' /\ Numbered(s)'
           /\ Dropped(s) => Upcoming(s)' = Upcoming(s) + Step(queue[s][1])
           /\ ~Dropped(s) => Upcoming(s)' = Upcoming(s)
<1>0. Queues /\ Stages(s) /\ Scalars /\ Acquired /\ UNCHANGED <<frameId, file, input>>
      /\ "video" \in Streams /\ "audio" \in Streams
  BY ThreadNames DEF AVBase, source
<1>1. Dropped(s) => Kept(s)' /\ Numbered(s)' /\ Upcoming(s)' = Upcoming(s) + Step(queue[s][1])
  BY <1>0, DropKeeps
<1>2. queue'[s] = queue[s] => Kept(s)' /\ Numbered(s)' /\ Upcoming(s)' = Upcoming(s)
  BY <1>0 DEF Kept, Numbered, Upcoming, Ended
<1>3. ASSUME NEW a, Marked(s, a), queue[s][1].stage = "READY",
             "SKIPPED" \in a <=> "SKIPPED" \in queue[s][1].attributes
      PROVE  Kept(s)' /\ Numbered(s)' /\ Upcoming(s)' = Upcoming(s)
  BY <1>0, <1>3, MarkKeeps
<1>4. CASE Moves \/ Advances \/ Encodes
  <2>1. queue'[s] = queue[s]
    BY <1>4 DEF Moves, Advances, Encodes
  <2> QED
    BY <1>1, <1>2, <2>1
<1>5. ASSUME NEW t \in Streams, Dropped(t), Elsewhere(t)
      PROVE  /\ Kept(s)' /\ Numbered(s)'
             /\ Dropped(s) => Upcoming(s)' = Upcoming(s) + Step(queue[s][1])
             /\ ~Dropped(s) => Upcoming(s)' = Upcoming(s)
  BY <1>1, <1>2, <1>5 DEF Elsewhere
<1>6. CASE (\E t \in Streams : Overlooks(t)) \/ DropsVideo \/ DropsAudio
  BY <1>0, <1>5, <1>6 DEF Overlooks, DropsVideo, DropsAudio
<1>7. ASSUME NEW a, Marked(s, a) PROVE ~Dropped(s)
  <2>1. Len(queue[s]) \in Nat
    BY <1>0, LongFacts
  <2> QED
    BY <1>7, <2>1 DEF Marked, Dropped
<1>8. CASE Consumes \/ Ignores \/ Delays
  <2>1. Offered("video") /\ Offered("audio")
    BY <1>0, <1>8 DEF Acquired, Consumes, Ignores, Delays, From
  <2>2. Offered(s)
    BY <2>1 DEF Streams
  <2>3. \E a : Marked(s, a) /\ "SKIPPED" \notin a
    <3>1. CASE Consumes
      BY <2>1, <3>1 DEF Consumes, Labels, Streams, Offered
    <3>2. CASE Ignores
      BY <2>1, <3>2 DEF Ignores, Labels, Streams, Offered
    <3>3. CASE Delays
      BY <2>1, <3>3 DEF Delays, Labels, Streams, Offered
    <3> QED
      BY <1>8, <3>1, <3>2, <3>3
  <2> QED
    BY <1>3, <1>7, <2>2, <2>3 DEF Offered
<1>9. CASE KeepsAudio
  <2>1. CASE s = "audio"
    <3>1. Offered("audio")
      BY <1>0, <1>9 DEF KeepsAudio, From, Acquired
    <3> QED
      BY <1>3, <1>7, <1>9, <2>1, <3>1 DEF KeepsAudio, Offered
  <2>2. CASE s # "audio"
    <3>1. queue'[s] = queue[s]
      BY <1>9, <2>2 DEF KeepsAudio, Elsewhere
    <3> QED
      BY <1>1, <1>2, <3>1
  <2> QED
    BY <2>1, <2>2
<1> QED
  BY <1>4, <1>6, <1>8, <1>9 DEF Serves

\* No two kinds of dropping happen at once.
LEMMA WhoDrops ==
    ASSUME AVBase, Queues', Serves
    PROVE  /\ Dropped("video") => Overlooks("video") \/ DropsVideo
           /\ Dropped("audio") => Overlooks("audio") \/ DropsAudio
<1>0. Queues /\ "video" \in Streams /\ "audio" \in Streams /\ "video" # "audio"
  BY ThreadNames DEF AVBase
<1>1. ASSUME NEW s \in Streams, Dropped(s)
      PROVE  queue'[s] # queue[s] /\ \A a : ~Marked(s, a)
  <2>1. Len(queue[s]) \in Nat
    BY <1>0, LongFacts
  <2> QED
    BY <1>1, <2>1 DEF Marked, Dropped
<1>2. ~(Moves \/ Advances \/ Encodes) \/ (~Dropped("video") /\ ~Dropped("audio"))
  BY <1>0, <1>1 DEF Moves, Advances, Encodes
<1>3. ~(Consumes \/ Ignores \/ Delays) \/ (~Dropped("video") /\ ~Dropped("audio"))
  BY <1>0, <1>1 DEF Consumes, Ignores, Delays, Labels
<1>4. KeepsAudio => ~Dropped("video") /\ ~Dropped("audio")
  BY <1>0, <1>1 DEF KeepsAudio, Elsewhere
<1>5. DropsVideo => ~Dropped("audio")
  BY <1>0, <1>1 DEF DropsVideo, Elsewhere
<1>6. DropsAudio => ~Dropped("video")
  BY <1>0, <1>1 DEF DropsAudio, Elsewhere
<1>7. /\ Overlooks("video") => ~Dropped("audio")
      /\ Overlooks("audio") => ~Dropped("video")
  BY <1>0, <1>1 DEF Overlooks, Elsewhere
<1> QED
  BY <1>2, <1>3, <1>4, <1>5, <1>6, <1>7 DEF Serves, Streams

\* The number of the next video frame, and of the frame at work.
LEMMA UpcomingType ==
    ASSUME AVBase, NEW s \in Streams
    PROVE  /\ Upcoming(s) \in Nat
           /\ queue[s] # <<>> => Upcoming(s) = queue[s][1].id
<1>1. queue[s] # <<>> => queue[s][1].id \in Nat
  BY HeadFacts DEF AVBase, AVFrames
<1> QED
  BY <1>1 DEF Upcoming, AVBase, Scalars

\* The encoder stops a range at its last frame.
LEMMA BoundEncoder == Gapped /\ AVCore /\ EncoderStep => Bound'
<1> SUFFICES ASSUME Gapped, AVCore, EncoderStep, ~LoopLeft'
             PROVE  /\ Upcoming("video")' <= Cuts[cut'][2]
                    /\ pc'["encoder"] = "dispose_video" => Upcoming("video")' < Cuts[cut'][2]
  BY DEF Bound
<1>0. /\ Serves /\ Queues' /\ UNCHANGED source /\ \A s \in Streams : pc'[s] = pc[s]
      /\ AVBase /\ AVBase' /\ "video" \in Streams /\ "audio" \in Streams
      /\ Kept("video") /\ Numbered("video") /\ cut \in DOMAIN Cuts /\ cut' \in DOMAIN Cuts
  BY EncoderServes, BaseEncoder, ThreadNames DEF AVCore, AVBase, Scalars
<1>1. /\ Dropped("video") => Upcoming("video")' = Upcoming("video") + Step(queue["video"][1])
      /\ ~Dropped("video") => Upcoming("video")' = Upcoming("video")
  BY <1>0, ServesKeep
<1>2. Upcoming("video") \in Nat /\ Cuts[cut][2] \in Nat /\ Cuts[cut'][2] \in Nat
  BY <1>0, UpcomingType, CutFacts
<1>3. CASE Dropped("video")
  <2>1. CASE Overlooks("video")
    <3>1. Step(queue["video"][1]) = 0
      <4>1. "SKIPPED" \in queue["video"][1].attributes /\ 1 \in 1 .. Len(queue["video"])
        BY <1>0, <2>1, QueueFacts DEF Overlooks, HeadReady, AVBase
      <4> QED
        BY <1>0, <4>1 DEF Kept, Step
    <3> QED
      BY <1>1, <1>2, <1>3, <2>1, <3>1 DEF Overlooks, From, AVCore, Bound, LoopLeft, flow
  <2>2. CASE DropsVideo
    <3>1. Step(queue["video"][1]) \in {0, 1}
      BY DEF Step
    <3> QED
      BY <1>1, <1>2, <1>3, <2>2, <3>1 DEF DropsVideo, From, AVCore, Bound, LoopLeft, flow
  <2> QED
    BY <1>0, <1>3, <2>1, <2>2, WhoDrops
<1>4. CASE ~Dropped("video")
  <2>1. CASE Advances
    <3>1. cut \in 1 .. Len(Cuts) - 1 /\ cut + 1 = cut' /\ Cuts[cut'][1] \in Nat
      BY <1>0, <2>1, CutFacts DEF Advances
    <3>2. Cuts[cut][2] < Cuts[cut'][1] /\ Cuts[cut'][1] <= Cuts[cut'][2]
      BY <3>1 DEF Gapped
    <3>3. Upcoming("video") <= Cuts[cut][2] /\ pc'["encoder"] # "dispose_video"
      BY <2>1 DEF Advances, From, AVCore, Bound, LoopLeft
    <3> QED
      BY <1>1, <1>2, <1>4, <3>1, <3>2, <3>3
  <2>2. CASE Ignores \/ Encodes \/ Delays
    <3>1. ~IsLast /\ pc["encoder"] = "pair" /\ cut' = cut
      BY <2>2 DEF Ignores, Encodes, Delays, From, Exporting, flow
    <3>2. queue["video"] # <<>>
      BY <1>0, <3>1 DEF AVBase, Acquired, Offered
    <3>3. Upcoming("video") = Frame
      BY <1>0, <3>2, UpcomingType, HeadFacts DEF Frame, AVBase
    <3>4. Upcoming("video") # Cuts[cut][2]
      BY <3>1, <3>3 DEF IsLast
    <3>5. Upcoming("video") <= Cuts[cut][2]
      BY <3>1 DEF AVCore, Bound, LoopLeft
    <3> QED
      BY <1>1, <1>2, <1>4, <3>1, <3>4, <3>5
  <2>3. CASE ~Advances /\ ~Ignores /\ ~Encodes /\ ~Delays
    <3>1. cut' = cut /\ ~LoopLeft /\ pc'["encoder"] # "dispose_video"
      BY <1>0, <2>3 DEF Serves, Moves, Overlooks, Consumes, DropsVideo, DropsAudio, KeepsAudio,
         From, LoopLeft, Streams, flow
    <3> QED
      BY <1>1, <1>4, <3>1 DEF AVCore, Bound
  <2> QED
    BY <2>1, <2>2, <2>3
<1> QED
  BY <1>3, <1>4

\* A frame is marked as cloned by a delay, and unmarked before the next pair.
LEMMA ClonedEncoder == AVCore /\ EncoderStep => Cloned'
<1> SUFFICES ASSUME AVCore, EncoderStep, NEW s \in Streams, NEW i \in 1 .. Len(queue'[s]),
                    "IS_CLONED" \in queue'[s][i].attributes
             PROVE  /\ s = "audio" /\ i = 1 /\ queue'[s][i].data # NoData
                    /\ pc'["encoder"] \in {"dispose_video", "dispose_audio"}
  BY DEF Cloned
<1>0. /\ Serves /\ Queues' /\ AVBase /\ Queues
      /\ "video" \in Streams /\ "audio" \in Streams /\ s \in {"video", "audio"}
  BY EncoderServes, ThreadNames DEF AVCore, AVBase, Streams
<1>1. \A t \in Streams : \A j \in 1 .. Len(queue[t]) : "IS_CLONED" \in queue[t][j].attributes =>
          /\ t = "audio" /\ j = 1 /\ queue[t][j].data # NoData
          /\ pc["encoder"] \in {"dispose_video", "dispose_audio"}
  BY DEF AVCore, Cloned
<1>2. /\ queue'[s] = queue[s] => i \in 1 .. Len(queue[s])
      /\ Dropped(s) => /\ i + 1 \in 1 .. Len(queue[s]) /\ i + 1 # 1
                       /\ queue'[s][i] = queue[s][i + 1]
      /\ \A a : Marked(s, a) =>
           /\ i \in 1 .. Len(queue[s])
           /\ i = 1 => queue'[s][i] = [id |-> queue[s][1].id, stage |-> queue[s][1].stage,
                                       data |-> queue[s][1].data, attributes |-> a]
           /\ i # 1 => queue'[s][i] = queue[s][i]
  BY <1>0, FramesThen
<1>3. ~Dropped(s)
  BY <1>1, <1>2
<1>4. queue'[s] = queue[s] => /\ s = "audio" /\ i = 1 /\ queue'[s][i].data # NoData
                              /\ pc["encoder"] \in {"dispose_video", "dispose_audio"}
  BY <1>1, <1>2
<1>5. \A a : Marked(s, a) => /\ i = 1 /\ "IS_CLONED" \in a /\ queue'[s][1].data = queue[s][1].data
                             /\ 1 \in 1 .. Len(queue[s])
  <2> SUFFICES ASSUME NEW a, Marked(s, a)
               PROVE  /\ i = 1 /\ "IS_CLONED" \in a /\ queue'[s][1].data = queue[s][1].data
                      /\ 1 \in 1 .. Len(queue[s])
    OBVIOUS
  <2>1. i = 1
    <3>1. i # 1 => i \in 1 .. Len(queue[s]) /\ queue'[s][i] = queue[s][i]
      BY <1>2
    <3> QED
      BY <1>1, <3>1
  <2>2. /\ 1 \in 1 .. Len(queue[s])
        /\ queue'[s][1] = [id |-> queue[s][1].id, stage |-> queue[s][1].stage,
                           data |-> queue[s][1].data, attributes |-> a]
    BY <1>2, <2>1
  <2>3. "IS_CLONED" \in queue'[s][1].attributes
    BY <2>1
  <2> QED
    BY <2>1, <2>2, <2>3
<1>6. CASE Moves \/ Advances \/ Encodes
  BY <1>4, <1>6 DEF Moves, Advances, Encodes, From, Streams, LoopLeft
<1>7. CASE \E t \in Streams : Overlooks(t)
  BY <1>3, <1>4, <1>7 DEF Overlooks, Elsewhere, From, Streams
<1>8. CASE Consumes \/ Ignores
  BY <1>0, <1>1, <1>5, <1>8 DEF Consumes, Ignores, Labels, From
<1>9. CASE Delays
  <2>1. pc["encoder"] = "pair" /\ pc'["encoder"] = "dispose_video" /\ Exporting
    BY <1>9 DEF Delays, From
  <2>2. queue[s][1].data # NoData
    BY <1>0, <2>1, ExportsContents DEF AVCore
  <2>3. s = "audio"
    BY <1>0, <1>1, <1>5, <1>9, <2>1 DEF Delays, Labels
  <2> QED
    BY <1>5, <1>9, <2>1, <2>2, <2>3 DEF Delays, Labels
<1>10. CASE DropsVideo
  BY <1>0, <1>3, <1>4, <1>10 DEF DropsVideo, Elsewhere, From
<1>11. CASE DropsAudio
  BY <1>0, <1>3, <1>4, <1>11 DEF DropsAudio, Elsewhere, From
<1>12. CASE KeepsAudio
  BY <1>0, <1>4, <1>5, <1>12 DEF KeepsAudio, Elsewhere, From
<1> QED
  BY <1>0, <1>6, <1>7, <1>8, <1>9, <1>10, <1>11, <1>12 DEF Serves

\* A frame whose flag is consumed stays beside a video frame before the range, until it leaves.
LEMMA SpentEncoder == AVCore /\ Gapped /\ EncoderStep => SpentGuarded'
<1> SUFFICES ASSUME AVCore, Gapped, EncoderStep, NEW s \in Streams, NEW i \in 1 .. Len(queue'[s]),
                    Spent(queue'[s][i])
             PROVE  i = 1 /\ Guarded(s)'
  BY DEF SpentGuarded
<1>0. /\ Serves /\ Queues' /\ AVBase /\ Queues
      /\ "video" \in Streams /\ "audio" \in Streams /\ s \in {"video", "audio"}
  BY EncoderServes, ThreadNames DEF AVCore, AVBase, Streams
<1>1. \A t \in Streams : \A j \in 1 .. Len(queue[t]) : Spent(queue[t][j]) => j = 1 /\ Guarded(t)
  BY DEF AVCore, SpentGuarded
<1>2. /\ queue'[s] = queue[s] => i \in 1 .. Len(queue[s])
      /\ Dropped(s) => /\ i + 1 \in 1 .. Len(queue[s]) /\ i + 1 # 1
                       /\ queue'[s][i] = queue[s][i + 1]
      /\ \A a : Marked(s, a) =>
           /\ i \in 1 .. Len(queue[s])
           /\ i = 1 => queue'[s][i] = [id |-> queue[s][1].id, stage |-> queue[s][1].stage,
                                       data |-> queue[s][1].data, attributes |-> a]
           /\ i # 1 => queue'[s][i] = queue[s][i]
  BY <1>0, FramesThen
<1>3. ~Dropped(s)
  BY <1>1, <1>2
<1>4. queue'[s] = queue[s] => i = 1 /\ Spent(queue[s][1]) /\ Guarded(s)
  BY <1>1, <1>2
<1>5. \A a : Marked(s, a) =>
          /\ i = 1 /\ 1 \in 1 .. Len(queue[s])
          /\ queue[s][1].data = NoData /\ queue[s][1].stage = "READY"
          /\ a \cap {"SKIPPED", "END_OF_STREAM"} = {}
  <2> SUFFICES ASSUME NEW a, Marked(s, a)
               PROVE  /\ i = 1 /\ 1 \in 1 .. Len(queue[s])
                      /\ queue[s][1].data = NoData /\ queue[s][1].stage = "READY"
                      /\ a \cap {"SKIPPED", "END_OF_STREAM"} = {}
    OBVIOUS
  <2>1. i = 1
    <3>1. i # 1 => i \in 1 .. Len(queue[s]) /\ queue'[s][i] = queue[s][i]
      BY <1>2
    <3> QED
      BY <1>1, <3>1
  <2>2. /\ 1 \in 1 .. Len(queue[s])
        /\ queue'[s][1] = [id |-> queue[s][1].id, stage |-> queue[s][1].stage,
                           data |-> queue[s][1].data, attributes |-> a]
    BY <1>2, <2>1
  <2>3. Spent(queue'[s][1])
    BY <2>1
  <2> QED
    BY <2>1, <2>2, <2>3 DEF Spent, Bare
<1>6. CASE Moves
  <2>1. queue' = queue /\ cut' = cut
    BY <1>6 DEF Moves
  <2>2. Guarded(s)'
    BY <1>4, <1>6, <2>1 DEF Moves, Guarded, Offered, From, LoopLeft, Streams
  <2> QED
    BY <1>4, <2>1, <2>2
<1>7. CASE Advances
  <2>1. /\ queue' = queue /\ cut' = cut + 1 /\ cut < Len(Cuts)
        /\ pc["encoder"] = "range" /\ pc'["encoder"] = "need_stop"
    BY <1>7 DEF Advances, From
  <2>2. i = 1 /\ Offered("video")
    BY <1>4, <2>1 DEF Guarded, LoopLeft
  <2>3. queue["video"][1].id = Upcoming("video") /\ Upcoming("video") \in Nat
    BY <1>0, <2>2, UpcomingType DEF Offered
  <2>4. Upcoming("video") <= Cuts[cut][2]
    BY <2>1 DEF AVCore, Bound, LoopLeft
  <2>5. cut \in 1 .. Len(Cuts) - 1 /\ cut + 1 \in DOMAIN Cuts /\ cut \in DOMAIN Cuts
    BY <1>0, <2>1, CutFacts DEF AVBase, Scalars
  <2>6. Cuts[cut][2] < Cuts[cut + 1][1] /\ Cuts[cut][2] \in Nat /\ Cuts[cut + 1][1] \in Nat
    BY <2>5, CutFacts DEF Gapped
  <2>7. queue["video"][1].id < Cuts[cut'][1]
    BY <2>1, <2>3, <2>4, <2>6
  <2>8. Offered("video")'
    BY <2>1, <2>2 DEF Offered
  <2> QED
    BY <2>1, <2>2, <2>7, <2>8 DEF Guarded
<1>8. CASE \E t \in Streams : Overlooks(t)
  <2>1. PICK t \in Streams : Overlooks(t)
    BY <1>8
  <2>2. s # t /\ queue'[s] = queue[s]
    BY <1>3, <2>1 DEF Overlooks, Elsewhere
  <2>3. pc["encoder"] = t /\ pc'["encoder"] = t /\ cut' = cut
    BY <2>1 DEF Overlooks, From, flow
  <2>4. Offered("video") /\ queue["video"][1].id < Cuts[cut][1]
    BY <1>4, <2>2, <2>3 DEF Guarded, LoopLeft, Streams
  <2>5. t # "video"
    BY <2>1, <2>4 DEF Overlooks, Offered
  <2>6. t = "audio" /\ s = "video"
    BY <1>0, <2>2, <2>5 DEF Streams
  <2>7. Offered("video")'
    BY <2>2, <2>4, <2>6 DEF Offered
  <2> QED
    BY <1>4, <2>2, <2>3, <2>4, <2>6, <2>7 DEF Guarded
<1>9. ASSUME NEW v, Marked("video", v), Offered("video"), "SKIPPED" \notin v
      PROVE  Offered("video")' /\ queue'["video"][1].id = queue["video"][1].id
  <2>1. queue'["video"] # <<>>
    BY <1>0, <1>9, LongFacts DEF Marked
  <2> QED
    BY <1>9, <2>1 DEF Marked, Offered
<1>10. pc["encoder"] = "pair" => Offered("video") /\ Offered("audio")
  BY <1>0 DEF AVBase, Acquired
<1>11. CASE Consumes
  <2>1. pc["encoder"] = "pair" /\ pc'["encoder"] = "range"
    BY <1>11 DEF Consumes, From
  <2>2. Offered("video")'
    BY <1>9, <1>10, <1>11, <2>1 DEF Consumes, Labels, Offered
  <2>3. i = 1
    BY <1>0, <1>5, <1>11 DEF Consumes, Labels
  <2> QED
    BY <2>1, <2>2, <2>3 DEF Guarded
<1>12. CASE Ignores
  <2>1. pc["encoder"] = "pair" /\ pc'["encoder"] = "dispose_video" /\ cut' = cut
    BY <1>12 DEF Ignores, From, flow
  <2>2. Offered("video")' /\ queue'["video"][1].id = queue["video"][1].id
    BY <1>9, <1>10, <1>12, <2>1 DEF Ignores, Labels, Offered
  <2>3. PICK a : Marked(s, a) /\ a = queue[s][1].attributes \cup {"OUT_OF_RANGE"}
    BY <1>0, <1>12 DEF Ignores, Labels
  <2>4. i = 1 /\ Spent(queue[s][1]) /\ 1 \in 1 .. Len(queue[s])
    BY <1>5, <2>3 DEF Spent, Bare
  <2>5. Guarded(s)
    BY <1>1, <2>4
  <2>6. queue["video"][1].id < Cuts[cut][1]
    BY <2>1, <2>5 DEF Guarded, LoopLeft
  <2> QED
    BY <2>1, <2>2, <2>4, <2>6 DEF Guarded
<1>13. CASE Encodes \/ Delays
  <2>1. queue[s][1].data # NoData
    BY <1>13, ExportsContents DEF AVCore, Encodes, Delays
  <2>2. queue'[s] = queue[s] \/ \E a : Marked(s, a)
    BY <1>0, <1>13 DEF Encodes, Delays, Labels
  <2> QED
    BY <1>4, <1>5, <2>1, <2>2 DEF Spent, Bare
<1>14. CASE DropsVideo
  <2>1. s = "audio" /\ queue'[s] = queue[s] /\ pc'["encoder"] = "dispose_audio"
    BY <1>0, <1>3, <1>14 DEF DropsVideo, Elsewhere, From
  <2> QED
    BY <1>4, <2>1 DEF Guarded
<1>15. CASE DropsAudio
  <2>1. s = "video" /\ queue'[s] = queue[s] /\ pc["encoder"] = "dispose_audio"
    BY <1>0, <1>3, <1>15 DEF DropsAudio, Elsewhere, From
  <2> QED
    BY <1>4, <2>1 DEF Guarded, LoopLeft
<1>16. CASE KeepsAudio
  <2>1. pc["encoder"] = "dispose_audio" /\ "IS_CLONED" \in queue["audio"][1].attributes
    BY <1>16 DEF KeepsAudio, From
  <2>2. CASE s = "video"
    <3>1. queue'[s] = queue[s]
      BY <1>0, <1>16, <2>2 DEF KeepsAudio, Elsewhere
    <3> QED
      BY <1>4, <2>1, <2>2, <3>1 DEF Guarded, LoopLeft
  <2>3. CASE s = "audio"
    <3>1. 1 \in 1 .. Len(queue["audio"]) /\ queue["audio"][1].data = NoData
      BY <1>5, <1>16, <2>3 DEF KeepsAudio
    <3> QED
      BY <1>0, <2>1, <3>1 DEF AVCore, Cloned
  <2> QED
    BY <1>0, <2>2, <2>3
<1> QED
  BY <1>0, <1>6, <1>7, <1>8, <1>11, <1>12, <1>13, <1>14, <1>15, <1>16 DEF Serves

\* Every step keeps the core invariant.
LEMMA CoreNext == Gapped /\ AVCore /\ [AVNext]_avvars => AVCore'
<1> SUFFICES ASSUME Gapped, AVCore, [AVNext]_avvars PROVE AVCore'
  OBVIOUS
<1>1. AVBase'
  BY BaseNext DEF AVCore
<1>2. CASE SignalRaised \/ SignalHandled \/ UNCHANGED avvars
  <2>1. UNCHANGED <<pc, queue, active, source, flow>>
    BY <1>2 DEF SignalRaised, SignalHandled, avvars
  <2> QED
    BY <1>1, <2>1 DEF AVCore, Kept, Numbered, Ended, Bound, Cloned, SpentGuarded, Guarded,
       Offered, Upcoming, LoopLeft, source, flow
<1>3. CASE EncoderStep
  <2>1. Bound' /\ Cloned' /\ SpentGuarded'
    BY <1>3, BoundEncoder, ClonedEncoder, SpentEncoder
  <2>2. \A s \in Streams : Kept(s)' /\ Numbered(s)'
    BY <1>3, EncoderServes, ServesKeep DEF AVCore
  <2> QED
    BY <1>1, <2>1, <2>2 DEF AVCore
<1> QED
  BY <1>2, <1>3, CoreImporter DEF AVNext

\* The core invariant holds at the start.
LEMMA CoreInit == AVInit => AVCore
<1> SUFFICES ASSUME AVInit PROVE AVCore
  OBVIOUS
<1>1. \A s \in Streams : queue[s] = <<>> /\ Len(queue[s]) = 0 /\ frameId[s] = 0
  BY DEF AVInit
<1>2. \A s \in Streams : Kept(s) /\ Numbered(s)
  BY <1>1 DEF Kept, Numbered
<1>3. Cloned /\ SpentGuarded
  BY <1>1 DEF Cloned, SpentGuarded
<1>4. Bound
  <2>1. cut = 1 /\ cut \in DOMAIN Cuts /\ Cuts[cut][2] \in Nat /\ pc["encoder"] = "need_stop"
    BY BaseInit, CutFacts, ThreadNames DEF AVInit, AVBase, Scalars
  <2>2. Upcoming("video") = 0
    BY <1>1, ThreadNames DEF Upcoming
  <2> QED
    BY <2>1, <2>2 DEF Bound
<1> QED
  BY <1>2, <1>3, <1>4, BaseInit DEF AVCore

\* The empty frame that a failed read leaves is never encoded: what is_last_frame consumed the
\* flag of lies before the next range, and encoder_skip passes it over.  For every capacity,
\* input, shift and list of ranges between which at least one frame lies.
THEOREM ContentsEncoded ==
    ASSUME Gapped
    PROVE  AVSpec => []EmptyNeverEncoded
<1>1. AVInit => AVCore
  BY CoreInit
<1>2. AVCore /\ [AVNext]_avvars => AVCore'
  BY CoreNext
<1>3. AVCore => EmptyNeverEncoded
  BY ExportsContents DEF AVCore, EmptyNeverEncoded
<1> QED
  BY <1>1, <1>2, <1>3, PTL DEF AVSpec

-----------------------------------------------------------------------------
(* Both streams, when each is one file.                                      *)

\* What the import of stream s puts into its n-th frame.
Recording(s, n) ==
    IF s = "video" THEN n ELSE IF n + shift < 0 THEN Silence ELSE n + shift

\* No frame is skipped, and each holds what was recorded at its time.
Recorded(s) ==
    \A i \in 1 .. Len(queue[s]) :
        /\ "SKIPPED" \notin queue[s][i].attributes
        /\ queue[s][i].data # NoData => queue[s][i].data = Recording(s, queue[s][i].id)

\* The importer has read a frame of the file for each frame it passed on, but for those the
\* shift adds or takes away.
InStep(s) ==
    IF s = "video" THEN pos[s] = frameId[s]
    ELSE \/ sync < 0 /\ pos[s] = 0 /\ sync = shift + frameId[s]
         \/ sync > 0 /\ pos[s] = 0 /\ frameId[s] = 0 /\ sync = shift
         \/ sync = 0 /\ pos[s] = frameId[s] + shift

Plain(s) ==
    /\ file[s] = 1 /\ pc[s] \notin {"open", "next", "wake"}
    /\ Importing(s) => InStep(s)

\* The stream is over and its frames are gone.
Dead(s) == queue[s] = <<>> /\ Ended(s)

\* One audio frame more or less than video frames have been disposed of, for the moment.
Held == IF "IS_CLONED" \in queue["audio"][1].attributes THEN 1 ELSE 0

Owed ==
    IF pc["encoder"] = "dispose_video" THEN Held
    ELSE IF pc["encoder"] = "dispose_audio" THEN Held - 1 ELSE 0

Paired ==
    ~LoopLeft /\ (\A s \in Streams : ~Dead(s)) =>
        Upcoming("audio") = Upcoming("video") - delays + Owed

Single == (\A s \in Streams : Recorded(s) /\ Plain(s)) /\ Paired

AVSync == AVCore /\ (~Directory => Single)

\* Without a directory each stream is one file.
LEMMA OneFile ==
    ASSUME Files, ~Directory
    PROVE  \A s \in Streams : Len(input[s]) = 1
<1> TAKE s \in Streams
<1>1. input[s] \in Seq(Nat) /\ input[s] # <<>>
  BY DEF Files
<1>2. Len(input[s]) \in Nat /\ Len(input[s]) # 0
  BY <1>1, LenProperties, EmptySeq
<1>3. ~(Len(input[s]) > 1)
  BY DEF Directory
<1>4. \A k \in Nat : k # 0 /\ ~(k > 1) => k = 1
  OBVIOUS
<1> QED
  BY <1>2, <1>3, <1>4

\* An importer counts on, and its frames hold what was recorded.
LEMMA PlainImporter ==
    ASSUME AVBase, ~Directory, NEW s \in Streams, ImporterStep(s), Kept(s), Numbered(s),
           \A t \in Streams : Recorded(t) /\ Plain(t)
    PROVE  \A t \in Streams : Recorded(t)' /\ Plain(t)'
<1>1. /\ Feeds(s) /\ Queues' /\ Elsewhere(s) /\ UNCHANGED <<input, shift>>
      /\ \A t \in Threads : t # s => pc'[t] = pc[t]
  BY ImporterFeeds
<1>2. /\ Queues /\ Stages(s) /\ Scalars /\ Files /\ Streams \subseteq Threads
      /\ s \in {"video", "audio"} /\ Streams = {"video", "audio"}
  BY ThreadNames DEF AVBase, Streams
<1>3. Recorded(s) /\ Plain(s) /\ Len(input[s]) = 1
  BY <1>2, OneFile
<1> DEFINE n == Len(queue[s])
<1>4. /\ n \in Nat /\ Len(queue'[s]) \in Nat
      /\ \A i \in 1 .. n : queue[s][i].id \in Nat
      /\ frameId \in [Streams -> Nat] /\ pos \in [Streams -> Nat] /\ sync \in Int /\ shift \in Int
      /\ file \in [Streams -> Nat]
  BY <1>1, <1>2, LongFacts DEF Scalars, Files
<1>5. /\ file[s] = 1 /\ pc[s] \notin {"open", "next", "wake"}
      /\ Importing(s) => InStep(s)
  BY <1>3 DEF Plain
<1> HIDE DEF n
<1>6. pc[s] = "fill" => /\ n \in 1 .. n /\ queue[s][n].id = frameId[s]
                        /\ InStep(s)
  <2> SUFFICES ASSUME pc[s] = "fill"
               PROVE  n \in 1 .. n /\ queue[s][n].id = frameId[s] /\ InStep(s)
    OBVIOUS
  <2>1. n \in 1 .. n /\ queue[s] # <<>>
    BY <1>2, QueueFacts DEF Stages, n
  <2>2. queue[s][n].stage = "EMPTY"
    BY <1>2, <2>1 DEF Stages, n
  <2>3. queue[s][n].data = NoData
    BY <2>1, <2>2 DEF Kept, n
  <2>4. frameId[s] = queue[s][n].id + 0
    BY <2>1, <2>3 DEF Numbered, Step, n
  <2> QED
    BY <1>4, <1>5, <2>1, <2>4 DEF Importing
<1>7. ASSUME NEW d, NEW a, Pushed(s, d, a), pc[s] = "fill", "SKIPPED" \notin a,
             d # NoData => d = Recording(s, frameId[s])
      PROVE  Recorded(s)'
  <2>1. /\ Len(queue'[s]) = n /\ shift' = shift
        /\ \A i \in 1 .. n - 1 : queue'[s][i] = queue[s][i]
        /\ queue'[s][n] = [id |-> queue[s][n].id, stage |-> "READY", data |-> d, attributes |-> a]
    BY <1>1, <1>7 DEF Pushed, n
  <2>2. ASSUME NEW i \in 1 .. n
        PROVE  /\ "SKIPPED" \notin queue'[s][i].attributes
               /\ queue'[s][i].data # NoData
                    => queue'[s][i].data = Recording(s, queue'[s][i].id)
    <3>1. CASE i = n
      BY <1>6, <1>7, <2>1, <3>1
    <3>2. CASE i # n
      <4>1. queue'[s][i] = queue[s][i]
        BY <1>4, <2>1, <3>2
      <4> QED
        BY <1>3, <4>1 DEF Recorded, n
    <3> QED
      BY <3>1, <3>2
  <2> QED
    BY <2>1, <2>2 DEF Recorded, Recording
<1>8. Recorded(s)' /\ Plain(s)'
  <2>1. CASE Quiet(s)
    <3>1. Recorded(s)'
      BY <1>1, <1>3, <2>1 DEF Quiet, Recorded, Recording
    <3>2. /\ UNCHANGED <<pos, file, frameId, sync, shift>>
          /\ pc'[s] \notin {"open", "next", "wake"}
          /\ Importing(s)' => Importing(s)
      BY <1>1, <1>5, <2>1 DEF Quiet
    <3>3. InStep(s) => InStep(s)'
      BY <3>2 DEF InStep
    <3>4. Plain(s)'
      BY <1>5, <3>2, <3>3 DEF Plain
    <3> QED
      BY <3>1, <3>4
  <2>2. CASE Enters(s)
    <3>1. /\ Len(queue'[s]) = n + 1 /\ shift' = shift
          /\ \A i \in 1 .. n : queue'[s][i] = queue[s][i]
          /\ queue'[s][n + 1].data = NoData /\ queue'[s][n + 1].attributes = {}
          /\ \A i \in 1 .. n + 1 : i \in 1 .. n \/ i = n + 1
      BY <1>1, <1>4, <2>2 DEF Enters, Added, n
    <3>2. Recorded(s)'
      BY <1>3, <3>1 DEF Recorded, Recording, n
    <3>3. UNCHANGED <<pos, file, frameId, sync, shift>> /\ pc'[s] = "fill" /\ pc[s] = "register"
      BY <1>1, <2>2 DEF Enters
    <3>4. InStep(s)'
      BY <1>5, <3>3 DEF InStep, Importing
    <3> QED
      BY <1>5, <3>2, <3>3, <3>4 DEF Plain
  <2>3. CASE Reads(s)
    <3>1. /\ pc[s] = "fill" /\ pc'[s] = "loop" /\ file' = file
          /\ frameId'[s] = frameId[s] + 1 /\ shift' = shift
      BY <1>1, <1>4, <2>3 DEF Reads
    <3>2. CASE s = "audio" /\ sync < 0 /\ Pushed(s, Silence, {})
               /\ sync' = sync + 1 /\ UNCHANGED pos
      <4>1. /\ pos[s] = 0 /\ sync = shift + frameId[s] /\ frameId[s] \in Nat
        BY <1>4, <1>6, <3>1, <3>2 DEF InStep
      <4>2. Silence = Recording(s, frameId[s])
        BY <1>4, <3>2, <4>1 DEF Recording
      <4>3. InStep(s)'
        BY <1>4, <3>1, <3>2, <4>1 DEF InStep
      <4>4. Recorded(s)'
        BY <1>7, <3>1, <3>2, <4>2
      <4> QED
        BY <1>5, <3>1, <4>3, <4>4 DEF Plain
    <3>3. CASE /\ ~(s = "audio" /\ sync < 0) /\ Pushed(s, pos[s] + Discards(s), {})
               /\ pos' = [pos EXCEPT ![s] = @ + Discards(s) + 1]
               /\ sync' = IF s = "audio" THEN 0 ELSE sync
      <4>1. pos'[s] = pos[s] + Discards(s) + 1
        BY <1>4, <3>3
      <4>2. pos[s] + Discards(s) = Recording(s, frameId[s]) /\ InStep(s)'
        <5>1. InStep(s) /\ pos[s] \in Nat /\ frameId[s] \in Nat
          BY <1>4, <1>6, <3>1
        <5>2. CASE s = "video"
          <6>1. Discards(s) = 0 /\ pos[s] = frameId[s]
            BY <5>1, <5>2 DEF Discards, InStep
          <6> QED
            BY <3>1, <4>1, <5>1, <5>2, <6>1 DEF Recording, InStep
        <5>3. CASE s = "audio" /\ sync > 0
          <6>1. Discards(s) = sync /\ pos[s] = 0 /\ frameId[s] = 0 /\ sync = shift /\ sync' = 0
            BY <1>4, <3>3, <5>1, <5>3 DEF Discards, InStep
          <6> QED
            BY <1>4, <3>1, <4>1, <5>3, <6>1 DEF Recording, InStep
        <5>4. CASE s = "audio" /\ sync = 0
          <6>1. Discards(s) = 0 /\ pos[s] = frameId[s] + shift /\ sync' = 0
            BY <1>4, <3>3, <5>1, <5>4 DEF Discards, InStep
          <6> QED
            BY <1>4, <3>1, <4>1, <5>1, <5>4, <6>1 DEF Recording, InStep
        <5> QED
          BY <1>2, <1>4, <3>3, <5>2, <5>3, <5>4
      <4>3. Recorded(s)'
        BY <1>7, <3>1, <3>3, <4>2
      <4> QED
        BY <1>5, <3>1, <4>2, <4>3 DEF Plain
    <3> QED
      BY <2>3, <3>2, <3>3 DEF Reads
  <2>4. CASE Fails(s)
    <3>1. /\ pc[s] = "fill" /\ pc'[s] = "end" /\ file' = file
          /\ Pushed(s, NoData, {"END_OF_STREAM"})
      BY <1>3, <1>5, <2>4 DEF Fails
    <3>2. Recorded(s)'
      BY <1>7, <3>1
    <3> QED
      BY <1>5, <3>1, <3>2 DEF Plain, Importing
  <2> QED
    BY <1>1, <2>1, <2>2, <2>3, <2>4 DEF Feeds
<1>9. ASSUME NEW t \in Streams, t # s PROVE Recorded(t)' /\ Plain(t)'
  <2>1. queue'[t] = queue[t] /\ pc'[t] = pc[t] /\ shift' = shift
    BY <1>1, <1>2, <1>9 DEF Elsewhere
  <2>2. /\ file'[t] = file[t] /\ pos'[t] = pos[t] /\ frameId'[t] = frameId[t]
        /\ t = "audio" => sync' = sync
    <3>1. CASE Quiet(s)
      BY <1>1, <1>5, <3>1 DEF Quiet
    <3>2. CASE Enters(s) \/ Reads(s) \/ Fails(s)
      BY <1>2, <1>4, <1>9, <3>2 DEF Enters, Reads, Fails
    <3> QED
      BY <1>1, <3>1, <3>2 DEF Feeds
  <2>3. Recorded(t) /\ Plain(t)
    OBVIOUS
  <2>4. Recorded(t)'
    BY <2>1, <2>3 DEF Recorded, Recording
  <2>5. InStep(t) => InStep(t)'
    BY <1>2, <1>9, <2>1, <2>2 DEF InStep
  <2> QED
    BY <2>1, <2>2, <2>3, <2>4, <2>5 DEF Plain, Importing
<1> QED
  BY <1>8, <1>9

\* The encoder changes no contents.
LEMMA RecordedEncoder ==
    ASSUME AVBase, EncoderStep, \A s \in Streams : Recorded(s) /\ Plain(s)
    PROVE  \A s \in Streams : Recorded(s)' /\ Plain(s)'
<1> TAKE s \in Streams
<1>1. /\ Serves /\ Queues' /\ UNCHANGED source /\ pc'[s] = pc[s] /\ Queues /\ Acquired
  BY EncoderServes DEF AVBase
<1>2. Plain(s)'
  BY <1>1 DEF Plain, InStep, Importing, source
<1>3. \/ queue'[s] = queue[s] \/ Dropped(s)
      \/ \E a : Marked(s, a) /\ "SKIPPED" \notin a
  <2>1. CASE Moves \/ Advances \/ Encodes
    BY <2>1 DEF Moves, Advances, Encodes
  <2>2. CASE (\E t \in Streams : Overlooks(t)) \/ DropsVideo \/ DropsAudio
    BY <2>2 DEF Overlooks, DropsVideo, DropsAudio, Elsewhere
  <2>3. CASE Consumes
    <3>1. Offered("video") /\ Offered("audio")
      BY <1>1, <2>3 DEF Acquired, Consumes, From
    <3> QED
      BY <2>3, <3>1 DEF Consumes, Labels, Streams, Offered
  <2>4. CASE Ignores
    <3>1. Offered("video") /\ Offered("audio")
      BY <1>1, <2>4 DEF Acquired, Ignores, From
    <3> QED
      BY <2>4, <3>1 DEF Ignores, Labels, Streams, Offered
  <2>5. CASE Delays
    <3>1. Offered("video") /\ Offered("audio")
      BY <1>1, <2>5 DEF Acquired, Delays, From
    <3> QED
      BY <2>5, <3>1 DEF Delays, Labels, Streams, Offered
  <2>6. CASE KeepsAudio
    <3>1. Offered("audio")
      BY <1>1, <2>6 DEF Acquired, KeepsAudio, From
    <3> QED
      BY <2>6, <3>1 DEF KeepsAudio, Elsewhere, Offered
  <2> QED
    BY <1>1, <2>1, <2>2, <2>3, <2>4, <2>5, <2>6 DEF Serves
<1>4. ASSUME NEW i \in 1 .. Len(queue'[s])
      PROVE  \E j \in 1 .. Len(queue[s]) :
                /\ queue'[s][i].data = queue[s][j].data /\ queue'[s][i].id = queue[s][j].id
                /\ "SKIPPED" \in queue'[s][i].attributes => "SKIPPED" \in queue[s][j].attributes
  <2>1. CASE queue'[s] = queue[s]
    BY <2>1
  <2>2. CASE Dropped(s)
    BY <1>1, <2>2, FramesThen
  <2>3. ASSUME NEW a, Marked(s, a), "SKIPPED" \notin a
        PROVE  /\ i \in 1 .. Len(queue[s])
               /\ queue'[s][i].data = queue[s][i].data /\ queue'[s][i].id = queue[s][i].id
               /\ "SKIPPED" \in queue'[s][i].attributes => "SKIPPED" \in queue[s][i].attributes
    <3>1. /\ i \in 1 .. Len(queue[s])
          /\ i = 1 => queue'[s][i] = [id |-> queue[s][1].id, stage |-> queue[s][1].stage,
                                      data |-> queue[s][1].data, attributes |-> a]
          /\ i # 1 => queue'[s][i] = queue[s][i]
      BY <1>1, <2>3, FramesThen
    <3>2. CASE i = 1
      BY <2>3, <3>1, <3>2
    <3>3. CASE i # 1
      BY <3>1, <3>3
    <3> QED
      BY <3>2, <3>3
  <2> QED
    BY <1>3, <2>1, <2>2, <2>3
<1>5. shift' = shift
  BY <1>1 DEF source
<1>6. Recorded(s)'
  BY <1>4, <1>5 DEF Recorded, Recording
<1> QED
  BY <1>2, <1>6

\* A stream that is over stays so.
LEMMA DeadStays ==
    ASSUME AVCore, EncoderStep, NEW s \in Streams, Dead(s)
    PROVE  Dead(s)'
<1>1. /\ Serves /\ Queues' /\ UNCHANGED source /\ pc'[s] = pc[s] /\ Queues
  BY EncoderServes DEF AVCore, AVBase
<1>2. Ended(s)'
  BY <1>1 DEF Dead, Ended, source
<1>3. Len(queue[s]) = 0
  BY <1>1, LongFacts DEF Dead
<1>4. ~Dropped(s) /\ \A a : ~Marked(s, a)
  BY <1>3 DEF Dropped, Marked
<1>5. queue'[s] = queue[s]
  BY <1>1, <1>4 DEF Serves, Moves, Advances, Encodes, Overlooks, DropsVideo, DropsAudio,
     Consumes, Ignores, Delays, KeepsAudio, Labels, Elsewhere, Streams
<1> QED
  BY <1>2, <1>5 DEF Dead

\* A frame that leaves was one of the count, or its stream is over.
LEMMA LastGone ==
    ASSUME AVCore, EncoderStep, NEW s \in Streams, Dropped(s), Offered(s)
    PROVE  Step(queue[s][1]) = 1 \/ Dead(s)'
<1> SUFFICES ASSUME queue[s][1].data = NoData PROVE Dead(s)'
  BY DEF Step
<1>1. /\ Queues' /\ UNCHANGED source /\ pc'[s] = pc[s] /\ Queues /\ Kept(s)
  BY EncoderServes DEF AVCore, AVBase
<1>2. 1 \in 1 .. Len(queue[s]) /\ Bare(queue[s][1]) /\ "SKIPPED" \notin queue[s][1].attributes
  BY <1>1, QueueFacts DEF Offered, Bare
<1>3. 1 = Len(queue[s]) /\ Ended(s)
  BY <1>1, <1>2 DEF Kept
<1>4. queue'[s] = <<>>
  <2>1. Len(queue'[s]) = 0
    BY <1>3 DEF Dropped
  <2> QED
    BY <1>1, <2>1, LongFacts
<1> QED
  BY <1>1, <1>3, <1>4 DEF Dead, Ended, source

\* Both streams advance by one frame, unless an audio frame is kept for a delayed video frame.
LEMMA PairedEncoder ==
    ASSUME AVCore, EncoderStep, \A s \in Streams : Recorded(s), Paired
    PROVE  Paired'
<1> SUFFICES ASSUME ~LoopLeft', \A s \in Streams : ~Dead(s)'
             PROVE  Upcoming("audio")' = Upcoming("video")' - delays' + Owed'
  BY DEF Paired
<1>0. /\ Serves /\ Queues' /\ UNCHANGED source /\ \A s \in Streams : pc'[s] = pc[s]
      /\ AVBase /\ Queues /\ Acquired /\ "video" \in Streams /\ "audio" \in Streams
      /\ \A s \in Streams : Kept(s) /\ Numbered(s)
  BY EncoderServes, ThreadNames DEF AVCore, AVBase
<1>1. \A s \in Streams : ~Dead(s)
  BY DeadStays
<1>2. \A s \in Streams : /\ Dropped(s) => Upcoming(s)' = Upcoming(s) + Step(queue[s][1])
                         /\ ~Dropped(s) => Upcoming(s)' = Upcoming(s)
  BY <1>0, ServesKeep
<1>3. /\ Upcoming("video") \in Nat /\ Upcoming("audio") \in Nat /\ delays \in Nat
      /\ Held \in {0, 1} /\ Held' \in {0, 1}
  BY <1>0, UpcomingType, AVAssumption, SMTT(30) DEF AVBase, Scalars, Held
<1>4. ~LoopLeft => Upcoming("audio") = Upcoming("video") - delays + Owed
  BY <1>1 DEF Paired
<1>5. ASSUME NEW s \in Streams, queue'[s] = queue[s] \/ \E a : Marked(s, a)
      PROVE  Upcoming(s)' = Upcoming(s)
  <2>1. ~Dropped(s)
    <3>1. Len(queue[s]) \in Nat /\ Len(queue'[s]) \in Nat
      BY <1>0, LongFacts
    <3>2. Len(queue'[s]) = Len(queue[s])
      BY <1>5 DEF Marked
    <3> QED
      BY <3>1, <3>2 DEF Dropped
  <2> QED
    BY <1>2, <2>1
<1>6. pc["encoder"] = "pair" => Held = 0
  <2>1. pc["encoder"] = "pair" => 1 \in 1 .. Len(queue["audio"])
    BY <1>0, QueueFacts DEF Acquired, Offered
  <2> QED
    BY <1>0, <2>1 DEF Held, AVCore, Cloned
<1>7. CASE Moves \/ Advances
  BY <1>0, <1>3, <1>4, <1>5, <1>7 DEF Moves, Advances, From, Owed, LoopLeft, Streams
<1>8. CASE \E s \in Streams : Overlooks(s)
  <2>1. PICK s \in Streams : Overlooks(s)
    BY <1>8
  <2>2. 1 \in 1 .. Len(queue[s]) /\ "SKIPPED" \in queue[s][1].attributes
    BY <1>0, <2>1, QueueFacts DEF Overlooks, HeadReady
  <2> QED
    BY <2>2 DEF Recorded
<1>9. CASE Consumes
  <2>1. Upcoming("video")' = Upcoming("video") /\ Upcoming("audio")' = Upcoming("audio")
    BY <1>0, <1>5, <1>9 DEF Consumes, Labels
  <2> QED
    BY <1>3, <1>4, <1>9, <2>1 DEF Consumes, From, Owed, LoopLeft, flow
<1>10. CASE Ignores
  <2>1. Upcoming("video")' = Upcoming("video") /\ Upcoming("audio")' = Upcoming("audio")
    BY <1>0, <1>5, <1>10 DEF Ignores, Labels
  <2>2. Held' = 0
    BY <1>6, <1>10 DEF Ignores, Labels, Marked, From, Held
  <2> QED
    BY <1>3, <1>4, <1>10, <2>1, <2>2 DEF Ignores, From, Owed, LoopLeft, flow
<1>11. CASE Encodes
  <2>1. Upcoming("video")' = Upcoming("video") /\ Upcoming("audio")' = Upcoming("audio")
    BY <1>0, <1>5, <1>11 DEF Encodes
  <2>2. Held' = 0
    BY <1>6, <1>11 DEF Encodes, From, Held
  <2> QED
    BY <1>3, <1>4, <1>11, <2>1, <2>2 DEF Encodes, From, Owed, LoopLeft
<1>12. CASE Delays
  <2>1. Upcoming("video")' = Upcoming("video") /\ Upcoming("audio")' = Upcoming("audio")
    BY <1>0, <1>5, <1>12 DEF Delays, Labels
  <2>2. Held' = 1
    BY <1>12 DEF Delays, Labels, Marked, Held
  <2> QED
    BY <1>3, <1>4, <1>12, <2>1, <2>2 DEF Delays, From, Owed, LoopLeft
<1>13. CASE DropsVideo
  <2>1. pc["encoder"] = "dispose_video" /\ pc'["encoder"] = "dispose_audio" /\ delays' = delays
        /\ Dropped("video") /\ queue'["audio"] = queue["audio"]
    BY <1>0, <1>13 DEF DropsVideo, From, Elsewhere, flow
  <2>2. Step(queue["video"][1]) = 1
    BY <1>0, <2>1, LastGone DEF Acquired
  <2>3. Upcoming("video")' = Upcoming("video") + 1 /\ Upcoming("audio")' = Upcoming("audio")
    BY <1>0, <1>2, <1>5, <2>1, <2>2
  <2>4. Held' = Held /\ Owed = Held /\ Owed' = Held' - 1
    BY <2>1 DEF Held, Owed
  <2> QED
    BY <1>3, <1>4, <2>1, <2>3, <2>4 DEF LoopLeft
<1>14. CASE DropsAudio
  <2>1. pc["encoder"] = "dispose_audio" /\ pc'["encoder"] = "need_stop" /\ delays' = delays
        /\ Dropped("audio") /\ queue'["video"] = queue["video"] /\ Held = 0
    BY <1>0, <1>14 DEF DropsAudio, From, Elsewhere, Held, flow
  <2>2. Step(queue["audio"][1]) = 1
    BY <1>0, <2>1, LastGone DEF Acquired
  <2>3. Upcoming("audio")' = Upcoming("audio") + 1 /\ Upcoming("video")' = Upcoming("video")
    BY <1>0, <1>2, <1>5, <2>1, <2>2
  <2>4. Owed = -1 /\ Owed' = 0
    BY <2>1 DEF Owed
  <2> QED
    BY <1>3, <1>4, <2>1, <2>3, <2>4 DEF LoopLeft
<1>15. CASE KeepsAudio
  <2>1. pc["encoder"] = "dispose_audio" /\ pc'["encoder"] = "need_stop" /\ delays' = delays
        /\ queue'["video"] = queue["video"] /\ Held = 1
    BY <1>0, <1>15 DEF KeepsAudio, From, Elsewhere, Held, flow
  <2>2. Upcoming("audio")' = Upcoming("audio") /\ Upcoming("video")' = Upcoming("video")
    BY <1>0, <1>5, <1>15, <2>1 DEF KeepsAudio
  <2>3. Owed = 0 /\ Owed' = 0
    BY <2>1 DEF Owed
  <2> QED
    BY <1>3, <1>4, <2>1, <2>2, <2>3 DEF LoopLeft
<1> QED
  BY <1>0, <1>7, <1>8, <1>9, <1>10, <1>11, <1>12, <1>13, <1>14, <1>15 DEF Serves

\* Importers change nothing for the pair at work.
LEMMA PairedImporter ==
    ASSUME AVCore, NEW s \in Streams, ImporterStep(s), Paired
    PROVE  Paired'
<1>1. /\ \A t \in Streams : Upcoming(t)' = Upcoming(t) /\ (Dead(t) => Dead(t)')
      /\ Offered("audio") => queue'["audio"][1] = queue["audio"][1]
  BY ImporterKeeps, ThreadNames DEF Dead
<1>2. pc'["encoder"] = pc["encoder"] /\ delays' = delays
  BY ImporterFeeds, ThreadNames DEF AVCore
<1>3. Owed' = Owed
  BY <1>1, <1>2 DEF AVCore, AVBase, Acquired, Owed, Held
<1> QED
  BY <1>1, <1>2, <1>3, ThreadNames DEF Paired, LoopLeft

\* Every step keeps both streams together.
LEMMA SyncNext == Gapped /\ AVSync /\ [AVNext]_avvars => AVSync'
<1> SUFFICES ASSUME Gapped, AVSync, [AVNext]_avvars, ~Directory' PROVE Single'
  BY CoreNext DEF AVSync
<1>1. CASE SignalRaised \/ SignalHandled \/ UNCHANGED avvars
  <2>1. UNCHANGED <<pc, queue, active, source, flow>>
    BY <1>1 DEF SignalRaised, SignalHandled, avvars
  <2>2. ~Directory
    BY <2>1 DEF Directory, source
  <2> QED
    BY <2>1, <2>2 DEF AVSync, Single, Recorded, Recording, Plain, InStep, Importing, Paired, Dead,
       Ended, Upcoming, Owed, Held, LoopLeft, source, flow
<1>2. ASSUME NEW s \in Streams, ImporterStep(s) PROVE Single'
  <2>1. ~Directory
    BY <1>2, ImporterFeeds DEF Directory, AVSync, AVCore
  <2>2. \A t \in Streams : Recorded(t)' /\ Plain(t)'
    BY <1>2, <2>1, PlainImporter DEF AVSync, AVCore, Single
  <2> QED
    BY <1>2, <2>1, <2>2, PairedImporter DEF AVSync, Single
<1>3. CASE EncoderStep
  <2>1. ~Directory
    BY <1>3, EncoderServes DEF Directory, source, AVSync, AVCore
  <2>2. \A t \in Streams : Recorded(t)' /\ Plain(t)'
    BY <1>3, <2>1, RecordedEncoder DEF AVSync, AVCore, Single
  <2> QED
    BY <1>3, <2>1, <2>2, PairedEncoder DEF AVSync, Single
<1> QED
  BY <1>1, <1>2, <1>3 DEF AVNext

\* They start together.
LEMMA SyncInit == AVInit => AVSync
<1> SUFFICES ASSUME AVInit, ~Directory PROVE Single
  BY CoreInit DEF AVSync
<1>1. \A s \in Streams : queue[s] = <<>> /\ Len(queue[s]) = 0 /\ frameId[s] = 0 /\ pos[s] = 0
                         /\ file[s] = 1 /\ pc[s] = "loop"
  BY ThreadNames DEF AVInit
<1>2. pc["encoder"] = "need_stop" /\ sync = shift /\ shift \in Int /\ delays = 0
  BY ThreadNames, AVAssumption DEF AVInit
<1>3. \A s \in Streams : Recorded(s) /\ Plain(s)
  BY <1>1, <1>2 DEF Recorded, Plain, InStep
<1>4. Paired
  BY <1>1, <1>2, ThreadNames DEF Paired, Upcoming, Owed
<1> QED
  BY <1>3, <1>4 DEF Single

\* A pair that is exported has the same number but for the delays.
LEMMA SyncPairs == AVSync => InSync
<1> SUFFICES ASSUME AVSync, Exporting, ~Directory
             PROVE  LET v == First("video").data - delays + shift
                        a == First("audio").data
                    IN IF v < 0 THEN a = Silence ELSE a = v
  BY DEF InSync
<1>1. /\ pc["encoder"] = "pair" /\ Offered("video") /\ Offered("audio") /\ AVBase /\ Queues
      /\ "video" \in Streams /\ "audio" \in Streams
  BY ThreadNames DEF Exporting, AVSync, AVCore, AVBase, Acquired
<1>2. \A s \in Streams : First(s) = queue[s][1] /\ queue[s][1].data # NoData
  BY ExportsContents DEF AVSync, AVCore
<1>3. \A s \in Streams : /\ queue[s] # <<>> /\ 1 \in 1 .. Len(queue[s])
                         /\ Upcoming(s) = queue[s][1].id /\ Upcoming(s) \in Nat
  <2>1. \A s \in Streams : queue[s] # <<>>
    BY <1>1 DEF Streams, Offered
  <2> QED
    BY <1>1, <2>1, QueueFacts, UpcomingType
<1>4. /\ First("video").data = queue["video"][1].id
      /\ First("audio").data = IF queue["audio"][1].id + shift < 0 THEN Silence
                               ELSE queue["audio"][1].id + shift
  <2>1. \A s \in Streams : First(s).data = Recording(s, queue[s][1].id)
    BY <1>2, <1>3 DEF AVSync, Single, Recorded
  <2> QED
    BY <1>1, <2>1 DEF Recording
<1>5. Upcoming("audio") = Upcoming("video") - delays
  <2>1. \A s \in Streams : ~Dead(s)
    BY <1>3 DEF Dead
  <2>2. Owed = 0 /\ ~LoopLeft
    BY <1>1 DEF Owed, LoopLeft
  <2>3. delays \in Int
    BY <1>1, AVAssumption DEF AVBase, Scalars
  <2> QED
    BY <1>1, <1>3, <2>1, <2>2, <2>3 DEF AVSync, Single, Paired
<1>6. shift \in Int /\ delays \in Int
  BY <1>1, AVAssumption DEF AVBase, Scalars
<1> QED
  BY <1>1, <1>3, <1>4, <1>5, <1>6

\* A pair that is encoded belongs together: with the video frame v goes the audio recorded with
\* frame v, moved by the shift the user asked for and by one frame for each delayed video frame
\* (stages 3.1 to 3.3 of audio_import_loop, encoder_export, encoder_dispose_aframe).  For every
\* capacity, length of the streams, shift and number of delays, and for every list of ranges
\* between which at least one frame lies.
THEOREM PairsInSync ==
    ASSUME Gapped
    PROVE  AVSpec => []InSync
<1>1. AVInit => AVSync
  BY SyncInit
<1>2. AVSync /\ [AVNext]_avvars => AVSync'
  BY SyncNext
<1>3. AVSync => InSync
  BY SyncPairs
<1> QED
  BY <1>1, <1>2, <1>3, PTL DEF AVSpec
=============================================================================
