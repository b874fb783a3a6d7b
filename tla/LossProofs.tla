----------------------------- MODULE LossProofs -----------------------------
(***************************************************************************)
(* No imported frame is lost on its way to the output, and a video frame   *)
(* is encoded under the number of its place in the output.                 *)
(*                                                                         *)
(* The account (Accounted) says of every frame given out, while the        *)
(* encoder is in a range, that it is in use or through, and of those       *)
(* behind the range that they are in use still: this is what lets the next *)
(* range begin with all of its frames.  The encoder leaves a range when    *)
(* the least id in use (HeadLeast) is the end of the range or the end of   *)
(* the stream, or when nothing is in use and the importer has ended; what  *)
(* is behind the encoder is then Settled, and no step undoes that.         *)
(*                                                                         *)
(* The count (Counted) says, while the first range is encoded and nothing  *)
(* is dropped, how the ids follow one another along the frames of the      *)
(* chain, and that the id of the first is the number of frames out.        *)
(***************************************************************************)
EXTENDS ChainProofs

\* Ranges follow one another.
Ascending ==
    \A r \in 1 .. Len(Ranges) - 1 :
        Ranges[r][2] <= Ranges[r + 1][1] /\ Ranges[r + 1][1] <= Ranges[r + 1][2]

\* The end of a range is told from the frame that has its number: nobody skips it.
EndsSeen == Len(Ranges) = 1 \/ (Unused("SKIPPED") /\ Ascending)

Unsought(k) == Seek \cap 1 .. k = {}
Finished == pc[Importer] \in {"end", "exit"}

InUse(n) == \E f \in Frames : status[f] # "NULL" /\ id[f] = n
Wanted(r, n) == Ranges[r][1] <= n /\ n < Ranges[r][2]
Through(n) == (\E i \in DOMAIN out : out[i] = n) \/ n \in dropped

\* The first k ranges are done with: nothing is missing, nothing comes any more.
Settled(k) ==
    \A r \in 1 .. k :
        /\ \A n \in 0 .. nextId - 1 : Wanted(r, n) => Through(n)
        /\ Finished \/ Ranges[r][2] <= nextId

\* The encoder is in a range, nobody interrupted it, and no import was started again.
Steady == sig = "none" /\ range <= Len(Ranges) /\ Unsought(range)

\* Where the main thread is, and what it has not done yet.
OnCourse ==
    sig = "none" =>
        /\ range <= Len(Ranges) => run = "RUNNING"
        /\ pc[Encoder] \in {"stop", "interrupt", "pool_stop", "pool_join", "done"} =>
              range > Len(Ranges)
        /\ pc[Encoder] \in {"cancel", "wake", "join", "flush", "create"} =>
              range > Len(Ranges) \/ range \in Seek
        /\ Steady => \A m \in Streams : active[m] \/ pc[Importer] = "exit"

\* The frame being filled has the next number.
NextFilled == pc[Importer] = "fill" => id[cur[Importer]] = nextId

\* The frame at the end of the stream is the last one.
EndIsLast ==
    Steady => \A f \in Frames :
        status[f] # "NULL" /\ "END_OF_STREAM" \in attributes[f] => id[f] = nextId /\ Finished

\* Nothing is copied, so the number of a frame is its id.
OwnNumbers == Media = "video" => cloned = 0 /\ Unmarked("WAS_CLONED")

\* In a range every frame asked for is in use or through, those behind the range are in use.
InRanges ==
    Steady =>
        /\ Settled(range - 1)
        /\ \A n \in 0 .. nextId - 1 : Wanted(range, n) => InUse(n) \/ Through(n)
        /\ Len(Ranges) > 1 => \A n \in 0 .. nextId - 1 : Ranges[range][2] <= n => InUse(n)
        /\ pc[Encoder] = "range" => Settled(range)
        /\ pc[Encoder] = "dispose" => id[cur[Encoder]] # Ranges[range][2]

BehindLoop == sig = "none" /\ LoopLeft /\ Unsought(range - 1) => Settled(range - 1)

Accounted ==
    /\ OnCourse /\ NextFilled /\ EndIsLast /\ OwnNumbers
    /\ InRanges /\ BehindLoop

-----------------------------------------------------------------------------
\* The head of the chain has the least id in use, and an empty chain no frame.
LEMMA HeadLeast ==
    ASSUME Orderly
    PROVE  /\ \A f \in Frames : status[f] # "NULL" =>
                 /\ id[f] <= nextId
                 /\ head \in Frames /\ id[head] <= id[f]
           /\ tail = NoFrame => \A f \in Frames : status[f] = "NULL"
<1> PICK n, c : Woven(n, c)
  BY DEF Orderly, Chained
<1>1. ASSUME NEW f \in Frames, status[f] # "NULL"
      PROVE  id[f] <= nextId /\ head \in Frames /\ id[head] <= id[f] /\ tail # NoFrame
  <2>1. n \in Nat /\ c \in [1 .. n -> Frames]
    BY DEF Woven, Linked
  <2>2. PICK i \in 1 .. n : c[i] = f
    BY <1>1 DEF Woven, Members
  <2>3. n # 0 /\ 1 \in 1 .. n /\ n \in 1 .. n /\ 1 <= i
    BY <2>1
  <2>4. head = c[1] /\ tail = c[n] /\ c[1] \in Frames /\ c[n] \in Frames
    BY <2>1, <2>3 DEF Woven, Linked
  <2>5. id[c[1]] <= id[c[i]] /\ id[c[i]] <= nextId
    BY <2>3 DEF Woven, Sorted
  <2> QED
    BY <2>2, <2>4, <2>5, PointerFacts
<1> QED
  BY <1>1

\* Without copies a frame's number is its id.
LEMMA NumberIsId ==
    ASSUME Typed, OwnNumbers, NEW f \in Frames
    PROVE  FrameNumber(f) = id[f]
<1>1. id[f] \in Nat
  BY DEF Typed, TypeOK, BufferTypeOK
<1> QED
  BY <1>1 DEF FrameNumber, OwnNumbers

\* What the types say of the numbers.
LEMMA NumberTypes ==
    ASSUME Typed
    PROVE  /\ nextId \in Nat /\ range \in Nat /\ range \in 1 .. Len(Ranges) + 1
           /\ Len(Ranges) \in Nat \ {0}
           /\ id \in [Frames -> Nat] /\ status \in [Frames -> Status]
           /\ out \in Seq(Nat) /\ DOMAIN out = 1 .. Len(out) /\ Len(out) \in Nat
           /\ dropped \in SUBSET Nat
           /\ \A r \in 1 .. Len(Ranges) : Ranges[r][1] \in Nat /\ Ranges[r][2] \in Nat
BY RangeFacts DEF Typed, TypeOK, BufferTypeOK

-----------------------------------------------------------------------------
\* The number of the copies stays 0.
LEMMA OwnNumbersNext ==
    ASSUME Unused("IS_CLONED")
    PROVE  Orderly /\ OwnNumbers /\ [Next]_vars => OwnNumbers'
<1> SUFFICES ASSUME Orderly, OwnNumbers, [Next]_vars, Media = "video"
             PROVE  cloned' = 0 /\ Unmarked("WAS_CLONED")'
  BY DEF OwnNumbers
<1>0. /\ Typed /\ cloned = 0 /\ Unmarked("WAS_CLONED") /\ Unused("WAS_CLONED")
      /\ Unmarked("IS_CLONED") /\ NobodyAt("IS_CLONED") /\ MakesNoCopy
  BY PipelineAssumption
     DEF Orderly, OwnNumbers, Unused, Clean, Absent, MakesNoCopy
<1>1. CASE ImporterStep
  BY <1>0, <1>1, UnmarkedImporter
     DEF CopyMarks, ImporterStep, ImportLoop, ImportRegister, ImportFill, ImportEnd, control
<1>2. CASE \E w \in Workers : WorkerStep(w)
  <2> PICK w \in Workers : WorkerStep(w)
    BY <1>2
  <2>1. Unmarked("WAS_CLONED")'
    BY <1>0, UnmarkedWorker DEF CopyMarks, NobodyAt, LinesOf
  <2>2. UNCHANGED cloned
    BY DEF WorkerStep, WorkerCheck, WorkerReserve, WorkerHalt, WorkerFrame, WorkerDup,
       WorkerQueue, WorkerPost, WorkerPush, WorkerRemove, control
  <2> QED
    BY <1>0, <2>1, <2>2
<1>3. CASE EncoderStep
  <2>1. Unmarked("WAS_CLONED")'
    BY <1>0, <1>3, UnmarkedEncoder DEF CopyMarks
  <2>2. CASE EncoderProcess
    <3>1. "WAS_CLONED" \notin attributes[cur[Encoder]]
      BY <1>0, <2>2, EncoderFrom DEF EncoderProcess, At, Unmarked
    <3>2. \/ UNCHANGED cloned
          \/ \E a : /\ CountClone(a)
                    /\ \/ a = attributes[cur[Encoder]]
                       \/ a \in Filtered(EncoderSlots, attributes[cur[Encoder]])
      BY <2>2 DEF EncoderProcess
    <3>3. \A a \in Filtered(EncoderSlots, attributes[cur[Encoder]]) : "WAS_CLONED" \notin a
      BY <1>0, <3>1, FiltersDoNotMark DEF Slots, EncoderSlots
    <3> QED
      BY <1>0, <2>1, <3>1, <3>2, <3>3 DEF CountClone
  <2>3. CASE EncoderDispose
    <3>1. "WAS_CLONED" \notin attributes[cur[Encoder]]
      BY <1>0, <2>3, EncoderFrom DEF EncoderDispose, At, Unmarked
    <3>2. \E n \in {{}, {"OUT_OF_RANGE"}, {"IS_CLONED"}} :
             CountClone(attributes[cur[Encoder]] \cup n)
      BY <2>3 DEF EncoderDispose
    <3> QED
      BY <1>0, <2>1, <3>1, <3>2 DEF CountClone
  <2>4. CASE EncoderStep /\ ~EncoderProcess /\ ~EncoderDispose
    BY <1>0, <2>1, <2>4 DEF EncoderStep, EncoderCheck, EncoderAcquire, NextRange, StopAll,
       StopInterrupt, CancelImport, CancelWake, JoinImporter, Flush, CreateImporter,
       PoolStop, PoolJoin, control
  <2> QED
    BY <1>3, <2>2, <2>3, <2>4
<1>4. CASE SignalStep \/ UNCHANGED vars
  BY <1>0, <1>4 DEF SignalStep, SignalRaise, SignalWake, Interrupt, vars, fbvars, control,
     Unmarked
<1> QED
  BY <1>1, <1>2, <1>3, <1>4 DEF Next, Terminated

-----------------------------------------------------------------------------
\* A range to seek is not among the first that need no seek.
LEMMA SoughtRange ==
    ASSUME NEW r \in Nat \ {0}, r \in Seek
    PROVE  ~Unsought(r)
BY DEF Unsought

\* Fewer ranges, fewer seeks.
LEMMA FewerSought ==
    ASSUME NEW r \in Nat, NEW k \in Nat, r <= k, Unsought(k)
    PROVE  Unsought(r)
BY DEF Unsought

\* While the encoder is in a range, it is in its loop.
LEMMA SteadyInLoop ==
    ASSUME Typed, OnCourse, Steady
    PROVE  /\ pc[Encoder] \in {"need_stop", "acquire", "process", "dispose", "range"}
           /\ run = "RUNNING"
<1>1. range \in Nat \ {0} /\ range <= Len(Ranges) /\ sig = "none" /\ Len(Ranges) \in Nat
  BY NumberTypes DEF Steady
<1>2. ~(range > Len(Ranges)) /\ range \notin Seek
  BY <1>1, SoughtRange DEF Steady
<1>3. pc[Encoder] \in EncoderPC
  BY DEF Typed, TypeOK
<1> QED
  BY <1>1, <1>2, <1>3 DEF OnCourse, EncoderPC

-----------------------------------------------------------------------------
(* What a step of each thread does to the frames in use.                    *)

\* Filters set the two marks and nothing else.
LEMMA FiltersMarkOnly == \A m : m \notin {"SKIPPED", "IS_CLONED"} => Unused(m)
BY PipelineAssumption DEF Unused

EndMarks == {f \in Frames : "END_OF_STREAM" \in attributes[f]}

\* The importer comes to have a new frame.
Starts(f) ==
    /\ f \in Frames /\ status[f] = "NULL" /\ status' = [status EXCEPT ![f] = "EMPTY"]
    /\ id' = [id EXCEPT ![f] = nextId] /\ cur'[Importer] = f
    /\ EndMarks' = EndMarks \ {f}
    /\ pc'[Importer] = "fill" /\ pc[Importer] = "register"
    /\ UNCHANGED <<nextId, active>>

\* It hands on a frame it filled, or the one at the end of the stream.
Delivers(f) ==
    /\ f \in Frames /\ status[f] = "EMPTY" /\ status' = [status EXCEPT ![f] = AfterImport]
    /\ pc[Importer] = "fill" /\ f = cur[Importer]
    /\ \/ nextId' = nextId + 1 /\ pc'[Importer] = "loop" /\ EndMarks' = EndMarks \ {f}
       \/ nextId' = nextId /\ pc'[Importer] = "end" /\ EndMarks' = EndMarks \cup {f}
    /\ UNCHANGED <<id, active>>

\* Or it does nothing to frames.
Idles ==
    /\ UNCHANGED <<status, id, nextId>> /\ EndMarks' = EndMarks
    /\ pc'[Importer] # "fill" /\ (Finished => Finished')
    /\ pc'[Importer] = "exit" \/ (UNCHANGED active /\ pc[Importer] # "exit")

LEMMA ImporterGoes ==
    ASSUME Typed, Apart, ImporterStep
    PROVE  /\ UNCHANGED <<run, range, sig, out, dropped>>
           /\ pc'[Encoder] = pc[Encoder] /\ cur'[Encoder] = cur[Encoder]
           /\ Idles \/ \E f \in Frames : Starts(f) \/ Delivers(f)
<1> USE ThreadFacts, StageFacts
<1>0. /\ BufferTypeOK /\ pc \in [Threads -> ImporterPC \cup WorkerPC \cup EncoderPC]
      /\ cur \in [Threads -> FramePtr] /\ id \in [Frames -> Nat]
      /\ attributes \in [Frames -> SUBSET Attributes]
  BY DEF Typed, TypeOK, BufferTypeOK
<1>1. /\ UNCHANGED <<run, range, sig, out, dropped>>
      /\ \E l : Goto(Importer, l)
      /\ UNCHANGED cur \/ \E x : cur' = [cur EXCEPT ![Importer] = x]
  BY DEF ImporterStep, ImportLoop, ImportRegister, ImportFill, ImportEnd, AfterClaim,
     Register, Sleep, GiveUp, ClaimEmpty, Return, Release, fbvars, control, history
<1>2. pc'[Encoder] = pc[Encoder] /\ cur'[Encoder] = cur[Encoder]
  BY <1>0, <1>1 DEF Goto
<1>3. CASE ImportLoop
  <2>1. /\ UNCHANGED <<status, id, nextId, active, attributes>> /\ pc[Importer] = "loop"
        /\ Goto(Importer, IF Running /\ active[Media] THEN "register" ELSE "exit")
    BY <1>3 DEF ImportLoop, At, fbvars, ring, control
  <2>2. pc'[Importer] \in {"register", "exit"}
    BY <1>0, <2>1 DEF Goto
  <2> QED
    BY <1>1, <1>2, <2>1, <2>2 DEF Idles, Finished, EndMarks
<1>4. CASE ImportEnd
  <2>1. /\ UNCHANGED <<status, id, nextId, attributes>> /\ Goto(Importer, "exit")
    BY <1>4 DEF ImportEnd, fbvars, ring
  <2>2. pc'[Importer] = "exit"
    BY <1>0, <2>1 DEF Goto
  <2> QED
    BY <1>1, <1>2, <2>1, <2>2 DEF Idles, Finished, EndMarks
<1>5. CASE ImportRegister
  <2>1. /\ pc[Importer] = "register" /\ UNCHANGED <<nextId, active>>
        /\ AfterClaim(Importer, "exit", "fill")
    BY <1>5 DEF ImportRegister, At, control
  <2>2. \/ Sleep(Importer, "import") \/ GiveUp(Importer)
        \/ \E f \in Frames : ClaimEmpty(Importer, nextId, f)
    BY <1>5 DEF ImportRegister, Register
  <2>3. CASE Sleep(Importer, "import") \/ GiveUp(Importer)
    <3>1. cur[Importer] = NoFrame
      BY <2>1 DEF Typed, Held
    <3>2. cur'[Importer] = NoFrame
      BY <1>0, <2>3, <3>1 DEF Sleep, GiveUp, Return
    <3>3. pc'[Importer] \in {"register", "exit"}
      BY <1>0, <2>1, <3>2 DEF AfterClaim, Goto
    <3> QED
      BY <1>1, <1>2, <2>1, <2>3, <3>3 DEF Sleep, GiveUp, ring, Idles, Finished, EndMarks
  <2>4. CASE \E f \in Frames : ClaimEmpty(Importer, nextId, f)
    <3> PICK f \in Frames : ClaimEmpty(Importer, nextId, f)
      BY <2>4
    <3>1. cur'[Importer] = f /\ cv'[Importer] = "none"
      BY <1>0 DEF ClaimEmpty, Return, BufferTypeOK
    <3>2. pc'[Importer] = "fill"
      BY <1>0, <2>1, <3>1, PointerFacts DEF AfterClaim, Goto, Conditions
    <3>3. EndMarks' = EndMarks \ {f}
      BY <1>0 DEF ClaimEmpty, EndMarks
    <3>4. status[f] = "NULL"
      BY <1>0, FreeSlot DEF ClaimEmpty
    <3> QED
      BY <1>1, <1>2, <2>1, <3>1, <3>2, <3>3, <3>4 DEF ClaimEmpty, Starts
  <2> QED
    BY <2>2, <2>3, <2>4
<1>6. CASE ImportFill
  <2> DEFINE f == cur[Importer]
  <2>1. pc[Importer] = "fill" /\ f \in Frames /\ status[f] = "EMPTY"
    BY <1>0, <1>6 DEF ImportFill, At, Typed, Held, Apart, FramePtr
  <2>2. /\ status' = [status EXCEPT ![f] = AfterImport] /\ UNCHANGED <<id, active>>
    BY <1>6 DEF ImportFill, PushNext
  <2>3. \/ /\ nextId' = nextId + 1 /\ Goto(Importer, "loop")
           /\ \E a : /\ attributes' = [attributes EXCEPT ![f] = a]
                     /\ \/ a \in {{}, {"OUT_OF_RANGE"}}
                        \/ \E b \in {{}, {"OUT_OF_RANGE"}} : a \in Filtered({"PRE_S"}, b)
        \/ /\ nextId' = nextId /\ Goto(Importer, "end")
           /\ attributes' = [attributes EXCEPT ![f] = {"END_OF_STREAM"}]
    BY <1>6 DEF ImportFill
  <2>4. CASE nextId' = nextId /\ Goto(Importer, "end")
             /\ attributes' = [attributes EXCEPT ![f] = {"END_OF_STREAM"}]
    <3>1. EndMarks' = EndMarks \cup {f}
      BY <1>0, <2>1, <2>4 DEF EndMarks
    <3> QED
      BY <1>0, <1>1, <1>2, <2>1, <2>2, <2>4, <3>1 DEF Goto, Delivers
  <2>5. ASSUME nextId' = nextId + 1, Goto(Importer, "loop"), NEW a,
               attributes' = [attributes EXCEPT ![f] = a],
               \/ a \in {{}, {"OUT_OF_RANGE"}}
               \/ \E b \in {{}, {"OUT_OF_RANGE"}} : a \in Filtered({"PRE_S"}, b)
        PROVE  Delivers(f)
    <3>1. "END_OF_STREAM" \notin a
      BY <2>5, FiltersDoNotMark, FiltersMarkOnly DEF Slots
    <3>2. EndMarks' = EndMarks \ {f}
      BY <1>0, <2>1, <2>5, <3>1 DEF EndMarks
    <3> QED
      BY <1>0, <2>1, <2>2, <2>5, <3>2 DEF Goto, Delivers
  <2> HIDE DEF f
  <2> QED
    BY <1>1, <1>2, <2>1, <2>3, <2>4, <2>5
<1> QED
  BY <1>1, <1>2, <1>3, <1>4, <1>5, <1>6 DEF ImporterStep

\* A worker only takes frames out that it drops.
WorkerGoesOn ==
    /\ UNCHANGED <<run, active, nextId, range, sig, out, id>>
    /\ pc'[Encoder] = pc[Encoder] /\ cur'[Encoder] = cur[Encoder]
    /\ pc'[Importer] = pc[Importer] /\ cur'[Importer] = cur[Importer]
    /\ dropped \subseteq dropped'
    /\ EndMarks' \subseteq EndMarks
    /\ \A f \in Frames : status[f] = "NULL" => status'[f] = "NULL"
    /\ \A f \in Frames : status[f] # "NULL" => status'[f] # "NULL" \/ id[f] \in dropped'
    /\ NobodyAt("SKIPPED") => \A f \in Frames : status[f] # "NULL" => status'[f] # "NULL"

LEMMA WorkerGoes ==
    ASSUME Typed, Apart, NobodyAt("IS_CLONED"), NEW w \in Workers, WorkerStep(w)
    PROVE  WorkerGoesOn
<1> USE ThreadFacts, StageFacts
<1>0. /\ BufferTypeOK /\ pc \in [Threads -> ImporterPC \cup WorkerPC \cup EncoderPC]
      /\ cur \in [Threads -> FramePtr] /\ id \in [Frames -> Nat]
      /\ attributes \in [Frames -> SUBSET Attributes] /\ status \in [Frames -> Status]
  BY DEF Typed, TypeOK, BufferTypeOK
<1>1. ~WorkerDup(w) /\ ~WorkerQueue(w)
  BY DEF WorkerDup, WorkerQueue, At, NobodyAt, LinesOf
<1>2. /\ UNCHANGED <<run, active, nextId, range, sig, out>>
      /\ \E l : Goto(w, l)
      /\ UNCHANGED cur \/ \E x : cur' = [cur EXCEPT ![w] = x]
      /\ UNCHANGED id
  BY <1>1 DEF WorkerStep, WorkerCheck, WorkerReserve, WorkerHalt, WorkerFrame,
     WorkerPost, WorkerPush, WorkerRemove, Reserve, LockWaiting, PushNext, Remove,
     Drop, Sleep, GiveUp, Return, Release, AfterClaim, fbvars, control, history
<1>3. /\ pc'[Encoder] = pc[Encoder] /\ cur'[Encoder] = cur[Encoder]
      /\ pc'[Importer] = pc[Importer] /\ cur'[Importer] = cur[Importer]
  BY <1>0, <1>2 DEF Goto
<1> SUFFICES /\ dropped \subseteq dropped' /\ EndMarks' \subseteq EndMarks
             /\ \A f \in Frames : status[f] = "NULL" => status'[f] = "NULL"
             /\ \A f \in Frames : status[f] # "NULL" => status'[f] # "NULL" \/ id[f] \in dropped'
             /\ NobodyAt("SKIPPED") => \A f \in Frames : status[f] # "NULL" => status'[f] # "NULL"
  BY <1>2, <1>3, Zenon DEF WorkerGoesOn
<1>4. ASSUME pc[w] \in Working PROVE cur[w] \in Frames /\ status[cur[w]] = "LOCKED"
  BY <1>4, WorkerFrameIn, PointerFacts DEF Apart
<1>5. CASE WorkerCheck(w) \/ WorkerHalt(w)
  BY <1>5 DEF WorkerCheck, WorkerHalt, fbvars, ring, history, EndMarks
<1>6. CASE WorkerReserve(w)
  <2>1. /\ UNCHANGED <<attributes, dropped>>
        /\ \/ status' = status
           \/ \E f \in Frames : status[f] = "WAIT" /\ status' = [status EXCEPT ![f] = "LOCKED"]
    BY <1>6 DEF WorkerReserve, Reserve, LockWaiting, WaitingAt, Sleep, GiveUp, ring, history
  <2> QED
    BY <1>0, <2>1 DEF EndMarks
<1>7. CASE WorkerFrame(w) \/ WorkerPost(w)
  <2>1. UNCHANGED <<status, dropped>> /\ cur[w] \in Frames
    BY <1>4, <1>7 DEF WorkerFrame, WorkerPost, ring, history, At, Working
  <2>2. \/ UNCHANGED attributes
        \/ \E a \in Filtered({"PRE_M"}, attributes[cur[w]])
                     \cup Filtered({"POST_M"}, attributes[cur[w]]) :
              attributes' = [attributes EXCEPT ![cur[w]] = a]
    BY <1>7 DEF WorkerFrame, WorkerPost
  <2>3. \A a \in Filtered({"PRE_M"}, attributes[cur[w]])
                 \cup Filtered({"POST_M"}, attributes[cur[w]]) :
           "END_OF_STREAM" \in a => "END_OF_STREAM" \in attributes[cur[w]]
    BY FiltersDoNotMark, FiltersMarkOnly DEF Slots
  <2>4. EndMarks' \subseteq EndMarks
    BY <1>0, <2>1, <2>2, <2>3 DEF EndMarks
  <2> QED
    BY <2>1, <2>4
<1>8. CASE WorkerPush(w)
  <2>1. /\ cur[w] \in Frames /\ status[cur[w]] = "LOCKED" /\ UNCHANGED <<attributes, dropped>>
        /\ status' = [status EXCEPT ![cur[w]] = "READY"]
    BY <1>4, <1>8 DEF WorkerPush, PushNext, At, Working, history
  <2> QED
    BY <1>0, <2>1 DEF EndMarks
<1>9. CASE WorkerRemove(w)
  <2>1. /\ cur[w] \in Frames /\ status[cur[w]] = "LOCKED" /\ UNCHANGED attributes
        /\ status' = [status EXCEPT ![cur[w]] = "NULL"]
        /\ dropped' = dropped \cup {id[cur[w]]} /\ ~NobodyAt("SKIPPED")
    BY <1>4, <1>9 DEF WorkerRemove, Drop, Remove, RemoveFrame, At, Working, history,
       NobodyAt, LinesOf
  <2> QED
    BY <1>0, <2>1 DEF EndMarks
<1> QED
  BY <1>1, <1>5, <1>6, <1>7, <1>8, <1>9 DEF WorkerStep

\* The main thread gives out no ids, and takes marks away only.
EncoderGoesOn ==
    /\ UNCHANGED <<nextId, sig, id>> /\ cur'[Importer] = cur[Importer]
    /\ pc'[Importer] = pc[Importer] \/ CreateImporter
    /\ EndMarks' \subseteq EndMarks
    /\ \A f \in Frames : status[f] = "NULL" => status'[f] = "NULL"

LEMMA EncoderGoes == ASSUME Typed, Apart, EncoderStep PROVE EncoderGoesOn
<1> USE ThreadFacts, StageFacts
<1>0. /\ BufferTypeOK /\ pc \in [Threads -> ImporterPC \cup WorkerPC \cup EncoderPC]
      /\ cur \in [Threads -> FramePtr] /\ id \in [Frames -> Nat]
      /\ attributes \in [Frames -> SUBSET Attributes] /\ status \in [Frames -> Status]
  BY DEF Typed, TypeOK, BufferTypeOK
<1>1. CASE \/ EncoderCheck \/ NextRange \/ StopAll \/ CancelImport
           \/ JoinImporter \/ PoolStop \/ PoolJoin
  <2>1. UNCHANGED <<nextId, sig, fbvars>> /\ \E l : Goto(Encoder, l)
    BY <1>1 DEF EncoderCheck, NextRange, StopAll, CancelImport, JoinImporter, MainStep,
       PoolStop, PoolJoin, control
  <2> QED
    BY <1>0, <2>1 DEF fbvars, ring, Goto, EncoderGoesOn, EndMarks
<1>2. CASE StopInterrupt \/ CancelWake
  <2>1. /\ UNCHANGED <<nextId, sig, id, cur, status, attributes>> /\ \E l : Goto(Encoder, l)
    BY <1>2 DEF StopInterrupt, CancelWake, MainStep, Interrupt, InterruptImport, ring, control
  <2> QED
    BY <1>0, <2>1 DEF Goto, EncoderGoesOn, EndMarks
<1>3. CASE EncoderAcquire
  <2>1. /\ UNCHANGED <<nextId, sig, id, status, attributes>> /\ \E l : Goto(Encoder, l)
        /\ UNCHANGED cur \/ \E x : cur' = [cur EXCEPT ![Encoder] = x]
    BY <1>3 DEF EncoderAcquire, Retrieve, Sleep, GiveUp, Return, ring, control, AfterClaim
  <2> QED
    BY <1>0, <2>1 DEF Goto, EncoderGoesOn, EndMarks
<1>4. ASSUME pc[Encoder] \in {"process", "dispose"} PROVE cur[Encoder] \in Frames
  BY <1>4, EncoderFrom
<1>5. CASE EncoderProcess
  <2> DEFINE f == cur[Encoder]
  <2>1. /\ UNCHANGED <<nextId, sig, id>> /\ \E l : Goto(Encoder, l) /\ f \in Frames
        /\ UNCHANGED cur \/ \E x : cur' = [cur EXCEPT ![Encoder] = x]
    BY <1>4, <1>5 DEF EncoderProcess, Drop, Remove, Release, At
  <2>2. status' = status \/ \E x : RemoveFrame(x)
    BY <1>5 DEF EncoderProcess, Drop, Remove, ring
  <2>3. PICK a : /\ \/ a = attributes[f]
                    \/ a \in Filtered(EncoderSlots, attributes[f])
                 /\ \E b \in {Recloned(a), a \ {"END_OF_STREAM"}} :
                       attributes' = [attributes EXCEPT ![f] = b]
    BY <1>5 DEF EncoderProcess
  <2>4. "END_OF_STREAM" \in a => "END_OF_STREAM" \in attributes[f]
    BY <2>3, FiltersDoNotMark, FiltersMarkOnly DEF Slots, EncoderSlots
  <2>5. EndMarks' \subseteq EndMarks
    BY <1>0, <2>1, <2>3, <2>4 DEF EndMarks, Recloned
  <2>6. \A g \in Frames : status[g] = "NULL" => status'[g] = "NULL"
    BY <1>0, <2>2 DEF RemoveFrame
  <2> QED
    BY <1>0, <2>1, <2>5, <2>6 DEF Goto, EncoderGoesOn
<1>6. CASE EncoderDispose
  <2> DEFINE f == cur[Encoder]
  <2>1. /\ UNCHANGED <<nextId, sig, id>> /\ \E l : Goto(Encoder, l) /\ f \in Frames
        /\ \E x : cur' = [cur EXCEPT ![Encoder] = x]
    BY <1>4, <1>6 DEF EncoderDispose, Remove, Release, At
  <2>2. status' = status \/ \E x : RemoveFrame(x)
    BY <1>6 DEF EncoderDispose, Remove, ring
  <2>3. PICK n : /\ n \in {{}, {"OUT_OF_RANGE"}, {"IS_CLONED"}}
                 /\ attributes' = [attributes EXCEPT ![f] = Recloned(attributes[f] \cup n)]
    BY <1>6 DEF EncoderDispose
  <2>4. EndMarks' \subseteq EndMarks
    BY <1>0, <2>1, <2>3 DEF EndMarks, Recloned
  <2>5. \A g \in Frames : status[g] = "NULL" => status'[g] = "NULL"
    BY <1>0, <2>2 DEF RemoveFrame
  <2> QED
    BY <1>0, <2>1, <2>4, <2>5 DEF Goto, EncoderGoesOn
<1>7. CASE Flush
  <2>1. /\ UNCHANGED <<nextId, sig, id, cur, attributes>>
        /\ UNCHANGED pc \/ \E l : Goto(Encoder, l)
        /\ status' = status \/ \E x : RemoveFrame(x)
    BY <1>7 DEF Flush, Remove, fbvars, ring, control
  <2>2. \A g \in Frames : status[g] = "NULL" => status'[g] = "NULL"
    BY <1>0, <2>1 DEF RemoveFrame
  <2> QED
    BY <1>0, <2>1, <2>2 DEF Goto, EncoderGoesOn, EndMarks
<1>8. CASE CreateImporter
  BY <1>8 DEF CreateImporter, fbvars, ring, EncoderGoesOn, EndMarks
<1> QED
  BY <1>1, <1>2, <1>3, <1>5, <1>6, <1>7, <1>8 DEF EncoderStep

\* The encoder at a frame: it drops the frame, tries it again, leaves the range or goes on.
LEMMA ProcessGoes ==
    ASSUME Orderly, OwnNumbers, EncoderProcess
    PROVE  /\ UNCHANGED <<run, active, range, out>> /\ dropped \subseteq dropped'
           /\ head \in Frames /\ status[head] = "READY"
           /\ \/ status' = status
              \/ /\ status' = [status EXCEPT ![head] = "NULL"]
                 /\ id[head] \in dropped' /\ ~Unused("SKIPPED")
           /\ \/ pc'[Encoder] = "acquire"
              \/ /\ pc'[Encoder] = "range" /\ status' = status
                 /\ head \in EndMarks \/ id[head] = Ranges[range][2]
              \/ /\ pc'[Encoder] = "dispose" /\ status' = status
                 /\ cur'[Encoder] = head /\ id[head] # Ranges[range][2]
<1> USE ThreadFacts, StageFacts
<1>0. /\ Typed /\ BufferTypeOK /\ pc \in [Threads -> ImporterPC \cup WorkerPC \cup EncoderPC]
      /\ cur \in [Threads -> FramePtr]
      /\ attributes \in [Frames -> SUBSET Attributes] /\ status \in [Frames -> Status]
  BY DEF Orderly, Typed, TypeOK, BufferTypeOK
<1>1. /\ pc[Encoder] = "process" /\ cur[Encoder] = head /\ head \in Frames
      /\ status[head] = "READY"
  BY <1>0, EncoderFrom, PointerFacts DEF EncoderProcess, At, Orderly, Apart, EncoderAtHead
<1>2. UNCHANGED <<run, active, range, out>>
  BY DEF EncoderProcess
<1>3. FrameNumber(head) = id[head]
  BY <1>0, <1>1, NumberIsId
<1>4. PICK a : /\ \/ a = attributes[head]
                  \/ a \in Filtered(EncoderSlots, attributes[head])
               /\ \/ /\ "SKIPPED" \in a /\ Drop(Encoder) /\ Goto(Encoder, "acquire")
                  \/ /\ Goto(Encoder, "acquire") /\ UNCHANGED <<ring, dropped>>
                  \/ /\ UNCHANGED <<ring, dropped>>
                     /\ IF IsLastFrame(head, a)
                        THEN Goto(Encoder, "range")
                        ELSE Goto(Encoder, "dispose") /\ UNCHANGED cur
  BY <1>1 DEF EncoderProcess
<1>5. /\ "END_OF_STREAM" \in a => "END_OF_STREAM" \in attributes[head]
      /\ "SKIPPED" \in a => "SKIPPED" \in attributes[head] \/ ~Unused("SKIPPED")
  BY <1>4, FiltersDoNotMark, FiltersMarkOnly DEF Slots, EncoderSlots
<1>6. "SKIPPED" \in a => ~Unused("SKIPPED")
  BY <1>1, <1>5 DEF Orderly, Clean, Absent, Unmarked
<1>7. CASE "SKIPPED" \in a /\ Drop(Encoder) /\ Goto(Encoder, "acquire")
  <2>1. /\ status' = [status EXCEPT ![head] = "NULL"] /\ dropped' = dropped \cup {id[head]}
        /\ pc'[Encoder] = "acquire"
    BY <1>0, <1>1, <1>7 DEF Drop, Remove, RemoveFrame, Goto
  <2> QED
    BY <1>1, <1>2, <1>6, <1>7, <2>1
<1>8. CASE Goto(Encoder, "acquire") /\ UNCHANGED <<ring, dropped>>
  <2>1. status' = status /\ pc'[Encoder] = "acquire" /\ dropped' = dropped
    BY <1>0, <1>8 DEF ring, Goto
  <2> QED
    BY <1>1, <1>2, <2>1
<1>9. CASE /\ UNCHANGED <<ring, dropped>>
           /\ IF IsLastFrame(head, a)
              THEN Goto(Encoder, "range")
              ELSE Goto(Encoder, "dispose") /\ UNCHANGED cur
  <2>1. status' = status /\ dropped' = dropped
    BY <1>9 DEF ring
  <2>2. IsLastFrame(head, a) <=> "END_OF_STREAM" \in a \/ id[head] = Ranges[range][2]
    BY <1>3 DEF IsLastFrame, Final
  <2>3. CASE IsLastFrame(head, a)
    <3>1. head \in EndMarks \/ id[head] = Ranges[range][2]
      BY <1>1, <1>5, <2>2, <2>3 DEF EndMarks
    <3>2. pc'[Encoder] = "range"
      BY <1>0, <1>9, <2>3 DEF Goto
    <3> QED
      BY <1>1, <1>2, <2>1, <3>1, <3>2
  <2>4. CASE ~IsLastFrame(head, a)
    <3>1. pc'[Encoder] = "dispose" /\ cur'[Encoder] = head
      BY <1>0, <1>1, <1>9, <2>4 DEF Goto
    <3> QED
      BY <1>1, <1>2, <2>1, <2>2, <2>4, <3>1
  <2> QED
    BY <2>3, <2>4
<1> QED
  BY <1>4, <1>7, <1>8, <1>9

\* A frame that leaves the encoder is out of the range, or in the output.
LEMMA DisposeGoes ==
    ASSUME Orderly, OwnNumbers, EncoderDispose
    PROVE  /\ UNCHANGED <<run, active, range, dropped>>
           /\ pc[Encoder] = "dispose" /\ pc'[Encoder] = "need_stop"
           /\ cur[Encoder] = head /\ head \in Frames /\ status[head] = "READY"
           /\ out' \in {out, Append(out, id[head])}
           /\ \/ status' = status
              \/ /\ status' = [status EXCEPT ![head] = "NULL"]
                 /\ Wanted(range, id[head]) => out' = Append(out, id[head])
<1> USE ThreadFacts, StageFacts
<1>0. /\ Typed /\ BufferTypeOK /\ pc \in [Threads -> ImporterPC \cup WorkerPC \cup EncoderPC]
      /\ cur \in [Threads -> FramePtr]
  BY DEF Orderly, Typed, TypeOK, BufferTypeOK
<1>1. /\ pc[Encoder] = "dispose" /\ cur[Encoder] = head /\ head \in Frames
      /\ status[head] = "READY"
  BY <1>0, EncoderFrom, PointerFacts DEF EncoderDispose, At, Orderly, Apart, EncoderAtHead
<1>2. /\ UNCHANGED <<run, active, range, dropped>> /\ pc'[Encoder] = "need_stop"
  BY <1>0 DEF EncoderDispose, Goto
<1>3. InRange(head) <=> Wanted(range, id[head])
  BY <1>0, <1>1, NumberIsId DEF InRange, First, Final, Wanted
<1>4. PICK delay \in {FALSE, MayDelay /\ Media = "audio" /\ InRange(head)} :
         LET a == attributes[head] \cup IF ~InRange(head) THEN {"OUT_OF_RANGE"}
                                        ELSE IF delay THEN {"IS_CLONED"} ELSE {}
         IN /\ out' = IF InRange(head) /\ ~delay THEN Append(out, id[head]) ELSE out
            /\ IF "IS_CLONED" \in a THEN UNCHANGED <<ring, chain, id, cv>> ELSE Remove(head)
  BY <1>1 DEF EncoderDispose
<1>5. out' \in {out, Append(out, id[head])}
  BY <1>4
<1>6. \/ status' = status
      \/ /\ status' = [status EXCEPT ![head] = "NULL"]
         /\ InRange(head) => out' = Append(out, id[head])
  BY <1>4 DEF Remove, RemoveFrame, ring
<1> QED
  BY <1>1, <1>2, <1>3, <1>5, <1>6

-----------------------------------------------------------------------------
(* The parts about the threads are kept by every step.                      *)

LEMMA SignalEnds == SignalStep => sig' # "none"
BY DEF SignalStep, SignalRaise, SignalWake

LEMMA NextFilledNext ==
    ASSUME Unused("IS_CLONED")
    PROVE  Orderly /\ NextFilled /\ [Next]_vars => NextFilled'
<1> SUFFICES ASSUME Orderly, NextFilled, [Next]_vars, pc'[Importer] = "fill"
             PROVE  id'[cur'[Importer]] = nextId'
  BY DEF NextFilled
<1>0. Typed /\ Apart /\ id \in [Frames -> Nat] /\ NobodyAt("IS_CLONED")
  BY DEF Orderly, Typed, TypeOK, BufferTypeOK, Clean, Absent
<1>1. CASE ImporterStep
  <2>1. CASE Idles
    BY <1>0, <2>1 DEF Idles
  <2>2. CASE \E f \in Frames : Starts(f)
    BY <1>0, <2>2 DEF Starts
  <2>3. CASE \E f \in Frames : Delivers(f)
    BY <1>0, <2>3 DEF Delivers
  <2> QED
    BY <1>0, <1>1, <2>1, <2>2, <2>3, ImporterGoes
<1>2. CASE \E w \in Workers : WorkerStep(w)
  <2>1. WorkerGoesOn
    BY <1>0, <1>2, WorkerGoes
  <2> QED
    BY <2>1 DEF WorkerGoesOn, NextFilled
<1>3. CASE EncoderStep
  <2>1. EncoderGoesOn
    BY <1>0, <1>3, EncoderGoes
  <2>2. ~CreateImporter
    BY <1>0, ThreadFacts DEF CreateImporter, Typed, TypeOK
  <2> QED
    BY <2>1, <2>2 DEF EncoderGoesOn, NextFilled
<1>4. CASE SignalStep \/ UNCHANGED vars
  BY <1>4 DEF SignalStep, SignalRaise, SignalWake, Interrupt, vars, fbvars, control, NextFilled
<1> QED
  BY <1>1, <1>2, <1>3, <1>4 DEF Next, Terminated

\* Where the main thread goes outside its loop.
LEMMA MainGoes ==
    ASSUME Typed, EncoderStep
    PROVE  \/ /\ pc[Encoder] \in {"need_stop", "acquire", "process", "dispose"}
              /\ pc'[Encoder] \in {"need_stop", "acquire", "process", "dispose", "range"}
              /\ UNCHANGED <<run, active, range>> /\ pc'[Importer] = pc[Importer]
           \/ NextRange
           \/ /\ UNCHANGED <<range, nextId, out, dropped>>
              /\ \/ StopAll /\ pc[Encoder] = "stop" /\ pc'[Encoder] = "interrupt" /\ UNCHANGED active
                 \/ pc[Encoder] = "interrupt" /\ pc'[Encoder] = "cancel" /\ UNCHANGED <<run, active>>
                 \/ CancelImport /\ pc[Encoder] = "cancel" /\ pc'[Encoder] = "wake" /\ UNCHANGED run
                 \/ pc[Encoder] = "wake" /\ pc'[Encoder] = "join" /\ UNCHANGED <<run, active>>
                 \/ /\ pc[Encoder] = "join" /\ UNCHANGED <<run, active>>
                    /\ pc'[Encoder] = IF range > Len(Ranges) THEN "pool_stop" ELSE "flush"
                 \/ /\ pc[Encoder] = "flush" /\ pc'[Encoder] \in {"flush", "create"}
                    /\ UNCHANGED <<run, active>>
                 \/ /\ CreateImporter /\ pc[Encoder] = "create" /\ pc'[Encoder] = "need_stop"
                    /\ active' = [m \in Streams |-> TRUE] /\ UNCHANGED run
                 \/ pc[Encoder] = "pool_stop" /\ pc'[Encoder] = "pool_join" /\ UNCHANGED <<run, active>>
                 \/ pc[Encoder] = "pool_join" /\ pc'[Encoder] = "done" /\ UNCHANGED <<run, active>>
              /\ \/ pc'[Importer] = pc[Importer]
                 \/ CreateImporter /\ active' = [m \in Streams |-> TRUE]
<1> USE ThreadFacts
<1>0. pc \in [Threads -> ImporterPC \cup WorkerPC \cup EncoderPC]
  BY DEF Typed, TypeOK
<1>1. CASE EncoderCheck \/ EncoderAcquire \/ EncoderProcess \/ EncoderDispose
  <2>1. /\ \E l \in {"need_stop", "acquire", "process", "dispose", "range"} : Goto(Encoder, l)
        /\ pc[Encoder] \in {"need_stop", "acquire", "process", "dispose"}
        /\ UNCHANGED <<run, active, range>>
    BY <1>1 DEF EncoderCheck, EncoderAcquire, EncoderProcess, EncoderDispose, AfterClaim, At,
       control
  <2> QED
    BY <1>0, <2>1 DEF Goto
<1>2. CASE StopAll \/ CancelImport
  BY <1>0, <1>2 DEF StopAll, CancelImport, MainStep, At, Goto, history
<1>3. CASE StopInterrupt \/ CancelWake \/ JoinImporter \/ PoolStop \/ PoolJoin
  BY <1>0, <1>3 DEF StopInterrupt, CancelWake, JoinImporter, PoolStop, PoolJoin, MainStep, At,
     Goto, control, history
<1>4. CASE Flush
  BY <1>0, <1>4 DEF Flush, At, Goto, control, history
<1>5. CASE CreateImporter
  BY <1>0, <1>5 DEF CreateImporter, At, history
<1> QED
  BY <1>1, <1>2, <1>3, <1>4, <1>5 DEF EncoderStep

\* The next range, or none.
LEMMA RangeGoes ==
    ASSUME Typed, NextRange
    PROVE  /\ pc[Encoder] = "range" /\ range \in 1 .. Len(Ranges)
           /\ UNCHANGED <<fbvars, run, active, nextId, sig, out, dropped>>
           /\ pc'[Importer] = pc[Importer]
           /\ \/ /\ run = "INTERRUPTED" \/ range = Len(Ranges)
                 /\ range' = Len(Ranges) + 1 /\ pc'[Encoder] = "stop"
              \/ /\ range < Len(Ranges) /\ range' = range + 1
                 /\ \/ range' \in Seek /\ pc'[Encoder] = "cancel"
                    \/ pc'[Encoder] = "need_stop"
<1> USE ThreadFacts
<1>0. /\ pc \in [Threads -> ImporterPC \cup WorkerPC \cup EncoderPC]
      /\ range \in 1 .. Len(Ranges) + 1 /\ Len(Ranges) \in Nat
  BY NumberTypes DEF Typed, TypeOK
<1>1. pc[Encoder] = "range" /\ range \in 1 .. Len(Ranges)
  BY <1>0 DEF NextRange, MainStep, At, Typed, MainInOrder
<1>2. /\ UNCHANGED <<fbvars, run, active, nextId, sig, out, dropped>>
      /\ pc'[Importer] = pc[Importer]
  BY <1>0 DEF NextRange, MainStep, Goto, history
<1>3. CASE run = "INTERRUPTED" \/ range = Len(Ranges)
  BY <1>0, <1>1, <1>2, <1>3 DEF NextRange, MainStep, Goto
<1>4. CASE ~(run = "INTERRUPTED" \/ range = Len(Ranges))
  <2>1. range < Len(Ranges)
    BY <1>0, <1>1, <1>4
  <2> QED
    BY <1>0, <1>1, <1>2, <1>4, <2>1 DEF NextRange, MainStep, Goto
<1> QED
  BY <1>3, <1>4

\* A later range is no steadier than the one before.
LEMMA SteadyBefore ==
    ASSUME Typed, Typed', sig' = sig, range <= range', Steady'
    PROVE  Steady
<1>1. range \in Nat /\ range' \in Nat /\ Len(Ranges) \in Nat
  BY RangeFacts DEF Typed, TypeOK
<1> QED
  BY <1>1, FewerSought DEF Steady

LEMMA OnCourseNext ==
    ASSUME Unused("IS_CLONED")
    PROVE  Orderly /\ Orderly' /\ OnCourse /\ [Next]_vars => OnCourse'
<1> SUFFICES ASSUME Orderly, Orderly', OnCourse, [Next]_vars, sig' = "none"
             PROVE  /\ range' <= Len(Ranges) => run' = "RUNNING"
                    /\ pc'[Encoder] \in {"stop", "interrupt", "pool_stop", "pool_join", "done"}
                          => range' > Len(Ranges)
                    /\ pc'[Encoder] \in {"cancel", "wake", "join", "flush", "create"}
                          => range' > Len(Ranges) \/ range' \in Seek
                    /\ Steady' => \A m \in Streams : active'[m] \/ pc'[Importer] = "exit"
  BY DEF OnCourse
<1>0. /\ Typed /\ Apart /\ Typed' /\ NobodyAt("IS_CLONED")
      /\ range \in Nat \ {0} /\ Len(Ranges) \in Nat
  BY NumberTypes DEF Orderly, Clean, Absent
<1>1. CASE ImporterStep
  <2>1. /\ UNCHANGED <<run, range, sig>> /\ pc'[Encoder] = pc[Encoder]
        /\ pc'[Importer] = "exit" \/ (UNCHANGED active /\ pc[Importer] # "exit")
    BY <1>0, <1>1, ImporterGoes DEF Idles, Starts, Delivers
  <2>2. Steady' => Steady
    BY <2>1 DEF Steady, Unsought
  <2> QED
    BY <2>1, <2>2 DEF OnCourse
<1>2. CASE \E w \in Workers : WorkerStep(w)
  <2>1. WorkerGoesOn
    BY <1>0, <1>2, WorkerGoes
  <2>2. Steady' => Steady
    BY <2>1 DEF Steady, Unsought, WorkerGoesOn
  <2> QED
    BY <2>1, <2>2 DEF OnCourse, WorkerGoesOn
<1>3. CASE EncoderStep /\ ~NextRange
  <2>0. sig' = sig
    BY <1>0, <1>3, EncoderGoes DEF EncoderGoesOn
  <2>1. range' = range
    BY <1>0, <1>3, MainGoes
  <2>2. Steady' => Steady
    BY <2>0, <2>1 DEF Steady, Unsought
  <2>3. CASE pc[Encoder] \in {"need_stop", "acquire", "process", "dispose"}
    <3>1. /\ pc'[Encoder] \in {"need_stop", "acquire", "process", "dispose", "range"}
          /\ UNCHANGED <<run, active>> /\ pc'[Importer] = pc[Importer]
      BY <1>0, <1>3, <2>3, MainGoes
    <3> QED
      BY <2>0, <2>1, <2>2, <3>1 DEF OnCourse
  <2>4. CASE StopAll
    <3>1. pc[Encoder] = "stop" /\ pc'[Encoder] = "interrupt" /\ range > Len(Ranges)
      BY <1>0, <2>0, <2>4, ThreadFacts DEF StopAll, MainStep, At, Goto, Typed, TypeOK, OnCourse
    <3> QED
      BY <1>0, <2>0, <2>1, <3>1 DEF Steady
  <2>5. CASE CancelImport
    <3>1. pc[Encoder] = "cancel" /\ pc'[Encoder] = "wake" /\ run' = run
      BY <1>0, <2>5, ThreadFacts DEF CancelImport, MainStep, At, Goto, Typed, TypeOK
    <3>2. range > Len(Ranges) \/ range \in Seek
      BY <2>0, <3>1 DEF OnCourse
    <3>3. ~Steady
      BY <1>0, <3>2, SoughtRange DEF Steady
    <3> QED
      BY <2>0, <2>1, <2>2, <3>1, <3>2, <3>3 DEF OnCourse
  <2>6. CASE /\ pc[Encoder] \notin {"need_stop", "acquire", "process", "dispose"}
             /\ ~StopAll /\ ~CancelImport
    <3>1. /\ run' = run
          /\ UNCHANGED active \/ active' = [m \in Streams |-> TRUE]
          /\ pc'[Importer] = pc[Importer] \/ active' = [m \in Streams |-> TRUE]
      BY <1>0, <1>3, <2>6, MainGoes
    <3>2. /\ pc'[Encoder] \in {"stop", "interrupt", "pool_stop", "pool_join", "done"} =>
                \/ pc[Encoder] \in {"pool_stop", "pool_join"}
                \/ pc[Encoder] = "join" /\ range > Len(Ranges)
          /\ pc'[Encoder] \in {"cancel", "wake", "join", "flush", "create"} =>
                pc[Encoder] \in {"interrupt", "cancel", "wake", "join", "flush"}
      BY <1>0, <1>3, <2>6, MainGoes
    <3>3. \A m \in Streams : active' = [n \in Streams |-> TRUE] => active'[m]
      OBVIOUS
    <3> QED
      BY <2>0, <2>1, <2>2, <3>1, <3>2, <3>3 DEF OnCourse
  <2> QED
    BY <2>3, <2>4, <2>5, <2>6
<1>4. CASE NextRange
  <2>1. /\ UNCHANGED <<run, active, sig>> /\ pc'[Importer] = pc[Importer]
        /\ range <= range' /\ range <= Len(Ranges)
        /\ \/ range' = Len(Ranges) + 1 /\ pc'[Encoder] = "stop"
           \/ range' \in Seek /\ pc'[Encoder] = "cancel"
           \/ pc'[Encoder] = "need_stop"
    BY <1>0, <1>4, RangeGoes
  <2>2. Steady' => Steady
    BY <1>0, <2>1, SteadyBefore
  <2> QED
    BY <1>0, <2>1, <2>2 DEF OnCourse
<1>5. CASE SignalStep
  BY <1>5, SignalEnds
<1>6. CASE UNCHANGED vars
  BY <1>6 DEF vars, control, OnCourse, Steady, Unsought
<1> QED
  BY <1>1, <1>2, <1>3, <1>4, <1>5, <1>6 DEF Next, Terminated

\* Nothing comes behind the frame at the end of the stream.
LEMMA EndIsLastNext ==
    ASSUME Unused("IS_CLONED")
    PROVE  Orderly /\ Orderly' /\ OnCourse /\ NextFilled /\ EndIsLast /\ [Next]_vars => EndIsLast'
<1> SUFFICES ASSUME Orderly, Orderly', OnCourse, NextFilled, EndIsLast, [Next]_vars, Steady',
                    NEW f \in Frames, status'[f] # "NULL", f \in EndMarks'
             PROVE  id'[f] = nextId' /\ Finished'
  BY DEF EndIsLast, EndMarks
<1>0. /\ Typed /\ Apart /\ Typed' /\ NobodyAt("IS_CLONED")
      /\ id \in [Frames -> Nat] /\ status \in [Frames -> Status]
      /\ nextId \in Nat
  BY NumberTypes DEF Orderly, Clean, Absent
<1>a. ASSUME Steady, NEW g \in EndMarks, status[g] # "NULL" PROVE id[g] = nextId /\ Finished
  BY <1>a DEF EndIsLast, EndMarks
<1>1. CASE ImporterStep
  <2>1. Steady
    BY <1>0, <1>1, ImporterGoes DEF Steady, Unsought
  <2>2. CASE Idles
    BY <1>a, <2>1, <2>2 DEF Idles
  <2>3. CASE \E g \in Frames : Starts(g)
    <3> PICK g \in Frames : Starts(g)
      BY <2>3
    <3>1. f # g /\ f \in EndMarks /\ status[f] # "NULL"
      BY <1>0 DEF Starts
    <3> QED
      BY <1>a, <2>1, <3>1 DEF Starts, Finished
  <2>4. CASE \E g \in Frames : Delivers(g)
    <3> PICK g \in Frames : Delivers(g)
      BY <2>4
    <3>1. ~Finished /\ id'[g] = nextId
      BY DEF Delivers, NextFilled, Finished
    <3>2. f = g
      BY <1>0, <1>a, <2>1, <3>1 DEF Delivers
    <3> QED
      BY <3>1, <3>2 DEF Delivers, Finished
  <2> QED
    BY <1>0, <1>1, <2>2, <2>3, <2>4, ImporterGoes
<1>2. CASE \E w \in Workers : WorkerStep(w)
  <2>1. WorkerGoesOn
    BY <1>0, <1>2, WorkerGoes
  <2>2. Steady
    BY <2>1 DEF Steady, Unsought, WorkerGoesOn
  <2>3. f \in EndMarks /\ status[f] # "NULL" /\ id'[f] = id[f] /\ nextId' = nextId
    BY <2>1 DEF WorkerGoesOn
  <2>4. Finished' <=> Finished
    BY <2>1 DEF WorkerGoesOn, Finished
  <2> QED
    BY <1>a, <2>2, <2>3, <2>4
<1>3. CASE EncoderStep
  <2>1. EncoderGoesOn
    BY <1>0, <1>3, EncoderGoes
  <2>2. range <= range'
    <3>1. CASE NextRange
      BY <1>0, <3>1, RangeGoes
    <3>2. CASE ~NextRange
      BY <1>0, <1>3, <3>2, MainGoes, NumberTypes
    <3> QED
      BY <3>1, <3>2
  <2>3. Steady
    BY <1>0, <2>1, <2>2, SteadyBefore DEF EncoderGoesOn
  <2>4. ~CreateImporter
    BY <1>0, <2>3, SteadyInLoop DEF CreateImporter, At
  <2>5. f \in EndMarks /\ status[f] # "NULL" /\ id'[f] = id[f] /\ nextId' = nextId
    BY <2>1 DEF EncoderGoesOn
  <2>6. Finished' <=> Finished
    BY <2>1, <2>4 DEF EncoderGoesOn, Finished
  <2> QED
    BY <1>a, <2>3, <2>5, <2>6
<1>4. CASE SignalStep
  BY <1>4, SignalEnds DEF Steady
<1>5. CASE UNCHANGED vars
  BY <1>5 DEF vars, fbvars, ring, control, EndIsLast, EndMarks, Steady, Unsought, Finished
<1> QED
  BY <1>1, <1>2, <1>3, <1>4, <1>5 DEF Next, Terminated

-----------------------------------------------------------------------------
(* No frame asked for gets lost.                                            *)

\* The ids that are given out: none, or one to a frame in use while the importer runs.
GivesOut ==
    \/ nextId' = nextId
    \/ /\ nextId' = nextId + 1 /\ ~Finished
       /\ \E f \in Frames : status'[f] # "NULL" /\ id'[f] = nextId

\* What is through stays through, and an importer that has ended does not go on.
GoesThrough ==
    /\ \A n \in Nat : Through(n) => Through(n)'
    /\ Finished => Finished'
    /\ GivesOut

\* A range that is done with stays so.
LEMMA SettledStays ==
    ASSUME Typed, GoesThrough, NEW k \in Nat, k <= Len(Ranges), Settled(k)
    PROVE  Settled(k)'
<1>0. /\ nextId \in Nat /\ Len(Ranges) \in Nat
      /\ \A r \in 1 .. Len(Ranges) : Ranges[r][1] \in Nat /\ Ranges[r][2] \in Nat
  BY NumberTypes
<1> SUFFICES ASSUME NEW r \in 1 .. k
             PROVE  /\ \A n \in 0 .. nextId' - 1 : Wanted(r, n) => Through(n)'
                    /\ Finished' \/ Ranges[r][2] <= nextId'
  BY DEF Settled, Wanted
<1>1. /\ \A n \in 0 .. nextId - 1 : Wanted(r, n) => Through(n)
      /\ Finished \/ Ranges[r][2] <= nextId
      /\ Ranges[r][2] \in Nat
  BY <1>0 DEF Settled
<1>2. ASSUME NEW n \in 0 .. nextId' - 1, Wanted(r, n) PROVE Through(n)'
  <2>1. n \in Nat
    OBVIOUS
  <2>2. n < Ranges[r][2]
    BY <1>2 DEF Wanted
  <2>3. n \in 0 .. nextId - 1
    BY <1>0, <1>1, <2>1, <2>2 DEF GoesThrough, GivesOut
  <2> QED
    BY <1>1, <1>2, <2>1, <2>3 DEF GoesThrough
<1>3. Finished' \/ Ranges[r][2] <= nextId'
  BY <1>0, <1>1 DEF GoesThrough, GivesOut
<1> QED
  BY <1>2, <1>3

\* Of a step that leaves the encoder in its place.
LEMMA RangesStay ==
    ASSUME Typed, Typed', GoesThrough, UNCHANGED <<range, sig>>,
           pc'[Encoder] = pc[Encoder], cur'[Encoder] = cur[Encoder],
           pc[Encoder] = "dispose" => id'[cur[Encoder]] = id[cur[Encoder]],
           \A n \in Nat : InUse(n) => InUse(n)' \/ Through(n)',
           Len(Ranges) > 1 => \A n \in Nat : InUse(n) => InUse(n)'
    PROVE  (InRanges => InRanges') /\ (BehindLoop => BehindLoop')
<1>0. /\ nextId \in Nat /\ Len(Ranges) \in Nat /\ range \in 1 .. Len(Ranges) + 1
  BY NumberTypes
<1>a. range \in Nat /\ range - 1 \in Nat /\ range - 1 <= Len(Ranges)
  BY <1>0
<1>b. /\ \A r, n : Wanted(r, n)' <=> Wanted(r, n)
      /\ \A k : Unsought(k)' <=> Unsought(k)
      /\ Steady' <=> Steady
      /\ LoopLeft' <=> LoopLeft
  BY DEF Wanted, Unsought, Steady, LoopLeft
<1>c. ASSUME NEW n \in 0 .. nextId' - 1
      PROVE  n \in 0 .. nextId - 1 \/ (n = nextId /\ InUse(n)')
  <2>1. \/ nextId' = nextId
        \/ /\ nextId' = nextId + 1
           /\ \E f \in Frames : status'[f] # "NULL" /\ id'[f] = nextId
    BY DEF GoesThrough, GivesOut
  <2>2. CASE nextId' = nextId
    BY <2>2
  <2>3. CASE /\ nextId' = nextId + 1
             /\ \E f \in Frames : status'[f] # "NULL" /\ id'[f] = nextId
    <3>1. n \in 0 .. nextId - 1 \/ n = nextId
      BY <1>0, <2>3
    <3> QED
      BY <2>3, <3>1 DEF InUse
  <2> QED
    BY <2>1, <2>2, <2>3
<1>1. ASSUME InRanges, Steady PROVE InRanges'
  <2>0. range <= Len(Ranges)
    BY <1>1 DEF Steady
  <2>1. Settled(range - 1)'
    <3>1. Settled(range - 1)
      BY <1>1 DEF InRanges
    <3>2. \A k \in Nat : k <= Len(Ranges) /\ Settled(k) => Settled(k)'
      BY SettledStays
    <3> QED
      BY <1>a, <3>1, <3>2
  <2>2. pc'[Encoder] = "range" => Settled(range)'
    <3>1. pc[Encoder] = "range" => Settled(range)
      BY <1>1 DEF InRanges
    <3>2. \A k \in Nat : k <= Len(Ranges) /\ Settled(k) => Settled(k)'
      BY SettledStays
    <3> QED
      BY <1>a, <2>0, <3>1, <3>2
  <2>3. ASSUME NEW n \in 0 .. nextId' - 1, Wanted(range, n) PROVE InUse(n)' \/ Through(n)'
    <3>1. n \in Nat
      OBVIOUS
    <3>2. n \in 0 .. nextId - 1 => InUse(n) \/ Through(n)
      BY <1>1, <2>3 DEF InRanges
    <3> QED
      BY <1>c, <3>1, <3>2 DEF GoesThrough
  <2>4. ASSUME Len(Ranges) > 1, NEW n \in 0 .. nextId' - 1, Ranges[range][2] <= n PROVE InUse(n)'
    <3>1. n \in Nat
      OBVIOUS
    <3>2. n \in 0 .. nextId - 1 => InUse(n)
      BY <1>1, <2>4 DEF InRanges
    <3> QED
      BY <1>c, <2>4, <3>1, <3>2
  <2>5. pc'[Encoder] = "dispose" => id'[cur'[Encoder]] # Ranges[range'][2]
    BY <1>1 DEF InRanges
  <2> QED
    BY <1>b, <2>1, <2>2, <2>3, <2>4, <2>5 DEF InRanges
<1>2. ASSUME ~Steady PROVE InRanges'
  BY <1>2, <1>b DEF InRanges
<1>3. ASSUME BehindLoop PROVE BehindLoop'
  <2> SUFFICES ASSUME sig = "none", LoopLeft, Unsought(range - 1) PROVE Settled(range - 1)'
    BY <1>b DEF BehindLoop
  <2>1. Settled(range - 1)
    BY <1>3 DEF BehindLoop
  <2>2. \A k \in Nat : k <= Len(Ranges) /\ Settled(k) => Settled(k)'
    BY SettledStays
  <2> QED
    BY <1>a, <2>1, <2>2
<1> QED
  BY <1>1, <1>2, <1>3

\* A range is done with once no frame of it is in use and none can come.
LEMMA LeavesRange ==
    ASSUME Typed, InRanges, Steady,
           \A n \in 0 .. nextId - 1 : n < Ranges[range][2] => ~InUse(n),
           Finished \/ Ranges[range][2] <= nextId
    PROVE  Settled(range)
<1>0. range \in Nat /\ range \in 1 .. Len(Ranges) + 1
  BY NumberTypes
<1> SUFFICES ASSUME NEW r \in 1 .. range
             PROVE  /\ \A n \in 0 .. nextId - 1 : Wanted(r, n) => Through(n)
                    /\ Finished \/ Ranges[r][2] <= nextId
  BY DEF Settled
<1>1. CASE r = range
  BY <1>1 DEF InRanges, Wanted
<1>2. CASE r # range
  <2>1. r \in 1 .. range - 1
    BY <1>0, <1>2
  <2> QED
    BY <2>1 DEF InRanges, Settled
<1> QED
  BY <1>1, <1>2


\* The importer gives out the ids, each to a frame it has.
LEMMA ImporterStays ==
    ASSUME Unused("IS_CLONED"), Orderly, Orderly', NextFilled, ImporterStep
    PROVE  (InRanges => InRanges') /\ (BehindLoop => BehindLoop')
<1>0. /\ Typed /\ Typed' /\ Apart /\ nextId \in Nat
      /\ id \in [Frames -> Nat] /\ status \in [Frames -> Status]
  BY NumberTypes DEF Orderly
<1>1. /\ UNCHANGED <<range, sig, out, dropped>>
      /\ pc'[Encoder] = pc[Encoder] /\ cur'[Encoder] = cur[Encoder]
      /\ Idles \/ \E f \in Frames : Starts(f) \/ Delivers(f)
  BY <1>0, ImporterGoes
<1>2. \A n \in Nat : Through(n) => Through(n)'
  BY <1>1 DEF Through
<1>3. pc[Encoder] = "dispose" => cur[Encoder] \in Frames /\ status[cur[Encoder]] # "NULL"
  BY <1>0, EncoderFrom, ThreadFacts, StageFacts, PointerFacts DEF Apart
<1> SUFFICES /\ Finished => Finished'
             /\ GivesOut
             /\ pc[Encoder] = "dispose" => id'[cur[Encoder]] = id[cur[Encoder]]
             /\ \A n \in Nat : InUse(n) => InUse(n)'
  BY <1>0, <1>1, <1>2, RangesStay DEF GoesThrough
<1>4. CASE Idles
  BY <1>4 DEF Idles, GivesOut, InUse
<1>5. CASE \E f \in Frames : Starts(f)
  <2> PICK f \in Frames : Starts(f)
    BY <1>5
  <2>1. \A n : InUse(n) => InUse(n)'
    BY <1>0 DEF Starts, InUse
  <2> QED
    BY <1>0, <1>3, <2>1 DEF Starts, GivesOut, Finished
<1>6. CASE \E f \in Frames : Delivers(f)
  <2> PICK f \in Frames : Delivers(f)
    BY <1>6
  <2>1. AfterImport # "NULL" /\ AfterImport \in Status
    BY DEF AfterImport, Status
  <2>2. status'[f] # "NULL" /\ id' = id
    BY <1>0, <2>1 DEF Delivers
  <2>3. \A n : InUse(n) => InUse(n)'
    BY <1>0, <2>1, <2>2 DEF Delivers, InUse
  <2>4. \E g \in Frames : status'[g] # "NULL" /\ id'[g] = nextId
    BY <2>2 DEF Delivers, NextFilled
  <2> QED
    BY <2>2, <2>3, <2>4 DEF Delivers, GivesOut, Finished
<1> QED
  BY <1>1, <1>4, <1>5, <1>6

\* A worker takes a frame out of the chain only to drop it, which it says in dropped.
LEMMA WorkerStays ==
    ASSUME Unused("IS_CLONED"), EndsSeen, Orderly, Orderly', NEW w \in Workers, WorkerStep(w)
    PROVE  (InRanges => InRanges') /\ (BehindLoop => BehindLoop')
<1>0. Typed /\ Typed' /\ Apart /\ NobodyAt("IS_CLONED")
  BY DEF Orderly, Clean, Absent
<1>1. WorkerGoesOn
  BY <1>0, WorkerGoes
<1>2. Len(Ranges) > 1 => NobodyAt("SKIPPED")
  BY NumberTypes, <1>0 DEF EndsSeen, Orderly, Clean, Absent
<1>3. GoesThrough
  BY <1>1 DEF WorkerGoesOn, GoesThrough, GivesOut, Through, Finished
<1>4. \A n \in Nat : InUse(n) => InUse(n)' \/ Through(n)'
  BY <1>1 DEF WorkerGoesOn, InUse, Through
<1>5. Len(Ranges) > 1 => \A n \in Nat : InUse(n) => InUse(n)'
  BY <1>1, <1>2 DEF WorkerGoesOn, InUse
<1>6. /\ UNCHANGED <<range, sig, id>>
      /\ pc'[Encoder] = pc[Encoder] /\ cur'[Encoder] = cur[Encoder]
  BY <1>1 DEF WorkerGoesOn
<1> QED
  BY <1>0, <1>3, <1>4, <1>5, <1>6, RangesStay

\* Of a step of the encoder in its loop.
LEMMA LoopStays ==
    ASSUME Typed, Typed', InRanges, GoesThrough, UNCHANGED <<range, sig, nextId>>,
           Steady => \A n \in 0 .. nextId - 1 :
                        InUse(n) => InUse(n)' \/ (Wanted(range, n) => Through(n)'),
           Steady /\ Len(Ranges) > 1 => \A n \in 0 .. nextId - 1 :
                        Ranges[range][2] <= n /\ InUse(n) => InUse(n)',
           Steady /\ pc'[Encoder] = "range" => Settled(range),
           Steady /\ pc'[Encoder] = "dispose" => id'[cur'[Encoder]] # Ranges[range][2]
    PROVE  InRanges'
<1>0. nextId \in Nat /\ Len(Ranges) \in Nat /\ range \in 1 .. Len(Ranges) + 1
  BY NumberTypes
<1>a. range \in Nat /\ range - 1 \in Nat /\ range - 1 <= Len(Ranges)
  BY <1>0
<1>b. \A r, n : Wanted(r, n)' <=> Wanted(r, n)
  BY DEF Wanted
<1>c. \A k \in Nat : k <= Len(Ranges) /\ Settled(k) => Settled(k)'
  BY SettledStays
<1> SUFFICES ASSUME Steady
             PROVE  /\ Settled(range - 1)'
                    /\ \A n \in 0 .. nextId - 1 : Wanted(range, n) => InUse(n)' \/ Through(n)'
                    /\ Len(Ranges) > 1 =>
                          \A n \in 0 .. nextId - 1 : Ranges[range][2] <= n => InUse(n)'
                    /\ pc'[Encoder] = "range" => Settled(range)'
  BY <1>b DEF InRanges, Steady, Unsought
<1>1. Settled(range - 1)'
  BY <1>a, <1>c DEF InRanges
<1>2. ASSUME NEW n \in 0 .. nextId - 1, Wanted(range, n) PROVE InUse(n)' \/ Through(n)'
  <2>1. InUse(n) \/ Through(n)
    BY <1>2 DEF InRanges
  <2>2. Through(n) => Through(n)'
    BY DEF GoesThrough
  <2> QED
    BY <1>2, <2>1, <2>2
<1>3. Len(Ranges) > 1 => \A n \in 0 .. nextId - 1 : Ranges[range][2] <= n => InUse(n)'
  BY DEF InRanges
<1>4. pc'[Encoder] = "range" => Settled(range)'
  <2>1. range <= Len(Ranges)
    BY DEF Steady
  <2> QED
    BY <1>a, <1>c, <2>1
<1> QED
  BY <1>1, <1>2, <1>3, <1>4

\* The encoder leaves a range only when nothing of it is in use (need_stop, retrieve).
LEMMA CheckStays ==
    ASSUME Orderly, Orderly', OnCourse, InRanges, EncoderCheck \/ EncoderAcquire
    PROVE  InRanges'
<1>0. /\ Typed /\ Typed' /\ nextId \in Nat
      /\ pc \in [Threads -> ImporterPC \cup WorkerPC \cup EncoderPC]
      /\ cur \in [Threads -> FramePtr] /\ cv \in [Threads -> Conditions \cup {"none", "signalled"}]
  BY NumberTypes DEF Orderly, Typed, TypeOK, BufferTypeOK, CvTypeOK
<1>1. /\ UNCHANGED <<range, sig, nextId, status, id, out, dropped>>
      /\ \E l \in {"acquire", "process", "range"} : Goto(Encoder, l)
  BY DEF EncoderCheck, EncoderAcquire, Retrieve, Sleep, GiveUp, AfterClaim, At, ring, fbvars,
     control, history
<1>2. pc'[Importer] = pc[Importer] /\ pc'[Encoder] # "dispose"
  BY <1>0, <1>1, ThreadFacts DEF Goto
<1>3. /\ GoesThrough
      /\ \A n : InUse(n) => InUse(n)'
  BY <1>1, <1>2 DEF GoesThrough, GivesOut, Through, Finished, InUse
<1>4. ASSUME Steady, pc'[Encoder] = "range" PROVE Settled(range)
  <2>1. run = "RUNNING"
    BY <1>0, <1>4, SteadyInLoop
  <2>2. ~EncoderAcquire
    <3> SUFFICES ASSUME EncoderAcquire PROVE FALSE
      OBVIOUS
    <3>1. pc[Encoder] = "acquire" /\ Retrieve(Encoder, TRUE) /\ AfterClaim(Encoder, "range", "process")
      BY <2>1 DEF EncoderAcquire, At, Running
    <3>2. cv'[Encoder] \notin Conditions /\ cur'[Encoder] = NoFrame
      BY <1>0, <1>4, <3>1, ThreadFacts DEF AfterClaim, Goto
    <3>3. ~Sleep(Encoder, "export")
      BY <1>0, <3>2, ThreadFacts DEF Sleep, Conditions
    <3>4. head # NoFrame /\ Return(Encoder, head)
      BY <3>1, <3>3 DEF Retrieve, Interrupted, HeadReady
    <3> QED
      BY <1>0, <3>2, <3>4, ThreadFacts DEF Return
  <2>3. ~ImportStatus
    BY <1>0, <1>4, <2>1, <2>2, ThreadFacts DEF EncoderCheck, Goto, Running
  <2>4. tail = NoFrame /\ \E m \in Streams : ~active[m]
    BY <2>3 DEF ImportStatus, HaveMore
  <2>5. pc[Importer] = "exit"
    BY <1>4, <2>4 DEF OnCourse, Steady
  <2>6. \A n : ~InUse(n)
    BY <2>4, HeadLeast DEF InUse
  <2> QED
    BY <1>0, <1>4, <2>5, <2>6, LeavesRange DEF Finished
<1> QED
  BY <1>0, <1>1, <1>2, <1>3, <1>4, LoopStays

LEMMA ProcessStays ==
    ASSUME Orderly, Orderly', OwnNumbers, EndsSeen, EndIsLast, InRanges, EncoderProcess
    PROVE  InRanges'
<1>0. /\ Typed /\ Typed' /\ Apart /\ nextId \in Nat
      /\ id \in [Frames -> Nat] /\ status \in [Frames -> Status]
      /\ pc \in [Threads -> ImporterPC \cup WorkerPC \cup EncoderPC]
      /\ range \in Nat /\ range \in 1 .. Len(Ranges) + 1 /\ Len(Ranges) \in Nat
      /\ \A r \in 1 .. Len(Ranges) : Ranges[r][2] \in Nat
  BY NumberTypes DEF Orderly, Typed, TypeOK
<1>1. /\ UNCHANGED <<run, active, range, out>> /\ dropped \subseteq dropped'
      /\ head \in Frames /\ status[head] = "READY"
      /\ \/ status' = status
         \/ /\ status' = [status EXCEPT ![head] = "NULL"]
            /\ id[head] \in dropped' /\ ~Unused("SKIPPED")
      /\ \/ pc'[Encoder] = "acquire"
         \/ /\ pc'[Encoder] = "range" /\ status' = status
            /\ head \in EndMarks \/ id[head] = Ranges[range][2]
         \/ /\ pc'[Encoder] = "dispose" /\ status' = status
            /\ cur'[Encoder] = head /\ id[head] # Ranges[range][2]
  BY ProcessGoes
<1>2. UNCHANGED <<sig, nextId, id>> /\ pc'[Importer] = pc[Importer]
  <2>1. EncoderGoesOn
    BY <1>0, EncoderGoes DEF EncoderStep
  <2>2. ~CreateImporter
    BY DEF EncoderProcess, CreateImporter, At
  <2> QED
    BY <2>1, <2>2 DEF EncoderGoesOn
<1>3. GoesThrough
  BY <1>1, <1>2 DEF GoesThrough, GivesOut, Through, Finished
<1>4. \A n : InUse(n) => InUse(n)' \/ Through(n)'
  BY <1>0, <1>1, <1>2 DEF InUse, Through
<1>5. Len(Ranges) > 1 => \A n : InUse(n) => InUse(n)'
  BY <1>0, <1>1, <1>2 DEF InUse, EndsSeen
<1>6. ASSUME Steady, pc'[Encoder] = "range" PROVE Settled(range)
  <2>1. /\ id[head] \in Nat /\ id[head] <= nextId
        /\ \A n : InUse(n) => id[head] <= n
    BY <1>0, <1>1, HeadLeast DEF InUse
  <2>2. \/ id[head] = nextId /\ Finished
        \/ id[head] = Ranges[range][2]
    BY <1>1, <1>6 DEF EndIsLast, EndMarks
  <2>3. ASSUME NEW n \in 0 .. nextId - 1, n < Ranges[range][2], InUse(n) PROVE FALSE
    <3>1. id[head] <= n
      BY <2>1, <2>3
    <3>2. range \in 1 .. Len(Ranges)
      BY <1>0, <1>6 DEF Steady
    <3>3. Ranges[range][2] \in Nat
      BY <1>0, <3>2
    <3> QED
      BY <1>0, <2>1, <2>2, <2>3, <3>1, <3>3
  <2>4. Finished \/ Ranges[range][2] <= nextId
    BY <2>1, <2>2
  <2> QED
    BY <1>0, <1>6, <2>3, <2>4, LeavesRange
<1>7. pc'[Encoder] = "dispose" => id'[cur'[Encoder]] # Ranges[range][2]
  BY <1>1, <1>2
<1> QED
  BY <1>0, <1>1, <1>2, <1>3, <1>4, <1>5, <1>6, <1>7, LoopStays

LEMMA DisposeStays ==
    ASSUME Orderly, Orderly', OwnNumbers, InRanges, EncoderDispose
    PROVE  InRanges'
<1>0. /\ Typed /\ Typed' /\ Apart /\ nextId \in Nat
      /\ id \in [Frames -> Nat] /\ status \in [Frames -> Status]
      /\ range \in 1 .. Len(Ranges) + 1 /\ Len(Ranges) \in Nat /\ range \in Nat
      /\ \A r \in 1 .. Len(Ranges) : Ranges[r][2] \in Nat
      /\ out \in Seq(Nat)
  BY NumberTypes DEF Orderly
<1>1. /\ UNCHANGED <<run, active, range, dropped>>
      /\ pc[Encoder] = "dispose" /\ pc'[Encoder] = "need_stop"
      /\ cur[Encoder] = head /\ head \in Frames /\ status[head] = "READY"
      /\ out' \in {out, Append(out, id[head])}
      /\ \/ status' = status
         \/ /\ status' = [status EXCEPT ![head] = "NULL"]
            /\ Wanted(range, id[head]) => out' = Append(out, id[head])
  BY DisposeGoes
<1>2. UNCHANGED <<sig, nextId, id>> /\ pc'[Importer] = pc[Importer]
  <2>1. EncoderGoesOn
    BY <1>0, EncoderGoes DEF EncoderStep
  <2>2. ~CreateImporter
    BY DEF EncoderDispose, CreateImporter, At
  <2> QED
    BY <2>1, <2>2 DEF EncoderGoesOn
<1>3. \A n \in Nat : Through(n) => Through(n)'
  <2> SUFFICES ASSUME NEW n \in Nat, NEW i \in DOMAIN out, out[i] = n
               PROVE  i \in DOMAIN out' /\ out'[i] = n
    BY <1>1 DEF Through
  <2>1. CASE out' = out
    BY <2>1
  <2>2. CASE out' = Append(out, id[head])
    <3>1. PICK m \in Nat : m = id[head]
      BY <1>0, <1>1
    <3>2. out' = Append(out, m) /\ out \in Seq(Nat)
      BY <1>0, <2>2, <3>1
    <3> QED
      BY <3>2
  <2> QED
    BY <1>1, <2>1, <2>2
<1>4. PICK h, m : h = head /\ m = id[head]
  OBVIOUS
<1>5. h \in Frames /\ m \in Nat /\ id[h] = m
  BY <1>0, <1>1, <1>4
<1>6. out' = Append(out, m) => Through(m)'
  <2> SUFFICES ASSUME out' = Append(out, m)
               PROVE  \E i \in DOMAIN out' : out'[i] = m
    BY DEF Through
  <2>1. Len(out) + 1 \in DOMAIN out' /\ out'[Len(out) + 1] = m
    BY <1>0, <1>5
  <2> QED
    BY <2>1
<1>7. \A n : InUse(n) => InUse(n)' \/ (n = m /\ (Wanted(range, n) => Through(n)'))
  <2> SUFFICES ASSUME NEW n, InUse(n), ~InUse(n)'
               PROVE  n = m /\ (Wanted(range, n) => Through(n)')
    OBVIOUS
  <2>1. PICK f \in Frames : status[f] # "NULL" /\ id[f] = n
    BY DEF InUse
  <2>2. status'[f] = "NULL"
    BY <1>2, <2>1 DEF InUse
  <2>3. f = h /\ (Wanted(range, m) => out' = Append(out, m))
    BY <1>0, <1>1, <1>4, <2>1, <2>2
  <2> QED
    BY <1>5, <1>6, <2>1, <2>3
<1>8. GoesThrough
  BY <1>1, <1>2, <1>3 DEF GoesThrough, GivesOut, Finished
<1>9. ASSUME Steady, Len(Ranges) > 1, NEW n \in 0 .. nextId - 1, Ranges[range][2] <= n, InUse(n)
      PROVE  InUse(n)'
  <2> SUFFICES ASSUME n = m PROVE FALSE
    BY <1>7, <1>9
  <2>1. range \in 1 .. Len(Ranges)
    BY <1>0, <1>9 DEF Steady
  <2>2. Ranges[range][2] \in Nat /\ m # Ranges[range][2]
    BY <1>0, <1>1, <1>4, <1>9, <2>1 DEF InRanges
  <2>3. Ranges[range][2] \in 0 .. nextId - 1
    BY <1>0, <1>9, <2>2
  <2>4. InUse(Ranges[range][2])
    BY <1>9, <2>2, <2>3 DEF InRanges
  <2>5. m <= Ranges[range][2]
    BY <1>4, <2>4, HeadLeast DEF InUse
  <2> QED
    BY <1>5, <1>9, <2>2, <2>5
<1> QED
  BY <1>0, <1>1, <1>2, <1>7, <1>8, <1>9, LoopStays

\* Behind a range the encoder either ends or begins a range with everything of it still there.
LEMMA RangeBegins ==
    ASSUME Orderly, Orderly', OnCourse, EndsSeen, InRanges, NextRange
    PROVE  InRanges' /\ BehindLoop'
<1>0. /\ Typed /\ Typed' /\ nextId \in Nat /\ range \in Nat /\ Len(Ranges) \in Nat
      /\ \A r \in 1 .. Len(Ranges) : Ranges[r][1] \in Nat /\ Ranges[r][2] \in Nat
  BY NumberTypes DEF Orderly
<1>1. /\ pc[Encoder] = "range" /\ range \in 1 .. Len(Ranges)
      /\ UNCHANGED <<fbvars, run, active, nextId, sig, out, dropped>>
      /\ pc'[Importer] = pc[Importer]
      /\ \/ /\ run = "INTERRUPTED" \/ range = Len(Ranges)
            /\ range' = Len(Ranges) + 1 /\ pc'[Encoder] = "stop"
         \/ /\ range < Len(Ranges) /\ range' = range + 1
            /\ \/ range' \in Seek /\ pc'[Encoder] = "cancel"
               \/ pc'[Encoder] = "need_stop"
  BY <1>0, RangeGoes
<1>2. sig = "none" => range' = range + 1
  BY <1>0, <1>1 DEF OnCourse
<1>3. Steady => Settled(range)
  BY <1>1 DEF InRanges
<1>4. GoesThrough
  BY <1>1 DEF GoesThrough, GivesOut, Through, Finished
<1>5. ASSUME sig = "none", Unsought(range) PROVE Settled(range - 1)'
  <2>1. Steady
    BY <1>1, <1>5 DEF Steady
  <2>2. range' = range + 1 /\ range' - 1 = range
    BY <1>0, <1>2, <1>5
  <2>3. \A k \in Nat : k <= Len(Ranges) /\ Settled(k) => Settled(k)'
    BY <1>0, <1>4, SettledStays
  <2>4. PICK k \in Nat : k = range
    BY <1>0
  <2>5. Settled(k)' /\ k = range' - 1
    BY <1>0, <1>1, <1>3, <2>1, <2>2, <2>3, <2>4
  <2> QED
    BY <2>5
<1>6. BehindLoop'
  <2> SUFFICES ASSUME sig' = "none", Unsought(range - 1)' PROVE Settled(range - 1)'
    BY DEF BehindLoop
  <2>1. sig = "none" /\ range' - 1 = range
    BY <1>0, <1>1, <1>2
  <2>2. Unsought(range)
    BY <2>1 DEF Unsought
  <2> QED
    BY <1>5, <2>1, <2>2
<1>7. InRanges'
  <2> SUFFICES ASSUME Steady' PROVE InRanges'
    BY DEF InRanges
  <2>1. sig = "none" /\ range' = range + 1 /\ range' \in 1 .. Len(Ranges)
    BY <1>0, <1>1, <1>2 DEF Steady
  <2>2. Unsought(range) /\ range' \notin Seek
    <3>1. Seek \cap 1 .. range' = {}
      BY DEF Steady, Unsought
    <3>2. 1 .. range \subseteq 1 .. range'
      BY <1>0, <2>1
    <3> QED
      BY <2>1, <3>1, <3>2 DEF Unsought
  <2>3. Settled(range - 1)' /\ pc'[Encoder] = "need_stop" /\ Steady
    BY <1>0, <1>1, <1>5, <2>1, <2>2 DEF Steady
  <2>4. /\ Ranges[range][2] \in Nat /\ Ranges[range'][1] \in Nat /\ Ranges[range'][2] \in Nat
        /\ Ranges[range][2] <= Ranges[range'][1] /\ Ranges[range'][1] <= Ranges[range'][2]
        /\ Len(Ranges) > 1
    BY <1>0, <1>1, <2>1 DEF EndsSeen, Ascending
  <2>5. \A n \in 0 .. nextId - 1 : Ranges[range][2] <= n => InUse(n)'
    <3>1. \A n \in 0 .. nextId - 1 : Ranges[range][2] <= n => InUse(n)
      BY <2>3, <2>4 DEF InRanges
    <3>2. \A n : InUse(n) => InUse(n)'
      BY <1>1 DEF fbvars, ring, InUse
    <3> QED
      BY <3>1, <3>2
  <2>6. ASSUME NEW n \in 0 .. nextId' - 1
        PROVE  /\ Wanted(range', n) => InUse(n)'
               /\ Ranges[range'][2] <= n => InUse(n)'
    <3>1. n \in 0 .. nextId - 1 /\ n \in Nat
      BY <1>0, <1>1
    <3>2. Ranges[range'][1] <= n => Ranges[range][2] <= n
      BY <2>4, <3>1
    <3>3. Ranges[range'][2] <= n => Ranges[range][2] <= n
      BY <2>4, <3>1
    <3> QED
      BY <2>5, <3>1, <3>2, <3>3 DEF Wanted
  <2> QED
    BY <2>3, <2>6 DEF InRanges, Wanted
<1> QED
  BY <1>6, <1>7

\* Outside its loop the main thread leaves the account alone.
LEMMA MainStays ==
    ASSUME Orderly, Orderly', OnCourse, BehindLoop, EncoderStep,
           pc[Encoder] \notin {"need_stop", "acquire", "process", "dispose", "range"}
    PROVE  InRanges' /\ BehindLoop'
<1>0. /\ Typed /\ Typed' /\ Apart /\ nextId \in Nat /\ range \in Nat /\ Len(Ranges) \in Nat
      /\ range \in 1 .. Len(Ranges) + 1
  BY NumberTypes DEF Orderly
<1>1. /\ UNCHANGED <<range, nextId, out, dropped>>
      /\ pc'[Importer] = pc[Importer] \/ CreateImporter
      /\ pc[Encoder] \in {"stop", "interrupt", "cancel", "wake", "join", "pool_stop", "pool_join"}
         \/ pc'[Encoder] \in {"flush", "create", "need_stop"}
  <2>1. ~NextRange
    BY DEF NextRange, MainStep, At
  <2> QED
    BY <1>0, <2>1, MainGoes
<1>2. sig' = sig
  BY <1>0, EncoderGoes DEF EncoderGoesOn
<1>3. ~Steady'
  BY <1>0, <1>1, <1>2, SteadyInLoop DEF Steady, Unsought
<1>4. ASSUME LoopLeft' PROVE LoopLeft /\ ~CreateImporter
  BY <1>1, <1>4, ThreadFacts, <1>0 DEF LoopLeft, CreateImporter, Typed, TypeOK
<1>5. BehindLoop'
  <2> SUFFICES ASSUME sig' = "none", LoopLeft', Unsought(range - 1)' PROVE Settled(range - 1)'
    BY DEF BehindLoop
  <2>1. Settled(range - 1)
    BY <1>1, <1>2, <1>4 DEF BehindLoop, Unsought
  <2>2. pc'[Importer] = pc[Importer]
    BY <1>1, <1>4
  <2>3. GoesThrough
    BY <1>1, <2>2 DEF GoesThrough, GivesOut, Through, Finished
  <2>4. \A k \in Nat : k <= Len(Ranges) /\ Settled(k) => Settled(k)'
    BY <1>0, <2>3, SettledStays
  <2>5. range - 1 \in Nat /\ range - 1 <= Len(Ranges)
    BY <1>0
  <2> QED
    BY <1>1, <2>1, <2>4, <2>5
<1> QED
  BY <1>3, <1>5 DEF InRanges

\* The account of the frames is inductive.
LEMMA AccountedNext ==
    ASSUME Unused("IS_CLONED"), EndsSeen
    PROVE  Orderly /\ Orderly' /\ Accounted /\ [Next]_vars => Accounted'
<1> SUFFICES ASSUME Orderly, Orderly', Accounted, [Next]_vars PROVE Accounted'
  OBVIOUS
<1>0. OnCourse /\ NextFilled /\ EndIsLast /\ OwnNumbers /\ InRanges /\ BehindLoop /\ Typed
  BY DEF Accounted, Orderly
<1>1. OnCourse' /\ NextFilled' /\ EndIsLast' /\ OwnNumbers'
  BY <1>0, OnCourseNext, NextFilledNext, EndIsLastNext, OwnNumbersNext
<1> SUFFICES InRanges' /\ BehindLoop'
  BY <1>1 DEF Accounted
<1>2. CASE ImporterStep
  BY <1>0, <1>2, ImporterStays
<1>3. CASE \E w \in Workers : WorkerStep(w)
  BY <1>0, <1>3, WorkerStays
<1>4. CASE EncoderStep /\ pc[Encoder] \in {"need_stop", "acquire", "process", "dispose"}
  <2>1. /\ EncoderCheck \/ EncoderAcquire \/ EncoderProcess \/ EncoderDispose
    BY <1>4 DEF EncoderStep, NextRange, StopAll, StopInterrupt, CancelImport, CancelWake,
       JoinImporter, Flush, CreateImporter, PoolStop, PoolJoin, MainStep, At
  <2>2. pc'[Encoder] \in {"need_stop", "acquire", "process", "dispose", "range"}
    BY <1>0, <1>4, MainGoes DEF NextRange, MainStep, At
  <2>3. BehindLoop'
    BY <2>2 DEF BehindLoop, LoopLeft
  <2> QED
    BY <1>0, <2>1, <2>3, CheckStays, ProcessStays, DisposeStays
<1>5. CASE EncoderStep /\ pc[Encoder] = "range"
  <2>1. NextRange
    BY <1>5 DEF EncoderStep, EncoderCheck, EncoderAcquire, EncoderProcess, EncoderDispose,
       StopAll, StopInterrupt, CancelImport, CancelWake, JoinImporter, Flush, CreateImporter,
       PoolStop, PoolJoin, MainStep, At
  <2> QED
    BY <1>0, <2>1, RangeBegins
<1>6. CASE /\ EncoderStep
           /\ pc[Encoder] \notin {"need_stop", "acquire", "process", "dispose", "range"}
  BY <1>0, <1>6, MainStays
<1>7. CASE SignalStep
  BY <1>7, SignalEnds DEF InRanges, BehindLoop, Steady
<1>8. CASE UNCHANGED vars
  BY <1>0, <1>8 DEF vars, fbvars, ring, control, history, InRanges, BehindLoop, Steady,
     Unsought, Settled, Wanted, Through, Finished, InUse, LoopLeft
<1> QED
  BY <1>2, <1>3, <1>4, <1>5, <1>6, <1>7, <1>8 DEF Next, Terminated

LEMMA AccountedInit == Init => Accounted
<1> SUFFICES ASSUME Init PROVE Accounted
  OBVIOUS
<1> USE ThreadFacts
<1>0. /\ pc[Importer] = "loop" /\ pc[Encoder] = "need_stop" /\ run = "RUNNING" /\ sig = "none"
      /\ active = [m \in Streams |-> TRUE] /\ nextId = 0 /\ range = 1 /\ cloned = 0
      /\ \A f \in Frames : status[f] = "NULL" /\ attributes[f] = {}
      /\ Len(Ranges) \in Nat
  BY RangeFacts DEF Init, InitFrameBuffer
<1>1. OnCourse /\ NextFilled /\ EndIsLast /\ OwnNumbers
  BY <1>0 DEF OnCourse, NextFilled, EndIsLast, OwnNumbers, Unmarked
<1>2. InRanges /\ BehindLoop
  BY <1>0 DEF InRanges, BehindLoop, Settled, LoopLeft
<1> QED
  BY <1>1, <1>2 DEF Accounted

\* When nobody interrupted the run and no range had to seek, every imported frame of the
\* ranges behind the encoder (encoder_loop) has been encoded or dropped by a filter:
\* between the stages, from range to range and at the end of the stream.
THEOREM NoFrameLost ==
    ASSUME Unused("IS_CLONED"), EndsSeen PROVE Spec => []NothingLost
<1>0. Uncopied
  BY DEF Uncopied
<1>1. ASSUME Orderly, Accounted PROVE NothingLost
  <2>0. range \in Nat
    BY <1>1, NumberTypes DEF Orderly
  <2> SUFFICES ASSUME sig = "none", LoopLeft, Seek \cap 1 .. range - 1 = {},
                      NEW n \in 0 .. nextId - 1, NEW r \in 1 .. range - 1,
                      Ranges[r][1] <= n /\ n < Ranges[r][2]
               PROVE  n \in {out[i] : i \in DOMAIN out} \cup dropped
    BY DEF NothingLost
  <2>1. Settled(range - 1)
    BY <1>1 DEF Accounted, BehindLoop, Unsought
  <2>2. Through(n)
    BY <2>1 DEF Settled, Wanted
  <2> QED
    BY <2>2 DEF Through
<1>2. Spec => []Orderly
  BY <1>0, OrderlyAlways
<1> QED
  BY <1>1, <1>2, AccountedInit, AccountedNext, PTL DEF Spec

-----------------------------------------------------------------------------
(* The numbers of the frames.  In the first range, while nothing is dropped, *)
(* the ids in the chain have no gaps, a copy repeats the id of its original, *)
(* and the number of the head is the number of frames encoded.              *)

Counting == Media = "video" /\ dropped = {} /\ range = 1 /\ Ranges[1][1] = 0

\* The copies in use: marked as such, or about to be by the worker that made them.
Doubles == {f \in Frames : /\ status[f] # "NULL"
                           /\ \/ "WAS_CLONED" \in attributes[f]
                              \/ \E w \in Workers : clone[w] = f}
Copy(f) == IF f \in Doubles THEN 1 ELSE 0

\* No video frame is a copy and to be copied; a frame being filled is no copy.
NoCopyCloned ==
    /\ Media = "video" =>
          \A f \in Frames : ~({"IS_CLONED", "WAS_CLONED"} \subseteq attributes[f])
    /\ \A f \in Frames : status[f] = "EMPTY" => "WAS_CLONED" \notin attributes[f]

\* The main thread leaves its loop for good, or for another range.
LoopIsFirst ==
    pc[Encoder] \notin {"need_stop", "acquire", "process", "dispose", "range"} => range # 1

\* A frame with this id is behind the range.
Behind(x) == Ranges[1][2] <= x + cloned

\* The chain c is numbered up to the next frame the importer fills.
Numbered(n, c) ==
    /\ \A i \in 1 .. n - 1 : id[c[i + 1]] + Copy(c[i + 1]) = id[c[i]] + 1
    /\ n > 0 => Behind(id[c[1]]) \/ id[c[1]] + cloned + Copy(c[1]) = Len(out)
    /\ pc[Importer] \in {"loop", "register"} =>
          IF n = 0 THEN Behind(nextId) \/ nextId + cloned = Len(out)
          ELSE id[c[n]] + 1 = nextId
    /\ pc[Importer] = "fill" /\ n > 0 => id[c[n]] = nextId

Counted ==
    /\ NoCopyCloned /\ LoopIsFirst
    /\ Counting => \E n, c : Woven(n, c) /\ Numbered(n, c)

-----------------------------------------------------------------------------
\* The types the counting needs.
LEMMA CountTypes ==
    ASSUME Typed
    PROVE  /\ id \in [Frames -> Nat] /\ nextId \in Nat /\ cloned \in Nat
           /\ out \in Seq(Nat) /\ Len(out) \in Nat /\ Ranges[1][2] \in Nat
           /\ \A f : Copy(f) \in Nat /\ Copy(f) <= 1
<1>1. 1 \in 1 .. Len(Ranges)
  BY RangeFacts
<1>2. \A f : Copy(f) \in Nat /\ Copy(f) <= 1
  BY DEF Copy
<1>3. cloned \in Nat
  BY DEF Typed, TypeOK
<1> QED
  BY <1>1, <1>2, <1>3, NumberTypes

\* The importer's next line, and what it has counted there.
Turns ==
    \/ pc'[Importer] \notin {"loop", "register", "fill"}
    \/ UNCHANGED nextId /\ pc'[Importer] = pc[Importer]
    \/ UNCHANGED nextId /\ pc[Importer] = "loop" /\ pc'[Importer] = "register"
    \/ nextId' = nextId + 1 /\ pc[Importer] = "fill" /\ pc'[Importer] = "loop"

\* The copies stay, and so do their numbers.
LEMMA TurnNumbered ==
    ASSUME Typed, Typed', NEW n, NEW c, Woven(n, c), Numbered(n, c),
           UNCHANGED <<id, out, cloned>>, Doubles' = Doubles, Turns,
           pc[Importer] = "fill" => n > 0
    PROVE  Numbered(n, c)'
<1>0. n \in Nat /\ c \in [1 .. n -> Frames]
  BY DEF Woven, Linked
<1>1. \A f : Copy(f)' = Copy(f)
  BY DEF Copy
<1>3. \A i \in 1 .. n : id'[c[i]] = id[c[i]] /\ id[c[i]] \in Nat
  BY <1>0, CountTypes
<1>4. nextId \in Nat /\ nextId' \in Nat /\ cloned \in Nat /\ Len(out') = Len(out)
  BY CountTypes DEF Typed, TypeOK
<1>5. /\ \A i \in 1 .. n - 1 : id'[c[i + 1]] + Copy(c[i + 1])' = id'[c[i]] + 1
      /\ n > 0 => \/ Ranges[1][2] <= id'[c[1]] + cloned'
                  \/ id'[c[1]] + cloned' + Copy(c[1])' = Len(out')
  BY <1>0, <1>1, <1>3, <1>4 DEF Numbered, Behind
<1>6. pc'[Importer] \in {"loop", "register"} =>
          IF n = 0 THEN Ranges[1][2] <= nextId' + cloned' \/ nextId' + cloned' = Len(out')
          ELSE id'[c[n]] + 1 = nextId'
  <2>1. CASE n = 0
    <3>1. /\ pc[Importer] \in {"loop", "register"} =>
                Ranges[1][2] <= nextId + cloned \/ nextId + cloned = Len(out)
          /\ pc[Importer] # "fill"
      BY <2>1 DEF Numbered, Behind
    <3>2. /\ pc'[Importer] \in {"loop", "register"} =>
                pc[Importer] \in {"loop", "register"} /\ nextId' = nextId
          /\ cloned' = cloned
      BY <3>1 DEF Turns
    <3> QED
      BY <1>4, <2>1, <3>1, <3>2
  <2>2. CASE n # 0
    <3>1. n \in 1 .. n
      BY <1>0, <2>2
    <3>2. id'[c[n]] = id[c[n]]
      BY <1>3, <3>1
    <3>3. /\ pc[Importer] \in {"loop", "register"} => id[c[n]] + 1 = nextId
          /\ pc[Importer] = "fill" => id[c[n]] = nextId
      BY <1>0, <2>2 DEF Numbered
    <3> QED
      BY <1>4, <2>2, <3>2, <3>3 DEF Turns
  <2> QED
    BY <2>1, <2>2
<1>7. pc'[Importer] = "fill" /\ n > 0 => id'[c[n]] = nextId'
  BY <1>0, <1>3, <1>4 DEF Turns, Numbered
<1> QED
  BY <1>5, <1>6, <1>7 DEF Numbered, Behind

\* A frame the importer registers has the next id.
LEMMA EnterNumbered ==
    ASSUME Typed, Typed', NEW n, NEW c, Woven(n, c), Numbered(n, c),
           NEW f \in Frames, Enters(f), Doubles' = Doubles, UNCHANGED <<nextId, cloned>>,
           pc[Importer] = "register", pc'[Importer] = "fill"
    PROVE  Numbered(n + 1, With1(n, c, n + 1, f))'
<1> DEFINE d == With1(n, c, n + 1, f)
<1>0. /\ n \in Nat /\ c \in [1 .. n -> Frames] /\ status[f] = "NULL" /\ n + 1 > 0
      /\ \A i \in 1 .. n : c[i] # f
  BY DEF Woven, Linked, Members, Enters, Restatus
<1>1. d[n + 1] = f /\ \A i \in 1 .. n : d[i] = c[i]
  BY <1>0 DEF With1
<1> HIDE DEF d
<1>2. /\ id' = [id EXCEPT ![f] = nextId] /\ out' = out
      /\ cloned' = cloned /\ nextId' = nextId
  BY DEF Enters
<1>3. Copy(f) = 0 /\ \A g : Copy(g)' = Copy(g)
  BY <1>0 DEF Copy, Doubles
<1>4. /\ id[f] \in Nat /\ id'[f] = nextId /\ nextId \in Nat /\ cloned \in Nat
      /\ Len(out) \in Nat /\ Ranges[1][2] \in Nat
      /\ \A i \in 1 .. n : id'[c[i]] = id[c[i]] /\ id[c[i]] \in Nat
  BY <1>0, <1>2, CountTypes
<1>5. CASE n = 0
  <2>1. Ranges[1][2] <= nextId + cloned \/ nextId + cloned = Len(out)
    BY <1>5 DEF Numbered, Behind
  <2>2. Ranges[1][2] <= id'[d[1]] + cloned' \/ id'[d[1]] + cloned' + Copy(d[1])' = Len(out')
    BY <1>1, <1>2, <1>3, <1>4, <1>5, <2>1
  <2>3. \A i \in 1 .. (n + 1) - 1 : id'[d[i + 1]] + Copy(d[i + 1])' = id'[d[i]] + 1
    BY <1>5
  <2>4. id'[d[n + 1]] = nextId'
    BY <1>1, <1>2, <1>4
  <2> QED
    BY <1>5, <2>2, <2>3, <2>4 DEF Numbered, Behind, d
<1>6. CASE n # 0
  <2>1. n \in 1 .. n /\ 1 \in 1 .. n
    BY <1>0, <1>6
  <2>2. id[c[n]] + 1 = nextId
    BY <1>6 DEF Numbered
  <2>3. Ranges[1][2] <= id[c[1]] + cloned \/ id[c[1]] + cloned + Copy(c[1]) = Len(out)
    BY <1>0, <1>6 DEF Numbered, Behind
  <2>4. Ranges[1][2] <= id'[d[1]] + cloned' \/ id'[d[1]] + cloned' + Copy(d[1])' = Len(out')
    BY <1>1, <1>2, <1>3, <1>4, <2>1, <2>3
  <2>5. \A i \in 1 .. (n + 1) - 1 : id'[d[i + 1]] + Copy(d[i + 1])' = id'[d[i]] + 1
    <3> TAKE i \in 1 .. (n + 1) - 1
    <3>1. CASE i = n
      BY <1>1, <1>3, <1>4, <2>1, <2>2, <3>1
    <3>2. CASE i # n
      <4>1. i \in 1 .. n /\ i + 1 \in 1 .. n /\ i \in 1 .. n - 1
        BY <1>0, <3>2
      <4>2. id[c[i + 1]] + Copy(c[i + 1]) = id[c[i]] + 1
        BY <4>1 DEF Numbered
      <4> QED
        BY <1>1, <1>3, <1>4, <4>1, <4>2
    <3> QED
      BY <3>1, <3>2
  <2>6. id'[d[n + 1]] = nextId'
    BY <1>1, <1>2, <1>4
  <2> QED
    BY <2>4, <2>5, <2>6 DEF Numbered, Behind, d
<1> QED
  BY <1>5, <1>6

\* A copy repeats the id of the frame before it.
LEMMA CopyNumbered ==
    ASSUME Typed, Typed', NEW n, NEW c, Woven(n, c), Numbered(n, c),
           NEW p \in Frames, NEW k \in 1 .. n, Copies(c[k], p), Doubles' = Doubles \cup {p},
           UNCHANGED <<nextId, cloned>>, pc'[Importer] = pc[Importer]
    PROVE  Numbered(n + 1, With1(n, c, k + 1, p))'
<1> DEFINE d == With1(n, c, k + 1, p)
<1>0. /\ n \in Nat /\ k \in Nat /\ c \in [1 .. n -> Frames] /\ n + 1 > 0 /\ n > 0
      /\ \A i \in 1 .. n : c[i] # p
  BY DEF Woven, Linked, Members, Copies, Restatus
<1>1. /\ d[k + 1] = p /\ \A i \in 1 .. k : d[i] = c[i]
      /\ \A i \in k + 1 .. n : d[i + 1] = c[i]
  BY <1>0 DEF With1
<1> HIDE DEF d
<1>2. id' = [id EXCEPT ![p] = id[c[k]]] /\ out' = out /\ cloned' = cloned /\ nextId' = nextId
  BY DEF Copies
<1>3. Copy(p)' = 1 /\ \A g : g # p => Copy(g)' = Copy(g)
  BY DEF Copy
<1>4. /\ id'[p] = id[c[k]] /\ id[c[k]] \in Nat /\ cloned \in Nat /\ Len(out) \in Nat
      /\ Ranges[1][2] \in Nat
      /\ \A i \in 1 .. n : /\ id'[c[i]] = id[c[i]] /\ id[c[i]] \in Nat
                           /\ Copy(c[i])' = Copy(c[i]) /\ Copy(c[i]) \in Nat
  BY <1>0, <1>2, <1>3, CountTypes
<1>5. \A i \in 1 .. n - 1 : id[c[i + 1]] + Copy(c[i + 1]) = id[c[i]] + 1
  BY DEF Numbered
<1>6. \A i \in 1 .. (n + 1) - 1 : id'[d[i + 1]] + Copy(d[i + 1])' = id'[d[i]] + 1
  <2> TAKE i \in 1 .. (n + 1) - 1
  <2>1. CASE i < k
    <3>1. i \in 1 .. k /\ i + 1 \in 1 .. k /\ i \in 1 .. n /\ i + 1 \in 1 .. n /\ i \in 1 .. n - 1
      BY <1>0, <2>1
    <3>2. id[c[i + 1]] + Copy(c[i + 1]) = id[c[i]] + 1
      BY <1>5, <3>1
    <3>3. d[i] = c[i] /\ d[i + 1] = c[i + 1] /\ Copy(c[i + 1])' = Copy(c[i + 1])
      BY <1>1, <1>4, <3>1
    <3> QED
      BY <1>4, <3>1, <3>2, <3>3
  <2>2. CASE i = k
    BY <1>0, <1>1, <1>3, <1>4, <2>2
  <2>3. CASE i = k + 1
    <3>1. i \in k + 1 .. n /\ k \in 1 .. n - 1 /\ i \in 1 .. n
      BY <1>0, <2>3
    <3>2. id[c[i]] + Copy(c[i]) = id[c[k]] + 1
      BY <1>5, <2>3, <3>1
    <3> QED
      BY <1>1, <1>4, <2>3, <3>1, <3>2
  <2>4. CASE i > k + 1
    <3>1. i \in k + 1 .. n /\ i - 1 \in k + 1 .. n /\ i \in 1 .. n /\ i - 1 \in 1 .. n - 1
          /\ i - 1 \in 1 .. n /\ (i - 1) + 1 = i
      BY <1>0, <2>4
    <3>2. d[i] = c[i - 1] /\ d[i + 1] = c[i]
      BY <1>1, <3>1
    <3>3. id[c[i]] + Copy(c[i]) = id[c[i - 1]] + 1
      BY <1>5, <3>1
    <3>4. /\ id'[d[i + 1]] = id[c[i]] /\ id'[d[i]] = id[c[i - 1]]
          /\ Copy(d[i + 1])' = Copy(c[i])
      BY <1>4, <3>1, <3>2
    <3> QED
      BY <3>3, <3>4
  <2> QED
    BY <1>0, <2>1, <2>2, <2>3, <2>4
<1>7. Ranges[1][2] <= id'[d[1]] + cloned' \/ id'[d[1]] + cloned' + Copy(d[1])' = Len(out')
  <2>1. 1 \in 1 .. k /\ 1 \in 1 .. n
    BY <1>0
  <2>2. Ranges[1][2] <= id[c[1]] + cloned \/ id[c[1]] + cloned + Copy(c[1]) = Len(out)
    BY <1>0 DEF Numbered, Behind
  <2> QED
    BY <1>1, <1>2, <1>4, <2>1, <2>2
<1>8. id'[d[n + 1]] = id[c[n]]
  <2>1. CASE k = n
    BY <1>1, <1>4, <2>1
  <2>2. CASE k # n
    <3>1. n \in k + 1 .. n /\ n \in 1 .. n
      BY <1>0, <2>2
    <3> QED
      BY <1>1, <1>4, <3>1
  <2> QED
    BY <2>1, <2>2
<1>9. /\ pc'[Importer] \in {"loop", "register"} => id'[d[n + 1]] + 1 = nextId'
      /\ pc'[Importer] = "fill" => id'[d[n + 1]] = nextId'
  <2>1. n # 0
    BY <1>0
  <2> QED
    BY <1>0, <1>2, <1>8, <2>1 DEF Numbered
<1>10. n + 1 # 0
  BY <1>0
<1> QED
  BY <1>6, <1>7, <1>9, <1>10 DEF Numbered, Behind, d

\* The head leaves for the output, or because it is behind the range.
LEMMA LeaveNumbered ==
    ASSUME Typed, Typed', NEW n, NEW c, Woven(n, c), Numbered(n, c),
           head \in Frames, UNCHANGED <<id, nextId>>, pc'[Importer] = pc[Importer],
           Doubles' = Doubles \ {head}, cloned' = cloned + Copy(head),
           out' = IF Behind(id[head]) THEN out ELSE Append(out, id[head])
    PROVE  Numbered(n - 1, Less1(n, c, 1))'
<1> DEFINE d == Less1(n, c, 1)
<1>0. /\ n \in Nat /\ c \in [1 .. n -> Frames] /\ n > 0 /\ head = c[1] /\ 1 \in 1 .. n
      /\ \A i \in 2 .. n : c[i] # c[1]
  BY PointerFacts DEF Woven, Linked
<1>1. \A i \in 1 .. n - 1 : d[i] = c[i + 1] /\ i + 1 \in 2 .. n
  BY <1>0 DEF Less1
<1> HIDE DEF d
<1>2. \A i \in 2 .. n : Copy(c[i])' = Copy(c[i])
  BY <1>0 DEF Copy
<1>3. /\ id[c[1]] \in Nat /\ cloned \in Nat /\ cloned' \in Nat /\ nextId \in Nat
      /\ Len(out) \in Nat /\ Ranges[1][2] \in Nat /\ Copy(c[1]) \in Nat
      /\ \A i \in 1 .. n : id[c[i]] \in Nat /\ Copy(c[i]) \in Nat
      /\ id' = id /\ nextId' = nextId /\ cloned' = cloned + Copy(c[1])
  BY <1>0, CountTypes DEF Typed, TypeOK
<1>a. \A i \in 1 .. n : id[c[1]] <= id[c[i]] /\ id[c[i]] <= nextId
  BY <1>0 DEF Woven, Sorted
<1>4. \A i \in 1 .. (n - 1) - 1 : id'[d[i + 1]] + Copy(d[i + 1])' = id'[d[i]] + 1
  <2> TAKE i \in 1 .. (n - 1) - 1
  <2>1. /\ i \in 1 .. n - 1 /\ i + 1 \in 1 .. n - 1 /\ i + 1 \in 2 .. n
        /\ (i + 1) + 1 \in 2 .. n
    BY <1>0
  <2>2. id[c[(i + 1) + 1]] + Copy(c[(i + 1) + 1]) = id[c[i + 1]] + 1
    BY <2>1 DEF Numbered
  <2> QED
    BY <1>1, <1>2, <1>3, <2>1, <2>2
<1>5. n - 1 > 0 => /\ d[1] = c[2] /\ d[n - 1] = c[n] /\ 2 \in 2 .. n /\ 2 \in 1 .. n
                   /\ id[c[2]] + Copy(c[2]) = id[c[1]] + 1
  <2> HAVE n - 1 > 0
  <2>1. /\ 1 \in 1 .. n - 1 /\ n - 1 \in 1 .. n - 1 /\ 2 \in 2 .. n /\ 2 \in 1 .. n
        /\ (n - 1) + 1 = n /\ 1 + 1 = 2
    BY <1>0
  <2>2. id[c[1 + 1]] + Copy(c[1 + 1]) = id[c[1]] + 1
    BY <2>1 DEF Numbered
  <2> QED
    BY <1>1, <2>1, <2>2
<1>6. \/ out' = out /\ Ranges[1][2] <= id[c[1]] + cloned
      \/ Len(out') = Len(out) + 1 /\ id[c[1]] + cloned + Copy(c[1]) = Len(out)
  <2>1. CASE Behind(id[c[1]])
    BY <1>0, <2>1 DEF Behind
  <2>2. CASE ~Behind(id[c[1]])
    <3>1. out' = Append(out, id[c[1]])
      BY <1>0, <2>2
    <3>2. Len(out') = Len(out) + 1
      BY <1>3, <3>1, CountTypes
    <3> QED
      BY <1>0, <2>2, <3>2 DEF Numbered
  <2> QED
    BY <2>1, <2>2
<1>7. n - 1 > 0 => \/ Ranges[1][2] <= id'[d[1]] + cloned'
                   \/ id'[d[1]] + cloned' + Copy(d[1])' = Len(out')
  <2> HAVE n - 1 > 0
  <2>1. id'[d[1]] = id[c[2]] /\ Copy(d[1])' = Copy(c[2])
    BY <1>2, <1>3, <1>5
  <2>2. id[c[2]] \in Nat /\ Copy(c[2]) \in Nat /\ id[c[1]] <= id[c[2]]
    BY <1>3, <1>a, <1>5
  <2>3. CASE Ranges[1][2] <= id[c[1]] + cloned
    <3>1. Ranges[1][2] <= id[c[2]] + cloned'
      <4> DEFINE e == Ranges[1][2]
                 m == Copy(c[1])
                 x == id[c[1]]
                 y == id[c[2]]
      <4>0. /\ e \in Nat /\ x \in Nat /\ y \in Nat /\ cloned \in Nat /\ m \in Nat
            /\ e <= x + cloned /\ x <= y /\ cloned' = cloned + m
        BY <1>3, <2>2, <2>3
      <4> HIDE DEF e, m, x, y
      <4> QED
        BY <4>0 DEF e, y
    <3> QED
      BY <2>1, <3>1
  <2>4. CASE Len(out') = Len(out) + 1 /\ id[c[1]] + cloned + Copy(c[1]) = Len(out)
    <3>1. id[c[2]] + cloned' + Copy(c[2]) = Len(out')
      <4> DEFINE m == Copy(c[1])
                 k == Copy(c[2])
                 x == id[c[1]]
                 y == id[c[2]]
                 o == Len(out)
      <4>0. x \in Nat /\ y \in Nat /\ cloned \in Nat /\ o \in Nat /\ m \in Nat /\ k \in Nat
        BY <1>3, <2>2
      <4>1. x + cloned + m = o /\ y + k = x + 1
        BY <1>5, <2>4
      <4> HIDE DEF m, k, x, y, o
      <4>2. y + (cloned + m) + k = o + 1
        BY <4>0, <4>1
      <4> QED
        BY <1>3, <2>4, <4>2 DEF m, k, x, y, o
    <3> QED
      BY <2>1, <3>1
  <2> QED
    BY <1>6, <2>3, <2>4
<1>8. pc'[Importer] \in {"loop", "register"} =>
          IF n - 1 = 0 THEN Ranges[1][2] <= nextId' + cloned' \/ nextId' + cloned' = Len(out')
          ELSE id'[d[n - 1]] + 1 = nextId'
  <2> HAVE pc'[Importer] \in {"loop", "register"}
  <2>1. id[c[n]] + 1 = nextId
    BY <1>0 DEF Numbered
  <2>2. CASE n - 1 = 0
    <3>1. id[c[1]] + 1 = nextId
      BY <1>0, <2>1, <2>2
    <3>2. CASE Ranges[1][2] <= id[c[1]] + cloned
      <4>1. Ranges[1][2] <= nextId + cloned'
        <5> DEFINE e == Ranges[1][2]
                   m == Copy(c[1])
                   x == id[c[1]]
        <5>0. /\ e \in Nat /\ x \in Nat /\ cloned \in Nat /\ m \in Nat
              /\ e <= x + cloned /\ nextId = x + 1 /\ cloned' = cloned + m
          BY <1>3, <3>1, <3>2
        <5> HIDE DEF e, m, x
        <5> QED
          BY <5>0 DEF e
      <4> QED
        BY <1>3, <2>2, <4>1
    <3>3. CASE Len(out') = Len(out) + 1 /\ id[c[1]] + cloned + Copy(c[1]) = Len(out)
      <4> DEFINE m == Copy(c[1])
                 x == id[c[1]]
                 o == Len(out)
      <4>0. x \in Nat /\ cloned \in Nat /\ m \in Nat /\ o \in Nat
        BY <1>3
      <4>1. x + cloned + m = o /\ nextId = x + 1
        BY <3>1, <3>3
      <4>2. Len(out') = o + 1 /\ cloned' = cloned + m
        BY <1>3, <3>3
      <4> HIDE DEF m, x, o
      <4>3. nextId + (cloned + m) = o + 1
        BY <4>0, <4>1
      <4> QED
        BY <1>3, <2>2, <4>2, <4>3
    <3> QED
      BY <1>6, <3>2, <3>3
  <2>3. CASE n - 1 # 0
    <3>1. n - 1 > 0
      BY <1>0, <2>3
    <3> QED
      BY <1>3, <1>5, <2>1, <2>3, <3>1
  <2> QED
    BY <2>2, <2>3
<1>9. pc'[Importer] = "fill" /\ n - 1 > 0 => id'[d[n - 1]] = nextId'
  <2> HAVE pc'[Importer] = "fill" /\ n - 1 > 0
  <2>1. id[c[n]] = nextId
    BY <1>0 DEF Numbered
  <2> QED
    BY <1>3, <1>5, <2>1
<1> QED
  BY <1>4, <1>7, <1>8, <1>9 DEF Numbered, Behind, d

\* The head was encoded and stays, to be encoded again.
LEMMA AgainNumbered ==
    ASSUME Typed, Typed', NEW n, NEW c, Woven(n, c), Numbered(n, c),
           head \in Frames, UNCHANGED <<id, nextId, cloned>>, pc'[Importer] = pc[Importer],
           Copy(head) = 0, Doubles' = Doubles \cup {head},
           out' = IF Behind(id[head]) THEN out ELSE Append(out, id[head])
    PROVE  Numbered(n, c)'
<1>0. /\ n \in Nat /\ c \in [1 .. n -> Frames] /\ n > 0 /\ n # 0 /\ head = c[1] /\ 1 \in 1 .. n
      /\ \A i \in 2 .. n : c[i] # c[1]
  BY PointerFacts DEF Woven, Linked
<1>1. Copy(c[1])' = 1 /\ \A i \in 2 .. n : Copy(c[i])' = Copy(c[i])
  BY <1>0 DEF Copy
<1>2. /\ id[c[1]] \in Nat /\ cloned \in Nat /\ Len(out) \in Nat /\ Ranges[1][2] \in Nat
      /\ id' = id /\ nextId' = nextId /\ cloned' = cloned
  BY <1>0, CountTypes
<1>3. \A i \in 1 .. n - 1 : id'[c[i + 1]] + Copy(c[i + 1])' = id'[c[i]] + 1
  <2> TAKE i \in 1 .. n - 1
  <2>1. i + 1 \in 2 .. n
    BY <1>0
  <2> QED
    BY <1>1, <1>2, <2>1 DEF Numbered
<1>4. Ranges[1][2] <= id'[c[1]] + cloned' \/ id'[c[1]] + cloned' + Copy(c[1])' = Len(out')
  <2>1. CASE Behind(id[c[1]])
    BY <1>2, <2>1 DEF Behind
  <2>2. CASE ~Behind(id[c[1]])
    <3>1. out' = Append(out, id[c[1]]) /\ id[c[1]] + cloned + Copy(c[1]) = Len(out)
      BY <1>0, <2>2 DEF Numbered
    <3>2. Len(out') = Len(out) + 1 /\ Copy(c[1]) = 0
      BY <1>0, <1>2, <3>1, CountTypes
    <3> QED
      BY <1>1, <1>2, <3>1, <3>2
  <2> QED
    BY <2>1, <2>2
<1> QED
  BY <1>0, <1>2, <1>3, <1>4 DEF Numbered, Behind

-----------------------------------------------------------------------------
(* What a step of each thread does to the copies.                           *)

SameUse == \A f \in Frames : status'[f] = "NULL" <=> status[f] = "NULL"

\* Where flags change on a frame that stays in use, and no mark of a copy with them.
LEMMA SameDoubles ==
    ASSUME BufferTypeOK, SameUse, UNCHANGED clone, NEW f,
           \/ UNCHANGED attributes
           \/ \E a : /\ attributes' = [attributes EXCEPT ![f] = a]
                     /\ "WAS_CLONED" \in a <=> "WAS_CLONED" \in attributes[f]
    PROVE  Doubles' = Doubles
<1>1. \A g \in Frames : "WAS_CLONED" \in attributes'[g] <=> "WAS_CLONED" \in attributes[g]
  <2> TAKE g \in Frames
  <2>1. CASE UNCHANGED attributes
    BY <2>1
  <2>2. ASSUME NEW a, attributes' = [attributes EXCEPT ![f] = a],
               "WAS_CLONED" \in a <=> "WAS_CLONED" \in attributes[f]
        PROVE  "WAS_CLONED" \in attributes'[g] <=> "WAS_CLONED" \in attributes[g]
    <3>1. CASE g = f
      BY <2>2, <3>1 DEF BufferTypeOK
    <3>2. CASE g # f
      <4>1. attributes'[g] = attributes[g]
        BY <2>2, <3>2 DEF BufferTypeOK
      <4> QED
        BY <4>1
    <3> QED
      BY <3>1, <3>2
  <2> QED
    BY <2>1, <2>2
<1> QED
  BY <1>1 DEF SameUse, Doubles

\* Filters mark no frame as a copy, and take the mark from none.
LEMMA FiltersKeepCopies ==
    ASSUME NEW slots \in SUBSET Slots, NEW a, NEW b \in Filtered(slots, a)
    PROVE  /\ "WAS_CLONED" \in b <=> "WAS_CLONED" \in a
           /\ {"IS_CLONED", "WAS_CLONED"} \subseteq b => {"IS_CLONED", "WAS_CLONED"} \subseteq a
<1>1. "WAS_CLONED" \in b => "WAS_CLONED" \in a
  BY FiltersDoNotMark, FiltersMarkOnly
<1>2. PICK n : /\ b = a \cup n
               /\ "WAS_CLONED" \in a => "IS_CLONED" \notin n
  BY DEF Filtered
<1> QED
  BY <1>1, <1>2

\* The importer registers a frame, or goes its way.
LEMMA ImporterCounts ==
    ASSUME Typed, Apart, NoCopyCloned, ImporterStep
    PROVE  /\ UNCHANGED <<cloned, range, dropped, out>> /\ Doubles' = Doubles
           /\ pc'[Encoder] = pc[Encoder]
           /\ \/ /\ \E f \in Frames : Enters(f)
                 /\ UNCHANGED nextId /\ pc[Importer] = "register" /\ pc'[Importer] = "fill"
              \/ UNCHANGED <<chain, id>> /\ SameUse /\ Turns
<1> USE ThreadFacts, StageFacts
<1>0. /\ BufferTypeOK /\ pc \in [Threads -> ImporterPC \cup WorkerPC \cup EncoderPC]
      /\ cur \in [Threads -> FramePtr] /\ id \in [Frames -> Nat]
      /\ attributes \in [Frames -> SUBSET Attributes] /\ status \in [Frames -> Status]
  BY DEF Typed, TypeOK, BufferTypeOK
<1>1. UNCHANGED <<cloned, range, dropped, out>> /\ pc'[Encoder] = pc[Encoder]
  <2>1. UNCHANGED <<cloned, range, dropped, out>> /\ \E l : Goto(Importer, l)
    BY DEF ImporterStep, ImportLoop, ImportRegister, ImportFill, ImportEnd, AfterClaim,
       control, history
  <2> QED
    BY <1>0, <2>1 DEF Goto
<1>2. CASE ImportLoop \/ ImportEnd
  <2>1. /\ UNCHANGED <<status, clone, attributes, chain, id, nextId>>
        /\ \/ pc[Importer] = "loop" /\ (Goto(Importer, "register") \/ Goto(Importer, "exit"))
           \/ Goto(Importer, "exit")
    BY <1>2 DEF ImportLoop, ImportEnd, At, fbvars, ring, control
  <2>2. SameUse /\ Turns
    BY <1>0, <2>1 DEF SameUse, Goto, Turns
  <2>3. Doubles' = Doubles
    BY <1>0, <2>1, <2>2, SameDoubles
  <2> QED
    BY <1>1, <2>1, <2>2, <2>3
<1>3. CASE ImportRegister
  <2>1. /\ pc[Importer] = "register" /\ UNCHANGED nextId
        /\ AfterClaim(Importer, "exit", "fill")
        /\ \/ Sleep(Importer, "import") \/ GiveUp(Importer)
           \/ \E f \in Frames : ClaimEmpty(Importer, nextId, f)
    BY <1>3 DEF ImportRegister, Register, At, control
  <2>2. CASE Sleep(Importer, "import") \/ GiveUp(Importer)
    <3>1. UNCHANGED <<status, clone, attributes, chain, id>> /\ cur'[Importer] = NoFrame
      BY <1>0, <2>1, <2>2 DEF Sleep, GiveUp, Return, ring, Typed, Held
    <3>2. pc'[Importer] \in {"register", "exit"}
      BY <1>0, <2>1, <3>1 DEF AfterClaim, Goto
    <3>3. SameUse /\ Turns
      BY <2>1, <3>1, <3>2 DEF SameUse, Turns
    <3>4. Doubles' = Doubles
      BY <1>0, <3>1, <3>3, SameDoubles
    <3> QED
      BY <1>1, <3>1, <3>3, <3>4
  <2>3. ASSUME NEW f \in Frames, ClaimEmpty(Importer, nextId, f)
        PROVE  /\ Enters(f) /\ Doubles' = Doubles /\ pc'[Importer] = "fill"
    <3>1. status[f] = "NULL" /\ Enters(f)
      BY <1>0, <1>1, <2>3, FreeSlot DEF ClaimEmpty, Enters, Restatus
    <3>2. cur'[Importer] = f /\ cv'[Importer] = "none"
      BY <1>0, <2>3 DEF ClaimEmpty, Return, BufferTypeOK
    <3>3. pc'[Importer] = "fill"
      BY <1>0, <2>1, <3>2, PointerFacts DEF AfterClaim, Goto, Conditions
    <3>4. /\ \A w \in Workers : clone[w] # f
          /\ attributes' = [attributes EXCEPT ![f] = {}] /\ UNCHANGED clone
          /\ status' = [status EXCEPT ![f] = "EMPTY"]
      BY <2>3, <3>1, PointerFacts DEF ClaimEmpty, Apart
    <3>5. Doubles' = Doubles
      BY <1>0, <3>1, <3>4 DEF Doubles
    <3> QED
      BY <3>1, <3>3, <3>5
  <2> QED
    BY <1>1, <2>1, <2>2, <2>3
<1>4. CASE ImportFill
  <2> DEFINE f == cur[Importer]
  <2>1. pc[Importer] = "fill" /\ f \in Frames /\ status[f] = "EMPTY"
    BY <1>0, <1>4 DEF ImportFill, At, Typed, Held, Apart, FramePtr
  <2>2. /\ status' = [status EXCEPT ![f] = AfterImport] /\ UNCHANGED <<id, chain, clone>>
    BY <1>4 DEF ImportFill, PushNext
  <2>3. /\ \/ nextId' = nextId + 1 /\ Goto(Importer, "loop")
           \/ Goto(Importer, "end")
        /\ \E a : /\ attributes' = [attributes EXCEPT ![f] = a]
                  /\ \/ a \in {{}, {"OUT_OF_RANGE"}, {"END_OF_STREAM"}}
                     \/ \E b \in {{}, {"OUT_OF_RANGE"}} : a \in Filtered({"PRE_S"}, b)
    BY <1>4 DEF ImportFill
  <2>4. \A a : \/ a \in {{}, {"OUT_OF_RANGE"}, {"END_OF_STREAM"}}
               \/ \E b \in {{}, {"OUT_OF_RANGE"}} : a \in Filtered({"PRE_S"}, b)
              => "WAS_CLONED" \notin a
    BY FiltersKeepCopies DEF Slots
  <2>5. SameUse /\ Turns
    <3>1. SameUse
      BY <1>0, <2>1, <2>2 DEF SameUse, AfterImport
    <3>2. Turns
      BY <1>0, <2>1, <2>3 DEF Turns, Goto
    <3> QED
      BY <3>1, <3>2
  <2>6. "WAS_CLONED" \notin attributes[f]
    BY <2>1 DEF NoCopyCloned
  <2>7. Doubles' = Doubles
    BY <1>0, <2>2, <2>3, <2>4, <2>5, <2>6, SameDoubles
  <2> QED
    BY <1>1, <2>2, <2>5, <2>7
<1> QED
  BY <1>2, <1>3, <1>4 DEF ImporterStep

\* A worker drops a frame, puts a copy behind its frame, or leaves the chain alone.
LEMMA WorkerCounts ==
    ASSUME Typed, Apart, NEW w \in Workers, WorkerStep(w)
    PROVE  /\ UNCHANGED <<cloned, range, out, nextId>>
           /\ pc'[Encoder] = pc[Encoder] /\ pc'[Importer] = pc[Importer]
           /\ \/ dropped' # {}
              \/ /\ dropped' = dropped
                 /\ \E p \in Frames : Copies(cur[w], p) /\ Doubles' = Doubles \cup {p}
              \/ /\ dropped' = dropped
                 /\ UNCHANGED <<chain, id>> /\ SameUse /\ Doubles' = Doubles
<1> USE ThreadFacts, StageFacts
<1>0. /\ BufferTypeOK /\ pc \in [Threads -> ImporterPC \cup WorkerPC \cup EncoderPC]
      /\ cur \in [Threads -> FramePtr] /\ id \in [Frames -> Nat]
      /\ attributes \in [Frames -> SUBSET Attributes] /\ status \in [Frames -> Status]
      /\ clone \in [Workers -> FramePtr]
  BY DEF Typed, TypeOK, BufferTypeOK
<1>1. /\ UNCHANGED <<cloned, range, out, nextId>>
      /\ pc'[Encoder] = pc[Encoder] /\ pc'[Importer] = pc[Importer]
  <2>1. UNCHANGED <<cloned, range, out, nextId>> /\ \E l : Goto(w, l)
    BY DEF WorkerStep, WorkerCheck, WorkerReserve, WorkerHalt, WorkerFrame, WorkerDup,
       WorkerQueue, WorkerPost, WorkerPush, WorkerRemove, AfterClaim, control, history
  <2> QED
    BY <1>0, <2>1 DEF Goto
<1>2. ASSUME pc[w] \in Working PROVE cur[w] \in Frames /\ status[cur[w]] = "LOCKED"
  BY <1>2, WorkerFrameIn, PointerFacts DEF Apart
<1>3. CASE WorkerCheck(w) \/ WorkerHalt(w)
  <2>1. UNCHANGED <<status, clone, attributes, chain, id, dropped>>
    BY <1>3 DEF WorkerCheck, WorkerHalt, fbvars, ring, history
  <2>2. SameUse
    BY <2>1 DEF SameUse
  <2> QED
    BY <1>0, <1>1, <2>1, <2>2, SameDoubles
<1>4. CASE WorkerReserve(w)
  <2>1. /\ UNCHANGED <<clone, attributes, chain, id, dropped>>
        /\ \/ status' = status
           \/ \E f \in Frames : status[f] = "WAIT" /\ status' = [status EXCEPT ![f] = "LOCKED"]
    BY <1>4 DEF WorkerReserve, Reserve, LockWaiting, WaitingAt, Sleep, GiveUp, ring, history
  <2>2. SameUse
    BY <1>0, <2>1 DEF SameUse
  <2> QED
    BY <1>0, <1>1, <2>1, <2>2, SameDoubles
<1>5. CASE WorkerFrame(w) \/ WorkerPost(w)
  <2>1. UNCHANGED <<status, clone, chain, id, dropped>>
    BY <1>5 DEF WorkerFrame, WorkerPost, ring, history
  <2>2. \/ UNCHANGED attributes
        \/ \E a \in Filtered({"PRE_M"}, attributes[cur[w]])
                     \cup Filtered({"POST_M"}, attributes[cur[w]]) :
              attributes' = [attributes EXCEPT ![cur[w]] = a]
    BY <1>5 DEF WorkerFrame, WorkerPost
  <2>3. \A a \in Filtered({"PRE_M"}, attributes[cur[w]])
                 \cup Filtered({"POST_M"}, attributes[cur[w]]) :
           "WAS_CLONED" \in a <=> "WAS_CLONED" \in attributes[cur[w]]
    BY FiltersKeepCopies DEF Slots
  <2>4. SameUse
    BY <2>1 DEF SameUse
  <2>5. Doubles' = Doubles
    BY <1>0, <2>1, <2>2, <2>3, <2>4, SameDoubles
  <2> QED
    BY <1>1, <2>1, <2>4, <2>5
<1>6. CASE WorkerDup(w)
  <2>1. /\ pc[w] = "dup" /\ cur[w] \in Frames /\ status[cur[w]] = "LOCKED"
        /\ clone[w] = NoFrame /\ UNCHANGED <<out, dropped>>
    BY <1>2, <1>6 DEF WorkerDup, At, Working, history, Typed, Held
  <2>2. \/ /\ UNCHANGED <<ring, chain, attributes, id>>
           /\ clone' = clone \/ clone' = [clone EXCEPT ![w] = NoFrame]
        \/ \E p \in Frames : ClaimCopy(w, cur[w], p)
    BY <1>6 DEF WorkerDup, Dup, Sleep
  <2>3. CASE /\ UNCHANGED <<ring, chain, attributes, id>>
             /\ clone' = clone \/ clone' = [clone EXCEPT ![w] = NoFrame]
    <3>1. UNCHANGED <<status, clone, attributes>> /\ SameUse
      BY <1>0, <2>1, <2>3 DEF ring, SameUse
    <3> QED
      BY <1>0, <1>1, <2>1, <2>3, <3>1, SameDoubles
  <2>4. ASSUME NEW p \in Frames, ClaimCopy(w, cur[w], p)
        PROVE  Copies(cur[w], p) /\ Doubles' = Doubles \cup {p}
    <3>1. Copies(cur[w], p)
      BY <1>0, <2>1, <2>4, FreeSlot DEF ClaimCopy, Copies, Restatus
    <3>2. /\ status[p] = "NULL" /\ status' = [status EXCEPT ![p] = "LOCKED"]
          /\ attributes' = [attributes EXCEPT ![p] = attributes[cur[w]]]
          /\ clone' = [clone EXCEPT ![w] = p]
      BY <2>1, <2>4, <3>1 DEF Copies, Restatus, ClaimCopy
    <3>3. p \in Doubles'
      BY <1>0, <3>2 DEF Doubles
    <3>4. \A f \in Frames : f # p => (f \in Doubles' <=> f \in Doubles)
      BY <1>0, <2>1, <3>2, PointerFacts DEF Doubles
    <3> QED
      BY <3>1, <3>3, <3>4 DEF Doubles
  <2> QED
    BY <1>1, <2>1, <2>2, <2>3, <2>4
<1>7. CASE WorkerQueue(w)
  <2>1. /\ pc[w] = "queue" /\ cur[w] \in Frames /\ clone[w] \in Frames
        /\ status[clone[w]] = "LOCKED" /\ cur[w] # clone[w]
    BY <1>0, <1>2, <1>7 DEF WorkerQueue, At, Typed, Held, Apart, FramePtr, Working
  <2>2. /\ UNCHANGED <<chain, id, dropped>>
        /\ status' = [status EXCEPT ![clone[w]] = "WAIT"]
        /\ clone' = [clone EXCEPT ![w] = NoFrame]
        /\ attributes' = [attributes EXCEPT
                            ![clone[w]] = (@ \ {"IS_CLONED"}) \cup {"WAS_CLONED"},
                            ![cur[w]] = @ \ {"IS_CLONED"}]
    BY <1>7 DEF WorkerQueue, PushNext, history
  <2>3. SameUse
    BY <1>0, <2>1, <2>2 DEF SameUse
  <2>4. clone[w] \in Doubles /\ "WAS_CLONED" \in attributes'[clone[w]]
    BY <1>0, <2>1, <2>2 DEF Doubles
  <2>5. \A f \in Frames : f # clone[w] =>
           ("WAS_CLONED" \in attributes'[f] <=> "WAS_CLONED" \in attributes[f])
    BY <1>0, <2>1, <2>2
  <2>6. \A f \in Frames, v \in Workers : f # clone[w] => (clone'[v] = f <=> clone[v] = f)
    BY <1>0, <2>1, <2>2, PointerFacts
  <2>7. Doubles' = Doubles
    BY <2>1, <2>3, <2>4, <2>5, <2>6 DEF Doubles, SameUse
  <2> QED
    BY <1>1, <2>2, <2>3, <2>7
<1>8. CASE WorkerPush(w)
  <2>1. /\ cur[w] \in Frames /\ status[cur[w]] = "LOCKED"
        /\ UNCHANGED <<attributes, clone, chain, id, dropped>>
        /\ status' = [status EXCEPT ![cur[w]] = "READY"]
    BY <1>2, <1>8 DEF WorkerPush, PushNext, At, Working, history
  <2>2. SameUse
    BY <1>0, <2>1 DEF SameUse
  <2> QED
    BY <1>0, <1>1, <2>1, <2>2, SameDoubles
<1>9. CASE WorkerRemove(w)
  BY <1>1, <1>9 DEF WorkerRemove, Drop
<1> QED
  BY <1>3, <1>4, <1>5, <1>6, <1>7, <1>8, <1>9 DEF WorkerStep

\* Outside the disposal of a frame the encoder's loop changes no number, or it drops one.
LEMMA LoopCounts ==
    ASSUME Typed, Apart, EncoderAtHead,
           EncoderCheck \/ EncoderAcquire \/ EncoderProcess, Media = "video"
    PROVE  /\ UNCHANGED <<range, out, nextId>> /\ pc'[Importer] = pc[Importer]
           /\ \/ dropped' # {}
              \/ /\ UNCHANGED <<dropped, cloned, chain, id>>
                 /\ SameUse /\ Doubles' = Doubles
<1> USE ThreadFacts, StageFacts
<1>0. /\ BufferTypeOK /\ pc \in [Threads -> ImporterPC \cup WorkerPC \cup EncoderPC]
  BY DEF Typed, TypeOK
<1>1. UNCHANGED <<range, out, nextId>> /\ pc'[Importer] = pc[Importer]
  <2>1. UNCHANGED <<range, out, nextId>> /\ \E l : Goto(Encoder, l)
    BY DEF EncoderCheck, EncoderAcquire, EncoderProcess, AfterClaim, control, history
  <2> QED
    BY <1>0, <2>1 DEF Goto
<1>2. CASE EncoderCheck \/ EncoderAcquire
  <2>1. UNCHANGED <<status, clone, attributes, chain, id, dropped, cloned>>
    BY <1>2 DEF EncoderCheck, EncoderAcquire, Retrieve, Sleep, GiveUp, fbvars, ring, control,
       history
  <2>2. SameUse
    BY <2>1 DEF SameUse
  <2> QED
    BY <1>0, <1>1, <2>1, <2>2, SameDoubles
<1>3. CASE EncoderProcess
  <2>1. PICK a : /\ \/ a = attributes[cur[Encoder]]
                    \/ a \in Filtered(EncoderSlots, attributes[cur[Encoder]])
                 /\ \/ dropped' # {}
                    \/ /\ attributes' = [attributes EXCEPT ![cur[Encoder]] = a \ {"END_OF_STREAM"}]
                       /\ UNCHANGED <<ring, chain, id, cloned, dropped>>
    BY <1>3 DEF EncoderProcess, Drop
  <2>2. "WAS_CLONED" \in a <=> "WAS_CLONED" \in attributes[cur[Encoder]]
    BY <2>1, FiltersKeepCopies DEF Slots, EncoderSlots
  <2>3. UNCHANGED clone
    BY <1>3 DEF EncoderProcess
  <2>4. CASE /\ attributes' = [attributes EXCEPT ![cur[Encoder]] = a \ {"END_OF_STREAM"}]
             /\ UNCHANGED <<ring, chain, id, cloned, dropped>>
    <3>1. SameUse
      BY <2>4 DEF SameUse, ring
    <3>2. \E x : /\ attributes' = [attributes EXCEPT ![cur[Encoder]] = x]
                 /\ "WAS_CLONED" \in x <=> "WAS_CLONED" \in attributes[cur[Encoder]]
      <4> WITNESS a \ {"END_OF_STREAM"}
      <4> QED
        BY <2>2, <2>4
    <3>3. Doubles' = Doubles
      BY <1>0, <2>3, <3>1, <3>2, SameDoubles
    <3> QED
      BY <1>1, <2>4, <3>1, <3>3
  <2> QED
    BY <1>1, <2>1, <2>4
<1> QED
  BY <1>2, <1>3

\* A video frame is encoded if it is in the range.  It leaves, and a copy is counted, or it
\* stays and is a copy from now on.
LEMMA DisposeCounts ==
    ASSUME Typed, Apart, EncoderAtHead, NoCopyCloned, Counting, EncoderDispose
    PROVE  /\ UNCHANGED <<range, dropped, nextId, id>> /\ pc'[Importer] = pc[Importer]
           /\ head \in Frames /\ status[head] = "READY"
           /\ out' = IF Behind(id[head]) THEN out ELSE Append(out, id[head])
           /\ \/ /\ Unlink(head) /\ status' = [status EXCEPT ![head] = "NULL"]
                 /\ cloned' = cloned + Copy(head) /\ Doubles' = Doubles \ {head}
              \/ /\ UNCHANGED <<chain, status, cloned>>
                 /\ Copy(head) = 0 /\ Doubles' = Doubles \cup {head}
<1> USE ThreadFacts, StageFacts
<1>0. /\ BufferTypeOK /\ pc \in [Threads -> ImporterPC \cup WorkerPC \cup EncoderPC]
      /\ id \in [Frames -> Nat] /\ cloned \in Nat /\ Ranges[1][2] \in Nat
      /\ attributes \in [Frames -> SUBSET Attributes] /\ status \in [Frames -> Status]
      /\ clone \in [Workers -> FramePtr]
  BY CountTypes DEF Typed, TypeOK, BufferTypeOK
<1>1. /\ pc[Encoder] = "dispose" /\ cur[Encoder] = head /\ head \in Frames
      /\ status[head] = "READY"
  BY EncoderFrom, PointerFacts DEF EncoderDispose, At, Apart, EncoderAtHead
<1>2. /\ UNCHANGED <<range, dropped, nextId, clone>> /\ pc'[Importer] = pc[Importer]
  BY <1>0 DEF EncoderDispose, Goto
<1>3. InRange(head) <=> ~Behind(id[head])
  <2>1. id[head] \in Nat
    BY <1>0, <1>1
  <2>2. InRange(head) <=> 0 <= id[head] + cloned /\ id[head] + cloned < Ranges[1][2]
    BY DEF Counting, InRange, First, Final, FrameNumber
  <2> QED
    BY <1>0, <2>1, <2>2 DEF Behind
<1>4. PICK n \in {{}, {"OUT_OF_RANGE"}} :
         /\ out' = IF InRange(head) THEN Append(out, id[head]) ELSE out
         /\ CountClone(attributes[head] \cup n)
         /\ attributes' = [attributes EXCEPT ![head] = Recloned(attributes[head] \cup n)]
         /\ IF "IS_CLONED" \in attributes[head] \cup n THEN UNCHANGED <<ring, chain, id, cv>>
            ELSE Remove(head)
  BY <1>1 DEF EncoderDispose, Counting
<1>5. out' = IF Behind(id[head]) THEN out ELSE Append(out, id[head])
  BY <1>3, <1>4
<1>6. /\ \A w \in Workers : clone[w] # head
      /\ Copy(head) = IF "WAS_CLONED" \in attributes[head] THEN 1 ELSE 0
  BY <1>0, <1>1, PointerFacts DEF Apart, Copy, Doubles
<1>7. CASE "IS_CLONED" \in attributes[head]
  <2>1. "WAS_CLONED" \notin attributes[head]
    BY <1>1, <1>7 DEF NoCopyCloned, Counting
  <2>2. UNCHANGED <<chain, status, id, cloned>>
    BY <1>4, <1>7, <2>1 DEF CountClone, ring
  <2>3. attributes'[head] = ((attributes[head] \cup n) \ {"IS_CLONED"}) \cup {"WAS_CLONED"}
    BY <1>0, <1>1, <1>4, <1>7 DEF Recloned
  <2>4. head \in Doubles'
    BY <1>1, <2>2, <2>3 DEF Doubles
  <2>5. \A f \in Frames : f # head => (f \in Doubles' <=> f \in Doubles)
    BY <1>0, <1>1, <1>2, <1>4, <2>2 DEF Doubles
  <2>6. Doubles' = Doubles \cup {head}
    BY <1>1, <2>4, <2>5 DEF Doubles
  <2> QED
    BY <1>1, <1>2, <1>5, <1>6, <2>1, <2>2, <2>6
<1>8. CASE "IS_CLONED" \notin attributes[head]
  <2>1. Remove(head)
    BY <1>4, <1>8
  <2>2. Unlink(head) /\ status' = [status EXCEPT ![head] = "NULL"] /\ id' = id
    BY <2>1 DEF Remove, RemoveFrame
  <2>3. cloned' = cloned + Copy(head)
    BY <1>0, <1>4, <1>6 DEF CountClone, Counting
  <2>4. \A f \in Frames : f # head => (f \in Doubles' <=> f \in Doubles)
    BY <1>0, <1>1, <1>2, <1>4, <2>2 DEF Doubles
  <2>5. head \notin Doubles'
    BY <1>0, <1>1, <2>2 DEF Doubles
  <2>6. Doubles' = Doubles \ {head}
    BY <2>4, <2>5 DEF Doubles
  <2> QED
    BY <1>1, <1>2, <1>5, <2>2, <2>3, <2>6
<1> QED
  BY <1>7, <1>8

-----------------------------------------------------------------------------
(* No video frame is a copy and to be copied.                               *)

Doubly(a) == {"IS_CLONED", "WAS_CLONED"} \subseteq a

\* The flags of the frame g become a, and no other frame becomes EMPTY.
LEMMA FlagsApart ==
    ASSUME BufferTypeOK, NoCopyCloned, NEW g, NEW a,
           attributes' = [attributes EXCEPT ![g] = a], Media = "video" => ~Doubly(a),
           \A f \in Frames : status'[f] = "EMPTY" =>
              IF f = g THEN "WAS_CLONED" \notin a ELSE status[f] = "EMPTY"
    PROVE  NoCopyCloned'
<1>1. \A f \in Frames : attributes'[f] = IF f = g THEN a ELSE attributes[f]
  BY DEF BufferTypeOK
<1> QED
  BY <1>1 DEF NoCopyCloned, Doubly

\* The flags stay, and no frame becomes EMPTY.
LEMMA FlagsStay ==
    ASSUME NoCopyCloned, UNCHANGED attributes,
           \A f \in Frames : status'[f] = "EMPTY" => status[f] = "EMPTY"
    PROVE  NoCopyCloned'
BY DEF NoCopyCloned

LEMMA ImporterApart == ASSUME Typed, Apart, NoCopyCloned, ImporterStep PROVE NoCopyCloned'
<1> USE ThreadFacts, StageFacts
<1>0. /\ BufferTypeOK /\ cur \in [Threads -> FramePtr] /\ status \in [Frames -> Status]
  BY DEF Typed, TypeOK, BufferTypeOK
<1>1. CASE ImportLoop \/ ImportEnd
  BY <1>1, FlagsStay DEF ImportLoop, ImportEnd, fbvars, ring
<1>2. CASE ImportRegister
  <2>1. \/ Sleep(Importer, "import") \/ GiveUp(Importer)
        \/ \E f \in Frames : ClaimEmpty(Importer, nextId, f)
    BY <1>2 DEF ImportRegister, Register
  <2>2. CASE Sleep(Importer, "import") \/ GiveUp(Importer)
    BY <2>2, FlagsStay DEF Sleep, GiveUp, ring
  <2>3. ASSUME NEW f \in Frames, ClaimEmpty(Importer, nextId, f) PROVE NoCopyCloned'
    <3>1. /\ attributes' = [attributes EXCEPT ![f] = {}]
          /\ \A g \in Frames : g # f => status'[g] = status[g]
      BY <1>0, <2>3 DEF ClaimEmpty
    <3>2. \A g \in Frames : attributes'[g] = IF g = f THEN {} ELSE attributes[g]
      BY <1>0, <3>1 DEF BufferTypeOK
    <3> QED
      BY <3>1, <3>2 DEF NoCopyCloned
  <2> QED
    BY <2>1, <2>2, <2>3
<1>3. CASE ImportFill
  <2> DEFINE f == cur[Importer]
  <2>1. status' = [status EXCEPT ![f] = AfterImport] /\ AfterImport # "EMPTY"
    BY <1>3 DEF ImportFill, PushNext, AfterImport
  <2>2. PICK a : /\ attributes' = [attributes EXCEPT ![f] = a]
                 /\ \/ a \in {{}, {"OUT_OF_RANGE"}, {"END_OF_STREAM"}}
                    \/ \E b \in {{}, {"OUT_OF_RANGE"}} : a \in Filtered({"PRE_S"}, b)
    BY <1>3 DEF ImportFill
  <2>3. "WAS_CLONED" \notin a
    BY <2>2, FiltersKeepCopies DEF Slots
  <2>4. ~Doubly(a)
    BY <2>3 DEF Doubly
  <2>5. \A g \in Frames : status'[g] = "EMPTY" => status[g] = "EMPTY"
    BY <1>0, <2>1
  <2> HIDE DEF f
  <2> QED
    BY <1>0, <2>2, <2>3, <2>4, <2>5, FlagsApart
<1> QED
  BY <1>1, <1>2, <1>3 DEF ImporterStep

LEMMA WorkerApart ==
    ASSUME Typed, Apart, NoCopyCloned, NEW w \in Workers, WorkerStep(w)
    PROVE  NoCopyCloned'
<1> USE ThreadFacts, StageFacts
<1>0. /\ BufferTypeOK /\ cur \in [Threads -> FramePtr] /\ status \in [Frames -> Status]
      /\ clone \in [Workers -> FramePtr]
  BY DEF Typed, TypeOK, BufferTypeOK
<1>1. ASSUME pc[w] \in Working
      PROVE  /\ cur[w] \in Frames /\ status[cur[w]] = "LOCKED"
             /\ Media = "video" => ~Doubly(attributes[cur[w]])
  BY <1>1, WorkerFrameIn, PointerFacts DEF Apart, NoCopyCloned, Doubly
<1>2. CASE WorkerCheck(w) \/ WorkerHalt(w)
  BY <1>2, FlagsStay DEF WorkerCheck, WorkerHalt, fbvars, ring
<1>3. CASE WorkerReserve(w)
  <2>1. /\ UNCHANGED attributes
        /\ status' = status \/ \E f : status' = [status EXCEPT ![f] = "LOCKED"]
    BY <1>3 DEF WorkerReserve, Reserve, LockWaiting, Sleep, GiveUp, ring
  <2>2. \A f \in Frames : status'[f] = "EMPTY" => status[f] = "EMPTY"
    BY <1>0, <2>1
  <2> QED
    BY <2>1, <2>2, FlagsStay
<1>4. CASE WorkerFrame(w) \/ WorkerPost(w)
  <2>1. /\ UNCHANGED status /\ cur[w] \in Frames /\ status[cur[w]] = "LOCKED"
        /\ Media = "video" => ~Doubly(attributes[cur[w]])
    BY <1>1, <1>4 DEF WorkerFrame, WorkerPost, ring, At, Working
  <2>2. \/ UNCHANGED attributes
        \/ \E a \in Filtered({"PRE_M"}, attributes[cur[w]])
                     \cup Filtered({"POST_M"}, attributes[cur[w]]) :
              attributes' = [attributes EXCEPT ![cur[w]] = a]
    BY <1>4 DEF WorkerFrame, WorkerPost
  <2>3. \A a \in Filtered({"PRE_M"}, attributes[cur[w]])
                 \cup Filtered({"POST_M"}, attributes[cur[w]]) :
           Media = "video" => ~Doubly(a)
    BY <2>1, FiltersKeepCopies DEF Slots, Doubly
  <2>4. CASE UNCHANGED attributes
    BY <2>1, <2>4, FlagsStay
  <2>5. ASSUME NEW a, attributes' = [attributes EXCEPT ![cur[w]] = a],
               Media = "video" => ~Doubly(a)
        PROVE  NoCopyCloned'
    <3>1. \A f \in Frames : status'[f] = "EMPTY" =>
             IF f = cur[w] THEN "WAS_CLONED" \notin a ELSE status[f] = "EMPTY"
      BY <2>1
    <3> QED
      BY <1>0, <2>5, <3>1, FlagsApart
  <2> QED
    BY <2>2, <2>3, <2>4, <2>5
<1>5. CASE WorkerDup(w)
  <2>1. cur[w] \in Frames /\ (Media = "video" => ~Doubly(attributes[cur[w]]))
        /\ status[cur[w]] = "LOCKED"
    BY <1>1, <1>5 DEF WorkerDup, At, Working
  <2>2. \/ UNCHANGED <<ring, attributes>>
        \/ \E p \in Frames : ClaimCopy(w, cur[w], p)
    BY <1>5 DEF WorkerDup, Dup, Sleep
  <2>3. CASE UNCHANGED <<ring, attributes>>
    BY <2>3, FlagsStay DEF ring
  <2>4. ASSUME NEW p \in Frames, ClaimCopy(w, cur[w], p) PROVE NoCopyCloned'
    <3>1. /\ attributes' = [attributes EXCEPT ![p] = attributes[cur[w]]]
          /\ status' = [status EXCEPT ![p] = "LOCKED"]
      BY <2>1, <2>4 DEF ClaimCopy
    <3>2. \A f \in Frames : status'[f] = "EMPTY" => f # p /\ status[f] = "EMPTY"
      BY <1>0, <3>1
    <3> QED
      BY <1>0, <2>1, <3>1, <3>2, FlagsApart
  <2> QED
    BY <2>2, <2>3, <2>4
<1>6. CASE WorkerQueue(w)
  <2>1. /\ cur[w] \in Frames /\ clone[w] \in Frames
        /\ status[clone[w]] = "LOCKED" /\ cur[w] # clone[w]
    BY <1>0, <1>1, <1>6 DEF WorkerQueue, At, Typed, Held, Apart, FramePtr, Working
  <2>2. /\ status' = [status EXCEPT ![clone[w]] = "WAIT"]
        /\ attributes' = [attributes EXCEPT
                            ![clone[w]] = (@ \ {"IS_CLONED"}) \cup {"WAS_CLONED"},
                            ![cur[w]] = @ \ {"IS_CLONED"}]
    BY <1>6 DEF WorkerQueue, PushNext
  <2>3. \A f \in Frames :
           \/ f = clone[w] /\ "IS_CLONED" \notin attributes'[f]
           \/ f = cur[w] /\ attributes'[f] = attributes[f] \ {"IS_CLONED"}
           \/ f # clone[w] /\ attributes'[f] = attributes[f]
    BY <1>0, <2>1, <2>2 DEF BufferTypeOK
  <2>4. \A f \in Frames : status'[f] = "EMPTY" => f # clone[w] /\ status[f] = "EMPTY"
    BY <1>0, <2>1, <2>2
  <2> QED
    BY <2>3, <2>4 DEF NoCopyCloned
<1>7. CASE WorkerPush(w) \/ WorkerRemove(w)
  <2>1. UNCHANGED attributes /\ \E s \in {"READY", "NULL"} : status' = [status EXCEPT ![cur[w]] = s]
    BY <1>7 DEF WorkerPush, PushNext, WorkerRemove, Drop, Remove, RemoveFrame
  <2>2. \A f \in Frames : status'[f] = "EMPTY" => status[f] = "EMPTY"
    BY <1>0, <2>1
  <2> QED
    BY <2>1, <2>2, FlagsStay
<1> QED
  BY <1>2, <1>3, <1>4, <1>5, <1>6, <1>7 DEF WorkerStep

LEMMA EncoderApart ==
    ASSUME Typed, Apart, EncoderAtHead, NoCopyCloned, EncoderStep
    PROVE  NoCopyCloned'
<1> USE ThreadFacts, StageFacts
<1>0. /\ BufferTypeOK /\ cur \in [Threads -> FramePtr] /\ status \in [Frames -> Status]
  BY DEF Typed, TypeOK, BufferTypeOK
<1>1. CASE EncoderStep /\ ~EncoderProcess /\ ~EncoderDispose
  <2>1. UNCHANGED attributes /\ (status' = status \/ \E f : status' = [status EXCEPT ![f] = "NULL"])
    BY <1>1 DEF EncoderStep, EncoderCheck, EncoderAcquire, NextRange, StopAll, StopInterrupt,
       CancelImport, CancelWake, JoinImporter, Flush, CreateImporter, PoolStop, PoolJoin,
       MainStep, Retrieve, Sleep, GiveUp, Interrupt, InterruptImport, Remove, RemoveFrame,
       fbvars, ring
  <2>2. \A f \in Frames : status'[f] = "EMPTY" => status[f] = "EMPTY"
    BY <1>0, <2>1
  <2> QED
    BY <2>1, <2>2, FlagsStay
<1>2. ASSUME pc[Encoder] \in {"process", "dispose"}
      PROVE  /\ cur[Encoder] \in Frames /\ status[cur[Encoder]] = "READY"
             /\ Media = "video" => ~Doubly(attributes[cur[Encoder]])
  BY <1>2, EncoderFrom, PointerFacts DEF Apart, NoCopyCloned, Doubly
<1>3. ASSUME NEW a, attributes' = [attributes EXCEPT ![cur[Encoder]] = a],
             Media = "video" => ~Doubly(a),
             cur[Encoder] \in Frames, status[cur[Encoder]] = "READY",
             status' = status \/ \E f : status' = [status EXCEPT ![f] = "NULL"]
      PROVE  NoCopyCloned'
  <2>1. \A f \in Frames : status'[f] = "EMPTY" => f # cur[Encoder] /\ status[f] = "EMPTY"
    BY <1>0, <1>3
  <2> QED
    BY <1>0, <1>3, <2>1, FlagsApart
<1>4. \A a : ~Doubly(a) => ~Doubly(Recloned(a)) /\ ~Doubly(a \ {"END_OF_STREAM"})
  BY DEF Doubly, Recloned
<1>5. CASE EncoderProcess
  <2>1. /\ cur[Encoder] \in Frames /\ status[cur[Encoder]] = "READY"
        /\ Media = "video" => ~Doubly(attributes[cur[Encoder]])
    BY <1>2, <1>5 DEF EncoderProcess, At
  <2>2. status' = status \/ \E f : status' = [status EXCEPT ![f] = "NULL"]
    BY <1>5 DEF EncoderProcess, Drop, Remove, RemoveFrame, ring
  <2>3. PICK a : /\ \/ a = attributes[cur[Encoder]]
                    \/ a \in Filtered(EncoderSlots, attributes[cur[Encoder]])
                 /\ \E b \in {Recloned(a), a \ {"END_OF_STREAM"}} :
                       attributes' = [attributes EXCEPT ![cur[Encoder]] = b]
    BY <1>5 DEF EncoderProcess
  <2>4. Media = "video" => ~Doubly(a)
    BY <2>1, <2>3, FiltersKeepCopies DEF Slots, EncoderSlots, Doubly
  <2>5. PICK b : attributes' = [attributes EXCEPT ![cur[Encoder]] = b]
                 /\ (Media = "video" => ~Doubly(b))
    BY <1>4, <2>3, <2>4
  <2> QED
    BY <1>3, <2>1, <2>2, <2>5
<1>6. CASE EncoderDispose
  <2>1. /\ cur[Encoder] \in Frames /\ status[cur[Encoder]] = "READY"
        /\ Media = "video" => ~Doubly(attributes[cur[Encoder]])
    BY <1>2, <1>6 DEF EncoderDispose, At
  <2>2. status' = status \/ \E f : status' = [status EXCEPT ![f] = "NULL"]
    BY <1>6 DEF EncoderDispose, Remove, RemoveFrame, ring
  <2>3. PICK n : /\ n \in {{}, {"OUT_OF_RANGE"}} \/ Media # "video"
                 /\ attributes' = [attributes EXCEPT
                                     ![cur[Encoder]] = Recloned(attributes[cur[Encoder]] \cup n)]
    <3>1. \E n : /\ n \in {{}, {"OUT_OF_RANGE"}} \/ Media = "audio"
                 /\ attributes' = [attributes EXCEPT
                                     ![cur[Encoder]] = Recloned(attributes[cur[Encoder]] \cup n)]
      BY <1>6 DEF EncoderDispose
    <3> QED
      BY <3>1
  <2>4. Media = "video" => ~Doubly(attributes[cur[Encoder]] \cup n)
    BY <2>1, <2>3 DEF Doubly
  <2>5. Media = "video" => ~Doubly(Recloned(attributes[cur[Encoder]] \cup n))
    BY <1>4, <2>4
  <2> QED
    BY <1>3, <2>1, <2>2, <2>3, <2>5
<1> QED
  BY <1>1, <1>5, <1>6

LEMMA NoCopyClonedNext ==
    ASSUME Typed, Apart, EncoderAtHead, NoCopyCloned, [Next]_vars PROVE NoCopyCloned'
<1>1. CASE SignalStep \/ UNCHANGED vars
  BY <1>1, FlagsStay DEF SignalStep, SignalRaise, SignalWake, Interrupt, vars, fbvars, ring
<1> QED
  BY <1>1, ImporterApart, WorkerApart, EncoderApart DEF Next, Terminated

-----------------------------------------------------------------------------
(* The invariant, the actions one by one.                                   *)

\* The main thread comes out of its loop into another range, and to a new importer there.
LEMMA MainRanges ==
    ASSUME Typed, LoopIsFirst, EncoderStep
    PROVE  /\ LoopIsFirst' /\ dropped \subseteq dropped'
           /\ range' = 1 => /\ range = 1
                            /\ EncoderCheck \/ EncoderAcquire \/ EncoderProcess \/ EncoderDispose
<1>1. range \in Nat \ {0} /\ range \in 1 .. Len(Ranges) + 1 /\ Len(Ranges) \in Nat \ {0}
  BY NumberTypes
<1>2. dropped \subseteq dropped'
  BY DEF EncoderStep, EncoderCheck, EncoderAcquire, EncoderProcess, EncoderDispose, NextRange,
     StopAll, StopInterrupt, CancelImport, CancelWake, JoinImporter, Flush, CreateImporter,
     PoolStop, PoolJoin, MainStep, Drop, history
<1>3. CASE NextRange
  <2>1. range' \in {range + 1, Len(Ranges) + 1}
    BY <1>3, RangeGoes
  <2>2. range' # 1
    BY <1>1, <2>1
  <2> QED
    BY <1>2, <2>2 DEF LoopIsFirst
<1>4. CASE EncoderCheck \/ EncoderAcquire \/ EncoderProcess \/ EncoderDispose
  <2>1. UNCHANGED range
    BY <1>4 DEF EncoderCheck, EncoderAcquire, EncoderProcess, EncoderDispose, control
  <2>2. pc'[Encoder] \in {"need_stop", "acquire", "process", "dispose", "range"}
    <3>1. \E l \in {"need_stop", "acquire", "process", "dispose", "range"} : Goto(Encoder, l)
      BY <1>4 DEF EncoderCheck, EncoderAcquire, EncoderProcess, EncoderDispose, AfterClaim, At
    <3> QED
      BY <3>1, ThreadFacts DEF Goto, Typed, TypeOK
  <2> QED
    BY <1>2, <1>4, <2>1, <2>2 DEF LoopIsFirst
<1>5. CASE \/ StopAll \/ StopInterrupt \/ CancelImport \/ CancelWake \/ JoinImporter
           \/ Flush \/ CreateImporter \/ PoolStop \/ PoolJoin
  <2>1. /\ UNCHANGED range
        /\ pc[Encoder] \notin {"need_stop", "acquire", "process", "dispose", "range"}
    BY <1>5 DEF StopAll, StopInterrupt, CancelImport, CancelWake, JoinImporter, Flush,
       CreateImporter, PoolStop, PoolJoin, MainStep, At, control
  <2>2. range' # 1
    BY <2>1 DEF LoopIsFirst
  <2> QED
    BY <1>2, <2>2 DEF LoopIsFirst
<1> QED
  BY <1>3, <1>4, <1>5 DEF EncoderStep

SomeNumbered == \E n, c : Woven(n, c) /\ Numbered(n, c)

\* Where the chain and the numbers stay.
LEMMA StillNumbered ==
    ASSUME Typed, Typed', Apart, nextId <= nextId', SomeNumbered,
           UNCHANGED <<chain, id, out, cloned>>, SameUse, Doubles' = Doubles, Turns
    PROVE  SomeNumbered'
<1> PICK n, c : Woven(n, c) /\ Numbered(n, c)
  BY DEF SomeNumbered
<1>1. pc[Importer] = "fill" => n > 0
  <2> HAVE pc[Importer] = "fill"
  <2>1. cur[Importer] \in Frames /\ status[cur[Importer]] = "EMPTY"
    BY ThreadFacts, StageFacts DEF Typed, TypeOK, BufferTypeOK, Held, Apart, FramePtr
  <2>2. \E i \in 1 .. n : c[i] = cur[Importer]
    BY <2>1 DEF Woven, Members
  <2> QED
    BY <2>2 DEF Woven, Linked
<1>2. Numbered(n, c)'
  BY <1>1, TurnNumbered
<1>3. Woven(n, c)'
  BY StayWoven DEF SameUse
<1> QED
  BY <1>2, <1>3 DEF SomeNumbered

LEMMA CountedNext ==
    ASSUME Uncopied \/ Unremoved
    PROVE  Orderly /\ Orderly' /\ Counted /\ [Next]_vars => Counted'
<1> SUFFICES ASSUME Orderly, Orderly', Counted, [Next]_vars PROVE Counted'
  OBVIOUS
<1>0. /\ Typed /\ Typed' /\ Apart /\ EncoderAtHead /\ Whole /\ Passage /\ nextId <= nextId'
      /\ NoCopyCloned /\ NoCopyCloned' /\ LoopIsFirst /\ (Counting => SomeNumbered)
      /\ nextId \in Nat
  BY CleanWhole, NextPasses, NoCopyClonedNext, CountTypes DEF Orderly, Counted, SomeNumbered
<1> SUFFICES LoopIsFirst' /\ (Counting' => SomeNumbered')
  BY <1>0 DEF Counted, SomeNumbered
<1>1. CASE ImporterStep
  <2>1. /\ UNCHANGED <<cloned, range, dropped, out>> /\ Doubles' = Doubles
        /\ pc'[Encoder] = pc[Encoder]
        /\ \/ /\ \E f \in Frames : Enters(f)
              /\ UNCHANGED nextId /\ pc[Importer] = "register" /\ pc'[Importer] = "fill"
           \/ UNCHANGED <<chain, id>> /\ SameUse /\ Turns
    BY <1>0, <1>1, ImporterCounts
  <2>2. LoopIsFirst' /\ (Counting' => Counting)
    BY <1>0, <2>1 DEF LoopIsFirst, Counting
  <2> SUFFICES ASSUME SomeNumbered PROVE SomeNumbered'
    BY <1>0, <2>2
  <2>3. ASSUME NEW f \in Frames, Enters(f), UNCHANGED nextId, pc[Importer] = "register",
               pc'[Importer] = "fill"
        PROVE  SomeNumbered'
    <3> PICK n, c : Woven(n, c) /\ Numbered(n, c)
      BY DEF SomeNumbered
    <3>1. Woven(n + 1, With1(n, c, n + 1, f))' /\ Numbered(n + 1, With1(n, c, n + 1, f))'
      BY <1>0, <2>1, <2>3, EnterWoven, EnterNumbered
    <3> QED
      BY <3>1 DEF SomeNumbered
  <2>4. CASE UNCHANGED <<chain, id>> /\ SameUse /\ Turns
    BY <1>0, <2>1, <2>4, StillNumbered
  <2> QED
    BY <2>1, <2>3, <2>4
<1>2. ASSUME NEW w \in Workers, WorkerStep(w) PROVE LoopIsFirst' /\ (Counting' => SomeNumbered')
  <2>1. /\ UNCHANGED <<cloned, range, out, nextId>>
        /\ pc'[Encoder] = pc[Encoder] /\ pc'[Importer] = pc[Importer]
        /\ \/ dropped' # {}
           \/ /\ dropped' = dropped
              /\ \E p \in Frames : Copies(cur[w], p) /\ Doubles' = Doubles \cup {p}
           \/ /\ dropped' = dropped
              /\ UNCHANGED <<chain, id>> /\ SameUse /\ Doubles' = Doubles
    BY <1>0, <1>2, WorkerCounts
  <2>2. LoopIsFirst'
    BY <1>0, <2>1 DEF LoopIsFirst
  <2> SUFFICES ASSUME Counting' PROVE SomeNumbered'
    BY <2>2
  <2>3. dropped' = {} /\ (dropped' = dropped => SomeNumbered)
    BY <1>0, <2>1 DEF Counting
  <2>4. ASSUME SomeNumbered, NEW p \in Frames, Copies(cur[w], p), Doubles' = Doubles \cup {p}
        PROVE  SomeNumbered'
    <3> PICK n, c : Woven(n, c) /\ Numbered(n, c)
      BY <2>4 DEF SomeNumbered
    <3>1. PICK k \in 1 .. n : c[k] = cur[w]
      BY <2>4 DEF Woven, Members, Copies
    <3>2. ~Uncopied
      BY <1>0, <2>4 DEF Copies, Whole, NobodyAt, LinesOf
    <3>3. Woven(n + 1, With1(n, c, k + 1, p))' /\ Numbered(n + 1, With1(n, c, k + 1, p))'
      BY <1>0, <2>1, <2>4, <3>1, <3>2, CopyWoven, CopyNumbered
    <3> QED
      BY <3>3 DEF SomeNumbered
  <2>5. CASE SomeNumbered /\ UNCHANGED <<chain, id>> /\ SameUse /\ Doubles' = Doubles
    <3>1. Turns
      BY <2>1 DEF Turns
    <3> QED
      BY <1>0, <2>1, <2>5, <3>1, StillNumbered
  <2> QED
    BY <2>1, <2>3, <2>4, <2>5
<1>3. CASE EncoderStep
  <2>1. /\ LoopIsFirst' /\ dropped \subseteq dropped'
        /\ range' = 1 => /\ range = 1
                         /\ EncoderCheck \/ EncoderAcquire \/ EncoderProcess \/ EncoderDispose
    BY <1>0, <1>3, MainRanges
  <2> SUFFICES ASSUME Counting' PROVE SomeNumbered'
    BY <2>1
  <2>2. /\ Counting /\ SomeNumbered /\ Media = "video" /\ dropped' = {}
        /\ EncoderCheck \/ EncoderAcquire \/ EncoderProcess \/ EncoderDispose
    <3>1. dropped' = {} /\ range' = 1 /\ Media = "video" /\ Ranges[1][1] = 0
      BY DEF Counting
    <3>2. dropped = {} /\ range = 1
      BY <2>1, <3>1
    <3> QED
      BY <1>0, <2>1, <3>1, <3>2 DEF Counting
  <2>3. CASE EncoderCheck \/ EncoderAcquire \/ EncoderProcess
    <3>1. /\ UNCHANGED <<range, out, nextId>> /\ pc'[Importer] = pc[Importer]
          /\ UNCHANGED <<dropped, cloned, chain, id>> /\ SameUse /\ Doubles' = Doubles
      BY <1>0, <2>2, <2>3, LoopCounts
    <3>2. Turns
      BY <3>1 DEF Turns
    <3> QED
      BY <1>0, <2>2, <3>1, <3>2, StillNumbered
  <2>4. CASE EncoderDispose
    <3>1. /\ UNCHANGED <<range, dropped, nextId, id>> /\ pc'[Importer] = pc[Importer]
          /\ head \in Frames /\ status[head] = "READY"
          /\ out' = IF Behind(id[head]) THEN out ELSE Append(out, id[head])
          /\ \/ /\ Unlink(head) /\ status' = [status EXCEPT ![head] = "NULL"]
                /\ cloned' = cloned + Copy(head) /\ Doubles' = Doubles \ {head}
             \/ /\ UNCHANGED <<chain, status, cloned>>
                /\ Copy(head) = 0 /\ Doubles' = Doubles \cup {head}
      BY <1>0, <2>2, <2>4, DisposeCounts
    <3> PICK n, c : Woven(n, c) /\ Numbered(n, c)
      BY <2>2 DEF SomeNumbered
    <3>2. 1 \in 1 .. n /\ head = c[1]
      BY <3>1, PointerFacts DEF Woven, Linked
    <3>3. CASE /\ Unlink(head) /\ status' = [status EXCEPT ![head] = "NULL"]
               /\ cloned' = cloned + Copy(head) /\ Doubles' = Doubles \ {head}
      <4>1. Numbered(n - 1, Less1(n, c, 1))'
        BY <1>0, <3>1, <3>3, LeaveNumbered
      <4>2. Woven(n - 1, Less1(n, c, 1))'
        BY <1>0, <3>1, <3>2, <3>3, LeaveWoven
      <4> QED
        BY <4>1, <4>2 DEF SomeNumbered
    <3>4. CASE /\ UNCHANGED <<chain, status, cloned>>
               /\ Copy(head) = 0 /\ Doubles' = Doubles \cup {head}
      <4>1. Numbered(n, c)'
        BY <1>0, <3>1, <3>4, AgainNumbered
      <4>2. Woven(n, c)'
        BY <1>0, <3>1, <3>4, StayWoven
      <4> QED
        BY <4>1, <4>2 DEF SomeNumbered
    <3> QED
      BY <3>1, <3>3, <3>4
  <2> QED
    BY <2>2, <2>3, <2>4
<1>4. CASE SignalStep \/ UNCHANGED vars
  <2>1. UNCHANGED <<chain, status, clone, attributes, id, out, cloned, pc, nextId, range, dropped>>
    BY <1>4 DEF SignalStep, SignalRaise, SignalWake, Interrupt, vars, fbvars, ring, control,
       history
  <2>2. SameUse /\ Turns /\ Doubles' = Doubles /\ LoopIsFirst' /\ (Counting' => Counting)
    BY <1>0, <2>1 DEF SameUse, Turns, Doubles, LoopIsFirst, Counting
  <2> QED
    BY <1>0, <2>1, <2>2, StillNumbered
<1> QED
  BY <1>1, <1>2, <1>3, <1>4 DEF Next, Terminated

LEMMA CountedInit == Init => Counted
<1> SUFFICES ASSUME Init PROVE Counted
  OBVIOUS
<1> DEFINE c == [i \in 1 .. 0 |-> 0]
<1>1. /\ head = NoFrame /\ tail = NoFrame /\ out = <<>> /\ nextId = 0 /\ cloned = 0
      /\ pc[Importer] = "loop" /\ pc[Encoder] = "need_stop"
      /\ \A f \in Frames : status[f] = "NULL" /\ attributes[f] = {}
  BY ThreadFacts DEF Init, InitFrameBuffer
<1>2. 1 .. 0 = {} /\ Len(out) = 0
  BY <1>1
<1>3. Woven(0, c)
  BY <1>1, <1>2 DEF Woven, Linked, Members, Sorted, Back
<1>4. Numbered(0, c)
  <2>1. \A i \in 1 .. 0 - 1 : FALSE
    OBVIOUS
  <2> QED
    BY <1>1, <1>2, <2>1 DEF Numbered
<1>5. NoCopyCloned /\ LoopIsFirst
  BY <1>1 DEF NoCopyCloned, LoopIsFirst
<1> HIDE DEF c
<1> QED
  BY <1>3, <1>4, <1>5 DEF Counted

\* In a first range that begins at 0, and until a frame is skipped, the number that
\* encoder_loop compares with the range is the place of the frame in the output:
\* tc_update_frames_cloned counts every copy once, whether a worker or the encoder made it,
\* and wherever in the chain it waits.  Only video is claimed, and copies and removals by
\* workers must not come together: a removal then cuts copies out of the chain.
THEOREM NumberIsOutput ==
    ASSUME Uncopied \/ Unremoved PROVE Spec => []NumberedByOutput
<1>1. ASSUME Orderly, Counted PROVE NumberedByOutput
  <2> DEFINE f == cur[Encoder]
             copy == IF "WAS_CLONED" \in attributes[f] THEN 1 ELSE 0
  <2> SUFFICES ASSUME pc[Encoder] = "dispose", Media = "video", dropped = {}, range = 1,
                      First = 0, InRange(f)
               PROVE  FrameNumber(f) + copy = Len(out)
    BY DEF NumberedByOutput
  <2>0. Typed /\ Apart /\ clone \in [Workers -> FramePtr]
    BY <1>1 DEF Orderly, Typed, TypeOK, BufferTypeOK
  <2>1. f = head /\ head \in Frames /\ status[head] = "READY"
    BY <1>1, <2>0, EncoderFrom, PointerFacts, ThreadFacts, StageFacts
    DEF Orderly, Apart, EncoderAtHead
  <2>2. Counting
    BY DEF Counting, First
  <2> PICK n, c : Woven(n, c) /\ Numbered(n, c)
    BY <1>1, <2>2 DEF Counted
  <2>3. n > 0 /\ head = c[1]
    BY <2>1, PointerFacts DEF Woven, Linked
  <2>4. /\ id[head] \in Nat /\ cloned \in Nat /\ Ranges[1][2] \in Nat /\ Copy(head) \in Nat
    BY <2>0, <2>1, CountTypes
  <2>5. ~Behind(id[head])
    <3>1. id[head] + cloned < Ranges[1][2]
      BY <2>1 DEF InRange, Final, FrameNumber
    <3> QED
      BY <2>4, <3>1 DEF Behind
  <2>6. id[head] + cloned + Copy(head) = Len(out)
    BY <2>3, <2>5 DEF Numbered
  <2>7. Copy(head) = copy
    BY <2>0, <2>1, PointerFacts, ThreadFacts, StageFacts DEF Apart, Copy, Doubles
  <2>8. FrameNumber(f) = id[head] + cloned
    BY <2>1 DEF FrameNumber
  <2> HIDE DEF f, copy
  <2> QED
    BY <2>6, <2>7, <2>8
<1>2. Spec => []Orderly
  BY OrderlyAlways
<1> QED
  BY <1>1, <1>2, CountedInit, CountedNext, PTL DEF Spec
=============================================================================
