------------------------ MODULE FramePipelineProofs ------------------------
(***************************************************************************)
(* Theorems about FramePipeline, for every ring, pool, filter and range.   *)
(*                                                                         *)
(* First what each function of the frame buffer does to the types, to the  *)
(* ownership of frames and to the counters.  Then the theorems:  TypeOK is *)
(* not inductive by itself: a thread that works on cur[t] keeps the types  *)
(* only if the pointer is not NULL, and the encoder reads Ranges[range].   *)
(* Held and MainInOrder say that, and the three together are inductive.    *)
(* NoDoubleClaim and CountersPooled are then inductive one after the other *)
(* on top of them.                                                         *)
(***************************************************************************)
EXTENDS FramePipeline, FiniteSetTheorems, TLAPS

-----------------------------------------------------------------------------
(* The functions of the frame buffer.                                       *)

\* A thread is asleep or awake, and NULL is no frame.
LEMMA PointerFacts ==
    /\ "none" \notin Conditions /\ "signalled" \notin Conditions
    /\ NoFrame \notin Frames
BY DEF Conditions, NoFrame, Frames

\* The scan of retrieve_frame ends on an unclaimed frame of the ring.
LEMMA FreeSlot ==
    ASSUME BufferTypeOK, NEW f, RetrieveFrame(f)
    PROVE  f \in Frames /\ status[f] = "NULL" /\ next' \in Frames
<1> PICK k \in FreeAt : f = Slot(k) /\ next' = (f + 1) % Last
  BY DEF RetrieveFrame
<1>1. k \in 0 .. Last - 1 /\ status[f] = "NULL"
  BY DEF FreeAt
<1>2. \A n \in Nat : n % Last \in Frames
  BY RingAssumption, SMT DEF Frames
<1>3. next + k \in Nat
  BY <1>1, RingAssumption, SMT DEF BufferTypeOK, Frames
<1>4. f \in Frames
  BY <1>2, <1>3 DEF Slot
<1>5. f + 1 \in Nat
  BY <1>4, RingAssumption, SMT DEF Frames
<1> QED
  BY <1>1, <1>2, <1>4, <1>5

\* The wake-ups only move threads from a condition to "signalled".
CvTypeOK == cv \in [Threads -> Conditions \cup {"none", "signalled"}]
LEMMA SignalType ==
    ASSUME CvTypeOK
    PROVE  /\ \A c : Signal(c) => CvTypeOK'
           /\ Interrupt => CvTypeOK'
           /\ InterruptImport => CvTypeOK'
BY DEF CvTypeOK, Signal, Interrupt, InterruptImport, Wake

\* The three operations on the chain keep its links inside the ring.
LEMMA AppendType ==
    ASSUME BufferTypeOK, NEW f \in Frames, AppendFrame(f)
    PROVE  /\ nxt' \in [Frames -> FramePtr] /\ prv' \in [Frames -> FramePtr]
           /\ head' \in FramePtr /\ tail' \in FramePtr
BY DEF AppendFrame, BufferTypeOK, FramePtr

LEMMA LinkAfterType ==
    ASSUME BufferTypeOK, NEW p \in Frames, NEW f \in Frames, LinkAfter(p, f)
    PROVE  /\ nxt' \in [Frames -> FramePtr] /\ prv' \in [Frames -> FramePtr]
           /\ head' \in FramePtr /\ tail' \in FramePtr
BY DEF LinkAfter, BufferTypeOK, FramePtr

LEMMA UnlinkType ==
    ASSUME BufferTypeOK, NEW f \in Frames, Unlink(f)
    PROVE  /\ nxt' \in [Frames -> FramePtr] /\ prv' \in [Frames -> FramePtr]
           /\ head' \in FramePtr /\ tail' \in FramePtr
<1>1. nxt' \in [Frames -> FramePtr]
  BY DEF Unlink, BufferTypeOK, FramePtr
<1>2. prv' \in [Frames -> FramePtr]
  BY DEF Unlink, BufferTypeOK, FramePtr
<1> QED
  BY <1>1, <1>2 DEF Unlink, BufferTypeOK

\* The counters stay integers, whichever two of them a frame moves between.
LEMMA MoveType ==
    ASSUME BufferTypeOK, NEW from \in Status, NEW to \in Status
    PROVE  Move(from, to) \in [Status -> Int]
BY DEF Move, BufferTypeOK

-----------------------------------------------------------------------------
(* What the callers see of a claiming call: it sleeps, it fails, or it      *)
(* claims one frame that had the status it looks for.                       *)

Waits(t) == cv'[t] \in Conditions /\ UNCHANGED <<status, count, cur, clone>>

Fails(t) ==
    /\ cv'[t] \notin Conditions
    /\ cur' = [cur EXCEPT ![t] = NoFrame]
    /\ UNCHANGED <<status, count, clone>>

Restatus(f, from, to) ==
    /\ f \in Frames
    /\ status[f] = from
    /\ status' = [status EXCEPT ![f] = to]

Claims(t, f, from, to) ==
    /\ cv'[t] \notin Conditions
    /\ Restatus(f, from, to)
    /\ count' = Move(from, to)
    /\ cur' = [cur EXCEPT ![t] = f]
    /\ UNCHANGED clone

LEMMA SleepEffect ==
    ASSUME BufferTypeOK, NEW t \in Threads, NEW c \in Conditions, Sleep(t, c)
    PROVE  BufferTypeOK' /\ Waits(t)
BY DEF BufferTypeOK, Sleep, Waits, ring, chain

LEMMA GiveUpEffect ==
    ASSUME BufferTypeOK, NEW t \in Threads, GiveUp(t)
    PROVE  BufferTypeOK' /\ Fails(t)
BY PointerFacts DEF BufferTypeOK, GiveUp, Return, Fails, FramePtr, ring, chain

LEMMA RegisterEffect ==
    ASSUME BufferTypeOK, NEW t \in Threads, NEW n \in Nat,
           NEW running, NEW importing, Register(t, n, running, importing)
    PROVE  /\ BufferTypeOK'
           /\ Waits(t) \/ Fails(t) \/ \E f : Claims(t, f, "NULL", "EMPTY")
<1>1. CASE Sleep(t, "import")
  BY <1>1, SleepEffect DEF Conditions
<1>2. CASE GiveUp(t)
  BY <1>2, GiveUpEffect
<1>3. CASE \E f \in Frames : ClaimEmpty(t, n, f)
  <2> PICK f \in Frames : ClaimEmpty(t, n, f)
    BY <1>3
  <2>1. status[f] = "NULL" /\ next' \in Frames
    BY FreeSlot DEF ClaimEmpty
  <2>2. BufferTypeOK'
    <3>1. /\ nxt' \in [Frames -> FramePtr] /\ prv' \in [Frames -> FramePtr]
          /\ head' \in FramePtr /\ tail' \in FramePtr
      BY AppendType DEF ClaimEmpty
    <3>2. count' \in [Status -> Int]
      BY MoveType DEF ClaimEmpty, Status
    <3>3. /\ status' \in [Frames -> Status] /\ id' \in [Frames -> Nat]
          /\ attributes' \in [Frames -> SUBSET Attributes]
      BY DEF ClaimEmpty, BufferTypeOK, Status
    <3>4. /\ cv' \in [Threads -> Conditions \cup {"none", "signalled"}]
          /\ cur' \in [Threads -> FramePtr] /\ clone' \in [Workers -> FramePtr]
      BY DEF ClaimEmpty, Return, BufferTypeOK, FramePtr
    <3> QED
      BY <2>1, <3>1, <3>2, <3>3, <3>4 DEF BufferTypeOK
  <2>3. Claims(t, f, "NULL", "EMPTY")
    BY <2>1, PointerFacts DEF ClaimEmpty, Return, Claims, Restatus, BufferTypeOK
  <2> QED
    BY <2>2, <2>3
<1> QED
  BY <1>1, <1>2, <1>3 DEF Register

LEMMA ReserveEffect ==
    ASSUME BufferTypeOK, NEW t \in Threads, NEW running, Reserve(t, running)
    PROVE  /\ BufferTypeOK'
           /\ Waits(t) \/ Fails(t) \/ \E f : Claims(t, f, "WAIT", "LOCKED")
<1>1. CASE Sleep(t, "filter")
  BY <1>1, SleepEffect DEF Conditions
<1>2. CASE GiveUp(t)
  BY <1>2, GiveUpEffect
<1>3. CASE LockWaiting(t)
  <2> PICK f : /\ f \in Frames /\ status[f] = "WAIT"
               /\ status' = [status EXCEPT ![f] = "LOCKED"]
               /\ Return(t, f)
    BY <1>3 DEF LockWaiting, WaitingAt
  <2>1. count' = Move("WAIT", "LOCKED") /\ UNCHANGED <<next, chain, attributes, id, clone>>
    BY <1>3 DEF LockWaiting
  <2>2. count' \in [Status -> Int]
    BY <2>1, MoveType DEF Status
  <2>3. BufferTypeOK'
    BY <2>1, <2>2 DEF Return, BufferTypeOK, Status, FramePtr, chain
  <2>4. Claims(t, f, "WAIT", "LOCKED")
    BY <2>1, PointerFacts DEF Return, Claims, Restatus, BufferTypeOK
  <2> QED
    BY <2>3, <2>4
<1> QED
  BY <1>1, <1>2, <1>3 DEF Reserve

LEMMA RetrieveEffect ==
    ASSUME BufferTypeOK, NEW t \in Threads, NEW running, Retrieve(t, running)
    PROVE  /\ BufferTypeOK'
           /\ UNCHANGED <<status, count, clone>>
           /\ \/ Waits(t)
              \/ Fails(t)
              \/ /\ cv'[t] \notin Conditions
                 /\ head \in Frames /\ status[head] = "READY"
                 /\ cur' = [cur EXCEPT ![t] = head]
<1>1. CASE Sleep(t, "export")
  BY <1>1, SleepEffect DEF Conditions, Waits
<1>2. CASE GiveUp(t)
  BY <1>2, GiveUpEffect DEF Fails
<1>3. CASE /\ HeadReady /\ Return(t, head)
           /\ UNCHANGED <<ring, chain, attributes, id, clone>>
  <2>1. head \in Frames /\ status[head] = "READY"
    BY <1>3 DEF HeadReady, BufferTypeOK, FramePtr
  <2> QED
    BY <1>3, <2>1, PointerFacts DEF Return, BufferTypeOK, ring, chain
<1> QED
  BY <1>1, <1>2, <1>3 DEF Retrieve

LEMMA DupEffect ==
    ASSUME BufferTypeOK, NEW t \in Workers, NEW f \in Frames, NEW running,
           Dup(t, f, running)
    PROVE  /\ BufferTypeOK' /\ UNCHANGED cur
           /\ \/ Waits(t)
              \/ /\ cv'[t] \notin Conditions
                 /\ clone' = [clone EXCEPT ![t] = NoFrame]
                 /\ UNCHANGED <<status, count>>
              \/ /\ cv'[t] \notin Conditions
                 /\ \E p : /\ Restatus(p, "NULL", status[f])
                           /\ clone' = [clone EXCEPT ![t] = p]
                 /\ count' = Move("NULL", "WAIT")
<1>0. t \in Threads
  BY DEF Threads
<1>1. CASE Sleep(t, "import")
  BY <1>0, <1>1, SleepEffect DEF Conditions, Waits
<1>2. CASE /\ clone' = [clone EXCEPT ![t] = NoFrame]
           /\ cv' = [cv EXCEPT ![t] = "none"]
           /\ UNCHANGED <<ring, chain, attributes, id, cur>>
  BY <1>0, <1>2, PointerFacts DEF BufferTypeOK, FramePtr, ring, chain
<1>3. CASE \E p \in Frames : ClaimCopy(t, f, p)
  <2> PICK p \in Frames : ClaimCopy(t, f, p)
    BY <1>3
  <2>1. status[p] = "NULL" /\ next' \in Frames
    BY FreeSlot DEF ClaimCopy
  <2>2. /\ nxt' \in [Frames -> FramePtr] /\ prv' \in [Frames -> FramePtr]
        /\ head' \in FramePtr /\ tail' \in FramePtr
    BY LinkAfterType DEF ClaimCopy
  <2>3. count' \in [Status -> Int]
    BY MoveType DEF ClaimCopy, Status
  <2>4. /\ status' \in [Frames -> Status] /\ id' \in [Frames -> Nat]
        /\ attributes' \in [Frames -> SUBSET Attributes]
    BY DEF ClaimCopy, BufferTypeOK
  <2>5. /\ cv' \in [Threads -> Conditions \cup {"none", "signalled"}]
        /\ cur' \in [Threads -> FramePtr] /\ clone' \in [Workers -> FramePtr]
    BY DEF ClaimCopy, BufferTypeOK, FramePtr
  <2>6. BufferTypeOK'
    BY <2>1, <2>2, <2>3, <2>4, <2>5 DEF BufferTypeOK
  <2> QED
    BY <1>0, <2>1, <2>6, PointerFacts DEF ClaimCopy, Restatus, BufferTypeOK
<1> QED
  BY <1>1, <1>2, <1>3 DEF Dup

-----------------------------------------------------------------------------
(* The functions that give a frame up.                                      *)

LEMMA RemoveEffect ==
    ASSUME BufferTypeOK, NEW f \in Frames, Remove(f),
           attributes' \in [Frames -> SUBSET Attributes],
           cur' \in [Threads -> FramePtr], clone' \in [Workers -> FramePtr]
    PROVE  /\ BufferTypeOK'
           /\ Restatus(f, status[f], "NULL")
           /\ status[f] \in {"LOCKED", "READY"} => count' = Move(status[f], "NULL")
<1>1. status' \in [Frames -> Status] /\ count' \in [Status -> Int] /\ next' \in Frames
  BY DEF Remove, RemoveFrame, Move, BufferTypeOK, Status
<1>2. CvTypeOK'
  BY SignalType DEF Remove, BufferTypeOK, CvTypeOK
<1>3. BufferTypeOK'
  BY <1>1, <1>2, UnlinkType DEF Remove, BufferTypeOK, CvTypeOK
<1> QED
  BY <1>3 DEF Remove, RemoveFrame, Restatus

LEMMA PushNextEffect ==
    ASSUME BufferTypeOK, NEW f \in Frames, NEW s \in Status, PushNext(f, s),
           attributes' \in [Frames -> SUBSET Attributes],
           cur' \in [Threads -> FramePtr], clone' \in [Workers -> FramePtr]
    PROVE  /\ BufferTypeOK'
           /\ Restatus(f, status[f], s)
           /\ count' = Move(status[f], s)
<1>1. status' \in [Frames -> Status] /\ count' \in [Status -> Int]
  BY MoveType DEF PushNext, BufferTypeOK
<1>2. CvTypeOK'
  BY SignalType DEF PushNext, BufferTypeOK, CvTypeOK
<1>3. BufferTypeOK'
  BY <1>1, <1>2 DEF PushNext, BufferTypeOK, CvTypeOK, chain
<1> QED
  BY <1>3 DEF PushNext, Restatus

-----------------------------------------------------------------------------
(* The threads.                                                             *)

Typed == TypeOK /\ Held /\ MainInOrder

LEMMA ThreadFacts ==
    /\ Importer \in Threads /\ Encoder \in Threads /\ Workers \subseteq Threads
    /\ Importer # Encoder
    /\ \A w \in Workers : w # Importer /\ w # Encoder
BY ThreadAssumption DEF Threads

LEMMA RangeFacts ==
    /\ Len(Ranges) \in Nat \ {0}
    /\ \A r \in 1 .. Len(Ranges) : Ranges[r] \in Nat \X Nat
BY PipelineAssumption

\* Filters set flags of the frame's attribute field only.
LEMMA FilteredType ==
    ASSUME NEW slots \in SUBSET Slots, NEW a \in SUBSET Attributes
    PROVE  Filtered(slots, a) \subseteq SUBSET Attributes
<1>1. UNION {Marks[s] : s \in slots} \subseteq Attributes
  BY PipelineAssumption DEF Attributes
<1> QED
  BY <1>1 DEF Filtered

\* Forgetting a pointer keeps the types.
LEMMA ReleaseType ==
    ASSUME BufferTypeOK, NEW t \in Threads, Release(t)
    PROVE  cur' \in [Threads -> FramePtr]
BY DEF Release, BufferTypeOK, FramePtr

LEMMA TypedInit == Init => Typed
<1> SUFFICES ASSUME Init PROVE Typed
  OBVIOUS
<1>1. BufferTypeOK
  BY RingAssumption DEF Init, InitFrameBuffer, BufferTypeOK, Status, FramePtr, Frames
<1>2. TypeOK
  BY <1>1, ThreadFacts, RangeFacts
  DEF Init, TypeOK, ImporterPC, WorkerPC, EncoderPC
<1>3. Held
  BY ThreadFacts DEF Init, InitFrameBuffer, Held, Working
<1>4. MainInOrder
  BY RangeFacts, ThreadFacts DEF Init, MainInOrder
<1> QED
  BY <1>2, <1>3, <1>4 DEF Typed

-----------------------------------------------------------------------------
(* Each thread's steps keep Typed.                                          *)

LEMMA TypedImporter == Typed /\ ImporterStep => Typed'
<1> SUFFICES ASSUME Typed, ImporterStep PROVE Typed'
  OBVIOUS
<1> USE ThreadFacts
<1>1. CASE ImportLoop
  <2>1. BufferTypeOK'
    BY <1>1 DEF Typed, TypeOK, ImportLoop, BufferTypeOK, fbvars, ring, chain
  <2> QED
    BY <1>1, <2>1 DEF Typed, TypeOK, Held, MainInOrder, ImportLoop, At, Goto,
       ImporterPC, WorkerPC, EncoderPC, fbvars, control, history
<1>2. CASE ImportRegister
  <2>1. /\ BufferTypeOK'
        /\ \/ Waits(Importer) \/ Fails(Importer)
           \/ \E f : Claims(Importer, f, "NULL", "EMPTY")
    BY <1>2, RegisterEffect DEF Typed, TypeOK, ImportRegister
  <2>2. UNCHANGED <<run, active, pool, nextId, range, cloned, sig, out, dropped>>
    BY <1>2 DEF ImportRegister, control, history
  <2>3. CASE Waits(Importer)
    BY <1>2, <2>1, <2>2, <2>3 DEF Typed, TypeOK, Held, MainInOrder, ImportRegister,
       At, Goto, AfterClaim, Waits, ImporterPC, WorkerPC, EncoderPC
  <2>4. CASE Fails(Importer)
    BY <1>2, <2>1, <2>2, <2>4 DEF Typed, TypeOK, BufferTypeOK, Held, MainInOrder,
       ImportRegister, At, Goto, AfterClaim, Fails, ImporterPC, WorkerPC, EncoderPC
  <2>5. CASE \E f : Claims(Importer, f, "NULL", "EMPTY")
    <3> PICK f : Claims(Importer, f, "NULL", "EMPTY")
      BY <2>5
    <3>1. /\ cur' = [cur EXCEPT ![Importer] = f] /\ f # NoFrame /\ clone' = clone
          /\ pc' = [pc EXCEPT ![Importer] = "fill"] /\ pc[Importer] = "register"
      BY <1>2, PointerFacts DEF ImportRegister, At, Goto, AfterClaim, Claims, Restatus,
         Typed, TypeOK, BufferTypeOK
    <3> QED
      BY <2>1, <2>2, <3>1 DEF Typed, TypeOK, BufferTypeOK, Held, MainInOrder,
         ImporterPC, WorkerPC, EncoderPC
  <2> QED
    BY <2>1, <2>3, <2>4, <2>5
<1>3. CASE ImportFill
  <2> DEFINE f == cur[Importer]
             base == IF InSomeRange(nextId) THEN {} ELSE {"OUT_OF_RANGE"}
  <2>1. f \in Frames
    BY <1>3 DEF ImportFill, At, Typed, TypeOK, Held, BufferTypeOK, FramePtr
  <2>2. attributes' \in [Frames -> SUBSET Attributes] /\ nextId' \in Nat
    <3>1. base \in SUBSET Attributes /\ {"END_OF_STREAM"} \in SUBSET Attributes
      BY DEF Attributes
    <3>2. Filtered({"PRE_S"}, base) \subseteq SUBSET Attributes
      BY <3>1, FilteredType DEF Slots
    <3>3. \/ \E a \in Filtered({"PRE_S"}, base) \cup {base} :
                attributes' = [attributes EXCEPT ![f] = a]
          \/ attributes' = [attributes EXCEPT ![f] = {"END_OF_STREAM"}]
      BY <1>3 DEF ImportFill
    <3>4. nextId' \in Nat
      BY <1>3 DEF ImportFill, Typed, TypeOK
    <3> HIDE DEF base, f
    <3>5. PICK a \in SUBSET Attributes : attributes' = [attributes EXCEPT ![f] = a]
      BY <3>1, <3>2, <3>3
    <3> QED
      BY <3>4, <3>5 DEF Typed, TypeOK, BufferTypeOK
  <2>3. AfterImport \in Status /\ PushNext(f, AfterImport)
    BY <1>3 DEF ImportFill, AfterImport, Status
  <2>4. cur' \in [Threads -> FramePtr] /\ clone' \in [Workers -> FramePtr]
    BY <1>3, ReleaseType DEF ImportFill, Typed, TypeOK, BufferTypeOK
  <2>5. BufferTypeOK'
    BY <2>1, <2>2, <2>3, <2>4, PushNextEffect DEF Typed, TypeOK
  <2>6. /\ cur' = [cur EXCEPT ![Importer] = NoFrame] /\ pc[Importer] = "fill"
        /\ UNCHANGED <<clone, run, active, pool, range, cloned, sig, out, dropped>>
        /\ \E l \in {"loop", "end"} : pc' = [pc EXCEPT ![Importer] = l]
    BY <1>3 DEF ImportFill, At, Goto, Release, history
  <2>7. TypeOK'
    BY <2>2, <2>5, <2>6 DEF Typed, TypeOK, ImporterPC, WorkerPC, EncoderPC
  <2>8. Held'
    BY <2>6 DEF Typed, TypeOK, BufferTypeOK, Held
  <2>9. MainInOrder'
    BY <2>6 DEF Typed, TypeOK, MainInOrder
  <2> QED
    BY <2>7, <2>8, <2>9 DEF Typed
<1>4. CASE ImportEnd
  <2>1. BufferTypeOK'
    BY <1>4 DEF Typed, TypeOK, ImportEnd, BufferTypeOK, fbvars, ring, chain
  <2> QED
    BY <1>4, <2>1 DEF Typed, TypeOK, Held, MainInOrder, ImportEnd, At, Goto,
       ImporterPC, WorkerPC, EncoderPC, fbvars, history
<1> QED
  BY <1>1, <1>2, <1>3, <1>4 DEF ImporterStep

\* What is left to check of a worker's step once the buffer is typed.
LEMMA WorkerMove ==
    ASSUME Typed, BufferTypeOK', NEW w \in Workers,
           NEW l \in WorkerPC, pc' = [pc EXCEPT ![w] = l],
           NEW x, cur' = [cur EXCEPT ![w] = x], x # NoFrame <=> l \in Working,
           NEW y, clone' = [clone EXCEPT ![w] = y], y # NoFrame <=> l = "queue",
           UNCHANGED <<run, active, nextId, range, cloned, sig, out>>,
           pool' \in BOOLEAN, dropped' \in SUBSET Nat
    PROVE  Typed'
<1> USE ThreadFacts
<1>1. TypeOK'
  BY DEF Typed, TypeOK, ImporterPC, WorkerPC, EncoderPC
<1>2. Held'
  BY DEF Typed, TypeOK, BufferTypeOK, Held
<1>3. MainInOrder'
  BY DEF Typed, TypeOK, MainInOrder
<1> QED
  BY <1>1, <1>2, <1>3 DEF Typed

\* A worker at a line that works on a frame has one.
LEMMA WorkerFrameIn ==
    ASSUME Typed, NEW w \in Workers, pc[w] \in Working
    PROVE  cur[w] \in Frames
BY ThreadFacts DEF Typed, TypeOK, Held, BufferTypeOK, FramePtr

LEMMA TypedWorker == ASSUME NEW w \in Workers PROVE Typed /\ WorkerStep(w) => Typed'
<1> SUFFICES ASSUME Typed, WorkerStep(w) PROVE Typed'
  OBVIOUS
<1> USE ThreadFacts
<1> DEFINE f == cur[w]
<1>0. /\ BufferTypeOK /\ pool \in BOOLEAN /\ dropped \in SUBSET Nat
      /\ cur = [cur EXCEPT ![w] = cur[w]] /\ clone = [clone EXCEPT ![w] = clone[w]]
  BY DEF Typed, TypeOK, BufferTypeOK
<1>1. CASE WorkerCheck(w)
  <2>1. /\ BufferTypeOK' /\ pool' \in BOOLEAN /\ UNCHANGED <<cur, clone, dropped>>
        /\ UNCHANGED <<run, active, nextId, range, cloned, sig, out>>
        /\ cur[w] = NoFrame /\ clone[w] = NoFrame
        /\ \E l \in {"reserve", "exit"} : pc' = [pc EXCEPT ![w] = l]
    BY <1>0, <1>1 DEF WorkerCheck, At, Goto, BufferTypeOK, Typed, Held, Working,
       fbvars, ring, chain, control, history
  <2> QED
    BY <1>0, <2>1, WorkerMove DEF Working, WorkerPC
<1>2. CASE WorkerReserve(w)
  <2>1. /\ BufferTypeOK'
        /\ Waits(w) \/ Fails(w) \/ \E g : Claims(w, g, "WAIT", "LOCKED")
    BY <1>0, <1>2, ReserveEffect DEF WorkerReserve
  <2>2. /\ UNCHANGED <<run, active, nextId, range, cloned, sig, pool, out, dropped, clone>>
        /\ cur[w] = NoFrame /\ clone[w] = NoFrame /\ pc[w] = "reserve"
    BY <1>2, <2>1 DEF WorkerReserve, At, Typed, Held, Working, control, history,
       Waits, Fails, Claims
  <2>3. CASE Waits(w)
    <3>1. pc' = [pc EXCEPT ![w] = "reserve"] /\ cur' = cur
      BY <1>2, <2>2, <2>3 DEF WorkerReserve, Goto, AfterClaim, Waits
    <3> QED
      BY <1>0, <2>1, <2>2, <3>1, WorkerMove DEF Working, WorkerPC
  <2>4. CASE Fails(w)
    <3>1. pc' = [pc EXCEPT ![w] = "halt"] /\ cur' = [cur EXCEPT ![w] = NoFrame]
      BY <1>0, <1>2, <2>4 DEF WorkerReserve, Goto, AfterClaim, Fails, BufferTypeOK
    <3> QED
      BY <1>0, <2>1, <2>2, <3>1, WorkerMove DEF Working, WorkerPC
  <2>5. CASE \E g : Claims(w, g, "WAIT", "LOCKED")
    <3> PICK g : Claims(w, g, "WAIT", "LOCKED")
      BY <2>5
    <3>1. /\ pc' = [pc EXCEPT ![w] = "frame"] /\ cur' = [cur EXCEPT ![w] = g]
          /\ g # NoFrame
      BY <1>0, <1>2, PointerFacts DEF WorkerReserve, Goto, AfterClaim, Claims,
         Restatus, BufferTypeOK
    <3> QED
      BY <1>0, <2>1, <2>2, <3>1, WorkerMove DEF Working, WorkerPC
  <2> QED
    BY <2>1, <2>3, <2>4, <2>5
<1>3. CASE WorkerHalt(w)
  <2>1. /\ BufferTypeOK' /\ pool' \in BOOLEAN /\ UNCHANGED <<cur, clone, dropped>>
        /\ UNCHANGED <<run, active, nextId, range, cloned, sig, out>>
        /\ cur[w] = NoFrame /\ clone[w] = NoFrame
        /\ pc' = [pc EXCEPT ![w] = "exit"]
    BY <1>0, <1>3 DEF WorkerHalt, At, Goto, BufferTypeOK, Typed, Held, Working,
       fbvars, ring, chain, history
  <2> QED
    BY <1>0, <2>1, WorkerMove DEF Working, WorkerPC
<1>4. CASE WorkerFrame(w)
  <2>1. /\ pc[w] = "frame" /\ f \in Frames /\ clone[w] = NoFrame
    BY <1>4, WorkerFrameIn DEF WorkerFrame, At, Typed, Held, Working
  <2>2. Filtered({"PRE_M"}, attributes[f]) \subseteq SUBSET Attributes
    BY <1>0, <2>1, FilteredType DEF Slots, BufferTypeOK
  <2>3. \/ attributes' = attributes
        \/ \E a \in Filtered({"PRE_M"}, attributes[f]) :
              attributes' = [attributes EXCEPT ![f] = a]
    BY <1>4 DEF WorkerFrame
  <2>4. attributes' \in [Frames -> SUBSET Attributes]
    BY <1>0, <2>2, <2>3 DEF BufferTypeOK
  <2>5. /\ UNCHANGED <<status, count, next, nxt, prv, head, tail, id, cv, cur, clone>>
        /\ UNCHANGED <<run, active, nextId, range, cloned, sig, out, dropped>>
        /\ pool' \in BOOLEAN
    BY <1>0, <1>4 DEF WorkerFrame, ring, chain, history
  <2>6. \E l \in {"remove", "dup", "post", "push"} : pc' = [pc EXCEPT ![w] = l]
    BY <1>4 DEF WorkerFrame, Goto
  <2>7. BufferTypeOK'
    BY <1>0, <2>4, <2>5 DEF BufferTypeOK
  <2>8. PICK l \in Working \cap WorkerPC : pc' = [pc EXCEPT ![w] = l] /\ l # "queue"
    BY <2>6 DEF Working, WorkerPC
  <2> HIDE DEF f
  <2>9. f = cur[w] /\ f # NoFrame
    BY <2>1, PointerFacts DEF f
  <2> QED
    BY <1>0, <2>1, <2>5, <2>7, <2>8, <2>9, WorkerMove
<1>5. CASE WorkerDup(w)
  <2>1. /\ pc[w] = "dup" /\ f \in Frames /\ clone[w] = NoFrame
        /\ UNCHANGED <<run, active, nextId, range, cloned, sig, pool, out, dropped>>
    BY <1>5, WorkerFrameIn
    DEF WorkerDup, At, Typed, Held, Working, control, history
  <2>2. f # NoFrame /\ cur' = cur /\ BufferTypeOK'
    BY <1>0, <1>5, <2>1, DupEffect, PointerFacts DEF WorkerDup
  <2>3. CASE Waits(w)
    <3>1. pc' = [pc EXCEPT ![w] = "dup"] /\ clone' = clone
      BY <1>5, <2>3 DEF WorkerDup, Goto, Waits
    <3> QED
      BY <1>0, <2>1, <2>2, <3>1, WorkerMove DEF Working, WorkerPC
  <2>4. CASE cv'[w] \notin Conditions /\ clone' = [clone EXCEPT ![w] = NoFrame]
    <3>1. pc' = [pc EXCEPT ![w] = "crash"]
      BY <1>0, <1>5, <2>4 DEF WorkerDup, Goto, BufferTypeOK
    <3> QED
      BY <1>0, <2>1, <2>2, <2>4, <3>1, WorkerMove DEF Working, WorkerPC
  <2>5. CASE /\ cv'[w] \notin Conditions
             /\ \E p : /\ Restatus(p, "NULL", status[f])
                       /\ clone' = [clone EXCEPT ![w] = p]
    <3> PICK p : /\ Restatus(p, "NULL", status[f])
                 /\ clone' = [clone EXCEPT ![w] = p]
      BY <2>5
    <3>1. pc' = [pc EXCEPT ![w] = "queue"] /\ p # NoFrame
      BY <1>0, <1>5, <2>5, PointerFacts DEF WorkerDup, Goto, BufferTypeOK, Restatus
    <3> QED
      BY <1>0, <2>1, <2>2, <3>1, WorkerMove DEF Working, WorkerPC
  <2> QED
    BY <1>0, <1>5, <2>1, <2>3, <2>4, <2>5, DupEffect DEF WorkerDup
<1>6. CASE WorkerQueue(w)
  <2> DEFINE p == clone[w]
  <2>1. f \in Frames /\ p \in Frames /\ f # NoFrame
    BY <1>0, <1>6, WorkerFrameIn, PointerFacts
    DEF WorkerQueue, At, Typed, Held, Working, BufferTypeOK, FramePtr
  <2>2. attributes' \in [Frames -> SUBSET Attributes]
    BY <1>0, <1>6, <2>1 DEF WorkerQueue, BufferTypeOK, Attributes
  <2>3. /\ PushNext(p, "WAIT") /\ clone' = [clone EXCEPT ![w] = NoFrame]
        /\ cur' = cur /\ pc[w] = "queue"
        /\ UNCHANGED <<run, active, nextId, range, cloned, sig, pool, out, dropped>>
        /\ \E l \in {"remove", "post"} : pc' = [pc EXCEPT ![w] = l]
    BY <1>6 DEF WorkerQueue, At, Goto, control, history
  <2>4. cur' \in [Threads -> FramePtr] /\ clone' \in [Workers -> FramePtr]
    BY <1>0, <2>3 DEF BufferTypeOK, FramePtr
  <2>5. BufferTypeOK'
    BY <1>0, <2>1, <2>2, <2>3, <2>4, PushNextEffect DEF Status
  <2> QED
    BY <1>0, <2>1, <2>3, <2>5, WorkerMove DEF Working, WorkerPC
<1>7. CASE WorkerPost(w)
  <2>1. /\ f \in Frames /\ clone[w] = NoFrame /\ f # NoFrame
    BY <1>7, WorkerFrameIn, PointerFacts DEF WorkerPost, At, Typed, Held, Working
  <2>2. Filtered({"POST_M"}, attributes[f]) \subseteq SUBSET Attributes
    BY <1>0, <2>1, FilteredType DEF Slots, BufferTypeOK
  <2>3. PICK a \in SUBSET Attributes : attributes' = [attributes EXCEPT ![f] = a]
    BY <1>7, <2>2 DEF WorkerPost
  <2>4. attributes' \in [Frames -> SUBSET Attributes]
    BY <1>0, <2>3 DEF BufferTypeOK
  <2>5. /\ UNCHANGED <<status, count, next, nxt, prv, head, tail, id, cv, cur, clone>>
        /\ UNCHANGED <<run, active, nextId, range, cloned, sig, pool, out, dropped>>
        /\ \E l \in {"remove", "push"} : pc' = [pc EXCEPT ![w] = l]
    BY <1>7 DEF WorkerPost, Goto, ring, chain, control, history
  <2>6. BufferTypeOK'
    BY <1>0, <2>4, <2>5 DEF BufferTypeOK
  <2>7. PICK l \in Working \cap WorkerPC : pc' = [pc EXCEPT ![w] = l] /\ l # "queue"
    BY <2>5 DEF Working, WorkerPC
  <2> QED
    BY <1>0, <2>1, <2>5, <2>6, <2>7, WorkerMove
<1>8. CASE WorkerPush(w)
  <2>1. f \in Frames /\ clone[w] = NoFrame
    BY <1>8, WorkerFrameIn DEF WorkerPush, At, Typed, Held, Working
  <2>2. /\ PushNext(f, "READY") /\ cur' = [cur EXCEPT ![w] = NoFrame]
        /\ UNCHANGED <<attributes, clone>>
        /\ UNCHANGED <<run, active, nextId, range, cloned, sig, pool, out, dropped>>
        /\ pc' = [pc EXCEPT ![w] = "check"]
    BY <1>8 DEF WorkerPush, Goto, Release, control, history
  <2>3. cur' \in [Threads -> FramePtr]
    BY <1>0, <2>2 DEF BufferTypeOK, FramePtr
  <2>4. BufferTypeOK'
    BY <1>0, <2>1, <2>2, <2>3, PushNextEffect DEF Status, BufferTypeOK
  <2> QED
    BY <1>0, <2>1, <2>2, <2>4, WorkerMove DEF Working, WorkerPC
<1>9. CASE WorkerRemove(w)
  <2>1. f \in Frames /\ clone[w] = NoFrame
    BY <1>9, WorkerFrameIn DEF WorkerRemove, At, Typed, Held, Working
  <2>2. /\ Remove(f) /\ cur' = [cur EXCEPT ![w] = NoFrame]
        /\ UNCHANGED <<attributes, clone>>
        /\ UNCHANGED <<run, active, nextId, range, cloned, sig, pool, out>>
        /\ dropped' = dropped \cup {id[f]}
        /\ pc' = [pc EXCEPT ![w] = "check"]
    BY <1>9 DEF WorkerRemove, Drop, Goto, Release, control
  <2>3. cur' \in [Threads -> FramePtr] /\ id[f] \in Nat
    BY <1>0, <2>1, <2>2 DEF BufferTypeOK, FramePtr
  <2>4. BufferTypeOK'
    BY <1>0, <2>1, <2>2, <2>3, RemoveEffect DEF BufferTypeOK
  <2>5. dropped' \in SUBSET Nat
    BY <1>0, <2>2, <2>3
  <2> QED
    BY <1>0, <2>1, <2>2, <2>4, <2>5, WorkerMove DEF Working, WorkerPC
<1> QED
  BY <1>1, <1>2, <1>3, <1>4, <1>5, <1>6, <1>7, <1>8, <1>9 DEF WorkerStep

-----------------------------------------------------------------------------
\* What is left to check of a step of the encoder loop or of the main thread.
LEMMA EncoderMove ==
    ASSUME Typed, BufferTypeOK',
           NEW l \in EncoderPC, pc' = [pc EXCEPT ![Encoder] = l],
           NEW x, cur' = [cur EXCEPT ![Encoder] = x],
           x # NoFrame <=> l \in {"process", "dispose"},
           range' \in 1 .. Len(Ranges) + 1,
           l \in {"need_stop", "acquire", "process", "dispose", "range",
                  "flush", "create"} => range' <= Len(Ranges),
           l \in {"flush", "create"} => pc[Importer] = "exit",
           UNCHANGED <<clone, nextId, sig>>,
           run' \in {"RUNNING", "STOPPED", "INTERRUPTED"}, cloned' \in Nat,
           active' \in [Streams -> BOOLEAN], pool' \in BOOLEAN,
           out' \in Seq(Nat), dropped' \in SUBSET Nat
    PROVE  Typed'
<1> USE ThreadFacts
<1>1. TypeOK'
  BY DEF Typed, TypeOK, ImporterPC, WorkerPC, EncoderPC
<1>2. Held'
  BY DEF Typed, TypeOK, BufferTypeOK, Held
<1>3. MainInOrder'
  BY DEF Typed, TypeOK, MainInOrder
<1> QED
  BY <1>1, <1>2, <1>3 DEF Typed

\* The state the encoder's steps start from, in the form EncoderMove asks for.
LEMMA EncoderFrom ==
    ASSUME Typed
    PROVE  /\ BufferTypeOK
           /\ run \in {"RUNNING", "STOPPED", "INTERRUPTED"}
           /\ active \in [Streams -> BOOLEAN] /\ pool \in BOOLEAN
           /\ range \in 1 .. Len(Ranges) + 1 /\ cloned \in Nat
           /\ out \in Seq(Nat) /\ dropped \in SUBSET Nat
           /\ cur = [cur EXCEPT ![Encoder] = cur[Encoder]]
           /\ pc[Encoder] \in {"need_stop", "acquire", "process", "dispose", "range",
                               "flush", "create"} => range <= Len(Ranges)
           /\ pc[Encoder] \in {"flush", "create"} => pc[Importer] = "exit"
           /\ pc[Encoder] \in {"process", "dispose"} => cur[Encoder] \in Frames
           /\ pc[Encoder] \notin {"process", "dispose"} => cur[Encoder] = NoFrame
BY ThreadFacts DEF Typed, TypeOK, Held, MainInOrder, BufferTypeOK, FramePtr

\* Wake-ups keep the buffer typed.
LEMMA WakeType ==
    ASSUME BufferTypeOK, Interrupt \/ InterruptImport
    PROVE  BufferTypeOK' /\ UNCHANGED <<cur, clone, status, count>>
<1>1. CvTypeOK'
  BY SignalType DEF BufferTypeOK, CvTypeOK
<1> QED
  BY <1>1 DEF Interrupt, InterruptImport, BufferTypeOK, CvTypeOK, ring, chain

LEMMA BufferStutter ==
    ASSUME BufferTypeOK, UNCHANGED fbvars
    PROVE  BufferTypeOK' /\ UNCHANGED <<cur, clone, status, count>>
BY DEF BufferTypeOK, fbvars, ring, chain

LEMMA CountCloneType ==
    ASSUME cloned \in Nat, NEW a, CountClone(a) \/ UNCHANGED cloned
    PROVE  cloned' \in Nat
BY DEF CountClone

LEMMA TypedEncoderLoop ==
    Typed /\ (EncoderCheck \/ EncoderAcquire \/ EncoderProcess \/ EncoderDispose)
      => Typed'
<1> SUFFICES ASSUME Typed,
                    EncoderCheck \/ EncoderAcquire \/ EncoderProcess \/ EncoderDispose
             PROVE  Typed'
  OBVIOUS
<1> USE ThreadFacts
<1> DEFINE f == cur[Encoder]
<1>0. /\ BufferTypeOK
      /\ run \in {"RUNNING", "STOPPED", "INTERRUPTED"}
      /\ active \in [Streams -> BOOLEAN] /\ pool \in BOOLEAN
      /\ range \in 1 .. Len(Ranges) + 1 /\ cloned \in Nat
      /\ out \in Seq(Nat) /\ dropped \in SUBSET Nat
      /\ cur = [cur EXCEPT ![Encoder] = cur[Encoder]]
  BY EncoderFrom
<1>1. CASE EncoderCheck
  <2>1. /\ f = NoFrame /\ range <= Len(Ranges)
    BY <1>1, EncoderFrom DEF EncoderCheck, At
  <2>2. /\ BufferTypeOK' /\ UNCHANGED <<cur, clone>>
        /\ UNCHANGED <<run, active, pool, nextId, range, cloned, sig, out, dropped>>
        /\ \E l \in {"acquire", "range"} : pc' = [pc EXCEPT ![Encoder] = l]
    BY <1>0, <1>1, BufferStutter DEF EncoderCheck, Goto, control, history
  <2> QED
    BY <1>0, <2>1, <2>2, EncoderMove DEF EncoderPC
<1>2. CASE EncoderAcquire
  <2>1. /\ f = NoFrame /\ range <= Len(Ranges) /\ pc[Encoder] = "acquire"
        /\ UNCHANGED <<run, active, pool, nextId, range, cloned, sig, out, dropped>>
    BY <1>2, EncoderFrom DEF EncoderAcquire, At, control, history
  <2>2. /\ BufferTypeOK' /\ UNCHANGED clone
        /\ \/ Waits(Encoder) \/ Fails(Encoder)
           \/ /\ cv'[Encoder] \notin Conditions /\ head \in Frames
              /\ cur' = [cur EXCEPT ![Encoder] = head]
    BY <1>0, <1>2, RetrieveEffect DEF EncoderAcquire
  <2>3. CASE Waits(Encoder)
    <3>1. pc' = [pc EXCEPT ![Encoder] = "acquire"] /\ cur' = cur
      BY <1>2, <2>1, <2>3 DEF EncoderAcquire, Goto, AfterClaim, Waits
    <3> QED
      BY <1>0, <2>1, <2>2, <3>1, EncoderMove DEF EncoderPC
  <2>4. CASE Fails(Encoder)
    <3>1. pc' = [pc EXCEPT ![Encoder] = "range"] /\ cur' = [cur EXCEPT ![Encoder] = NoFrame]
      BY <1>0, <1>2, <2>4 DEF EncoderAcquire, Goto, AfterClaim, Fails, BufferTypeOK
    <3> QED
      BY <1>0, <2>1, <2>2, <3>1, EncoderMove DEF EncoderPC
  <2>5. CASE /\ cv'[Encoder] \notin Conditions /\ head \in Frames
             /\ cur' = [cur EXCEPT ![Encoder] = head]
    <3>1. pc' = [pc EXCEPT ![Encoder] = "process"] /\ head # NoFrame
      BY <1>0, <1>2, <2>5, PointerFacts DEF EncoderAcquire, Goto, AfterClaim, BufferTypeOK
    <3> QED
      BY <1>0, <2>1, <2>2, <2>5, <3>1, EncoderMove DEF EncoderPC
  <2> QED
    BY <2>2, <2>3, <2>4, <2>5
<1>3. CASE EncoderProcess
  <2>1. /\ f \in Frames /\ f # NoFrame /\ range <= Len(Ranges)
    BY <1>3, EncoderFrom, PointerFacts DEF EncoderProcess, At
  <2>2. attributes[f] \in SUBSET Attributes /\ id[f] \in Nat
    BY <1>0, <2>1 DEF BufferTypeOK
  <2>3. Filtered(EncoderSlots, attributes[f]) \subseteq SUBSET Attributes
    BY <2>2, FilteredType DEF EncoderSlots, Slots
  <2>4. PICK a \in SUBSET Attributes :
             \/ /\ attributes' = [attributes EXCEPT ![f] = Recloned(a)]
                /\ CountClone(a)
                /\ Drop(Encoder)
                /\ Goto(Encoder, "acquire")
             \/ /\ attributes' = [attributes EXCEPT ![f] = Recloned(a)]
                /\ Release(Encoder)
                /\ Goto(Encoder, "acquire")
                /\ UNCHANGED <<ring, chain, id, cv, cloned, dropped>>
             \/ /\ attributes' = [attributes EXCEPT ![f] = a \ {"END_OF_STREAM"}]
                /\ \/ Goto(Encoder, "range") /\ Release(Encoder)
                   \/ Goto(Encoder, "dispose") /\ UNCHANGED cur
                /\ UNCHANGED <<ring, chain, id, cv, cloned, dropped>>
    BY <1>3, <2>2, <2>3 DEF EncoderProcess
  <2>5. /\ UNCHANGED <<clone, run, active, pool, nextId, range, sig, out>>
        /\ cloned' \in Nat
    BY <1>0, <1>3, <2>4, CountCloneType DEF EncoderProcess
  <2>6. Recloned(a) \in SUBSET Attributes
    BY DEF Recloned, Attributes
  <2> HIDE DEF f
  <2>7. attributes' \in [Frames -> SUBSET Attributes]
    <3>1. PICK b \in SUBSET Attributes : attributes' = [attributes EXCEPT ![f] = b]
      BY <2>4, <2>6
    <3> QED
      BY <1>0, <3>1 DEF BufferTypeOK
  <2>8. CASE Drop(Encoder) /\ Goto(Encoder, "acquire")
    <3>1. /\ Remove(f) /\ cur' = [cur EXCEPT ![Encoder] = NoFrame]
          /\ dropped' = dropped \cup {id[f]} /\ pc' = [pc EXCEPT ![Encoder] = "acquire"]
      BY <2>8 DEF Drop, Release, Goto, f
    <3>2. cur' \in [Threads -> FramePtr] /\ clone' \in [Workers -> FramePtr]
      BY <1>0, <2>5, <3>1 DEF BufferTypeOK, FramePtr
    <3>3. BufferTypeOK'
      BY <1>0, <2>1, <2>7, <3>1, <3>2, RemoveEffect
    <3>4. dropped' \in SUBSET Nat
      BY <1>0, <2>2, <3>1
    <3> QED
      BY <1>0, <2>1, <2>5, <3>1, <3>3, <3>4, EncoderMove DEF EncoderPC
  <2>9. CASE UNCHANGED <<ring, chain, id, cv, cloned, dropped>>
    <3>1. \/ /\ cur' = [cur EXCEPT ![Encoder] = NoFrame]
             /\ \E l \in {"acquire", "range"} : pc' = [pc EXCEPT ![Encoder] = l]
          \/ /\ cur' = cur /\ pc' = [pc EXCEPT ![Encoder] = "dispose"]
      BY <2>4, <2>9 DEF Drop, Release, Goto
    <3>2. BufferTypeOK'
      BY <1>0, <2>5, <2>7, <2>9, <3>1 DEF BufferTypeOK, FramePtr, ring, chain
    <3>3. CASE /\ cur' = [cur EXCEPT ![Encoder] = NoFrame]
               /\ \E l \in {"acquire", "range"} : pc' = [pc EXCEPT ![Encoder] = l]
      BY <1>0, <2>1, <2>5, <2>9, <3>2, <3>3, EncoderMove DEF EncoderPC
    <3>4. CASE cur' = cur /\ pc' = [pc EXCEPT ![Encoder] = "dispose"]
      BY <1>0, <2>1, <2>5, <2>9, <3>2, <3>4, EncoderMove DEF EncoderPC, f
    <3> QED
      BY <3>1, <3>3, <3>4
  <2> QED
    BY <2>4, <2>8, <2>9
<1>4. CASE EncoderDispose
  <2>1. /\ f \in Frames /\ f # NoFrame /\ range <= Len(Ranges)
    BY <1>4, EncoderFrom, PointerFacts DEF EncoderDispose, At
  <2>2. attributes[f] \in SUBSET Attributes /\ id[f] \in Nat
    BY <1>0, <2>1 DEF BufferTypeOK
  <2>3. PICK delay \in BOOLEAN, a \in SUBSET Attributes :
             /\ out' = IF InRange(f) /\ ~delay THEN Append(out, id[f]) ELSE out
             /\ CountClone(a)
             /\ attributes' = [attributes EXCEPT ![f] = Recloned(a)]
             /\ UNCHANGED <<ring, chain, id, cv>> \/ Remove(f)
    <3>1. PICK delay \in BOOLEAN :
             LET a == attributes[f] \cup IF ~InRange(f) THEN {"OUT_OF_RANGE"}
                                       ELSE IF delay THEN {"IS_CLONED"} ELSE {}
             IN /\ out' = IF InRange(f) /\ ~delay THEN Append(out, id[f]) ELSE out
                /\ CountClone(a)
                /\ attributes' = [attributes EXCEPT ![f] = Recloned(a)]
                /\ IF "IS_CLONED" \in a THEN UNCHANGED <<ring, chain, id, cv>>
                                        ELSE Remove(f)
      BY <1>4, PipelineAssumption DEF EncoderDispose
    <3>2. attributes[f] \cup (IF ~InRange(f) THEN {"OUT_OF_RANGE"}
                             ELSE IF delay THEN {"IS_CLONED"} ELSE {})
             \in SUBSET Attributes
      BY <2>2 DEF Attributes
    <3> QED
      BY <3>1, <3>2
  <2>4. Recloned(a) \in SUBSET Attributes
    BY DEF Recloned, Attributes
  <2>5. /\ cur' = [cur EXCEPT ![Encoder] = NoFrame]
        /\ pc' = [pc EXCEPT ![Encoder] = "need_stop"]
        /\ UNCHANGED <<clone, run, active, pool, nextId, range, sig, dropped>>
        /\ cloned' \in Nat
    BY <1>0, <1>4, <2>3, CountCloneType DEF EncoderDispose, Release, Goto
  <2> HIDE DEF f
  <2>6. attributes' \in [Frames -> SUBSET Attributes]
    BY <1>0, <2>3, <2>4 DEF BufferTypeOK
  <2>7. cur' \in [Threads -> FramePtr] /\ clone' \in [Workers -> FramePtr]
    BY <1>0, <2>5 DEF BufferTypeOK, FramePtr
  <2>8. BufferTypeOK'
    <3>1. CASE UNCHANGED <<ring, chain, id, cv>>
      BY <1>0, <2>6, <2>7, <3>1 DEF BufferTypeOK, ring, chain
    <3>2. CASE Remove(f)
      BY <1>0, <2>1, <2>6, <2>7, <3>2, RemoveEffect
    <3> QED
      BY <2>3, <3>1, <3>2
  <2>9. out' \in Seq(Nat)
    BY <1>0, <2>2, <2>3
  <2> QED
    BY <1>0, <2>1, <2>5, <2>8, <2>9, EncoderMove DEF EncoderPC
<1> QED
  BY <1>1, <1>2, <1>3, <1>4

MainThread ==
    \/ NextRange \/ StopAll \/ StopInterrupt \/ CancelImport \/ CancelWake
    \/ JoinImporter \/ Flush \/ PoolStop \/ PoolJoin

LEMMA TypedMain == Typed /\ MainThread => Typed'
<1> SUFFICES ASSUME Typed, MainThread PROVE Typed'
  OBVIOUS
<1> USE ThreadFacts
<1>0. /\ BufferTypeOK
      /\ run \in {"RUNNING", "STOPPED", "INTERRUPTED"}
      /\ active \in [Streams -> BOOLEAN] /\ pool \in BOOLEAN
      /\ range \in 1 .. Len(Ranges) + 1 /\ Len(Ranges) \in Nat /\ cloned \in Nat
      /\ out \in Seq(Nat) /\ dropped \in SUBSET Nat
      /\ cur = [cur EXCEPT ![Encoder] = cur[Encoder]]
  BY EncoderFrom, RangeFacts
<1>1. pc[Encoder] \notin {"process", "dispose"}
  BY DEF MainThread, MainStep, NextRange, StopAll, StopInterrupt, CancelImport,
     CancelWake, JoinImporter, Flush, PoolStop, PoolJoin, At
<1>2. cur[Encoder] = NoFrame
  BY <1>1, EncoderFrom
<1>3. CASE NextRange
  <2>1. /\ UNCHANGED <<run, active, pool, nextId, cloned, sig, out, dropped>>
        /\ range <= Len(Ranges)
        /\ range' = IF run = "INTERRUPTED" \/ range = Len(Ranges)
                    THEN Len(Ranges) + 1 ELSE range + 1
        /\ \E l \in {"stop", "cancel", "need_stop"} :
              /\ pc' = [pc EXCEPT ![Encoder] = l]
              /\ l = "need_stop" => range' <= Len(Ranges)
    <3>1. /\ pc[Encoder] = "range" /\ range <= Len(Ranges)
          /\ UNCHANGED <<run, active, pool, nextId, cloned, sig, out, dropped>>
      BY <1>3, EncoderFrom DEF NextRange, MainStep, At, history
    <3>2. CASE run = "INTERRUPTED" \/ range = Len(Ranges)
      BY <1>3, <3>1, <3>2 DEF NextRange, MainStep, Goto
    <3>3. CASE ~(run = "INTERRUPTED" \/ range = Len(Ranges))
      <4>1. range' = range + 1 /\ range + 1 <= Len(Ranges)
        BY <1>0, <1>3, <3>1, <3>3 DEF NextRange
      <4>2. \E l \in {"cancel", "need_stop"} : pc' = [pc EXCEPT ![Encoder] = l]
        BY <1>3, <3>3 DEF NextRange, MainStep, Goto
      <4> QED
        BY <3>1, <3>3, <4>1, <4>2
    <3> QED
      BY <3>2, <3>3
  <2>2. BufferTypeOK' /\ UNCHANGED <<cur, clone>>
    BY <1>0, <1>3, BufferStutter DEF NextRange
  <2>3. range' \in 1 .. Len(Ranges) + 1
    BY <1>0, <2>1
  <2> QED
    BY <1>0, <1>2, <2>1, <2>2, <2>3, EncoderMove DEF EncoderPC
<1>4. CASE StopAll
  <2>1. BufferTypeOK' /\ UNCHANGED <<cur, clone>>
    BY <1>0, <1>4, BufferStutter DEF StopAll
  <2> QED
    BY <1>0, <1>2, <1>4, <2>1, EncoderMove
    DEF StopAll, MainStep, Goto, history, EncoderPC
<1>5. CASE StopInterrupt
  <2>1. BufferTypeOK' /\ UNCHANGED <<cur, clone>>
    BY <1>0, <1>5, WakeType DEF StopInterrupt
  <2> QED
    BY <1>0, <1>2, <1>5, <2>1, EncoderMove
    DEF StopInterrupt, MainStep, Goto, control, history, EncoderPC
<1>6. CASE CancelImport
  <2>1. BufferTypeOK' /\ UNCHANGED <<cur, clone>>
    BY <1>0, <1>6, BufferStutter DEF CancelImport
  <2> QED
    BY <1>0, <1>2, <1>6, <2>1, EncoderMove
    DEF CancelImport, MainStep, Goto, history, EncoderPC
<1>7. CASE CancelWake
  <2>1. BufferTypeOK' /\ UNCHANGED <<cur, clone>>
    BY <1>0, <1>7, WakeType DEF CancelWake
  <2> QED
    BY <1>0, <1>2, <1>7, <2>1, EncoderMove
    DEF CancelWake, MainStep, Goto, control, history, EncoderPC
<1>8. CASE JoinImporter
  <2>1. BufferTypeOK' /\ UNCHANGED <<cur, clone>>
    BY <1>0, <1>8, BufferStutter DEF JoinImporter
  <2>2. /\ UNCHANGED <<run, active, pool, nextId, range, cloned, sig, out, dropped>>
        /\ pc[Importer] = "exit"
        /\ pc' = [pc EXCEPT ![Encoder] =
                     IF range > Len(Ranges) THEN "pool_stop" ELSE "flush"]
    BY <1>8 DEF JoinImporter, MainStep, Goto, control, history
  <2>3. CASE range > Len(Ranges)
    BY <1>0, <1>2, <2>1, <2>2, <2>3, EncoderMove DEF EncoderPC
  <2>4. CASE ~(range > Len(Ranges))
    <3>1. range <= Len(Ranges)
      BY <1>0, <2>4
    <3> QED
      BY <1>0, <1>2, <2>1, <2>2, <2>4, <3>1, EncoderMove DEF EncoderPC
  <2> QED
    BY <2>3, <2>4
<1>9. CASE Flush
  <2>1. /\ pc[Encoder] = "flush" /\ range <= Len(Ranges) /\ pc[Importer] = "exit"
        /\ UNCHANGED <<run, active, pool, nextId, range, cloned, sig, out, dropped>>
    BY <1>9, EncoderFrom DEF Flush, At, control, history
  <2>2. CASE HeadReady /\ Remove(head) /\ UNCHANGED <<pc, attributes, cur, clone>>
    <3>1. head \in Frames
      BY <1>0, <2>2 DEF HeadReady, BufferTypeOK, FramePtr
    <3>2. BufferTypeOK'
      BY <1>0, <2>2, <3>1, RemoveEffect DEF BufferTypeOK
    <3>3. pc' = [pc EXCEPT ![Encoder] = "flush"]
      BY <2>1, <2>2 DEF Typed, TypeOK
    <3> QED
      BY <1>0, <1>2, <2>1, <2>2, <3>2, <3>3, EncoderMove DEF EncoderPC
  <2>3. CASE Goto(Encoder, "create") /\ UNCHANGED fbvars
    <3>1. BufferTypeOK' /\ UNCHANGED <<cur, clone>>
      BY <1>0, <2>3, BufferStutter
    <3> QED
      BY <1>0, <1>2, <2>1, <2>3, <3>1, EncoderMove DEF EncoderPC, Goto
  <2> QED
    BY <1>9, <2>2, <2>3 DEF Flush
<1>10. CASE PoolStop
  <2>1. BufferTypeOK' /\ UNCHANGED <<cur, clone>>
    BY <1>0, <1>10, BufferStutter DEF PoolStop
  <2> QED
    BY <1>0, <1>2, <1>10, <2>1, EncoderMove
    DEF PoolStop, MainStep, Goto, history, EncoderPC
<1>11. CASE PoolJoin
  <2>1. BufferTypeOK' /\ UNCHANGED <<cur, clone>>
    BY <1>0, <1>11, BufferStutter DEF PoolJoin
  <2> QED
    BY <1>0, <1>2, <1>11, <2>1, EncoderMove
    DEF PoolJoin, MainStep, Goto, control, history, EncoderPC
<1> QED
  BY <1>3, <1>4, <1>5, <1>6, <1>7, <1>8, <1>9, <1>10, <1>11 DEF MainThread

\* The next range's importer starts where the last one has ended.
LEMMA TypedCreate == Typed /\ CreateImporter => Typed'
<1> SUFFICES ASSUME Typed, CreateImporter PROVE Typed'
  OBVIOUS
<1> USE ThreadFacts
<1>1. /\ BufferTypeOK' /\ UNCHANGED <<cur, clone>>
      /\ UNCHANGED <<run, pool, nextId, range, cloned, sig, out, dropped>>
      /\ active' = [m \in Streams |-> TRUE]
      /\ pc' = [pc EXCEPT ![Encoder] = "need_stop", ![Importer] = "loop"]
      /\ pc[Importer] = "exit" /\ pc[Encoder] = "create" /\ range <= Len(Ranges)
  BY BufferStutter, EncoderFrom DEF CreateImporter, At, history
<1>2. TypeOK'
  BY <1>1 DEF Typed, TypeOK, ImporterPC, WorkerPC, EncoderPC
<1>3. Held'
  BY <1>1 DEF Typed, TypeOK, Held
<1>4. MainInOrder'
  BY <1>1 DEF Typed, TypeOK, MainInOrder
<1> QED
  BY <1>2, <1>3, <1>4 DEF Typed

LEMMA TypedSignal == Typed /\ SignalStep => Typed'
<1> SUFFICES ASSUME Typed, SignalStep PROVE Typed'
  OBVIOUS
<1>1. CASE SignalRaise
  <2>1. BufferTypeOK' /\ UNCHANGED <<cur, clone>>
    BY <1>1, BufferStutter DEF SignalRaise, Typed, TypeOK
  <2> QED
    BY <1>1, <2>1 DEF SignalRaise, Typed, TypeOK, Held, MainInOrder, history
<1>2. CASE SignalWake
  <2>1. BufferTypeOK' /\ UNCHANGED <<cur, clone>>
    BY <1>2, WakeType DEF SignalWake, Typed, TypeOK
  <2> QED
    BY <1>2, <2>1 DEF SignalWake, Typed, TypeOK, Held, MainInOrder, history
<1> QED
  BY <1>1, <1>2 DEF SignalStep

LEMMA TypedStutter == Typed /\ UNCHANGED vars => Typed'
BY BufferStutter
DEF Typed, TypeOK, Held, MainInOrder, vars, control, history, fbvars

LEMMA TypedNext == Typed /\ [Next]_vars => Typed'
BY TypedImporter, TypedWorker, TypedEncoderLoop, TypedMain, TypedCreate, TypedSignal,
   TypedStutter
DEF Next, EncoderStep, MainThread, Terminated

\* Every variable keeps its type and every thread is at a line of its own program, for
\* every size of the ring and the pool and every filter.
THEOREM TypeCorrect == Spec => []TypeOK
<1>1. Typed => TypeOK
  BY DEF Typed
<1> QED
  BY TypedInit, TypedNext, <1>1, PTL DEF Spec

\* A thread has a frame exactly where its code works on one: no frame is lost between a
\* claim and push_next or remove, and none is given up twice.
THEOREM PointersHeld == Spec => []Held
<1>1. Typed => Held
  BY DEF Typed
<1> QED
  BY TypedInit, TypedNext, <1>1, PTL DEF Spec

\* The main thread flushes and restarts the import only after the last importer ended,
\* and has an encoding range wherever it reads one.
THEOREM MainStepsInOrder == Spec => []MainInOrder
<1>1. Typed => MainInOrder
  BY DEF Typed
<1> QED
  BY TypedInit, TypedNext, <1>1, PTL DEF Spec

-----------------------------------------------------------------------------
(***************************************************************************)
(* A frame belongs to one thread at a time, and the ring's counters follow *)
(* the frames from hand to hand.  Seen from the statuses, the counters and *)
(* the pointers, every step of the pipeline is one of eight transfers;     *)
(* NextTransfers shows it, and the invariants are proved of the transfers. *)
(*                                                                         *)
(* The second part is about the runs whose filters never set one of the    *)
(* two marks.  A mark no filter sets is on no frame, and no worker is at   *)
(* the lines that handle it.  Without the clone mark the counters of the   *)
(* ring are exact: the drift of wait and locked comes from {a,v}frame_dup  *)
(* alone.  (The audio encoder may mark a frame as cloned while video is    *)
(* delayed, but it takes the mark back before a worker could see it.)      *)
(*                                                                         *)
(* The last part is about wake-ups.  The three condition variables of a    *)
(* stream are signalled to one thread at a time and not remembered; what   *)
(* makes this enough is who may sleep where (Beds), that a thread falls    *)
(* asleep only when there is nothing for it, and that whoever changes this *)
(* signals.                                                                *)
(***************************************************************************)

Stay == UNCHANGED <<status, count, cur, clone>>

\* The pointer is forgotten, the frame stays where it is.
Forget(t) ==
    /\ cur' = [cur EXCEPT ![t] = NoFrame]
    /\ UNCHANGED <<status, count, clone>>

\* A thread claims a frame nobody has.
Take(t, f, s) ==
    /\ s \in {"NULL", "WAIT"}
    /\ Restatus(f, s, Stage(t))
    /\ count' = Move(s, Stage(t))
    /\ cur' = [cur EXCEPT ![t] = f]
    /\ UNCHANGED clone

\* The encoder takes a ready frame without changing its status.
TakeReady(f) ==
    /\ f \in Frames /\ status[f] = "READY"
    /\ cur' = [cur EXCEPT ![Encoder] = f]
    /\ UNCHANGED <<status, count, clone>>

\* A worker gets a copy, counted as WAIT.
TakeCopy(w, p) ==
    /\ Restatus(p, "NULL", "LOCKED")
    /\ count' = Move("NULL", "WAIT")
    /\ clone' = [clone EXCEPT ![w] = p]
    /\ UNCHANGED cur

Give(t, s) ==
    /\ s # Stage(t)
    /\ Restatus(cur[t], Stage(t), s)
    /\ count' = Move(Stage(t), s)
    /\ cur' = [cur EXCEPT ![t] = NoFrame]
    /\ UNCHANGED clone

GiveCopy(w) ==
    /\ Restatus(clone[w], "LOCKED", "WAIT")
    /\ count' = Move("LOCKED", "WAIT")
    /\ clone' = [clone EXCEPT ![w] = NoFrame]
    /\ UNCHANGED cur

\* The flush takes a ready frame out of the encoder's reach.
Discard(f) ==
    /\ cur[Encoder] = NoFrame
    /\ Restatus(f, "READY", "NULL")
    /\ count' = Move("READY", "NULL")
    /\ UNCHANGED <<cur, clone>>

Transfer ==
    \/ Stay
    \/ \E t \in Threads : Forget(t)
    \/ \E t \in Threads, f \in Frames, s \in Status : Take(t, f, s)
    \/ \E f \in Frames : TakeReady(f)
    \/ \E w \in Workers, p \in Frames : TakeCopy(w, p)
    \/ \E t \in Threads, s \in Status : Give(t, s)
    \/ \E w \in Workers : GiveCopy(w)
    \/ \E f \in Frames : Discard(f)

LEMMA StageFacts ==
    /\ Stage(Importer) = "EMPTY" /\ Stage(Encoder) = "READY"
    /\ \A w \in Workers : Stage(w) = "LOCKED"
    /\ \A t \in Threads : Stage(t) \in {"EMPTY", "READY", "LOCKED"}
BY ThreadFacts DEF Stage

\* NoDoubleClaim, one pair of pointers at a time.
Apart ==
    /\ \A t \in Threads : cur[t] # NoFrame => status[cur[t]] = Stage(t)
    /\ \A w \in Workers : clone[w] # NoFrame => status[clone[w]] = "LOCKED"
    /\ \A t, u \in Threads : t # u /\ cur[t] # NoFrame => cur[t] # cur[u]
    /\ \A w, v \in Workers : w # v /\ clone[w] # NoFrame => clone[w] # clone[v]
    /\ \A w \in Workers, t \in Threads : clone[w] # NoFrame => clone[w] # cur[t]

LEMMA ApartMeans == NoDoubleClaim <=> Apart
<1> USE ThreadFacts, StageFacts
<1>1. ASSUME NoDoubleClaim PROVE Apart
  <2>1. \A t \in Threads : cur[t] # NoFrame => cur[t] \in Holds(t)
    BY DEF Holds
  <2>2. \A w \in Workers : clone[w] # NoFrame => clone[w] \in Holds(w)
    BY DEF Holds
  <2>3. \A w \in Workers, t \in Threads : clone[w] # NoFrame => clone[w] # cur[t]
    BY <1>1, <2>1, <2>2 DEF NoDoubleClaim
  <2> QED
    BY <1>1, <2>1, <2>2, <2>3 DEF NoDoubleClaim, Apart
<1>2. ASSUME Apart PROVE NoDoubleClaim
  <2>1. \A t \in Threads : \A f \in Holds(t) :
           f # NoFrame /\ (f = cur[t] \/ (t \in Workers /\ f = clone[t]))
    BY DEF Holds
  <2>2. \A t, u \in Threads : t # u => Holds(t) \cap Holds(u) = {}
    BY <1>2, <2>1 DEF Apart
  <2>3. \A t \in Threads : \A f \in Holds(t) : status[f] = Stage(t)
    BY <1>2, <2>1 DEF Apart
  <2> QED
    BY <1>2, <2>2, <2>3 DEF NoDoubleClaim, Apart
<1> QED
  BY <1>1, <1>2

\* Every transfer leaves the pointers apart: a claim takes a frame with a status no
\* owned frame has, and a gift forgets the pointer.
LEMMA TransferKeepsApart == BufferTypeOK /\ Apart /\ Transfer => Apart'
<1> SUFFICES ASSUME BufferTypeOK, Apart, Transfer PROVE Apart'
  OBVIOUS
<1> USE ThreadFacts, StageFacts, PointerFacts
<1>0. /\ \A t \in Threads : Stage(t)' = Stage(t)
      /\ cur \in [Threads -> FramePtr] /\ clone \in [Workers -> FramePtr]
      /\ status \in [Frames -> Status]
  BY DEF Stage, BufferTypeOK
<1>1. CASE Stay
  BY <1>0, <1>1 DEF Stay, Apart
<1>2. CASE \E t \in Threads : Forget(t)
  BY <1>0, <1>2 DEF Forget, Apart
<1>3. CASE \E t \in Threads, f \in Frames, s \in Status : Take(t, f, s)
  <2> PICK t \in Threads, f \in Frames, s \in Status : Take(t, f, s)
    BY <1>3
  <2>1. /\ status[f] \notin {"EMPTY", "READY", "LOCKED"}
        /\ status' = [status EXCEPT ![f] = Stage(t)]
        /\ cur' = [cur EXCEPT ![t] = f] /\ clone' = clone
    BY DEF Take, Restatus
  <2>2. /\ \A u \in Threads : cur[u] # f
        /\ \A w \in Workers : clone[w] # f
    BY <2>1 DEF Apart
  <2> QED
    BY <1>0, <2>1, <2>2 DEF Apart, FramePtr
<1>4. CASE \E f \in Frames : TakeReady(f)
  <2> PICK f \in Frames : TakeReady(f)
    BY <1>4
  <2>1. /\ \A u \in Threads : u # Encoder => cur[u] # f
        /\ \A w \in Workers : clone[w] # f
    BY DEF TakeReady, Apart, Stage
  <2> QED
    BY <1>0, <2>1 DEF TakeReady, Apart
<1>5. CASE \E w \in Workers, p \in Frames : TakeCopy(w, p)
  <2> PICK w \in Workers, p \in Frames : TakeCopy(w, p)
    BY <1>5
  <2>1. /\ status[p] = "NULL" /\ status' = [status EXCEPT ![p] = "LOCKED"]
        /\ clone' = [clone EXCEPT ![w] = p] /\ cur' = cur
    BY DEF TakeCopy, Restatus
  <2>2. /\ \A u \in Threads : cur[u] # p
        /\ \A v \in Workers : clone[v] # p
    BY <2>1 DEF Apart
  <2> QED
    BY <1>0, <2>1, <2>2 DEF Apart, FramePtr
<1>6. CASE \E t \in Threads, s \in Status : Give(t, s)
  <2> PICK t \in Threads, s \in Status : Give(t, s)
    BY <1>6
  <2>1. /\ cur[t] \in Frames /\ status' = [status EXCEPT ![cur[t]] = s]
        /\ cur' = [cur EXCEPT ![t] = NoFrame] /\ clone' = clone
    BY DEF Give, Restatus
  <2>2. /\ \A u \in Threads : u # t => cur[u] # cur[t]
        /\ \A v \in Workers : clone[v] # cur[t]
    BY <2>1 DEF Apart
  <2> QED
    BY <1>0, <2>1, <2>2 DEF Apart, FramePtr
<1>7. CASE \E w \in Workers : GiveCopy(w)
  <2> PICK w \in Workers : GiveCopy(w)
    BY <1>7
  <2>1. /\ clone[w] \in Frames /\ status' = [status EXCEPT ![clone[w]] = "WAIT"]
        /\ clone' = [clone EXCEPT ![w] = NoFrame] /\ cur' = cur
    BY DEF GiveCopy, Restatus
  <2>2. /\ \A u \in Threads : cur[u] # clone[w]
        /\ \A v \in Workers : v # w => clone[v] # clone[w]
    BY <2>1 DEF Apart
  <2> QED
    BY <1>0, <2>1, <2>2 DEF Apart, FramePtr
<1>8. CASE \E f \in Frames : Discard(f)
  <2> PICK f \in Frames : Discard(f)
    BY <1>8
  <2>1. /\ status[f] = "READY" /\ status' = [status EXCEPT ![f] = "NULL"]
        /\ cur' = cur /\ clone' = clone /\ cur[Encoder] = NoFrame
    BY DEF Discard, Restatus
  <2>2. /\ \A u \in Threads : cur[u] # f
        /\ \A w \in Workers : clone[w] # f
    BY <2>1 DEF Apart, Stage
  <2> QED
    BY <1>0, <2>1, <2>2 DEF Apart, FramePtr
<1> QED
  BY <1>1, <1>2, <1>3, <1>4, <1>5, <1>6, <1>7, <1>8 DEF Transfer

-----------------------------------------------------------------------------
(* Every step is a transfer.                                                *)

LEMMA ImporterTransfers == Typed /\ Apart /\ ImporterStep => Transfer
<1> SUFFICES ASSUME Typed, Apart, ImporterStep PROVE Transfer
  OBVIOUS
<1> USE ThreadFacts, StageFacts
<1>0. BufferTypeOK /\ nextId \in Nat
  BY DEF Typed, TypeOK
<1>1. CASE ImportLoop \/ ImportEnd
  BY <1>1 DEF ImportLoop, ImportEnd, fbvars, ring, Transfer, Stay
<1>2. CASE ImportRegister
  <2>1. \/ Waits(Importer) \/ Fails(Importer)
        \/ \E f : Claims(Importer, f, "NULL", "EMPTY")
    BY <1>0, <1>2, RegisterEffect DEF ImportRegister
  <2>2. CASE Waits(Importer)
    BY <2>2 DEF Waits, Transfer, Stay
  <2>3. CASE Fails(Importer)
    BY <2>3 DEF Fails, Transfer, Forget
  <2>4. CASE \E f : Claims(Importer, f, "NULL", "EMPTY")
    <3> PICK f : Claims(Importer, f, "NULL", "EMPTY")
      BY <2>4
    <3>1. f \in Frames /\ Take(Importer, f, "NULL")
      BY DEF Claims, Restatus, Take
    <3> QED
      BY <3>1 DEF Transfer, Status
  <2> QED
    BY <2>1, <2>2, <2>3, <2>4
<1>3. CASE ImportFill
  <2>1. /\ cur[Importer] # NoFrame /\ cur[Importer] \in Frames
        /\ status[cur[Importer]] = "EMPTY"
    BY <1>0, <1>3 DEF ImportFill, At, Typed, Held, Apart, BufferTypeOK, FramePtr
  <2>2. Give(Importer, AfterImport) /\ AfterImport \in Status
    BY <1>3, <2>1
    DEF ImportFill, PushNext, Release, Give, Restatus, AfterImport, Status
  <2> QED
    BY <2>2 DEF Transfer
<1> QED
  BY <1>1, <1>2, <1>3 DEF ImporterStep

LEMMA WorkerTransfers ==
    ASSUME NEW w \in Workers PROVE Typed /\ Apart /\ WorkerStep(w) => Transfer
<1> SUFFICES ASSUME Typed, Apart, WorkerStep(w) PROVE Transfer
  OBVIOUS
<1> USE ThreadFacts, StageFacts
<1>0. BufferTypeOK
  BY DEF Typed, TypeOK
<1>1. CASE WorkerCheck(w) \/ WorkerHalt(w) \/ WorkerFrame(w) \/ WorkerPost(w)
  BY <1>1 DEF WorkerCheck, WorkerHalt, WorkerFrame, WorkerPost, fbvars, ring,
     Transfer, Stay
<1>2. CASE WorkerReserve(w)
  <2>1. Waits(w) \/ Fails(w) \/ \E f : Claims(w, f, "WAIT", "LOCKED")
    BY <1>0, <1>2, ReserveEffect DEF WorkerReserve
  <2>2. CASE Waits(w)
    BY <2>2 DEF Waits, Transfer, Stay
  <2>3. CASE Fails(w)
    BY <2>3 DEF Fails, Transfer, Forget
  <2>4. CASE \E f : Claims(w, f, "WAIT", "LOCKED")
    <3> PICK f : Claims(w, f, "WAIT", "LOCKED")
      BY <2>4
    <3>1. f \in Frames /\ Take(w, f, "WAIT")
      BY DEF Claims, Restatus, Take
    <3> QED
      BY <3>1 DEF Transfer, Status
  <2> QED
    BY <2>1, <2>2, <2>3, <2>4
<1>3. ASSUME pc[w] \in Working
      PROVE  cur[w] \in Frames /\ status[cur[w]] = "LOCKED"
  BY <1>3, WorkerFrameIn, PointerFacts DEF Apart
<1>4. CASE WorkerDup(w)
  <2>1. Dup(w, cur[w], Running) /\ pc[w] = "dup" /\ clone[w] = NoFrame
    BY <1>4 DEF WorkerDup, At, Typed, Held
  <2>2. cur[w] \in Frames /\ status[cur[w]] = "LOCKED"
    BY <1>3, <2>1 DEF Working
  <2>3. cur' = cur /\ \/ Waits(w)
                      \/ /\ clone' = [clone EXCEPT ![w] = NoFrame]
                         /\ UNCHANGED <<status, count>>
                      \/ /\ \E p : /\ Restatus(p, "NULL", "LOCKED")
                                   /\ clone' = [clone EXCEPT ![w] = p]
                         /\ count' = Move("NULL", "WAIT")
    BY <1>0, <2>1, <2>2, DupEffect
  <2>4. CASE Waits(w)
    BY <2>4 DEF Waits, Transfer, Stay
  <2>5. CASE clone' = [clone EXCEPT ![w] = NoFrame] /\ UNCHANGED <<status, count>>
    BY <1>0, <2>1, <2>3, <2>5 DEF Transfer, Stay, BufferTypeOK
  <2>6. CASE /\ \E p : /\ Restatus(p, "NULL", "LOCKED")
                       /\ clone' = [clone EXCEPT ![w] = p]
             /\ count' = Move("NULL", "WAIT")
    <3> PICK p : Restatus(p, "NULL", "LOCKED") /\ clone' = [clone EXCEPT ![w] = p]
      BY <2>6
    <3>1. p \in Frames /\ TakeCopy(w, p)
      BY <2>3, <2>6 DEF TakeCopy, Restatus
    <3> QED
      BY <3>1 DEF Transfer
  <2> QED
    BY <2>3, <2>4, <2>5, <2>6
<1>5. CASE WorkerQueue(w)
  <2>1. clone[w] \in Frames /\ status[clone[w]] = "LOCKED"
    BY <1>0, <1>5 DEF WorkerQueue, At, Typed, Held, Apart, BufferTypeOK, FramePtr
  <2>2. GiveCopy(w)
    BY <1>5, <2>1 DEF WorkerQueue, PushNext, GiveCopy, Restatus
  <2> QED
    BY <2>2 DEF Transfer
<1>6. CASE WorkerPush(w)
  <2>1. cur[w] \in Frames /\ status[cur[w]] = "LOCKED"
    BY <1>3, <1>6 DEF WorkerPush, At, Working
  <2>2. Give(w, "READY")
    BY <1>6, <2>1 DEF WorkerPush, PushNext, Release, Give, Restatus
  <2> QED
    BY <2>2 DEF Transfer, Status
<1>7. CASE WorkerRemove(w)
  <2>1. cur[w] \in Frames /\ status[cur[w]] = "LOCKED"
    BY <1>3, <1>7 DEF WorkerRemove, At, Working
  <2>2. Give(w, "NULL")
    BY <1>7, <2>1
    DEF WorkerRemove, Drop, Remove, RemoveFrame, Release, Give, Restatus
  <2> QED
    BY <2>2 DEF Transfer, Status
<1> QED
  BY <1>1, <1>2, <1>4, <1>5, <1>6, <1>7 DEF WorkerStep

LEMMA EncoderTransfers == Typed /\ Apart /\ EncoderStep => Transfer
<1> SUFFICES ASSUME Typed, Apart, EncoderStep PROVE Transfer
  OBVIOUS
<1> USE ThreadFacts, StageFacts
<1>0. BufferTypeOK
  BY DEF Typed, TypeOK
<1>1. CASE \/ EncoderCheck \/ NextRange \/ StopAll \/ CancelImport
           \/ JoinImporter \/ CreateImporter \/ PoolStop \/ PoolJoin
  BY <1>1 DEF EncoderCheck, NextRange, StopAll, CancelImport, JoinImporter,
     CreateImporter, PoolStop, PoolJoin, fbvars, ring, Transfer, Stay
<1>2. CASE StopInterrupt \/ CancelWake
  BY <1>0, <1>2, WakeType DEF StopInterrupt, CancelWake, Transfer, Stay
<1>3. CASE EncoderAcquire
  <2>1. /\ UNCHANGED <<status, count, clone>>
        /\ \/ Waits(Encoder)
           \/ Fails(Encoder)
           \/ /\ head \in Frames /\ status[head] = "READY"
              /\ cur' = [cur EXCEPT ![Encoder] = head]
    BY <1>0, <1>3, RetrieveEffect DEF EncoderAcquire
  <2>2. CASE Waits(Encoder)
    BY <2>2 DEF Waits, Transfer, Stay
  <2>3. CASE Fails(Encoder)
    BY <2>3 DEF Fails, Transfer, Forget
  <2>4. CASE /\ head \in Frames /\ status[head] = "READY"
             /\ cur' = [cur EXCEPT ![Encoder] = head]
    <3>1. TakeReady(head)
      BY <2>1, <2>4 DEF TakeReady
    <3> QED
      BY <2>4, <3>1 DEF Transfer
  <2> QED
    BY <2>1, <2>2, <2>3, <2>4
<1>4. ASSUME pc[Encoder] \in {"process", "dispose"}
      PROVE  cur[Encoder] \in Frames /\ status[cur[Encoder]] = "READY"
  BY <1>4, EncoderFrom, PointerFacts DEF Apart
<1>5. ASSUME Remove(cur[Encoder]), Release(Encoder), UNCHANGED clone,
             pc[Encoder] \in {"process", "dispose"}
      PROVE  Transfer
  <2>1. Give(Encoder, "NULL")
    BY <1>4, <1>5 DEF Remove, RemoveFrame, Release, Give, Restatus
  <2> QED
    BY <2>1 DEF Transfer, Status
<1>6. CASE EncoderProcess
  <2>1. UNCHANGED clone /\ pc[Encoder] = "process"
    BY <1>6 DEF EncoderProcess, At
  <2>2. \/ Drop(Encoder)
        \/ UNCHANGED ring /\ (Release(Encoder) \/ UNCHANGED cur)
    BY <1>6 DEF EncoderProcess
  <2> QED
    BY <1>5, <2>1, <2>2 DEF Drop, Release, ring, Transfer, Stay, Forget
<1>7. CASE EncoderDispose
  <2>1. UNCHANGED clone /\ pc[Encoder] = "dispose" /\ Release(Encoder)
    BY <1>7 DEF EncoderDispose, At
  <2>2. Remove(cur[Encoder]) \/ UNCHANGED ring
    BY <1>7 DEF EncoderDispose
  <2> QED
    BY <1>5, <2>1, <2>2 DEF Release, ring, Transfer, Forget
<1>8. CASE Flush
  <2>1. CASE HeadReady /\ Remove(head) /\ UNCHANGED <<cur, clone>>
    <3>1. head \in Frames /\ status[head] = "READY"
      BY <1>0, <2>1 DEF HeadReady, BufferTypeOK, FramePtr
    <3>2. cur[Encoder] = NoFrame
      BY <1>8, EncoderFrom DEF Flush, At
    <3>3. Discard(head)
      BY <2>1, <3>1, <3>2 DEF Remove, RemoveFrame, Discard, Restatus
    <3> QED
      BY <3>1, <3>3 DEF Transfer
  <2>2. CASE UNCHANGED fbvars
    BY <2>2 DEF fbvars, ring, Transfer, Stay
  <2> QED
    BY <1>8, <2>1, <2>2 DEF Flush
<1> QED
  BY <1>1, <1>2, <1>3, <1>6, <1>7, <1>8 DEF EncoderStep

LEMMA NextTransfers == Typed /\ Apart /\ [Next]_vars => Transfer
<1> SUFFICES ASSUME Typed, Apart, [Next]_vars PROVE Transfer
  OBVIOUS
<1>1. CASE SignalStep
  BY <1>1, WakeType DEF SignalStep, SignalRaise, SignalWake, Typed, TypeOK,
     fbvars, ring, Transfer, Stay
<1>2. CASE UNCHANGED vars
  BY <1>2 DEF vars, fbvars, ring, Transfer, Stay
<1> QED
  BY <1>1, <1>2, ImporterTransfers, WorkerTransfers, EncoderTransfers
  DEF Next, Terminated

\* No two threads ever work on one frame, and a frame stays at the stage of the
\* thread that claimed it: whatever the threads do between the mutexes.
THEOREM ClaimedOnce == Spec => []NoDoubleClaim
<1>1. Init => Apart
  BY DEF Init, InitFrameBuffer, Apart
<1>2. Typed /\ Apart /\ [Next]_vars => Apart'
  BY NextTransfers, TransferKeepsApart DEF Typed, TypeOK
<1>3. Apart => NoDoubleClaim
  BY ApartMeans
<1> QED
  BY <1>1, <1>2, <1>3, TypedInit, TypedNext, PTL DEF Spec

-----------------------------------------------------------------------------
(* The counters.                                                            *)

\* The number of frames with a status.
Number(s) == Cardinality(With(s))

LEMMA NumberType == \A s : IsFiniteSet(With(s)) /\ Number(s) \in Nat
<1> TAKE s
<1>1. IsFiniteSet(Frames)
  BY FS_Interval, RingAssumption DEF Frames
<1>2. IsFiniteSet(With(s))
  BY <1>1, FS_Subset DEF With
<1> QED
  BY <1>2, FS_CardinalityType DEF Number

\* A frame that changes its status leaves one set and enters another.
LEMMA RestatusCounts ==
    ASSUME BufferTypeOK, NEW f, NEW from, NEW to, Restatus(f, from, to), from # to
    PROVE  \A s : Number(s)' = IF s = from THEN Number(s) - 1
                              ELSE IF s = to THEN Number(s) + 1 ELSE Number(s)
<1> TAKE s
<1>1. f \in Frames /\ status[f] = from /\ status' = [status EXCEPT ![f] = to]
  BY DEF Restatus
<1>2. IsFiniteSet(With(s))
  BY NumberType
<1>3. CASE s = from
  <2>1. With(s)' = With(s) \ {f} /\ f \in With(s)
    BY <1>1, <1>3 DEF With, BufferTypeOK
  <2> QED
    BY <1>2, <1>3, <2>1, FS_RemoveElement DEF Number
<1>4. CASE s = to
  <2>1. With(s)' = With(s) \cup {f} /\ f \notin With(s)
    BY <1>1, <1>4 DEF With, BufferTypeOK
  <2> QED
    BY <1>2, <1>4, <2>1, FS_AddElement DEF Number
<1>5. CASE s # from /\ s # to
  <2>1. With(s)' = With(s)
    BY <1>1, <1>5 DEF With, BufferTypeOK
  <2> QED
    BY <1>5, <2>1 DEF Number
<1> QED
  BY <1>3, <1>4, <1>5

LEMMA MoveCounts ==
    ASSUME BufferTypeOK, NEW from \in Status, NEW to \in Status, from # to,
           count' = Move(from, to)
    PROVE  \A s \in Status : count'[s] = IF s = from THEN count[s] - 1
                                       ELSE IF s = to THEN count[s] + 1 ELSE count[s]
BY DEF BufferTypeOK, Move

LEMMA PooledMeans ==
    CountersPooled <=> /\ \A s \in {"NULL", "EMPTY", "READY"} : count[s] = Number(s)
                       /\ count["WAIT"] + count["LOCKED"]
                            = Number("WAIT") + Number("LOCKED")
BY DEF CountersPooled, Number

\* A step that moves a frame and its count between the same two statuses.
LEMMA PooledMove ==
    ASSUME BufferTypeOK, CountersPooled, NEW f, NEW from \in Status, NEW to \in Status,
           from # to, Restatus(f, from, to), count' = Move(from, to)
    PROVE  CountersPooled'
<1> USE RestatusCounts, MoveCounts, NumberType, PooledMeans
<1>1. count \in [Status -> Int]
  BY DEF BufferTypeOK
<1>2. \A s \in {"NULL", "EMPTY", "READY"} : count'[s] = Number(s)'
  BY <1>1 DEF Status
<1>3. count'["WAIT"] + count'["LOCKED"] = Number("WAIT")' + Number("LOCKED")'
  BY <1>1 DEF Status
<1> QED
  BY <1>2, <1>3 DEF CountersPooled, Number

\* The copy is counted as WAIT and is LOCKED: the sum of the two is right.
LEMMA PooledCopy ==
    ASSUME BufferTypeOK, CountersPooled, NEW p, Restatus(p, "NULL", "LOCKED"),
           count' = Move("NULL", "WAIT")
    PROVE  CountersPooled'
<1> USE RestatusCounts, MoveCounts, NumberType, PooledMeans
<1>1. count \in [Status -> Int]
  BY DEF BufferTypeOK
<1>2. \A s \in {"NULL", "EMPTY", "READY"} : count'[s] = Number(s)'
  BY <1>1 DEF Status
<1>3. count'["WAIT"] + count'["LOCKED"] = Number("WAIT")' + Number("LOCKED")'
  BY <1>1 DEF Status
<1> QED
  BY <1>2, <1>3 DEF CountersPooled, Number

LEMMA TransferKeepsPooled == BufferTypeOK /\ CountersPooled /\ Transfer => CountersPooled'
<1> SUFFICES ASSUME BufferTypeOK, CountersPooled, Transfer PROVE CountersPooled'
  OBVIOUS
<1> USE StageFacts
<1>1. CASE UNCHANGED <<status, count>>
  BY <1>1 DEF CountersPooled, With
<1>2. CASE \E t \in Threads, f \in Frames, s \in Status : Take(t, f, s)
  BY <1>2, PooledMove DEF Take, Status
<1>3. CASE \E w \in Workers, p \in Frames : TakeCopy(w, p)
  BY <1>3, PooledCopy DEF TakeCopy
<1>4. CASE \E t \in Threads, s \in Status : Give(t, s)
  BY <1>4, PooledMove DEF Give, Status
<1>5. CASE \E w \in Workers : GiveCopy(w)
  BY <1>5, PooledMove DEF GiveCopy, Status
<1>6. CASE \E f \in Frames : Discard(f)
  BY <1>6, PooledMove DEF Discard, Status
<1> QED
  BY <1>1, <1>2, <1>3, <1>4, <1>5, <1>6 DEF Transfer, Stay, Forget, TakeReady

LEMMA InitCounts == Init => CountersPooled
<1> SUFFICES ASSUME Init PROVE CountersPooled
  OBVIOUS
<1>1. /\ With("NULL") = 0 .. Last - 1
      /\ \A s \in Status \ {"NULL"} : With(s) = {}
  BY DEF Init, InitFrameBuffer, With, Frames, Status
<1>2. Cardinality(With("NULL")) = Last
  BY <1>1, FS_Interval, RingAssumption
<1>3. \A s \in Status \ {"NULL"} : Cardinality(With(s)) = 0
  BY <1>1, FS_EmptySet
<1> QED
  BY <1>2, <1>3 DEF Init, InitFrameBuffer, CountersPooled, Status

\* What {a,v}frame_get_counters reports is right in every state, with clones and
\* whichever way a frame leaves the ring.
THEOREM PooledCountersRight == Spec => []CountersPooled
<1>1. Init => Apart
  BY DEF Init, InitFrameBuffer, Apart
<1>2. Typed /\ Apart /\ [Next]_vars => Apart'
  BY NextTransfers, TransferKeepsApart DEF Typed, TypeOK
<1>3. Typed /\ Apart /\ CountersPooled /\ [Next]_vars => CountersPooled'
  BY NextTransfers, TransferKeepsPooled DEF Typed, TypeOK
<1> QED
  BY <1>1, <1>2, <1>3, InitCounts, TypedInit, TypedNext, PTL DEF Spec

-----------------------------------------------------------------------------
(* Runs whose filters leave a mark alone.                                   *)

\* No filter sets the mark m.
Unused(m) == \A s \in Slots : m \notin Marks[s]

Unmarked(m) == \A f \in Frames : m \notin attributes[f]

\* The marks of filters, and the one a copy gets.
CopyMarks == {"SKIPPED", "IS_CLONED", "WAS_CLONED"}

\* No frame is marked as cloned, and the encoder never holds a video frame back.
MakesNoCopy == Media = "video" /\ Unused("IS_CLONED") /\ Unmarked("IS_CLONED")

LEMMA FiltersDoNotMark ==
    ASSUME NEW m, Unused(m), NEW slots \in SUBSET Slots, NEW a, m \notin a,
           NEW b \in Filtered(slots, a)
    PROVE  m \notin b
<1>1. PICK n : n \subseteq UNION {Marks[s] : s \in slots} /\ b = a \cup n
  BY DEF Filtered
<1>2. m \notin n
  BY <1>1 DEF Unused
<1> QED
  BY <1>1, <1>2

\* One frame gets new flags, without the mark.
LEMMA UnmarkedFlags ==
    ASSUME BufferTypeOK, NEW m, Unmarked(m), NEW g, NEW a, m \notin a,
           attributes' = [attributes EXCEPT ![g] = a]
    PROVE  Unmarked(m)'
BY DEF BufferTypeOK, Unmarked

LEMMA UnmarkedImporter ==
    ASSUME NEW m \in CopyMarks, Unused(m)
    PROVE  Typed /\ Unmarked(m) /\ ImporterStep => Unmarked(m)'
<1> SUFFICES ASSUME Typed, Unmarked(m), ImporterStep PROVE Unmarked(m)'
  OBVIOUS
<1>0. BufferTypeOK
  BY DEF Typed, TypeOK
<1>1. CASE ImportLoop \/ ImportEnd
  BY <1>1 DEF ImportLoop, ImportEnd, fbvars, Unmarked
<1>2. CASE ImportRegister
  <2>1. \/ UNCHANGED attributes
        \/ \E f \in Frames : attributes' = [attributes EXCEPT ![f] = {}]
    BY <1>2 DEF ImportRegister, Register, Sleep, GiveUp, ClaimEmpty
  <2> QED
    BY <1>0, <2>1, UnmarkedFlags DEF Unmarked
<1>3. CASE ImportFill
  <2>1. PICK a : /\ attributes' = [attributes EXCEPT ![cur[Importer]] = a]
                 /\ \/ a \in {{}, {"OUT_OF_RANGE"}, {"END_OF_STREAM"}}
                    \/ \E b \in {{}, {"OUT_OF_RANGE"}} : a \in Filtered({"PRE_S"}, b)
    BY <1>3 DEF ImportFill
  <2>2. m \notin a
    BY <2>1, FiltersDoNotMark DEF Slots, CopyMarks
  <2> QED
    BY <1>0, <2>1, <2>2, UnmarkedFlags
<1> QED
  BY <1>1, <1>2, <1>3 DEF ImporterStep

LEMMA UnmarkedWorker ==
    ASSUME NEW m \in CopyMarks, Unused(m), NEW w \in Workers,
           m = "WAS_CLONED" => pc[w] # "queue"
    PROVE  Typed /\ Unmarked(m) /\ WorkerStep(w) => Unmarked(m)'
<1> SUFFICES ASSUME Typed, Unmarked(m), WorkerStep(w) PROVE Unmarked(m)'
  OBVIOUS
<1>0. BufferTypeOK
  BY DEF Typed, TypeOK
<1>1. CASE WorkerCheck(w) \/ WorkerHalt(w) \/ WorkerPush(w) \/ WorkerRemove(w)
  BY <1>1 DEF WorkerCheck, WorkerHalt, WorkerPush, WorkerRemove, fbvars, Unmarked
<1>2. CASE WorkerReserve(w)
  BY <1>2 DEF WorkerReserve, Reserve, Sleep, GiveUp, LockWaiting, Unmarked
<1>3. ASSUME pc[w] \in Working PROVE cur[w] \in Frames /\ m \notin attributes[cur[w]]
  BY <1>3, WorkerFrameIn DEF Unmarked
<1>4. CASE WorkerFrame(w)
  <2>1. m \notin attributes[cur[w]]
    BY <1>3, <1>4 DEF WorkerFrame, At, Working
  <2>2. \/ UNCHANGED attributes
        \/ \E a \in Filtered({"PRE_M"}, attributes[cur[w]]) :
              attributes' = [attributes EXCEPT ![cur[w]] = a]
    BY <1>4 DEF WorkerFrame
  <2>3. \A a \in Filtered({"PRE_M"}, attributes[cur[w]]) : m \notin a
    BY <2>1, FiltersDoNotMark DEF Slots
  <2> QED
    BY <1>0, <2>2, <2>3, UnmarkedFlags DEF Unmarked
<1>5. CASE WorkerDup(w)
  <2>1. cur[w] \in Frames /\ m \notin attributes[cur[w]]
    BY <1>3, <1>5 DEF WorkerDup, At, Working
  <2>2. \/ UNCHANGED attributes
        \/ \E p \in Frames : attributes' = [attributes EXCEPT ![p] = attributes[cur[w]]]
    BY <1>5 DEF WorkerDup, Dup, Sleep, ClaimCopy
  <2> QED
    BY <1>0, <2>1, <2>2, UnmarkedFlags DEF Unmarked
<1>6. CASE WorkerQueue(w)
  <2>1. \A f \in Frames : attributes'[f] \in
           {attributes[f], attributes[f] \ {"IS_CLONED"},
            (attributes[f] \ {"IS_CLONED"}) \cup {"WAS_CLONED"}}
    BY <1>0, <1>6 DEF WorkerQueue, BufferTypeOK
  <2>2. m # "WAS_CLONED"
    BY <1>6 DEF WorkerQueue, At
  <2> QED
    BY <2>1, <2>2 DEF Unmarked
<1>7. CASE WorkerPost(w)
  <2>1. m \notin attributes[cur[w]]
    BY <1>3, <1>7 DEF WorkerPost, At, Working
  <2>2. PICK a \in Filtered({"POST_M"}, attributes[cur[w]]) :
              attributes' = [attributes EXCEPT ![cur[w]] = a]
    BY <1>7 DEF WorkerPost
  <2>3. m \notin a
    BY <2>1, FiltersDoNotMark DEF Slots
  <2> QED
    BY <1>0, <2>2, <2>3, UnmarkedFlags
<1> QED
  BY <1>1, <1>2, <1>4, <1>5, <1>6, <1>7 DEF WorkerStep

LEMMA UnmarkedEncoder ==
    ASSUME NEW m \in CopyMarks, Unused(m)
    PROVE  Typed /\ Unmarked(m) /\ (m = "WAS_CLONED" => MakesNoCopy) /\ EncoderStep
             => Unmarked(m)'
<1> SUFFICES ASSUME Typed, Unmarked(m), m = "WAS_CLONED" => MakesNoCopy, EncoderStep
             PROVE  Unmarked(m)'
  OBVIOUS
<1>0. BufferTypeOK
  BY DEF Typed, TypeOK
<1>1. CASE \/ EncoderCheck \/ NextRange \/ StopAll \/ CancelImport \/ JoinImporter
           \/ CreateImporter \/ PoolStop \/ PoolJoin
  BY <1>1 DEF EncoderCheck, NextRange, StopAll, CancelImport, JoinImporter,
     CreateImporter, PoolStop, PoolJoin, fbvars, Unmarked
<1>2. CASE StopInterrupt \/ CancelWake \/ EncoderAcquire \/ Flush
  BY <1>2 DEF StopInterrupt, CancelWake, EncoderAcquire, Flush, Interrupt,
     InterruptImport, Retrieve, Sleep, GiveUp, fbvars, Unmarked
<1>3. ASSUME pc[Encoder] \in {"process", "dispose"}
      PROVE  m \notin attributes[cur[Encoder]]
  BY <1>3, EncoderFrom DEF Unmarked
<1>4. \A a : /\ "IS_CLONED" \notin Recloned(a)
             /\ "SKIPPED" \notin a => "SKIPPED" \notin Recloned(a)
             /\ "IS_CLONED" \notin a => Recloned(a) = a
  BY DEF Recloned
<1>5. CASE EncoderProcess
  <2>1. /\ m \notin attributes[cur[Encoder]]
        /\ m = "WAS_CLONED" => "IS_CLONED" \notin attributes[cur[Encoder]]
    BY <1>3, <1>5, EncoderFrom DEF EncoderProcess, At, MakesNoCopy, Unmarked
  <2>2. PICK a : /\ \/ a = attributes[cur[Encoder]]
                    \/ a \in Filtered(EncoderSlots, attributes[cur[Encoder]])
                 /\ \E b \in {Recloned(a), a \ {"END_OF_STREAM"}} :
                       attributes' = [attributes EXCEPT ![cur[Encoder]] = b]
    BY <1>5 DEF EncoderProcess
  <2>3. m \notin a /\ (m = "WAS_CLONED" => "IS_CLONED" \notin a)
    BY <2>1, <2>2, FiltersDoNotMark DEF Slots, EncoderSlots, MakesNoCopy
  <2>4. m \notin Recloned(a)
    BY <1>4, <2>3 DEF CopyMarks
  <2> QED
    BY <1>0, <2>2, <2>3, <2>4, UnmarkedFlags
<1>6. CASE EncoderDispose
  <2>1. /\ m \notin attributes[cur[Encoder]]
        /\ m = "WAS_CLONED" => "IS_CLONED" \notin attributes[cur[Encoder]]
    BY <1>3, <1>6, EncoderFrom DEF EncoderDispose, At, MakesNoCopy, Unmarked
  <2>2. PICK n : /\ n \in {{}, {"OUT_OF_RANGE"}, {"IS_CLONED"}}
                 /\ Media = "video" => n # {"IS_CLONED"}
                 /\ attributes' = [attributes EXCEPT ![cur[Encoder]] =
                                     Recloned(attributes[cur[Encoder]] \cup n)]
    BY <1>6 DEF EncoderDispose
  <2>3. m \notin Recloned(attributes[cur[Encoder]] \cup n)
    BY <1>4, <2>1, <2>2 DEF CopyMarks, MakesNoCopy
  <2> QED
    BY <1>0, <2>2, <2>3, UnmarkedFlags
<1> QED
  BY <1>1, <1>2, <1>5, <1>6 DEF EncoderStep

LEMMA UnmarkedNext ==
    ASSUME NEW m \in {"SKIPPED", "IS_CLONED"}, Unused(m)
    PROVE  Typed /\ Unmarked(m) /\ [Next]_vars => Unmarked(m)'
<1> SUFFICES ASSUME Typed, Unmarked(m), [Next]_vars PROVE Unmarked(m)'
  OBVIOUS
<1>1. CASE SignalStep \/ UNCHANGED vars
  BY <1>1 DEF SignalStep, SignalRaise, SignalWake, Interrupt, vars, fbvars, Unmarked
<1> QED
  BY <1>1, UnmarkedImporter, UnmarkedWorker, UnmarkedEncoder DEF Next, Terminated, CopyMarks

\* The other threads leave a worker where it is.
LEMMA WorkerAlone ==
    ASSUME Typed, [Next]_vars, NEW w \in Workers, ~WorkerStep(w)
    PROVE  pc'[w] = pc[w]
<1> USE ThreadFacts
<1>0. pc \in [Threads -> ImporterPC \cup WorkerPC \cup EncoderPC]
  BY DEF Typed, TypeOK
<1>1. CASE ImporterStep
  <2>1. \E l : Goto(Importer, l)
    BY <1>1 DEF ImporterStep, ImportLoop, ImportRegister, ImportFill, ImportEnd, AfterClaim
  <2> QED
    BY <1>0, <2>1 DEF Goto
<1>2. CASE \E v \in Workers : WorkerStep(v)
  <2> PICK v \in Workers : WorkerStep(v)
    BY <1>2
  <2>1. \E l : Goto(v, l)
    BY DEF WorkerStep, WorkerCheck, WorkerReserve, WorkerHalt, WorkerFrame, WorkerDup,
       WorkerQueue, WorkerPost, WorkerPush, WorkerRemove, AfterClaim
  <2> QED
    BY <1>0, <2>1 DEF Goto
<1>3. CASE EncoderStep
  <2>1. CASE CreateImporter
    BY <1>0, <2>1 DEF CreateImporter
  <2>2. CASE Flush
    BY <1>0, <2>2 DEF Flush, Goto, fbvars
  <2>3. CASE EncoderStep /\ ~CreateImporter /\ ~Flush
    <3>1. \E l : Goto(Encoder, l)
      BY <2>3 DEF EncoderStep, EncoderCheck, EncoderAcquire, EncoderProcess,
         EncoderDispose, NextRange, StopAll, StopInterrupt, CancelImport, CancelWake,
         JoinImporter, PoolStop, PoolJoin, MainStep, AfterClaim
    <3> QED
      BY <1>0, <3>1 DEF Goto
  <2> QED
    BY <1>3, <2>1, <2>2, <2>3
<1>4. CASE SignalStep \/ UNCHANGED vars
  BY <1>4 DEF SignalStep, SignalRaise, SignalWake, vars
<1> QED
  BY <1>1, <1>2, <1>3, <1>4 DEF Next, Terminated

\* The lines of a worker that handle a mark.
LinesOf(m) == IF m = "SKIPPED" THEN {"remove"} ELSE {"dup", "queue"}

NobodyAt(m) == \A w \in Workers : pc[w] \notin LinesOf(m)

LEMMA NobodyAtNext ==
    ASSUME NEW m \in {"SKIPPED", "IS_CLONED"}
    PROVE  Typed /\ Unmarked(m) /\ Unmarked(m)' /\ NobodyAt(m) /\ [Next]_vars => NobodyAt(m)'
<1> SUFFICES ASSUME Typed, Unmarked(m), Unmarked(m)', NobodyAt(m), [Next]_vars,
                    NEW w \in Workers, WorkerStep(w)
             PROVE  pc'[w] \notin LinesOf(m)
  BY WorkerAlone DEF NobodyAt
<1> USE ThreadFacts
<1>0. pc \in [Threads -> ImporterPC \cup WorkerPC \cup EncoderPC] /\ BufferTypeOK
  BY DEF Typed, TypeOK
<1>1. CASE WorkerCheck(w) \/ WorkerHalt(w) \/ WorkerPush(w) \/ WorkerRemove(w)
  <2>1. \E l \in {"reserve", "exit", "check"} : Goto(w, l)
    BY <1>1 DEF WorkerCheck, WorkerHalt, WorkerPush, WorkerRemove
  <2> QED
    BY <1>0, <2>1 DEF Goto, LinesOf
<1>2. CASE WorkerReserve(w)
  <2>1. \E l \in {"reserve", "halt", "frame"} : Goto(w, l)
    BY <1>2 DEF WorkerReserve, AfterClaim, At
  <2> QED
    BY <1>0, <2>1 DEF Goto, LinesOf
<1>3. ASSUME pc[w] \in Working
      PROVE  /\ m \notin attributes[cur[w]]
             /\ \A a : attributes' = [attributes EXCEPT ![cur[w]] = a] => m \notin a
  BY <1>0, <1>3, WorkerFrameIn DEF Unmarked, BufferTypeOK
<1>4. CASE WorkerFrame(w)
  <2>1. pc[w] \in Working
    BY <1>4 DEF WorkerFrame, At, Working
  <2>2. CASE "SKIPPED" \in attributes[cur[w]] /\ Goto(w, "remove")
    BY <1>0, <1>3, <2>1, <2>2 DEF Goto, LinesOf
  <2>3. CASE Goto(w, "push")
    BY <1>0, <2>3 DEF Goto, LinesOf
  <2>4. CASE \E a : /\ attributes' = [attributes EXCEPT ![cur[w]] = a]
                    /\ \/ "IS_CLONED" \in a /\ Goto(w, "dup")
                       \/ "SKIPPED" \in a /\ Goto(w, "remove")
                       \/ Goto(w, "post")
    BY <1>0, <1>3, <2>1, <2>4 DEF Goto, LinesOf
  <2> QED
    BY <1>4, <2>2, <2>3, <2>4 DEF WorkerFrame
<1>5. CASE WorkerDup(w)
  <2>1. pc[w] = "dup" /\ \E l \in {"dup", "crash", "queue"} : Goto(w, l)
    BY <1>5 DEF WorkerDup, At
  <2> QED
    BY <1>0, <2>1 DEF Goto, LinesOf, NobodyAt
<1>6. CASE WorkerQueue(w)
  <2>1. /\ pc[w] = "queue"
        /\ Goto(w, IF "SKIPPED" \in attributes[cur[w]] THEN "remove" ELSE "post")
    BY <1>6 DEF WorkerQueue, At
  <2> QED
    BY <1>0, <1>3, <2>1 DEF Goto, LinesOf, NobodyAt, Working
<1>7. CASE WorkerPost(w)
  <2>1. pc[w] \in Working
    BY <1>7 DEF WorkerPost, At, Working
  <2>2. PICK a : /\ attributes' = [attributes EXCEPT ![cur[w]] = a]
                 /\ Goto(w, IF "SKIPPED" \in a THEN "remove" ELSE "push")
    BY <1>7 DEF WorkerPost
  <2> QED
    BY <1>0, <1>3, <2>1, <2>2 DEF Goto, LinesOf
<1> QED
  BY <1>1, <1>2, <1>4, <1>5, <1>6, <1>7 DEF WorkerStep

\* A mark no filter sets: no frame has it, no worker handles it.
Absent(m) == Unmarked(m) /\ NobodyAt(m)

LEMMA AbsentInit == ASSUME NEW m \in {"SKIPPED", "IS_CLONED"} PROVE Init => Absent(m)
BY ThreadFacts DEF Init, InitFrameBuffer, Absent, Unmarked, NobodyAt, LinesOf

LEMMA AbsentNext ==
    ASSUME NEW m \in {"SKIPPED", "IS_CLONED"}, Unused(m)
    PROVE  Typed /\ Absent(m) /\ [Next]_vars => Absent(m)'
BY UnmarkedNext, NobodyAtNext DEF Absent

-----------------------------------------------------------------------------
(* The counters.                                                            *)

LEMMA ExactMeans == CountersExact <=> \A s \in Status : count[s] = Number(s)
BY DEF CountersExact, Number

LEMMA ExactMove ==
    ASSUME BufferTypeOK, CountersExact, NEW f, NEW from \in Status, NEW to \in Status,
           from # to, Restatus(f, from, to), count' = Move(from, to)
    PROVE  CountersExact'
<1>1. \A s \in Status : count'[s] = Number(s)'
  BY RestatusCounts, MoveCounts, NumberType, ExactMeans
<1> QED
  BY <1>1 DEF CountersExact, Number

\* Every transfer but the one to a copy keeps the counters.
LEMMA TransferKeepsExact ==
    ASSUME BufferTypeOK, CountersExact, Transfer,
           \A w \in Workers, p \in Frames : ~TakeCopy(w, p)
    PROVE  CountersExact'
<1> USE StageFacts
<1>1. CASE UNCHANGED <<status, count>>
  BY <1>1 DEF CountersExact, With
<1>2. CASE \E t \in Threads, f \in Frames, s \in Status : Take(t, f, s)
  BY <1>2, ExactMove DEF Take, Status
<1>3. CASE \E t \in Threads, s \in Status : Give(t, s)
  BY <1>3, ExactMove DEF Give, Status
<1>4. CASE \E w \in Workers : GiveCopy(w)
  BY <1>4, ExactMove DEF GiveCopy, Status
<1>5. CASE \E f \in Frames : Discard(f)
  BY <1>5, ExactMove DEF Discard, Status
<1> QED
  BY <1>1, <1>2, <1>3, <1>4, <1>5 DEF Transfer, Stay, Forget, TakeReady

\* A worker that copies nothing has no copy, so no step can have been a claim of one.
LEMMA NoCopyTaken ==
    ASSUME Typed, Typed', NobodyAt("IS_CLONED")', NEW w \in Workers, NEW p \in Frames
    PROVE  ~TakeCopy(w, p)
<1> SUFFICES ASSUME TakeCopy(w, p) PROVE FALSE
  OBVIOUS
<1>1. clone'[w] = p
  BY DEF TakeCopy, Typed, TypeOK, BufferTypeOK
<1>2. clone'[w] = NoFrame
  BY DEF Typed, Held, NobodyAt, LinesOf
<1> QED
  BY <1>1, <1>2, PointerFacts

LEMMA InitExact == Init => CountersExact
<1> SUFFICES ASSUME Init PROVE CountersExact
  OBVIOUS
<1>1. /\ With("NULL") = 0 .. Last - 1
      /\ \A s \in Status \ {"NULL"} : With(s) = {}
  BY DEF Init, InitFrameBuffer, With, Frames, Status
<1>2. Cardinality(With("NULL")) = Last
  BY <1>1, FS_Interval, RingAssumption
<1>3. \A s \in Status \ {"NULL"} : Cardinality(With(s)) = 0
  BY <1>1, FS_EmptySet
<1> QED
  BY <1>2, <1>3 DEF Init, InitFrameBuffer, CountersExact, Status

\* Where no filter clones, every counter of the ring is the number of frames with its
\* status, in every state: the tests of vframe_register and vframe_reserve on
\* counters are then tests on the frames.
THEOREM UnclonedCountersExact ==
    ASSUME Unused("IS_CLONED") PROVE Spec => []CountersExact
<1>1. Init => Apart
  BY DEF Init, InitFrameBuffer, Apart
<1>2. Init => Absent("IS_CLONED")
  BY AbsentInit
<1>3. Typed /\ Apart /\ [Next]_vars => Apart'
  BY NextTransfers, TransferKeepsApart DEF Typed, TypeOK
<1>4. Typed /\ Absent("IS_CLONED") /\ [Next]_vars => Absent("IS_CLONED")'
  BY AbsentNext
<1>5. Typed /\ Typed' /\ Apart /\ Absent("IS_CLONED")' /\ CountersExact /\ [Next]_vars
        => CountersExact'
  BY NextTransfers, NoCopyTaken, TransferKeepsExact DEF Typed, TypeOK, Absent
<1> QED
  BY <1>1, <1>2, <1>3, <1>4, <1>5, InitExact, TypedInit, TypedNext, PTL DEF Spec

-----------------------------------------------------------------------------
(* No wake-up is lost.                                                      *)

\* Who sleeps where.
Beds ==
    /\ \A t \in Threads : cv[t] = "export" => t = Encoder
    /\ \A t \in Threads : cv[t] = "filter" => t \in Workers
    /\ \A t \in Threads : cv[t] = "import" => t = Importer \/ (t \in Workers /\ pc[t] = "dup")

\* A step in which nobody falls asleep.
NobodySleeps == \A t \in Threads : cv'[t] = cv[t] \/ cv'[t] \notin Conditions

\* A step in which a thread does nothing but fall asleep.
Lies(t, c) == cv' = [cv EXCEPT ![t] = c] /\ UNCHANGED <<ring, chain>>

\* The four ways to fall asleep, and what the thread has seen.
FallsAsleep ==
    \/ Lies(Importer, "import") /\ count["NULL"] = 0
    \/ Lies(Encoder, "export") /\ ~HeadReady
    \/ \E w \in Workers : WorkerStep(w) /\ Lies(w, "filter") /\ count["WAIT"] = 0
    \/ \E w \in Workers : WorkerStep(w) /\ Lies(w, "import") /\ pc'[w] = "dup"

LEMMA WakeNobodySleeps ==
    ASSUME BufferTypeOK
    PROVE  /\ UNCHANGED cv => NobodySleeps
           /\ \A W : cv' = Wake(W) => NobodySleeps
           /\ \A t, f : Return(t, f) => NobodySleeps
           /\ \A c : Signal(c) => NobodySleeps
           /\ Interrupt \/ InterruptImport => NobodySleeps
BY PointerFacts DEF NobodySleeps, Wake, Return, Signal, Interrupt, InterruptImport,
   BufferTypeOK

LEMMA SleepingImporter == Typed /\ ImporterStep => NobodySleeps \/ FallsAsleep
<1> SUFFICES ASSUME Typed, ImporterStep PROVE NobodySleeps \/ FallsAsleep
  OBVIOUS
<1>0. BufferTypeOK
  BY DEF Typed, TypeOK
<1> USE <1>0, WakeNobodySleeps
<1>1. CASE ImportLoop \/ ImportEnd
  BY <1>1 DEF ImportLoop, ImportEnd, fbvars
<1>2. CASE ImportRegister
  BY <1>2 DEF ImportRegister, Register, Sleep, GiveUp, ClaimEmpty, FallsAsleep, Lies
<1>3. CASE ImportFill
  BY <1>3 DEF ImportFill, PushNext
<1> QED
  BY <1>1, <1>2, <1>3 DEF ImporterStep

LEMMA SleepingWorker ==
    ASSUME NEW w \in Workers PROVE Typed /\ WorkerStep(w) => NobodySleeps \/ FallsAsleep
<1> SUFFICES ASSUME Typed, WorkerStep(w) PROVE NobodySleeps \/ FallsAsleep
  OBVIOUS
<1>0. BufferTypeOK /\ pc \in [Threads -> ImporterPC \cup WorkerPC \cup EncoderPC]
  BY DEF Typed, TypeOK
<1> USE <1>0, WakeNobodySleeps
<1>1. CASE WorkerCheck(w) \/ WorkerHalt(w) \/ WorkerFrame(w) \/ WorkerPost(w)
  BY <1>1 DEF WorkerCheck, WorkerHalt, WorkerFrame, WorkerPost, fbvars
<1>2. CASE WorkerReserve(w)
  BY <1>2 DEF WorkerReserve, Reserve, Sleep, GiveUp, LockWaiting, FallsAsleep, Lies
<1>3. CASE WorkerDup(w)
  <2>1. CASE Sleep(w, "import")
    <3>1. pc'[w] = "dup"
      BY <1>3, <2>1, ThreadFacts DEF WorkerDup, Sleep, Goto, BufferTypeOK, Conditions
    <3> QED
      BY <2>1, <3>1 DEF Sleep, FallsAsleep, Lies
  <2>2. CASE cv' = [cv EXCEPT ![w] = "none"]
    BY <2>2, PointerFacts DEF NobodySleeps, BufferTypeOK
  <2> QED
    BY <1>3, <2>1, <2>2 DEF WorkerDup, Dup, ClaimCopy
<1>4. CASE WorkerQueue(w) \/ WorkerPush(w)
  BY <1>4 DEF WorkerQueue, WorkerPush, PushNext
<1>5. CASE WorkerRemove(w)
  BY <1>5 DEF WorkerRemove, Drop, Remove
<1> QED
  BY <1>1, <1>2, <1>3, <1>4, <1>5 DEF WorkerStep

LEMMA SleepingEncoder == Typed /\ EncoderStep => NobodySleeps \/ FallsAsleep
<1> SUFFICES ASSUME Typed, EncoderStep PROVE NobodySleeps \/ FallsAsleep
  OBVIOUS
<1>0. BufferTypeOK
  BY DEF Typed, TypeOK
<1> USE <1>0, WakeNobodySleeps
<1>1. CASE \/ EncoderCheck \/ NextRange \/ StopAll \/ CancelImport \/ JoinImporter
           \/ CreateImporter \/ PoolStop \/ PoolJoin
  BY <1>1 DEF EncoderCheck, NextRange, StopAll, CancelImport, JoinImporter,
     CreateImporter, PoolStop, PoolJoin, fbvars
<1>2. CASE StopInterrupt \/ CancelWake
  BY <1>2 DEF StopInterrupt, CancelWake
<1>3. CASE EncoderAcquire
  BY <1>3 DEF EncoderAcquire, Retrieve, Sleep, GiveUp, FallsAsleep, Lies
<1>4. CASE EncoderProcess \/ EncoderDispose \/ Flush
  BY <1>4 DEF EncoderProcess, EncoderDispose, Flush, Drop, Remove, fbvars
<1> QED
  BY <1>1, <1>2, <1>3, <1>4 DEF EncoderStep

LEMMA NextSleeps == Typed /\ [Next]_vars => NobodySleeps \/ FallsAsleep
<1> SUFFICES ASSUME Typed, [Next]_vars PROVE NobodySleeps \/ FallsAsleep
  OBVIOUS
<1>1. CASE SignalStep \/ UNCHANGED vars
  BY <1>1, WakeNobodySleeps
  DEF SignalStep, SignalRaise, SignalWake, vars, fbvars, Typed, TypeOK
<1> QED
  BY <1>1, SleepingImporter, SleepingWorker, SleepingEncoder DEF Next, Terminated

\* A thread that sleeps does nothing.
LEMMA OnlyTheAwake ==
    /\ ImporterStep => Awake(Importer)
    /\ \A w \in Workers : WorkerStep(w) => Awake(w)
    /\ EncoderStep => Awake(Encoder)
<1>1. ImporterStep => Awake(Importer)
  BY DEF ImporterStep, ImportLoop, ImportRegister, ImportFill, ImportEnd, At
<1>2. ASSUME NEW w \in Workers PROVE WorkerStep(w) => Awake(w)
  BY DEF WorkerStep, WorkerCheck, WorkerReserve, WorkerHalt, WorkerFrame, WorkerDup,
     WorkerQueue, WorkerPost, WorkerPush, WorkerRemove, At
<1>3. EncoderStep => Awake(Encoder)
  BY DEF EncoderStep, EncoderCheck, EncoderAcquire, EncoderProcess, EncoderDispose,
     NextRange, StopAll, StopInterrupt, CancelImport, CancelWake, JoinImporter, Flush,
     CreateImporter, PoolStop, PoolJoin, MainStep, At
<1> QED
  BY <1>1, <1>2, <1>3

LEMMA BedsNext == Typed /\ Beds /\ [Next]_vars => Beds'
<1> SUFFICES ASSUME Typed, Beds, [Next]_vars PROVE Beds'
  OBVIOUS
<1> USE ThreadFacts
<1>0. cv \in [Threads -> Conditions \cup {"none", "signalled"}]
  BY DEF Typed, TypeOK, BufferTypeOK
<1>1. ASSUME NEW w \in Workers, cv[w] = "import" PROVE pc'[w] = "dup"
  <2>1. pc[w] = "dup" /\ ~WorkerStep(w)
    BY <1>1, OnlyTheAwake DEF Beds, Awake, Conditions
  <2> QED
    BY <2>1, WorkerAlone
<1>2. CASE NobodySleeps
  BY <1>1, <1>2 DEF Beds, NobodySleeps, Conditions
<1>3. CASE FallsAsleep
  <2>1. PICK t \in Threads, c \in Conditions :
                  /\ cv' = [cv EXCEPT ![t] = c]
                  /\ \/ t = Importer /\ c = "import"
                     \/ t = Encoder /\ c = "export"
                     \/ t \in Workers /\ c = "filter"
                     \/ t \in Workers /\ c = "import" /\ pc'[t] = "dup"
    BY <1>3 DEF FallsAsleep, Lies, Conditions
  <2> QED
    BY <1>0, <1>1, <2>1 DEF Beds
<1> QED
  BY <1>2, <1>3, NextSleeps

LEMMA BedsInit == Init => Beds
BY DEF Init, InitFrameBuffer, Beds

\* A signal for a condition on which one thread at most sleeps reaches it.
LEMMA SignalReaches ==
    ASSUME NEW c, NEW t \in Threads, Sleepers(c) = {t}, Signal(c)
    PROVE  cv'[t] = "signalled"
BY DEF Signal, OneOf, Wake

-----------------------------------------------------------------------------
(* The encoder and the head of the chain.                                   *)

\* A push that makes the head ready tells the encoder.
LEMMA PushTellsEncoder ==
    ASSUME BufferTypeOK, Beds, cv[Encoder] = "export", ~HeadReady,
           NEW f \in Frames, NEW s \in {"WAIT", "READY"}, PushNext(f, s)
    PROVE  cv'[Encoder] # "export" \/ ~HeadReady'
<1> USE ThreadFacts
<1>1. CASE s = "READY" /\ f = head
  <2>1. Sleepers("export") = {Encoder}
    BY DEF Sleepers, Beds
  <2> QED
    BY <1>1, <2>1, SignalReaches DEF PushNext
<1>2. CASE ~(s = "READY" /\ f = head)
  BY <1>2 DEF PushNext, HeadReady, BufferTypeOK, chain
<1> QED
  BY <1>1, <1>2

LEMMA EncoderToldByWorker ==
    ASSUME Typed, Apart, Beds, Absent("SKIPPED"), NEW w \in Workers, WorkerStep(w),
           cv[Encoder] = "export", ~HeadReady
    PROVE  cv'[Encoder] # "export" \/ ~HeadReady'
<1>0. BufferTypeOK
  BY DEF Typed, TypeOK
<1>1. CASE WorkerCheck(w) \/ WorkerHalt(w) \/ WorkerFrame(w) \/ WorkerPost(w)
  BY <1>1 DEF WorkerCheck, WorkerHalt, WorkerFrame, WorkerPost, fbvars, ring, chain,
     HeadReady
<1>2. CASE WorkerReserve(w)
  <2>1. \/ UNCHANGED <<status, head>>
        \/ \E f : status' = [status EXCEPT ![f] = "LOCKED"] /\ UNCHANGED head
    BY <1>2 DEF WorkerReserve, Reserve, Sleep, GiveUp, LockWaiting, ring, chain
  <2> QED
    BY <1>0, <2>1 DEF HeadReady, BufferTypeOK, FramePtr
<1>3. CASE WorkerDup(w)
  <2>1. status[cur[w]] = "LOCKED"
    BY <1>3, WorkerFrameIn, PointerFacts, StageFacts, ThreadFacts
    DEF WorkerDup, At, Working, Apart
  <2>2. \/ UNCHANGED <<status, head>>
        \/ \E p : status' = [status EXCEPT ![p] = status[cur[w]]] /\ UNCHANGED head
    BY <1>3 DEF WorkerDup, Dup, Sleep, ClaimCopy, LinkAfter, ring, chain
  <2> QED
    BY <1>0, <2>1, <2>2 DEF HeadReady, BufferTypeOK, FramePtr
<1>4. CASE WorkerQueue(w)
  <2>1. clone[w] \in Frames /\ PushNext(clone[w], "WAIT")
    BY <1>0, <1>4 DEF WorkerQueue, At, Typed, Held, BufferTypeOK, FramePtr
  <2> QED
    BY <1>0, <2>1, PushTellsEncoder
<1>5. CASE WorkerPush(w)
  <2>1. cur[w] \in Frames /\ PushNext(cur[w], "READY")
    BY <1>5, WorkerFrameIn DEF WorkerPush, At, Working
  <2> QED
    BY <1>0, <2>1, PushTellsEncoder
<1>6. CASE WorkerRemove(w)
  BY <1>6 DEF WorkerRemove, At, Absent, NobodyAt, LinesOf
<1> QED
  BY <1>1, <1>2, <1>3, <1>4, <1>5, <1>6 DEF WorkerStep

LEMMA EncoderToldByImporter ==
    ASSUME Typed, Beds, ImporterStep, cv[Encoder] = "export", ~HeadReady
    PROVE  cv'[Encoder] # "export" \/ ~HeadReady'
<1>0. BufferTypeOK
  BY DEF Typed, TypeOK
<1>1. CASE ImportLoop \/ ImportEnd
  BY <1>1 DEF ImportLoop, ImportEnd, fbvars, ring, chain, HeadReady
<1>2. CASE ImportRegister
  <2>1. \/ UNCHANGED <<status, head>>
        \/ \E f \in Frames : /\ status' = [status EXCEPT ![f] = "EMPTY"]
                             /\ head' = IF head = NoFrame THEN f ELSE head
    BY <1>2 DEF ImportRegister, Register, Sleep, GiveUp, ClaimEmpty, AppendFrame, ring,
       chain
  <2> QED
    BY <1>0, <2>1 DEF HeadReady, BufferTypeOK, FramePtr
<1>3. CASE ImportFill
  <2>1. cur[Importer] \in Frames /\ PushNext(cur[Importer], AfterImport)
    BY <1>0, <1>3, ThreadFacts DEF ImportFill, At, Typed, Held, BufferTypeOK, FramePtr
  <2> QED
    BY <1>0, <2>1, PushTellsEncoder DEF AfterImport
<1> QED
  BY <1>1, <1>2, <1>3 DEF ImporterStep

LEMMA EncoderTold ==
    Typed /\ Apart /\ Beds /\ Absent("SKIPPED") /\ EncoderNotStranded /\ [Next]_vars
      => EncoderNotStranded'
<1> SUFFICES ASSUME Typed, Apart, Beds, Absent("SKIPPED"), EncoderNotStranded,
                    [Next]_vars, cv'[Encoder] = "export"
             PROVE  ~HeadReady'
  BY DEF EncoderNotStranded
<1> USE ThreadFacts
<1>1. CASE cv[Encoder] # "export"
  <2>1. ~NobodySleeps
    BY <1>1 DEF NobodySleeps, Conditions
  <2>2. FallsAsleep
    BY <2>1, NextSleeps
  <2>3. Lies(Encoder, "export") /\ ~HeadReady
    BY <1>1, <2>2 DEF FallsAsleep, Lies, Typed, TypeOK, BufferTypeOK
  <2> QED
    BY <2>3 DEF Lies, ring, chain, HeadReady
<1>2. CASE cv[Encoder] = "export"
  <2>1. ~EncoderStep /\ ~HeadReady
    BY <1>2, OnlyTheAwake DEF Awake, Conditions, EncoderNotStranded
  <2>2. CASE SignalStep \/ UNCHANGED vars
    BY <2>1, <2>2 DEF SignalStep, SignalRaise, SignalWake, Interrupt, vars, fbvars, ring,
       chain, HeadReady
  <2> QED
    BY <1>2, <2>1, <2>2, EncoderToldByWorker, EncoderToldByImporter DEF Next, Terminated
<1> QED
  BY <1>1, <1>2

\* Where no filter skips, the encoder never sleeps beside a head that is ready, however
\* many workers finish their frames in whatever order: {a,v}frame_push_next tells it of
\* the head, and nobody else moves the head.
THEOREM EncoderWoken == ASSUME Unused("SKIPPED") PROVE Spec => []EncoderNotStranded
<1>1. Init => Apart
  BY DEF Init, InitFrameBuffer, Apart
<1>2. Init => Absent("SKIPPED")
  BY AbsentInit
<1>3. Init => EncoderNotStranded
  BY DEF Init, InitFrameBuffer, EncoderNotStranded, HeadReady
<1>4. Typed /\ Apart /\ [Next]_vars => Apart'
  BY NextTransfers, TransferKeepsApart DEF Typed, TypeOK
<1>5. Typed /\ Absent("SKIPPED") /\ [Next]_vars => Absent("SKIPPED")'
  BY AbsentNext
<1> QED
  BY <1>1, <1>2, <1>3, <1>4, <1>5, BedsInit, BedsNext, EncoderTold, TypedInit, TypedNext,
     PTL DEF Spec

-----------------------------------------------------------------------------
(* The importer and the free frames.                                        *)

\* A step that frees no frame, or tells the importer.
FreesLoudly ==
    \/ \A f \in Frames : status'[f] = "NULL" => status[f] = "NULL"
    \/ Signal("import")

LEMMA PushFreesNothing ==
    ASSUME BufferTypeOK, NEW f, NEW s \in {"WAIT", "READY"}, PushNext(f, s)
    PROVE  FreesLoudly
BY DEF PushNext, FreesLoudly, BufferTypeOK

LEMMA NextFreesLoudly ==
    Typed /\ Absent("IS_CLONED") /\ [Next]_vars => FreesLoudly
<1> SUFFICES ASSUME Typed, Absent("IS_CLONED"), [Next]_vars PROVE FreesLoudly
  OBVIOUS
<1>0. BufferTypeOK
  BY DEF Typed, TypeOK
<1>1. CASE ImporterStep
  <2>1. CASE ImportLoop \/ ImportEnd
    BY <2>1 DEF ImportLoop, ImportEnd, fbvars, ring, FreesLoudly
  <2>2. CASE ImportRegister
    BY <1>0, <2>2 DEF ImportRegister, Register, Sleep, GiveUp, ClaimEmpty, ring, chain,
       FreesLoudly, BufferTypeOK
  <2>3. CASE ImportFill
    BY <1>0, <2>3, PushFreesNothing DEF ImportFill, AfterImport
  <2> QED
    BY <1>1, <2>1, <2>2, <2>3 DEF ImporterStep
<1>2. ASSUME NEW w \in Workers, WorkerStep(w) PROVE FreesLoudly
  <2>1. CASE WorkerCheck(w) \/ WorkerHalt(w) \/ WorkerFrame(w) \/ WorkerPost(w)
    BY <2>1 DEF WorkerCheck, WorkerHalt, WorkerFrame, WorkerPost, fbvars, ring,
       FreesLoudly
  <2>2. CASE WorkerReserve(w)
    BY <1>0, <2>2 DEF WorkerReserve, Reserve, Sleep, GiveUp, LockWaiting, ring, chain,
       FreesLoudly, BufferTypeOK
  <2>3. CASE WorkerDup(w) \/ WorkerQueue(w)
    BY <2>3 DEF WorkerDup, WorkerQueue, At, Absent, NobodyAt, LinesOf
  <2>4. CASE WorkerPush(w)
    BY <1>0, <2>4, PushFreesNothing DEF WorkerPush
  <2>5. CASE WorkerRemove(w)
    BY <2>5 DEF WorkerRemove, Drop, Remove, FreesLoudly
  <2> QED
    BY <1>2, <2>1, <2>2, <2>3, <2>4, <2>5 DEF WorkerStep
<1>3. CASE EncoderStep
  <2>1. CASE \/ EncoderCheck \/ NextRange \/ StopAll \/ CancelImport \/ JoinImporter
             \/ CreateImporter \/ PoolStop \/ PoolJoin
    BY <2>1 DEF EncoderCheck, NextRange, StopAll, CancelImport, JoinImporter,
       CreateImporter, PoolStop, PoolJoin, fbvars, ring, FreesLoudly
  <2>2. CASE StopInterrupt \/ CancelWake
    BY <2>2 DEF StopInterrupt, CancelWake, Interrupt, InterruptImport, ring, FreesLoudly
  <2>3. CASE EncoderAcquire
    BY <2>3 DEF EncoderAcquire, Retrieve, Sleep, GiveUp, ring, FreesLoudly
  <2>4. CASE EncoderProcess \/ EncoderDispose \/ Flush
    BY <2>4 DEF EncoderProcess, EncoderDispose, Flush, Drop, Remove, fbvars, ring,
       FreesLoudly
  <2> QED
    BY <1>3, <2>1, <2>2, <2>3, <2>4 DEF EncoderStep
<1>4. CASE SignalStep \/ UNCHANGED vars
  BY <1>4 DEF SignalStep, SignalRaise, SignalWake, Interrupt, vars, fbvars, ring,
     FreesLoudly
<1> QED
  BY <1>1, <1>2, <1>3, <1>4 DEF Next, Terminated

LEMMA ImporterTold ==
    Typed /\ Beds /\ Absent("IS_CLONED") /\ CountersPooled /\ ImporterNotStranded /\ [Next]_vars
      => ImporterNotStranded'
<1> SUFFICES ASSUME Typed, Beds, Absent("IS_CLONED"), CountersPooled,
                    ImporterNotStranded, [Next]_vars, cv'[Importer] = "import"
             PROVE  With("NULL")' = {}
  BY DEF ImporterNotStranded
<1>0. (\A f \in Frames : status'[f] # "NULL") => With("NULL")' = {}
  BY DEF With
<1> USE ThreadFacts, <1>0
<1>1. CASE cv[Importer] # "import"
  <2>1. ~NobodySleeps
    BY <1>1 DEF NobodySleeps, Conditions
  <2>2. FallsAsleep
    BY <2>1, NextSleeps
  <2>3. Lies(Importer, "import") /\ count["NULL"] = 0
    BY <1>1, <2>2 DEF FallsAsleep, Lies, Typed, TypeOK, BufferTypeOK
  <2>4. Cardinality(With("NULL")) = 0
    BY <2>3 DEF CountersPooled
  <2>5. With("NULL") = {}
    BY <2>4, NumberType, FS_EmptySet
  <2> QED
    BY <2>3, <2>5 DEF Lies, ring, With
<1>2. CASE cv[Importer] = "import"
  <2>1. Sleepers("import") = {Importer}
    BY <1>2 DEF Sleepers, Beds, Absent, NobodyAt, LinesOf
  <2>2. ~Signal("import")
    BY <2>1, SignalReaches
  <2> QED
    BY <1>2, <2>2, NextFreesLoudly DEF FreesLoudly, ImporterNotStranded, With
<1> QED
  BY <1>1, <1>2

\* Where no filter clones, the importer never sleeps while the ring has a free frame,
\* whichever thread freed it.  (A worker that copies waits on the same condition and
\* may take the signal.)
THEOREM ImporterWoken == ASSUME Unused("IS_CLONED") PROVE Spec => []ImporterNotStranded
<1>1. Init => Apart
  BY DEF Init, InitFrameBuffer, Apart
<1>2. Init => Absent("IS_CLONED")
  BY AbsentInit
<1>3. Init => ImporterNotStranded
  BY ThreadFacts DEF Init, InitFrameBuffer, ImporterNotStranded
<1>4. Typed /\ Apart /\ [Next]_vars => Apart'
  BY NextTransfers, TransferKeepsApart DEF Typed, TypeOK
<1>5. Typed /\ Absent("IS_CLONED") /\ [Next]_vars => Absent("IS_CLONED")'
  BY AbsentNext
<1>6. Typed /\ Apart /\ CountersPooled /\ [Next]_vars => CountersPooled'
  BY NextTransfers, TransferKeepsPooled DEF Typed, TypeOK
<1> QED
  BY <1>1, <1>2, <1>3, <1>4, <1>5, <1>6, BedsInit, BedsNext, InitCounts, ImporterTold,
     TypedInit, TypedNext, PTL DEF Spec

-----------------------------------------------------------------------------
(* The pool and the frames that wait.                                       *)

\* A worker leaves only when the pool is stopped or transcode is.
Leaving == \A w \in Workers : pc[w] = "exit" => ~Running \/ ~pool

LEMMA StopsForGood ==
    Typed /\ [Next]_vars => (Running' => Running) /\ (pool' => pool)
<1> SUFFICES ASSUME Typed, [Next]_vars PROVE (Running' => Running) /\ (pool' => pool)
  OBVIOUS
<1>1. CASE ImporterStep
  BY <1>1 DEF ImporterStep, ImportLoop, ImportRegister, ImportFill, ImportEnd, control,
     Running
<1>2. CASE \E w \in Workers : WorkerStep(w)
  <2> PICK w \in Workers : WorkerStep(w)
    BY <1>2
  <2>1. CASE WorkerFrame(w)
    <3>1. pool' = (pool /\ "END_OF_STREAM" \notin attributes[cur[w]]) /\ UNCHANGED run
      BY <2>1 DEF WorkerFrame
    <3> QED
      BY <3>1, Zenon DEF Running
  <2>2. CASE WorkerHalt(w)
    BY <2>2 DEF WorkerHalt, Running
  <2>3. CASE \/ WorkerCheck(w) \/ WorkerReserve(w) \/ WorkerDup(w) \/ WorkerQueue(w)
             \/ WorkerPost(w) \/ WorkerPush(w) \/ WorkerRemove(w)
    <3>1. UNCHANGED <<run, pool>>
      BY <2>3 DEF WorkerCheck, WorkerReserve, WorkerDup, WorkerQueue, WorkerPost,
         WorkerPush, WorkerRemove, control
    <3> QED
      BY <3>1, Zenon DEF Running
  <2> QED
    BY <2>1, <2>2, <2>3 DEF WorkerStep
<1>3. CASE EncoderStep
  BY <1>3 DEF EncoderStep, EncoderCheck, EncoderAcquire, EncoderProcess, EncoderDispose,
     NextRange, StopAll, StopInterrupt, CancelImport, CancelWake, JoinImporter, Flush,
     CreateImporter, PoolStop, PoolJoin, control, Running
<1>4. CASE SignalStep \/ UNCHANGED vars
  BY <1>4 DEF SignalStep, SignalRaise, SignalWake, vars, control, Running
<1> QED
  BY <1>1, <1>2, <1>3, <1>4 DEF Next, Terminated

\* The two lines from which a worker leaves.
LEMMA WorkerLeaves ==
    ASSUME Typed, NEW w \in Workers, WorkerStep(w), pc'[w] = "exit"
    PROVE  ~Running' \/ ~pool'
<1> USE ThreadFacts
<1>0. pc \in [Threads -> ImporterPC \cup WorkerPC \cup EncoderPC]
  BY DEF Typed, TypeOK
<1>1. CASE WorkerCheck(w)
  BY <1>0, <1>1 DEF WorkerCheck, Goto, control, Running
<1>2. CASE WorkerHalt(w)
  BY <1>2 DEF WorkerHalt
<1>3. CASE \/ WorkerReserve(w) \/ WorkerFrame(w) \/ WorkerDup(w) \/ WorkerQueue(w)
           \/ WorkerPost(w) \/ WorkerPush(w) \/ WorkerRemove(w)
  <2>1. \E l \in WorkerPC \ {"exit"} : Goto(w, l)
    BY <1>3 DEF WorkerReserve, WorkerFrame, WorkerDup, WorkerQueue, WorkerPost,
       WorkerPush, WorkerRemove, AfterClaim, At, WorkerPC
  <2> QED
    BY <1>0, <2>1 DEF Goto
<1> QED
  BY <1>1, <1>2, <1>3 DEF WorkerStep

LEMMA LeavingNext == Typed /\ Leaving /\ [Next]_vars => Leaving'
<1> SUFFICES ASSUME Typed, Leaving, [Next]_vars, NEW w \in Workers, pc'[w] = "exit"
             PROVE  ~Running' \/ ~pool'
  BY DEF Leaving
<1>1. CASE WorkerStep(w)
  BY <1>1, WorkerLeaves
<1>2. CASE ~WorkerStep(w)
  <2>1. ~Running \/ ~pool
    BY <1>2, WorkerAlone, Zenon DEF Leaving
  <2>2. (Running' => Running) /\ (pool' => pool)
    BY StopsForGood, Zenon
  <2> QED
    BY <2>1, <2>2, Zenon
<1> QED
  BY <1>1, <1>2

\* A step after which no other frame waits, or one that tells the pool.
WaitsLoudly ==
    \/ \A f \in Frames : status'[f] = "WAIT" => status[f] = "WAIT"
    \/ Signal("filter") /\ Workers # {}

LEMMA NextWaitsLoudly ==
    Typed /\ Absent("IS_CLONED") /\ [Next]_vars => WaitsLoudly
<1> SUFFICES ASSUME Typed, Absent("IS_CLONED"), [Next]_vars PROVE WaitsLoudly
  OBVIOUS
<1>0. BufferTypeOK
  BY DEF Typed, TypeOK
<1>1. CASE ImporterStep
  <2>1. CASE ImportLoop \/ ImportEnd
    BY <2>1 DEF ImportLoop, ImportEnd, fbvars, ring, WaitsLoudly
  <2>2. CASE ImportRegister
    BY <1>0, <2>2 DEF ImportRegister, Register, Sleep, GiveUp, ClaimEmpty, ring, chain,
       WaitsLoudly, BufferTypeOK
  <2>3. CASE ImportFill
    BY <1>0, <2>3 DEF ImportFill, AfterImport, PushNext, WaitsLoudly, BufferTypeOK
  <2> QED
    BY <1>1, <2>1, <2>2, <2>3 DEF ImporterStep
<1>2. ASSUME NEW w \in Workers, WorkerStep(w) PROVE WaitsLoudly
  <2>1. CASE WorkerCheck(w) \/ WorkerHalt(w) \/ WorkerFrame(w) \/ WorkerPost(w)
    BY <2>1 DEF WorkerCheck, WorkerHalt, WorkerFrame, WorkerPost, fbvars, ring,
       WaitsLoudly
  <2>2. CASE WorkerReserve(w)
    BY <1>0, <2>2 DEF WorkerReserve, Reserve, Sleep, GiveUp, LockWaiting, ring, chain,
       WaitsLoudly, BufferTypeOK
  <2>3. CASE WorkerDup(w) \/ WorkerQueue(w)
    BY <2>3 DEF WorkerDup, WorkerQueue, At, Absent, NobodyAt, LinesOf
  <2>4. CASE WorkerPush(w)
    BY <1>0, <2>4 DEF WorkerPush, PushNext, WaitsLoudly, BufferTypeOK
  <2>5. CASE WorkerRemove(w)
    BY <1>0, <2>5 DEF WorkerRemove, Drop, Remove, RemoveFrame, WaitsLoudly, BufferTypeOK
  <2> QED
    BY <1>2, <2>1, <2>2, <2>3, <2>4, <2>5 DEF WorkerStep
<1>3. CASE EncoderStep
  <2>1. CASE \/ EncoderCheck \/ NextRange \/ StopAll \/ CancelImport \/ JoinImporter
             \/ CreateImporter \/ PoolStop \/ PoolJoin
    BY <2>1 DEF EncoderCheck, NextRange, StopAll, CancelImport, JoinImporter,
       CreateImporter, PoolStop, PoolJoin, fbvars, ring, WaitsLoudly
  <2>2. CASE StopInterrupt \/ CancelWake
    BY <2>2 DEF StopInterrupt, CancelWake, Interrupt, InterruptImport, ring, WaitsLoudly
  <2>3. CASE EncoderAcquire
    BY <2>3 DEF EncoderAcquire, Retrieve, Sleep, GiveUp, ring, WaitsLoudly
  <2>4. CASE EncoderProcess \/ EncoderDispose \/ Flush
    <3>1. \/ UNCHANGED status
          \/ \E f : status' = [status EXCEPT ![f] = "NULL"]
      BY <2>4 DEF EncoderProcess, EncoderDispose, Flush, Drop, Remove, RemoveFrame,
         fbvars, ring
    <3> QED
      BY <1>0, <3>1 DEF WaitsLoudly, BufferTypeOK
  <2> QED
    BY <1>3, <2>1, <2>2, <2>3, <2>4 DEF EncoderStep
<1>4. CASE SignalStep \/ UNCHANGED vars
  BY <1>4 DEF SignalStep, SignalRaise, SignalWake, Interrupt, vars, fbvars, ring,
     WaitsLoudly
<1> QED
  BY <1>1, <1>2, <1>3, <1>4 DEF Next, Terminated

\* A worker that is awake while a frame waits stays awake.
LEMMA StaysAwake ==
    ASSUME Typed, Beds, Absent("IS_CLONED")', CountersExact, [Next]_vars, With("WAIT") # {},
           NEW w \in Workers, Awake(w)
    PROVE  cv'[w] \notin Conditions
<1> USE ThreadFacts
<1>1. cv \in [Threads -> Conditions \cup {"none", "signalled"}]
  BY DEF Typed, TypeOK, BufferTypeOK
<1>2. count["WAIT"] # 0
  <2>1. Cardinality(With("WAIT")) # 0
    BY NumberType, FS_EmptySet
  <2> QED
    BY <2>1 DEF CountersExact, Status
<1>3. CASE NobodySleeps
  BY <1>3 DEF NobodySleeps, Awake
<1>4. CASE FallsAsleep
  <2>1. \A v \in Workers : pc'[v] # "dup"
    BY DEF Absent, NobodyAt, LinesOf
  <2>2. \E t \in Threads : t # w /\ \E c : Lies(t, c)
    BY <1>2, <1>4, <2>1 DEF FallsAsleep
  <2> QED
    BY <1>1, <2>2 DEF Lies, Awake
<1> QED
  BY <1>3, <1>4, NextSleeps

LEMMA PoolTold ==
    Typed /\ Typed' /\ Beds /\ Absent("IS_CLONED") /\ Absent("IS_CLONED")' /\ CountersExact
      /\ Leaving' /\ PoolNotStranded /\ [Next]_vars
    => PoolNotStranded'
<1> SUFFICES ASSUME Typed, Typed', Beds, Absent("IS_CLONED"), Absent("IS_CLONED")',
                    CountersExact, Leaving', PoolNotStranded, [Next]_vars,
                    Running', pool', With("WAIT")' # {}
             PROVE  \E w \in Workers : cv'[w] \notin Conditions /\ pc'[w] # "exit"
  BY DEF PoolNotStranded, Awake
<1> USE ThreadFacts
<1>0. /\ Running /\ pool
      /\ \A w \in Workers : pc'[w] # "exit"
  <2>1. (Running' => Running) /\ (pool' => pool)
    BY StopsForGood, Zenon
  <2> QED
    BY <2>1, Zenon DEF Leaving
<1>1. CASE With("WAIT") # {}
  <2> PICK w \in Workers : Awake(w)
    BY <1>0, <1>1 DEF PoolNotStranded
  <2> QED
    BY <1>0, <1>1, StaysAwake
<1>2. CASE With("WAIT") = {}
  <2>1. Signal("filter") /\ Workers # {}
    BY <1>2, NextWaitsLoudly DEF WaitsLoudly, With
  <2>2. CASE Sleepers("filter") # {}
    <3>1. PICK t \in Sleepers("filter") : cv' = Wake({t})
      BY <2>1, <2>2 DEF Signal, OneOf
    <3>2. t \in Workers /\ cv'[t] = "signalled"
      BY <3>1 DEF Sleepers, Beds, Wake
    <3> QED
      BY <1>0, <3>2, PointerFacts
  <2>3. CASE Sleepers("filter") = {}
    <3>1. PICK w \in Workers : TRUE
      BY <2>1
    <3>2. cv'[w] = cv[w]
      BY <2>1, <2>3 DEF Signal, OneOf, Wake
    <3>3. cv[w] \notin Conditions
      BY <2>3 DEF Sleepers, Beds, Conditions, Absent, NobodyAt, LinesOf
    <3> QED
      BY <1>0, <3>2, <3>3
  <2> QED
    BY <2>2, <2>3
<1> QED
  BY <1>1, <1>2

\* Where no filter clones, a frame that waits for the pool finds a worker awake as long as
\* the pool runs, for every number of workers and frames.
THEOREM PoolWoken == ASSUME Unused("IS_CLONED") PROVE Spec => []PoolNotStranded
<1>1. Spec => []CountersExact
  BY UnclonedCountersExact
<1>2. Init => Absent("IS_CLONED")
  BY AbsentInit
<1>3. Init => PoolNotStranded
  BY DEF Init, InitFrameBuffer, PoolNotStranded, With
<1>4. Init => Leaving
  BY ThreadFacts DEF Init, Leaving
<1>5. Typed /\ Absent("IS_CLONED") /\ [Next]_vars => Absent("IS_CLONED")'
  BY AbsentNext
<1> QED
  BY <1>1, <1>2, <1>3, <1>4, <1>5, BedsInit, BedsNext, LeavingNext, PoolTold, TypedInit,
     TypedNext, PTL DEF Spec
=============================================================================
