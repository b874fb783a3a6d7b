--------------------------- MODULE FramePipeline ---------------------------
(***************************************************************************)
(* The threads that move the frames of one stream through its buffer:      *)
(*                                                                         *)
(*   importer  {video,audio}_import_loop          src/decoder.c            *)
(*   workers   process_{video,audio}_frame        src/frame_threads.c      *)
(*   encoder   tc_encoder_loop over a builtin buffer, and around it the    *)
(*             main thread: next range, shutdown                           *)
(*                        src/encoder.c, src/encoder-buffer.c,             *)
(*                        src/transcode.c (transcode_mode_default)         *)
(*   signal    event_handler                      src/transcode.c          *)
(*                                                                         *)
(* The other stream runs in step: it has a frame whenever this one has,    *)
(* and ends with it.  A filter is any function that may set the attributes *)
(* Marks allows in its slot.                                               *)
(***************************************************************************)
EXTENDS FrameBuffer, Sequences

CONSTANTS Media,      \* "video" or "audio"
          Marks,      \* attributes the filters of each slot may set
          MaxFrames,  \* frames a run imports at most, over all ranges
          Ranges,     \* the encoding ranges -c asks for, <<first, last>>
          Seek,       \* those, by index, that have a vob_offset of their own
          MayDelay,   \* whether the video encoder may delay a frame
          MaySignal   \* whether SIGINT or SIGTERM may come

Slots   == {"PRE_S", "PRE_M", "POST_M", "POST_S"}
Streams == {"video", "audio"}

ASSUME PipelineAssumption ==
    /\ Media \in Streams
    /\ Marks \in [Slots -> SUBSET {"SKIPPED", "IS_CLONED"}]
    /\ MaxFrames \in Nat
    /\ Ranges \in Seq(Nat \X Nat) /\ Len(Ranges) > 0
    /\ Seek \subseteq Nat
    /\ MayDelay \in BOOLEAN /\ MaySignal \in BOOLEAN

VARIABLES pc,         \* where each thread is
          run,        \* tc_run_status
          active,     \* {video,audio}_decdata.active_flag
          pool,       \* video_threads.running / audio_threads.running
          nextId,     \* vframecount / aframecount
          range,      \* index of tstart, Len(Ranges) + 1 when it is NULL
          cloned,     \* frames_cloned
          sig,        \* progress of the signal handler
          out,        \* ids of the encoded frames, in order
          dropped     \* ids of the frames removed because they are SKIPPED

control == <<run, active, pool, nextId, range, cloned, sig>>
history == <<out, dropped>>
vars == <<fbvars, pc, control, history>>

ImporterPC == {"loop", "register", "fill", "end", "exit"}
WorkerPC   == {"check", "reserve", "halt", "frame", "dup", "queue", "post",
               "push", "remove", "exit", "crash"}
EncoderPC  == {"need_stop", "acquire", "process", "dispose", "range", "stop",
               "interrupt", "cancel", "wake", "join", "flush", "create",
               "pool_stop", "pool_join", "done"}

Running == run = "RUNNING"

\* The status the importer pushes frames with: to the workers, or past them.
AfterImport == IF Workers = {} THEN "READY" ELSE "WAIT"

Init ==
    /\ InitFrameBuffer
    /\ pc = [t \in Threads |-> IF t = Importer THEN "loop"
                               ELSE IF t = Encoder THEN "need_stop"
                               ELSE "check"]
    /\ run = "RUNNING"
    /\ active = [m \in Streams |-> TRUE]
    /\ pool = (Workers # {})
    /\ nextId = 0
    /\ range = 1
    /\ cloned = 0
    /\ sig = "none"
    /\ out = <<>>
    /\ dropped = {}

\* A worker that wrote through a NULL pointer took the process with it.
Alive == \A w \in Workers : pc[w] # "crash"

\* A thread moves only when it does not sleep on a condition.
At(t, l) == Alive /\ pc[t] = l /\ Awake(t)
Goto(t, l) == pc' = [pc EXCEPT ![t] = l]

\* Where a thread goes from a claiming call: it stays at the call while it
\* sleeps, and the pointer it got decides between the other two.
AfterClaim(t, failed, claimed) ==
    Goto(t, IF cv'[t] \in Conditions THEN pc[t]
            ELSE IF cur'[t] = NoFrame THEN failed ELSE claimed)

NeedProcessing(a) == a \cap {"OUT_OF_RANGE", "END_OF_STREAM"} = {}

\* What filters in these slots can make of the attributes a.  The bound on copies:
\* like filter_modfps, no filter clones a frame that was cloned before.
Filtered(slots, a) ==
    LET may == UNION {Marks[s] : s \in slots}
        now == IF "WAS_CLONED" \in a THEN may \ {"IS_CLONED"} ELSE may
    IN {a \cup m : m \in SUBSET now}

Release(t) == cur' = [cur EXCEPT ![t] = NoFrame]

\* Removing a skipped frame.
Drop(t) ==
    /\ Remove(cur[t])
    /\ Release(t)
    /\ dropped' = dropped \cup {id[cur[t]]}

-----------------------------------------------------------------------------
(* The importer.                                                            *)

InSomeRange(n) == \E r \in DOMAIN Ranges : Ranges[r][1] <= n /\ n < Ranges[r][2]

ImportLoop ==
    /\ At(Importer, "loop")
    /\ Goto(Importer, IF Running /\ active[Media] THEN "register" ELSE "exit")
    /\ UNCHANGED <<fbvars, control, history>>

ImportRegister ==
    /\ At(Importer, "register")
    /\ Register(Importer, nextId, Running, active[Media])
    /\ AfterClaim(Importer, "exit", "fill")
    /\ UNCHANGED <<control, history>>

\* Fill the frame, run the PRE_S filters on it and push it.  A read that fails
\* makes it the END_OF_STREAM frame.
ImportFill ==
    LET f == cur[Importer]
        base == IF InSomeRange(nextId) THEN {} ELSE {"OUT_OF_RANGE"}
        good == IF NeedProcessing(base) THEN Filtered({"PRE_S"}, base) ELSE {base}
    IN /\ At(Importer, "fill")
       /\ \/ /\ nextId < MaxFrames
             /\ \E a \in good : attributes' = [attributes EXCEPT ![f] = a]
             /\ nextId' = nextId + 1
             /\ Goto(Importer, "loop")
          \/ /\ attributes' = [attributes EXCEPT ![f] = {"END_OF_STREAM"}]
             /\ Goto(Importer, "end")
             /\ UNCHANGED nextId
       /\ PushNext(f, AfterImport)
       /\ Release(Importer)
       /\ UNCHANGED <<clone, run, active, pool, range, cloned, sig, history>>

\* Both import loops end by stopping the audio importer.
ImportEnd ==
    /\ At(Importer, "end")
    /\ active' = [active EXCEPT !["audio"] = FALSE]
    /\ Goto(Importer, "exit")
    /\ UNCHANGED <<fbvars, run, pool, nextId, range, cloned, sig, history>>

-----------------------------------------------------------------------------
(* The filter threads.                                                      *)

\* stop_requested()
WorkerCheck(w) ==
    /\ At(w, "check")
    /\ Goto(w, IF Running /\ pool THEN "reserve" ELSE "exit")
    /\ UNCHANGED <<fbvars, control, history>>

WorkerReserve(w) ==
    /\ At(w, "reserve")
    /\ Reserve(w, Running)
    /\ AfterClaim(w, "halt", "frame")
    /\ UNCHANGED <<control, history>>

\* A worker that got no frame stops the whole pool.
WorkerHalt(w) ==
    /\ At(w, "halt")
    /\ pool' = FALSE
    /\ Goto(w, "exit")
    /\ UNCHANGED <<fbvars, run, active, nextId, range, cloned, sig, history>>

\* From reserve to the cloning: the end of the stream stops the pool, a skipped
\* frame is dropped, and the PRE_M filters run.  Audio clones before it looks at
\* what those filters skipped, video after.
WorkerFrame(w) ==
    LET f == cur[w]
        skip(a) == "SKIPPED" \in a
        dup(a) == "IS_CLONED" \in a /\ (Media = "audio" \/ ~skip(a))
        a0 == attributes[f]
    IN /\ At(w, "frame")
       /\ pool' = (pool /\ "END_OF_STREAM" \notin a0)
       /\ \/ /\ skip(a0)
             /\ Goto(w, "remove")
             /\ UNCHANGED attributes
          \/ /\ ~skip(a0) /\ NeedProcessing(a0)
             /\ \E a \in Filtered({"PRE_M"}, a0) :
                   /\ attributes' = [attributes EXCEPT ![f] = a]
                   /\ Goto(w, IF dup(a) THEN "dup"
                              ELSE IF skip(a) THEN "remove" ELSE "post")
          \/ /\ ~skip(a0) /\ ~NeedProcessing(a0)
             /\ Goto(w, "push")
             /\ UNCHANGED attributes
       /\ UNCHANGED <<ring, chain, id, cv, cur, clone, run, active, nextId,
                      range, cloned, sig, history>>

\* The flags of the copy are changed through the pointer dup returned, NULL or
\* not.
WorkerDup(w) ==
    /\ At(w, "dup")
    /\ Dup(w, cur[w], Running)
    /\ Goto(w, IF cv'[w] \in Conditions THEN "dup"
               ELSE IF clone'[w] = NoFrame THEN "crash" ELSE "queue")
    /\ UNCHANGED <<control, history>>

WorkerQueue(w) ==
    LET f == cur[w]
        p == clone[w]
    IN /\ At(w, "queue")
       /\ attributes' =
             [attributes EXCEPT ![p] = (@ \ {"IS_CLONED"}) \cup {"WAS_CLONED"},
                                ![f] = @ \ {"IS_CLONED"}]
       /\ PushNext(p, "WAIT")
       /\ clone' = [clone EXCEPT ![w] = NoFrame]
       /\ Goto(w, IF "SKIPPED" \in attributes[f] THEN "remove" ELSE "post")
       /\ UNCHANGED <<cur, control, history>>

\* The core's processing and the POST_M filters.
WorkerPost(w) ==
    LET f == cur[w]
    IN /\ At(w, "post")
       /\ \E a \in Filtered({"POST_M"}, attributes[f]) :
             /\ attributes' = [attributes EXCEPT ![f] = a]
             /\ Goto(w, IF "SKIPPED" \in a THEN "remove" ELSE "push")
       /\ UNCHANGED <<ring, chain, id, cv, cur, clone, control, history>>

WorkerPush(w) ==
    /\ At(w, "push")
    /\ PushNext(cur[w], "READY")
    /\ Release(w)
    /\ Goto(w, "check")
    /\ UNCHANGED <<attributes, clone, control, history>>

WorkerRemove(w) ==
    /\ At(w, "remove")
    /\ Drop(w)
    /\ Goto(w, "check")
    /\ UNCHANGED <<attributes, clone, control, out>>

-----------------------------------------------------------------------------
(* The encoder loop.                                                        *)

First == Ranges[range][1]
Final == Ranges[range][2]

\* Mutant: the frames still in the buffer do not count.
FlagsOnly == \A m \in Streams : active[m]

\* tc_import_status(); the other stream has a frame when this one has.
ImportStatus == \A m \in Streams : HaveMore \/ active[m]

\* need_stop()
EncoderCheck ==
    /\ At(Encoder, "need_stop")
    /\ Goto(Encoder, IF Running /\ ImportStatus THEN "acquire" ELSE "range")
    /\ UNCHANGED <<fbvars, control, history>>

EncoderAcquire ==
    /\ At(Encoder, "acquire")
    /\ Retrieve(Encoder, Running)
    /\ AfterClaim(Encoder, "range", "process")
    /\ UNCHANGED <<control, history>>

\* Without workers the encoder runs the filters of the M slots too.
EncoderSlots == {"POST_S"} \cup IF Workers = {} THEN {"PRE_M", "POST_M"} ELSE {}

\* Mutant: the copies before a frame do not count.
IdNumber(f) == id[f]

\* buf->frame_id: a video frame's number counts the copies encoded before it.
FrameNumber(f) == IF Media = "video" THEN id[f] + cloned ELSE id[f]

\* tc_update_frames_cloned(1) on a video frame with attributes a.
CountClone(a) ==
    cloned' = IF Media = "video" /\ "WAS_CLONED" \in a THEN cloned + 1 ELSE cloned

Recloned(a) == IF "IS_CLONED" \in a THEN (a \ {"IS_CLONED"}) \cup {"WAS_CLONED"}
               ELSE a

\* is_last_frame() on a frame with attributes a; the flag is consumed below.
IsLastFrame(f, a) == "END_OF_STREAM" \in a \/ FrameNumber(f) = Final

\* The rest of encoder_acquire_{v,a}frame, then is_last_frame().  A skipped frame
\* that is also cloned is dropped by video and tried once more by audio; the
\* last frame stays at the head.
EncoderProcess ==
    LET f == cur[Encoder]
        a0 == attributes[f]
        next_a == IF NeedProcessing(a0) THEN Filtered(EncoderSlots, a0) ELSE {a0}
        again(a) == Media = "audio" /\ "IS_CLONED" \in a
    IN /\ At(Encoder, "process")
       /\ \E a \in next_a :
             \/ /\ "SKIPPED" \in a /\ ~again(a)
                /\ attributes' = [attributes EXCEPT ![f] = Recloned(a)]
                /\ CountClone(a)
                /\ Drop(Encoder)
                /\ Goto(Encoder, "acquire")
             \/ /\ "SKIPPED" \in a /\ again(a)
                /\ attributes' = [attributes EXCEPT ![f] = Recloned(a)]
                /\ Release(Encoder)
                /\ Goto(Encoder, "acquire")
                /\ UNCHANGED <<ring, chain, id, cv, cloned, dropped>>
             \/ /\ "SKIPPED" \notin a
                /\ attributes' = [attributes EXCEPT ![f] = a \ {"END_OF_STREAM"}]
                /\ IF IsLastFrame(f, a)
                   THEN Goto(Encoder, "range") /\ Release(Encoder)
                   ELSE Goto(Encoder, "dispose") /\ UNCHANGED cur
                /\ UNCHANGED <<ring, chain, id, cv, cloned, dropped>>
       /\ UNCHANGED <<clone, run, active, pool, nextId, range, sig, out>>

InRange(f) == First <= FrameNumber(f) /\ FrameNumber(f) < Final

\* encoder_export() or encoder_skip(), then encoder_dispose_{v,a}frame().  Audio
\* is not encoded while video is delayed.  A cloned frame stays at the head and
\* is encoded once more.
EncoderDispose ==
    LET f == cur[Encoder]
        mayDelay == MayDelay /\ Media = "audio" /\ InRange(f)
    IN /\ At(Encoder, "dispose")
       /\ \E delay \in {FALSE, mayDelay} :
             LET a == attributes[f] \cup IF ~InRange(f) THEN {"OUT_OF_RANGE"}
                                       ELSE IF delay THEN {"IS_CLONED"} ELSE {}
             IN /\ out' = IF InRange(f) /\ ~delay THEN Append(out, id[f]) ELSE out
                /\ CountClone(a)
                /\ attributes' = [attributes EXCEPT ![f] = Recloned(a)]
                /\ IF "IS_CLONED" \in a THEN UNCHANGED <<ring, chain, id, cv>>
                                        ELSE Remove(f)
       /\ Release(Encoder)
       /\ Goto(Encoder, "need_stop")
       /\ UNCHANGED <<clone, run, active, pool, nextId, range, sig, dropped>>

-----------------------------------------------------------------------------
(* The main thread around the encoder loop.                                 *)

\* A step of the main thread that leaves the frame buffer alone.
MainStep(from, to) ==
    /\ At(Encoder, from)
    /\ Goto(Encoder, to)
    /\ UNCHANGED history

\* The next range, after a user's interruption none.
NextRange ==
    LET over == run = "INTERRUPTED" \/ range = Len(Ranges)
        seek == range + 1 \in Seek
    IN /\ MainStep("range", IF over THEN "stop"
                            ELSE IF seek THEN "cancel" ELSE "need_stop")
       /\ range' = IF over THEN Len(Ranges) + 1 ELSE range + 1
       /\ UNCHANGED <<fbvars, run, active, pool, nextId, cloned, sig>>

\* tc_stop_all(): tc_stop(), then tc_framebuffer_interrupt().
StopAll ==
    /\ MainStep("stop", "interrupt")
    /\ run' = IF run = "RUNNING" THEN "STOPPED" ELSE run
    /\ UNCHANGED <<fbvars, active, pool, nextId, range, cloned, sig>>

StopInterrupt ==
    /\ MainStep("interrupt", "cancel")
    /\ Interrupt
    /\ UNCHANGED control

\* tc_import_threads_cancel(): the flag, the wake-up, the join.
CancelImport ==
    /\ MainStep("cancel", "wake")
    /\ active' = [m \in Streams |-> FALSE]
    /\ UNCHANGED <<fbvars, run, pool, nextId, range, cloned, sig>>

CancelWake ==
    /\ MainStep("wake", "join")
    /\ InterruptImport
    /\ UNCHANGED control

JoinImporter ==
    /\ pc[Importer] = "exit"
    /\ MainStep("join", IF range > Len(Ranges) THEN "pool_stop" ELSE "flush")
    /\ UNCHANGED <<fbvars, control>>

\* Mutant: one frame is removed and no more.
FlushOne ==
    /\ At(Encoder, "flush")
    /\ IF HeadReady THEN Remove(head) /\ UNCHANGED <<attributes, cur, clone>>
       ELSE UNCHANGED fbvars
    /\ Goto(Encoder, "create")
    /\ UNCHANGED <<control, history>>

\* {a,v}frame_flush(), one frame at a time.
Flush ==
    /\ At(Encoder, "flush")
    /\ \/ /\ HeadReady
          /\ Remove(head)
          /\ UNCHANGED <<pc, attributes, cur, clone>>
       \/ /\ ~HeadReady
          /\ Goto(Encoder, "create")
          /\ UNCHANGED fbvars
    /\ UNCHANGED <<control, history>>

\* tc_import_threads_create() for the next range.
CreateImporter ==
    /\ At(Encoder, "create")
    /\ active' = [m \in Streams |-> TRUE]
    /\ pc' = [pc EXCEPT ![Encoder] = "need_stop", ![Importer] = "loop"]
    /\ UNCHANGED <<fbvars, run, pool, nextId, range, cloned, sig, history>>

\* tc_frame_threads_close()
PoolStop ==
    /\ MainStep("pool_stop", "pool_join")
    /\ pool' = FALSE
    /\ UNCHANGED <<fbvars, run, active, nextId, range, cloned, sig>>

PoolJoin ==
    /\ \A w \in Workers : pc[w] = "exit"
    /\ MainStep("pool_join", "done")
    /\ UNCHANGED <<fbvars, control>>

-----------------------------------------------------------------------------
(* The signal handler: tc_interrupt(), then tc_framebuffer_interrupt().      *)

SignalRaise ==
    /\ Alive /\ MaySignal /\ sig = "none" /\ pc[Encoder] # "done"
    /\ sig' = "raised"
    /\ run' = "INTERRUPTED"
    /\ UNCHANGED <<fbvars, pc, active, pool, nextId, range, cloned, history>>

SignalWake ==
    /\ Alive /\ sig = "raised"
    /\ sig' = "handled"
    /\ Interrupt
    /\ UNCHANGED <<pc, run, active, pool, nextId, range, cloned, history>>

-----------------------------------------------------------------------------
ImporterStep == ImportLoop \/ ImportRegister \/ ImportFill \/ ImportEnd

WorkerStep(w) ==
    \/ WorkerCheck(w) \/ WorkerReserve(w) \/ WorkerHalt(w) \/ WorkerFrame(w)
    \/ WorkerDup(w) \/ WorkerQueue(w) \/ WorkerPost(w) \/ WorkerPush(w)
    \/ WorkerRemove(w)

EncoderStep ==
    \/ EncoderCheck \/ EncoderAcquire \/ EncoderProcess \/ EncoderDispose
    \/ NextRange \/ StopAll \/ StopInterrupt \/ CancelImport \/ CancelWake
    \/ JoinImporter \/ Flush \/ CreateImporter \/ PoolStop \/ PoolJoin

SignalStep == SignalRaise \/ SignalWake

Terminated == pc[Encoder] = "done" /\ UNCHANGED vars

Next ==
    \/ ImporterStep
    \/ \E w \in Workers : WorkerStep(w)
    \/ EncoderStep
    \/ SignalStep
    \/ Terminated

\* Every thread that can run is scheduled; a raised signal is handled.
Fairness ==
    /\ WF_vars(ImporterStep)
    /\ \A w \in Workers : WF_vars(WorkerStep(w))
    /\ WF_vars(EncoderStep)
    /\ WF_vars(SignalWake)

Spec == Init /\ [][Next]_vars
FairSpec == Spec /\ Fairness

-----------------------------------------------------------------------------
(* Properties.                                                              *)

\* The types of the variables; every thread is at a line of its own program.
TypeOK ==
    /\ BufferTypeOK
    /\ pc \in [Threads -> ImporterPC \cup WorkerPC \cup EncoderPC]
    /\ pc[Importer] \in ImporterPC /\ pc[Encoder] \in EncoderPC
    /\ \A w \in Workers : pc[w] \in WorkerPC
    /\ run \in {"RUNNING", "STOPPED", "INTERRUPTED"}
    /\ active \in [Streams -> BOOLEAN] /\ pool \in BOOLEAN
    /\ nextId \in Nat /\ cloned \in Nat
    /\ range \in 1 .. Len(Ranges) + 1
    /\ sig \in {"none", "raised", "handled"}
    /\ out \in Seq(Nat) /\ dropped \in SUBSET Nat

With(s) == {f \in Frames : status[f] = s}

\* The counters count the frames of each status: the waits for a free frame and
\* for a frame to filter test a counter and never the frames (FRAME_SET_STATUS,
\* register_frame, remove_frame).
CountersExact == \A s \in Status : count[s] = Cardinality(With(s))

\* What {a,v}frame_get_counters reports (null + empty, wait + locked, ready) is
\* right even where cloning has made wait and locked drift apart.
CountersPooled ==
    /\ \A s \in {"NULL", "EMPTY", "READY"} : count[s] = Cardinality(With(s))
    /\ count["WAIT"] + count["LOCKED"] = Cardinality(With("WAIT"))
                                        + Cardinality(With("LOCKED"))

Holds(t) == ({cur[t]} \cup IF t \in Workers THEN {clone[t]} ELSE {}) \ {NoFrame}

\* The status of the frames a thread works on.
Stage(t) == IF t = Importer THEN "EMPTY"
            ELSE IF t = Encoder THEN "READY" ELSE "LOCKED"

\* A claimed frame is claimed once (the claiming functions of framebuffer.c): no
\* two threads work on one frame, no copy is its original, and a frame keeps the
\* status of the stage that claimed it until that thread gives it up.
NoDoubleClaim ==
    /\ \A t, u \in Threads : t # u => Holds(t) \cap Holds(u) = {}
    /\ \A w \in Workers : clone[w] # NoFrame => clone[w] # cur[w]
    /\ \A t \in Threads : \A f \in Holds(t) : status[f] = Stage(t)

Working == {"frame", "dup", "queue", "post", "push", "remove", "crash"}

\* A thread has a frame exactly at the lines that work on one: every claim that
\* succeeds is given up again (push_next, remove, encoder_dispose), none twice.
Held ==
    /\ cur[Importer] # NoFrame <=> pc[Importer] = "fill"
    /\ cur[Encoder] # NoFrame <=> pc[Encoder] \in {"process", "dispose"}
    /\ \A w \in Workers :
          /\ cur[w] # NoFrame <=> pc[w] \in Working
          /\ clone[w] # NoFrame <=> pc[w] = "queue"

\* The main thread has a range wherever it reads one, and flushes the buffer and
\* starts the next importer only when the last one is gone.
MainInOrder ==
    /\ pc[Encoder] \in {"need_stop", "acquire", "process", "dispose", "range",
                        "flush", "create"} => range <= Len(Ranges)
    /\ pc[Encoder] \in {"flush", "create"} => pc[Importer] = "exit"

\* The chain from the head visits the claimed frames, each once, and none that
\* went back to the pool; prev inverts next and the tail is its last frame
\* (LIST_FRAME_APPEND, LIST_FRAME_REMOVE).
ChainOfClaimed ==
    LET len == Cardinality(Frames \ With("NULL"))
        nth(n) == IF n = 0 THEN NoFrame ELSE ChainAt[n - 1]
    IN /\ {ChainAt[n] : n \in 0 .. len - 1} = Frames \ With("NULL")
       /\ ChainAt[len] = NoFrame
       /\ tail = nth(len)
       /\ \A n \in 1 .. len : prv[ChainAt[n - 1]] = nth(n - 1)

\* The encoder does not sleep in {a,v}frame_retrieve while the head of the chain
\* is ready for it.
EncoderNotStranded == cv[Encoder] = "export" => ~HeadReady

\* While the pool runs, a frame that waits for a filter finds a worker awake:
\* no signal of push_next is lost.
PoolNotStranded ==
    Running /\ pool /\ With("WAIT") # {} =>
        \E w \in Workers : Awake(w) /\ pc[w] # "exit"

\* The importer does not sleep in {a,v}frame_register while the ring has a free
\* frame.
ImporterNotStranded == cv[Importer] = "import" => With("NULL") = {}

\* A worker gets NULL from {a,v}frame_reserve, and stops its pool, only when
\* transcode is told to stop.
NullMeansInterrupted == \A w \in Workers : pc[w] = "halt" => ~Running

\* Every frame in processing can be reached from the head of the chain, so a copy
\* put back into the queue is found again.  Not an invariant where filters clone and
\* skip: LinkAfter leaves the old successor's link back, and when that one is
\* removed the copy is cut out of the chain.
ClaimedInChain == Frames \ With("NULL") \subseteq {ChainAt[n] : n \in 0 .. Last}

\* Frames are encoded in the order they were imported, whatever the filters skip
\* or clone and whenever the workers finish.
EncodedInOrder == \A i \in 1 .. Len(out) - 1 : out[i] <= out[i + 1]

LoopLeft == pc[Encoder] \in {"stop", "interrupt", "cancel", "wake", "join",
                             "pool_stop", "pool_join", "done"}

\* When nobody interrupted the run and no range had to seek yet, then behind the
\* encoder loop every imported frame of the ranges gone through has been encoded,
\* or dropped because a filter skipped it.
NothingLost ==
    LET wanted(n) == \E r \in 1 .. range - 1 :
                        Ranges[r][1] <= n /\ n < Ranges[r][2]
    IN sig = "none" /\ LoopLeft /\ Seek \cap 1 .. range - 1 = {} =>
          {n \in 0 .. nextId - 1 : wanted(n)}
              \subseteq {out[i] : i \in DOMAIN out} \cup dropped

\* While nothing is skipped, the number -c is compared with is the number of
\* frames encoded so far, a copy having the number of its original: frames_cloned
\* counts each copy once, whether a worker or the encoder made it.
NumberedByOutput ==
    LET f == cur[Encoder]
        copy == IF "WAS_CLONED" \in attributes[f] THEN 1 ELSE 0
    IN pc[Encoder] = "dispose" /\ Media = "video" /\ dropped = {}
         /\ range = 1 /\ First = 0 /\ InRange(f)
       => FrameNumber(f) + copy = Len(out)

\* tc_framebuffer_flush leaves every frame unused.
FlushEmpties == pc[Encoder] = "create" => With("NULL") = Frames

\* The chain, seen as the queue of FrameQueue.
Chain ==
    LET len == CHOOSE n \in 0 .. Last :
                  /\ \A m \in 0 .. n - 1 : ChainAt[m] # NoFrame
                  /\ n < Last => ChainAt[n] = NoFrame
    IN [n \in 1 .. len |-> [id |-> id[ChainAt[n - 1]],
                            stage |-> status[ChainAt[n - 1]]]]

Queue == INSTANCE FrameQueue WITH Capacity <- Last, queue <- Chain

\* The pipeline is a bounded queue: each step of each thread on the ring, the
\* links and the statuses is one step of FrameQueue.
ImplementsQueue == Queue!Spec

\* The encoder loop ends: no frame and no wake-up gets stuck on its way to it.
LoopEnds == <>LoopLeft

\* The main thread gets through tc_stop_all, tc_import_threads_cancel and
\* tc_frame_threads_close.
ShutdownEnds == <>(pc[Encoder] = "done")
=============================================================================
