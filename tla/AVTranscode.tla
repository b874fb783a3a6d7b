----------------------------- MODULE AVTranscode -----------------------------
(***************************************************************************)
(* Both streams of a transcoding without filter threads: an importer for   *)
(* each and the encoder loop, which takes one frame of each at a time.     *)
(* The buffer of a stream is the bounded queue FrameQueue promises; here a *)
(* frame is EMPTY while its importer fills it and READY from then on.      *)
(*                                                                         *)
(*   importers  {video,audio}_import_loop, multi_import_thread             *)
(*                                                src/decoder.c            *)
(*   encoder    tc_encoder_loop and transcode_mode_{default,directory}     *)
(*                        src/encoder.c, encoder-buffer.c, transcode.c     *)
(*   signal     event_handler                     src/transcode.c          *)
(***************************************************************************)
EXTENDS Integers, Sequences

CONSTANTS Capacity,   \* frames of a ring buffer
          Inputs,     \* the inputs to choose from: frames per file and stream
          Syncs,      \* the audio shifts to choose from (-D), in frames
          Cuts,       \* the encoding ranges -c asks for, <<first, last>>
          MaxDelays,  \* bound: video frames the encoder delays at most
          Signals     \* whether SIGINT or SIGTERM may come

Streams == {"video", "audio"}
Threads == Streams \cup {"encoder"}

ASSUME AVAssumption ==
    /\ Capacity \in Nat \ {0}
    /\ Inputs \subseteq [Streams -> Seq(Nat) \ {<<>>}]
    /\ Syncs \subseteq Int
    /\ Cuts \in Seq(Nat \X Nat) /\ Len(Cuts) > 0
    /\ MaxDelays \in Nat /\ Signals \in BOOLEAN

Silence == -1   \* contents of a padded audio frame
NoData  == -2   \* contents of a frame whose read failed

VARIABLES pc,      \* where each thread is
          asleep,  \* "no", "yes" or "woken", for each thread
          queue,   \* the frames of each stream, oldest first
          run,     \* tc_run_status
          active,  \* {video,audio}_decdata.active_flag
          input,   \* frames of each file, for each stream
          file,    \* the file each importer reads
          pos,     \* how far it has read
          frameId, \* vframecount, aframecount
          sync,    \* vob->sync
          shift,   \* its value at the start
          cut,     \* index of the encoding range
          delays,  \* video frames the encoder has delayed
          sig      \* progress of the signal handler

source == <<input, file, pos, frameId, sync, shift>>
flow   == <<cut, delays>>
avvars == <<pc, asleep, queue, run, active, source, flow, sig>>

Running == run = "RUNNING"

Directory == \E s \in Streams : Len(input[s]) > 1

AVInit ==
    /\ input \in Inputs
    /\ pc = [t \in Threads |-> IF t = "encoder" THEN "need_stop"
                               ELSE IF Directory THEN "open" ELSE "loop"]
    /\ asleep = [t \in Threads |-> "no"]
    /\ queue = [s \in Streams |-> <<>>]
    /\ run = "RUNNING"
    /\ active = [s \in Streams |-> TRUE]
    /\ file = [s \in Streams |-> 1]
    /\ pos = [s \in Streams |-> 0]
    /\ frameId = [s \in Streams |-> 0]
    /\ shift \in Syncs /\ sync = shift
    /\ cut = 1 /\ delays = 0
    /\ sig = "none"

At(t, l) == pc[t] = l /\ asleep[t] # "yes"
Goto(t, l) == pc' = [pc EXCEPT ![t] = l]

Wake(T) == [t \in Threads |-> IF t \in T /\ asleep[t] = "yes" THEN "woken"
                              ELSE asleep[t]]

Sleep(t) ==
    /\ asleep' = [asleep EXCEPT ![t] = "yes"]
    /\ UNCHANGED <<pc, queue>>

\* The run status is tested after a sleep, never before one.
Interrupted(t) == asleep[t] = "woken" /\ ~Running

-----------------------------------------------------------------------------
(* The importers.                                                           *)

\* Where the end of an import loop leads to.
Over == IF Directory THEN "next" ELSE "exit"

Import(s) ==
    /\ At(s, "loop")
    /\ Goto(s, IF Running /\ active[s] THEN "register" ELSE Over)
    /\ UNCHANGED <<asleep, queue, run, active, source, flow, sig>>

\* {a,v}frame_register()
ImportFrame(s) ==
    LET full == Len(queue[s]) = Capacity
        blank == [id |-> frameId[s], stage |-> "EMPTY", data |-> NoData,
                  attributes |-> {}]
    IN /\ At(s, "register")
       /\ \/ ~Interrupted(s) /\ active[s] /\ full /\ Sleep(s)
          \/ /\ Interrupted(s) \/ (full /\ ~active[s])
             /\ asleep' = [asleep EXCEPT ![s] = "no"]
             /\ Goto(s, Over)
             /\ UNCHANGED queue
          \/ /\ ~Interrupted(s) /\ ~full
             /\ queue' = [queue EXCEPT ![s] = Append(@, blank)]
             /\ asleep' = [asleep EXCEPT ![s] = "no"]
             /\ Goto(s, "fill")
       /\ UNCHANGED <<run, active, source, flow, sig>>

\* Mutant: a shift of the audio discards one frame too many.
DiscardsOneMore(s) == IF s = "audio" /\ sync > 0 THEN sync + 1 ELSE 0

\* Frames read and thrown away before the one that counts (stage 3.1).
Discards(s) == IF s = "audio" /\ sync > 0 THEN sync ELSE 0

\* Mutant: nobody is told of the frame.
PushQuietly(s, data, attributes) ==
    LET n == Len(queue[s])
    IN /\ queue' = [queue EXCEPT ![s][n].stage = "READY", ![s][n].data = data,
                                 ![s][n].attributes = attributes]
       /\ UNCHANGED asleep

\* A frame with these contents is pushed; the encoder is told when it is first.
Push(s, data, attributes) ==
    LET n == Len(queue[s])
    IN /\ queue' = [queue EXCEPT ![s][n].stage = "READY", ![s][n].data = data,
                                 ![s][n].attributes = attributes]
       /\ asleep' = IF n = 1 /\ pc["encoder"] = s THEN Wake({"encoder"})
                    ELSE asleep

\* Silence for a negative shift (stage 3.3).
Pad(s) ==
    /\ At(s, "fill") /\ s = "audio" /\ sync < 0
    /\ Push(s, Silence, {})
    /\ sync' = sync + 1
    /\ frameId' = [frameId EXCEPT ![s] = @ + 1]
    /\ Goto(s, "loop")
    /\ UNCHANGED <<run, active, input, file, pos, shift, flow, sig>>

Left(s) == input[s][file[s]] - pos[s]

Fill(s) ==
    /\ At(s, "fill") /\ ~(s = "audio" /\ sync < 0)
    /\ Discards(s) < Left(s)
    /\ Push(s, pos[s] + Discards(s), {})
    /\ pos' = [pos EXCEPT ![s] = @ + Discards(s) + 1]
    /\ sync' = IF s = "audio" THEN 0 ELSE sync
    /\ frameId' = [frameId EXCEPT ![s] = @ + 1]
    /\ Goto(s, "loop")
    /\ UNCHANGED <<run, active, input, file, shift, flow, sig>>

\* The read fails, in a file that is not the last of a directory without ending
\* the stream.  What was not discarded is left to the next file.
FillFails(s) ==
    LET more == file[s] < Len(input[s])
    IN /\ At(s, "fill") /\ ~(s = "audio" /\ sync < 0)
       /\ Discards(s) >= Left(s)
       /\ Push(s, NoData, {IF more THEN "SKIPPED" ELSE "END_OF_STREAM"})
       /\ pos' = [pos EXCEPT ![s] = @ + Left(s)]
       /\ sync' = IF s = "audio" THEN sync - Left(s) ELSE sync
       /\ Goto(s, "end")
       /\ UNCHANGED <<run, active, input, file, frameId, shift, flow, sig>>

\* Both loops stop the audio importer, and never the video importer.
ImportEnd(s) ==
    /\ At(s, "end")
    /\ active' = [active EXCEPT !["audio"] = FALSE]
    /\ Goto(s, Over)
    /\ UNCHANGED <<asleep, queue, run, source, flow, sig>>

\* multi_import_thread: the test before a file is opened.
OpenFile(s) ==
    /\ At(s, "open")
    /\ Goto(s, IF Running /\ active[s] THEN "loop" ELSE "wake")
    /\ UNCHANGED <<asleep, queue, run, active, source, flow, sig>>

\* The next file, unless there is none, or it cannot be opened or differs.
NextFile(s) ==
    /\ At(s, "next")
    /\ \/ /\ file[s] < Len(input[s])
          /\ file' = [file EXCEPT ![s] = @ + 1]
          /\ pos' = [pos EXCEPT ![s] = 0]
          /\ Goto(s, "open")
       \/ /\ Goto(s, "wake")
          /\ UNCHANGED <<file, pos>>
    /\ UNCHANGED <<asleep, queue, run, active, input, frameId, sync, shift, flow,
                   sig>>

\* The end of multi_import_thread wakes everybody up.
ImportWakes(s) ==
    /\ At(s, "wake")
    /\ asleep' = Wake(Threads)
    /\ Goto(s, "exit")
    /\ UNCHANGED <<queue, run, active, source, flow, sig>>

-----------------------------------------------------------------------------
(* The encoder loop.                                                        *)

ImportStatus == \A s \in Streams : queue[s] # <<>> \/ active[s]

NeedStop ==
    /\ At("encoder", "need_stop")
    /\ Goto("encoder", IF Running /\ ImportStatus THEN "video" ELSE "range")
    /\ UNCHANGED <<asleep, queue, run, active, source, flow, sig>>

HeadReady(s) == queue[s] # <<>> /\ Head(queue[s]).stage = "READY"

\* The oldest frame leaves the queue of s, the importer is told.
Dispose(s) ==
    /\ queue' = [queue EXCEPT ![s] = Tail(@)]
    /\ asleep' = [Wake({s}) EXCEPT !["encoder"] = "no"]

\* encoder_acquire_{v,a}frame: a skipped frame is removed and the next awaited.
Acquire(s) ==
    /\ At("encoder", s)
    /\ \/ ~Interrupted("encoder") /\ ~HeadReady(s) /\ Sleep("encoder")
       \/ /\ Interrupted("encoder")
          /\ asleep' = [asleep EXCEPT !["encoder"] = "no"]
          /\ Goto("encoder", "range")
          /\ UNCHANGED queue
       \/ /\ ~Interrupted("encoder") /\ HeadReady(s)
          /\ "SKIPPED" \in Head(queue[s]).attributes
          /\ Dispose(s)
          /\ UNCHANGED pc
       \/ /\ ~Interrupted("encoder") /\ HeadReady(s)
          /\ "SKIPPED" \notin Head(queue[s]).attributes
          /\ asleep' = [asleep EXCEPT !["encoder"] = "no"]
          /\ Goto("encoder", IF s = "video" THEN "audio" ELSE "pair")
          /\ UNCHANGED queue
    /\ UNCHANGED <<run, active, source, flow, sig>>

First(s) == Head(queue[s])
Frame == First("video").id

EndsStream(s) == "END_OF_STREAM" \in First(s).attributes

\* Mutant: the end of the audio stream does not count.
IsLastByVideo == EndsStream("video") \/ Frame = Cuts[cut][2]

\* is_last_frame()
IsLast == (\E s \in Streams : EndsStream(s)) \/ Frame = Cuts[cut][2]

InRange == Cuts[cut][1] <= Frame /\ Frame < Cuts[cut][2]

\* Changes the attributes of both heads, each by its function.
Mark(video, audio) ==
    queue' = [queue EXCEPT !["video"][1].attributes = video,
                           !["audio"][1].attributes = audio]

\* The last pair stays in the queues, with its flags consumed.
Consume ==
    /\ At("encoder", "pair") /\ IsLast
    /\ Mark(First("video").attributes \ {"END_OF_STREAM"},
            First("audio").attributes \ {"END_OF_STREAM"})
    /\ Goto("encoder", "range")
    /\ UNCHANGED <<asleep, run, active, source, flow, sig>>

\* encoder_skip()
Skip ==
    /\ At("encoder", "pair") /\ ~IsLast /\ ~InRange
    /\ Mark(First("video").attributes \cup {"OUT_OF_RANGE"},
            First("audio").attributes \cup {"OUT_OF_RANGE"})
    /\ Goto("encoder", "dispose_video")
    /\ UNCHANGED <<asleep, run, active, source, flow, sig>>

Exporting == pc["encoder"] = "pair" /\ ~IsLast /\ InRange

\* encoder_export(): when the video encoder delays its frame, the audio frame
\* waits for another one.
Export ==
    /\ At("encoder", "pair") /\ Exporting
    /\ \/ UNCHANGED <<queue, delays>>
       \/ /\ delays < MaxDelays
          /\ delays' = delays + 1
          /\ Mark(First("video").attributes,
                  First("audio").attributes \cup {"IS_CLONED"})
    /\ Goto("encoder", "dispose_video")
    /\ UNCHANGED <<asleep, run, active, source, cut, sig>>

DisposeVideo ==
    /\ At("encoder", "dispose_video")
    /\ Dispose("video")
    /\ Goto("encoder", "dispose_audio")
    /\ UNCHANGED <<run, active, source, flow, sig>>

\* Mutant: a frame that is held back is removed as well.
DisposeAudioAlways ==
    /\ At("encoder", "dispose_audio")
    /\ Dispose("audio")
    /\ Goto("encoder", "need_stop")
    /\ UNCHANGED <<run, active, source, flow, sig>>

DisposeAudio ==
    LET a == First("audio").attributes
    IN /\ At("encoder", "dispose_audio")
       /\ IF "IS_CLONED" \in a
          THEN /\ queue' = [queue EXCEPT !["audio"][1].attributes =
                              (a \ {"IS_CLONED"}) \cup {"WAS_CLONED"}]
               /\ UNCHANGED asleep
          ELSE Dispose("audio")
       /\ Goto("encoder", "need_stop")
       /\ UNCHANGED <<run, active, source, flow, sig>>

-----------------------------------------------------------------------------
(* The main thread behind the encoder loop, and the signal handler.          *)

NextCut ==
    LET over == run = "INTERRUPTED" \/ cut = Len(Cuts)
    IN /\ At("encoder", "range")
       /\ Goto("encoder", IF over THEN "stop" ELSE "need_stop")
       /\ cut' = IF over THEN cut ELSE cut + 1
       /\ UNCHANGED <<asleep, queue, run, active, source, delays, sig>>

Stop ==
    /\ At("encoder", "stop")
    /\ run' = IF Running THEN "STOPPED" ELSE run
    /\ Goto("encoder", "interrupt")
    /\ UNCHANGED <<asleep, queue, active, source, flow, sig>>

StopWakes ==
    /\ At("encoder", "interrupt")
    /\ asleep' = Wake(Threads)
    /\ Goto("encoder", "cancel")
    /\ UNCHANGED <<queue, run, active, source, flow, sig>>

Cancel ==
    /\ At("encoder", "cancel")
    /\ active' = [s \in Streams |-> FALSE]
    /\ Goto("encoder", "wake")
    /\ UNCHANGED <<asleep, queue, run, source, flow, sig>>

\* Mutant: only the video importer is told of the end.
CancelWakesVideo ==
    /\ At("encoder", "wake")
    /\ asleep' = Wake({"video"})
    /\ Goto("encoder", "join")
    /\ UNCHANGED <<queue, run, active, source, flow, sig>>

CancelWakes ==
    /\ At("encoder", "wake")
    /\ asleep' = Wake(Streams)
    /\ Goto("encoder", "join")
    /\ UNCHANGED <<queue, run, active, source, flow, sig>>

Join ==
    /\ At("encoder", "join")
    /\ \A s \in Streams : pc[s] = "exit"
    /\ Goto("encoder", "done")
    /\ UNCHANGED <<asleep, queue, run, active, source, flow, sig>>

SignalRaised ==
    /\ Signals /\ sig = "none" /\ pc["encoder"] # "done"
    /\ sig' = "raised" /\ run' = "INTERRUPTED"
    /\ UNCHANGED <<pc, asleep, queue, active, source, flow>>

SignalHandled ==
    /\ sig = "raised"
    /\ sig' = "handled" /\ asleep' = Wake(Threads)
    /\ UNCHANGED <<pc, queue, run, active, source, flow>>

-----------------------------------------------------------------------------
ImporterStep(s) ==
    \/ Import(s) \/ ImportFrame(s) \/ Pad(s) \/ Fill(s) \/ FillFails(s)
    \/ ImportEnd(s) \/ OpenFile(s) \/ NextFile(s) \/ ImportWakes(s)

EncoderStep ==
    \/ NeedStop \/ (\E s \in Streams : Acquire(s))
    \/ Consume \/ Skip \/ Export \/ DisposeVideo \/ DisposeAudio
    \/ NextCut \/ Stop \/ StopWakes \/ Cancel \/ CancelWakes \/ Join

AVNext ==
    \/ \E s \in Streams : ImporterStep(s)
    \/ EncoderStep
    \/ SignalRaised \/ SignalHandled

AVSpec == AVInit /\ [][AVNext]_avvars

\* Every thread that can run is scheduled; a raised signal is handled.
AVFairSpec ==
    /\ AVSpec
    /\ \A s \in Streams : WF_avvars(ImporterStep(s))
    /\ WF_avvars(EncoderStep) /\ WF_avvars(SignalHandled)

-----------------------------------------------------------------------------
(* Properties.                                                              *)

AVFrames == [id : Nat, stage : {"EMPTY", "READY"}, data : Int,
             attributes : SUBSET {"END_OF_STREAM", "SKIPPED", "OUT_OF_RANGE",
                                  "IS_CLONED", "WAS_CLONED"}]

ImportPC == {"open", "loop", "register", "fill", "end", "next", "wake", "exit"}
EncodePC == {"need_stop", "video", "audio", "pair", "dispose_video",
             "dispose_audio", "range", "stop", "interrupt", "cancel", "wake",
             "join", "done"}

\* The types of the variables; only the last frame of a queue is being filled.
AVTypeOK ==
    /\ \A s \in Streams : pc[s] \in ImportPC
    /\ pc["encoder"] \in EncodePC
    /\ asleep \in [Threads -> {"no", "yes", "woken"}]
    /\ queue \in [Streams -> Seq(AVFrames)]
    /\ \A s \in Streams :
          /\ Len(queue[s]) <= Capacity
          /\ {i \in DOMAIN queue[s] : queue[s][i].stage = "EMPTY"}
                = IF pc[s] = "fill" THEN {Len(queue[s])} ELSE {}
          /\ pc[s] = "fill" => queue[s] # <<>>
    /\ run \in {"RUNNING", "STOPPED", "INTERRUPTED"}
    /\ active \in [Streams -> BOOLEAN]
    /\ sync \in Int /\ frameId \in [Streams -> Nat] /\ pos \in [Streams -> Nat]
    /\ cut \in DOMAIN Cuts /\ delays \in 0 .. MaxDelays

\* A pair that is encoded belongs together: the audio is the one recorded with
\* the video, moved by the shift the user asked for and by one frame for each
\* delayed video frame (stages 3.1 to 3.3 of audio_import_loop, encoder_export,
\* encoder_dispose_aframe).
InSync ==
    Exporting /\ ~Directory =>
        LET v == First("video").data - delays + shift
            a == First("audio").data
        IN IF v < 0 THEN a = Silence ELSE a = v

\* The empty frame of a failed read is never encoded, though is_last_frame
\* consumes its flag and the next range finds it at the head.
EmptyNeverEncoded ==
    Exporting => \A s \in Streams : First(s).data # NoData

LoopLeft == pc["encoder"] \in {"stop", "interrupt", "cancel", "wake", "join",
                               "done"}

\* When the audio ends in the last range, and so early that the video importer
\* cannot have come to its own end, the encoder loop ends by itself: the pair
\* with the END_OF_STREAM frame of the audio is always found (is_last_frame).
EndsWithAudio ==
    LET frames == input["audio"][1] - shift
    IN /\ ~Directory
       /\ Cuts[Len(Cuts)][1] <= frames
       /\ frames + MaxDelays + Capacity < input["video"][1]
       => <>(LoopLeft \/ ~Running)

\* Behind the encoder loop the two importers are always joined, however full
\* their rings and wherever the signal finds them (tc_import_threads_cancel).
ImportersJoined == LoopLeft ~> pc["encoder"] = "done"

\* The encoder loop ends.
BothEnd == <>LoopLeft
=============================================================================
