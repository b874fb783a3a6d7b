------------------------------ MODULE CoreModes ------------------------------
(***************************************************************************)
(* What the core modes of the main thread do with the output files: which  *)
(* frames of which unit of the input end up in which file.  The mode picks *)
(* an order of calls (Order); the import session is a counter, the buffer  *)
(* between it and the encoder loop is FramePipeline's subject.             *)
(*                                                                         *)
(*   main thread  transcode_mode_{default,avi_split,psu,dvd}               *)
(*                                                src/transcode.c          *)
(*   encoder      tc_encoder_{open,loop,close}, encoder_export,            *)
(*                encoder_flush                   src/encoder.c            *)
(*   signal       event_handler                   src/transcode.c          *)
(***************************************************************************)
EXTENDS Integers, Sequences

CONSTANTS Modes,      \* the core modes to choose from
          Units,      \* the inputs to choose from: frames per unit
          FrameRange, \* frame_a, frame_b
          SplitFrames,\* splitavi_frames
          Threshold,  \* psu_frame_threshold
          MaxLag,     \* bound: frames a video encoder holds back at most
          MaxFaults   \* bound: calls of modules that fail

\* The calls of each mode; "_whole" is the mode with --no_split.
Order ==
    [default   |-> <<"start", "import", "open", "loop", "stop", "close", "done">>,
     split     |-> <<"start", "import", "open", "loop", "close", "next", "stop",
                     "done">>,
     psu       |-> <<"unit", "start", "import", "open", "loop", "close", "flush",
                     "next", "stop", "done">>,
     psu_whole |-> <<"open", "unit", "start", "import", "loop", "flush", "next",
                     "close", "stop", "done">>,
     dvd       |-> <<"start", "import", "open", "loop", "close", "flush", "next",
                     "stop", "done">>,
     dvd_whole |-> <<"start", "open", "import", "loop", "flush", "next", "close",
                     "stop", "done">>]

ASSUME ModesAssumption ==
    /\ Modes \subseteq DOMAIN Order
    /\ Units \subseteq Seq(Nat) \ {<<>>}   \* an input has at least one unit
    /\ FrameRange \in Nat \X Nat
    /\ {SplitFrames, Threshold, MaxLag, MaxFaults} \subseteq Nat
    /\ SplitFrames > 0

VARIABLES mode,   \* core_mode
          units,  \* frames of each unit: PSUs, chapters or the one stream
          lag,    \* frames the video encoder holds back
          step,   \* index of the next call in the order of the mode
          status, \* tc_run_status
          unit,   \* psu_cur, ch1: the unit to import
          frameA, \* frame_a
          buffer, \* imported frames the encoder loop has not disposed of
          count,  \* vframecount
          held,   \* frames inside the video encoder
          mplex,  \* the file the multiplexor writes to, 0 for none
          files,  \* contents of the files, in the order they were opened
          failed, \* the kinds of calls that failed
          signal  \* whether SIGINT or SIGTERM came

choice  == <<mode, units, lag>>
session == <<unit, frameA>>
stream  == <<buffer, count>>
output  == <<held, mplex, files>>
modevars == <<choice, step, status, session, stream, output, failed, signal>>

ModesInit ==
    /\ mode \in Modes /\ units \in Units /\ lag \in 0 .. MaxLag
    /\ step = 1
    /\ status = "RUNNING"
    /\ unit = 1 /\ frameA = FrameRange[1]
    /\ buffer = <<>> /\ count = 0
    /\ held = <<>> /\ mplex = 0 /\ files = <<>>
    /\ failed = {} /\ signal = FALSE

At(call) == Order[mode][step] = call

Where(call) == CHOOSE n \in DOMAIN Order[mode] : Order[mode][n] = call

Proceed == step' = step + 1
Jump(call) == step' = Where(call)

InterruptedMode == status = "INTERRUPTED"

\* tc_start()
StartCore ==
    /\ At("start") /\ Proceed
    /\ status' = "RUNNING"
    /\ UNCHANGED <<choice, session, stream, output, failed, signal>>

\* tc_import_open, tc_import_threads_create: the frames of the unit and the empty
\* one that ends its stream.  Frame numbers go on from unit to unit.
ImportUnit ==
    LET number == units[unit]
        frame(n) == [unit |-> unit, id |-> count + n - 1, empty |-> n > number,
                     ends |-> n > number]
    IN /\ At("import") /\ Proceed
       /\ buffer' = buffer \o [n \in 1 .. number + 1 |-> frame(n)]
       /\ count' = count + number
       /\ UNCHANGED <<choice, status, session, output, failed, signal>>

\* tc_encoder_open: the multiplexor is configured for a new file, whether or not
\* the last one was closed.
OpenOutput ==
    /\ At("open") /\ Proceed
    /\ files' = Append(files, <<>>)
    /\ mplex' = Len(files) + 1
    /\ UNCHANGED <<choice, status, session, stream, held, failed, signal>>

-----------------------------------------------------------------------------
(* tc_encoder_loop                                                          *)

LoopEnd ==
    IF mode = "split"
    THEN IF frameA + SplitFrames > FrameRange[2] THEN FrameRange[2]
         ELSE frameA + SplitFrames
    ELSE FrameRange[2]

\* need_stop(): nothing left to import and to encode, or told to stop.
NeedStop == status # "RUNNING" \/ buffer = <<>>

LeaveLoop ==
    /\ At("loop") /\ NeedStop
    /\ Proceed
    /\ UNCHANGED <<choice, status, session, stream, output, failed, signal>>

First == Head(buffer)

\* is_last_frame()
IsLast == First.ends \/ First.id = LoopEnd

InLoop == frameA <= First.id /\ First.id < LoopEnd

\* An iteration of the loop that disposes of its frame.
Dispose(exported) ==
    /\ At("loop") /\ ~NeedStop /\ ~IsLast /\ (InLoop <=> exported)
    /\ buffer' = Tail(buffer)
    /\ UNCHANGED <<choice, step, status, session, count, mplex, signal>>

\* Mutant: the frame behind the range is removed like any other.
LastFrameRemoved ==
    /\ At("loop") /\ ~NeedStop
    /\ IsLast
    /\ Proceed
    /\ buffer' = Tail(buffer)
    /\ UNCHANGED <<choice, status, session, count, output, failed, signal>>

\* The last frame stays in the buffer, its flag is consumed.
LastFrame ==
    /\ At("loop") /\ ~NeedStop
    /\ IsLast
    /\ Proceed
    /\ buffer' = [buffer EXCEPT ![1].ends = FALSE]
    /\ UNCHANGED <<choice, status, session, count, output, failed, signal>>

SkipFrame == Dispose(FALSE) /\ UNCHANGED <<held, files, failed>>

\* A module call that may fail; the error is logged and not told to the loop.
Fails(kind) == MaxFaults > 0 /\ failed' = failed \cup {kind}

\* encoder_export: encode, multiplex what the encoder gives back.  The result of
\* the rotation (null: TC_OK) replaces the error flag of both.
ExportFrame ==
    LET frame == [unit |-> First.unit, id |-> First.id, empty |-> First.empty,
                  file |-> mplex]
        taken == Append(held, frame)
        out   == IF Len(taken) > lag THEN <<Head(taken)>> ELSE <<>>
    IN /\ Dispose(TRUE)
       /\ \/ /\ held' = IF out = <<>> THEN taken ELSE Tail(taken)
             /\ \/ /\ files' = [files EXCEPT ![mplex] = @ \o out]
                   /\ UNCHANGED failed
                \/ out # <<>> /\ Fails("multiplex") /\ UNCHANGED files
          \/ Fails("encode") /\ UNCHANGED <<held, files>>

-----------------------------------------------------------------------------
(* tc_encoder_close                                                         *)

\* encoder_flush, then the multiplexor stops.  A failure in the encoder leaves
\* the file open, one in the multiplexor loses a frame; no mode cares.
CloseOutput ==
    /\ At("close") /\ Proceed
    /\ \/ /\ \/ files' = [files EXCEPT ![mplex] = @ \o held] /\ UNCHANGED failed
             \/ /\ held # <<>> /\ Fails("multiplex")
                /\ files' = [files EXCEPT ![mplex] = @ \o Tail(held)]
          /\ held' = <<>>
          /\ mplex' = 0
       \/ Fails("flush") /\ UNCHANGED output
    /\ UNCHANGED <<choice, status, session, stream, signal>>

-----------------------------------------------------------------------------
(* The loops over chunks, program stream units and chapters.                *)

\* split_stream() finds the unit; a unit with few frames is taken for junk.
NextUnit ==
    /\ At("unit")
    /\ IF unit > Len(units) THEN step' = Where("next") + 1 /\ UNCHANGED session
       ELSE IF units[unit] > Threshold THEN Proceed /\ UNCHANGED session
       ELSE /\ unit' = unit + 1
            /\ step' = IF InterruptedMode THEN Where("next") + 1 ELSE step
            /\ UNCHANGED frameA
    /\ UNCHANGED <<choice, status, stream, output, failed, signal>>

\* Mutant: what the encoder loop left in the buffer stays there.
KeepBuffer ==
    /\ At("flush") /\ Proceed
    /\ UNCHANGED <<choice, status, session, stream, output, failed, signal>>

\* tc_import_threads_cancel, tc_import_close, tc_framebuffer_flush
FlushBuffer ==
    /\ At("flush") /\ Proceed
    /\ buffer' = <<>>
    /\ UNCHANGED <<choice, status, session, count, output, failed, signal>>

\* Where a chunk of -t begins.
ChunkStart == "open"

NextChunk ==
    /\ At("next") /\ mode = "split"
    /\ frameA' = frameA + SplitFrames
    /\ IF frameA' >= FrameRange[2] \/ InterruptedMode \/ buffer = <<>>
       THEN Proceed ELSE Jump(ChunkStart)
    /\ UNCHANGED <<choice, status, unit, stream, output, failed, signal>>

NextPSU ==
    /\ At("next") /\ mode \in {"psu", "psu_whole"}
    /\ unit' = unit + 1
    /\ IF InterruptedMode THEN Proceed ELSE Jump("unit")
    /\ UNCHANGED <<choice, status, frameA, stream, output, failed, signal>>

NextChapter ==
    /\ At("next") /\ mode \in {"dvd", "dvd_whole"}
    /\ IF unit = Len(units) \/ InterruptedMode THEN Proceed /\ UNCHANGED unit
       ELSE unit' = unit + 1 /\ Jump("import")
    /\ UNCHANGED <<choice, status, frameA, stream, output, failed, signal>>

\* Mutant: tc_stop() is not polite.
StopRudely ==
    /\ At("stop") /\ Proceed
    /\ status' = "STOPPED"
    /\ UNCHANGED <<choice, session, stream, output, failed, signal>>

\* tc_stop_all()
StopCore ==
    /\ At("stop") /\ Proceed
    /\ status' = IF status = "RUNNING" THEN "STOPPED" ELSE status
    /\ UNCHANGED <<choice, session, stream, output, failed, signal>>

\* The signal handler: tc_interrupt()
SignalComes ==
    /\ ~At("done") /\ ~signal
    /\ signal' = TRUE
    /\ status' = "INTERRUPTED"
    /\ UNCHANGED <<choice, step, session, stream, output, failed>>

ModesStep ==
    \/ StartCore \/ ImportUnit \/ OpenOutput
    \/ LeaveLoop \/ LastFrame \/ SkipFrame \/ ExportFrame
    \/ CloseOutput \/ NextUnit \/ FlushBuffer
    \/ NextChunk \/ NextPSU \/ NextChapter \/ StopCore

ModesNext == ModesStep \/ SignalComes

ModesSpec == ModesInit /\ [][ModesNext]_modevars

-----------------------------------------------------------------------------
(* Properties.                                                              *)

IsFrame(f) ==
    /\ DOMAIN f = {"unit", "id", "empty", "file"}
    /\ f.unit \in 1 .. Len(units) /\ f.id \in Nat /\ f.empty \in BOOLEAN
    /\ f.file \in 1 .. Len(files)

\* The types of the variables; the multiplexor writes to a file that was opened,
\* and has one whenever the encoder loop or tc_encoder_close needs it.
ModesTypeOK ==
    /\ mode \in Modes /\ units \in Units /\ lag \in 0 .. MaxLag
    /\ step \in 1 .. Len(Order[mode])
    /\ status \in {"RUNNING", "STOPPED", "INTERRUPTED"}
    /\ unit \in 1 .. Len(units) + 1
    /\ frameA \in Nat /\ count \in Nat /\ signal \in BOOLEAN
    /\ \A n \in DOMAIN buffer : buffer[n].unit \in 1 .. Len(units)
    /\ failed \subseteq {"encode", "multiplex", "flush"}
    /\ \A n \in DOMAIN held : IsFrame(held[n])
    /\ \A k \in DOMAIN files : \A n \in DOMAIN files[k] : IsFrame(files[k][n])
    /\ mplex \in 0 .. Len(files)
    /\ Order[mode][step] \in {"loop", "close"} => mplex # 0

\* "DO NOT rotate here, this data belongs to current chunk" (encoder_flush): a
\* frame the encoder held back is in the file that was open when it was encoded,
\* unless a flush failed.
OwnFile ==
    "flush" \notin failed =>
        \A k \in DOMAIN files : \A n \in DOMAIN files[k] : files[k][n].file = k

\* A file of a program stream unit or of a chapter has frames of that unit only,
\* and the empty frame that ends a unit's stream, which the encoder loop leaves
\* in the buffer, is never encoded with the next one (tc_framebuffer_flush).
UnitsApart ==
    "flush" \notin failed /\ mode # "split" =>
        \A k \in DOMAIN files : \A n, m \in DOMAIN files[k] :
            /\ ~files[k][n].empty
            /\ mode \in {"psu", "dvd"} => files[k][n].unit = files[k][m].unit

\* Frames get into the file of their chunk, and frames of two units, or an
\* empty frame, into none.
FilesApart == OwnFile /\ UnitsApart

\* The frames of all files, one after the other.
Written ==
    LET upto[k \in 0 .. Len(files)] ==
            IF k = 0 THEN <<>> ELSE upto[k - 1] \o files[k]
    IN upto[Len(files)]

\* Behind a run without errors and without interruption, the files hold in order
\* every frame of the units gone through, each once: nothing is lost between two
\* chunks, units or chapters, nor inside the encoder.
AllWritten ==
    LET frames == SelectSeq(Written, LAMBDA f : ~f.empty)
        low    == FrameRange[1]
        high   == IF FrameRange[2] < count THEN FrameRange[2] ELSE count
    IN At("done") /\ ~signal /\ failed = {} =>
          /\ Len(frames) = IF high > low THEN high - low ELSE 0
          /\ \A n \in DOMAIN frames : frames[n].id = low + n - 1

\* Every file of -t holds frames and nothing but frames ("split output to
\* base%03d.avi with n frames").  Not an invariant: the empty frame that ends the
\* stream stays in the buffer, transcode_mode_avi_split takes it for more input and
\* opens one more file.
ChunksOfFrames ==
    At("done") /\ mode = "split" /\ ~signal /\ failed = {} =>
        \A k \in DOMAIN files :
            files[k] # <<>> /\ \A n \in DOMAIN files[k] : ~files[k][n].empty

\* "interruption is irreversible" (framebuffer.h): once a mode other than PSU has
\* called tc_start, nothing overwrites the interruption, so transcode leaves with
\* the status 127.  PSU mode calls tc_start again for each unit.
InterruptKept ==
    [][InterruptedMode /\ step > 1 /\ mode \notin {"psu", "psu_whole"}
         => InterruptedMode']_modevars
=============================================================================
