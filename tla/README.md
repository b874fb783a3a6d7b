# TLA+ models of transcode

The repository is an Android application; almost all of its code is the video
transcoder *transcode* 1.2 under `src/app/src/main/jni/source/transcode/` (paths
below are relative to that directory).  Its `src/` and `libtc/` hold the core: a
multi-threaded pipeline that takes frames from importers through filter threads to
an encoder, driven by modes, plug-ins, filters and a control socket.  Around it are
a writer of AVI files, a mode that encodes on a cluster, and about 150 plug-ins.
These modules model the core and the parts around it that keep state of their own,
check them with TLC, and prove the main safety properties with TLAPS.

## 1. Inventory

| component | state | operations | who talks to it |
|---|---|---|---|
| frame buffer, `src/framebuffer.c` | per stream: a ring of frames with a cursor and five counters, a doubly linked chain of the frames in use, one mutex, three condition variables | `register`, `reserve`, `retrieve`, `dup`, `push_next`, `remove`, `flush`, `interrupt`, counters | every thread |
| frame threads, `src/frame_threads.c` | per stream: a pool of workers and its `running` flag | start, stop, the worker loop, cloning | frame buffer; joined by the main thread |
| decoder, `src/decoder.c` | per stream: import thread, `active_flag`, frame count, the shift of the audio | import loops, directory threads, cancel, create, `tc_import_status` | registers frames; cancelled and joined by the main thread |
| encoder loop, `src/encoder*.c` | run status, frame counters, the acquired frames, frames the encoder holds back, the open file | open, acquire, encode or skip, dispose, `need_stop`, flush, close | retrieves and removes frames; on the main thread |
| main thread, `src/transcode.c` | core mode, ranges, unit or chunk | default, directory, split, PSU and DVD modes, seek, stop, shutdown, signal handler | drives all of the above |
| filter chain, `src/filter.c` | table of filters: name, id, enabled, entry | add, remove, find, enable, disable, configure, process, fini | called by importer, workers, encoder and the control socket |
| control socket, `src/socket.c` | server and client descriptor | load, config, enable, disable, parameter | the event thread, on the filter table |
| module system, `libtc/tcmodule.c` | plug-in descriptors with reference counts, totals | load and unload, new and delete a module, delete the factory | encoder and decoder |
| linked list, `libtc/tclist.c` | items, head, tail, count, a cache of items | append, prepend, insert, get, pop, foreach | libtc |
| encoding ranges, `libtc/framecode.c` | list of `<stime, etime>` | `fc_time_contains` | importer, main thread |
| AVI files, `avilib/avilib.c` | position, old index, super index and standard indices per stream; positions of the reader | write, rotate the indices, close, open, seek, read | import and multiplex plug-ins |
| cluster mode, `export/export_pvm.c`, `pvm3/` | sequence numbers, balancer; each slave's files; the merger's list | broadcasts with a ring of tokens, chunks handed to slaves, merging | PVM messages between processes on several hosts |
| frame rate correction, `import/clone.c`, `frame_info.c` | list of frame infos, a counter, repeated frame | a thread reads a log, the importer drops and repeats frames | import plug-ins, demuxer |

Everything else is listed in `PROJECT.json` with the reason it is left out.  The
Android code does not call transcode: it decodes in a loop on one thread.

How the parts interact.  An importer *registers* an empty frame, fills it, runs
the PRE_S filters and *pushes* it: to WAIT when there are workers, else to READY.
A worker *reserves* the first waiting frame, runs the PRE_M and POST_M filters
and pushes it to READY, removes it when a filter skipped it, and puts a *dup*
into the chain behind it when a filter cloned it.  The encoder *retrieves* the head
of the video and of the audio chain once they are READY, runs POST_S filters,
encodes or skips the pair, and *removes* both or leaves one for another round.  The
core mode decides when importers are created, cancelled and joined, when buffers are
flushed, and which file is open meanwhile.  The event thread handles signals and the
control socket, and so works on the run status and the filter table beside all others.

What is hard, and where it bites, is the list `hazards` of `PROJECT.json`: lost
wake-ups, counters that stand for frames in the tests of waits, a doubly linked
chain changed by three kinds of threads, ends of streams seen before the flags
that say so, audio and video that must stay paired, a run status overwritten by the
next unit, a filter table without a lock, reference counts through failing calls,
indices of a file rotated in the middle of a write, and messages of several hosts
that overtake one another.  For each component, what makes it correct is the list of
its properties in section 3.

## 2. Modules

| module | models |
|---|---|
| `FrameBuffer` | `src/framebuffer.c` for one stream, one operator per API function |
| `FramePipeline` | EXTENDS `FrameBuffer`: importer, workers, encoder with the main thread in default mode, signal |
| `FrameQueue` | abstract: a bounded queue in which frames move from stage to stage and leave in order |
| `AVTranscode` | both streams without workers: two importers, the encoder loop, directory mode, the shift of the audio, delayed frames |
| `CoreModes` | the core modes: which frames of which unit get into which output file |
| `FilterTable` | the table of filters under frames, commands and the end of `main` |
| `ModuleFactory` | plug-ins and modules with reference counts |
| `TCList`, `ListSequence` | the list; abstract: a finite sequence |
| `AVIFile`, `Recording` | an AVI file of several RIFFs, written and read; abstract: what was written, as two tracks with positions |
| `Cluster` | one medium encoded by slaves and joined by a merger |
| `CloneSync` | the log reading thread and the importer that follows the log |
| `MCFramePipeline`, `MCAVTranscode`, `MCParts` | values of the constants for TLC; `MCParts` joins the seven modules from `CoreModes` to `CloneSync` that share no state, a behaviour exercises one of them |
| `FramePipelineProofs`, `ChainProofs`, `LossProofs` | proofs about `FramePipeline`, each on top of the one before |
| `AVTranscodeProofs`, `CloneSyncProofs`, `ClusterProofs` | proofs about those modules |
| `PartsProofs` | proofs about `CoreModes`, `ModuleFactory`, `FilterTable` and `TCList` |
| `SequenceLemmas` | what the proofs need of the operators on sequences |

**`FrameBuffer`, `FramePipeline`.**  `status`, `attributes`, `id`, `nxt`, `prv` are
fields of the frames, `head`, `tail` the ends of the chain, `next` and `count` the
cursor and the counters of the ring, `cv[t]` where a thread sleeps.  `cur[t]` and
`clone[t]` are the pointers in the local variables of thread `t`, `pc[t]` its line.
`out` and `dropped` are history.  An action covers the code from one lock of the
buffer's mutex, or one test of a shared flag, to the next.  `ImportRegister`,
`WorkerReserve`, `WorkerDup` and `EncoderAcquire` are the calls that can sleep: `Sleep`
leaves `pc` where it is, and a thread whose `cv` is `"signalled"` takes the same action
again, with the look at the run status (`Interrupted`) that the code makes only after
a sleep.  `vframe_dup` leaves its wait on an interruption and goes on to claim; the
other three return NULL.
- A filter is any function that may set SKIPPED or IS_CLONED, in the slots `Marks`
  allows.  No filter clones a frame that was cloned before
  (`filter/filter_modfps.c:549` tests that; `filter/filter_fps.c:145-150` does not).
- The other stream runs in step: it has a frame whenever this one has and ends with
  it.  `AVTranscode` is the module without that restriction.
- STATBUFFER is on (`configure.in:692-697`).  Condition variables have no spurious
  wake-ups, and a signal wakes any one sleeper.

**`AVTranscode`.**  The buffer of a stream is the bounded queue of `FrameQueue`, an
element is a frame with its stage; importers sleep on a full one, the encoder on an
empty one or one whose head is not READY.  `data` is the number of the frame in the
input, so that pairs can be compared.  `sync` is `vob->sync`, `shift` its first value.

**`CoreModes`.**  `Order` is the sequence of calls of each mode; an action is one call.
The import session delivers all frames of a unit and the empty frame at once: how
they get through the buffer is the subject of the modules above.  `held` are the frames
inside the encoder, `mplex` the file that is open, `files` what is in each.  Modules may
fail, each kind of call once or more (`failed` names the kinds).

**`FilterTable`.**  An action is one read or write of the table that another thread may
come between, or a call into a plug-in.  `Processors` are the threads that pass frames,
`event` is where the event thread is in its command, `fini` where the main thread is.

**`ModuleFactory`, `TCList`.**  One action per function.  The list never allocates a
released item again, so that an operation that follows a pointer into it shows
(`broken`, with the call and its position).  Callers name any of `Positions`, also one
the list does not have, and the search then ends where the code's does.  `careful`, chosen
at the start from `Careful`, restricts them to positions that exist and, to get or pop, the
first of an empty list, which is how `filter_stabilize.c:922` ends a loop.  `asked` is the
position of the last call.  The runs give the list no cache (see section 5).

**`AVIFile`.**  The file is the sequence of its chunks with their lengths, a chunk of
data has a number for contents.  `idx` is the old index, `std` and `offset` the
standard indices.  Bounds are scaled: `RiffThreshold` is `NEW_RIFF_THRES`, `MaxRiffs`
`NR_IXNN_CHUNKS`.  There is one audio track; the chunks avilib writes for itself are
always written, only data may fail; of the headers only lengths and the super index
are kept; callers read a positive number of bytes and seek inside the audio, as those
in the repository do.  `AVI_read_audio` behind the last chunk, where `AVI_read_audio_chunk`
leaves the reader, looks at an entry the index does not have (`ReadBeyond`), and the model
stops there.

**`Cluster`.**  `mail[t]` are the messages sent to a task, in the order they were
sent; a receive takes a wanted one that no wanted one of the same sender precedes, and
with `Overtaking = FALSE` the first of all.  `order` is what the export module does,
`slave[s]` the statics of a slave process, `elab` and `erase` the lists of the merger.
`FrameTask` scales the frames of a chunk (the code allows no less than ten).  The
encoder of a slave may fail at every call, one kind of failure per run (`MaxFailures`);
after a failed restart it encodes nothing.

**`CloneSync`.**  `infos` is the list of `frame_info.c`, `fill` the counter the importer
waits on, `clean` says that no session began with a rest of the one before.  The log and
the decoder's pipe are external.

## 3. Runs

| run | instance | checks | shows |
|---|---|---|---|
| `video_pool` | 2 workers, ring 3, 4 frames | `PoolNotStranded`, `ImporterNotStranded`, `LoopEnds` | no wake-up is lost on the way of plain frames, and the loop ends |
| `skipping` | 1 worker, filters skip in every slot, a signal | `EncoderNotStranded`, `NullMeansInterrupted`, `CountersExact`, `ChainOfClaimed` | the counters are exact, nobody is left sleeping or stopped without reason, and the chain is a well formed list of the claimed frames |
| `cloning` | 2 workers, filters clone and skip, video delayed | `NoDoubleClaim`, `CountersPooled`, `EncodedInOrder` | frames have one owner at a time and come out in order, whatever the workers do |
| `seeking` | no workers, adjacent ranges and one with an offset, a signal | `TypeOK`, `FlushEmpties`, `NothingLost` | the flush leaves no frame, and each imported frame asked for is encoded |
| `queue` | 1 worker, copies by worker and encoder | `NumberedByOutput`, `ClaimedInChain`, `ImplementsQueue` | the pipeline implements `FrameQueue`; each copy is counted once, and none falls out of the chain |
| `av` | both streams, one file or two, streams of equal and different length, audio ahead and behind, a delayed frame, two ranges, a signal | `InSync`, `EmptyNeverEncoded`, `EndsWithAudio`, `ImportersJoined` | encoded pairs belong together, the empty frame of an ended stream is never encoded, the loop ends with the audio, the importers are joined |
| `parts` | see below | 16 properties | see below |

The properties of `parts`:

| part | instance | properties |
|---|---|---|
| `CoreModes` | six modes, three inputs of one to three units, one of them empty, encoders that hold back up to two frames, one failing module | `FilesApart` (no frame in the file of another unit or chunk), `AllWritten` (without failures every frame is in a file, in order), `InterruptKept` |
| `ModuleFactory` | three descriptors, three types, two handlers | `CountsAreReferences`, `FactorySafe` |
| `FilterTable` | two slots, two names, two threads with frames | `RunsLoaded`, `PassComplete`, `FindsLoaded` |
| `TCList` | three allocations, two values, callers that are careful and callers that name any position up to two behind either end | `ImplementsSequence` (of careful callers), `BreaksOnlyThere` (the only calls that follow a NULL or released pointer are those section 5 lists) |
| `AVIFile` | five chunks of data, short and long, RIFFs that hold three of the long ones, a failing write, seeks to a frame that may exist and one that does not, and to bytes | `RiffsTile` (the lengths of the lists cover the file), `ImplementsRecording` (it is read as it was written) |
| `Cluster` | two slaves, chunks of two frames, a stream of up to five, any one kind of failure | `MergedInOrder`, `FreeTaskKnown`, `NeverStuck` |
| `CloneSync` | three logs, one or three frames, two sessions | `FramesFollowLog` |

`CHECK_DEADLOCK` is FALSE everywhere: every model ends where its program does, and a
hanging shutdown is what `shutdown_hang` is about.  That the systems do not stop before
is stated by `LoopEnds`, `EndsWithAudio`, `ImportersJoined` and, as an invariant over
ENABLED, by `NeverStuck`.

**Bounds.**  `Last` (frames of the ring), `MaxFrames`, `Ranges`, `Workers` for the pipeline;
`Capacity`, the lengths in `Inputs`, `MaxDelays` for both streams; `Units`, `MaxLag`,
`MaxFaults`; `MaxFilters`, `Names`; `Handlers`, `Types`, `Handles`; `MaxItems`, `Positions`;
`MaxChunks`, `MaxErrors`, `MaxRiffs`, `Seeks`; `NProc`, `Frames`, `MaxFailures`; `Logs`, `Pipes`,
`MaxOpens`.  There is no other bound.  A ring of 2 or 3 frames with 2 to 4 imported
frames fills up, wraps and drains; 3 frames give the chain a head, a middle and a
tail, which is what link and unlink distinguish.  Two workers are two competitors for
one frame and one wake-up.  Three ranges give a first, an adjacent and a distant one.
Two slots make ids, order and a full table; five chunks with three to a RIFF rotate the
indices within a write of either stream; three items give a list its two ends and a
middle, and two positions behind either end one that misses the list and one that misses
what a search may meet behind it; two slaves and three chunks use both slaves
and come back to the first.  Symmetry is used in `cloning` only, over the workers, in a
run without liveness.

**Fairness.**  Weak fairness for each importer, each worker, the encoder thread and the
handling of a signal that was raised: each is an operating system thread that is
scheduled while it can run.  Sleeping on a condition disables a thread, so fairness gives
no wake-up the code does not send.  Nothing is assumed of the arrival of signals, there
is no strong fairness, and no choice of data is fair: the inputs are finite.

**Runs that find a disagreement** (`findings` of `PROJECT.json` quote the lines):

| run | property | what the code does |
|---|---|---|
| `clone_drift` | `NullMeansInterrupted` | `vframe_dup` counts its copy as WAIT, `vframe_copy` then gives it status LOCKED; `wait` stays one too high, a worker later gets NULL from `vframe_reserve` and stops the pool |
| `shutdown_hang` | `ShutdownEnds` | the stop comes between a worker's test and its sleep; the join waits for ever |
| `av_hang` | `BothEnd` | streams of equal length: the end of the video clears the flag of the audio importer, which leaves without an END_OF_STREAM frame; the encoder waits for audio for ever |
| `late_command` | `NoLateCall` | `main` removes the filters before it stops the event thread, whose command then calls into an unloaded plug-in |
| `cluster_hang` | `NeverStuck` | a token that overtakes the broadcast it belongs to is thrown away by the scheduler loop, and slave and master wait for ever |

## 4. Proofs

Assumptions on the constants: `RingAssumption` (a ring has at least one frame),
`ThreadAssumption` (finitely many workers; importer and encoder are neither workers
nor the same thread), `PipelineAssumption` (the types of the other constants, at least
one range), `AVAssumption` (every stream of an input has at least one file),
`ModesAssumption` (an input has at least one unit), `FilterAssumption`,
`FactoryAssumption`, `ListAssumption` (`MaxItems` and the positions are numbers), `SyncAssumption` (a log is a
sequence of counts) and `NProcAssumption` (there is a slave).  The theorems hold for every
ring, pool, filter behaviour, list of ranges, input, number of filters, plug-ins, modules and
items, with and without signals.
Some have a hypothesis on top, because the code does not keep the property without it
(section 5 tells how it fails):

| hypothesis | meaning | theorems | what fails without it |
|---|---|---|---|
| `Unused(m)` | no filter sets mark `m` | `UnclonedCountersExact`, `ImporterWoken`, `PoolWoken`, `NullOnlyWhenStopped` (`IS_CLONED`); `EncoderWoken` (`SKIPPED`) | a copy is counted as WAIT while LOCKED (`clone_drift`); a worker removes the head and signals nobody |
| `Uncopied` | `Unused("IS_CLONED")`, or no workers | `ChainWhole` | `prev` does not lead back over a copy |
| `Uncopied` or `Unremoved` | no copies, or no worker removes a frame | `OutputInOrder`, `NoFrameCutOut`, `PipelineIsQueue`, `NumberIsOutput` | a removal cuts a copy out |
| `Unused("IS_CLONED")`, `EndsSeen` | nothing is cloned; one range, or ascending ranges and nothing skipped | `NoFrameLost` | copies shift the numbers a range is compared with; when the frame that ends a range is skipped, the loop passes over the frames of the next range; so it does with descending ranges |
| `Workers = {}` | no frame threads | `FlushLeavesNothing` | frames in the hands of workers stay |
| `Cached = {FALSE}` | the list has no cache of deleted items | `ListIsSequence`, `ListBreaksOnlyThere` | a recycled item keeps its next pointer |
| `Gapped` | a frame between any two ranges | `ContentsEncoded`, `PairsInSync` | the pair that ended a range is encoded by the next one |
| `Overtaking = FALSE` | messages of different senders arrive in the order in which they were sent | `MergeKeepsOrder` | the order to merge may come before the announcement of a file, whose chunk is then left out |

Every hypothesis has instances among the runs, except that `Gapped` excludes adjacent
ranges, which the run `seeking` has and `av` has not.

*Frame pipeline.*
- **`TypeCorrect`, `PointersHeld`, `MainStepsInOrder`**.  The inductive invariant is
  `Typed == TypeOK /\ Held /\ MainInOrder`.  `TypeOK` is not inductive alone: `status'`
  is a function on the frames only because the pointer passed to `push_next` or `remove`
  is not NULL, and that is `Held`; `Ranges[range]` is a range only because of
  `MainInOrder`.  What each claiming call can do is stated once, in lemmas about
  `FrameBuffer`, so the proof per action is about `pc` and the pointer.
- **`ClaimedOnce`**, **`PooledCountersRight`**.  The second part of
  `FramePipelineProofs` sorts all steps of all
  threads into eight kinds of *transfer* of frames between threads and the pool
  (`Transfer`), proves that every step is one (`NextTransfers`), and that each keeps
  `NoDoubleClaim`: a thread only claims a frame whose status shows that nobody has it.
  A transfer also changes one status and two counters by one, and that gives
  `CountersPooled`, the part of `CountersExact` that survives cloning.
- **`UnclonedCountersExact`**.  Where no filter clones, `Absent` (no frame, no local
  variable has the mark) is invariant, so there is no copy, and the transfers that are
  left keep every counter exact.
- **`EncoderWoken`, `ImporterWoken`, `PoolWoken`**.  A sleeper is stranded if what it
  waits for is there and nobody will signal.  The invariants relate where threads sleep
  to the statuses and counters their tests read (`Beds`: who may sleep where).  Where no
  filter skips, only the encoder removes the head, so a READY head was signalled when it
  was pushed; where none clones, the counters are exact, so a free slot or a waiting
  frame is seen by the test or signalled later.
- **`ChainWhole`, `OutputInOrder`, `NoFrameCutOut`**.  `ChainOfClaimed` walks a chain by
  recursion, which cannot be reasoned about directly.  The invariant `Chained` says instead
  that there *is* a list `c` of length `n` such that `c` follows `next` from head to tail
  (`Linked`), holds exactly the claimed frames, each once (`Members`), has ids that do not
  decrease (`Sorted`), and, without copies, is inverted by `prev` (`Back`).  Seen from the
  chain each step is one of six *passages* (`NextPasses`): none, a frame enters at the tail,
  advances to the next stage, is copied, is skipped wherever it stands, or leaves finished from
  the head; for each of them the proof names the list of the next state.  The walk the
  property speaks of is then compared with `c` by induction on its length, as the least
  counterexample of a set of numbers.  The encoder takes the head, whose id no
  other frame of the chain undercuts, hence `EncodedInOrder`.
- **`PipelineIsQueue`**.  Step by step: the queue of the refinement mapping is `c` with
  the statuses read as stages, and each passage is an action of `FrameQueue` or a stutter.
- **`NullOnlyWhenStopped`**.  With exact counters, a frame counted as WAIT is in the chain,
  so a worker that finds none after the test of its counter was woken by an interruption.
- **`FlushLeavesNothing`**.  Without workers a frame in the chain is READY unless the
  importer has it, the importer has ended before the flush, and the flush removes READY
  heads until there is none: again by the least counterexample.
- **`NoFrameLost`**.  `NothingLost` speaks of the encoder only after its loop; the
  invariant (`Accounted`) says on the way there where each id given out is.  While the
  encoder is in a range (`Steady`), a frame of the range is in use or encoded or dropped,
  and with several ranges those behind it are all in use (`InRanges`): this is what makes
  the first frame of the next range still be there.  That the encoder leaves no frame
  behind has three reasons, one for each way out of a range.  At the number of its end and at
  END_OF_STREAM the head has the least id in use (`HeadLeast`, from `Sorted` of `ChainProofs`);
  END_OF_STREAM is on the last frame and the importer adds none behind it (`EndIsLast`);
  and `need_stop` finds an empty buffer only after the importer left (`OnCourse`), so nothing
  comes after the test.  What is behind the encoder stays so (`Settled`, `SettledStays`).
- **`NumberIsOutput`**.  The number of a frame is its id plus the counter of copies, and that
  counter grows only when a copy is disposed of, so the property says nothing of copies that
  still wait.  `Counted` does: along the list `c` of the chain, `id + Copy` is one more than
  the id before it (`Numbered`: a copy repeats the id of its original, which is in front of
  it), the last id is the one the importer gave out last, and the id of the head plus the
  counter is the number of frames out.  Each passage of the chain keeps that.  A frame is a
  copy from the moment its original is duplicated, when only a local variable of the worker
  says so (`Doubles`); no video frame is a copy and to be copied at once (`NoCopyCloned`),
  else a worker would copy a copy and the numbers would run apart.

*Both streams.*
- **`AVTypeCorrect`, `ContentsEncoded`, `PairsInSync`**.  Three invariants, one inside the
  other.  `AVBase` has the types and says that only the last frame of a queue is being
  filled.  `AVCore` numbers the frames of a queue without gaps, and says where a frame whose
  END_OF_STREAM was consumed can be: at the head of its queue, once the loop is left, while its
  pair is still disposed of, or in front of a range that begins behind it (`SpentGuarded`).  `AVSync` gives the contents of
  each queued frame from its id, and the distance of the two streams at each line of the
  encoder loop (`Paired`), where they differ for a moment because audio is read, held back
  or put aside alone.

*Core modes.*
- **`InterruptionKept`**.  `InOrder`: a mode that starts the core does so with its first
  call, so `tc_start` overwrites nothing that came after it, in all modes but PSU.
- **`FramesInTheirFiles`, `ModesTypeCorrect`**.  `FilesInv` says where frames are at each
  call of the main thread: a file is open exactly between `tc_encoder_open` and
  `tc_encoder_close`, and outside the encoder holds nothing (`HeldFits`); the buffer is empty
  when an import starts, and up to the loop has fresh frames of that unit only (`Flushed`).
  A frame the encoder holds back is therefore written to the file it was encoded for.

*Filters and plug-ins.*
- **`FactoryCounts`, `FactoryIsSafe`**.  The counts of a descriptor are the numbers of
  the modules that exist; the strengthening says which slots are free and that no two
  loaded ones have one type.
- **`FramesMeetLoaded`, `PassesComplete`**.  `FilterInv`: an enabled slot is loaded with
  all its fields (`Whole`), ids of loaded filters differ and are below the next one, and
  the filters a frame has still to meet lie ahead of it (`DueAhead`).
- **`CommandsFind`**.  `Packed`: while there are commands, loaded filters fill the table
  from slot 0, so a name a failed load left behind lies behind every loaded filter, and the
  search comes to the loaded one first.

*The list.*
- **`ListIsSequence`**.  The refinement of `ListSequence`, operation by operation, without
  a bound on the items.  The property speaks of `careful` callers and maps the list of
  others to the empty sequence for ever (`CarefulMapped`), as for those the header is not
  kept (section 5).  `ListInv` says that there is an array of the
  items in the list that `next` follows from `head` to NULL and `prev` follows back, except
  that `prev` of the first item and the `tail` of an empty list are NULL or an item that was
  released.  It holds for all callers.  A search from the head visits that array
  (`ForwardIs`), one from the tail its reverse and then what `prev` of the first item points
  to (`BackwardIs`, `BackwardEmpty`); `FoundNear` says which item it finds, `Clamped` its
  place.  That a search from the tail gets as far as the released item needs room for one more
  step: a released item is one that is not in the list (`n < fresh - 1` in `Holds`).
  All rest on what a walk along a pointer is, which `WalkExists` and `WalkFacts` give from
  its definition.  The four ways to insert are one (`Linking`), so the next array is named
  once.
- **`ListBreaksOnlyThere`**.  From the same invariant, for every position: a search meets a
  released item only behind the first one, counted from the end, and only when the list is
  `Stale` (`LostWhere`); an item that is found lies in the list, whose neighbours are good
  but at its ends (`NeighboursGood`); and an insertion follows a pointer at an end only from
  the item of a list of one.

*Frame rate correction.*
- **`SyncFramesFollowLog`**.  `SyncInv` counts the entries of the log.  Those read lie, in
  their order and behind whatever earlier openings left, in the list between the two threads
  (`FollowsLog`); `Counted` ties the counter to the ready items of the list, less the one that
  is not yet counted and the one in the importer's hands; `Shown` says that what was
  shown and the repeats still owed are the corrected sequence of the entries used.
  The property is claimed for sessions that begin clean (`clean`), because the state of
  a session survives `clone_close` (section 5), and so is the invariant.

*Cluster mode.*
- **`FreeSlavesAreFree`**, **`ClusterTyped`**.  `FreeInv` relates the mail of the master, the
  mail of the slaves and the table `p_used_tid` while chunks are given out.  `ClosedLast`: the
  message that ends a chunk is the last one of the master on its way to a slave, it has the
  number of the slave's chunk, and is there only when the chunk is complete.  `ChunksApart`: no
  two slaves have one chunk.  So the slave that takes that message has nothing left to do and
  joins the set `Freed`; `Listed`: the reports that wait at the master are of slaves in `Freed`,
  one of each.  Most steps are `Passive`, they send nothing to a slave in the name of the
  master and report no end.  This needs the order of one sender's messages only, so it holds
  with `Overtaking` as well.
- **`MergeKeepsOrder`**, with `Overtaking = FALSE`. The merger joins what it has been told
  of when "run" reaches it; a file announced later would be left out. It is announced
  before, since a slave announces before it passes on the token of MOD_close, and the master
  sends "run" when that token is back. `ClusterInv` says this for every step, in two phases.
  While the modules are opened (`EarlyInv`), `Round` gives the place of the token
  (`TokenAt`) and what each mail can hold (`Place`), so that the mails are known when the
  first frame is sent. Afterwards (`Upheld`) the mails keep a line, in which "run" comes
  behind all that it has to come behind (`InLine`); a slave that the token has passed is
  `Calm`, it writes no frame any more. `Jobs`: every slave works on a chunk of its own.
  `Sorted`: the merger's list rises with the number of the chunk. `Kept`: each file with
  frames is announced once, for the chunk it holds, by a message on its way or in the list
  (`Filed`), a slave's `first` flag tells whether there is a frame in its newest file
  (`Marked`), and the frames stored and still to come rise with the chunks (`Framed`). The
  join of rising pieces, each below the next, rises (`RisingPieces`).

Only model-checked:
- liveness and ENABLED (`LoopEnds`, `EndsWithAudio`, `ImportersJoined`, `NeverStuck`), which
  are out of the prover's reach;
- `AllWritten`, `RiffsTile`, the refinement of `Recording`: they compare sums, flattened or
  selected sequences, which needs induction over data for each recursive function.

## 5. What the code does that no run keeps

Each of these was met while modelling.  Where a property is named, changing the
instance as described makes TLC violate it.

*Frame pipeline.*
- Two workers and filters that skip: a worker removes the head while its successor is
  READY already, and nobody signals the encoder (`framebuffer.c:824`, `EncoderNotStranded`).
- A copy is linked without a back pointer from its successor; when a filter skips that
  successor, its removal cuts the copy out of the chain (`framebuffer.c:697`,
  `ChainOfClaimed` with `CloneSkipM`).
- The END_OF_STREAM frame is visible before the active flag is cleared, and the clearing
  wakes nobody: with several ranges the encoder may start the next one in between and
  sleep (`decoder.c:530`, 666; `encoder.c:488`; `LoopEnds` with `NextToEach`).
- `vframe_flush` removes frames only while the head is READY, so frames in the hands of
  workers stay (`FlushEmpties` with a worker; `framebuffer.h:239` says all are unused).
- A filter that skips the frame that ends a range: `is_last_frame` compares for equality,
  and the loop runs on and passes over the frames of the next range (`NothingLost` with
  `SkipAll` and two ranges; `encoder.c:495`).  Ranges of `-c` in descending order lose the
  frames of the second (`NothingLost` with <<2, 3>>, <<0, 1>>).
- `DUP_vptr_if_cloned` uses the result of an interrupted dup without a test
  (`frame_threads.c:123`; the line `"crash"`).
- A signal between `need_stop` and the sleep of the encoder wakes nobody.

*Both streams, modes.*
- `-t` opens one more, empty file when a chunk ends exactly with the range or the stream
  (`transcode.c:562`, `encoder.c:487`; `ChunksOfFrames` states what
  `docs/man/transcode.1.xml:1168` promises, and is no invariant).
- Adjacent ranges whose boundary is the end of the audio encode the empty frame.  A video
  importer that ends early costs up to a ring of final audio frames; the audio held back
  with a delayed video frame is lost at the end; the audio thread of directory mode may
  stop after its first file.
- PSU mode calls `tc_start` for every unit (`transcode.c:690`) and overwrites an
  interruption, against `framebuffer.h:158`; a worker that saw it has left without
  clearing `running`, so the pool is not started again (`frame_threads.c:303`).
- The result of the rotation overwrites the error of a failed encode with TC_OK
  (`encoder.c:873`), `encoder_flush` swallows errors of the multiplexor, and no mode looks at
  what `tc_encoder_close` returned.  The functions that set the limits of the rotation
  (`encoder.c:932`, 942) are never called.

*Filters, modules, list.*
- A filter whose initialisation fails is removed and its slot enabled with id 0, and the
  caller is told it was loaded; `handle_config` inverts the result; a filter is closed and
  initialised again while a frame may be in it; a `load` beside `tc_filter_fini` may keep a
  plug-in.  `pause` leaves the encoder in a loop that does not look at ^C.
- With `use_cache` a recycled item keeps its next pointer, and the list runs into old
  items (`tclist.h`: "using the cache will not hurt").
- `tc_list_pop` leaves the tail of an emptied list as it was, and what is appended then points
  back to it (`Stale`).  A prepend to such a list writes through NULL; `get`, `pop` and
  `insert` at a position from the end that is missing read the released item, -1 in an emptied
  list included (`tclist.c:135`).
- `find_position` passes every position (`tclist.c:154`) and ends its search at the last item
  it meets.  In a list that is not empty `get` and `pop` of a missing element give, or remove,
  the last or the first one instead of NULL (`tclist.h:163`, 176); no caller in the repository
  asks for one.  `insert` behind the last position puts the element before the last one, before
  the first position behind the first one (`tclist.h:150` says otherwise), and in a list of
  one item it writes through NULL
  (`tclist.c:173`, 192).  Without a cache nothing else follows such a pointer
  (`BreaksOnlyThere`).
- A module whose initialisation fails leaves its plug-in loaded, and
  `tc_del_module_factory` refuses to delete the factory.  Instance numbers are reused
  (`InstancesApart` is no invariant), which nothing in the repository depends on.

*AVI files.*
- An audio track that begins behind the first RIFF numbers its indices from there and the
  reader loses them (`Spoilt` names the case, the properties exclude it).
- A failed write of data leaves its index entries: the reader finds another chunk there.
- `idx1` ends with an entry for the chunk that caused the rotation, at a place where that
  chunk is not.  The 33rd RIFF fails with its count already raised, and closing a file of
  32 uses an index behind the array.  Audio before any video is never rotated.  The check
  of the 2 GB limit that `README.avilib:215` describes is compiled out.
- `AVI_read_audio` of 0 bytes skips a chunk; seeking beyond the end makes the rest negative.

*Cluster mode.*
- With `Overtaking` the order to merge may also come before the announcement of a file, and
  the chunk is left out (`MergedInOrder`; `docs/pvm3/export_pvm.txt:26`).
- Of the code of a broadcast only -1 counts: a wrong version goes unnoticed, and a first
  1 hides a later -1.  An encoder that cannot take the format makes the second restart
  answer like a broadcast, and its slave waits in the ring for ever.
- A merger that cannot create its file does not answer (`export_pvm_slave.c:389`), and the
  master waits for ever.  Failures of encode and of the restarts are reported to nobody:
  frames are missing, or a slave is never free again.
- Replies use the sequence number as tag, so number 33 is taken for a token of the ring.
  A slave that dies is not noticed.

*Frame rate correction.*
- The reader clears its flag at the end of the log without a signal; an importer that
  waits for one more entry waits for ever (`clone.c:377`; the comment in line 24 knows of
  lock ups).
- `buffer_fill_ctr`, `clone_ctr` and the list survive `clone_close`: a second session starts
  with the rest of the first (line 296 says "reentrance safe").  `ptr.pulldown` is read
  uninitialised when the sync is disabled.

## 6. Not modelled

The map covers the control of the components above.  The rest of the 179,400 lines has
no state that an interleaving, a failure or an order of calls could break in a way a model
would tell better than the code: codecs and containers under `import/`, `export/`, `encode/`
and `multiplex/`, filters that compute on one frame, pixel and sample arithmetic (`aclib/`,
`libtcvideo/`, `libtcaudio/`, `src/video_trans.c`), probing and parsing (`src/probe.c`, the
command line, configuration files), tables, progress lines, stand-alone tools and the
Android wrappers.  Models of them would restate arithmetic statement by statement.

Left out of the modelled components: the limits of the output rotation, which nothing in the
repository sets; `tc_pause`; the old encoder interface; allocation of buffers and other set-up
before the threads exist; several audio tracks, files of other programs and the rebuilding
of an index by scanning in avilib; the system merger, two-pass and list-only modes, process
start-up and the second medium of the cluster; inverse telecine.  The composition of pool and both streams in one model is out of
TLC's reach at useful sizes: `FrameQueue`, which `FramePipeline` implements, is what
`AVTranscode` uses for a buffer.

Worth adding next: the second medium in `Cluster`, for the counters both share.
