------------------------------ MODULE CloneSync ------------------------------
(***************************************************************************)
(* Frame rate correction on import (import/clone.c, import/frame_info.c):  *)
(* the demuxer logs, for every frame of the decoder, how often it is to be *)
(* shown; a thread reads the log into a list, and the importer follows it. *)
(*                                                                         *)
(* Demuxer and decoder are external: a log to read and a number of frames. *)
(* A read of the log never blocks here: a slow demuxer is a slow thread.   *)
(* Inverse telecine is left out.                                           *)
(***************************************************************************)
EXTENDS Integers, SequencesExt

CONSTANTS Logs,      \* the logs the demuxer may write: adj_frame of each frame
          Pipes,     \* how many frames the decoder may deliver
          MaxOpens   \* bound: how often the import module is opened

ASSUME SyncAssumption == Logs \subseteq Seq(Nat) /\ Pipes \subseteq Nat

VARIABLES
    whole, log,   \* the log of this opening, and what was not read of it
    opens,        \* how often clone_init() was called
    pipe0, pipe,  \* the frames of this opening, and those not read
    thread,       \* where clone_read_thread() is
    infos,        \* the list of frame_info.c
    fill,         \* buffer_fill_ctr
    reading,      \* clone_read_thread_flag
    importer,     \* where clone_frame() is
    fiptr,        \* place of fiptr in the list
    repeat,       \* clone_ctr
    taken,        \* frames read in this opening
    shown,        \* what clone_frame() has returned in it
    clean         \* no opening began with a rest of the one before

syncvars == <<whole, log, opens, pipe0, pipe, thread, infos, fill, reading,
              importer, fiptr, repeat, taken, shown, clean>>

SyncInit ==
    /\ whole = <<>> /\ log = <<>> /\ opens = 0 /\ pipe0 = 0 /\ pipe = 0
    /\ thread = "off" /\ infos = <<>> /\ fill = 0 /\ reading = FALSE
    /\ importer = "closed" /\ fiptr = 0 /\ repeat = 0
    /\ taken = 0 /\ shown = <<>> /\ clean = TRUE

-----------------------------------------------------------------------------
(* Opening and closing.                                                    *)

ReadyInfos == {k \in DOMAIN infos : infos[k].ready}

\* clone_init() resets neither the counters nor the list.
SyncOpen ==
    /\ importer = "closed" /\ opens < MaxOpens
    /\ opens' = opens + 1
    /\ whole' \in Logs /\ log' = whole'
    /\ pipe0' \in Pipes /\ pipe' = pipe0'
    /\ thread' = "register" /\ reading' = TRUE
    /\ importer' = "idle" /\ taken' = 0 /\ shown' = <<>>
    /\ clean' = (clean /\ fill = 0 /\ repeat = 0 /\ ReadyInfos = {})
    /\ UNCHANGED <<infos, fill, fiptr, repeat>>

\* clone_close(), at the end or wherever the import thread stops.  The thread
\* is cancelled in its read and joined.
SyncClose ==
    /\ importer \in {"idle", "ended"} /\ thread \in {"read", "gone"}
    /\ importer' = "closed" /\ thread' = "off"
    /\ UNCHANGED <<whole, log, opens, pipe0, pipe, infos, fill, reading, fiptr,
                   repeat, taken, shown, clean>>

-----------------------------------------------------------------------------
(* clone_read_thread().                                                    *)

ReaderOnly == UNCHANGED <<whole, opens, pipe0, pipe, fiptr, repeat, taken, shown, clean>>

\* frame_info_register()
Register ==
    /\ thread = "register" /\ thread' = "read"
    /\ infos' = Append(infos, [adj |-> 0, ready |-> FALSE])
    /\ UNCHANGED <<log, fill, reading, importer>> /\ ReaderOnly

\* At the end of the log the thread leaves, its last item stays in the list
\* and nobody is woken.
ReadInfo ==
    /\ thread = "read"
    /\ IF log = <<>>
       THEN /\ thread' = "gone" /\ reading' = FALSE
            /\ UNCHANGED <<log, infos>>
       ELSE /\ thread' = "ready" /\ log' = Tail(log)
            /\ infos' = [infos EXCEPT ![Len(infos)].adj = Head(log)]
            /\ UNCHANGED reading
    /\ UNCHANGED <<fill, importer>> /\ ReaderOnly

\* frame_info_set_status()
SetReady ==
    /\ thread = "ready" /\ thread' = "count"
    /\ infos' = [infos EXCEPT ![Len(infos)].ready = TRUE]
    /\ UNCHANGED <<log, fill, reading, importer>> /\ ReaderOnly

CountInfo ==
    /\ thread = "count" /\ thread' = "register"
    /\ fill' = fill + 1
    /\ importer' = IF importer = "waiting" THEN "woken" ELSE importer
    /\ UNCHANGED <<log, infos, reading>> /\ ReaderOnly

-----------------------------------------------------------------------------
(* clone_frame(), called by the importer for one frame after the other.    *)

ImporterOnly == UNCHANGED <<whole, log, opens, pipe0, thread, reading, clean>>

\* A frame that is already in video_buffer.
RepeatFrame ==
    /\ importer = "idle" /\ repeat > 0
    /\ repeat' = repeat - 1
    /\ shown' = Append(shown, taken)
    /\ UNCHANGED <<pipe, infos, fill, importer, fiptr, taken>> /\ ImporterOnly

\* Mutant: what is still in the list is not looked at.
NothingLeftToRead == ~reading

NothingLeft == fill <= 0 /\ ~reading

\* buffered_p_read(): the end is looked for once, before the wait.
AskInfo ==
    /\ \/ importer = "idle" /\ repeat = 0
       \/ importer \in {"again", "woken"}
    /\ \/ /\ NothingLeft /\ importer # "woken"
          /\ importer' = "ended" /\ UNCHANGED fill
       \/ /\ NothingLeft => importer = "woken"
          /\ IF fill = 0 THEN importer' = "waiting" /\ UNCHANGED fill
                         ELSE importer' = "retrieve" /\ fill' = fill - 1
    /\ UNCHANGED <<pipe, infos, fiptr, repeat, taken, shown>> /\ ImporterOnly

\* frame_info_retrieve(): the first item that is ready.
Retrieve ==
    /\ importer = "retrieve" /\ importer' = "fread"
    /\ ReadyInfos # {}
    /\ fiptr' = Min(ReadyInfos)
    /\ UNCHANGED <<pipe, infos, fill, repeat, taken, shown>> /\ ImporterOnly

\* The rest of get_next_frame() and of clone_frame(): a frame is dropped, shown,
\* or shown and kept to be shown again.  The item is not removed if there is no
\* frame to read.
ReadFrame ==
    /\ importer = "fread"
    /\ IF pipe = 0
       THEN importer' = "ended" /\ UNCHANGED <<pipe, taken, infos, fiptr, shown, repeat>>
       ELSE LET adj == infos[fiptr].adj
            IN /\ pipe' = pipe - 1 /\ taken' = taken + 1
               /\ infos' = RemoveAt(infos, fiptr) /\ fiptr' = 0
               /\ importer' = IF adj = 0 THEN "again" ELSE "idle"
               /\ shown' = IF adj = 0 THEN shown ELSE Append(shown, taken')
               /\ repeat' = IF adj > 1 THEN adj - 1 ELSE repeat
    /\ UNCHANGED fill /\ ImporterOnly

SyncNext ==
    \/ SyncOpen \/ SyncClose
    \/ Register \/ ReadInfo \/ SetReady \/ CountInfo
    \/ RepeatFrame \/ AskInfo \/ Retrieve \/ ReadFrame

SyncSpec == SyncInit /\ [][SyncNext]_syncvars

-----------------------------------------------------------------------------
(* Properties.                                                             *)

\* The first n frames, each as often as the log says.
Corrected(n) ==
    FlattenSeq([k \in 1 .. n |-> [j \in 1 .. whole[k] |-> k]])

\* The importer shows the frames as the log says and stops early only where log
\* or decoder end; it finds an item for every count, it misses no wakeup, and
\* waits in vain only when the log has ended.  All this unless an opening began
\* with a rest of the one before.
FramesFollowLog ==
    clean =>
       /\ taken <= Len(whole)
       /\ repeat + Len(shown) = Len(Corrected(taken))
       /\ IsPrefix(shown, Corrected(taken))
       /\ importer = "ended" => taken = Min({Len(whole), pipe0})
       /\ importer = "retrieve" => ReadyInfos # {}
       /\ importer = "waiting" => fill = 0
       /\ importer = "waiting" /\ thread = "gone" => taken = Len(whole)
=============================================================================
