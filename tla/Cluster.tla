------------------------------- MODULE Cluster -------------------------------
(***************************************************************************)
(* Encoding one medium on a PVM cluster: the export module in transcode    *)
(* (export/export_pvm.c), the message layer and the scheduler loop         *)
(* (pvm3/pvm_functions.c), and what the slaves and the merger do with an   *)
(* order (pvm3/export_pvm_slave.c).                                        *)
(*                                                                         *)
(* The stream is cut into chunks.  A slave encodes a chunk into a file of  *)
(* its own; the merger concatenates the files when all is encoded.  There  *)
(* is no second pass, no system merger and no list-only mode.              *)
(*                                                                         *)
(* PVM is external.  It keeps the messages of one sender in order.         *)
(* Overtaking says whether messages of different senders, which come from  *)
(* different hosts, may overtake one another.                              *)
(***************************************************************************)
EXTENDS Integers, FiniteSets, SequencesExt

CONSTANTS NProc,        \* s_nproc: slaves started
          FrameTask,    \* s_num_frame_task: a chunk has one frame more
          Frames,       \* bound: frames of the stream
          Overtaking,
          MaxFailures   \* bound: kinds of failure in a run

ASSUME NProcAssumption == NProc \in Nat \ {0}

Master == -1
Slaves == 0 .. NProc - 1
Merger == NProc
Tasks == Master .. Merger

NoTask == -1      \* INT_MAX in p_used_tid: the slave was never given a chunk
NotMerged == <<0>>

VARIABLES
    mail,       \* the messages sent to each task and not received yet
    order,      \* what the export module does
    awaiting,   \* and whether it waits for an answer
    sendSeq,    \* s_seq of f_pvm_send_all()
    castSeq,    \* s_seq of f_pvm_multi_send_all()
    chunk,      \* s_video_seq
    inChunk,    \* s_video_cont
    current,    \* s_current_tid
    used,       \* p_used_tid
    given,      \* frames the encoder loop has handed over
    slave,      \* the statics of each slave
    elab,       \* p_file_elab of the merger
    erase,      \* p_file_erase of the merger, as a set
    merged,     \* frames in the destination file
    failures    \* kinds of failure that have happened

mastervars == <<order, awaiting, sendSeq, castSeq, chunk, inChunk, current,
                used, given>>
mergervars == <<elab, erase, merged>>
clustervars == <<mail, mastervars, slave, mergervars, failures>>

Casts == {"version", "sked", "join", "init", "open", "close", "stop"}

ClusterInit ==
    /\ mail = [t \in Tasks |-> <<>>]
    /\ order = "version" /\ awaiting = FALSE
    /\ sendSeq = -1 /\ castSeq = -1
    /\ chunk = 0 /\ inChunk = 0 /\ given = 0
    /\ current = 0 /\ used = [s \in Slaves |-> NoTask]
    /\ slave = [s \in Slaves |->
                  [first |-> FALSE, loaded |-> TRUE, able |-> TRUE, ready |-> FALSE,
                   ring |-> -1, rc |-> 0, files |-> <<>>]]
    /\ elab = <<>> /\ erase = {} /\ merged = NotMerged
    /\ failures = {}

-----------------------------------------------------------------------------
(* Messages: pvm_send() and pvm_recv().                                    *)

\* body is a return code, a frame or a file, as opt tells.
Msg(from, tag, opt, seq, body) ==
    [from |-> from, tag |-> tag, opt |-> opt, seq |-> seq, body |-> body]

Post(box, to, msg) == [box EXCEPT ![to] = Append(@, msg)]
Taken(t, i) == [mail EXCEPT ![t] = RemoveAt(@, i)]

\* The messages pvm_recv() of task t may return: a wanted one that no wanted
\* one of the same sender precedes, and the first of all without overtaking.
Receivable(t, Wanted(_)) ==
    {i \in DOMAIN mail[t] :
        /\ Wanted(mail[t][i])
        /\ \A j \in 1 .. i - 1 :
              Wanted(mail[t][j]) =>
                 Overtaking /\ mail[t][j].from # mail[t][i].from}

\* A kind of failure strikes.
Strike(kind) ==
    /\ kind \notin failures /\ Cardinality(failures) < MaxFailures
    /\ failures' = failures \cup {kind}

NoStrike == UNCHANGED failures

-----------------------------------------------------------------------------
(* The export module.                                                      *)

\* f_pvm_multi_send(), called by MOD_init, MOD_open, MOD_close and MOD_stop.
MultiSend ==
    /\ order \in Casts /\ ~awaiting
    /\ castSeq' = castSeq + 1
    /\ mail' = [t \in Tasks |->
                  IF t \in Slaves
                  THEN Append(mail[t], Msg(Master, "CONF", order, castSeq', 0))
                  ELSE mail[t]]
    /\ awaiting' = TRUE
    /\ UNCHANGED <<order, sendSeq, chunk, inChunk, current, used, given,
                   slave, mergervars, failures>>

FollowingCast ==
    [version |-> "sked", sked |-> "join", join |-> "init", init |-> "open",
     open |-> "encode", close |-> "run", stop |-> "over"]

\* What MOD_init and MOD_close send to the merger after a broadcast.
ToMerger(box) ==
    CASE order = "init"  -> Post(box, Merger,
                                 Msg(Master, "WORK", "join_init", sendSeq + 1, 0))
      [] order = "close" -> Post(box, Merger,
                                 Msg(Master, "WORK", "run", sendSeq + 1, 0))
      [] OTHER           -> box

\* The end of f_pvm_multi_send(): the token has come back with the code of
\* the slaves.  Only -1 ends the session; MOD_stop does not look at it.
MultiSent ==
    /\ order \in Casts /\ awaiting
    /\ \E i \in Receivable(Master, LAMBDA m : m.tag = "RING" /\ m.seq = castSeq) :
          LET failed == mail[Master][i].body = -1 /\ order # "stop"
          IN /\ mail' = IF failed THEN Taken(Master, i)
                        ELSE ToMerger(Taken(Master, i))
             /\ order' = IF failed THEN "over" ELSE FollowingCast[order]
             /\ awaiting' = (order' = "run")
             /\ sendSeq' = IF ~failed /\ order \in {"init", "close"}
                           THEN sendSeq + 1 ELSE sendSeq
    /\ UNCHANGED <<castSeq, chunk, inChunk, current, used, given,
                   slave, mergervars, failures>>

\* MOD_encode for the next frame, up to the search for a free slave.
HandOver ==
    /\ order = "encode" /\ given < Frames
    /\ given' = given + 1
    /\ sendSeq' = chunk
    /\ used' = [used EXCEPT ![current] = chunk]
    /\ LET sent == Post(mail, current,
                        Msg(Master, "WORK", "encode", chunk, given'))
       IN IF inChunk < FrameTask
          THEN /\ inChunk' = inChunk + 1
               /\ mail' = sent
               /\ UNCHANGED order
          ELSE /\ mail' = Post(sent, current,
                               Msg(Master, "WORK", "restart1", chunk, 0))
               /\ order' = "first-free"
               /\ UNCHANGED inChunk
    /\ UNCHANGED <<awaiting, castSeq, chunk, current, slave, mergervars, failures>>

\* The slave the search of f_pvm_balancer("first-free") stops at: the next
\* one, or, after the last, the first below the current one never used.
Candidate ==
    LET start == (current + 1) % NProc
    IN IF start >= current THEN start
       ELSE Min({t \in start .. current : t = current \/ used[t] = NoTask})

\* Mutant: the chunk keeps the number of the last one.
RestartSameChunk(t, box) ==
    /\ current' = t
    /\ sendSeq' = sendSeq + 1
    /\ inChunk' = 0
    /\ mail' = Post(box, t, Msg(Master, "WORK", "restart2", chunk, 0))
    /\ order' = "encode"
    /\ UNCHANGED <<awaiting, castSeq, chunk, used, given, slave, mergervars, failures>>

\* The end of MOD_encode: slave t gets the next chunk.
Restart(t, box) ==
    /\ current' = t
    /\ chunk' = chunk + 1 /\ sendSeq' = sendSeq + 1
    /\ inChunk' = 0
    /\ mail' = Post(box, t, Msg(Master, "WORK", "restart2", chunk + 1, 0))
    /\ order' = "encode"
    /\ UNCHANGED <<awaiting, castSeq, used, given, slave, mergervars, failures>>

TakeUnused ==
    /\ order = "first-free" /\ used[Candidate] = NoTask
    /\ Restart(Candidate, mail)

\* The slave that had the chunk, or nobody: the search has no other end.
WhoHad(seq) == {t \in Slaves : used[t] = seq}

TakeEnded ==
    /\ order = "first-free" /\ used[Candidate] # NoTask
    /\ \E i \in Receivable(Master, LAMBDA m : m.tag = "ENDTASK") :
          /\ WhoHad(mail[Master][i].seq) # {}
          /\ Restart(Min(WhoHad(mail[Master][i].seq)), Taken(Master, i))

\* MOD_close, up to its broadcast.  The encoder loop may end at any frame.
CloseCodec ==
    /\ order = "encode"
    /\ sendSeq' = sendSeq + 1
    /\ mail' = Post(mail, current, Msg(Master, "WORK", "restart1", sendSeq', 0))
    /\ order' = "close"
    /\ UNCHANGED <<awaiting, castSeq, chunk, inChunk, current, used, given,
                   slave, mergervars, failures>>

\* The rest of MOD_close: the answer of the merger.
MergerDone ==
    /\ order = "run"
    /\ \E i \in Receivable(Master, LAMBDA m : m.tag = "REPLY" /\ m.seq = sendSeq) :
          /\ order' = IF mail[Master][i].body # 0 THEN "over" ELSE "stop"
          /\ mail' = Taken(Master, i)
    /\ awaiting' = FALSE
    /\ UNCHANGED <<sendSeq, castSeq, chunk, inChunk, current, used, given,
                   slave, mergervars, failures>>

-----------------------------------------------------------------------------
(* The slaves: f_pvm_skeduler() with f_export_func().                      *)

\* Mutant: the ring is not closed.
FollowingUnwrapped(s) == s + 1

Following(s) == (s + 1) % NProc
Preceding(s) == (s + NProc - 1) % NProc

\* s_serial numbers the files of a slave; this numbers them all.
FileOf(s, n) == n * NProc + s
CurrentFile(s) == FileOf(s, Len(slave[s].files) - 1)
NextFile(s) == FileOf(s, Len(slave[s].files))

\* A message of the master has arrived at slave s, which is not in f_ring().
Ordered(s, tag, i) ==
    /\ order # "over" /\ slave[s].ring = -1
    /\ i \in Receivable(s, LAMBDA m : TRUE)
    /\ mail[s][i].from = Master /\ mail[s][i].tag = tag

\* The scheduler throws away what another slave sends, a token too.
Discard(s) ==
    /\ order # "over" /\ slave[s].ring = -1
    /\ \E i \in Receivable(s, LAMBDA m : TRUE) :
          /\ mail[s][i].from # Master
          /\ mail' = Taken(s, i)
    /\ UNCHANGED <<mastervars, slave, mergervars, failures>>

\* The codes a broadcast may fail with at slave s.
Refusals(s, opt) ==
    CASE opt = "version" -> {1}
      [] opt = "init"    -> {1, -1}
      [] opt = "open"    -> {-1}
      [] opt \in {"close", "stop"} /\ slave[s].loaded -> {-1}
      [] OTHER -> {}

\* f_ring(): slave 0 sends the token out, every slave waits for it.
EnterRing(s, rc, box) ==
    IF s = 0 THEN Post(box, Following(s), Msg(s, "RING", "", 0, rc)) ELSE box

\* Slave s has carried out broadcast m with code rc.
Carried(s, m, rc) ==
    [slave[s] EXCEPT
       !.ring = m.seq, !.rc = rc,
       !.able = @ /\ ~(m.opt = "init" /\ rc = 1),
       !.ready = CASE m.opt = "open" /\ rc = 0 -> slave[s].able
                   [] m.opt = "close" -> FALSE
                   [] OTHER -> @,
       !.files = IF m.opt = "open" THEN Append(@, <<>>) ELSE @]

\* The kind of a failed broadcast: an encoder that cannot take the format of
\* the stream answers INIT with 1, one that fails with -1.
Kind(opt, rc) == IF opt = "init" /\ rc = 1 THEN "format" ELSE opt

\* A broadcast.  After OPEN the merger learns which file is to be removed; the
\* slaves know the merger by then, JOIN comes before OPEN.
Configure(s) ==
    /\ \E i \in DOMAIN mail[s] :
          /\ Ordered(s, "CONF", i)
          /\ LET m == mail[s][i]
             IN \E rc \in {0} \cup Refusals(s, m.opt) :
                   /\ IF rc = 0 THEN NoStrike ELSE Strike(Kind(m.opt, rc))
                   /\ slave' = [slave EXCEPT ![s] = Carried(s, m, rc)]
                   /\ mail' = EnterRing(s, rc,
                        IF m.opt = "open" /\ rc = 0
                        THEN Post(Taken(s, i), Merger,
                                  Msg(s, "JOIN", "add_remove", m.seq, NextFile(s)))
                        ELSE Taken(s, i))
    /\ UNCHANGED <<mastervars, mergervars>>

\* The rest of f_ring(): the token passes on the first code that is not 0,
\* and slave 0 tells the master.
PassToken(s) ==
    /\ order # "over" /\ slave[s].ring # -1
    /\ \E i \in Receivable(s, LAMBDA m : m.tag = "RING" /\ m.from = Preceding(s)) :
          LET rc == mail[s][i].body
          IN mail' = IF s = 0
                     THEN Post(Taken(s, i), Master,
                               Msg(s, "RING", "", slave[s].ring, rc))
                     ELSE Post(Taken(s, i), Following(s),
                               Msg(s, "RING", "", 0,
                                   IF rc # 0 THEN rc ELSE slave[s].rc))
    /\ slave' = [slave EXCEPT ![s].ring = -1]
    /\ UNCHANGED <<mastervars, mergervars, failures>>

\* A failure is reported under the number of the order; nobody waits for it.
Report(s, seq, box) == Post(box, Master, Msg(s, "REPLY", "", seq, -1))

\* PVM_EXP_OPT_ENCODE.  The first frame of a file puts it on the list of the
\* merger.
Encode(s) ==
    /\ \E i \in DOMAIN mail[s] :
          /\ Ordered(s, "WORK", i) /\ mail[s][i].opt = "encode"
          /\ LET m == mail[s][i]
             IN \/ /\ slave[s].ready /\ NoStrike
                   /\ slave' = [slave EXCEPT
                        ![s].files[Len(slave[s].files)] = Append(@, m.body),
                        ![s].first = TRUE]
                   /\ mail' = IF slave[s].first THEN Taken(s, i)
                              ELSE Post(Taken(s, i), Merger,
                                        Msg(s, "JOIN", "add_elab", m.seq, CurrentFile(s)))
                \/ /\ IF slave[s].ready THEN Strike("encode") ELSE NoStrike
                   /\ mail' = Report(s, m.seq, Taken(s, i))
                   /\ UNCHANGED slave
    /\ UNCHANGED <<mastervars, mergervars>>

\* PVM_EXP_OPT_RESTART_ENCODE1: the file is closed, the encoder unloaded, and
\* the master may give the slave another chunk.
CloseChunk(s) ==
    /\ \E i \in DOMAIN mail[s] :
          /\ Ordered(s, "WORK", i) /\ mail[s][i].opt = "restart1"
          /\ \/ /\ NoStrike
                /\ slave' = [slave EXCEPT ![s].loaded = FALSE, ![s].ready = FALSE]
                /\ mail' = Post(Taken(s, i), Master,
                                Msg(s, "ENDTASK", "", mail[s][i].seq, 0))
             \/ /\ Strike("restart1")
                /\ slave' = [slave EXCEPT ![s].ready = FALSE]
                /\ mail' = Report(s, mail[s][i].seq, Taken(s, i))
    /\ UNCHANGED <<mastervars, mergervars>>

\* PVM_EXP_OPT_RESTART_ENCODE2: the encoder is loaded again and opens the next
\* file.  An encoder that cannot take the format of the stream is answered
\* like a broadcast, so the slave goes to f_ring().
OpenNext(s) ==
    /\ \E i \in DOMAIN mail[s] :
          /\ Ordered(s, "WORK", i) /\ mail[s][i].opt = "restart2"
          /\ LET m == mail[s][i]
                 again == [slave[s] EXCEPT !.loaded = TRUE,
                                           !.files = Append(@, <<>>)]
             IN \/ /\ slave[s].able /\ NoStrike
                   /\ slave' = [slave EXCEPT ![s] = [again EXCEPT !.ready = TRUE,
                                                                  !.first = FALSE]]
                   /\ mail' = Post(Taken(s, i), Merger,
                                   Msg(s, "JOIN", "add_remove", m.seq, NextFile(s)))
                \/ /\ slave[s].able /\ Strike("restart2")
                   /\ slave' = [slave EXCEPT ![s] = again]
                   /\ mail' = Report(s, m.seq, Taken(s, i))
                \/ /\ ~slave[s].able /\ NoStrike
                   /\ slave' = [slave EXCEPT ![s] = [again EXCEPT !.ring = m.seq,
                                                                  !.rc = 1]]
                   /\ mail' = EnterRing(s, 1, Taken(s, i))
    /\ UNCHANGED <<mastervars, mergervars>>

-----------------------------------------------------------------------------
(* The merger: the same loop, with the orders for joining.                 *)

\* A message arrives at the merger.
Told(opt, i) ==
    /\ order # "over"
    /\ i \in Receivable(Merger, LAMBDA m : TRUE)
    /\ mail[Merger][i].opt = opt

\* PVM_JOIN_OPT_INIT only names the destination.
NameDestination ==
    /\ \E i \in DOMAIN mail[Merger] :
          Told("join_init", i) /\ mail' = Taken(Merger, i)
    /\ UNCHANGED <<mastervars, slave, mergervars, failures>>

\* Mutant: files are joined in the order in which they are announced.
InsertedLast(list, new) == Append(list, new)

\* The list sorted by number, the new file after those of its own number.
Inserted(list, new) ==
    LET later == {k \in DOMAIN list : list[k].seq > new.seq}
    IN InsertAt(list, IF later = {} THEN Len(list) + 1 ELSE Min(later), new)

\* PVM_JOIN_OPT_ADD_ELAB
AddElab ==
    /\ \E i \in DOMAIN mail[Merger] :
          /\ Told("add_elab", i)
          /\ LET m == mail[Merger][i]
             IN elab' = Inserted(elab, [seq |-> m.seq, file |-> m.body])
          /\ mail' = Taken(Merger, i)
    /\ UNCHANGED <<mastervars, slave, erase, merged, failures>>

\* PVM_JOIN_OPT_ADD_REMOVE
AddRemove ==
    /\ \E i \in DOMAIN mail[Merger] :
          /\ Told("add_remove", i)
          /\ erase' = erase \cup {mail[Merger][i].body}
          /\ mail' = Taken(Merger, i)
    /\ UNCHANGED <<mastervars, slave, elab, merged, failures>>

ContentOf(file) == slave[file % NProc].files[file \div NProc + 1]

\* PVM_JOIN_OPT_RUN.  A file that cannot be read is left out and reported; a
\* destination that cannot be created is not reported.
Merge ==
    /\ \E i \in DOMAIN mail[Merger] :
          /\ Told("run", i)
          /\ LET reply(rc) == Post(Taken(Merger, i), Master,
                                   Msg(Merger, "REPLY", "", mail[Merger][i].seq, rc))
             IN \/ /\ merged' = FlattenSeq([k \in DOMAIN elab |-> ContentOf(elab[k].file)])
                   /\ NoStrike /\ mail' = reply(0)
                \/ \E lost \in DOMAIN elab :
                      /\ merged' = FlattenSeq([k \in DOMAIN elab |->
                                     IF k = lost THEN <<>> ELSE ContentOf(elab[k].file)])
                      /\ Strike("copy") /\ mail' = reply(1)
                \/ /\ Strike("creat") /\ mail' = Taken(Merger, i)
                   /\ UNCHANGED merged
    /\ UNCHANGED <<mastervars, slave, elab, erase>>

-----------------------------------------------------------------------------
MasterStep == \/ MultiSend \/ MultiSent \/ HandOver \/ TakeUnused \/ TakeEnded
              \/ CloseCodec \/ MergerDone

SlaveStep(s) == \/ Discard(s) \/ Configure(s) \/ PassToken(s) \/ Encode(s)
                \/ CloseChunk(s) \/ OpenNext(s)

MergerStep == NameDestination \/ AddElab \/ AddRemove \/ Merge

ClusterNext == MasterStep \/ MergerStep \/ \E s \in Slaves : SlaveStep(s)

ClusterSpec == ClusterInit /\ [][ClusterNext]_clustervars

-----------------------------------------------------------------------------
(* Properties.                                                             *)

Stored == UNION {UNION {ToSet(slave[s].files[n]) : n \in DOMAIN slave[s].files} :
                 s \in Slaves}

\* The destination holds exactly the frames the slaves have encoded, in the
\* order of the stream, though chunks end and are announced in any order; a
\* file the merger could not read is the exception.
MergedInOrder ==
    merged # NotMerged /\ "copy" \notin failures =>
       /\ ToSet(merged) = Stored
       /\ \A i, j \in DOMAIN merged : i < j => merged[i] < merged[j]

\* A slave that reports the end of its task is found in the table, there is
\* one, and it has nothing more to do: it can be given the next chunk.
FreeTaskKnown ==
    order = "first-free" =>
       \A i \in DOMAIN mail[Master] : mail[Master][i].tag = "ENDTASK" =>
          /\ Cardinality(WhoHad(mail[Master][i].seq)) = 1
          /\ \A t \in WhoHad(mail[Master][i].seq) :
                /\ \A k \in DOMAIN mail[t] : mail[t][k].from # Master
                /\ ~slave[t].loaded

\* The session never hangs: until it has ended some task can go on, though every
\* broadcast waits for a token to go round and the master for the slaves and for
\* the merger; a slave that is lost to the balancer because its file could not
\* be closed does not stop the others.  Two failures the code answers with
\* silence are the exceptions: an encoder that cannot take the format, and a
\* destination that cannot be created.
NeverStuck ==
    order = "over" \/ failures \cap {"format", "creat"} # {} \/ ENABLED ClusterNext
=============================================================================
