---------------------------- MODULE FrameBuffer ----------------------------
(***************************************************************************)
(* The frame buffer of one stream (src/framebuffer.c).  The file holds the *)
(* same code twice, once for audio and once for video; this module is      *)
(* either copy.  Its state is                                              *)
(*                                                                         *)
(*   - the ring: a fixed array of frames, a cursor and five counters;      *)
(*   - the frame chain: a doubly linked list through the frames in use;    *)
(*   - three condition variables and the threads asleep on them.           *)
(*                                                                         *)
(* Every function of the API holds the stream's mutex from its first line  *)
(* to its last, except while it sleeps on a condition variable.  So one    *)
(* call is one step, or one step up to each sleep and one for each awaking.*)
(*                                                                         *)
(* The claiming functions register, reserve, retrieve and dup all have one *)
(* shape: while nothing is there and the thread has not been told to give  *)
(* up, sleep; then give up, or claim a frame.  The run status is looked at *)
(* only after a sleep, and the operators take it as a parameter.           *)
(***************************************************************************)
EXTENDS Integers, FiniteSets

CONSTANTS Last,      \* rfb->last, the number of frames in the ring
          Importer,  \* the thread that registers frames
          Encoder,   \* the thread that retrieves frames
          Workers    \* the pool of filter threads, possibly empty

ASSUME RingAssumption == Last \in Nat \ {0}
ASSUME ThreadAssumption ==
    /\ IsFiniteSet(Workers)
    /\ Importer \notin Workers
    /\ Encoder \notin Workers
    /\ Importer # Encoder

Threads  == Workers \cup {Importer, Encoder}
Frames   == 0 .. Last - 1
NoFrame  == -1                        \* the NULL pointer
FramePtr == Frames \cup {NoFrame}

Status     == {"NULL", "EMPTY", "WAIT", "LOCKED", "READY"}
Attributes == {"SKIPPED", "IS_CLONED", "WAS_CLONED", "OUT_OF_RANGE",
               "END_OF_STREAM"}
Conditions == {"import", "filter", "export"}

VARIABLES status,      \* status of every frame
          attributes,  \* set of attribute flags of every frame
          id,          \* frame id, given by the importer
          nxt, prv,    \* links of the frame chain
          head, tail,  \* its ends, {a,v}frame_list_{head,tail}
          next,        \* ring cursor, rfb->next
          count,       \* the counters rfb->null, empty, wait, locked, ready
          cv,          \* where a thread sleeps: a condition, "signalled"
                       \* (awake again, loop not re-entered yet) or "none"
          cur,         \* the frame a thread got from its last claiming call
          clone        \* the frame a worker got from dup

ring  == <<status, count, next>>
chain == <<nxt, prv, head, tail>>
fbvars == <<ring, chain, attributes, id, cv, cur, clone>>

InitFrameBuffer ==
    /\ status = [f \in Frames |-> "NULL"]
    /\ attributes = [f \in Frames |-> {}]
    /\ id = [f \in Frames |-> 0]
    /\ nxt = [f \in Frames |-> NoFrame]
    /\ prv = [f \in Frames |-> NoFrame]
    /\ head = NoFrame
    /\ tail = NoFrame
    /\ next = 0
    /\ count = [s \in Status |-> IF s = "NULL" THEN Last ELSE 0]
    /\ cv = [t \in Threads |-> "none"]
    /\ cur = [t \in Threads |-> NoFrame]
    /\ clone = [t \in Workers |-> NoFrame]

BufferTypeOK ==
    /\ status \in [Frames -> Status]
    /\ attributes \in [Frames -> SUBSET Attributes]
    /\ id \in [Frames -> Nat]
    /\ nxt \in [Frames -> FramePtr] /\ prv \in [Frames -> FramePtr]
    /\ head \in FramePtr /\ tail \in FramePtr
    /\ next \in Frames
    /\ count \in [Status -> Int]
    /\ cv \in [Threads -> Conditions \cup {"none", "signalled"}]
    /\ cur \in [Threads -> FramePtr]
    /\ clone \in [Workers -> FramePtr]

-----------------------------------------------------------------------------
(* Condition variables.                                                     *)

Sleepers(c) == {t \in Threads : cv[t] = c}

Awake(t) == cv[t] \notin Conditions

Wake(W) == [t \in Threads |-> IF t \in W THEN "signalled" ELSE cv[t]]

\* The sets of threads one pthread_cond_signal may wake.
OneOf(c) == IF Sleepers(c) = {} THEN {{}} ELSE {{t} : t \in Sleepers(c)}

Signal(c) == \E W \in OneOf(c) : cv' = Wake(W)

\* pthread_cond_wait: the rest of the state waits with the thread.
Sleep(t, c) ==
    /\ cv' = [cv EXCEPT ![t] = c]
    /\ UNCHANGED <<ring, chain, attributes, id, cur, clone>>

\* "interrupted = !tc_running()" runs after each sleep and never before one.
Interrupted(t, running) == cv[t] = "signalled" /\ ~running

Return(t, f) ==
    /\ cur' = [cur EXCEPT ![t] = f]
    /\ cv' = [cv EXCEPT ![t] = "none"]

GiveUp(t) ==
    /\ Return(t, NoFrame)
    /\ UNCHANGED <<ring, chain, attributes, id, clone>>

\* The three conditions are signalled one after the other under the mutex;
\* only the filter condition is broadcast.
Interrupt ==
    /\ \E I \in OneOf("import"), X \in OneOf("export") :
          cv' = Wake(I \cup Sleepers("filter") \cup X)
    /\ UNCHANGED <<ring, chain, attributes, id, cur, clone>>

InterruptImport ==
    /\ Signal("import")
    /\ UNCHANGED <<ring, chain, attributes, id, cur, clone>>

-----------------------------------------------------------------------------
(* The ring.                                                                *)

Slot(k) == (next + k) % Last

\* Distances from the cursor at which the scan finds an unclaimed frame.
FreeAt == {k \in 0 .. Last - 1 : status[Slot(k)] = "NULL"}

\* Mutant: the cursor runs off the end of the ring.
RetrieveFramePastEnd(f) ==
    \E k \in FreeAt :
        /\ \A j \in FreeAt : k <= j
        /\ f = Slot(k)
        /\ next' = f + 1

\* The frame retrieve_frame takes, with the cursor moved past it.  A scan that
\* finds nothing goes once around the ring and leaves the cursor in place.
RetrieveFrame(f) ==
    \E k \in FreeAt :
        /\ \A j \in FreeAt : k <= j
        /\ f = Slot(k)
        /\ next' = (f + 1) % Last

Move(from, to) == [count EXCEPT ![from] = @ - 1, ![to] = @ + 1]

\* Mutants: the frame's old count stays; the count of unclaimed frames stays.
RemoveFrameKeepsCount(f) ==
    /\ status' = [status EXCEPT ![f] = "NULL"]
    /\ count' = [count EXCEPT !["NULL"] = @ + 1]
    /\ UNCHANGED next

RemoveFrameUncounted(f) ==
    /\ status' = [status EXCEPT ![f] = "NULL"]
    /\ count' = [count EXCEPT ![status[f]] = @ - 1]
    /\ UNCHANGED next

\* remove_frame: only the counters of READY and LOCKED are decremented.
RemoveFrame(f) ==
    /\ status' = [status EXCEPT ![f] = "NULL"]
    /\ count' = IF status[f] \in {"READY", "LOCKED"}
                THEN Move(status[f], "NULL")
                ELSE [count EXCEPT !["NULL"] = @ + 1]
    /\ UNCHANGED next

-----------------------------------------------------------------------------
(* The frame chain.                                                         *)

\* The n-th frame from the head, NoFrame beyond the end.
ChainAt[n \in 0 .. Last] ==
    IF n = 0 THEN head
    ELSE IF ChainAt[n - 1] = NoFrame THEN NoFrame ELSE nxt[ChainAt[n - 1]]

\* Mutant: the new frame is put before the head.
PrependFrame(f) ==
    /\ nxt' = [nxt EXCEPT ![f] = head]
    /\ prv' = IF head = NoFrame THEN [prv EXCEPT ![f] = NoFrame]
              ELSE [prv EXCEPT ![f] = NoFrame, ![head] = f]
    /\ tail' = IF tail = NoFrame THEN f ELSE tail
    /\ head' = f

AppendFrame(f) ==
    /\ nxt' = IF tail = NoFrame THEN [nxt EXCEPT ![f] = NoFrame]
              ELSE [nxt EXCEPT ![f] = NoFrame, ![tail] = f]
    /\ prv' = [prv EXCEPT ![f] = tail]
    /\ tail' = f
    /\ head' = IF head = NoFrame THEN f ELSE head

\* Mutant: the copy p goes to the end of the chain.
LinkAtEnd(p, f) ==
    /\ nxt' = [nxt EXCEPT ![tail] = p, ![p] = NoFrame]
    /\ prv' = [prv EXCEPT ![p] = tail]
    /\ tail' = p
    /\ UNCHANGED head

\* The old successor of f keeps pointing back at f.
LinkAfter(p, f) ==
    /\ nxt' = [nxt EXCEPT ![p] = nxt[f], ![f] = p]
    /\ prv' = [prv EXCEPT ![p] = f]
    /\ tail' = IF nxt[f] = NoFrame THEN p ELSE tail
    /\ UNCHANGED head

\* Mutant: the tail is not moved.
UnlinkKeepsTail(f) ==
    /\ nxt' = IF prv[f] = NoFrame THEN nxt ELSE [nxt EXCEPT ![prv[f]] = nxt[f]]
    /\ prv' = IF nxt[f] = NoFrame THEN prv ELSE [prv EXCEPT ![nxt[f]] = prv[f]]
    /\ head' = IF f = head THEN nxt'[f] ELSE head
    /\ UNCHANGED tail

Unlink(f) ==
    /\ nxt' = IF prv[f] = NoFrame THEN nxt ELSE [nxt EXCEPT ![prv[f]] = nxt[f]]
    /\ prv' = IF nxt[f] = NoFrame THEN prv ELSE [prv EXCEPT ![nxt[f]] = prv[f]]
    /\ tail' = IF f = tail THEN prv'[f] ELSE tail
    /\ head' = IF f = head THEN nxt'[f] ELSE head

-----------------------------------------------------------------------------
(* The claiming functions.                                                  *)

\* A frame registered EMPTY starts blank, with its id.
ClaimEmpty(t, n, f) ==
    /\ RetrieveFrame(f)
    /\ status' = [status EXCEPT ![f] = "EMPTY"]
    /\ count' = Move("NULL", "EMPTY")
    /\ attributes' = [attributes EXCEPT ![f] = {}]
    /\ id' = [id EXCEPT ![f] = n]
    /\ AppendFrame(f)
    /\ Return(t, f)
    /\ UNCHANGED clone

\* {a,v}frame_register(n).  An importer whose thread was stopped leaves the
\* loop as if a frame were free, and gets NULL from a full ring.
Register(t, n, running, importing) ==
    LET interrupted == Interrupted(t, running)
        mustWait == ~interrupted /\ importing /\ count["NULL"] = 0
    IN \/ mustWait /\ Sleep(t, "import")
       \/ interrupted /\ GiveUp(t)
       \/ ~mustWait /\ ~interrupted /\ FreeAt = {} /\ GiveUp(t)
       \/ ~mustWait /\ ~interrupted /\ \E f \in Frames : ClaimEmpty(t, n, f)

\* {a,v}frame_reserve(): the first WAIT frame of the chain becomes LOCKED.
WaitingAt == {n \in 0 .. Last : /\ ChainAt[n] \in Frames
                                /\ status[ChainAt[n]] = "WAIT"}

\* Mutants: the frame is not marked as taken; or is, and stays counted as waiting.
LockWaitingUnmarked(t) ==
    \E n \in WaitingAt :
        /\ \A m \in WaitingAt : n <= m
        /\ Return(t, ChainAt[n])
        /\ UNCHANGED <<ring, chain, attributes, id, clone>>

LockWaitingUncounted(t) ==
    \E n \in WaitingAt :
        /\ \A m \in WaitingAt : n <= m
        /\ status' = [status EXCEPT ![ChainAt[n]] = "LOCKED"]
        /\ Return(t, ChainAt[n])
        /\ UNCHANGED <<count, next, chain, attributes, id, clone>>

LockWaiting(t) ==
    \E n \in WaitingAt :
        /\ \A m \in WaitingAt : n <= m
        /\ status' = [status EXCEPT ![ChainAt[n]] = "LOCKED"]
        /\ count' = Move("WAIT", "LOCKED")
        /\ Return(t, ChainAt[n])
        /\ UNCHANGED <<next, chain, attributes, id, clone>>

Reserve(t, running) ==
    LET interrupted == Interrupted(t, running)
        mustWait == ~interrupted /\ count["WAIT"] = 0
    IN \/ mustWait /\ Sleep(t, "filter")
       \/ interrupted /\ GiveUp(t)
       \/ ~mustWait /\ ~interrupted /\ WaitingAt = {} /\ GiveUp(t)
       \/ ~mustWait /\ ~interrupted /\ LockWaiting(t)

\* {a,v}frame_retrieve(): the head, once READY.  It stays in the chain.
HeadReady == head # NoFrame /\ status[head] = "READY"

Retrieve(t, running) ==
    LET interrupted == Interrupted(t, running)
        mustWait == ~interrupted /\ ~HeadReady
    IN \/ mustWait /\ Sleep(t, "export")
       \/ interrupted /\ GiveUp(t)
       \/ /\ ~mustWait /\ ~interrupted
          /\ Return(t, head)
          /\ UNCHANGED <<ring, chain, attributes, id, clone>>

\* {a,v}frame_dup(f).  The copy is counted as WAIT by register_frame and then
\* takes the status LOCKED of its source with the rest of the header.  An
\* interruption ends the wait and does not stop the claim.
ClaimCopy(t, f, p) ==
    /\ RetrieveFrame(p)
    /\ count' = Move("NULL", "WAIT")
    /\ status' = [status EXCEPT ![p] = status[f]]
    /\ attributes' = [attributes EXCEPT ![p] = attributes[f]]
    /\ id' = [id EXCEPT ![p] = id[f]]
    /\ LinkAfter(p, f)
    /\ clone' = [clone EXCEPT ![t] = p]
    /\ cv' = [cv EXCEPT ![t] = "none"]
    /\ UNCHANGED cur

Dup(t, f, running) ==
    LET interrupted == Interrupted(t, running)
        mustWait == ~interrupted /\ count["NULL"] = 0
    IN \/ mustWait /\ Sleep(t, "import")
       \/ /\ ~mustWait /\ FreeAt = {}
          /\ clone' = [clone EXCEPT ![t] = NoFrame]
          /\ cv' = [cv EXCEPT ![t] = "none"]
          /\ UNCHANGED <<ring, chain, attributes, id, cur>>
       \/ ~mustWait /\ \E p \in Frames : ClaimCopy(t, f, p)

-----------------------------------------------------------------------------
(* The other functions.                                                     *)

\* Mutants: no worker is told of a waiting frame; the encoder is not told of a
\* ready one; or is told when the tail is ready.
PushNextSilent(f, s) ==
    /\ status' = [status EXCEPT ![f] = s]
    /\ count' = Move(status[f], s)
    /\ IF s = "READY" /\ f = head THEN Signal("export") ELSE UNCHANGED cv
    /\ UNCHANGED <<next, chain, id>>

PushNextMute(f, s) ==
    /\ status' = [status EXCEPT ![f] = s]
    /\ count' = Move(status[f], s)
    /\ IF s = "WAIT" THEN Signal("filter") ELSE UNCHANGED cv
    /\ UNCHANGED <<next, chain, id>>

PushNextAtTail(f, s) ==
    /\ status' = [status EXCEPT ![f] = s]
    /\ count' = Move(status[f], s)
    /\ IF s = "WAIT" THEN Signal("filter")
       ELSE IF f = tail THEN Signal("export") ELSE UNCHANGED cv
    /\ UNCHANGED <<next, chain, id>>

\* {a,v}frame_push_next(f, s), on the ring and the condition variables; the
\* caller says what becomes of attributes, cur and clone.
PushNext(f, s) ==
    /\ status' = [status EXCEPT ![f] = s]
    /\ count' = Move(status[f], s)
    /\ \/ s = "WAIT" /\ Signal("filter")
       \/ s = "READY" /\ f = head /\ Signal("export")
       \/ s # "WAIT" /\ ~(s = "READY" /\ f = head) /\ UNCHANGED cv
    /\ UNCHANGED <<next, chain, id>>

\* Mutant: nobody is told of the free frame.
RemoveSilent(f) ==
    /\ Unlink(f)
    /\ RemoveFrame(f)
    /\ UNCHANGED <<id, cv>>

\* {a,v}frame_remove(f): the head may change, the encoder is not told.
Remove(f) ==
    /\ Unlink(f)
    /\ RemoveFrame(f)
    /\ Signal("import")
    /\ UNCHANGED id

\* {a,v}frame_have_more()
HaveMore == tail # NoFrame
=============================================================================
