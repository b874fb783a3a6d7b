----------------------------- MODULE FrameQueue -----------------------------
(***************************************************************************)
(* What the frame buffer of a stream promises to the threads around it     *)
(* (src/framebuffer.h): a bounded queue.  Frames enter at the end in the   *)
(* order of their ids, pass through the stages one by one wherever they    *)
(* stand, may be copied or discarded while a filter works on them, and     *)
(* leave for the output from the front only.  The encoder may also discard *)
(* the frame at the front, or leave it there to be encoded once more.      *)
(***************************************************************************)
EXTENDS Naturals, Sequences

CONSTANT Capacity

VARIABLES queue,  \* the frames in use, oldest first
          out     \* ids of the encoded frames

Flow == { <<"EMPTY", "WAIT">>, <<"EMPTY", "READY">>, <<"WAIT", "LOCKED">>,
          <<"LOCKED", "READY">>, <<"LOCKED", "WAIT">> }

Without(i) == SubSeq(queue, 1, i - 1) \o SubSeq(queue, i + 1, Len(queue))

Empty == queue = <<>> /\ out = <<>>

Enter ==
    LET n == Len(queue)
    IN /\ n < Capacity
       /\ Len(queue') = n + 1
       /\ SubSeq(queue', 1, n) = queue
       /\ queue'[n + 1].stage = "EMPTY"
       /\ \A i \in 1 .. n : queue[i].id <= queue'[n + 1].id
       /\ UNCHANGED out

Advance(i) ==
    /\ \E f \in Flow : /\ queue[i].stage = f[1]
                       /\ queue' = [queue EXCEPT ![i].stage = f[2]]
    /\ UNCHANGED out

Copy(i) ==
    /\ Len(queue) < Capacity
    /\ queue[i].stage = "LOCKED"
    /\ queue' = SubSeq(queue, 1, i) \o SubSeq(queue, i, Len(queue))
    /\ UNCHANGED out

Discard(i) ==
    /\ queue[i].stage = "LOCKED" \/ (i = 1 /\ queue[i].stage = "READY")
    /\ queue' = Without(i)
    /\ UNCHANGED out

Encode ==
    /\ queue # <<>> /\ queue[1].stage = "READY"
    /\ out' = Append(out, queue[1].id)
    /\ queue' \in {Tail(queue), queue}

Step ==
    \/ Enter
    \/ \E i \in DOMAIN queue : Advance(i) \/ Copy(i) \/ Discard(i)
    \/ Encode

Spec == Empty /\ [][Step]_<<queue, out>>
=============================================================================
