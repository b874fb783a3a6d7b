------------------------------ MODULE Recording ------------------------------
(***************************************************************************)
(* What an AVI file promises its user (avilib.h): what was written to the  *)
(* video and to the audio stream is read back, frame by frame and byte by  *)
(* byte, from any position.                                                *)
(***************************************************************************)
EXTENDS Integers, SequencesExt, FiniteSetsExt

VARIABLES clips,    \* what was written, in order: stream and length
          playing,  \* whether the file is read
          frame,    \* the next frame, from 0
          byte,     \* the next byte of the audio
          asked,    \* the argument of the last call
          got       \* what the last call returned: pieces <<clip, first, length>>

RecordInit ==
    /\ clips = <<>> /\ playing = FALSE
    /\ frame = 0 /\ byte = 0 /\ asked = 0 /\ got = <<>>

Of(s) == SelectSeq([n \in DOMAIN clips |-> n], LAMBDA n : clips[n].stream = s)

Length(set) == MapThenSumSet(LAMBDA n : clips[n].len, set)

Size == Length(ToSet(Of("audio")))

\* Bytes of the audio before clip n.
Before(n) == Length({m \in ToSet(Of("audio")) : m < n})

\* The bytes from a up to b of the audio, piece by piece.
Between(a, b) ==
    LET from(n) == Max({a - Before(n), 0})
        to(n) == Min({b - Before(n), clips[n].len})
        touched == SelectSeq(Of("audio"), LAMBDA n : from(n) < to(n))
    IN [k \in DOMAIN touched |->
          <<touched[k], from(touched[k]), to(touched[k]) - from(touched[k])>>]

Record ==
    /\ ~playing
    /\ IsStrictPrefix(clips, clips') /\ Len(clips') = Len(clips) + 1
    /\ UNCHANGED <<playing, frame, byte, asked, got>>

Play == ~playing /\ playing' = TRUE /\ UNCHANGED <<clips, frame, byte, asked, got>>

ReadFrame ==
    /\ IF frame < Len(Of("video"))
       THEN /\ got' = LET n == Of("video")[frame + 1] IN << <<n, 0, clips[n].len>> >>
            /\ frame' = frame + 1
       ELSE got' = <<>> /\ UNCHANGED frame
    /\ UNCHANGED <<byte, asked>>

SeekFrame == frame' = asked' /\ UNCHANGED <<byte, got>>

\* As many bytes as asked for, fewer at the end.
ReadBytes ==
    /\ byte' = Min({byte + asked', Size})
    /\ got' = Between(byte, byte')
    /\ UNCHANGED frame

SeekByte == byte' = asked' /\ UNCHANGED <<frame, got>>

\* The rest of a clip, which may be nothing.
ReadClip ==
    /\ byte' \in {byte} \cup {Before(n) + clips[n].len : n \in ToSet(Of("audio"))}
    /\ got' = Between(byte, byte') /\ Len(got') <= 1
    /\ UNCHANGED <<frame, asked>>

RecordNext ==
    \/ Record \/ Play
    \/ /\ playing /\ UNCHANGED <<clips, playing>>
       /\ ReadFrame \/ SeekFrame \/ ReadBytes \/ SeekByte \/ ReadClip

RecordSpec ==
    RecordInit /\ [][RecordNext]_<<clips, playing, frame, byte, asked, got>>
=============================================================================
