------------------------------- MODULE AVIFile -------------------------------
(***************************************************************************)
(* Writing an AVI file that may grow beyond the limit of one RIFF list     *)
(* (OpenDML), with one audio track, and reading it back through its index. *)
(*                                                                         *)
(*   write, close, open, seek, read               avilib/avilib.c          *)
(*                                                                         *)
(* The file is the sequence of its chunks; the contents of the data chunks *)
(* are their numbers.                                                      *)
(***************************************************************************)
EXTENDS Integers, SequencesExt, FiniteSetsExt

CONSTANTS RiffThreshold, \* NEW_RIFF_THRES
          HeaderBytes,   \* HEADERBYTES
          MaxRiffs,      \* NR_IXNN_CHUNKS
          Sizes,         \* the lengths of data to choose from
          MaxChunks,     \* bound: chunks of data written
          MaxErrors,     \* bound: chunks of data that cannot be written
          Seeks          \* the frames and bytes to seek to

Media == {"video", "audio"}

ASSUME FileAssumption ==
    /\ {RiffThreshold, HeaderBytes, MaxRiffs, MaxChunks, MaxErrors} \subseteq Nat
    /\ Sizes \subseteq Nat \ {0} /\ Seeks \subseteq Nat

VARIABLES file,    \* the chunks behind the header
          pos,     \* AVI->pos
          idx,     \* AVI->idx
          super,   \* superindex->nEntriesInUse of each stream, 0 without one
          std,     \* superindex->stdindex: base and entries of each index
          offset,  \* superindex->aIndex[].qwOffset
          errors,  \* chunks that could not be written
          stage,   \* "write", "closed", "read", "undefined" or "astray"
          lists,   \* <<length of RIFF, length of movi>> of each RIFF
          index,   \* {video,audio}_index of the reader
          vpos,    \* video_pos
          posc, posb,    \* audio_posc, audio_posb
          request, reply \* argument and result of the last call

writer == <<file, pos, idx, super, std, offset, errors, lists>>
reader == <<index, vpos, posc, posb, request, reply>>
avivars == <<writer, stage, reader>>

Numbers == 1 .. MaxRiffs

\* AVI_open_output_file(), avi_init_super_index()
FileInit ==
    /\ file = <<>> /\ pos = HeaderBytes /\ idx = <<>>
    /\ super = [s \in Media |-> 0]
    /\ std = [s \in Media |->
                [k \in Numbers |-> [base |-> (k - 1) * RiffThreshold, entries |-> <<>>]]]
    /\ offset = [s \in Media |-> [k \in Numbers |-> 0]]
    /\ errors = 0 /\ stage = "write" /\ lists = <<>>
    /\ index = [s \in Media |-> <<>>] /\ vpos = 0 /\ posc = 0 /\ posb = 0
    /\ request = 0 /\ reply = <<>>

Even(n) == n + (n % 2)
ChunkSize(c) == 8 + Even(c.len)

Chunk(tag, s, len) == [tag |-> tag, stream |-> s, len |-> len]

\* The chunks c, written one after the other from position p on.
Placed(c, p) ==
    [n \in DOMAIN c |->
       [at |-> p + MapThenSumSet(LAMBDA m : ChunkSize(c[m]), 1 .. n - 1)] @@ c[n]]

\* Where the chunks c, written from position p on, end.
Behind(c, p) == p + MapThenSumSet(LAMBDA m : ChunkSize(c[m]), DOMAIN c)

-----------------------------------------------------------------------------
(* Writing.                                                                 *)

\* is_opendml
OpenDML == super["video"] > 1

\* Mutant: the audio is not indexed.
VideoIndexed(sup) == SelectSeq(<<"video">>, LAMBDA s : sup[s] > 0)

\* The streams with a superindex.
Indexed(sup) == SelectSeq(<<"video", "audio">>, LAMBDA s : sup[s] > 0)

\* avi_ixnn_entry(): the n-th index of each of the streams.
IndexChunks(streams, n) ==
    [k \in DOMAIN streams |->
       Chunk("ix", streams[k], 24 + 8 * Len(std[streams[k]][n].entries))]

OldIndex(list) == Chunk("idx1", "video", 16 * Len(list))

\* What the next chunk and the indices will need at least.
ToWrite(sup, list, len) ==
    LET size(s) == 32 + 8 * Len(std[s][sup[s]].entries)
    IN MapThenSumSet(size, ToSet(Indexed(sup)))
       + (IF sup["video"] = 1 THEN 16 * Len(list) + 8 + HeaderBytes ELSE 0)
       + Even(len) + 8

\* avi_add_index_entry()
AddOldEntry(s, len) ==
    IF OpenDML THEN idx ELSE Append(idx, [stream |-> s, at |-> pos, len |-> len])

\* The superindex comes with the first chunk of its stream.
Begun(s) == IF super[s] = 0 THEN [super EXCEPT ![s] = 1] ELSE super

\* avi_add_odml_index_entry(): whether this chunk begins a new RIFF.
NewRiff(s, len) ==
    /\ Begun(s)["video"] > 0
    /\ pos + ToWrite(Begun(s), AddOldEntry(s, len), len)
         > RiffThreshold * Begun(s)["video"]

\* What is written before a new RIFF, and its start.
Closing(s, len) ==
    LET n == Begun(s)["video"]
    IN IndexChunks(Indexed(Begun(s)), n)
       \o (IF n = 1 THEN <<OldIndex(AddOldEntry(s, len))>> ELSE <<>>)
       \o <<Chunk("RIFF", "video", 16)>>

\* avi_add_odml_index_entry_core()
AddEntry(table, s, n, at, len) ==
    [table EXCEPT ![s][n].entries =
       Append(@, [offset |-> at - table[s][n].base + 8, len |-> len])]

\* The indices of a new RIFF are relative to its start.
Based(streams, n, base) ==
    [s \in Media |-> IF s \in ToSet(streams) THEN [std[s] EXCEPT ![n].base = base]
                     ELSE std[s]]

\* The positions of the n-th indices of the streams, in their superindices.
Located(streams, chunks, n) ==
    [s \in Media |->
       IF s \in ToSet(streams)
       THEN [offset[s] EXCEPT ![n] =
               (CHOOSE c \in Range(chunks) : c.tag = "ix" /\ c.stream = s).at]
       ELSE offset[s]]

\* plat_write_data(): the data follow their index entry, if they can be written.
WriteHere(s, len, front, at) ==
    \/ /\ file' = file \o front \o Placed(<<Chunk("data", s, len)>>, at)
       /\ pos' = at + 8 + Even(len)
       /\ UNCHANGED errors
    \/ /\ errors < MaxErrors /\ errors' = errors + 1
       /\ file' = file \o front
       /\ pos' = at

\* Data chunks of the file.
Data == SelectSeq(file, LAMBDA c : c.tag = "data")

CanWrite == stage = "write" /\ Len(Data) < MaxChunks

\* AVI_write_frame(), AVI_write_audio(), the chunk belongs to the current RIFF.
WriteChunk(s, len) ==
    /\ CanWrite /\ ~NewRiff(s, len)
    /\ idx' = AddOldEntry(s, len)
    /\ super' = Begun(s)
    /\ std' = AddEntry(std, s, Begun(s)[s], pos, len)
    /\ WriteHere(s, len, <<>>, pos)
    /\ UNCHANGED <<offset, lists, stage, reader>>

\* ... and when it begins a new one.
WriteRiff(s, len) ==
    LET streams == Indexed(Begun(s))
        n       == Begun(s)["video"]
        front   == Placed(Closing(s, len), pos)
        at      == Behind(Closing(s, len), pos)
        next    == [u \in Media |-> IF Begun(s)[u] = 0 THEN 0 ELSE Begun(s)[u] + 1]
    IN /\ CanWrite /\ NewRiff(s, len) /\ n < MaxRiffs
       /\ idx' = AddOldEntry(s, len)
       /\ super' = next
       /\ std' = AddEntry(Based(streams, n + 1, at - 24), s, next[s], at, len)
       /\ offset' = Located(streams, front, n)
       /\ WriteHere(s, len, front, at)
       /\ UNCHANGED <<lists, stage, reader>>

\* "redefine NR_IXNN_CHUNKS": the call fails, but the count has been raised and
\* later calls use memory that is not there.
WriteBeyond(s, len) ==
    /\ CanWrite /\ NewRiff(s, len) /\ Begun(s)["video"] = MaxRiffs
    /\ stage' = "undefined"
    /\ UNCHANGED <<writer, reader>>

\* Mutant: the list of the first RIFF would end behind its index.
MoviWithIndex(next) == next - HeaderBytes + 4

\* The length of the first movi list, when there are more.
FirstMovi(next) == next - HeaderBytes + 4 - 16 * Len(idx) - 8

\* avi_close_output_file()
CloseFile ==
    LET n       == Max({super["video"], 1})
        streams == Indexed(super)
        rest    == IF OpenDML THEN IndexChunks(streams, n) ELSE <<OldIndex(idx)>>
        end     == Behind(rest, pos)
        start(k) == IF k > n THEN end ELSE std["video"][k].base
        list(k) == IF k > 1 THEN <<start(k + 1) - start(k) - 8,
                                   start(k + 1) - start(k) - 20>>
                   ELSE IF OpenDML THEN <<start(2) - 8, FirstMovi(start(2))>>
                   ELSE <<end - 8, pos - HeaderBytes + 4>>
    IN /\ stage = "write"
       /\ IF OpenDML /\ n = MaxRiffs
          THEN stage' = "undefined" /\ UNCHANGED writer
          ELSE /\ stage' = "closed"
               /\ file' = file \o Placed(rest, pos)
               /\ pos' = end
               /\ offset' = IF OpenDML
                            THEN Located(streams, Placed(rest, pos), n) ELSE offset
               /\ lists' = [k \in 1 .. n |-> list(k)]
               /\ UNCHANGED <<idx, super, std, errors>>
       /\ UNCHANGED reader

-----------------------------------------------------------------------------
(* Reading.                                                                 *)

\* Files with entries of chunks that are not there, and those whose audio began
\* behind the first RIFF, where the two superindices differ; see README.
Spoilt == errors > 0 \/ (super["audio"] > 0 /\ super["audio"] # super["video"])

\* Entries of the n-th index of stream s, as they are found in the file.
IndexEntries(s, n) ==
    IF \E c \in Range(file) : c.tag = "ix" /\ c.stream = s /\ c.at = offset[s][n]
    THEN [k \in DOMAIN std[s][n].entries |->
            [pos |-> std[s][n].base + std[s][n].entries[k].offset,
             len |-> std[s][n].entries[k].len]]
    ELSE <<>>

OldEntries(s) ==
    LET mine == SelectSeq(idx, LAMBDA e : e.stream = s)
    IN [k \in DOMAIN mine |-> [pos |-> mine[k].at + 8, len |-> mine[k].len]]

\* avi_parse_input_file(): there must be video.
OpenFile ==
    /\ stage = "closed" /\ super["video"] > 0 /\ ~Spoilt
    /\ stage' = "read"
    /\ index' = [s \in Media |->
                   IF OpenDML
                   THEN FlattenSeq([n \in 1 .. super[s] |-> IndexEntries(s, n)])
                   ELSE OldEntries(s)]
    /\ UNCHANGED <<writer, vpos, posc, posb, request, reply>>

\* What the file holds in the n bytes at position p: number of the chunk, first
\* byte, length.
Piece(p, n) ==
    LET in == {m \in DOMAIN Data : /\ Data[m].at + 8 <= p
                                   /\ p + n <= Data[m].at + 8 + Data[m].len}
    IN IF in = {} THEN <<0, p, n>>
       ELSE LET m == CHOOSE m \in in : TRUE IN <<m, p - Data[m].at - 8, n>>

\* AVI_read_frame()
ReadVideo ==
    /\ stage = "read"
    /\ IF vpos < Len(index["video"])
       THEN /\ reply' = <<Piece(index["video"][vpos + 1].pos,
                                index["video"][vpos + 1].len)>>
            /\ vpos' = vpos + 1
       ELSE reply' = <<>> /\ UNCHANGED vpos
    /\ UNCHANGED <<writer, stage, index, posc, posb, request>>

\* AVI_set_video_position()
SetVideoPosition(n) ==
    /\ stage = "read"
    /\ vpos' = n /\ request' = n
    /\ UNCHANGED <<writer, stage, index, posc, posb, reply>>

Chunks == Len(index["audio"])
LenOf(c) == index["audio"][c + 1].len
PosOf(c) == index["audio"][c + 1].pos

\* audio_index[c].tot: the bytes of the audio before chunk c
Tot(c) == MapThenSumSet(LenOf, 0 .. c - 1)

\* The binary search of AVI_set_audio_position().
ChunkWith(byte) ==
    LET search[n0, n1 \in Nat] ==
          LET n == (n0 + n1) \div 2
          IN IF n0 >= n1 - 1 THEN n0
             ELSE IF Tot(n) > byte THEN search[n0, n] ELSE search[n, n1]
    IN search[0, Chunks]

SetAudioPosition(byte) ==
    /\ stage = "read" /\ Chunks > 0 /\ byte <= Tot(Chunks)
    /\ posc' = ChunkWith(byte) /\ posb' = byte - Tot(posc')
    /\ request' = byte
    /\ UNCHANGED <<writer, stage, index, vpos, reply>>

\* The loop of AVI_read_audio() from byte b of chunk c on.
ReadOn(chunk, first, bytes) ==
    LET loop[c, b, n \in Nat] ==
          LET left == LenOf(c) - b
              todo == IF n < left THEN n ELSE left
              rest == loop[c, b + todo, n - todo]
          IN IF n = 0 \/ (left = 0 /\ c >= Chunks - 1)
             THEN [chunk |-> c, first |-> b, pieces |-> <<>>]
             ELSE IF left = 0 THEN loop[c + 1, 0, n]
             ELSE [rest EXCEPT !.pieces = <<Piece(PosOf(c) + b, todo)>> \o @]
    IN loop[chunk, first, bytes]

\* AVI_read_audio(), not behind the last chunk; without an index it fails.
ReadAudio(bytes) ==
    LET end == IF Chunks = 0 THEN [chunk |-> posc, first |-> posb, pieces |-> <<>>]
               ELSE ReadOn(posc, posb, bytes)
    IN /\ stage = "read" /\ bytes > 0
       /\ Chunks = 0 \/ posc < Chunks
       /\ posc' = end.chunk /\ posb' = end.first
       /\ request' = bytes /\ reply' = end.pieces
       /\ UNCHANGED <<writer, stage, index, vpos>>

\* ... and behind it, where it looks at an entry that the index does not have.
ReadBeyond ==
    /\ stage = "read" /\ Chunks > 0 /\ posc >= Chunks
    /\ stage' = "astray"
    /\ UNCHANGED <<writer, reader>>

\* AVI_read_audio_chunk()
ReadAudioChunk ==
    LET left == LenOf(posc) - posb
    IN /\ stage = "read" /\ Chunks > 0
       /\ IF posc >= Chunks THEN reply' = <<>> /\ UNCHANGED <<posc, posb>>
          ELSE /\ reply' = IF left = 0 THEN <<>>
                           ELSE <<Piece(PosOf(posc) + posb, left)>>
               /\ posc' = posc + 1 /\ posb' = 0
       /\ UNCHANGED <<writer, stage, index, vpos, request>>

FileNext ==
    \/ \E s \in Media, len \in Sizes :
          WriteChunk(s, len) \/ WriteRiff(s, len) \/ WriteBeyond(s, len)
    \/ CloseFile \/ OpenFile
    \/ ReadVideo \/ ReadAudioChunk \/ ReadBeyond
    \/ \E n \in Seeks : SetVideoPosition(n) \/ SetAudioPosition(n) \/ ReadAudio(n)

FileSpec == FileInit /\ [][FileNext]_avivars

-----------------------------------------------------------------------------
(* Properties.                                                              *)

\* A file without errors whose audio began in its first RIFF is read back as it
\* was written, from every position and over every boundary of RIFFs and chunks
\* (avi_add_odml_index_entry, avi_close_output_file, avi_parse_input_file).
Played == INSTANCE Recording
             WITH clips <- [n \in DOMAIN Data |-> [stream |-> Data[n].stream,
                                                   len |-> Data[n].len]],
                  playing <- stage \in {"read", "astray"}, frame <- vpos,
                  byte <- Tot(posc) + posb, asked <- request, got <- reply

ImplementsRecording == Played!RecordSpec

\* The start of the n-th RIFF, and the end of the file.
RiffStart(n) ==
    LET riffs == SelectSeq(file, LAMBDA c : c.tag = "RIFF")
    IN CASE n = 1 -> 0 [] n > Len(lists) -> pos [] OTHER -> riffs[n - 1].at

\* The header lengths written at the end lead from RIFF to RIFF to the end of the
\* file, and each movi list ends where the RIFF or its idx1 does, also when chunks
\* could not be written; and when video comes first no RIFF is longer than the
\* threshold by more than the header, one chunk and its entries, so that 32 bits
\* hold its lengths and offsets.
RiffsTile ==
    \A n \in DOMAIN lists :
        LET start == RiffStart(n)
            list  == IF n = 1 THEN HeaderBytes - 4 ELSE start + 20
            ends  == {RiffStart(n + 1)} \cup
                     {c.at : c \in {d \in Range(file) : d.tag = "idx1"}}
        IN /\ start + 8 + lists[n][1] = RiffStart(n + 1)
           /\ list + lists[n][2]
                = IF n = 1 THEN Min(ends) ELSE RiffStart(n + 1)
           /\ idx # <<>> /\ Head(idx).stream = "video" =>
                 lists[n][1] <= RiffThreshold + HeaderBytes + Max(Sizes) + 64
=============================================================================
