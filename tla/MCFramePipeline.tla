-------------------------- MODULE MCFramePipeline --------------------------
(* Values of the constants for the runs of FramePipeline.                   *)
EXTENDS FramePipeline, TLC

NoMarks   == [s \in Slots |-> {}]
SkipAll   == [s \in Slots |-> {"SKIPPED"}]
CloneM    == [s \in Slots |-> IF s = "PRE_M" THEN {"IS_CLONED"} ELSE {}]
CloneSkipM == [s \in Slots |-> IF s = "PRE_M" THEN {"SKIPPED", "IS_CLONED"}
                               ELSE {}]
CloneAll  == [s \in Slots |-> {"IS_CLONED"}]

WholeStream == << <<0, 100>> >>
ShortRange == << <<0, 2>> >>
NextToEach == << <<0, 1>>, <<1, 2>>, <<3, 100>> >>

NoSeek     == {}
SeekThird == {3}

\* The workers are alike.
WorkerSymmetry == Permutations(Workers)
=============================================================================
