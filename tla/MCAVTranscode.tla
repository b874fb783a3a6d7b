--------------------------- MODULE MCAVTranscode ---------------------------
(* Values of the constants for the runs of AVTranscode.                     *)
EXTENDS AVTranscode

Of(v, a) == [s \in Streams |-> IF s = "video" THEN v ELSE a]

\* One file whose streams end together, whose video or whose audio ends first;
\* and two files.
ManyInputs == {Of(<<3>>, <<3>>), Of(<<0>>, <<2>>), Of(<<6>>, <<1>>),
               Of(<<2, 1>>, <<1, 2>>)}
OneFile == {Of(<<2>>, <<2>>)}

AheadAndBehind == {-1, 1}
NoShift == {0}

TwoCuts == << <<0, 1>>, <<2, 100>> >>
AllFrames == << <<0, 100>> >>
=============================================================================
