----------------------------- MODULE PartsProofs -----------------------------
(***************************************************************************)
(* Theorems about four parts that share no state with the frame pipeline:  *)
(* the core modes, the module system, the filter table and the list.       *)
(***************************************************************************)
EXTENDS CoreModes, ModuleFactory, FilterTable, TCList, SequenceLemmas,
        FiniteSetTheorems

-----------------------------------------------------------------------------
(***************************************************************************)
(* Proofs about the core modes: an interruption is kept by every mode that *)
(* calls tc_start once, and a file only gets frames of its own unit and    *)
(* chunk.  FilesInv says where the frames of the current unit are at each  *)
(* call of the main thread: in the buffer, held by the encoder, or written *)
(* to the file that is open.                                               *)
(***************************************************************************)

StartsAgain == {"psu", "psu_whole"}

LEMMA ModeNames ==
    DOMAIN Order = {"default", "split", "psu", "psu_whole", "dvd", "dvd_whole"}
BY DEF Order

\* The main thread is inside the order of its mode.
InOrder == mode \in Modes /\ step \in 1 .. Len(Order[mode])

\* Every order ends with "done", and starts once unless the mode is PSU.
LEMMA OrderFacts ==
    ASSUME NEW m \in DOMAIN Order
    PROVE  /\ Len(Order[m]) \in Nat \ {0} /\ DOMAIN Order[m] = 1 .. Len(Order[m])
           /\ Order[m][Len(Order[m])] = "done"
           /\ m \notin StartsAgain => \A n \in 2 .. Len(Order[m]) : Order[m][n] # "start"
           /\ m \notin StartsAgain => \A n \in 1 .. Len(Order[m]) : Order[m][n] # "unit"
<1>1. CASE m = "default"
  BY <1>1 DEF Order, StartsAgain
<1>2. CASE m = "split"
  BY <1>2 DEF Order, StartsAgain
<1>3. CASE m = "psu"
  BY <1>3 DEF Order, StartsAgain
<1>4. CASE m = "psu_whole"
  BY <1>4 DEF Order, StartsAgain
<1>5. CASE m = "dvd"
  BY <1>5 DEF Order, StartsAgain
<1>6. CASE m = "dvd_whole"
  BY <1>6 DEF Order, StartsAgain
<1> QED
  BY <1>1, <1>2, <1>3, <1>4, <1>5, <1>6, ModeNames

\* The calls to which a mode goes back or ahead.
LEMMA JumpFacts ==
    /\ \E n \in DOMAIN Order["split"] : Order["split"][n] = "open"
    /\ \A m \in {"psu", "psu_whole"} : \E n \in DOMAIN Order[m] : Order[m][n] = "unit"
    /\ \A m \in {"psu", "psu_whole"} : \E n \in DOMAIN Order[m] : Order[m][n] = "next"
    /\ \A m \in {"dvd", "dvd_whole"} : \E n \in DOMAIN Order[m] : Order[m][n] = "import"
<1>1. Order["split"][3] = "open" /\ 3 \in DOMAIN Order["split"]
  BY DEF Order
<1>2. Order["psu"][1] = "unit" /\ Order["psu"][8] = "next" /\ {1, 8} \subseteq DOMAIN Order["psu"]
  BY DEF Order
<1>3. /\ Order["psu_whole"][2] = "unit" /\ Order["psu_whole"][7] = "next"
      /\ {2, 7} \subseteq DOMAIN Order["psu_whole"]
  BY DEF Order
<1>4. /\ Order["dvd"][2] = "import" /\ Order["dvd_whole"][3] = "import"
      /\ 2 \in DOMAIN Order["dvd"] /\ 3 \in DOMAIN Order["dvd_whole"]
  BY DEF Order
<1> QED
  BY <1>1, <1>2, <1>3, <1>4

LEMMA WhereFacts ==
    ASSUME NEW call, \E n \in DOMAIN Order[mode] : Order[mode][n] = call
    PROVE  Where(call) \in DOMAIN Order[mode] /\ Order[mode][Where(call)] = call
BY DEF Where

LEMMA InOrderNext == InOrder /\ [ModesNext]_modevars => InOrder'
<1> SUFFICES ASSUME InOrder, [ModesNext]_modevars PROVE InOrder'
  OBVIOUS
<1> DEFINE Calls == Order[mode]
<1>0. /\ mode \in DOMAIN Order
      /\ Len(Calls) \in Nat /\ DOMAIN Calls = 1 .. Len(Calls) /\ Calls[Len(Calls)] = "done"
      /\ step \in 1 .. Len(Calls)
  BY OrderFacts, ModesAssumption DEF InOrder
<1>1. ASSUME NEW call, At(call), call # "done", UNCHANGED mode,
             step' = step + 1 \/ step' = step
      PROVE  InOrder'
  BY <1>0, <1>1 DEF InOrder, At
<1>2. ASSUME NEW call, UNCHANGED mode, \E n \in DOMAIN Calls : Calls[n] = call,
             step' = Where(call) \/ (call # "done" /\ step' = Where(call) + 1)
      PROVE  InOrder'
  <2>1. Where(call) \in 1 .. Len(Calls) /\ Calls[Where(call)] = call
    BY <1>0, <1>2, WhereFacts
  <2> QED
    BY <1>0, <1>2, <2>1 DEF InOrder
<1>3. CASE \/ StartCore \/ ImportUnit \/ OpenOutput \/ LeaveLoop \/ LastFrame \/ SkipFrame
           \/ ExportFrame \/ CloseOutput \/ FlushBuffer \/ StopCore
  <2>1. \E call : At(call) /\ call # "done" /\ UNCHANGED mode /\ (step' = step + 1 \/ step' = step)
    BY <1>3 DEF StartCore, ImportUnit, OpenOutput, LeaveLoop, LastFrame, SkipFrame,
       ExportFrame, Dispose, CloseOutput, FlushBuffer, StopCore, Proceed, choice
  <2> QED
    BY <1>1, <2>1
<1>4. CASE NextUnit
  <2>1. At("unit") /\ UNCHANGED mode
        /\ (step' = step + 1 \/ step' = step \/ step' = Where("next") + 1)
    BY <1>4 DEF NextUnit, Proceed, choice
  <2>2. mode \in {"psu", "psu_whole"}
    BY <1>0, <2>1, OrderFacts DEF At, StartsAgain
  <2> QED
    BY <1>1, <1>2, <2>1, <2>2, JumpFacts
<1>5. CASE NextChunk
  <2>1. At("next") /\ UNCHANGED mode /\ mode = "split"
        /\ (step' = step + 1 \/ step' = Where("open"))
    BY <1>5 DEF NextChunk, Proceed, Jump, ChunkStart, choice
  <2> QED
    BY <1>1, <1>2, <2>1, JumpFacts
<1>6. CASE NextPSU
  <2>1. At("next") /\ UNCHANGED mode /\ mode \in {"psu", "psu_whole"}
        /\ (step' = step + 1 \/ step' = Where("unit"))
    BY <1>6 DEF NextPSU, Proceed, Jump, choice
  <2> QED
    BY <1>1, <1>2, <2>1, JumpFacts
<1>7. CASE NextChapter
  <2>1. At("next") /\ UNCHANGED mode /\ mode \in {"dvd", "dvd_whole"}
        /\ (step' = step + 1 \/ step' = Where("import"))
    BY <1>7 DEF NextChapter, Proceed, Jump, choice
  <2> QED
    BY <1>1, <1>2, <2>1, JumpFacts
<1>8. CASE SignalComes \/ UNCHANGED modevars
  BY <1>8 DEF SignalComes, modevars, choice, InOrder
<1> QED
  BY <1>3, <1>4, <1>5, <1>6, <1>7, <1>8 DEF ModesNext, ModesStep

LEMMA InOrderInit == ModesInit => InOrder
<1> SUFFICES ASSUME ModesInit PROVE InOrder
  OBVIOUS
<1>1. mode \in Modes /\ mode \in DOMAIN Order /\ step = 1
  BY ModesAssumption DEF ModesInit
<1> QED
  BY <1>1, OrderFacts DEF InOrder

\* The status changes in three places, and a first tc_start comes before the rest.
LEMMA StatusChanges ==
    ASSUME InOrder, ModesNext, status' # status
    PROVE  \/ mode \in StartsAgain \/ step = 1
           \/ status = "RUNNING"
           \/ status' = "INTERRUPTED"
<1>1. CASE StartCore
  BY <1>1, OrderFacts, ModesAssumption DEF StartCore, At, InOrder
<1>2. CASE StopCore
  BY <1>2 DEF StopCore
<1>3. CASE SignalComes
  BY <1>3 DEF SignalComes
<1>4. CASE ModesStep /\ ~StartCore /\ ~StopCore
  BY <1>4 DEF ModesStep, ImportUnit, OpenOutput, LeaveLoop, LastFrame, SkipFrame,
     ExportFrame, Dispose, CloseOutput, NextUnit, FlushBuffer, NextChunk, NextPSU,
     NextChapter
<1> QED
  BY <1>1, <1>2, <1>3, <1>4 DEF ModesNext

\* An interruption is irreversible in every mode but PSU: nothing after the first tc_start
\* overwrites it, so the mode leaves its loops and transcode reports it.
THEOREM InterruptionKept == ModesSpec => InterruptKept
<1>1. InOrder /\ [ModesNext]_modevars
        => [InterruptedMode /\ step > 1 /\ mode \notin {"psu", "psu_whole"}
              => InterruptedMode']_modevars
  BY StatusChanges DEF InterruptedMode, StartsAgain, modevars
<1> QED
  BY <1>1, InOrderInit, InOrderNext, PTL DEF ModesSpec, InterruptKept

-----------------------------------------------------------------------------
(* The frames in the files.  A file is open from tc_encoder_open to         *)
(* tc_encoder_close; while none is, the encoder holds nothing back.  The    *)
(* buffer is empty where a unit is imported, and up to the end of the loop  *)
(* it has frames of that unit and behind them the empty one.                *)

\* Between two calls of the mode.
Between(from, upto) == Where(from) < step /\ step <= Where(upto)

\* The multiplexor has a file.
Writing == Between("open", "close")

BufferFrames == [unit : 1 .. Len(units), id : Nat, empty : BOOLEAN, ends : BOOLEAN]
Frames == [unit : 1 .. Len(units), id : Nat, empty : BOOLEAN, file : 1 .. Len(files)]

ModesTyped ==
    /\ units \in Units /\ lag \in 0 .. MaxLag
    /\ status \in {"RUNNING", "STOPPED", "INTERRUPTED"}
    /\ unit \in Nat \ {0} /\ frameA \in Nat /\ count \in Nat /\ signal \in BOOLEAN
    /\ failed \subseteq {"encode", "multiplex", "flush"}
    /\ buffer \in Seq(BufferFrames)
    /\ held \in Seq(Frames)
    /\ files \in Seq(Seq(Frames))
    /\ mplex \in 0 .. Len(files)
    /\ Writing => mplex # 0

\* Beyond the last unit only the loop over program stream units looks.
UnitThere ==
    /\ unit <= Len(units) + 1
    /\ (mode \in StartsAgain => Between("unit", "next")) => unit <= Len(units)

\* Up to the end of the encoder loop the buffer has frames of the current unit and the empty
\* one that ends it; what the loop left is flushed before the next import.
Fresh == {f \in BufferFrames : f.unit = unit /\ (f.empty => f.ends)}
Flushed ==
    mode # "split" =>
       /\ \/ step <= Where("import")
          \/ mode # "default" /\ step > Where("flush")
          => buffer = <<>>
       /\ step <= Where("loop") => buffer \in Seq(Fresh)

\* The frames that may get into the file that is open.
Fitting ==
    {f \in Frames : /\ f.file = mplex
                    /\ mode # "split" => ~f.empty
                    /\ mode \in {"psu", "dvd"} => f.unit = unit}

\* What the encoder holds back, and what the open file has, fits.
HeldFits ==
    "flush" \notin failed =>
       /\ held \in Seq(Fitting)
       /\ IF Writing THEN files[mplex] \in Seq(Fitting) ELSE held = <<>>

FilesInv ==
    /\ InOrder /\ ModesTyped /\ UnitThere /\ Flushed /\ HeldFits
    /\ FilesApart

\* No call comes twice in an order.
LEMMA CallsDiffer ==
    ASSUME NEW m \in DOMAIN Order, NEW n \in DOMAIN Order[m], NEW k \in DOMAIN Order[m],
           Order[m][n] = Order[m][k]
    PROVE  n = k
<1>1. CASE m = "default"
  BY <1>1 DEF Order
<1>2. CASE m = "split"
  BY <1>2 DEF Order
<1>3. CASE m = "psu"
  BY <1>3 DEF Order
<1>4. CASE m = "psu_whole"
  BY <1>4 DEF Order
<1>5. CASE m = "dvd"
  BY <1>5 DEF Order
<1>6. CASE m = "dvd_whole"
  BY <1>6 DEF Order
<1> QED
  BY <1>1, <1>2, <1>3, <1>4, <1>5, <1>6, ModeNames

LEMMA PlaceOf ==
    ASSUME mode \in DOMAIN Order, NEW n \in DOMAIN Order[mode]
    PROVE  Where(Order[mode][n]) = n
<1>1. /\ Where(Order[mode][n]) \in DOMAIN Order[mode]
      /\ Order[mode][Where(Order[mode][n])] = Order[mode][n]
  BY WhereFacts
<1> QED
  BY <1>1, CallsDiffer

\* Where the calls are whose effects the invariant is about.
LEMMA CallPlaces ==
    ASSUME mode \in DOMAIN Order
    PROVE  /\ mode = "default" => /\ Where("import") = 2 /\ Where("open") = 3
                                  /\ Where("loop") = 4 /\ Where("close") = 6
           /\ mode = "split" => /\ Where("import") = 2 /\ Where("open") = 3
                                /\ Where("loop") = 4 /\ Where("close") = 5
                                /\ Where("next") = 6
           /\ mode = "psu" => /\ Where("unit") = 1 /\ Where("import") = 3
                              /\ Where("open") = 4 /\ Where("loop") = 5
                              /\ Where("close") = 6 /\ Where("flush") = 7
                              /\ Where("next") = 8
           /\ mode = "psu_whole" => /\ Where("open") = 1 /\ Where("unit") = 2
                                    /\ Where("import") = 4 /\ Where("loop") = 5
                                    /\ Where("flush") = 6 /\ Where("next") = 7
                                    /\ Where("close") = 8
           /\ mode = "dvd" => /\ Where("import") = 2 /\ Where("open") = 3
                              /\ Where("loop") = 4 /\ Where("close") = 5
                              /\ Where("flush") = 6 /\ Where("next") = 7
           /\ mode = "dvd_whole" => /\ Where("open") = 2 /\ Where("import") = 3
                                    /\ Where("loop") = 4 /\ Where("flush") = 5
                                    /\ Where("next") = 6 /\ Where("close") = 7
<1>1. CASE mode = "default"
  <2>1. /\ DOMAIN Order[mode] = 1 .. 7
        /\ Order[mode][2] = "import" /\ Order[mode][3] = "open" /\ Order[mode][4] = "loop"
        /\ Order[mode][6] = "close"
    BY <1>1 DEF Order
  <2>2. {2, 3, 4, 6} \subseteq 1 .. 7
    OBVIOUS
  <2> QED
    BY <1>1, <2>1, <2>2, PlaceOf, Zenon
<1>2. CASE mode = "split"
  <2>1. /\ DOMAIN Order[mode] = 1 .. 8
        /\ Order[mode][2] = "import" /\ Order[mode][3] = "open" /\ Order[mode][4] = "loop"
        /\ Order[mode][5] = "close" /\ Order[mode][6] = "next"
    BY <1>2 DEF Order
  <2>2. {2, 3, 4, 5, 6} \subseteq 1 .. 8
    OBVIOUS
  <2> QED
    BY <1>2, <2>1, <2>2, PlaceOf, Zenon
<1>3. CASE mode = "psu"
  <2>1. /\ DOMAIN Order[mode] = 1 .. 10
        /\ Order[mode][1] = "unit" /\ Order[mode][3] = "import" /\ Order[mode][4] = "open"
        /\ Order[mode][5] = "loop" /\ Order[mode][6] = "close" /\ Order[mode][7] = "flush"
        /\ Order[mode][8] = "next"
    BY <1>3 DEF Order
  <2>2. {1, 3, 4, 5, 6, 7, 8} \subseteq 1 .. 10
    OBVIOUS
  <2> QED
    BY <1>3, <2>1, <2>2, PlaceOf, Zenon
<1>4. CASE mode = "psu_whole"
  <2>1. /\ DOMAIN Order[mode] = 1 .. 10
        /\ Order[mode][1] = "open" /\ Order[mode][2] = "unit" /\ Order[mode][4] = "import"
        /\ Order[mode][5] = "loop" /\ Order[mode][6] = "flush" /\ Order[mode][7] = "next"
        /\ Order[mode][8] = "close"
    BY <1>4 DEF Order
  <2>2. {1, 2, 4, 5, 6, 7, 8} \subseteq 1 .. 10
    OBVIOUS
  <2> QED
    BY <1>4, <2>1, <2>2, PlaceOf, Zenon
<1>5. CASE mode = "dvd"
  <2>1. /\ DOMAIN Order[mode] = 1 .. 9
        /\ Order[mode][2] = "import" /\ Order[mode][3] = "open" /\ Order[mode][4] = "loop"
        /\ Order[mode][5] = "close" /\ Order[mode][6] = "flush" /\ Order[mode][7] = "next"
    BY <1>5 DEF Order
  <2>2. {2, 3, 4, 5, 6, 7} \subseteq 1 .. 9
    OBVIOUS
  <2> QED
    BY <1>5, <2>1, <2>2, PlaceOf, Zenon
<1>6. CASE mode = "dvd_whole"
  <2>1. /\ DOMAIN Order[mode] = 1 .. 9
        /\ Order[mode][2] = "open" /\ Order[mode][3] = "import" /\ Order[mode][4] = "loop"
        /\ Order[mode][5] = "flush" /\ Order[mode][6] = "next" /\ Order[mode][7] = "close"
    BY <1>6 DEF Order
  <2>2. {2, 3, 4, 5, 6, 7} \subseteq 1 .. 9
    OBVIOUS
  <2> QED
    BY <1>6, <2>1, <2>2, PlaceOf, Zenon
<1> QED
  BY <1>1, <1>2, <1>3, <1>4, <1>5, <1>6

\* The main thread is at a call only there.
LEMMA StepIs ==
    ASSUME InOrder, NEW call, At(call)
    PROVE  /\ step = Where(call) /\ step \in Nat
           /\ mode \in DOMAIN Order /\ step \in DOMAIN Order[mode]
<1>1. mode \in DOMAIN Order /\ step \in DOMAIN Order[mode] /\ step \in Nat
  BY OrderFacts, ModesAssumption DEF InOrder
<1> QED
  BY <1>1, PlaceOf DEF At

\* The modes that have a call.
LEMMA ModesWith ==
    ASSUME InOrder
    PROVE  /\ At("unit") => mode \in {"psu", "psu_whole"}
           /\ At("flush") => mode \in {"psu", "psu_whole", "dvd", "dvd_whole"}
<1>1. mode \in DOMAIN Order /\ step \in DOMAIN Order[mode] /\ DOMAIN Order[mode] = 1 .. Len(Order[mode])
  BY OrderFacts, ModesAssumption DEF InOrder
<1>2. At("unit") => mode \in {"psu", "psu_whole"}
  BY <1>1, OrderFacts DEF At, StartsAgain
<1>3. At("flush") => mode \in {"psu", "psu_whole", "dvd", "dvd_whole"}
  <2>1. CASE mode = "default"
    BY <1>1, <2>1 DEF Order, At
  <2>2. CASE mode = "split"
    BY <1>1, <2>2 DEF Order, At
  <2> QED
    BY <1>1, <2>1, <2>2, ModeNames
<1> QED
  BY <1>2, <1>3

\* Every mode opens a file before its loop, and closes it behind.
LEMMA OpenToClose ==
    ASSUME mode \in DOMAIN Order
    PROVE  /\ Where("open") \in Nat /\ Where("close") \in Nat /\ Where("loop") \in Nat
           /\ Where("open") < Where("loop") /\ Where("loop") < Where("close")
           /\ Order[mode][Where("open")] = "open" /\ Order[mode][Where("close")] = "close"
<1>1. /\ Where("open") \in Nat /\ Where("close") \in Nat /\ Where("loop") \in Nat
      /\ Where("open") < Where("loop") /\ Where("loop") < Where("close")
  BY CallPlaces, ModeNames
<1>2. /\ \E n \in DOMAIN Order[mode] : Order[mode][n] = "open"
      /\ \E n \in DOMAIN Order[mode] : Order[mode][n] = "close"
  <2>1. CASE mode = "default"
    <3>1. {3, 6} \subseteq DOMAIN Order[mode] /\ Order[mode][3] = "open" /\ Order[mode][6] = "close"
      BY <2>1 DEF Order
    <3> QED
      BY <3>1
  <2>2. CASE mode = "split"
    <3>1. {3, 5} \subseteq DOMAIN Order[mode] /\ Order[mode][3] = "open" /\ Order[mode][5] = "close"
      BY <2>2 DEF Order
    <3> QED
      BY <3>1
  <2>3. CASE mode = "psu"
    <3>1. {4, 6} \subseteq DOMAIN Order[mode] /\ Order[mode][4] = "open" /\ Order[mode][6] = "close"
      BY <2>3 DEF Order
    <3> QED
      BY <3>1
  <2>4. CASE mode = "psu_whole"
    <3>1. {1, 8} \subseteq DOMAIN Order[mode] /\ Order[mode][1] = "open" /\ Order[mode][8] = "close"
      BY <2>4 DEF Order
    <3> QED
      BY <3>1
  <2>5. CASE mode = "dvd"
    <3>1. {3, 5} \subseteq DOMAIN Order[mode] /\ Order[mode][3] = "open" /\ Order[mode][5] = "close"
      BY <2>5 DEF Order
    <3> QED
      BY <3>1
  <2>6. CASE mode = "dvd_whole"
    <3>1. {2, 7} \subseteq DOMAIN Order[mode] /\ Order[mode][2] = "open" /\ Order[mode][7] = "close"
      BY <2>6 DEF Order
    <3> QED
      BY <3>1
  <2> QED
    BY <2>1, <2>2, <2>3, <2>4, <2>5, <2>6, ModeNames
<1> QED
  BY <1>1, <1>2, WhereFacts

LEMMA SameWhere ==
    ASSUME UNCHANGED mode, NEW call
    PROVE  Where(call)' = Where(call)
BY DEF Where

\* A file is opened where none is open and closed where one is, and it is open in the loop;
\* no other call, and no way through the loops of a mode, leaves or enters that region.
LEMMA WritingChanges ==
    ASSUME InOrder, [ModesNext]_modevars
    PROVE  /\ UNCHANGED choice
           /\ OpenOutput => ~Writing /\ Writing'
           /\ CloseOutput => Writing /\ ~Writing'
           /\ At("loop") => Writing
           /\ OpenOutput \/ CloseOutput \/ (Writing' <=> Writing)
<1>0. /\ mode \in DOMAIN Order /\ step \in Nat
  BY OrderFacts, ModesAssumption DEF InOrder
<1>1. UNCHANGED choice
  BY DEF ModesNext, ModesStep, StartCore, ImportUnit, OpenOutput, LeaveLoop, LastFrame, SkipFrame,
     ExportFrame, Dispose, CloseOutput, NextUnit, FlushBuffer, NextChunk, NextPSU,
     NextChapter, StopCore, SignalComes, modevars
<1>2. Where("open")' = Where("open") /\ Where("close")' = Where("close") /\ Where("next")' = Where("next")
  BY <1>1, SameWhere DEF choice
<1>3. ASSUME OpenOutput PROVE ~Writing /\ Writing'
  <2>1. At("open") /\ step' = step + 1
    BY <1>3 DEF OpenOutput, Proceed
  <2> QED
    BY <1>0, <1>2, <2>1, StepIs, OpenToClose DEF Writing, Between
<1>4. ASSUME CloseOutput PROVE Writing /\ ~Writing'
  <2>1. At("close") /\ step' = step + 1
    BY <1>4 DEF CloseOutput, Proceed
  <2> QED
    BY <1>0, <1>2, <2>1, StepIs, OpenToClose DEF Writing, Between
<1>5. ASSUME At("loop") PROVE Writing
  BY <1>0, <1>5, StepIs, OpenToClose DEF Writing, Between
<1>6. ASSUME step' = step PROVE Writing' <=> Writing
  BY <1>2, <1>6 DEF Writing, Between
<1>7. ASSUME NEW call, At(call), call # "open", call # "close", step' = step + 1
      PROVE  Writing' <=> Writing
  <2>1. step # Where("open") /\ step # Where("close")
    BY <1>0, <1>7, OpenToClose DEF At
  <2> QED
    BY <1>0, <1>2, <1>7, <2>1, OpenToClose DEF Writing, Between
<1>8. ASSUME NextUnit PROVE Writing' <=> Writing
  <2>1. /\ At("unit") /\ (step' = step + 1 \/ step' = Where("next") + 1 \/ step' = step)
        /\ mode \in {"psu", "psu_whole"} /\ step = Where("unit")
    BY <1>8, ModesWith, StepIs DEF NextUnit, Proceed
  <2>2. ASSUME step' = Where("next") + 1 PROVE Writing' <=> Writing
    BY <1>0, <1>2, <2>1, <2>2, CallPlaces DEF Writing, Between
  <2> QED
    BY <1>6, <1>7, <2>1, <2>2
<1>9. ASSUME NextChunk \/ NextPSU \/ NextChapter PROVE Writing' <=> Writing
  <2>1. /\ At("next") /\ step = Where("next")
        /\ \/ step' = step + 1
           \/ mode = "split" /\ step' = Where("open")
           \/ mode \in {"psu", "psu_whole"} /\ step' = Where("unit")
           \/ mode \in {"dvd", "dvd_whole"} /\ step' = Where("import")
    BY <1>9, StepIs DEF NextChunk, NextPSU, NextChapter, Proceed, Jump, ChunkStart
  <2>2. ASSUME step' # step + 1 PROVE Writing' <=> Writing
    BY <1>0, <1>2, <2>1, <2>2, CallPlaces DEF Writing, Between
  <2> QED
    BY <1>7, <2>1, <2>2
<1>10. ASSUME \/ StartCore \/ ImportUnit \/ LeaveLoop \/ LastFrame \/ FlushBuffer \/ StopCore PROVE Writing' <=> Writing
  <2>1. \E call : At(call) /\ call # "open" /\ call # "close" /\ step' = step + 1
    BY <1>10 DEF StartCore, ImportUnit, LeaveLoop, LastFrame, FlushBuffer, StopCore, Proceed
  <2> QED
    BY <1>7, <2>1
<1>11. ASSUME SkipFrame \/ ExportFrame \/ SignalComes \/ UNCHANGED modevars PROVE Writing' <=> Writing
  BY <1>6, <1>11 DEF SkipFrame, ExportFrame, Dispose, SignalComes, modevars
<1> QED
  BY <1>1, <1>3, <1>4, <1>5, <1>8, <1>9, <1>10, <1>11 DEF ModesNext, ModesStep

\* What the actions do to the frames: nothing, but for five of them.
LEMMA FramesMove ==
    ASSUME [ModesNext]_modevars
    PROVE  \/ ImportUnit \/ OpenOutput \/ ExportFrame \/ CloseOutput
           \/ /\ UNCHANGED <<held, mplex, files, failed>>
              /\ \/ UNCHANGED buffer
                 \/ LastFrame
                 \/ FlushBuffer /\ buffer' = <<>>
                 \/ SkipFrame /\ buffer' = Tail(buffer)
BY DEF ModesNext, ModesStep, StartCore, LeaveLoop, LastFrame, SkipFrame,
   Dispose, NextUnit, FlushBuffer, NextChunk, NextPSU,
   NextChapter, StopCore, SignalComes, modevars, output, stream

-----------------------------------------------------------------------------
(* The types.                                                               *)

\* What the actions do to the other variables.
LEMMA Scalars ==
    ASSUME [ModesNext]_modevars
    PROVE  /\ status' \in {status, "RUNNING", "STOPPED", "INTERRUPTED"}
           /\ unit' = unit \/ (unit' = unit + 1 /\ (NextUnit \/ NextPSU \/ NextChapter))
           /\ frameA' \in {frameA, frameA + SplitFrames}
           /\ signal' \in {signal, TRUE}
           /\ ImportUnit \/ UNCHANGED count
           /\ failed' \in {failed, failed \cup {"encode"}, failed \cup {"multiplex"},
                           failed \cup {"flush"}}
<1>1. CASE StartCore \/ StopCore \/ SignalComes \/ UNCHANGED modevars
  BY <1>1 DEF StartCore, StopCore, SignalComes, modevars, session, stream
<1>2. CASE ImportUnit \/ OpenOutput \/ LeaveLoop \/ LastFrame \/ SkipFrame \/ FlushBuffer
  BY <1>2 DEF ImportUnit, OpenOutput, LeaveLoop, LastFrame, SkipFrame, Dispose, FlushBuffer,
     session, stream
<1>3. CASE ExportFrame
  BY <1>3 DEF ExportFrame, Dispose, Fails, session
<1>4. CASE CloseOutput
  BY <1>4 DEF CloseOutput, Fails, session, stream, output
<1>5. CASE NextUnit \/ NextChunk \/ NextPSU \/ NextChapter
  BY <1>5 DEF NextUnit, NextChunk, NextPSU, NextChapter, session, stream
<1> QED
  BY <1>1, <1>2, <1>3, <1>4, <1>5 DEF ModesNext, ModesStep

LEMMA UnitImported ==
    ASSUME InOrder, ModesTyped, UnitThere, At("import") \/ At("next")
    PROVE  unit \in 1 .. Len(units) /\ units[unit] \in Nat
<1>0. /\ mode \in DOMAIN Order /\ step \in Nat
  BY OrderFacts, ModesAssumption DEF InOrder
<1>1. units \in Seq(Nat) /\ unit \in Nat \ {0}
  BY ModesAssumption DEF ModesTyped
<1>2. Between("unit", "next") \/ mode \notin StartsAgain
  BY <1>0, StepIs, CallPlaces DEF Between, StartsAgain
<1>3. unit <= Len(units)
  BY <1>2 DEF UnitThere
<1> QED
  BY <1>1, <1>3

LEMMA TypesImport ==
    ASSUME InOrder, ModesTyped, UnitThere, ImportUnit
    PROVE  /\ buffer' \in Seq(BufferFrames) /\ count' \in Nat
           /\ buffer \in Seq(Fresh) => buffer' \in Seq(Fresh)
<1> DEFINE number == units[unit]
           new == [n \in 1 .. number + 1 |->
                     [unit |-> unit, id |-> count + n - 1, empty |-> n > number,
                      ends |-> n > number]]
<1>1. unit \in 1 .. Len(units) /\ number \in Nat /\ count \in Nat
  BY UnitImported DEF ModesTyped, ImportUnit
<1>2. buffer' = buffer \o new /\ count' = count + number
  BY DEF ImportUnit
<1>3. \A n \in 1 .. number + 1 : new[n] \in Fresh
  <2> TAKE n \in 1 .. number + 1
  <2>1. count + n - 1 \in Nat
    BY <1>1
  <2> QED
    BY <1>1, <2>1 DEF Fresh, BufferFrames
<1>4. number + 1 \in Nat /\ DOMAIN new = 1 .. number + 1
  BY <1>1
<1>5. new \in [1 .. number + 1 -> Fresh]
  BY <1>3, <1>4
<1> HIDE DEF new
<1>6. new \in Seq(Fresh)
  BY <1>4, <1>5, SeqDef
<1>7. Fresh \subseteq BufferFrames
  BY DEF Fresh
<1>8. new \in Seq(BufferFrames) /\ buffer \in Seq(BufferFrames)
  BY <1>6, <1>7, SeqMonotonic DEF ModesTyped
<1> QED
  BY <1>1, <1>2, <1>6, <1>8, ConcatProperties

\* The buffer: the frames of a unit get into it at once, leave from its head, and its last
\* one changes when the loop ends.
LEMMA TypesBuffer ==
    ASSUME InOrder, ModesTyped, UnitThere, [ModesNext]_modevars
    PROVE  /\ buffer' \in Seq(BufferFrames)
           /\ SkipFrame \/ ExportFrame => /\ Head(buffer) \in BufferFrames /\ At("loop")
                                         /\ buffer # <<>> /\ buffer' = Tail(buffer)
                                         /\ ~Head(buffer).ends
<1>1. buffer \in Seq(BufferFrames)
  BY DEF ModesTyped
<1>2. CASE SkipFrame \/ ExportFrame
  <2>1. At("loop") /\ buffer # <<>> /\ buffer' = Tail(buffer) /\ ~Head(buffer).ends
    BY <1>2 DEF SkipFrame, ExportFrame, Dispose, NeedStop, IsLast, First
  <2> QED
    BY <1>1, <2>1, HeadTailProperties
<1>3. ASSUME LastFrame PROVE buffer' \in Seq(BufferFrames)
  <2>1. buffer # <<>> /\ buffer' = [buffer EXCEPT ![1].ends = FALSE]
    BY <1>3 DEF LastFrame, NeedStop
  <2>2. Len(buffer) \in Nat \ {0} /\ 1 \in 1 .. Len(buffer)
    BY <1>1, <2>1, EmptySeq
  <2>3. buffer[1] \in BufferFrames
    BY <1>1, <2>2, ElementOfSeq
  <2> DEFINE e == [buffer[1] EXCEPT !.ends = FALSE]
  <2>4. e \in BufferFrames
    BY <2>3 DEF BufferFrames
  <2>5. buffer' = [buffer EXCEPT ![1] = e]
    BY <2>1
  <2> HIDE DEF e
  <2> QED
    BY <1>1, <2>2, <2>4, <2>5, ExceptSeq
<1>4. ASSUME FlushBuffer PROVE buffer' \in Seq(BufferFrames)
  BY <1>4, EmptySeq DEF FlushBuffer
<1>5. ASSUME ImportUnit PROVE buffer' \in Seq(BufferFrames)
  BY <1>5, TypesImport
<1>6. ASSUME OpenOutput \/ CloseOutput PROVE UNCHANGED buffer
  BY <1>6 DEF OpenOutput, CloseOutput, stream
<1>7. SkipFrame \/ ExportFrame \/ buffer' \in Seq(BufferFrames)
  BY <1>1, <1>3, <1>4, <1>5, <1>6, FramesMove
<1> QED
  BY <1>2, <1>7, <1>1, HeadTailProperties

\* A file is open whenever the encoder loop or tc_encoder_close needs it.
LEMMA FileThere ==
    ASSUME InOrder, ModesTyped, ExportFrame \/ CloseOutput
    PROVE  mplex \in 1 .. Len(files) /\ files[mplex] \in Seq(Frames)
<1>1. Writing
  BY WritingChanges DEF ModesNext, ModesStep, ExportFrame, Dispose
<1>2. Len(files) \in Nat
  BY LenProperties DEF ModesTyped
<1>3. mplex \in 1 .. Len(files)
  BY <1>1, <1>2 DEF ModesTyped
<1> QED
  BY <1>3, ElementOfSeq DEF ModesTyped

\* What leaves the encoder goes behind what the open file has, and is of the kind of the
\* frames the encoder held and of the one it was given.
LEMMA Exported ==
    ASSUME InOrder, ModesTyped, UnitThere, Flushed, ExportFrame,
           NEW S \in {Frames, Fitting}, held \in Seq(S)
    PROVE  /\ held' \in Seq(S)
           /\ \E back \in Seq(S) : files' = [files EXCEPT ![mplex] = @ \o back]
<1> DEFINE frame == [unit |-> First.unit, id |-> First.id, empty |-> First.empty, file |-> mplex]
           taken == Append(held, frame)
           out == IF Len(taken) > lag THEN <<Head(taken)>> ELSE <<>>
<1>0. mode \in DOMAIN Order /\ step \in Nat
  BY OrderFacts, ModesAssumption DEF InOrder
<1>1. /\ First \in BufferFrames /\ At("loop") /\ buffer # <<>> /\ ~First.ends
  BY TypesBuffer DEF First, ModesNext, ModesStep
<1>2. mplex \in 1 .. Len(files) /\ files[mplex] \in Seq(Frames)
  BY FileThere
<1>3. frame \in Frames
  BY <1>1, <1>2 DEF Frames, BufferFrames
<1>4. frame \in Fitting
  <2>1. ASSUME mode # "split" PROVE First.unit = unit /\ ~First.empty
    <3>1. buffer \in Seq(Fresh)
      BY <1>0, <1>1, <2>1, StepIs DEF Flushed
    <3>2. First \in Fresh
      BY <1>1, <3>1, HeadTailProperties DEF First
    <3> QED
      BY <1>1, <3>2 DEF Fresh
  <2> QED
    BY <1>3, <2>1 DEF Fitting
<1>5. frame \in S
  BY <1>3, <1>4
<1>6. held' \in {taken, Tail(taken)} \/ UNCHANGED held
  BY DEF ExportFrame, Dispose
<1>7. files' = [files EXCEPT ![mplex] = @ \o out] \/ UNCHANGED files
  BY DEF ExportFrame, Dispose
<1> HIDE DEF frame
<1>8. taken \in Seq(S) /\ taken # <<>>
  BY <1>5, AppendProperties
<1> HIDE DEF taken
<1>9. held' \in Seq(S)
  BY <1>6, <1>8, HeadTailProperties
<1>10. out \in Seq(S) /\ <<>> \in Seq(S)
  <2>1. Head(taken) \in S
    BY <1>8, HeadTailProperties
  <2> QED
    BY <2>1
<1> HIDE DEF out
<1>11. ASSUME UNCHANGED files PROVE files' = [files EXCEPT ![mplex] = @ \o <<>>]
  BY <1>2, <1>11, ConcatEmptySeq, LenProperties DEF ModesTyped
<1> QED
  BY <1>7, <1>9, <1>10, <1>11

LEMMA Closed ==
    ASSUME InOrder, ModesTyped, CloseOutput, NEW S \in {Frames, Fitting}, held \in Seq(S)
    PROVE  /\ held' \in Seq(S) /\ mplex' \in {mplex, 0}
           /\ held' = <<>> \/ "flush" \in failed'
           /\ \E back \in Seq(S) : files' = [files EXCEPT ![mplex] = @ \o back]
<1>1. <<>> \in Seq(S)
  OBVIOUS
<1>2. held # <<>> => Tail(held) \in Seq(S)
  BY HeadTailProperties
<1>3. CASE Fails("flush") /\ UNCHANGED output
  <2>1. files' = [files EXCEPT ![mplex] = @ \o <<>>]
    BY <1>3, FileThere, ConcatEmptySeq, LenProperties DEF ModesTyped, output
  <2> QED
    BY <1>1, <1>3, <2>1 DEF Fails, output
<1>4. CASE ~(Fails("flush") /\ UNCHANGED output)
  <2>1. /\ held' = <<>> /\ mplex' = 0
        /\ \/ files' = [files EXCEPT ![mplex] = @ \o held]
           \/ held # <<>> /\ files' = [files EXCEPT ![mplex] = @ \o Tail(held)]
    BY <1>4 DEF CloseOutput
  <2> QED
    BY <1>1, <1>2, <2>1
<1> QED
  BY <1>3, <1>4

\* Appending to the open file.
LEMMA FileGrows ==
    ASSUME ModesTyped, mplex \in 1 .. Len(files), files[mplex] \in Seq(Frames),
           NEW back \in Seq(Frames), files' = [files EXCEPT ![mplex] = @ \o back],
           UNCHANGED units
    PROVE  /\ files' \in Seq(Seq(Frames)) /\ Len(files') = Len(files) /\ Frames' = Frames
           /\ \A k \in 1 .. Len(files) :
                 files'[k] = IF k = mplex THEN files[mplex] \o back ELSE files[k]
<1> DEFINE e == files[mplex] \o back
<1>1. e \in Seq(Frames)
  BY ConcatProperties
<1>2. files' = [files EXCEPT ![mplex] = e]
  OBVIOUS
<1> HIDE DEF e
<1>3. /\ files' \in Seq(Seq(Frames)) /\ Len(files') = Len(files)
      /\ \A k \in 1 .. Len(files) : files'[k] = IF k = mplex THEN e ELSE files[k]
  <2> DEFINE Z == Seq(Frames)
  <2>1. files \in Seq(Z) /\ e \in Z
    BY <1>1 DEF ModesTyped
  <2> HIDE DEF Z
  <2>2. /\ files' \in Seq(Z) /\ Len(files') = Len(files)
        /\ \A k \in 1 .. Len(files) : files'[k] = IF k = mplex THEN e ELSE files[k]
    <3> HIDE DEF ModesTyped
    <3>1. mplex \in 1 .. Len(files)
      OBVIOUS
    <3>2. /\ [files EXCEPT ![mplex] = e] \in Seq(Z)
          /\ Len([files EXCEPT ![mplex] = e]) = Len(files)
          /\ \A k \in 1 .. Len(files) :
                [files EXCEPT ![mplex] = e][k] = IF k = mplex THEN e ELSE files[k]
      BY ONLY <2>1, <3>1, ExceptSeq
    <3> QED
      BY ONLY <1>2, <3>2
  <2> QED
    BY <2>2 DEF Z
<1>4. Frames' = Frames
  BY <1>3 DEF Frames
<1> QED
  BY <1>3, <1>4 DEF e

\* Opening a new one.
LEMMA FileOpens ==
    ASSUME ModesTyped, OpenOutput
    PROVE  /\ files' \in Seq(Seq(Frames)) /\ Len(files') = Len(files) + 1
           /\ Frames \subseteq Frames' /\ mplex' = Len(files) + 1 /\ Len(files) \in Nat
           /\ \A k \in 1 .. Len(files) : files'[k] = files[k]
           /\ files'[mplex'] = <<>>
<1>1. files' = Append(files, <<>>) /\ mplex' = Len(files) + 1 /\ UNCHANGED units
  BY DEF OpenOutput, choice
<1>2. <<>> \in Seq(Frames) /\ files \in Seq(Seq(Frames)) /\ Len(files) \in Nat
  BY LenProperties DEF ModesTyped
<1>3. /\ files' \in Seq(Seq(Frames)) /\ Len(files') = Len(files) + 1
      /\ \A k \in 1 .. Len(files) : files'[k] = files[k]
      /\ files'[Len(files) + 1] = <<>>
  BY <1>1, <1>2, AppendProperties
<1>4. Frames \subseteq Frames'
  BY <1>1, <1>2, <1>3 DEF Frames
<1> QED
  BY <1>1, <1>2, <1>3, <1>4

LEMMA SeqSeqGrows ==
    ASSUME NEW S, NEW T, S \subseteq T, NEW s \in Seq(Seq(S))
    PROVE  s \in Seq(Seq(T))
<1>1. Seq(S) \subseteq Seq(T)
  BY SeqMonotonic
<1> QED
  BY <1>1, SeqMonotonic

LEMMA TypesNext ==
    ASSUME InOrder, ModesTyped, UnitThere, Flushed, [ModesNext]_modevars
    PROVE  ModesTyped'
<1>1. /\ units' \in Units /\ lag' \in 0 .. MaxLag /\ UNCHANGED choice
  BY WritingChanges DEF ModesTyped, choice
<1>2. /\ status' \in {"RUNNING", "STOPPED", "INTERRUPTED"}
      /\ unit' \in Nat \ {0} /\ frameA' \in Nat /\ signal' \in BOOLEAN
      /\ failed' \subseteq {"encode", "multiplex", "flush"}
  <2>0. SplitFrames \in Nat
    BY ModesAssumption
  <2>1. frameA' \in Nat
    <3>1. frameA \in Nat /\ frameA' \in {frameA, frameA + SplitFrames}
      BY Scalars DEF ModesTyped
    <3> QED
      BY <2>0, <3>1
  <2>4. unit' \in Nat \ {0}
    <3>1. unit \in Nat \ {0} /\ (unit' = unit \/ unit' = unit + 1)
      BY Scalars DEF ModesTyped
    <3> QED
      BY <3>1
  <2>2. status' \in {"RUNNING", "STOPPED", "INTERRUPTED"} /\ signal' \in BOOLEAN
    BY Scalars DEF ModesTyped
  <2>3. failed' \subseteq {"encode", "multiplex", "flush"}
    BY Scalars DEF ModesTyped
  <2> QED
    BY <2>1, <2>2, <2>3, <2>4
<1>3. count' \in Nat
  BY Scalars, TypesImport DEF ModesTyped
<1>4. buffer' \in Seq(BufferFrames')
  BY <1>1, TypesBuffer DEF BufferFrames, choice
<1>5. /\ held' \in Seq(Frames') /\ files' \in Seq(Seq(Frames'))
      /\ mplex' \in 0 .. Len(files')
      /\ Writing' => mplex' # 0
  <2>0. held \in Seq(Frames) /\ files \in Seq(Seq(Frames)) /\ Len(files) \in Nat
    BY LenProperties DEF ModesTyped
  <2>1. CASE ExportFrame \/ CloseOutput
    <3>1. mplex \in 1 .. Len(files) /\ files[mplex] \in Seq(Frames)
      BY <2>1, FileThere
    <3>2. /\ held' \in Seq(Frames) /\ mplex' \in {mplex, 0}
          /\ ~CloseOutput => mplex' = mplex
          /\ \E back \in Seq(Frames) : files' = [files EXCEPT ![mplex] = @ \o back]
      BY <2>0, <2>1, Exported, Closed DEF ExportFrame, Dispose
    <3>3. Frames' = Frames /\ files' \in Seq(Seq(Frames)) /\ Len(files') = Len(files)
      BY <1>1, <3>1, <3>2, FileGrows DEF choice
    <3> QED
      BY <2>0, <3>1, <3>2, <3>3, WritingChanges
  <2>2. CASE OpenOutput
    <3>1. held' = held
      BY <2>2 DEF OpenOutput
    <3> QED
      BY <2>0, <2>2, <3>1, FileOpens, SeqMonotonic, SeqSeqGrows
  <2>3. CASE ~ExportFrame /\ ~CloseOutput /\ ~OpenOutput
    <3>1. UNCHANGED <<held, mplex, files>>
      BY <2>3, FramesMove DEF ImportUnit, output
    <3>2. Writing' <=> Writing
      BY <2>3, WritingChanges
    <3> QED
      BY <1>1, <3>1, <3>2 DEF ModesTyped, Frames, choice
  <2> QED
    BY <2>1, <2>2, <2>3
<1> QED
  BY <1>1, <1>2, <1>3, <1>4, <1>5 DEF ModesTyped

-----------------------------------------------------------------------------
(* The steps through the units.                                             *)

\* The ends of the loops, and the steps from one call to the next.
Looping == NextUnit \/ NextChunk \/ NextPSU \/ NextChapter

LEMMA Advances ==
    ASSUME [ModesNext]_modevars, ~Looping
    PROVE  /\ unit' = unit
           /\ \/ ImportUnit \/ FlushBuffer \/ step' = step
              \/ \E call \in {"start", "open", "loop", "close", "stop"} : At(call) /\ step' = step + 1
<1>1. unit' = unit
  BY Scalars DEF Looping
<1>2. CASE SkipFrame \/ ExportFrame \/ SignalComes \/ UNCHANGED modevars
  BY <1>1, <1>2 DEF SkipFrame, ExportFrame, Dispose, SignalComes, modevars
<1>3. CASE StartCore \/ OpenOutput \/ LeaveLoop \/ LastFrame \/ CloseOutput \/ StopCore
  BY <1>1, <1>3 DEF StartCore, OpenOutput, LeaveLoop, LastFrame, CloseOutput, StopCore, Proceed
<1> QED
  BY <1>1, <1>2, <1>3 DEF ModesNext, ModesStep, Looping

LEMMA Loops ==
    ASSUME InOrder
    PROVE  /\ NextUnit => /\ step = Where("unit") /\ mode \in StartsAgain
                          /\ \/ /\ unit' = unit /\ step' = step + 1 /\ ~(unit > Len(units))
                             \/ unit' \in {unit, unit + 1} /\ step' = Where("next") + 1
                             \/ unit' = unit + 1 /\ step' = step
                          /\ unit' # unit => ~(unit > Len(units))
           /\ NextChunk => mode = "split" /\ unit' = unit
           /\ NextPSU => /\ step = Where("next") /\ mode \in StartsAgain /\ unit' = unit + 1
                         /\ step' \in {step + 1, Where("unit")}
           /\ NextChapter => /\ step = Where("next") /\ mode \in {"dvd", "dvd_whole"}
                             /\ step' \in {step + 1, Where("import")}
                             /\ unit' = unit \/ (unit' = unit + 1 /\ unit # Len(units))
           /\ Looping => UNCHANGED <<buffer, units, mode>>
<1>1. ASSUME NextUnit
      PROVE  /\ step = Where("unit") /\ mode \in StartsAgain
             /\ \/ /\ unit' = unit /\ step' = step + 1 /\ ~(unit > Len(units))
                \/ unit' \in {unit, unit + 1} /\ step' = Where("next") + 1
                \/ unit' = unit + 1 /\ step' = step
             /\ unit' # unit => ~(unit > Len(units))
  <2>1. At("unit")
    BY <1>1 DEF NextUnit
  <2>2. step = Where("unit") /\ mode \in StartsAgain
    BY <2>1, StepIs, ModesWith DEF StartsAgain
  <2> QED
    BY <1>1, <2>2 DEF NextUnit, Proceed, session
<1>2. ASSUME NextPSU
      PROVE  /\ step = Where("next") /\ mode \in StartsAgain /\ unit' = unit + 1
             /\ step' \in {step + 1, Where("unit")}
  BY <1>2, StepIs DEF NextPSU, Proceed, Jump, StartsAgain
<1>3. ASSUME NextChapter
      PROVE  /\ step = Where("next") /\ mode \in {"dvd", "dvd_whole"}
             /\ step' \in {step + 1, Where("import")}
             /\ unit' = unit \/ (unit' = unit + 1 /\ unit # Len(units))
  BY <1>3, StepIs DEF NextChapter, Proceed, Jump
<1>4. NextChunk => mode = "split" /\ unit' = unit
  BY DEF NextChunk
<1>5. Looping => UNCHANGED <<buffer, units, mode>>
  BY DEF Looping, NextUnit, NextChunk, NextPSU, NextChapter, stream, choice
<1> QED
  BY <1>1, <1>2, <1>3, <1>4, <1>5

LEMMA UnitNext ==
    ASSUME InOrder, ModesTyped, UnitThere, [ModesNext]_modevars
    PROVE  UnitThere'
<1>0. /\ mode \in DOMAIN Order /\ step \in Nat /\ unit \in Nat /\ Len(units) \in Nat
      /\ UNCHANGED choice
  <2>1. units \in Seq(Nat)
    BY ModesAssumption DEF ModesTyped
  <2> QED
    BY <2>1, OrderFacts, ModesAssumption, WritingChanges, LenProperties DEF InOrder, ModesTyped
<1>1. /\ mode' = mode /\ units' = units
      /\ Where("unit")' = Where("unit") /\ Where("next")' = Where("next")
  BY <1>0, SameWhere DEF choice
<1>2. /\ mode \in StartsAgain => Where("unit") \in Nat /\ Where("next") \in Nat
      /\ mode \in StartsAgain => Where("unit") < Where("next")
  BY <1>0, CallPlaces DEF StartsAgain
<1>3. CASE NextUnit
  <2>1. /\ step = Where("unit") /\ mode \in StartsAgain
        /\ \/ /\ unit' = unit /\ step' = step + 1 /\ ~(unit > Len(units))
           \/ unit' \in {unit, unit + 1} /\ step' = Where("next") + 1
           \/ unit' = unit + 1 /\ step' = step
        /\ unit' # unit => ~(unit > Len(units))
    BY <1>3, Loops
  <2> QED
    BY <1>0, <1>1, <1>2, <2>1 DEF UnitThere, Between
<1>4. CASE NextPSU
  <2>1. /\ step = Where("next") /\ mode \in StartsAgain /\ unit' = unit + 1
        /\ step' \in {step + 1, Where("unit")}
    BY <1>4, Loops
  <2> QED
    BY <1>0, <1>1, <1>2, <2>1 DEF UnitThere, Between
<1>5. CASE NextChapter
  <2>1. /\ mode \notin StartsAgain
        /\ unit' = unit \/ (unit' = unit + 1 /\ unit # Len(units))
    BY <1>5, Loops DEF StartsAgain
  <2> QED
    BY <1>0, <1>1, <2>1 DEF UnitThere
<1>6. CASE NextChunk
  <2>1. mode \notin StartsAgain /\ unit' = unit
    BY <1>6, Loops DEF StartsAgain
  <2> QED
    BY <1>0, <1>1, <2>1 DEF UnitThere
<1>7. CASE ~Looping
  <2>1. unit' = unit
    BY <1>7, Advances
  <2>2. ASSUME mode \in StartsAgain, Between("unit", "next")' PROVE Between("unit", "next")
    <3>1. step' = step \/ (step' = step + 1 /\ \E call : call # "unit" /\ At(call))
      BY <1>7, Advances DEF ImportUnit, FlushBuffer, Proceed
    <3>2. Order[mode][Where("unit")] = "unit"
      BY <2>2, JumpFacts, WhereFacts DEF StartsAgain
    <3>3. step' = step + 1 => step # Where("unit")
      BY <1>0, <3>1, <3>2 DEF At
    <3> QED
      BY <1>0, <1>1, <1>2, <2>2, <3>1, <3>3 DEF Between
  <2> QED
    BY <1>0, <1>1, <2>1, <2>2 DEF UnitThere
<1> QED
  BY <1>3, <1>4, <1>5, <1>6, <1>7 DEF Looping

\* The buffer holds one unit at a time: it is empty when the next one is imported.
LEMMA FlushedNext ==
    ASSUME InOrder, ModesTyped, UnitThere, Flushed, [ModesNext]_modevars
    PROVE  Flushed'
<1> SUFFICES ASSUME mode # "split" PROVE Flushed'
  BY WritingChanges DEF Flushed, choice
<1> DEFINE Before == step <= Where("import")
           Behind == mode # "default" /\ step > Where("flush")
           Inside == step <= Where("loop")
<1>0. /\ mode \in DOMAIN Order /\ step \in Nat /\ UNCHANGED choice /\ mode' = mode
  BY OrderFacts, ModesAssumption, WritingChanges DEF InOrder, choice
<1>1. /\ Where("import")' = Where("import") /\ Where("flush")' = Where("flush")
      /\ Where("loop")' = Where("loop")
  BY <1>0, SameWhere
<1>2. /\ Where("import") \in Nat /\ Where("loop") \in Nat /\ Where("import") < Where("loop")
      /\ mode # "default" => Where("flush") \in Nat /\ Where("loop") < Where("flush")
  BY <1>0, CallPlaces, ModeNames
<1>3. /\ Before \/ Behind => buffer = <<>>
      /\ Inside => buffer \in Seq(Fresh)
  BY DEF Flushed
<1>4. ASSUME buffer' = <<>> PROVE Flushed'
  <2>1. <<>> \in Seq(Fresh')
    OBVIOUS
  <2> QED
    BY <1>4, <2>1 DEF Flushed
<1>5. ASSUME unit' = unit PROVE Fresh' = Fresh
  BY <1>0, <1>5 DEF Fresh, BufferFrames, choice
<1>6. CASE Looping
  <2>1. buffer = <<>> /\ buffer' = buffer
    <3>1. NextUnit => Before
      BY <1>0, Loops, CallPlaces DEF StartsAgain
    <3>2. NextPSU \/ NextChapter => Behind
      BY <1>0, Loops, CallPlaces DEF StartsAgain
    <3> QED
      BY <1>3, <1>6, <3>1, <3>2, Loops DEF Looping
  <2> QED
    BY <1>4, <2>1
<1>7. CASE ImportUnit
  <2>1. At("import") /\ step' = step + 1 /\ unit' = unit /\ step = Where("import")
    BY <1>7, StepIs DEF ImportUnit, Proceed, session
  <2>2. buffer \in Seq(Fresh) /\ buffer' \in Seq(Fresh)
    BY <1>0, <1>2, <1>3, <1>7, <2>1, TypesImport
  <2>3. ~Before' /\ ~Behind'
    BY <1>0, <1>1, <1>2, <2>1
  <2> QED
    BY <1>5, <2>1, <2>2, <2>3 DEF Flushed
<1>8. CASE FlushBuffer
  BY <1>4, <1>8 DEF FlushBuffer
<1>9. CASE SkipFrame \/ ExportFrame
  <2>1. /\ At("loop") /\ buffer # <<>> /\ buffer' = Tail(buffer) /\ step' = step
        /\ unit' = unit /\ step = Where("loop")
    BY <1>9, TypesBuffer, StepIs DEF SkipFrame, ExportFrame, Dispose, session
  <2>2. buffer' \in Seq(Fresh)
    BY <1>0, <1>3, <2>1, HeadTailProperties
  <2>3. ~Before' /\ ~Behind'
    BY <1>0, <1>1, <1>2, <2>1
  <2> QED
    BY <1>5, <2>1, <2>2, <2>3 DEF Flushed
<1>10. CASE LastFrame
  <2>1. step' = step + 1 /\ step = Where("loop")
    BY <1>10, StepIs DEF LastFrame, Proceed
  <2>2. ~Before' /\ ~Behind' /\ ~Inside'
    BY <1>0, <1>1, <1>2, <2>1
  <2> QED
    BY <2>2 DEF Flushed
<1>11. CASE ~Looping /\ ~ImportUnit /\ ~FlushBuffer /\ ~SkipFrame /\ ~ExportFrame /\ ~LastFrame
  <2>1. buffer' = buffer /\ unit' = unit
    BY <1>11, FramesMove, Advances DEF OpenOutput, CloseOutput, stream
  <2>2. \/ step' = step
        \/ \E call : At(call) /\ call # "flush" /\ step' = step + 1
    BY <1>11, Advances
  <2>3. step' = step + 1 => ~At("flush")
    BY <1>0, <2>2 DEF At
  <2>4. mode # "default" => Order[mode][Where("flush")] = "flush"
    <3>1. ASSUME mode # "default" PROVE \E n \in DOMAIN Order[mode] : Order[mode][n] = "flush"
      <4>1. /\ Order["psu"][7] = "flush" /\ 7 \in DOMAIN Order["psu"]
            /\ Order["psu_whole"][6] = "flush" /\ 6 \in DOMAIN Order["psu_whole"]
        BY DEF Order
      <4>2. /\ Order["dvd"][6] = "flush" /\ 6 \in DOMAIN Order["dvd"]
            /\ Order["dvd_whole"][5] = "flush" /\ 5 \in DOMAIN Order["dvd_whole"]
        BY DEF Order
      <4> QED
        BY <1>0, <3>1, <4>1, <4>2, ModeNames
    <3> QED
      BY <3>1, WhereFacts
  <2>5. (Before' => Before) /\ (Behind' => Behind) /\ (Inside' => Inside)
    BY <1>0, <1>1, <1>2, <2>2, <2>3, <2>4 DEF At
  <2> QED
    BY <1>3, <1>5, <2>1, <2>5 DEF Flushed
<1> QED
  BY <1>6, <1>7, <1>8, <1>9, <1>10, <1>11

-----------------------------------------------------------------------------
(* Each frame gets into its file.                                           *)

\* Files stay apart when what is in the open one fits, and the others are as before.
LEMMA FilesKept ==
    ASSUME FilesApart, ModesTyped, UNCHANGED mode, "flush" \notin failed,
           NEW open \in Nat, DOMAIN files' \subseteq DOMAIN files \cup {open},
           \A k \in DOMAIN files' : k # open => k \in DOMAIN files /\ files'[k] = files[k],
           open \in DOMAIN files' =>
              \A n \in DOMAIN files'[open] :
                 /\ files'[open][n].file = open
                 /\ mode # "split" => ~files'[open][n].empty
                 /\ mode \in {"psu", "dvd"} => files'[open][n].unit = unit
    PROVE  FilesApart'
<1>1. OwnFile'
  <2> SUFFICES ASSUME NEW k \in DOMAIN files', NEW n \in DOMAIN files'[k]
               PROVE  files'[k][n].file = k
    BY DEF OwnFile
  <2>1. CASE k = open
    BY <2>1
  <2>2. CASE k # open
    BY <2>2 DEF FilesApart, OwnFile
  <2> QED
    BY <2>1, <2>2
<1>2. UnitsApart'
  <2> SUFFICES ASSUME mode # "split", NEW k \in DOMAIN files', NEW n \in DOMAIN files'[k],
                      NEW m \in DOMAIN files'[k]
               PROVE  /\ ~files'[k][n].empty
                      /\ mode \in {"psu", "dvd"} => files'[k][n].unit = files'[k][m].unit
    BY DEF UnitsApart
  <2>1. CASE k = open
    BY <2>1
  <2>2. CASE k # open
    BY <2>2 DEF FilesApart, UnitsApart
  <2> QED
    BY <2>1, <2>2
<1> QED
  BY <1>1, <1>2 DEF FilesApart

\* The invariant after an export or a close: what fitted before still does.
LEMMA HeldDelivered ==
    ASSUME InOrder, ModesTyped, UnitThere, Flushed, HeldFits, FilesApart,
           ExportFrame \/ CloseOutput, "flush" \notin failed'
    PROVE  HeldFits' /\ FilesApart'
<1>0. /\ "flush" \notin failed /\ UNCHANGED choice /\ unit' = unit /\ mode' = mode
      /\ ExportFrame => mplex' = mplex
  BY DEF ExportFrame, CloseOutput, Dispose, Fails, choice, session
<1>1. /\ Writing /\ (CloseOutput => ~Writing') /\ (ExportFrame => Writing')
  <2>1. ExportFrame => At("loop") /\ ~OpenOutput /\ ~CloseOutput
    BY DEF ExportFrame, Dispose, OpenOutput, CloseOutput, At
  <2> QED
    BY <2>1, WritingChanges DEF ModesNext, ModesStep
<1>2. mplex \in 1 .. Len(files) /\ files[mplex] \in Seq(Frames)
  BY FileThere
<1>3. held \in Seq(Fitting) /\ files[mplex] \in Seq(Fitting)
  BY <1>0, <1>1 DEF HeldFits
<1>4. /\ held' \in Seq(Fitting)
      /\ CloseOutput => held' = <<>>
  BY <1>0, <1>3, Exported, Closed
<1>5. PICK back \in Seq(Fitting) : files' = [files EXCEPT ![mplex] = @ \o back]
  BY <1>3, Exported, Closed
<1>6. Fitting \subseteq Frames /\ back \in Seq(Frames)
  BY SeqMonotonic DEF Fitting
<1>7. /\ Len(files') = Len(files) /\ Frames' = Frames
      /\ files' \in Seq(Seq(Frames)) /\ files \in Seq(Seq(Frames))
      /\ files'[mplex] = files[mplex] \o back
      /\ \A k \in 1 .. Len(files) : k # mplex => files'[k] = files[k]
  BY <1>0, <1>2, <1>5, <1>6, FileGrows DEF choice, ModesTyped
<1>8. files'[mplex] \in Seq(Fitting)
  BY <1>3, <1>7, ConcatProperties
<1>9. DOMAIN files' = 1 .. Len(files) /\ DOMAIN files = 1 .. Len(files)
  BY <1>7, LenProperties
<1>10. \A n \in DOMAIN files'[mplex] : files'[mplex][n] \in Fitting
  BY <1>8
<1>11. FilesApart'
  <2>1. mplex \in Nat
    BY <1>2
  <2> QED
    BY <1>0, <1>7, <1>9, <1>10, <2>1, FilesKept DEF Fitting
<1>12. ASSUME ExportFrame PROVE Fitting' = Fitting
  BY <1>0, <1>7, <1>12 DEF Fitting
<1>13. CASE ExportFrame
  BY <1>0, <1>1, <1>4, <1>8, <1>11, <1>12, <1>13 DEF HeldFits
<1>14. CASE CloseOutput
  <2>1. <<>> \in Seq(Fitting')
    OBVIOUS
  <2> QED
    BY <1>1, <1>4, <1>11, <1>14, <2>1 DEF HeldFits
<1> QED
  BY <1>13, <1>14

LEMMA HeldOpens ==
    ASSUME InOrder, ModesTyped, HeldFits, FilesApart, OpenOutput, "flush" \notin failed'
    PROVE  HeldFits' /\ FilesApart'
<1>0. "flush" \notin failed /\ UNCHANGED <<choice, held>> /\ mode' = mode
  BY DEF OpenOutput, choice
<1>1. held = <<>> /\ Writing'
  BY <1>0, WritingChanges DEF HeldFits, ModesNext, ModesStep
<1>2. /\ files' \in Seq(Seq(Frames)) /\ Len(files') = Len(files) + 1
      /\ mplex' = Len(files) + 1 /\ Len(files) \in Nat
      /\ \A k \in 1 .. Len(files) : files'[k] = files[k]
      /\ files'[mplex'] = <<>>
  BY FileOpens
<1>3. /\ DOMAIN files' = 1 .. Len(files) + 1 /\ DOMAIN files = 1 .. Len(files)
  BY <1>2, LenProperties DEF ModesTyped
<1>4. <<>> \in Seq(Fitting') /\ DOMAIN <<>> = {}
  OBVIOUS
<1>5. HeldFits'
  BY <1>0, <1>1, <1>2, <1>4 DEF HeldFits
<1>6. FilesApart'
  <2> DEFINE open == Len(files) + 1
  <2>1. /\ open \in Nat /\ DOMAIN files' \subseteq DOMAIN files \cup {open}
        /\ \A k \in DOMAIN files' : k # open => k \in DOMAIN files /\ files'[k] = files[k]
        /\ DOMAIN files'[open] = {}
    BY <1>2, <1>3, <1>4
  <2> HIDE DEF open
  <2> QED
    BY <1>0, <2>1, FilesKept
<1> QED
  BY <1>5, <1>6

LEMMA HeldNext ==
    ASSUME InOrder, ModesTyped, UnitThere, Flushed, HeldFits, FilesApart, [ModesNext]_modevars
    PROVE  HeldFits' /\ FilesApart'
<1>1. CASE "flush" \in failed'
  BY <1>1 DEF HeldFits, FilesApart, OwnFile, UnitsApart
<1>2. CASE "flush" \notin failed' /\ (ExportFrame \/ CloseOutput)
  BY <1>2, HeldDelivered
<1>3. CASE "flush" \notin failed' /\ OpenOutput
  BY <1>3, HeldOpens
<1>4. CASE "flush" \notin failed' /\ ~ExportFrame /\ ~CloseOutput /\ ~OpenOutput
  <2>1. /\ UNCHANGED <<held, mplex, files>> /\ (Writing' <=> Writing) /\ mode' = mode
        /\ units' = units
    BY <1>4, FramesMove, WritingChanges DEF ImportUnit, output, choice
  <2>2. "flush" \notin failed
    BY <1>4, Scalars
  <2>3. FilesApart'
    BY <2>1, <2>2 DEF FilesApart, OwnFile, UnitsApart
  <2>4. CASE unit' = unit \/ mode \notin {"psu", "dvd"}
    <3>1. Fitting' = Fitting
      BY <2>1, <2>4 DEF Fitting, Frames
    <3> QED
      BY <2>1, <2>2, <2>3, <3>1 DEF HeldFits
  <2>5. CASE unit' # unit /\ mode \in {"psu", "dvd"}
    <3>0. mode \in DOMAIN Order
      BY ModesAssumption DEF InOrder
    <3>1. ~Writing
      BY <2>5, <3>0, Advances, Loops, CallPlaces DEF Looping, StartsAgain, Writing, Between
    <3>2. <<>> \in Seq(Fitting')
      OBVIOUS
    <3> QED
      BY <2>1, <2>2, <2>3, <3>1, <3>2 DEF HeldFits
  <2> QED
    BY <2>4, <2>5
<1> QED
  BY <1>1, <1>2, <1>3, <1>4

LEMMA FilesInvNext == FilesInv /\ [ModesNext]_modevars => FilesInv'
BY InOrderNext, TypesNext, UnitNext, FlushedNext, HeldNext DEF FilesInv

LEMMA FilesInvInit == ModesInit => FilesInv
<1> SUFFICES ASSUME ModesInit PROVE FilesInv
  OBVIOUS
<1>0. InOrder /\ mode \in DOMAIN Order /\ step = 1
  BY InOrderInit, ModesAssumption DEF InOrder, ModesInit
<1>1. ~Writing
  BY <1>0, OpenToClose, CallPlaces, ModeNames DEF Writing, Between
<1>2. \A S : <<>> \in Seq(S)
  OBVIOUS
<1>3. Len(units) \in Nat \ {0} /\ units \in Units /\ Len(files) = 0 /\ files = <<>>
  BY ModesAssumption, EmptySeq DEF ModesInit
<1>4. FrameRange[1] \in Nat
  BY ModesAssumption
<1>5. ModesTyped
  <2>1. buffer \in Seq(BufferFrames) /\ held \in Seq(Frames) /\ files \in Seq(Seq(Frames))
    BY <1>2 DEF ModesInit
  <2>2. mplex \in 0 .. Len(files) /\ (Writing => mplex # 0)
    BY <1>1, <1>3 DEF ModesInit
  <2>3. unit \in Nat \ {0} /\ frameA \in Nat /\ count \in Nat
    BY <1>4 DEF ModesInit
  <2> QED
    BY <2>1, <2>2, <2>3 DEF ModesInit, ModesTyped
<1>6. UnitThere
  BY <1>3 DEF UnitThere, ModesInit
<1>7. Flushed
  BY <1>2 DEF Flushed, ModesInit
<1>8. HeldFits /\ FilesApart
  BY <1>1, <1>2, <1>3 DEF HeldFits, FilesApart, OwnFile, UnitsApart, ModesInit
<1> QED
  BY <1>0, <1>5, <1>6, <1>7, <1>8 DEF FilesInv

\* Every frame goes to the file that was open when it was encoded, however many the encoder
\* holds back; a file of a program stream unit or of a chapter has frames of that unit only,
\* and the empty frame the encoder loop leaves in the buffer is not encoded with the next
\* unit.  For all inputs, ranges, chunk lengths and delays of the encoder, and whatever
\* modules fail, until the flush of an encoder does.
THEOREM FramesInTheirFiles == ModesSpec => []FilesApart
<1>1. FilesInv => FilesApart
  BY DEF FilesInv
<1> QED
  BY <1>1, FilesInvInit, FilesInvNext, PTL DEF ModesSpec

\* The multiplexor has a file whenever the encoder loop or tc_encoder_close needs one, the
\* units that are imported exist, and every frame carries the number of a file that was opened.
THEOREM ModesTypeCorrect == ModesSpec => []ModesTypeOK
<1>1. ASSUME FilesInv PROVE ModesTypeOK
  <2>0. InOrder /\ ModesTyped /\ UnitThere
    BY <1>1 DEF FilesInv
  <2>1. Len(units) \in Nat /\ Len(files) \in Nat
    <3>1. units \in Seq(Nat)
      BY <2>0, ModesAssumption DEF ModesTyped
    <3> QED
      BY <2>0, <3>1, LenProperties DEF ModesTyped
  <2>2. unit \in 1 .. Len(units) + 1
    BY <2>0, <2>1 DEF ModesTyped, UnitThere
  <2>3. \A n \in DOMAIN buffer : buffer[n].unit \in 1 .. Len(units)
    <3>1. buffer \in Seq(BufferFrames)
      BY <2>0 DEF ModesTyped
    <3>2. \A n \in DOMAIN buffer : buffer[n] \in BufferFrames
      BY <3>1
    <3> QED
      BY <3>2 DEF BufferFrames
  <2>4. \A f \in Frames : IsFrame(f)
    BY DEF IsFrame, Frames
  <2>5. \A n \in DOMAIN held : IsFrame(held[n])
    BY <2>0, <2>4 DEF ModesTyped
  <2>6. \A k \in DOMAIN files : \A n \in DOMAIN files[k] : IsFrame(files[k][n])
    <3>1. \A k \in DOMAIN files : files[k] \in Seq(Frames)
      BY <2>0 DEF ModesTyped
    <3> QED
      BY <2>4, <3>1
  <2>7. Order[mode][step] \in {"loop", "close"} => mplex # 0
    <3>1. mode \in DOMAIN Order /\ step \in Nat
      BY <2>0, OrderFacts, ModesAssumption DEF InOrder
    <3>2. At("loop") \/ At("close") => Writing
      BY <2>0, <3>1, StepIs, OpenToClose DEF Writing, Between
    <3> QED
      BY <2>0, <3>2 DEF At, ModesTyped
  <2> QED
    BY <2>0, <2>2, <2>3, <2>5, <2>6, <2>7 DEF ModesTypeOK, ModesTyped, InOrder
<1> QED
  BY <1>1, FilesInvInit, FilesInvNext, PTL DEF ModesSpec

-----------------------------------------------------------------------------
(***************************************************************************)
(* The module system for any number of slots, plugins and modules: the     *)
(* counts are those of what is there, a plugin stays while it is used and  *)
(* is never loaded twice.                                                  *)
(***************************************************************************)

\* No two loaded plugins have one type: what FactorySafe says of modules, and
\* what the search of find_by_modtype keeps up.
TypesApart == \A s, u \in done : type[s] = type[u] => s = u

FactoryInv ==
    /\ FactoryTypeOK
    /\ CountsAreReferences
    /\ LoadedWhileUsed
    /\ TypesApart

\* The sets that are counted are finite.
LEMMA FactoryFinite ==
    ASSUME FactoryTypeOK
    PROVE  /\ IsFiniteSet(modules) /\ IsFiniteSet(done)
           /\ \A s : IsFiniteSet(Of(s))
           /\ \A s : Cardinality(Of(s)) \in Nat
<1>1. IsFiniteSet(modules)
  BY FactoryAssumption, FS_Subset DEF FactoryTypeOK
<1>2. IsFiniteSet(Slots)
  BY FactoryAssumption, FS_Interval, SMT DEF Slots
<1>3. IsFiniteSet(done)
  BY <1>2, FS_Subset DEF FactoryTypeOK
<1>4. ASSUME NEW s PROVE IsFiniteSet(Of(s)) /\ Cardinality(Of(s)) \in Nat
  <2>1. Of(s) \in SUBSET modules
    BY DEF Of
  <2> QED
    BY <1>1, <2>1, FS_Subset, FS_CardinalityType
<1> QED
  BY <1>1, <1>3, <1>4

\* A free slot has no modules.
LEMMA FreeUnused ==
    ASSUME FactoryInv, NEW s \in Slots \ done
    PROVE  Of(s) = {} /\ refs[s] = 0
<1>1. Of(s) = {}
  BY DEF FactoryInv, LoadedWhileUsed, Of
<1> QED
  BY <1>1, FS_EmptySet DEF FactoryInv, CountsAreReferences

\* A new module adds one to the count of its plugin and to that of the factory.
LEMMA MakeCounts ==
    ASSUME FactoryInv, NEW s \in Slots, NEW h \in Handles, h \notin modules,
           MakeModule(h, s, refs[s])
    PROVE  /\ \A u \in Slots : refs'[u] = Cardinality(Of(u)')
           /\ instances' = Cardinality(modules')
<1>1. Of(s)' = Of(s) \cup {h} /\ h \notin Of(s)
  BY DEF Of, MakeModule, FactoryInv, FactoryTypeOK
<1>2. Cardinality(Of(s)') = Cardinality(Of(s)) + 1
  BY <1>1, FactoryFinite, FS_AddElement DEF FactoryInv
<1>3. refs'[s] = Cardinality(Of(s)')
  BY <1>2 DEF MakeModule, FactoryInv, FactoryTypeOK, CountsAreReferences
<1>4. ASSUME NEW u \in Slots, u # s PROVE refs'[u] = Cardinality(Of(u)')
  <2>1. Of(u)' = Of(u)
    BY <1>4 DEF Of, MakeModule, FactoryInv, FactoryTypeOK
  <2> QED
    BY <1>4, <2>1 DEF MakeModule, FactoryInv, FactoryTypeOK, CountsAreReferences
<1>5. Cardinality(modules \cup {h}) = Cardinality(modules) + 1
  BY FactoryFinite, FS_AddElement DEF FactoryInv
<1>6. instances' = Cardinality(modules')
  BY <1>5 DEF MakeModule, FactoryInv, CountsAreReferences
<1> QED
  BY <1>3, <1>4, <1>6

\* Loading takes a slot that was free and a type that was not there.
LEMMA LoadCounts ==
    ASSUME FactoryInv, alive, NEW t \in Types, NEW s \in Slots, Known(t) = {},
           LoadPlugin(t, s)
    PROVE  /\ s \in Slots \ done
           /\ done' \subseteq Slots
           /\ type' \in [Slots -> Types]
           /\ plugins' \in Int
           /\ TypesApart'
           /\ plugins' = Cardinality(done')
<1>1. s \in Slots \ done
  BY DEF LoadPlugin, FirstFree
<1>2. done' = done \cup {s} /\ done' \subseteq Slots
  BY DEF LoadPlugin, FactoryInv, FactoryTypeOK
<1>3. type' \in [Slots -> Types] /\ plugins' \in Int
  BY DEF LoadPlugin, FactoryInv, FactoryTypeOK
<1>4. TypesApart'
  BY <1>1, <1>2 DEF LoadPlugin, TypesApart, Known, FactoryInv, FactoryTypeOK
<1>5. Cardinality(done \cup {s}) = Cardinality(done) + 1
  BY <1>1, FactoryFinite, FS_AddElement DEF FactoryInv
<1>6. plugins' = Cardinality(done')
  BY <1>2, <1>5 DEF LoadPlugin, FactoryInv, CountsAreReferences
<1> QED
  BY <1>1, <1>2, <1>3, <1>4, <1>6

\* A module that goes takes one from both counts, and its plugin with it when it
\* was the only one.
LEMMA DelCounts ==
    ASSUME FactoryInv, NEW h \in Handles, DelModule(h), NEW s, s = klass[h]
    PROVE  /\ s \in done
           /\ \A u \in Slots : refs'[u] = Cardinality(Of(u)')
           /\ instances' = Cardinality(modules')
           /\ Unloads(s) => Of(s)' = {}
<1>1. s \in done /\ s \in Slots /\ h \in Of(s)
  BY DEF DelModule, FactoryInv, LoadedWhileUsed, FactoryTypeOK, Of
<1>2. Of(s)' = Of(s) \ {h}
  BY DEF Of, DelModule
<1>3. Cardinality(Of(s)') = Cardinality(Of(s)) - 1
  BY <1>1, <1>2, FactoryFinite, FS_RemoveElement DEF FactoryInv
<1>4. refs'[s] = refs[s] - 1
  BY <1>1 DEF DelModule, FactoryInv, FactoryTypeOK
<1>5. refs'[s] = Cardinality(Of(s)')
  BY <1>1, <1>3, <1>4 DEF FactoryInv, CountsAreReferences
<1>6. ASSUME NEW u \in Slots, u # s PROVE refs'[u] = Cardinality(Of(u)')
  <2>1. Of(u)' = Of(u)
    BY <1>6 DEF Of, DelModule
  <2> QED
    BY <1>6, <2>1 DEF DelModule, FactoryInv, FactoryTypeOK, CountsAreReferences
<1>7. Cardinality(modules \ {h}) = Cardinality(modules) - 1
  BY FactoryFinite, FS_RemoveElement DEF FactoryInv, DelModule
<1>8. instances' = Cardinality(modules')
  BY <1>7 DEF DelModule, FactoryInv, CountsAreReferences
<1>9. Unloads(s) => Of(s)' = {}
  <2>1. IsFiniteSet(Of(s)')
    BY <1>1, <1>2, FactoryFinite, FS_RemoveElement DEF FactoryInv
  <2>2. Unloads(s) => Cardinality(Of(s)') = 0
    BY <1>1, <1>3 DEF Unloads, FactoryInv, CountsAreReferences
  <2> QED
    BY <2>1, <2>2, FS_EmptySet
<1> QED
  BY <1>1, <1>5, <1>6, <1>8, <1>9

-----------------------------------------------------------------------------
LEMMA FactoryInitial == FactoryInit => FactoryInv
<1> SUFFICES ASSUME FactoryInit PROVE FactoryInv
  OBVIOUS
<1>1. FactoryTypeOK
  BY DEF FactoryInit, FactoryTypeOK
<1>2. \A s : Of(s) = {}
  BY DEF FactoryInit, Of
<1>3. CountsAreReferences
  BY <1>2, FS_EmptySet DEF FactoryInit, CountsAreReferences
<1> QED
  BY <1>1, <1>3 DEF FactoryInit, FactoryInv, LoadedWhileUsed, TypesApart

LEMMA NewModuleStep ==
    ASSUME FactoryInv, NEW t \in Types, NEW h \in Handles, NewModule(t, h)
    PROVE  FactoryInv'
<1>1. PICK s \in done : MakeModule(h, s, refs[s])
  BY DEF NewModule, Known
<1>2. s \in Slots /\ h \notin modules /\ UNCHANGED <<done, type, plugins, alive>>
  BY DEF NewModule, FactoryInv, FactoryTypeOK
<1>3. FactoryTypeOK'
  BY <1>1, <1>2 DEF MakeModule, FactoryInv, FactoryTypeOK, Slots
<1>4. /\ \A u \in Slots : refs'[u] = Cardinality(Of(u)')
      /\ instances' = Cardinality(modules')
  BY <1>1, <1>2, MakeCounts
<1>5. CountsAreReferences'
  BY <1>2, <1>4 DEF CountsAreReferences, FactoryInv
<1>6. LoadedWhileUsed'
  BY <1>1, <1>2 DEF MakeModule, LoadedWhileUsed, FactoryInv, FactoryTypeOK
<1> QED
  BY <1>2, <1>3, <1>5, <1>6 DEF FactoryInv, TypesApart

LEMMA NewModuleLoadsStep ==
    ASSUME FactoryInv, NEW t \in Types, NEW h \in Handles, NewModuleLoads(t, h)
    PROVE  FactoryInv'
<1>1. PICK s \in Slots : LoadPlugin(t, s) /\ MakeModule(h, s, 0)
  BY DEF NewModuleLoads
<1>2. h \notin modules /\ alive /\ alive' = alive /\ Known(t) = {}
  BY DEF NewModuleLoads
<1>3. /\ s \in Slots \ done /\ done' \subseteq Slots
      /\ type' \in [Slots -> Types] /\ plugins' \in Int /\ TypesApart'
      /\ plugins' = Cardinality(done')
  BY <1>1, <1>2, LoadCounts
<1>4. MakeModule(h, s, refs[s])
  BY <1>1, <1>3, FreeUnused
<1>5. /\ \A u \in Slots : refs'[u] = Cardinality(Of(u)')
      /\ instances' = Cardinality(modules')
  BY <1>2, <1>4, MakeCounts
<1>6. FactoryTypeOK'
  BY <1>1, <1>2, <1>3 DEF MakeModule, FactoryInv, FactoryTypeOK, Slots
<1>7. CountsAreReferences'
  BY <1>3, <1>5 DEF CountsAreReferences
<1>8. LoadedWhileUsed'
  BY <1>1 DEF MakeModule, LoadPlugin, LoadedWhileUsed, FactoryInv, FactoryTypeOK
<1> QED
  BY <1>3, <1>6, <1>7, <1>8 DEF FactoryInv

LEMMA NewModuleFailsStep ==
    ASSUME FactoryInv, NEW t \in Types, NewModuleFails(t)
    PROVE  FactoryInv'
<1>1. PICK s \in Slots : LoadPlugin(t, s) /\ refs' = [refs EXCEPT ![s] = 0]
  BY DEF NewModuleFails
<1>2. alive /\ Known(t) = {} /\ UNCHANGED <<handles, instances, alive>>
  BY DEF NewModuleFails
<1>3. /\ s \in Slots \ done /\ done' \subseteq Slots
      /\ type' \in [Slots -> Types] /\ plugins' \in Int /\ TypesApart'
      /\ plugins' = Cardinality(done')
  BY <1>1, <1>2, LoadCounts
<1>4. refs' = refs
  BY <1>1, <1>3, FreeUnused DEF FactoryInv, FactoryTypeOK
<1>5. \A u : Of(u)' = Of(u)
  BY <1>2 DEF Of, handles
<1>6. CountsAreReferences'
  BY <1>2, <1>3, <1>4, <1>5 DEF CountsAreReferences, FactoryInv, handles
<1>7. FactoryTypeOK'
  BY <1>2, <1>3, <1>4 DEF FactoryInv, FactoryTypeOK, handles
<1>8. LoadedWhileUsed'
  BY <1>1, <1>2 DEF LoadPlugin, LoadedWhileUsed, FactoryInv, handles
<1> QED
  BY <1>3, <1>6, <1>7, <1>8 DEF FactoryInv

LEMMA DelModuleStep ==
    ASSUME FactoryInv, NEW h \in Handles, DelModule(h)
    PROVE  FactoryInv'
<1> PICK s : s = klass[h]
  OBVIOUS
<1>1. /\ s \in done
      /\ \A u \in Slots : refs'[u] = Cardinality(Of(u)')
      /\ instances' = Cardinality(modules')
      /\ Unloads(s) => Of(s)' = {}
  BY DelCounts
<1>2. UNCHANGED <<type, klass, alive>> /\ modules' = modules \ {h} /\ alive
  BY DEF DelModule
<1>3. FactoryTypeOK'
  <2>1. refs' \in [Slots -> Int] /\ instances' \in Int
    <3>1. refs[s] - 1 \in Int /\ instances - 1 \in Int
      BY <1>1 DEF FactoryInv, FactoryTypeOK
    <3>2. refs' = [refs EXCEPT ![s] = refs[s] - 1] /\ instances' = instances - 1
      BY DEF DelModule
    <3> QED
      BY <3>1, <3>2 DEF FactoryInv, FactoryTypeOK
  <2>2. plugins' \in Int /\ done' \subseteq Slots
    BY DEF DelModule, FactoryInv, FactoryTypeOK
  <2> QED
    BY <2>1, <2>2 DEF DelModule, FactoryInv, FactoryTypeOK
<1>4. TypesApart' /\ done' \subseteq done
  BY DEF DelModule, FactoryInv, TypesApart
<1>5. plugins' = Cardinality(done')
  <2>1. CASE Unloads(s)
    <3>1. done' = done \ {s} /\ plugins' = plugins - 1
      BY <2>1 DEF DelModule
    <3>2. Cardinality(done \ {s}) = Cardinality(done) - 1
      BY <1>1, FactoryFinite, FS_RemoveElement DEF FactoryInv
    <3> QED
      BY <1>2, <3>1, <3>2 DEF FactoryInv, CountsAreReferences
  <2>2. CASE ~Unloads(s)
    BY <1>2, <2>2 DEF DelModule, FactoryInv, CountsAreReferences
  <2> QED
    BY <2>1, <2>2
<1>6. LoadedWhileUsed'
  <2>1. CASE Unloads(s)
    <3>1. done' = done \ {s} /\ Of(s)' = {}
      BY <1>1, <2>1 DEF DelModule
    <3>2. \A g \in modules' : klass'[g] # s
      BY <3>1 DEF Of
    <3> QED
      BY <1>2, <3>1, <3>2 DEF LoadedWhileUsed, FactoryInv
  <2>2. CASE ~Unloads(s)
    BY <1>2, <2>2 DEF DelModule, LoadedWhileUsed, FactoryInv
  <2> QED
    BY <2>1, <2>2
<1> QED
  BY <1>1, <1>3, <1>4, <1>5, <1>6 DEF FactoryInv, CountsAreReferences

LEMMA DelFactoryStep ==
    ASSUME FactoryInv, DelFactory
    PROVE  FactoryInv'
<1>1. UNCHANGED <<type, refs, handles, plugins, instances>> /\ ~alive'
  BY DEF DelFactory
<1>2. done' \subseteq done
  BY DEF DelFactory
<1>3. \A u : Of(u)' = Of(u)
  BY <1>1 DEF Of, handles
<1>4. CountsAreReferences'
  BY <1>1, <1>3 DEF CountsAreReferences, FactoryInv, handles
<1>5. ASSUME NEW h \in modules PROVE klass[h] \in done'
  <2>1. klass[h] \in done /\ klass[h] \in Nat /\ klass[h] \in Slots
    BY FactoryAssumption, SMT DEF FactoryInv, LoadedWhileUsed, FactoryTypeOK, Slots
  <2>2. h \in Of(klass[h])
    BY DEF Of
  <2>3. refs[klass[h]] > 0
    BY <2>1, <2>2, FactoryFinite, FS_EmptySet, SMT
    DEF FactoryInv, CountsAreReferences
  <2>4. klass[h] \in 0 .. klass[h]
    BY <2>1, SMT
  <2> QED
    BY <2>1, <2>3, <2>4 DEF DelFactory
<1>6. LoadedWhileUsed'
  BY <1>1, <1>5 DEF LoadedWhileUsed, handles
<1>7. FactoryTypeOK'
  BY <1>1, <1>2 DEF DelFactory, FactoryInv, FactoryTypeOK, handles
<1> QED
  BY <1>1, <1>2, <1>4, <1>6, <1>7 DEF FactoryInv, TypesApart

LEMMA FactoryStep == FactoryInv /\ [FactoryNext]_facvars => FactoryInv'
<1> SUFFICES ASSUME FactoryInv, [FactoryNext]_facvars PROVE FactoryInv'
  OBVIOUS
<1>1. ASSUME NEW t \in Types, NEW h \in Handles, NewModule(t, h)
      PROVE  FactoryInv'
  BY <1>1, NewModuleStep
<1>2. ASSUME NEW t \in Types, NEW h \in Handles, NewModuleLoads(t, h)
      PROVE  FactoryInv'
  BY <1>2, NewModuleLoadsStep
<1>3. ASSUME NEW t \in Types, NewModuleFails(t) PROVE FactoryInv'
  BY <1>3, NewModuleFailsStep
<1>4. ASSUME NEW h \in Handles, DelModule(h) PROVE FactoryInv'
  BY <1>4, DelModuleStep
<1>5. CASE DelFactory
  BY <1>5, DelFactoryStep
<1>6. CASE UNCHANGED facvars
  BY <1>6 DEF facvars, descriptors, handles, FactoryInv, FactoryTypeOK,
             CountsAreReferences, LoadedWhileUsed, TypesApart, Of
<1> QED
  BY <1>1, <1>2, <1>3, <1>4, <1>5, <1>6 DEF FactoryNext

\* Every ref_count is the number of the modules of its plugin, so a plugin goes
\* exactly with its last module (tc_del_module), and tc_plugin_count and
\* tc_instance_count are exact, for any number of slots, types and modules.
THEOREM FactoryCounts == FactorySpec => []CountsAreReferences
<1>1. FactoryInv => CountsAreReferences
  BY DEF FactoryInv
<1> QED
  BY <1>1, FactoryInitial, FactoryStep, PTL DEF FactorySpec

\* No module outlives its plugin, and the assertions of tc_compare_modules hold:
\* a plugin is never loaded into two slots.
THEOREM FactoryIsSafe == FactorySpec => []FactorySafe
<1>1. FactoryInv => FactorySafe
  BY DEF FactoryInv, FactorySafe, LoadedWhileUsed, SameTypeSameClass, TypesApart
<1> QED
  BY <1>1, FactoryInitial, FactoryStep, PTL DEF FactorySpec

-----------------------------------------------------------------------------
(***************************************************************************)
(* The filter table for any number of slots, of names and of threads: a    *)
(* frame is never given to a filter that was unloaded, it meets every      *)
(* filter that stays enabled, and a command finds every loaded filter.     *)
(***************************************************************************)

\* While a filter is loaded, initialised or dropped, its slot is disabled.
Loading == {"open", "init", "loaded", "drop", "clear"}
Hidden == command \in Loading => place \notin enabled

\* No id is given twice, as tc_filter_add() takes one above all that are in use.
IdsApart == \A s, u \in Places : id[s] # 0 /\ id[s] = id[u] => s = u
NewIdAbove ==
    command = "open" => /\ newid > 0 /\ id[place] = 0
                        /\ \A s \in Places : id[s] < newid

\* Until the end a slot with an id has its plugin, but for one moment of a removal.
Whole ==
    phase = "work" =>
       \A s \in Loaded : s \in entry /\ (s \in mapped \/ (command = "clear" /\ s = place))

\* The filter in a thread's hands is loaded and not the one being loaded.
HeldLoaded ==
    \A p \in Processors :
       pass[p] \in {"call", "run"} =>
          /\ id[filter[p]] # 0
          /\ command \in Loading => place # filter[p]

\* The table is cleared when no frame is in it.
IdleAtEnd == phase # "work" => \A p \in Processors : pass[p] = "idle"

\* What a frame must still meet is ahead of it, or is what it is given now.
DueAhead ==
    \A p \in Processors : \A s \in due[p] :
       /\ pass[p] # "idle"
       /\ id[s] # 0 /\ s \in enabled
       /\ id[s] > last[p] \/ (pass[p] = "call" /\ s = filter[p])

FilterInv ==
    /\ FilterTypeOK /\ Hidden /\ IdsApart /\ NewIdAbove
    /\ Whole /\ HeldLoaded /\ IdleAtEnd /\ DueAhead

-----------------------------------------------------------------------------
(* The passes of the frames.                                                *)

LEMMA StartKeeps ==
    ASSUME FilterInv, NEW p \in Processors, Start(p), UNCHANGED crashed
    PROVE  FilterInv'
<1> USE DEF Start, table, event, passes, fini
<1>1. FilterTypeOK'
  BY DEF FilterInv, FilterTypeOK, Loaded
<1>2. Hidden' /\ IdsApart' /\ NewIdAbove' /\ Whole'
  BY DEF FilterInv, Hidden, IdsApart, NewIdAbove, Whole, Loaded
<1>3. HeldLoaded' /\ IdleAtEnd'
  BY DEF FilterInv, FilterTypeOK, HeldLoaded, IdleAtEnd
<1>4. DueAhead'
  BY DEF FilterInv, FilterTypeOK, DueAhead, Loaded
<1> QED
  BY <1>1, <1>2, <1>3, <1>4 DEF FilterInv

LEMMA SelectKeeps ==
    ASSUME FilterInv, NEW p \in Processors, Select(p), UNCHANGED crashed
    PROVE  FilterInv'
<1> USE DEF Select, table, event, passes, fini
<1>1. PICK s \in Places : /\ Nearest(p, s)
                          /\ filter' = [filter EXCEPT ![p] = s]
                          /\ last' = [last EXCEPT ![p] = id[s]]
  OBVIOUS
<1>2. s \in Loaded \cap enabled
  BY <1>1 DEF Nearest, Ahead
<1>3. FilterTypeOK'
  BY <1>1 DEF FilterInv, FilterTypeOK
<1>4. Hidden' /\ IdsApart' /\ NewIdAbove' /\ Whole'
  BY DEF FilterInv, Hidden, IdsApart, NewIdAbove, Whole, Loaded
<1>5. HeldLoaded' /\ IdleAtEnd'
  BY <1>1, <1>2 DEF FilterInv, FilterTypeOK, HeldLoaded, IdleAtEnd, Hidden, Loaded
<1>6. DueAhead'
  <2>1. ASSUME NEW u \in due[p] PROVE id[u] > id[s] \/ u = s
    <3>1. u \in Ahead(p)
      BY DEF FilterInv, FilterTypeOK, DueAhead, Ahead, Loaded
    <3> QED
      BY <1>1, <1>2, <3>1 DEF Nearest, Ahead, FilterInv, FilterTypeOK, IdsApart, Loaded
  <2> QED
    BY <1>1, <2>1 DEF FilterInv, FilterTypeOK, DueAhead
<1> QED
  BY <1>3, <1>4, <1>5, <1>6 DEF FilterInv

LEMMA FinishKeeps ==
    ASSUME FilterInv, NEW p \in Processors, Finish(p), UNCHANGED crashed
    PROVE  FilterInv'
<1> USE DEF Finish, table, event, passes, fini
<1>1. due[p] = {}
  BY DEF FilterInv, FilterTypeOK, DueAhead, Ahead, Loaded
<1>2. FilterTypeOK'
  BY DEF FilterInv, FilterTypeOK
<1>3. Hidden' /\ IdsApart' /\ NewIdAbove' /\ Whole'
  BY DEF FilterInv, Hidden, IdsApart, NewIdAbove, Whole, Loaded
<1>4. HeldLoaded' /\ IdleAtEnd' /\ DueAhead'
  BY <1>1 DEF FilterInv, FilterTypeOK, HeldLoaded, IdleAtEnd, DueAhead
<1> QED
  BY <1>2, <1>3, <1>4 DEF FilterInv

LEMMA CallKeeps ==
    ASSUME FilterInv, NEW p \in Processors, Call(p), UNCHANGED crashed
    PROVE  FilterInv'
<1> USE DEF Call, table, event, passes, fini, Disable
<1>1. FilterTypeOK'
  BY DEF FilterInv, FilterTypeOK
<1>2. Hidden' /\ IdsApart' /\ NewIdAbove' /\ Whole'
  BY DEF FilterInv, Hidden, IdsApart, NewIdAbove, Whole, Loaded
<1>3. HeldLoaded' /\ IdleAtEnd'
  BY DEF FilterInv, FilterTypeOK, HeldLoaded, IdleAtEnd
<1>4. DueAhead'
  BY DEF FilterInv, FilterTypeOK, DueAhead
<1> QED
  BY <1>1, <1>2, <1>3, <1>4 DEF FilterInv

LEMMA BackKeeps ==
    ASSUME FilterInv, NEW p \in Processors, Back(p), UNCHANGED crashed
    PROVE  FilterInv'
<1> USE DEF Back, table, event, passes, fini
<1>1. FilterTypeOK'
  BY DEF FilterInv, FilterTypeOK
<1>2. Hidden' /\ IdsApart' /\ NewIdAbove' /\ Whole'
  BY DEF FilterInv, Hidden, IdsApart, NewIdAbove, Whole, Loaded
<1>3. HeldLoaded' /\ IdleAtEnd' /\ DueAhead'
  BY DEF FilterInv, FilterTypeOK, HeldLoaded, IdleAtEnd, DueAhead
<1> QED
  BY <1>1, <1>2, <1>3 DEF FilterInv

-----------------------------------------------------------------------------
(* The commands.  Most change nothing a frame sees.                         *)

\* A step that leaves ids, plugins, passes and the end alone, disables at most, and
\* goes to a command that loads nothing.
LEMMA HarmlessKeeps ==
    ASSUME FilterInv, FilterTypeOK',
           UNCHANGED <<id, entry, mapped, pass, filter, last, phase>>,
           command' \notin Loading,
           command # "clear",
           NEW s, UNCHANGED <<enabled, due>> \/ Disable(s)
                  \/ (enabled' = enabled \cup {s} /\ UNCHANGED due)
    PROVE  FilterInv'
<1>1. Hidden' /\ IdsApart' /\ NewIdAbove'
  BY DEF FilterInv, Hidden, IdsApart, NewIdAbove, Loading
<1>2. Whole' /\ IdleAtEnd'
  BY DEF FilterInv, Whole, IdleAtEnd, Loaded
<1>3. HeldLoaded'
  BY DEF FilterInv, HeldLoaded
<1>4. DueAhead'
  BY DEF FilterInv, FilterTypeOK, DueAhead, Disable
<1> QED
  BY <1>1, <1>2, <1>3, <1>4 DEF FilterInv

LEMMA CommandKeeps ==
    ASSUME FilterInv,
           \/ \E n \in Names, what \in {"enable", "disable", "config", "ask"} :
                 Begin(n, what)
           \/ Gone \/ Enable \/ DisableIt
           \/ Check("config", "shut") \/ Check("ask", "answer")
           \/ InitFails \/ InitWorks \/ OpenFails \/ InitEnds("publish") \/ Publish
           \/ CallEntry("shut", "start") \/ CallEntry("start", "tested")
           \/ CallEntry("answer", "wait")
    PROVE  FilterInv'
<1> USE DEF table, passes, fini, Done, Become, Disable
<1>1. ASSUME NEW n \in Names, NEW what \in {"enable", "disable", "config", "ask"},
             Begin(n, what)
      PROVE FilterInv'
  BY <1>1, HarmlessKeeps DEF Begin, FilterInv, FilterTypeOK, Loading
<1>2. CASE Gone
  BY <1>2, HarmlessKeeps DEF Gone, FilterInv, FilterTypeOK, Loading
<1>3. CASE Enable
  BY <1>3, HarmlessKeeps DEF Enable, FilterInv, FilterTypeOK, Loading
<1>4. CASE DisableIt
  BY <1>4, HarmlessKeeps DEF DisableIt, FilterInv, FilterTypeOK, Loading
<1>5. CASE Check("config", "shut") \/ Check("ask", "answer")
  BY <1>5, HarmlessKeeps DEF Check, FilterInv, FilterTypeOK, Loading
<1>6. CASE InitFails
  BY <1>6, HarmlessKeeps DEF InitFails, FilterInv, FilterTypeOK, Loading
<1>7. CASE InitWorks \/ OpenFails \/ InitEnds("publish")
  BY <1>7, HarmlessKeeps DEF InitWorks, OpenFails, InitEnds, FilterInv, FilterTypeOK, Loading
<1>8. CASE Publish
  BY <1>8, HarmlessKeeps DEF Publish, FilterInv, FilterTypeOK, Loading
<1>9. CASE \/ CallEntry("shut", "start") \/ CallEntry("start", "tested")
           \/ CallEntry("answer", "wait")
  BY <1>9, HarmlessKeeps DEF CallEntry, FilterInv, FilterTypeOK, Loading
<1> QED
  BY <1>1, <1>2, <1>3, <1>4, <1>5, <1>6, <1>7, <1>8, <1>9

\* A free slot is chosen; the threads hold no free slot.
LEMMA LoadNameKeeps ==
    ASSUME FilterInv, NEW n \in Names, LoadName(n), UNCHANGED crashed
    PROVE  FilterInv'
<1> USE DEF LoadName, passes, fini, Become, Disable, ResetFlag
<1>1. PICK s \in Places : /\ id[s] = 0
                          /\ name' = [name EXCEPT ![s] = n]
                          /\ enabled' = enabled \ {s}
                          /\ due' = [p \in Processors |-> due[p] \ {s}]
                          /\ place' = s
  BY DEF FirstFreePlace
<1>2. PICK k \in {0} \cup {id[u] : u \in Places} :
         (\A u \in Places : id[u] <= k) /\ newid' = k + 1
  OBVIOUS
<1>3. k \in Nat
  BY <1>2 DEF FilterInv, FilterTypeOK
<1>4. FilterTypeOK'
  BY <1>1, <1>2, <1>3 DEF FilterInv, FilterTypeOK
<1>5. Hidden' /\ IdsApart' /\ NewIdAbove'
  BY <1>1, <1>2, <1>3 DEF FilterInv, FilterTypeOK, Hidden, IdsApart, NewIdAbove
<1>6. Whole' /\ IdleAtEnd' /\ HeldLoaded'
  BY <1>1 DEF FilterInv, Whole, IdleAtEnd, HeldLoaded, Loaded
<1>7. DueAhead'
  BY <1>1 DEF FilterInv, FilterTypeOK, DueAhead
<1> QED
  BY <1>4, <1>5, <1>6, <1>7 DEF FilterInv

LEMMA OpenKeeps ==
    ASSUME FilterInv, Open, UNCHANGED crashed
    PROVE  FilterInv'
<1> USE DEF Open, passes, fini, Become
<1>1. FilterTypeOK'
  BY DEF FilterInv, FilterTypeOK
<1>2. Hidden' /\ IdsApart' /\ NewIdAbove'
  BY DEF FilterInv, FilterTypeOK, Hidden, IdsApart, NewIdAbove, Loading
<1>3. Whole' /\ IdleAtEnd'
  BY DEF FilterInv, FilterTypeOK, Whole, IdleAtEnd, Loaded
<1>4. HeldLoaded'
  BY DEF FilterInv, FilterTypeOK, HeldLoaded, Loading
<1>5. DueAhead'
  BY DEF FilterInv, FilterTypeOK, DueAhead, NewIdAbove
<1> QED
  BY <1>1, <1>2, <1>3, <1>4, <1>5 DEF FilterInv

\* From one step of loading to the next.
LEMMA LoadingKeeps ==
    ASSUME FilterInv, CallEntry("init", "loaded") \/ InitEnds("drop")
    PROVE  FilterInv'
<1> USE DEF CallEntry, InitEnds, table, passes, fini, Become, Loading
<1>1. FilterTypeOK'
  BY DEF FilterInv, FilterTypeOK
<1>2. Hidden' /\ IdsApart' /\ NewIdAbove' /\ Whole' /\ IdleAtEnd'
  BY DEF FilterInv, Hidden, IdsApart, NewIdAbove, Whole, IdleAtEnd, Loaded
<1>3. HeldLoaded' /\ DueAhead'
  BY DEF FilterInv, HeldLoaded, DueAhead
<1> QED
  BY <1>1, <1>2, <1>3 DEF FilterInv

LEMMA DropKeeps ==
    ASSUME FilterInv, Drop
    PROVE  FilterInv'
<1> USE DEF Drop, Unload, passes, fini, Become, Loading
<1>1. FilterTypeOK'
  BY DEF FilterInv, FilterTypeOK
<1>2. Hidden' /\ IdsApart' /\ NewIdAbove' /\ IdleAtEnd'
  BY DEF FilterInv, Hidden, IdsApart, NewIdAbove, IdleAtEnd
<1>3. Whole'
  BY DEF FilterInv, Whole, Loaded
<1>4. HeldLoaded' /\ DueAhead'
  BY DEF FilterInv, HeldLoaded, DueAhead
<1> QED
  BY <1>1, <1>2, <1>3, <1>4 DEF FilterInv

LEMMA DropClearedKeeps ==
    ASSUME FilterInv, DropCleared, UNCHANGED crashed
    PROVE  FilterInv'
<1> USE DEF DropCleared, Clear, Disable, passes, fini, Become, Loading
<1>1. FilterTypeOK'
  BY DEF FilterInv, FilterTypeOK
<1>2. Hidden' /\ IdsApart' /\ NewIdAbove' /\ IdleAtEnd'
  BY DEF FilterInv, FilterTypeOK, Hidden, IdsApart, NewIdAbove, IdleAtEnd
<1>3. Whole'
  BY DEF FilterInv, FilterTypeOK, Whole, Loaded
<1>4. HeldLoaded' /\ DueAhead'
  BY DEF FilterInv, FilterTypeOK, HeldLoaded, DueAhead
<1> QED
  BY <1>1, <1>2, <1>3, <1>4 DEF FilterInv

-----------------------------------------------------------------------------
(* The end: no frame is in the table.                                       *)

LEMMA EndKeeps ==
    ASSUME FilterInv,
           Close \/ FiniNext \/ FiniUnload \/ FiniEnds \/ StopEvents
    PROVE  FilterInv'
<1> USE DEF Close, FiniNext, FiniUnload, FiniEnds, StopEvents, Unload,
            table, event, passes
<1>1. FilterTypeOK'
  <2>1. /\ closing' \in 0 .. MaxFilters /\ (phase' = "remove" => closing' \in Places)
        /\ phase' \in {"work", "fini", "remove", "final", "ended"}
    BY FilterAssumption DEF FilterInv, FilterTypeOK, Places
  <2>2. UNCHANGED <<name, id, enabled, entry, event, passes>> /\ mapped' \subseteq Places
    BY DEF FilterInv, FilterTypeOK
  <2> QED
    BY <2>1, <2>2 DEF FilterInv, FilterTypeOK
<1>2. Hidden' /\ IdsApart' /\ NewIdAbove'
  BY DEF FilterInv, Hidden, IdsApart, NewIdAbove
<1>3. Whole' /\ IdleAtEnd'
  BY DEF FilterInv, Whole, IdleAtEnd, Loaded
<1>4. HeldLoaded' /\ DueAhead'
  BY DEF FilterInv, HeldLoaded, DueAhead
<1> QED
  BY <1>1, <1>2, <1>3, <1>4 DEF FilterInv

LEMMA FiniClearKeeps ==
    ASSUME FilterInv, FiniClear, UNCHANGED crashed
    PROVE  FilterInv'
<1> USE DEF FiniClear, Clear, Disable, event
<1>1. FilterTypeOK'
  BY FilterAssumption DEF FilterInv, FilterTypeOK, Places
<1>2. Hidden' /\ IdsApart' /\ NewIdAbove' /\ Whole'
  BY DEF FilterInv, FilterTypeOK, Hidden, IdsApart, NewIdAbove, Whole
<1>3. IdleAtEnd' /\ HeldLoaded' /\ DueAhead'
  BY DEF FilterInv, FilterTypeOK, IdleAtEnd, HeldLoaded, DueAhead
<1> QED
  BY <1>1, <1>2, <1>3 DEF FilterInv

-----------------------------------------------------------------------------

LEMMA FilterInvInductive == FilterSpec => []FilterInv
<1>1. FilterInit => FilterInv
  BY FilterAssumption
  DEF FilterInit, FilterInv, FilterTypeOK, Hidden, IdsApart, NewIdAbove, Whole, HeldLoaded,
      IdleAtEnd, DueAhead, Loading, Loaded, Places
<1>2. FilterInv /\ [FilterNext]_filvars => FilterInv'
  <2> SUFFICES ASSUME FilterInv, [FilterNext]_filvars PROVE FilterInv'
    OBVIOUS
  <2>1. CASE UNCHANGED filvars
    BY <2>1
    DEF FilterInv, FilterTypeOK, Hidden, IdsApart, NewIdAbove, Whole, HeldLoaded, IdleAtEnd,
        DueAhead, Loaded, filvars, table, event, passes, fini
  <2>2. CASE Quiet /\ UNCHANGED crashed
    BY <2>2, StartKeeps, SelectKeeps, FinishKeeps, CallKeeps, BackKeeps,
       CommandKeeps, LoadNameKeeps, OpenKeeps, LoadingKeeps, DropClearedKeeps, EndKeeps,
       FiniClearKeeps DEF Quiet
  <2>3. CASE Loud
    BY <2>3, CommandKeeps, LoadingKeeps, DropKeeps, EndKeeps DEF Loud
  <2> QED
    BY <2>1, <2>2, <2>3 DEF FilterNext
<1> QED
  BY <1>1, <1>2, PTL DEF FilterSpec

\* A frame is never given to a filter whose plugin was unloaded, however the
\* commands and the end of the program interleave with the frames.
THEOREM FramesMeetLoaded == FilterSpec => []RunsLoaded
<1>1. FilterInv => RunsLoaded
  BY DEF FilterInv, FilterTypeOK, RunsLoaded, HeldLoaded, IdleAtEnd, Whole, Loading, Loaded
<1> QED
  BY <1>1, FilterInvInductive, PTL

\* No enabled filter is left out of a pass.
THEOREM PassesComplete == FilterSpec => []PassComplete
<1>1. FilterInv => PassComplete
  BY DEF FilterInv, FilterTypeOK, PassComplete, DueAhead
<1> QED
  BY <1>1, FilterInvInductive, PTL

-----------------------------------------------------------------------------
(* What a command finds.                                                    *)

\* Until the end the loaded filters fill the table from its first slot: a filter is loaded
\* into the first free slot, and only the last one loaded is ever dropped.
Packed ==
    phase = "work" =>
        /\ \A s, u \in Places : u < s /\ id[s] # 0 => id[u] # 0
        /\ command = "open" => \A u \in Places : id[u] = 0 => place <= u
        /\ command \in Loading \ {"open"} => \A s \in Places : place < s => id[s] = 0

LEMMA PackedInductive ==
    FilterInv /\ FilterInv' /\ Packed /\ [FilterNext]_filvars => Packed'
<1> SUFFICES ASSUME FilterInv, FilterInv', Packed, [FilterNext]_filvars, phase' = "work"
             PROVE  Packed'
  BY DEF Packed
<1>0. id \in [Places -> Nat] /\ id' \in [Places -> Nat] /\ place \in Places
  BY DEF FilterInv, FilterTypeOK
<1>1. phase = "work"
  BY DEF FilterNext, Quiet, Loud, Start, Select, Finish, Call, Back, LoadName, Begin, Gone,
     Enable, DisableIt, Check, InitFails, InitWorks, OpenFails, Open, InitEnds, Publish,
     DropCleared, Close, FiniNext, FiniClear, FiniEnds, StopEvents, CallEntry, Drop,
     FiniUnload, fini, filvars
<1>3. CASE \E n \in Names : LoadName(n)
  <2>1. PICK s \in Places : FirstFreePlace(s) /\ place' = s /\ command' = "open" /\ id' = id
    BY <1>3 DEF LoadName, Become
  <2> QED
    BY <1>1, <2>1 DEF Packed, FirstFreePlace
<1>4. CASE Open
  <2>1. /\ command = "open" /\ command' = "init" /\ place' = place
        /\ id' = [id EXCEPT ![place] = newid] /\ newid # 0 /\ id[place] = 0
    BY <1>4 DEF Open, Become, FilterInv, FilterTypeOK, NewIdAbove
  <2>2. /\ \A s, u \in Places : u < s /\ id[s] # 0 => id[u] # 0
        /\ \A u \in Places : id[u] = 0 => place <= u
    BY <1>1, <2>1 DEF Packed
  <2>3. \A s, u \in Places : s \in Int /\ (u <= s \/ s < u) /\ (u <= s /\ s <= u => s = u)
                             /\ (u < s => ~(s <= u))
    BY FilterAssumption DEF Places
  <2>4. \A s \in Places : id'[s] = IF s = place THEN newid ELSE id[s]
    BY <1>0, <2>1
  <2>5. \A s, u \in Places : u < s /\ id'[s] # 0 => id'[u] # 0
    BY <1>0, <2>1, <2>2, <2>3, <2>4
  <2>6. \A s \in Places : place < s => id'[s] = 0
    BY <1>0, <2>1, <2>2, <2>3, <2>4
  <2> QED
    BY <2>1, <2>5, <2>6 DEF Packed
<1>5. CASE DropCleared
  <2>1. /\ command = "clear" /\ command' = "publish" /\ id' = [id EXCEPT ![place] = 0]
    BY <1>5 DEF DropCleared, Become, Clear
  <2>2. /\ \A s, u \in Places : u < s /\ id[s] # 0 => id[u] # 0
        /\ \A s \in Places : place < s => id[s] = 0
    BY <1>1, <2>1 DEF Packed, Loading
  <2>3. \A s \in Places : id'[s] = IF s = place THEN 0 ELSE id[s]
    BY <1>0, <2>1
  <2>4. \A s, u \in Places : u < s /\ id'[s] # 0 => id'[u] # 0
    BY <1>0, <2>2, <2>3
  <2> QED
    BY <2>1, <2>4 DEF Packed, Loading
<1>6. CASE UNCHANGED id /\ (UNCHANGED <<command, place>> \/ command' \notin Loading)
  BY <1>1, <1>6 DEF Packed, Loading
<1>7. CASE UNCHANGED <<id, place>> /\ command \in Loading \ {"open"}
           /\ command' \in Loading \ {"open"}
  BY <1>1, <1>7 DEF Packed
<1>8. CASE CallEntry("init", "loaded") \/ InitEnds("drop") \/ Drop
  BY <1>6, <1>7, <1>8 DEF CallEntry, InitEnds, Drop, Become, table, Loading
<1>9. CASE \/ \E p \in Processors : Start(p) \/ Select(p) \/ Finish(p) \/ Call(p) \/ Back(p)
           \/ \E n \in Names, what \in {"enable", "disable", "config", "ask"} : Begin(n, what)
           \/ Gone \/ Enable \/ DisableIt \/ Check("config", "shut") \/ Check("ask", "answer")
           \/ InitFails \/ InitWorks \/ OpenFails \/ InitEnds("publish") \/ Publish
           \/ CallEntry("shut", "start") \/ CallEntry("start", "tested")
           \/ CallEntry("answer", "wait") \/ UNCHANGED filvars
  BY <1>6, <1>9 DEF Start, Select, Finish, Call, Back, Begin, Gone, Enable, DisableIt, Check,
     InitFails, InitWorks, OpenFails, InitEnds, Publish, CallEntry, Become, Done, Loading,
     filvars, table, event
<1>10. CASE Close \/ FiniNext \/ FiniClear \/ FiniEnds \/ StopEvents \/ FiniUnload
  BY <1>1, <1>10 DEF Close, FiniNext, FiniClear, FiniEnds, StopEvents, FiniUnload
<1> QED
  BY <1>3, <1>4, <1>5, <1>8, <1>9, <1>10 DEF FilterNext, Quiet, Loud

\* A command finds a filter by its name whenever one is loaded, in spite of the names that
\* failed loads leave in free slots: those lie behind the loaded ones.
THEOREM CommandsFind == FilterSpec => []FindsLoaded
<1>1. FilterInit => Packed
  BY DEF FilterInit, Packed, Loading
<1>2. FilterInv /\ Packed => FindsLoaded
  <2> SUFFICES ASSUME FilterInv, Packed, phase = "work", NEW s \in Loaded
               PROVE  \E u \in Places : Found(name[s], u)
    BY DEF FindsLoaded
  <2> DEFINE Same == {u \in Places : name[u] = name[s]}
  <2>1. s \in Places /\ id[s] # 0 /\ s \in Same /\ Same \subseteq Nat /\ Places \subseteq Nat
    BY FilterAssumption DEF Loaded, Places
  <2>2. PICK u \in Same : \A w \in Same : u <= w
    <3> HIDE DEF Same
    <3> QED
      BY <2>1, LeastNatural
  <2>3. \A w \in Same : u <= w
    BY <2>2
  <2>4. id[u] # 0
    BY <2>1, <2>3 DEF Packed
  <2> QED
    BY <2>3, <2>4 DEF Found
<1> QED
  BY <1>1, <1>2, FilterInvInductive, PackedInductive, PTL DEF FilterSpec

-----------------------------------------------------------------------------
(***************************************************************************)
(* Proofs about the list without a cache: for careful callers it is the    *)
(* sequence of its header, and for all callers the operations that follow  *)
(* a NULL or released pointer are those that BreaksOnlyThere names.        *)
(* ListInv says that there is an array of the items the list holds, which  *)
(* next follows forwards and prev backwards, and what the two pointers at  *)
(* its ends are that pops leave behind; the first lemmas are about         *)
(* following a pointer at all.                                             *)
(***************************************************************************)

\* w follows link from start, m times.
Walks(w, start, link, m) ==
    w = [k \in 0 .. m |-> IF k = 0 THEN start ELSE IF w[k - 1] = 0 THEN 0 ELSE link[w[k - 1]]]

LEMMA WalkExists ==
    ASSUME NEW m \in Nat, NEW start, NEW link
    PROVE  \E w : Walks(w, start, link, m)
<1> DEFINE S == {k \in Nat : \E w : Walks(w, start, link, k)}
<1>1. 0 \in S
  <2>1. Walks([k \in 0 .. 0 |-> start], start, link, 0)
    BY DEF Walks
  <2> QED
    BY <2>1
<1>2. ASSUME NEW j \in 0 .. m - 1, j \in S PROVE j + 1 \in S
  <2>1. PICK w : Walks(w, start, link, j)
    BY <1>2
  <2> DEFINE g == [k \in 0 .. j + 1 |->
                     IF k = 0 THEN start ELSE IF w[k - 1] = 0 THEN 0 ELSE link[w[k - 1]]]
  <2>2. \A k \in 0 .. j : g[k] = w[k]
    <3> TAKE k \in 0 .. j
    <3>1. w[k] = IF k = 0 THEN start ELSE IF w[k - 1] = 0 THEN 0 ELSE link[w[k - 1]]
      BY <2>1 DEF Walks
    <3> QED
      BY <3>1
  <2>3. \A k \in 0 .. j + 1 :
           g[k] = IF k = 0 THEN start ELSE IF g[k - 1] = 0 THEN 0 ELSE link[g[k - 1]]
    <3> TAKE k \in 0 .. j + 1
    <3>1. k # 0 => g[k - 1] = w[k - 1]
      <4> HIDE DEF g
      <4>1. k # 0 => k - 1 \in 0 .. j
        OBVIOUS
      <4> QED
        BY <2>2, <4>1
    <3>2. g[k] = IF k = 0 THEN start ELSE IF w[k - 1] = 0 THEN 0 ELSE link[w[k - 1]]
      OBVIOUS
    <3> HIDE DEF g
    <3> QED
      BY <3>1, <3>2
  <2>4. g = [k \in 0 .. j + 1 |-> g[k]]
    OBVIOUS
  <2>5. Walks(g, start, link, j + 1)
    <3> HIDE DEF g
    <3> QED
      BY <2>3, <2>4 DEF Walks
  <2> QED
    BY <2>5
<1> HIDE DEF S
<1>3. \A k \in 0 .. m : k \in S
  BY <1>1, <1>2, UpTo
<1> QED
  BY <1>3 DEF S

\* A walk and its length.
WalkIs(start, link, w, n) ==
    /\ Walks(w, start, link, MaxItems)
    /\ n \in Pointers
    /\ n = MaxItems \/ w[n] = 0
    /\ \A k \in 0 .. n - 1 : w[k] # 0
    /\ Walk(start, link) = [k \in 1 .. n |-> w[k - 1]]

LEMMA WalkFacts ==
    ASSUME NEW start, NEW link
    PROVE  \E w, n : WalkIs(start, link, w, n)
<1> DEFINE w == CHOOSE w : w = [k \in Pointers |->
                                  IF k = 0 THEN start
                                  ELSE IF w[k - 1] = 0 THEN 0 ELSE link[w[k - 1]]]
           Ends(n) == (n = MaxItems \/ w[n] = 0) /\ \A k \in 0 .. n - 1 : w[k] # 0
           n == CHOOSE n \in Pointers : Ends(n)
<1>0. MaxItems \in Nat
  BY ListAssumption
<1>1. Walks(w, start, link, MaxItems)
  <2>1. PICK u : Walks(u, start, link, MaxItems)
    BY <1>0, WalkExists
  <2>2. u = [k \in Pointers |->
               IF k = 0 THEN start ELSE IF u[k - 1] = 0 THEN 0 ELSE link[u[k - 1]]]
    BY <2>1 DEF Walks, Pointers
  <2>3. w = [k \in Pointers |->
               IF k = 0 THEN start ELSE IF w[k - 1] = 0 THEN 0 ELSE link[w[k - 1]]]
    BY <2>2, Zenon
  <2> HIDE DEF w
  <2> QED
    BY <2>3 DEF Walks, Pointers
<1>2. Walk(start, link) = [k \in 1 .. n |-> w[k - 1]]
  BY DEF Walk
<1> HIDE DEF w
<1>3. \E k \in Pointers : Ends(k)
  <2> DEFINE T == {k \in Pointers : k = MaxItems \/ w[k] = 0}
  <2>1. T \in SUBSET Nat /\ MaxItems \in T
    BY <1>0 DEF Pointers
  <2>2. PICK k \in T : \A j \in T : k <= j
    <3> HIDE DEF T
    <3> QED
      BY <2>1, LeastNatural
  <2>3. \A j \in 0 .. k - 1 : j \in Pointers /\ j \notin T
    BY <1>0, <2>2 DEF Pointers
  <2> QED
    BY <2>2, <2>3
<1>4. n \in Pointers /\ Ends(n)
  <2> HIDE DEF Ends
  <2> QED
    BY <1>3
<1>5. WalkIs(start, link, w, n)
  BY <1>1, <1>2, <1>4 DEF WalkIs
<1> QED
  BY <1>5

\* Nothing is met from NULL.
LEMMA NoWalk == ASSUME NEW link PROVE Walk(0, link) = [k \in 1 .. 0 |-> 0]
<1>0. MaxItems \in Nat
  BY ListAssumption
<1>1. PICK w, m : WalkIs(0, link, w, m)
  BY WalkFacts
<1>2. w[0] = 0
  BY <1>0, <1>1 DEF Walks, WalkIs
<1>3. m = 0
  <2> SUFFICES ASSUME m # 0 PROVE FALSE
    OBVIOUS
  <2>1. 0 \in 0 .. m - 1
    BY <1>0, <1>1 DEF Pointers, WalkIs
  <2> QED
    BY <1>1, <1>2, <2>1 DEF WalkIs
<1>4. Walk(0, link) = [k \in 1 .. 0 |-> w[k - 1]]
  BY <1>1, <1>3 DEF WalkIs
<1> QED
  BY <1>4

\* A walk along the items of c meets them in order.
Along(n, c, path, link) ==
    /\ path = [k \in 1 .. Len(path) |-> path[k]] /\ Len(path) \in n .. MaxItems
    /\ \A k \in 1 .. n : path[k] = c[k]
    /\ link[c[n]] = 0 => Len(path) = n

LEMMA WalkAlong ==
    ASSUME NEW n \in 1 .. MaxItems, NEW c \in [1 .. n -> Items], NEW link,
           \A i \in 1 .. n - 1 : link[c[i]] = c[i + 1]
    PROVE  Along(n, c, Walk(c[1], link), link)
<1>0. MaxItems \in Nat
  BY ListAssumption
<1> DEFINE path == Walk(c[1], link)
<1>a. PICK w, m : WalkIs(c[1], link, w, m)
  BY WalkFacts
<1>1. /\ Walks(w, c[1], link, MaxItems)
      /\ m \in Pointers
      /\ m = MaxItems \/ w[m] = 0
      /\ \A k \in 0 .. m - 1 : w[k] # 0
  BY <1>a DEF WalkIs
<1>8. path = [k \in 1 .. m |-> w[k - 1]]
  BY <1>a DEF WalkIs
<1> HIDE DEF path
<1>2. \A k \in 1 .. MaxItems : w[k] = IF w[k - 1] = 0 THEN 0 ELSE link[w[k - 1]]
  BY <1>0, <1>1 DEF Walks
<1> DEFINE S == {k \in Nat : k < n => w[k] = c[k + 1]}
<1>3. 0 \in S
  BY <1>0, <1>1 DEF Walks
<1>4. ASSUME NEW k \in 0 .. n - 1, k \in S PROVE k + 1 \in S
  <2> SUFFICES ASSUME k + 1 < n PROVE w[k + 1] = c[(k + 1) + 1]
    OBVIOUS
  <2>1. k + 1 \in 1 .. n - 1 /\ k + 1 \in 1 .. MaxItems /\ k + 1 \in 1 .. n /\ (k + 1) - 1 = k
    BY <1>0
  <2>2. w[k] = c[k + 1] /\ c[k + 1] # 0
    BY <1>4, <2>1 DEF Items
  <2>3. w[k + 1] = link[c[k + 1]]
    BY <1>2, <2>1, <2>2
  <2> QED
    BY <2>1, <2>3
<1> HIDE DEF S
<1>5. \A k \in 0 .. n : k \in S
  <2>1. n \in Nat
    BY <1>0
  <2>2. \A k \in 0 .. n - 1 : k \in S => k + 1 \in S
    BY <1>4
  <2> QED
    BY <1>3, <2>1, <2>2, UpTo
<1>6. \A k \in 0 .. n - 1 : w[k] = c[k + 1] /\ c[k + 1] # 0
  <2> TAKE k \in 0 .. n - 1
  <2>1. k \in 0 .. n /\ k < n /\ k + 1 \in 1 .. n
    OBVIOUS
  <2> QED
    BY <1>5, <2>1 DEF S, Items
<1>7. m \in n .. MaxItems
  <2>1. m \in 0 .. MaxItems
    BY <1>1 DEF Pointers
  <2>2. ASSUME m < n PROVE FALSE
    <3>1. m \in 0 .. n - 1 /\ m # MaxItems
      BY <1>0, <2>1, <2>2
    <3> QED
      BY <1>1, <1>6, <3>1
  <2> QED
    BY <2>1, <2>2
<1>9. Len(path) = m /\ path = [k \in 1 .. m |-> path[k]]
  BY <1>0, <1>7, <1>8
<1>10. \A k \in 1 .. n : path[k] = c[k]
  <2> TAKE k \in 1 .. n
  <2>1. k \in 1 .. m /\ k - 1 \in 0 .. n - 1 /\ (k - 1) + 1 = k
    BY <1>7
  <2> QED
    BY <1>6, <1>8, <2>1
<1>11. ASSUME link[c[n]] = 0 PROVE m = n
  <2> SUFFICES ASSUME m > n PROVE FALSE
    BY <1>7
  <2>1. n \in 1 .. MaxItems /\ n \in 0 .. m - 1 /\ n - 1 \in 0 .. n - 1 /\ (n - 1) + 1 = n
    BY <1>0, <1>7
  <2>2. w[n - 1] = c[n] /\ c[n] # 0
    BY <1>6, <2>1
  <2>3. w[n] = 0
    BY <1>2, <1>11, <2>1, <2>2
  <2> QED
    BY <1>1, <2>1, <2>3
<1> QED
  BY <1>7, <1>9, <1>10, <1>11 DEF path, Along

-----------------------------------------------------------------------------
\* Without a cache: items are allocated one after the other.
ListTypes ==
    /\ use_cache = FALSE /\ cache = 0
    /\ tail \in Pointers
    /\ prev \in [Items -> Pointers] /\ next \in [Items -> Pointers]
    /\ data = [i \in Items |-> data[i]]
    /\ fresh \in 1 .. MaxItems + 1 /\ released \subseteq 1 .. fresh - 1
    /\ \A i \in Items : i >= fresh => next[i] = 0 /\ prev[i] = 0

\* The list is c, an array of n items.  Of the pointers at its ends, prev of the
\* first item and the tail of an empty list may still point to what was popped.
Holds(n, c) ==
    /\ n \in Nat /\ nelems = n /\ n <= fresh - 1 /\ (released # {} => n < fresh - 1)
    /\ c \in [1 .. n -> (1 .. fresh - 1) \ released]
    /\ \A i, j \in 1 .. n : c[i] = c[j] => i = j
    /\ head = IF n = 0 THEN 0 ELSE c[1]
    /\ IF n = 0 THEN tail \in {0} \cup released
                ELSE tail = c[n] /\ prev[c[1]] \in {0} \cup released
    /\ \A i \in 1 .. n : next[c[i]] = IF i = n THEN 0 ELSE c[i + 1]
    /\ \A i \in 2 .. n : prev[c[i]] = c[i - 1]

ListInv == ListTypes /\ \E n, c : Holds(n, c)

LEMMA HeldItems ==
    ASSUME ListTypes, NEW n, NEW c, Holds(n, c)
    PROVE  /\ MaxItems \in Nat /\ n \in 0 .. MaxItems /\ nelems = n /\ c \in [1 .. n -> Items]
           /\ \A i \in 1 .. n : c[i] \in Items /\ c[i] < fresh /\ c[i] \notin released /\ c[i] # 0
<1>1. MaxItems \in Nat /\ fresh \in 1 .. MaxItems + 1
  BY ListAssumption DEF ListTypes
<1>2. (1 .. fresh - 1) \ released \subseteq Items /\ \A x \in 1 .. fresh - 1 : x < fresh /\ x # 0
  BY <1>1 DEF Items
<1>3. nelems = n /\ n \in Nat /\ n <= fresh - 1 /\ c \in [1 .. n -> (1 .. fresh - 1) \ released]
  BY DEF Holds
<1> QED
  BY <1>1, <1>2, <1>3

\* What tc_list_foreach() visits is c.
LEMMA ForwardIs ==
    ASSUME ListTypes, NEW n, NEW c, Holds(n, c)
    PROVE  Forward = [k \in 1 .. n |-> c[k]] /\ Len(Forward) = n
<1>0. /\ MaxItems \in Nat /\ n \in 0 .. MaxItems /\ c \in [1 .. n -> Items]
  BY HeldItems
<1>1. CASE n = 0
  <2>1. head = 0
    BY <1>1 DEF Holds
  <2>2. PICK w, m : WalkIs(head, next, w, m)
    BY WalkFacts
  <2>3. w[0] = 0
    BY <1>0, <2>1, <2>2 DEF Walks, WalkIs
  <2>4. m = 0
    <3> SUFFICES ASSUME m # 0 PROVE FALSE
      OBVIOUS
    <3>1. 0 \in 0 .. m - 1
      BY <1>0, <2>2 DEF Pointers, WalkIs
    <3> QED
      BY <2>2, <2>3, <3>1 DEF WalkIs
  <2>5. Forward = [k \in 1 .. 0 |-> w[k - 1]]
    BY <2>2, <2>4 DEF Forward, WalkIs
  <2> QED
    BY <1>1, <2>5
<1>2. CASE n > 0
  <2>1. head = c[1] /\ next[c[n]] = 0 /\ \A i \in 1 .. n - 1 : next[c[i]] = c[i + 1]
    BY <1>0, <1>2 DEF Holds
  <2>2. /\ Forward = [k \in 1 .. Len(Forward) |-> Forward[k]] /\ Len(Forward) \in n .. MaxItems
        /\ \A k \in 1 .. n : Forward[k] = c[k]
        /\ Len(Forward) = n
    <3>1. Forward = Walk(c[1], next) /\ n \in 1 .. MaxItems
      BY <1>0, <1>2, <2>1 DEF Forward
    <3>2. Along(n, c, Walk(c[1], next), next)
      BY <1>0, <2>1, <3>1, WalkAlong
    <3> QED
      BY <2>1, <3>1, <3>2 DEF Along
  <2> QED
    BY <2>2
<1> QED
  BY <1>0, <1>1, <1>2

\* A search from the tail passes c backwards.
LEMMA BackwardIs ==
    ASSUME ListTypes, NEW n, NEW c, Holds(n, c), n > 0
    PROVE  /\ Len(Backward) \in Nat /\ Len(Backward) >= n
           /\ Backward = [k \in 1 .. Len(Backward) |-> Backward[k]]
           /\ \A k \in 1 .. n : Backward[k] = c[n + 1 - k]
           /\ prev[c[1]] = 0 => Len(Backward) = n
           /\ prev[c[1]] # 0 => Len(Backward) > n /\ Backward[n + 1] = prev[c[1]]
<1>0. /\ MaxItems \in Nat /\ n \in 1 .. MaxItems /\ c \in [1 .. n -> Items]
  BY HeldItems
<1> DEFINE d == [k \in 1 .. n |-> c[n + 1 - k]]
<1>1. d \in [1 .. n -> Items] /\ d[1] = c[n] /\ \A k \in 1 .. n : d[k] = c[n + 1 - k]
  BY <1>0
<1>2. \A i \in 1 .. n - 1 : prev[d[i]] = d[i + 1]
  <2> TAKE i \in 1 .. n - 1
  <2>1. i \in 1 .. n /\ i + 1 \in 1 .. n /\ n + 1 - i \in 2 .. n
        /\ (n + 1 - i) - 1 = n + 1 - (i + 1)
    BY <1>0
  <2>2. prev[c[n + 1 - i]] = c[(n + 1 - i) - 1]
    BY <2>1 DEF Holds
  <2> QED
    BY <1>1, <2>1, <2>2
<1>3. tail = d[1]
  BY <1>0, <1>1 DEF Holds
<1> HIDE DEF d
<1>a. Backward = Walk(d[1], prev)
  BY <1>3 DEF Backward
<1>b. d[n] = c[1] /\ c[1] \in Items /\ c[n] \in Items
  <2>1. n \in 1 .. n /\ n + 1 - n = 1 /\ 1 \in 1 .. n
    BY <1>0
  <2> QED
    BY <1>0, <1>1, <2>1
<1>4. /\ Len(Backward) \in n .. MaxItems
      /\ Backward = [k \in 1 .. Len(Backward) |-> Backward[k]]
      /\ \A k \in 1 .. n : Backward[k] = d[k]
      /\ prev[c[1]] = 0 => Len(Backward) = n
  <2>2. Along(n, d, Walk(d[1], prev), prev)
    BY <1>0, <1>1, <1>2, WalkAlong
  <2> QED
    BY <1>a, <1>b, <2>2 DEF Along
\* An item that was released makes room for one more step.
<1>5. ASSUME prev[c[1]] # 0
      PROVE  Len(Backward) > n /\ Backward[n + 1] = prev[c[1]]
  <2> DEFINE r == prev[c[1]]
             e == [k \in 1 .. n + 1 |-> IF k <= n THEN d[k] ELSE r]
  <2>1. r \in Items /\ n + 1 \in 1 .. MaxItems
    <3>1. r \in released /\ n < fresh - 1
      BY <1>0, <1>5 DEF Holds
    <3>2. fresh \in 1 .. MaxItems + 1 /\ released \subseteq 1 .. fresh - 1
      BY DEF ListTypes
    <3> HIDE DEF r
    <3> QED
      BY <1>0, <3>1, <3>2 DEF Items
  <2>2. /\ e \in [1 .. n + 1 -> Items] /\ e[n + 1] = r /\ \A k \in 1 .. n : e[k] = d[k]
    <3>1. \A k \in 1 .. n + 1 : k <= n => k \in 1 .. n
      BY <1>0
    <3>2. \A k \in 1 .. n + 1 : e[k] \in Items
      BY <1>1, <2>1, <3>1
    <3>3. e[n + 1] = r /\ \A k \in 1 .. n : e[k] = d[k]
      BY <1>0
    <3> QED
      BY <3>2, <3>3
  <2>3. \A i \in 1 .. (n + 1) - 1 : prev[e[i]] = e[i + 1]
    <3> TAKE i \in 1 .. (n + 1) - 1
    <3>1. i \in 1 .. n /\ (i = n \/ (i \in 1 .. n - 1 /\ i + 1 \in 1 .. n))
      BY <1>0
    <3> HIDE DEF e, r
    <3> QED
      BY <1>2, <1>b, <2>2, <3>1 DEF r
  <2> HIDE DEF e
  <2>4. Along(n + 1, e, Walk(e[1], prev), prev)
    BY <2>1, <2>2, <2>3, WalkAlong
  <2>5. e[1] = d[1] /\ n + 1 \in 1 .. n + 1
    BY <1>0, <2>2
  <2>6. Len(Backward) \in n + 1 .. MaxItems /\ Backward[n + 1] = r
    BY <1>a, <2>2, <2>4, <2>5 DEF Along
  <2> QED
    BY <1>0, <2>6
<1> QED
  BY <1>0, <1>1, <1>4, <1>5

\* From the tail of an empty list a search meets what was popped.
LEMMA BackwardEmpty ==
    ASSUME ListTypes, NEW c, Holds(0, c)
    PROVE  IF tail = 0 THEN Backward = <<>>
                       ELSE /\ tail \in released /\ Len(Backward) \in Nat \ {0}
                            /\ Backward = [k \in 1 .. Len(Backward) |-> Backward[k]]
                            /\ Backward[1] = tail
<1>0. MaxItems \in Nat /\ tail \in {0} \cup released
      /\ fresh \in 1 .. MaxItems + 1 /\ released \subseteq 1 .. fresh - 1
  BY ListAssumption DEF ListTypes, Holds
<1>1. CASE tail = 0
  <2>1. Backward = [k \in 1 .. 0 |-> 0]
    BY <1>1, NoWalk DEF Backward
  <2> QED
    BY <1>1, <2>1
<1>2. CASE tail # 0
  <2> DEFINE d == [k \in 1 .. 1 |-> tail]
  <2>1. tail \in Items /\ 1 \in 1 .. MaxItems
    BY <1>0, <1>2 DEF Items
  <2>2. d \in [1 .. 1 -> Items] /\ d[1] = tail
    BY <2>1
  <2> HIDE DEF d
  <2>3. Along(1, d, Walk(d[1], prev), prev)
    <3>1. \A i \in 1 .. 1 - 1 : prev[d[i]] = d[i + 1]
      OBVIOUS
    <3> QED
      BY <2>1, <2>2, <3>1, WalkAlong
  <2>4. Backward = Walk(d[1], prev)
    BY <2>2 DEF Backward
  <2> QED
    BY <1>0, <1>2, <2>2, <2>3, <2>4 DEF Along
<1> QED
  BY <1>1, <1>2

\* The place in a list of n > 0 items at which a search ends.
Clamped(pos, n) ==
    CASE pos \in 0 .. n - 1   -> pos + 1
      [] pos \in -n .. -1     -> n + pos + 1
      [] pos >= n             -> n
      [] pos < -n             -> 1

\* The search meets a released item only behind the first item, counted from the
\* end, and only in a list that is Stale.
LEMMA LostWhere ==
    ASSUME ListTypes, NEW n, NEW c, Holds(n, c), NEW pos \in Int, Lost(pos)
    PROVE  pos < 0 /\ pos \notin Existing /\ Stale
<1>0. /\ n \in Nat /\ nelems = n /\ \A i \in 1 .. n : c[i] \notin released /\ c[i] # 0
  BY HeldItems DEF Holds
<1>1. ASSUME pos >= 0 PROVE FALSE
  <2>1. Forward = [k \in 1 .. n |-> c[k]]
    BY ForwardIs
  <2>2. PICK k \in DOMAIN Forward : Forward[k] \in released
    BY <1>1 DEF Lost
  <2> QED
    BY <1>0, <2>1, <2>2
<1>2. PICK k \in DOMAIN Backward : k <= (-pos - 1) + 1 /\ Backward[k] \in released
  BY <1>1 DEF Lost
<1>3. CASE n = 0
  <2>1. head = 0
    BY <1>3 DEF Holds
  <2>2. tail # 0
    <3>1. Holds(0, c)
      BY <1>3
    <3>2. tail = 0 => Backward = <<>>
      BY <3>1, BackwardEmpty
    <3> QED
      BY <1>2, <3>2
  <2> QED
    BY <1>0, <1>1, <1>3, <2>1, <2>2 DEF Existing, Stale
<1>4. CASE n > 0
  <2>1. /\ Len(Backward) \in Nat
        /\ Backward = [j \in 1 .. Len(Backward) |-> Backward[j]]
        /\ \A j \in 1 .. n : Backward[j] = c[n + 1 - j]
        /\ prev[c[1]] = 0 => Len(Backward) = n
    BY <1>4, BackwardIs
  <2>2. k \in 1 .. Len(Backward)
    BY <1>2, <2>1
  <2>3. k > n
    <3> SUFFICES ASSUME k <= n PROVE FALSE
      BY <1>0, <2>1, <2>2
    <3>1. k \in 1 .. n /\ n + 1 - k \in 1 .. n
      BY <1>0, <2>1, <2>2
    <3> QED
      BY <1>0, <1>2, <2>1, <3>1
  <2>4. pos < -n
    BY <1>0, <1>2, <2>1, <2>2, <2>3
  <2>5. prev[c[1]] # 0
    BY <1>0, <2>1, <2>2, <2>3
  <2>6. head = c[1] /\ head # 0
    BY <1>0, <1>4 DEF Holds
  <2> QED
    BY <1>0, <2>4, <2>5, <2>6 DEF Existing, Stale
<1> QED
  BY <1>0, <1>3, <1>4

\* find_position() finds the item that the position names, or the last it meets.
LEMMA FoundNear ==
    ASSUME ListTypes, NEW n, NEW c, Holds(n, c), NEW pos \in Int, ~Lost(pos)
    PROVE  /\ n = 0 => FindPosition(pos) = 0
           /\ n > 0 => Clamped(pos, n) \in 1 .. n /\ FindPosition(pos) = c[Clamped(pos, n)]
<1>0. n \in Nat
  BY DEF Holds
<1>f. Forward = [k \in 1 .. n |-> c[k]] /\ Len(Forward) = n
  BY ForwardIs
<1>1. ASSUME n = 0 PROVE FindPosition(pos) = 0
  <2>1. Holds(0, c) /\ head = 0
    BY <1>1 DEF Holds
  <2>2. Forward = <<>>
    BY <1>1, <1>f
  <2>3. pos < 0 => tail = 0
    <3> SUFFICES ASSUME pos < 0, tail # 0 PROVE FALSE
      OBVIOUS
    <3>1. /\ Backward[1] \in released /\ Len(Backward) \in Nat \ {0}
          /\ Backward = [k \in 1 .. Len(Backward) |-> Backward[k]]
      BY <2>1, BackwardEmpty
    <3>2. 1 \in DOMAIN Backward /\ 1 <= (-pos - 1) + 1
      BY <3>1
    <3> QED
      BY <3>1, <3>2 DEF Lost
  <2>4. pos < 0 => Backward = <<>>
    BY <2>1, <2>3, BackwardEmpty
  <2> QED
    BY <2>1, <2>2, <2>3, <2>4 DEF FindPosition, StepsInto
<1>2. ASSUME n > 0 PROVE Clamped(pos, n) \in 1 .. n /\ FindPosition(pos) = c[Clamped(pos, n)]
  <2>1. head = c[1] /\ tail = c[n] /\ prev[c[1]] \in {0} \cup released
    BY <1>0, <1>2 DEF Holds
  <2>2. /\ Len(Backward) \in Nat /\ Len(Backward) >= n
        /\ Backward = [k \in 1 .. Len(Backward) |-> Backward[k]]
        /\ \A k \in 1 .. n : Backward[k] = c[n + 1 - k]
        /\ prev[c[1]] = 0 => Len(Backward) = n
        /\ prev[c[1]] # 0 => Len(Backward) > n /\ Backward[n + 1] = prev[c[1]]
    BY <1>2, BackwardIs
  <2>3. Forward # <<>> /\ Backward # <<>>
    <3>1. Len(<<>>) = 0
      OBVIOUS
    <3> QED
      BY <1>0, <1>2, <1>f, <2>2, <3>1
  <2>4. CASE pos = 0
    BY <1>0, <1>2, <2>1, <2>4 DEF FindPosition, Clamped
  <2>5. CASE pos = -1
    BY <1>0, <1>2, <2>1, <2>5 DEF FindPosition, Clamped
  <2>6. CASE pos > 0
    <3>1. FindPosition(pos) = StepsInto(Forward, pos)
      BY <2>6 DEF FindPosition
    <3>2. CASE pos < n
      <4>1. Clamped(pos, n) = pos + 1 /\ pos + 1 \in 1 .. n
        BY <1>0, <2>6, <3>2 DEF Clamped
      <4>2. StepsInto(Forward, pos) = Forward[pos + 1]
        BY <1>f, <2>3, <3>2 DEF StepsInto
      <4> QED
        BY <1>f, <3>1, <4>1, <4>2
    <3>3. CASE ~(pos < n)
      <4>1. Clamped(pos, n) = n /\ n \in 1 .. n
        BY <1>0, <1>2, <2>6, <3>3 DEF Clamped
      <4>2. StepsInto(Forward, pos) = Forward[n]
        BY <1>f, <2>3, <3>3 DEF StepsInto, Last
      <4> QED
        BY <1>f, <3>1, <4>1, <4>2
    <3> QED
      BY <3>2, <3>3
  <2>7. CASE pos < -1
    <3> DEFINE m == -pos - 1
    <3>0. m \in Nat /\ m >= 1 /\ ~(pos >= 0)
      BY <2>7
    <3>1. FindPosition(pos) = StepsInto(Backward, m)
      BY <2>7 DEF FindPosition
    <3>2. CASE m < n
      <4>1. Clamped(pos, n) = n + 1 - (m + 1) /\ m + 1 \in 1 .. n /\ n + 1 - (m + 1) \in 1 .. n
        BY <1>0, <2>7, <3>2 DEF Clamped
      <4> HIDE DEF m
      <4>2. StepsInto(Backward, m) = Backward[m + 1]
        BY <1>0, <2>2, <2>3, <3>0, <3>2 DEF StepsInto
      <4> QED
        BY <2>2, <3>1, <4>1, <4>2
    <3>3. CASE ~(m < n)
      <4>1. Clamped(pos, n) = 1 /\ 1 \in 1 .. n /\ n + 1 - n = 1 /\ n \in 1 .. n
        BY <1>0, <1>2, <2>7, <3>3 DEF Clamped
      <4>2. prev[c[1]] = 0
        <5> SUFFICES ASSUME prev[c[1]] # 0 PROVE FALSE
          OBVIOUS
        <5>1. n + 1 \in DOMAIN Backward /\ Backward[n + 1] \in released
          BY <1>0, <2>1, <2>2
        <5>2. n + 1 <= (-pos - 1) + 1
          BY <1>0, <3>3
        <5> QED
          BY <3>0, <5>1, <5>2 DEF Lost
      <4> HIDE DEF m
      <4>3. StepsInto(Backward, m) = Backward[n]
        BY <1>0, <2>2, <2>3, <3>0, <3>3, <4>2 DEF StepsInto, Last
      <4> QED
        BY <2>2, <3>1, <4>1, <4>3
    <3> QED
      BY <3>2, <3>3
  <2> QED
    BY <2>4, <2>5, <2>6, <2>7
<1> QED
  BY <1>1, <1>2

-----------------------------------------------------------------------------
(* What the list holds, as the sequence of the abstract specification.      *)

\* The abstract specification as ImplementsSequence maps it for careful callers.
Raw == INSTANCE ListSequence WITH items <- Contents, size <- nelems, place <- asked, got <- result

\* c with f at place k, and c without its place k.
Wider(n, c, k, f) ==
    [i \in 1 .. n + 1 |-> IF i < k THEN c[i] ELSE IF i = k THEN f ELSE c[i - 1]]
Narrower(n, c, k) == [i \in 1 .. n - 1 |-> IF i < k THEN c[i] ELSE c[i + 1]]

\* In a state, and in the next.
LEMMA ContentsNow ==
    \A n, c : ListTypes /\ Holds(n, c) =>
       n \in Nat /\ c \in [1 .. n -> Items] /\ Contents = [k \in 1 .. n |-> data[c[k]]]
<1> SUFFICES ASSUME ListTypes, NEW n, NEW c, Holds(n, c)
             PROVE  /\ n \in Nat /\ c \in [1 .. n -> Items]
                    /\ Contents = [k \in 1 .. n |-> data[c[k]]]
  OBVIOUS
<1>1. n \in Nat /\ c \in [1 .. n -> Items]
  BY HeldItems
<1>2. Forward = [k \in 1 .. n |-> c[k]]
  BY ForwardIs
<1> QED
  BY <1>1, <1>2 DEF Contents

LEMMA ContentsThen ==
    (\A n, c : ListTypes /\ Holds(n, c) =>
       n \in Nat /\ c \in [1 .. n -> Items] /\ Contents = [k \in 1 .. n |-> data[c[k]]])'
BY ContentsNow, PTL

\* Where an item comes to stand at place k, its datum comes to stand there.
LEMMA ContentsPut ==
    ASSUME ListTypes, ListTypes', NEW n, NEW c, Holds(n, c), NEW k \in 1 .. n + 1,
           NEW f \in Items, \A i \in 1 .. n : c[i] # f, NEW x,
           data' = [data EXCEPT ![f] = x], Holds(n + 1, Wider(n, c, k, f))'
    PROVE  Contents' = InsertAt(Contents, k, x)
<1> DEFINE T == {data[i] : i \in Items} \cup {x}
           d == Wider(n, c, k, f)
<1>0. n \in Nat /\ c \in [1 .. n -> Items]
  BY HeldItems
<1>1. /\ \A i \in Items : data[i] \in T /\ data'[i] \in T
      /\ x \in T
      /\ data'[f] = x /\ \A i \in Items : i # f => data'[i] = data[i]
  BY DEF ListTypes
<1>2. /\ Contents \in Seq(T) /\ Len(Contents) = n
      /\ \A i \in 1 .. n : Contents[i] = data[c[i]]
  <2>1. Contents = [i \in 1 .. n |-> data[c[i]]]
    BY ContentsNow
  <2> HIDE DEF T
  <2> QED
    BY <1>0, <1>1, <2>1
<1>3. /\ Contents' \in Seq(T) /\ Len(Contents') = n + 1
      /\ \A i \in 1 .. n + 1 : Contents'[i] = data'[d[i]]
  <2>1. Contents' = [i \in 1 .. n + 1 |-> data'[d[i]]] /\ d \in [1 .. n + 1 -> Items]
    BY ContentsThen
  <2> HIDE DEF T, d
  <2> QED
    BY <1>0, <1>1, <2>1
<1>4. /\ InsertAt(Contents, k, x) \in Seq(T) /\ Len(InsertAt(Contents, k, x)) = n + 1
      /\ InsertAt(Contents, k, x)[k] = x
      /\ \A i \in 1 .. k - 1 : InsertAt(Contents, k, x)[i] = Contents[i]
      /\ \A i \in k + 1 .. n + 1 : InsertAt(Contents, k, x)[i] = Contents[i - 1]
  <2>1. k \in 1 .. Len(Contents) + 1 /\ x \in T
    BY <1>0, <1>1, <1>2
  <2> HIDE DEF T
  <2>2. PutAt(T, Len(Contents), Contents, k, x, InsertAt(Contents, k, x))
    BY <1>2, <2>1, InsertedAt
  <2> QED
    BY <1>2, <2>2 DEF PutAt
<1>5. ASSUME NEW i \in 1 .. n + 1 PROVE Contents'[i] = InsertAt(Contents, k, x)[i]
  <2>0. d[i] = IF i < k THEN c[i] ELSE IF i = k THEN f ELSE c[i - 1]
    BY DEF Wider
  <2> HIDE DEF d
  <2>1. CASE i < k
    <3>1. i \in 1 .. n /\ i \in 1 .. k - 1
      BY <1>0, <2>1
    <3>2. Contents'[i] = data[c[i]] /\ Contents[i] = data[c[i]]
      BY <1>0, <1>1, <1>2, <1>3, <2>0, <2>1, <3>1
    <3> QED
      BY <1>4, <3>1, <3>2
  <2>2. CASE i = k
    BY <1>1, <1>3, <1>4, <2>0, <2>2
  <2>3. CASE i > k
    <3>1. i - 1 \in 1 .. n /\ ~(i < k) /\ i # k /\ i \in k + 1 .. n + 1
      BY <1>0, <2>3
    <3>2. Contents'[i] = data[c[i - 1]] /\ Contents[i - 1] = data[c[i - 1]]
      BY <1>0, <1>1, <1>2, <1>3, <2>0, <3>1
    <3> QED
      BY <1>4, <3>1, <3>2
  <2> QED
    BY <1>0, <2>1, <2>2, <2>3
<1> HIDE DEF T, d
<1> QED
  BY <1>3, <1>4, <1>5, SeqEqual

\* Where the item at place k goes, so does its datum.
LEMMA ContentsTaken ==
    ASSUME ListTypes, ListTypes', NEW n, NEW c, Holds(n, c), NEW k \in 1 .. n,
           UNCHANGED data, Holds(n - 1, Narrower(n, c, k))'
    PROVE  Contents' = RemoveAt(Contents, k)
<1> DEFINE T == {data[i] : i \in Items}
           d == Narrower(n, c, k)
<1>0. n \in Nat /\ c \in [1 .. n -> Items] /\ n - 1 \in Nat
  BY HeldItems
<1>2. /\ Contents \in Seq(T) /\ Len(Contents) = n
      /\ \A i \in 1 .. n : Contents[i] = data[c[i]]
  <2>1. Contents = [i \in 1 .. n |-> data[c[i]]]
    BY ContentsNow
  <2> QED
    BY <1>0, <2>1
<1>3. /\ Contents' \in Seq(T) /\ Len(Contents') = n - 1
      /\ \A i \in 1 .. n - 1 : Contents'[i] = data[d[i]]
  <2>1. Contents' = [i \in 1 .. n - 1 |-> data[d[i]]] /\ d \in [1 .. n - 1 -> Items]
    BY ContentsThen
  <2> HIDE DEF d
  <2> QED
    BY <1>0, <2>1
<1>4. /\ RemoveAt(Contents, k) \in Seq(T) /\ Len(RemoveAt(Contents, k)) = n - 1
      /\ \A i \in 1 .. n - 1 :
            RemoveAt(Contents, k)[i] = IF i < k THEN Contents[i] ELSE Contents[i + 1]
  <2> HIDE DEF T
  <2> QED
    BY <1>2, Removed
<1>5. ASSUME NEW i \in 1 .. n - 1 PROVE Contents'[i] = RemoveAt(Contents, k)[i]
  <2>0. d[i] = (IF i < k THEN c[i] ELSE c[i + 1]) /\ i \in 1 .. n /\ i + 1 \in 1 .. n
    BY <1>0 DEF Narrower
  <2> HIDE DEF d
  <2> QED
    BY <1>2, <1>3, <1>4, <2>0
<1> HIDE DEF T, d
<1> QED
  BY <1>3, <1>4, <1>5, SeqEqual

-----------------------------------------------------------------------------
(* Items that come and go.                                                  *)

\* The new item f is linked in at place k.
Linking(n, c, k, f) ==
    /\ f = fresh /\ f \in Items /\ fresh' = f + 1
    /\ UNCHANGED <<cache, use_cache, released>>
    /\ nelems' = nelems + 1
    /\ head' = IF k = 1 THEN f ELSE head
    /\ tail' = IF k = n + 1 THEN f ELSE tail
    /\ prev' \in [Items -> Pointers] /\ next' \in [Items -> Pointers]
    /\ data' = [i \in Items |-> data'[i]]
    /\ next'[f] = IF k <= n THEN c[k] ELSE 0
    /\ k > 1 => next'[c[k - 1]] = f /\ prev'[f] = c[k - 1]
    /\ k = 1 => prev'[f] \in {0} \cup released
    /\ k <= n => prev'[c[k]] = f
    /\ \A i \in Items \ {f} : (k > 1 => i # c[k - 1]) => next'[i] = next[i]
    /\ \A i \in Items \ {f} : (k <= n => i # c[k]) => prev'[i] = prev[i]

LEMMA LinkedTypes ==
    ASSUME ListTypes, NEW n, NEW c, Holds(n, c), NEW k \in 1 .. n + 1, NEW f,
           Linking(n, c, k, f)
    PROVE  ListTypes'
<1>0. /\ MaxItems \in Nat /\ n \in 0 .. MaxItems /\ c \in [1 .. n -> Items]
      /\ \A i \in 1 .. n : c[i] \in Items /\ c[i] < fresh
  BY HeldItems
<1>1. /\ f = fresh /\ f \in Items /\ fresh' = f + 1 /\ fresh \in 1 .. MaxItems + 1
      /\ released' = released /\ released \subseteq 1 .. fresh - 1
      /\ cache' = cache /\ use_cache' = use_cache
  BY DEF Linking, ListTypes
<1>2. fresh' \in 1 .. MaxItems + 1 /\ released' \subseteq 1 .. fresh' - 1
  BY <1>0, <1>1 DEF Items
<1>3. ASSUME NEW i \in Items, i >= fresh' PROVE next'[i] = 0 /\ prev'[i] = 0
  <2>1. i # f /\ i >= fresh /\ i \in Int /\ fresh \in Int
    BY <1>0, <1>1, <1>3 DEF Items
  <2>2. (k > 1 => i # c[k - 1]) /\ (k <= n => i # c[k])
    <3>1. (k > 1 => k - 1 \in 1 .. n) /\ (k <= n => k \in 1 .. n)
      BY <1>0
    <3>2. \A j \in 1 .. n : c[j] \in Int /\ c[j] < fresh
      BY <1>0 DEF Items
    <3> QED
      BY <2>1, <3>1, <3>2
  <2>3. next'[i] = next[i] /\ prev'[i] = prev[i]
    BY <2>1, <2>2 DEF Linking
  <2> QED
    BY <2>1, <2>3 DEF ListTypes
<1>4. tail' \in Pointers
  BY <1>0, <1>1 DEF Linking, ListTypes, Items, Pointers
<1>5. use_cache' = FALSE /\ cache' = 0
  BY <1>1 DEF ListTypes
<1>6. prev' \in [Items -> Pointers] /\ next' \in [Items -> Pointers]
      /\ data' = [i \in Items |-> data'[i]]
  BY DEF Linking
<1> QED
  BY <1>2, <1>3, <1>4, <1>5, <1>6 DEF ListTypes

LEMMA LinkedIn ==
    ASSUME ListTypes, NEW n, NEW c, Holds(n, c), NEW k \in 1 .. n + 1, NEW f,
           Linking(n, c, k, f)
    PROVE  Holds(n + 1, Wider(n, c, k, f))'
<1> DEFINE d == Wider(n, c, k, f)
<1>0. /\ MaxItems \in Nat /\ n \in 0 .. MaxItems /\ c \in [1 .. n -> Items]
      /\ \A i \in 1 .. n : c[i] \in Items /\ c[i] < fresh /\ c[i] \notin released
  BY HeldItems
<1>1. /\ f = fresh /\ f \in Items /\ fresh' = f + 1 /\ fresh \in 1 .. MaxItems + 1
      /\ released' = released /\ released \subseteq 1 .. fresh - 1
      /\ nelems' = n + 1 /\ n <= fresh - 1 /\ (released # {} => n < fresh - 1)
  BY DEF Linking, ListTypes, Holds
<1>2. /\ \A i \in 1 .. k - 1 : d[i] = c[i]
      /\ d[k] = f
      /\ \A i \in k + 1 .. n + 1 : d[i] = c[i - 1]
  BY <1>0 DEF Wider
<1>3. d = [i \in 1 .. n + 1 |-> d[i]]
  BY DEF Wider
<1> HIDE DEF d
<1>4. \A i \in 1 .. n : c[i] \in (1 .. fresh' - 1) \ released' /\ c[i] # f
  BY <1>0, <1>1 DEF Items
<1>5. f \in (1 .. fresh' - 1) \ released'
  BY <1>0, <1>1 DEF Items
<1>6. \A i \in 1 .. n + 1 :
         \/ i \in 1 .. k - 1 /\ i \in 1 .. n
         \/ i = k
         \/ i \in k + 1 .. n + 1 /\ i - 1 \in 1 .. n
  BY <1>0
<1>7. d \in [1 .. n + 1 -> (1 .. fresh' - 1) \ released']
  <2>1. \A i \in 1 .. n + 1 : d[i] \in (1 .. fresh' - 1) \ released'
    BY <1>2, <1>4, <1>5, <1>6
  <2> QED
    BY <1>3, <2>1
<1>8. \A i, j \in 1 .. n + 1 : d[i] = d[j] => i = j
  <2>1. \A i, j \in 1 .. n : c[i] = c[j] => i = j
    BY DEF Holds
  <2>2. \A i \in 1 .. n + 1 : d[i] = f => i = k
    BY <1>2, <1>4, <1>6
  <2> TAKE i, j \in 1 .. n + 1
  <2> SUFFICES ASSUME d[i] = d[j] PROVE i = j
    OBVIOUS
  <2>3. CASE i = k
    BY <1>2, <2>2, <2>3
  <2>4. CASE j = k
    BY <1>2, <2>2, <2>4
  <2>5. CASE i # k /\ j # k
    <3>1. CASE i < k /\ j < k
      BY <1>0, <1>2, <1>6, <2>1, <3>1
    <3>2. CASE i > k /\ j > k
      BY <1>0, <1>2, <1>6, <2>1, <3>2
    <3>3. CASE i < k /\ j > k
      <4>1. i \in 1 .. n /\ i \in 1 .. k - 1 /\ j - 1 \in 1 .. n /\ j \in k + 1 .. n + 1
            /\ i # j - 1
        BY <1>0, <3>3
      <4> QED
        BY <1>2, <2>1, <4>1
    <3>4. CASE i > k /\ j < k
      <4>1. j \in 1 .. n /\ j \in 1 .. k - 1 /\ i - 1 \in 1 .. n /\ i \in k + 1 .. n + 1
            /\ j # i - 1
        BY <1>0, <3>4
      <4> QED
        BY <1>2, <2>1, <4>1
    <3> QED
      BY <1>0, <2>5, <3>1, <3>2, <3>3, <3>4
  <2> QED
    BY <2>3, <2>4, <2>5
<1>9. head' = d[1] /\ tail' = d[n + 1]
  <2>1. head' = d[1]
    <3>1. CASE k = 1
      BY <1>2, <3>1 DEF Linking
    <3>2. CASE k # 1
      <4>1. n # 0 /\ 1 \in 1 .. k - 1
        BY <1>0, <3>2
      <4>2. head = c[1]
        BY <4>1 DEF Holds
      <4> QED
        BY <1>2, <3>2, <4>1, <4>2 DEF Linking
    <3> QED
      BY <3>1, <3>2
  <2>2. tail' = d[n + 1]
    <3>1. CASE k = n + 1
      BY <1>2, <3>1 DEF Linking
    <3>2. CASE k # n + 1
      <4>1. n > 0 /\ n + 1 \in k + 1 .. n + 1 /\ (n + 1) - 1 = n
        BY <1>0, <3>2
      <4>2. tail = c[n]
        BY <4>1 DEF Holds
      <4> QED
        BY <1>2, <3>2, <4>1, <4>2 DEF Linking
    <3> QED
      BY <3>1, <3>2
  <2> QED
    BY <2>1, <2>2
<1>10. \A i \in 1 .. n + 1 : next'[d[i]] = IF i = n + 1 THEN 0 ELSE d[i + 1]
  <2>1. \A i \in 1 .. n : next[c[i]] = IF i = n THEN 0 ELSE c[i + 1]
    BY DEF Holds
  <2>2. \A i, j \in 1 .. n : c[i] = c[j] => i = j
    BY DEF Holds
  <2> TAKE i \in 1 .. n + 1
  <2>3. CASE i < k - 1
    <3>1. i \in 1 .. n /\ k - 1 \in 1 .. n /\ i # k - 1 /\ i # n /\ k > 1
          /\ i \in 1 .. k - 1 /\ i + 1 \in 1 .. k - 1 /\ i # n + 1
      BY <1>0, <2>3
    <3>2. c[i] \in Items \ {f} /\ c[i] # c[k - 1]
      BY <1>0, <1>4, <2>2, <3>1
    <3>3. next'[c[i]] = next[c[i]]
      BY <3>2 DEF Linking
    <3> QED
      BY <1>2, <2>1, <3>1, <3>3
  <2>4. CASE i = k - 1
    <3>1. k > 1 /\ i \in 1 .. k - 1 /\ i + 1 = k /\ i # n + 1
      BY <1>0, <2>4
    <3>2. next'[c[k - 1]] = f
      BY <3>1 DEF Linking
    <3> QED
      BY <1>2, <2>4, <3>1, <3>2
  <2>5. CASE i = k
    <3>1. next'[f] = IF k <= n THEN c[k] ELSE 0
      BY DEF Linking
    <3>2. k <= n => k + 1 \in k + 1 .. n + 1 /\ (k + 1) - 1 = k /\ k # n + 1
      BY <1>0
    <3>3. ~(k <= n) => k = n + 1
      BY <1>0
    <3> QED
      BY <1>2, <2>5, <3>1, <3>2, <3>3
  <2>6. CASE i > k
    <3>1. i \in k + 1 .. n + 1 /\ i - 1 \in 1 .. n /\ (i - 1) + 1 = i
          /\ (k > 1 => k - 1 \in 1 .. n /\ k - 1 # i - 1)
      BY <1>0, <2>6
    <3>2. c[i - 1] \in Items \ {f} /\ (k > 1 => c[i - 1] # c[k - 1])
      BY <1>0, <1>4, <2>2, <3>1
    <3>3. next'[c[i - 1]] = next[c[i - 1]]
      BY <3>2 DEF Linking
    <3>4. next[c[i - 1]] = IF i - 1 = n THEN 0 ELSE c[i]
      BY <2>1, <3>1
    <3>5. i # n + 1 => i + 1 \in k + 1 .. n + 1 /\ (i + 1) - 1 = i
      BY <1>0, <2>6
    <3>6. i - 1 = n <=> i = n + 1
      BY <1>0
    <3> QED
      BY <1>2, <3>1, <3>3, <3>4, <3>5, <3>6
  <2> QED
    BY <1>0, <2>3, <2>4, <2>5, <2>6
<1>11. \A i \in 2 .. n + 1 : prev'[d[i]] = d[i - 1]
  <2>1. \A i \in 2 .. n : prev[c[i]] = c[i - 1]
    BY DEF Holds
  <2>2. \A i, j \in 1 .. n : c[i] = c[j] => i = j
    BY DEF Holds
  <2> TAKE i \in 2 .. n + 1
  <2>3. CASE i < k
    <3>1. i \in 2 .. n /\ i \in 1 .. n /\ i \in 1 .. k - 1 /\ i - 1 \in 1 .. k - 1
          /\ (k <= n => k \in 1 .. n /\ i # k)
      BY <1>0, <2>3
    <3>2. c[i] \in Items \ {f} /\ (k <= n => c[i] # c[k])
      BY <1>0, <1>4, <2>2, <3>1
    <3>3. prev'[c[i]] = prev[c[i]]
      BY <3>2 DEF Linking
    <3> QED
      BY <1>2, <2>1, <3>1, <3>3
  <2>4. CASE i = k
    <3>1. k > 1 /\ k - 1 \in 1 .. k - 1
      BY <1>0, <2>4
    <3>2. prev'[f] = c[k - 1]
      BY <3>1 DEF Linking
    <3> QED
      BY <1>2, <2>4, <3>1, <3>2
  <2>5. CASE i = k + 1
    <3>1. k <= n /\ i \in k + 1 .. n + 1 /\ i - 1 = k
      BY <1>0, <2>5
    <3>2. prev'[c[k]] = f
      BY <3>1 DEF Linking
    <3> QED
      BY <1>2, <3>1, <3>2
  <2>6. CASE i > k + 1
    <3>1. i \in k + 1 .. n + 1 /\ i - 1 \in k + 1 .. n + 1 /\ i - 1 \in 2 .. n
          /\ i - 1 \in 1 .. n /\ k \in 1 .. n /\ i - 1 # k
      BY <1>0, <2>6
    <3>2. c[i - 1] \in Items \ {f} /\ c[i - 1] # c[k]
      BY <1>0, <1>4, <2>2, <3>1
    <3>3. prev'[c[i - 1]] = prev[c[i - 1]]
      BY <3>2 DEF Linking
    <3> QED
      BY <1>2, <2>1, <3>1, <3>3
  <2> QED
    BY <1>0, <2>3, <2>4, <2>5, <2>6
<1>12. n + 1 \in Nat /\ n + 1 <= fresh' - 1 /\ n + 1 # 0
       /\ (released' # {} => n + 1 < fresh' - 1)
  BY <1>0, <1>1
<1>13. prev'[d[1]] \in {0} \cup released'
  <2>1. CASE k = 1
    BY <1>1, <1>2, <2>1 DEF Linking
  <2>2. CASE k # 1
    <3>1. n > 0 /\ 1 \in 1 .. k - 1 /\ 1 \in 1 .. n /\ (k <= n => k \in 1 .. n)
      BY <1>0, <2>2
    <3>2. c[1] \in Items \ {f} /\ (k <= n => c[1] # c[k])
      BY <1>0, <1>4, <2>2, <3>1 DEF Holds
    <3>3. prev'[c[1]] = prev[c[1]]
      BY <3>2 DEF Linking
    <3>4. prev[c[1]] \in {0} \cup released
      BY <1>0, <3>1 DEF Holds
    <3> QED
      BY <1>1, <1>2, <3>1, <3>3, <3>4
  <2> QED
    BY <2>1, <2>2
<1> QED
  BY <1>1, <1>7, <1>8, <1>9, <1>10, <1>11, <1>12, <1>13 DEF Holds, d

\* The item at place k is unlinked, and given back.
Unlinking(n, c, k, f) ==
    /\ f = c[k]
    /\ DelItem(f)
    /\ head' = IF head = f THEN next[f] ELSE head
    /\ tail' = IF tail = f /\ head # f THEN prev[f] ELSE tail
    /\ nelems' = nelems - 1
    /\ UNCHANGED <<use_cache, fresh>>

\* What the pointers of the items that stay are then.
LEMMA Unlinked ==
    ASSUME ListTypes, NEW n, NEW c, Holds(n, c), NEW k \in 1 .. n, NEW f,
           Unlinking(n, c, k, f)
    PROVE  /\ f = c[k] /\ released' = released \cup {f}
           /\ UNCHANGED <<data, cache, use_cache, fresh>> /\ nelems' = n - 1
           /\ head' = (IF k = 1 THEN next[f] ELSE head)
           /\ tail' = (IF k = n /\ k # 1 THEN prev[f] ELSE tail)
           /\ prev' \in [Items -> Pointers] /\ next' \in [Items -> Pointers]
           /\ \A i \in Items : next[i] = 0 => next'[i] = 0
           /\ \A i \in Items : i >= fresh => prev'[i] = prev[i]
           /\ \A i \in 1 .. n : i # k /\ i # k - 1 => next'[c[i]] = next[c[i]]
           /\ k > 1 => next'[c[k - 1]] = IF k = n THEN 0 ELSE c[k + 1]
           /\ \A i \in 1 .. n : i # k /\ i # k + 1 => prev'[c[i]] = prev[c[i]]
           /\ k > 1 /\ k < n => prev'[c[k + 1]] = c[k - 1]
           /\ k = 1 /\ k < n => prev'[c[2]] = 0
<1>0. /\ MaxItems \in Nat /\ n \in 0 .. MaxItems /\ c \in [1 .. n -> Items]
      /\ \A i \in 1 .. n : c[i] \in Items /\ c[i] # 0 /\ c[i] < fresh
  BY HeldItems
<1>1. /\ use_cache = FALSE
      /\ prev \in [Items -> Pointers] /\ next \in [Items -> Pointers]
  BY DEF ListTypes
<1>2. /\ f = c[k] /\ f \in Items
      /\ prev' = PrevWithout(f) /\ next' = NextWithout(f)
      /\ UNCHANGED data /\ released' = released \cup {f} /\ UNCHANGED cache
      /\ UNCHANGED <<use_cache, fresh>>
  BY <1>0, <1>1 DEF Unlinking, DelItem
<1>3. \A i, j \in 1 .. n : c[i] = c[j] => i = j
  BY DEF Holds
<1>4. /\ nelems = n /\ n > 0 /\ 1 \in 1 .. n /\ n \in 1 .. n
      /\ head = c[1] /\ tail = c[n]
  BY <1>0 DEF Holds
<1>5. (head = f <=> k = 1) /\ (tail = f <=> k = n)
  BY <1>2, <1>3, <1>4
<1>6. next[f] = IF k = n THEN 0 ELSE c[k + 1]
  BY <1>2 DEF Holds
<1>7. k > 1 => k - 1 \in 1 .. n /\ prev[f] = c[k - 1]
  <2> SUFFICES ASSUME k > 1 PROVE k - 1 \in 1 .. n /\ prev[f] = c[k - 1]
    OBVIOUS
  <2>1. k \in 2 .. n /\ k - 1 \in 1 .. n
    BY <1>0
  <2> QED
    BY <1>2, <2>1 DEF Holds
<1>8. k < n => k + 1 \in 1 .. n
  BY <1>0
<1>9. 0 \in Pointers /\ Items \subseteq Pointers
  BY <1>0 DEF Items, Pointers
<1>10. \A j \in Items :
          prev'[j] = IF j # next[f] \/ (k = n /\ k # 1) THEN prev[j]
                     ELSE IF k = 1 THEN 0 ELSE prev[f]
  BY <1>2, <1>5 DEF PrevWithout
<1>11. \A j \in Items :
          next'[j] = IF j # prev[f] \/ k = 1 THEN next[j]
                     ELSE IF k = n THEN 0 ELSE next[f]
  BY <1>2, <1>5 DEF NextWithout
<1>12. prev' \in [Items -> Pointers]
  <2>1. prev' = [j \in Items |-> prev'[j]]
    BY <1>2 DEF PrevWithout
  <2>2. \A j \in Items : prev'[j] \in Pointers
    BY <1>1, <1>2, <1>9, <1>10
  <2> QED
    BY <2>1, <2>2
<1>13. next' \in [Items -> Pointers]
  <2>1. next' = [j \in Items |-> next'[j]]
    BY <1>2 DEF NextWithout
  <2>2. \A j \in Items : next'[j] \in Pointers
    BY <1>1, <1>2, <1>9, <1>11
  <2> QED
    BY <2>1, <2>2
<1>14. ASSUME NEW i \in 1 .. n, i # k, i # k - 1 PROVE next'[c[i]] = next[c[i]]
  <2>1. c[i] # prev[f] \/ k = 1
    BY <1>0, <1>3, <1>7, <1>14
  <2> QED
    BY <1>0, <1>11, <2>1
<1>15. k > 1 => next'[c[k - 1]] = IF k = n THEN 0 ELSE c[k + 1]
  BY <1>0, <1>6, <1>7, <1>11
<1>16. ASSUME NEW i \in 1 .. n, i # k, i # k + 1 PROVE prev'[c[i]] = prev[c[i]]
  <2>1. c[i] # next[f]
    BY <1>0, <1>3, <1>6, <1>8, <1>16
  <2> QED
    BY <1>0, <1>10, <2>1
<1>17. k > 1 /\ k < n => prev'[c[k + 1]] = c[k - 1]
  BY <1>0, <1>6, <1>7, <1>8, <1>10
<1>18. ASSUME NEW i \in Items, next[i] = 0 PROVE next'[i] = 0
  <2>1. i = prev[f] /\ k # 1 => k = n
    <3> SUFFICES ASSUME i = prev[f], k # 1, k # n PROVE FALSE
      OBVIOUS
    <3>1. k > 1 /\ k - 1 \in 1 .. n /\ k - 1 # n /\ (k - 1) + 1 = k
      BY <1>0
    <3>2. next[c[k - 1]] = c[k]
      BY <3>1 DEF Holds
    <3> QED
      BY <1>0, <1>7, <1>18, <3>1, <3>2
  <2> QED
    BY <1>11, <1>18, <2>1
<1>19. head' = (IF k = 1 THEN next[f] ELSE head)
       /\ tail' = (IF k = n /\ k # 1 THEN prev[f] ELSE tail)
       /\ nelems' = n - 1
  BY <1>4, <1>5 DEF Unlinking
<1>20. ASSUME NEW i \in Items, i >= fresh PROVE prev'[i] = prev[i]
  <2>1. i # next[f]
    <3> SUFFICES ASSUME i = next[f] PROVE FALSE
      OBVIOUS
    <3>1. i \in Int /\ fresh \in Int /\ i # 0
      BY <1>0 DEF Items, ListTypes
    <3>2. k + 1 \in 1 .. n /\ i = c[k + 1]
      BY <1>0, <1>6, <1>8, <3>1
    <3> QED
      BY <1>0, <1>20, <3>1, <3>2
  <2> QED
    BY <1>10, <2>1
<1>21. k = 1 /\ k < n => prev'[c[2]] = 0
  <2> SUFFICES ASSUME k = 1, k < n PROVE prev'[c[2]] = 0
    OBVIOUS
  <2>1. k + 1 = 2 /\ 2 \in 1 .. n /\ k # n
    BY <1>0
  <2> QED
    BY <1>0, <1>6, <1>10, <2>1
<1> QED
  BY <1>2, <1>12, <1>13, <1>14, <1>15, <1>16, <1>17, <1>18, <1>19, <1>20, <1>21

LEMMA UnlinkedTypes ==
    ASSUME ListTypes, NEW n, NEW c, Holds(n, c), NEW k \in 1 .. n, NEW f,
           Unlinking(n, c, k, f)
    PROVE  ListTypes'
<1>0. /\ MaxItems \in Nat /\ n \in 0 .. MaxItems /\ c \in [1 .. n -> Items]
      /\ c[k] \in Items /\ c[k] < fresh
  BY HeldItems
<1>1. /\ f = c[k] /\ released' = released \cup {f}
      /\ UNCHANGED <<data, cache, use_cache, fresh>>
      /\ tail' = (IF k = n /\ k # 1 THEN prev[f] ELSE tail)
      /\ prev' \in [Items -> Pointers] /\ next' \in [Items -> Pointers]
      /\ \A i \in Items : next[i] = 0 => next'[i] = 0
      /\ \A i \in Items : i >= fresh => prev'[i] = prev[i]
  BY Unlinked
<1>2. /\ use_cache = FALSE /\ cache = 0 /\ tail \in Pointers
      /\ prev \in [Items -> Pointers] /\ data = [i \in Items |-> data[i]]
      /\ fresh \in 1 .. MaxItems + 1 /\ released \subseteq 1 .. fresh - 1
      /\ \A i \in Items : i >= fresh => next[i] = 0 /\ prev[i] = 0
  BY DEF ListTypes
<1>3. tail' \in Pointers
  BY <1>0, <1>1, <1>2
<1>4. released' \subseteq 1 .. fresh' - 1
  BY <1>0, <1>1, <1>2 DEF Items
<1>5. \A i \in Items : i >= fresh' => next'[i] = 0 /\ prev'[i] = 0
  BY <1>1, <1>2
<1> QED
  BY <1>1, <1>2, <1>3, <1>4, <1>5 DEF ListTypes

LEMMA TakenOut ==
    ASSUME ListTypes, NEW n, NEW c, Holds(n, c), NEW k \in 1 .. n, NEW f,
           Unlinking(n, c, k, f)
    PROVE  Holds(n - 1, Narrower(n, c, k))'
<1> DEFINE d == Narrower(n, c, k)
<1>0. /\ MaxItems \in Nat /\ n \in 1 .. MaxItems /\ c \in [1 .. n -> Items]
      /\ \A i \in 1 .. n : c[i] \in Items
  BY HeldItems
<1>1. /\ f = c[k] /\ released' = released \cup {f} /\ fresh' = fresh
      /\ nelems' = n - 1
      /\ head' = (IF k = 1 THEN next[f] ELSE head)
      /\ tail' = (IF k = n /\ k # 1 THEN prev[f] ELSE tail)
      /\ \A i \in 1 .. n : i # k /\ i # k - 1 => next'[c[i]] = next[c[i]]
      /\ k > 1 => next'[c[k - 1]] = IF k = n THEN 0 ELSE c[k + 1]
      /\ \A i \in 1 .. n : i # k /\ i # k + 1 => prev'[c[i]] = prev[c[i]]
      /\ k > 1 /\ k < n => prev'[c[k + 1]] = c[k - 1]
      /\ k = 1 /\ k < n => prev'[c[2]] = 0
  BY Unlinked
<1>2. /\ n <= fresh - 1 /\ fresh \in Int
      /\ c \in [1 .. n -> (1 .. fresh - 1) \ released]
      /\ \A i, j \in 1 .. n : c[i] = c[j] => i = j
      /\ head = c[1] /\ tail = c[n] /\ prev[c[1]] \in {0} \cup released
      /\ \A i \in 1 .. n : next[c[i]] = IF i = n THEN 0 ELSE c[i + 1]
      /\ \A i \in 2 .. n : prev[c[i]] = c[i - 1]
  BY <1>0 DEF Holds, ListTypes
<1>3. /\ \A i \in 1 .. k - 1 : d[i] = c[i]
      /\ \A i \in k .. n - 1 : d[i] = c[i + 1]
      /\ d = [i \in 1 .. n - 1 |-> d[i]]
  BY <1>0 DEF Narrower
<1> HIDE DEF d
<1>4. \A i \in 1 .. n - 1 :
         \/ i \in 1 .. k - 1 /\ i \in 1 .. n /\ i # k /\ i < k
         \/ i \in k .. n - 1 /\ i + 1 \in 1 .. n /\ i + 1 # k /\ i >= k
  BY <1>0
<1>5. d \in [1 .. n - 1 -> (1 .. fresh' - 1) \ released']
  <2>1. \A i \in 1 .. n : i # k => c[i] \in (1 .. fresh' - 1) \ released'
    BY <1>1, <1>2
  <2>2. \A i \in 1 .. n - 1 : d[i] \in (1 .. fresh' - 1) \ released'
    BY <1>3, <1>4, <2>1
  <2> QED
    BY <1>3, <2>2
<1>6. \A i, j \in 1 .. n - 1 : d[i] = d[j] => i = j
  <2>1. \A i, j \in 1 .. n : c[i] = c[j] => i = j
    BY DEF Holds
  <2> DEFINE at(i) == IF i < k THEN i ELSE i + 1
  <2>2. \A i \in 1 .. n - 1 : at(i) \in 1 .. n /\ d[i] = c[at(i)]
    <3> TAKE i \in 1 .. n - 1
    <3>1. CASE i < k
      <4>1. i \in 1 .. k - 1 /\ i \in 1 .. n
        BY <1>0, <3>1
      <4> QED
        BY <1>3, <3>1, <4>1
    <3>2. CASE ~(i < k)
      <4>1. i \in k .. n - 1 /\ i + 1 \in 1 .. n
        BY <1>0, <3>2
      <4> QED
        BY <1>3, <3>2, <4>1
    <3> QED
      BY <3>1, <3>2
  <2>3. \A i, j \in 1 .. n - 1 : at(i) = at(j) => i = j
    BY <1>0
  <2> HIDE DEF at
  <2> QED
    BY <2>1, <2>2, <2>3
<1>7. head' = IF n - 1 = 0 THEN 0 ELSE d[1]
  <2>1. CASE k = 1
    <3>1. head' = IF 1 = n THEN 0 ELSE c[1 + 1]
      BY <1>1, <1>2, <2>1
    <3>2. n # 1 => 1 \in k .. n - 1
      BY <1>0, <2>1
    <3> QED
      BY <1>0, <1>3, <3>1, <3>2
  <2>2. CASE k # 1
    <3>1. 1 \in 1 .. k - 1 /\ n - 1 # 0
      BY <1>0, <2>2
    <3> QED
      BY <1>1, <1>2, <1>3, <2>2, <3>1
  <2> QED
    BY <2>1, <2>2
<1>8. n - 1 > 0 => tail' = d[n - 1]
  <2> SUFFICES ASSUME n - 1 > 0 PROVE tail' = d[n - 1]
    OBVIOUS
  <2>1. CASE k = n
    <3>1. k # 1 /\ k \in 2 .. n /\ n - 1 \in 1 .. k - 1
      BY <1>0, <2>1
    <3>2. tail' = c[n - 1]
      BY <1>1, <1>2, <2>1, <3>1
    <3> QED
      BY <1>3, <3>1, <3>2
  <2>2. CASE k # n
    <3>1. n - 1 \in k .. n - 1 /\ (n - 1) + 1 = n
      BY <1>0, <2>2
    <3>2. d[n - 1] = c[n]
      BY <1>3, <3>1
    <3>3. tail' = tail /\ tail = c[n]
      BY <1>1, <1>2, <2>2
    <3> QED
      BY <3>2, <3>3
  <2> QED
    BY <2>1, <2>2
<1>9. \A i \in 1 .. n - 1 : next'[d[i]] = IF i = n - 1 THEN 0 ELSE d[i + 1]
  <2> TAKE i \in 1 .. n - 1
  <2>1. CASE i < k - 1
    <3>1. i \in 1 .. n /\ i \in 1 .. k - 1 /\ i + 1 \in 1 .. k - 1 /\ i # k /\ i # k - 1
          /\ i # n /\ i # n - 1
      BY <1>0, <2>1
    <3>2. next'[c[i]] = next[c[i]]
      BY <1>1, <3>1
    <3>3. next[c[i]] = c[i + 1]
      BY <3>1 DEF Holds
    <3>4. d[i] = c[i] /\ d[i + 1] = c[i + 1]
      BY <1>3, <3>1
    <3> QED
      BY <3>1, <3>2, <3>3, <3>4
  <2>2. CASE i = k - 1
    <3>1. k > 1 /\ i \in 1 .. k - 1 /\ (k = n <=> i = n - 1) /\ i + 1 = k
          /\ (k # n => k \in k .. n - 1)
      BY <1>0, <2>2
    <3>2. next'[c[k - 1]] = IF k = n THEN 0 ELSE c[k + 1]
      BY <1>1, <3>1
    <3> QED
      BY <1>3, <2>2, <3>1, <3>2
  <2>3. CASE i >= k
    <3>1. /\ i \in k .. n - 1 /\ i + 1 \in 1 .. n /\ i + 1 # k /\ i + 1 # k - 1
          /\ (i + 1 = n <=> i = n - 1)
          /\ (i # n - 1 => i + 1 \in k .. n - 1)
      BY <1>0, <2>3
    <3>2. next'[c[i + 1]] = IF i + 1 = n THEN 0 ELSE c[(i + 1) + 1]
      BY <1>1, <1>2, <3>1
    <3> QED
      BY <1>3, <3>1, <3>2
  <2> QED
    BY <1>0, <2>1, <2>2, <2>3
<1>10. \A i \in 2 .. n - 1 : prev'[d[i]] = d[i - 1]
  <2> TAKE i \in 2 .. n - 1
  <2>1. CASE i < k
    <3>1. i \in 1 .. n /\ i \in 2 .. n /\ i \in 1 .. k - 1 /\ i - 1 \in 1 .. k - 1
          /\ i # k /\ i # k + 1
      BY <1>0, <2>1
    <3>2. prev'[c[i]] = prev[c[i]]
      BY <1>1, <3>1
    <3>3. prev[c[i]] = c[i - 1]
      BY <3>1 DEF Holds
    <3>4. d[i] = c[i] /\ d[i - 1] = c[i - 1]
      BY <1>3, <3>1
    <3> QED
      BY <3>2, <3>3, <3>4
  <2>2. CASE i = k
    <3>1. k > 1 /\ k < n /\ i \in k .. n - 1 /\ i - 1 \in 1 .. k - 1
      BY <1>0, <2>2
    <3>2. prev'[c[k + 1]] = c[k - 1]
      BY <1>1, <3>1
    <3> QED
      BY <1>3, <2>2, <3>1, <3>2
  <2>3. CASE i > k
    <3>1. /\ i \in k .. n - 1 /\ i + 1 \in 1 .. n /\ i + 1 \in 2 .. n
          /\ i + 1 # k /\ i + 1 # k + 1 /\ (i + 1) - 1 = i
          /\ i - 1 \in k .. n - 1 /\ (i - 1) + 1 = i
      BY <1>0, <2>3
    <3>2. prev'[c[i + 1]] = c[i]
      BY <1>1, <1>2, <3>1
    <3> QED
      BY <1>3, <3>1, <3>2
  <2> QED
    BY <1>0, <2>1, <2>2, <2>3
<1>11. n - 1 \in Nat /\ n - 1 <= fresh' - 1 /\ n - 1 < fresh' - 1
  BY <1>0, <1>1, <1>2
<1>12. IF n - 1 = 0 THEN tail' \in {0} \cup released'
                    ELSE tail' = d[n - 1] /\ prev'[d[1]] \in {0} \cup released'
  <2>1. CASE n = 1
    <3>1. k = 1 /\ tail' = c[1]
      BY <1>1, <1>2, <2>1
    <3> QED
      BY <1>1, <2>1, <3>1
  <2>2. CASE n # 1 /\ k = 1
    <3>1. 1 \in k .. n - 1 /\ k < n /\ n - 1 > 0
      BY <1>0, <2>2
    <3>2. d[1] = c[2] /\ prev'[c[2]] = 0
      BY <1>1, <1>3, <2>2, <3>1
    <3> QED
      BY <1>8, <3>1, <3>2
  <2>3. CASE n # 1 /\ k # 1
    <3>1. 1 \in 1 .. k - 1 /\ 1 \in 1 .. n /\ 1 # k + 1 /\ n - 1 > 0
      BY <1>0, <2>3
    <3>2. d[1] = c[1] /\ prev'[c[1]] = prev[c[1]]
      BY <1>1, <1>3, <2>3, <3>1
    <3> QED
      BY <1>1, <1>2, <1>8, <3>1, <3>2
  <2> QED
    BY <2>1, <2>2, <2>3
<1> QED
  BY <1>1, <1>5, <1>6, <1>7, <1>9, <1>10, <1>11, <1>12 DEF Holds, d

-----------------------------------------------------------------------------
(* The operations.                                                          *)

\* What is proved of a step: whatever callers name, the list stays one, and for
\* careful callers the step is one of the sequence.
Steps ==
    /\ ListInv'
    /\ careful => [Raw!SeqNext]_<<Contents, nelems, asked, result>>

\* What callers name.
LEMMA NamedFacts ==
    ASSUME NEW S, NEW pos \in Named(S)
    PROVE  pos \in Int /\ pos \in Positions /\ (careful => pos \in S)
BY ListAssumption DEF Named

\* An operation that follows no pointer changes nothing of the list.
LEMMA BreakKeeps ==
    ASSUME ListInv, NEW what, NEW pos, Break(what, pos) PROVE Steps
<1>1. UNCHANGED <<head, tail, nelems, prev, next, data, cache, use_cache, fresh, released,
                  asked, result>>
  BY DEF Break, ends, links, memory
<1>2. ListInv'
  <2>1. ListTypes'
    BY <1>1 DEF ListInv, ListTypes
  <2>2. PICK n, c : Holds(n, c)
    BY DEF ListInv
  <2>3. Holds(n, c)'
    BY <1>1, <2>2 DEF Holds
  <2> QED
    BY <2>1, <2>3 DEF ListInv
<1>3. Contents' = Contents
  BY <1>1 DEF Contents, Forward, Walk
<1> QED
  BY <1>1, <1>2, <1>3 DEF Steps

\* new_item() without a cache.
LEMMA FreshItem ==
    ASSUME ListTypes, NEW i \in Items, NewItem(i)
    PROVE  /\ i = fresh /\ fresh' = i + 1
           /\ UNCHANGED <<cache, use_cache, released>>
BY DEF ListTypes, NewItem

\* An insertion puts the datum at the place of its item.
LEMMA LinkingPuts ==
    ASSUME ListTypes, NEW n, NEW c, Holds(n, c), NEW k \in 1 .. n + 1, NEW f, NEW x \in Datas,
           Linking(n, c, k, f), data' = [data EXCEPT ![f] = x], UNCHANGED result,
           NEW p, asked' = p,
           careful => p \in Positions \cup {0, -1} /\ k = Raw!Within(p, n + 1)
    PROVE  Steps
<1>0. /\ n \in Nat /\ nelems = n /\ \A i \in 1 .. n : c[i] < fresh
  BY HeldItems
<1>2. ListTypes' /\ Holds(n + 1, Wider(n, c, k, f))'
  BY LinkedTypes, LinkedIn
<1>3. f \in Items /\ \A i \in 1 .. n : c[i] # f
  <2>1. f \in Items /\ f = fresh /\ fresh \in Int
    BY DEF Linking, ListTypes
  <2> QED
    BY <1>0, <2>1, HeldItems DEF Items
<1>4. Contents' = InsertAt(Contents, k, x)
  BY <1>2, <1>3, ContentsPut
<1>5. nelems' = nelems + 1
  BY DEF Linking
<1>6. ASSUME careful PROVE Raw!SeqNext
  <2>1. Contents' = InsertAt(Contents, Raw!Within(p, nelems + 1), x)
    BY <1>0, <1>4, <1>6
  <2>2. Raw!Put(p, x)
    BY <1>5, <2>1 DEF Raw!Put, InsertAt, Raw!InsertAt
  <2> QED
    BY <1>6, <2>2 DEF Raw!SeqNext
<1>8. ListInv'
  BY <1>2 DEF ListInv
<1> QED
  BY <1>6, <1>8 DEF Steps

\* Where the header places what is put at a position of a list with n items.
LEMMA WithinFacts ==
    ASSUME NEW n \in Nat
    PROVE  /\ Raw!Within(-1, n + 1) = n + 1 /\ Raw!Within(0, n + 1) = 1
           /\ \A pos \in -n .. n - 1 :
                 /\ Clamped(pos, n) = Raw!Index(pos, n)
                 /\ pos > 0 => Raw!Within(pos, n + 1) = Clamped(pos, n)
                 /\ pos < 0 => Raw!Within(pos, n + 1) = Clamped(pos, n) + 1
<1>1. /\ Raw!Within(-1, n + 1) = n + 1 /\ Raw!Within(0, n + 1) = 1
  BY DEF Raw!Within, Raw!Has, Raw!Index
<1>2. ASSUME NEW pos \in -n .. n - 1
      PROVE  /\ Clamped(pos, n) = Raw!Index(pos, n)
             /\ pos > 0 => Raw!Within(pos, n + 1) = Clamped(pos, n)
             /\ pos < 0 => Raw!Within(pos, n + 1) = Clamped(pos, n) + 1
  BY DEF Clamped, Raw!Within, Raw!Has, Raw!Index
<1> QED
  BY <1>1, <1>2

LEMMA AppendSteps ==
    ASSUME ListInv, NEW x \in Datas, ListAppend(x) PROVE Steps
<1>1. PICK n, c : Holds(n, c)
  BY DEF ListInv
<1>2. ListTypes
  BY DEF ListInv
<1>3. PICK f \in Items :
         IF head # 0 /\ Bad(tail) THEN Break("append", -1)
         ELSE /\ NewItem(f)
              /\ data' = [data EXCEPT ![f] = x]
              /\ prev' = [prev EXCEPT ![f] = tail]
              /\ IF head = 0 THEN head' = f /\ UNCHANGED next
                             ELSE next' = [next EXCEPT ![tail] = f] /\ UNCHANGED head
              /\ tail' = f /\ nelems' = nelems + 1 /\ asked' = -1
              /\ UNCHANGED <<result, broken>>
  BY DEF ListAppend
<1> SUFFICES ASSUME ~(head # 0 /\ Bad(tail)) PROVE Steps
  BY <1>3, BreakKeeps
<1>4. f = fresh /\ fresh' = f + 1 /\ UNCHANGED <<cache, use_cache, released>>
  BY <1>2, <1>3, FreshItem
<1>5. /\ MaxItems \in Nat /\ n \in 0 .. MaxItems /\ nelems = n
      /\ \A i \in 1 .. n : c[i] \in Items /\ c[i] < fresh /\ c[i] # 0
  BY <1>1, <1>2, HeldItems
<1>6. /\ prev \in [Items -> Pointers] /\ next \in [Items -> Pointers]
      /\ data = [i \in Items |-> data[i]] /\ tail \in Pointers
      /\ next[f] = 0 /\ fresh \in Int
  BY <1>2, <1>3, <1>4, <1>5 DEF ListTypes, Items
<1>7. f \in Pointers /\ n + 1 \in 1 .. n + 1 /\ ~(n + 1 <= n) /\ (n + 1) - 1 = n
  BY <1>3, <1>5 DEF Items, Pointers
<1>8. (head = 0 <=> n = 0) /\ (n > 0 => tail = c[n] /\ c[n] # f /\ c[n] \in Items)
  <2>1. n > 0 => 1 \in 1 .. n /\ n \in 1 .. n
    BY <1>5
  <2>2. n > 0 => head = c[1] /\ tail = c[n]
    BY <1>1 DEF Holds
  <2>3. n = 0 => head = 0
    BY <1>1 DEF Holds
  <2>4. n > 0 => c[n] # f
    <3> SUFFICES ASSUME n > 0, c[n] = f PROVE FALSE
      OBVIOUS
    <3>1. f < fresh
      BY <1>5, <2>1
    <3> QED
      BY <1>4, <1>6, <3>1
  <2> QED
    BY <1>5, <2>1, <2>2, <2>3, <2>4
<1>9. prev' \in [Items -> Pointers] /\ next' \in [Items -> Pointers]
      /\ data' = [i \in Items |-> data'[i]]
  BY <1>3, <1>6, <1>7
<1>10. next'[f] = 0 /\ (n > 0 => next'[c[n]] = f /\ prev'[f] = c[n])
  <2>1. n = 0 \/ n > 0
    BY <1>5
  <2>2. CASE n = 0
    BY <1>3, <1>6, <1>8, <2>2
  <2>3. CASE n > 0
    <3>1. head # 0 /\ tail = c[n] /\ tail # f /\ tail \in Items
      BY <1>8, <2>3
    <3>2. next' = [next EXCEPT ![tail] = f] /\ prev' = [prev EXCEPT ![f] = tail]
      BY <1>3, <3>1
    <3> QED
      BY <1>6, <3>1, <3>2
  <2> QED
    BY <2>1, <2>2, <2>3
<1>11. /\ \A i \in Items \ {f} : (n > 0 => i # c[n]) => next'[i] = next[i]
       /\ \A i \in Items \ {f} : prev'[i] = prev[i]
  BY <1>3, <1>5, <1>6, <1>8
<1>12. Linking(n, c, n + 1, f)
  <2>1. n + 1 > 1 <=> n > 0
    BY <1>5
  <2>2. head' = IF n + 1 = 1 THEN f ELSE head
    BY <1>3, <1>5, <1>8
  <2>3. n + 1 = 1 => prev'[f] \in {0} \cup released
    <3> SUFFICES ASSUME n = 0 PROVE prev'[f] \in {0} \cup released
      BY <1>5
    <3>1. prev'[f] = tail
      BY <1>3, <1>6
    <3>2. tail \in {0} \cup released
      BY <1>1 DEF Holds
    <3> QED
      BY <3>1, <3>2
  <2> QED
    BY <1>3, <1>4, <1>7, <1>9, <1>10, <1>11, <2>1, <2>2, <2>3 DEF Linking
<1>13. n + 1 = Raw!Within(-1, n + 1)
  <2>1. n \in Nat
    BY <1>5
  <2> QED
    BY <2>1, WithinFacts, Zenon
<1> QED
  BY <1>1, <1>2, <1>3, <1>7, <1>12, <1>13, LinkingPuts

LEMMA PrependSteps ==
    ASSUME ListInv, NEW x \in Datas, ListPrepend(x) PROVE Steps
<1>1. PICK n, c : Holds(n, c)
  BY DEF ListInv
<1>2. ListTypes
  BY DEF ListInv
<1>3. PICK f \in Items :
         IF tail # 0 /\ Bad(head) THEN Break("prepend", 0)
         ELSE /\ NewItem(f)
              /\ data' = [data EXCEPT ![f] = x]
              /\ next' = [next EXCEPT ![f] = head]
              /\ IF tail = 0 THEN tail' = f /\ UNCHANGED prev
                             ELSE prev' = [prev EXCEPT ![head] = f] /\ UNCHANGED tail
              /\ head' = f /\ nelems' = nelems + 1 /\ asked' = 0
              /\ UNCHANGED <<result, broken>>
  BY DEF ListPrepend
<1> SUFFICES ASSUME ~(tail # 0 /\ Bad(head)) PROVE Steps
  BY <1>3, BreakKeeps
<1>4. f = fresh /\ fresh' = f + 1 /\ UNCHANGED <<cache, use_cache, released>>
  BY <1>2, <1>3, FreshItem
<1>5. /\ MaxItems \in Nat /\ n \in 0 .. MaxItems /\ nelems = n
      /\ \A i \in 1 .. n : c[i] \in Items /\ c[i] < fresh /\ c[i] # 0
  BY <1>1, <1>2, HeldItems
<1>6. /\ prev \in [Items -> Pointers] /\ next \in [Items -> Pointers]
      /\ data = [i \in Items |-> data[i]] /\ fresh \in Int /\ prev[f] = 0
  BY <1>2, <1>4, <1>5 DEF ListTypes, Items
<1>7. f \in Pointers /\ 1 \in 1 .. n + 1 /\ ~(1 > 1) /\ (1 <= n <=> n > 0) /\ 0 \in Pointers
  BY <1>3, <1>5 DEF Items, Pointers
<1>8. /\ n = 0 => head = 0 /\ tail = 0
      /\ n > 0 => head = c[1] /\ c[1] # f /\ c[1] \in Items /\ tail # 0
  <2>1. n > 0 => 1 \in 1 .. n /\ n \in 1 .. n
    BY <1>5
  <2>2. n > 0 => head = c[1] /\ tail = c[n]
    BY <1>1 DEF Holds
  <2>3. n = 0 => head = 0 /\ tail = 0
    BY <1>1 DEF Holds, Bad
  <2>4. n > 0 => c[1] # f
    <3> SUFFICES ASSUME n > 0, c[1] = f PROVE FALSE
      OBVIOUS
    <3>1. f < fresh
      BY <1>5, <2>1
    <3> QED
      BY <1>4, <1>6, <3>1
  <2> QED
    BY <1>5, <2>1, <2>2, <2>3, <2>4
<1>a. \/ n = 0
      \/ n > 0
  BY <1>5
<1>9. prev' \in [Items -> Pointers] /\ next' \in [Items -> Pointers]
      /\ data' = [i \in Items |-> data'[i]]
  <2>1. head \in Pointers
    BY <1>5, <1>7, <1>8, <1>a DEF Items, Pointers
  <2> QED
    BY <1>3, <1>6, <1>7, <2>1
<1>10. next'[f] = (IF 1 <= n THEN c[1] ELSE 0) /\ (1 <= n => prev'[c[1]] = f)
  BY <1>3, <1>6, <1>7, <1>8, <1>a
<1>11. /\ \A i \in Items \ {f} : next'[i] = next[i]
       /\ \A i \in Items \ {f} : (1 <= n => i # c[1]) => prev'[i] = prev[i]
  BY <1>3, <1>6, <1>7, <1>8, <1>a
<1>12. Linking(n, c, 1, f)
  <2>1. tail' = IF 1 = n + 1 THEN f ELSE tail
    BY <1>3, <1>5, <1>8, <1>a
  <2>2. prev'[f] = 0
    BY <1>3, <1>6, <1>8, <1>a
  <2> QED
    BY <1>3, <1>4, <1>7, <1>9, <1>10, <1>11, <2>1, <2>2 DEF Linking
<1>13. 1 = Raw!Within(0, n + 1)
  BY <1>5, WithinFacts
<1> QED
  BY <1>1, <1>2, <1>3, <1>7, <1>12, <1>13, LinkingPuts

\* At the ends of the list there is nothing to follow.
LEMMA EndsBad ==
    ASSUME ListTypes, NEW n, NEW c, Holds(n, c), n > 0
    PROVE  Bad(prev[c[1]]) /\ Bad(next[c[n]])
<1>1. prev[c[1]] \in {0} \cup released /\ n \in 1 .. n
  BY DEF Holds
<1>2. next[c[n]] = 0
  BY <1>1 DEF Holds
<1> QED
  BY <1>1, <1>2 DEF Bad

LEMMA InsertSteps ==
    ASSUME ListInv, NEW x \in Datas, NEW pos \in Int \ {0, -1}, pos \in Positions,
           careful => pos \in Existing, ListInsert(pos, x)
    PROVE  Steps
<1>1. PICK n, c : Holds(n, c)
  BY DEF ListInv
<1>2. ListTypes
  BY DEF ListInv
<1> SUFFICES ASSUME ~Lost(pos) PROVE Steps
  BY BreakKeeps DEF ListInsert
<1>3. /\ MaxItems \in Nat /\ n \in 0 .. MaxItems /\ nelems = n
      /\ c \in [1 .. n -> Items]
      /\ \A i \in 1 .. n : c[i] \in Items /\ c[i] < fresh /\ c[i] # 0
  BY <1>1, <1>2, HeldItems
<1>4. /\ prev \in [Items -> Pointers] /\ next \in [Items -> Pointers]
      /\ data = [i \in Items |-> data[i]] /\ fresh \in Int
  BY <1>2 DEF ListTypes, Items
<1> DEFINE j == Clamped(pos, n)
           k == IF pos > 0 THEN j ELSE j + 1
<1>5. /\ FindPosition(pos) = c[j] /\ n > 0 /\ j \in 1 .. n
      /\ pos > 0 => InsertBefore(c[j], pos, x)
      /\ ~(pos > 0) => InsertAfter(c[j], pos, x)
  <2>1. FindPosition(pos) # 0
    BY DEF ListInsert
  <2>2. n > 0
    BY <1>1, <1>2, <1>3, <2>1, FoundNear
  <2>3. FindPosition(pos) = c[j] /\ j \in 1 .. n
    BY <1>1, <1>2, <2>2, FoundNear
  <2> HIDE DEF j
  <2> QED
    BY <2>2, <2>3 DEF ListInsert
<1>b. /\ Bad(prev[c[1]]) /\ Bad(next[c[n]])
  BY <1>1, <1>2, <1>5, EndsBad
<1> SUFFICES ASSUME IF pos > 0 THEN ~Bad(prev[c[j]]) ELSE ~Bad(next[c[j]]) PROVE Steps
  <2> HIDE DEF j
  <2>1. CASE pos > 0 /\ Bad(prev[c[j]])
    BY <1>5, <2>1, BreakKeeps DEF InsertBefore
  <2>2. CASE ~(pos > 0) /\ Bad(next[c[j]])
    BY <1>5, <2>2, BreakKeeps DEF InsertAfter
  <2> QED
    BY <2>1, <2>2
<1>6. /\ k \in 2 .. n /\ k - 1 \in 1 .. n /\ k \in 1 .. n /\ k \in 1 .. n + 1
      /\ pos > 0 => k = j
      /\ ~(pos > 0) => k - 1 = j
  <2>1. IF pos > 0 THEN j # 1 ELSE j # n
    <3> HIDE DEF j
    <3> QED
      BY <1>b
  <2> HIDE DEF j
  <2> QED
    BY <1>3, <1>5, <2>1
<1>w. careful => pos \in Positions \cup {0, -1} /\ k = Raw!Within(pos, n + 1)
  <2> SUFFICES ASSUME careful PROVE k = Raw!Within(pos, n + 1)
    OBVIOUS
  <2>1. pos \in -n .. n - 1 /\ n \in Nat
    BY <1>3 DEF Existing
  <2> HIDE DEF j
  <2> QED
    BY <2>1, WithinFacts DEF j
<1> HIDE DEF j, k
<1> DEFINE a == c[k - 1]
           b == c[k]
<1>7. prev[b] = a /\ next[a] = b
  <2>1. prev[b] = a
    BY <1>1, <1>6 DEF Holds
  <2>2. k - 1 # n /\ (k - 1) + 1 = k
    BY <1>3, <1>6
  <2> QED
    BY <1>1, <1>6, <2>1, <2>2 DEF Holds
<1>8. a \in Items /\ b \in Items /\ a # b
  <2>1. k - 1 # k
    BY <1>6
  <2>2. c[k - 1] = c[k] => k - 1 = k
    BY <1>1, <1>6 DEF Holds
  <2> QED
    BY <1>3, <1>6, <2>1, <2>2
<1>9. CASE pos > 0
  <2>1. InsertBefore(b, pos, x) /\ ~Bad(prev[b])
    BY <1>5, <1>6, <1>9
  <2>2. PICK f \in Items :
           /\ NewItem(f)
           /\ data' = [data EXCEPT ![f] = x]
           /\ next' = [next EXCEPT ![prev[b]] = f, ![f] = b]
           /\ prev' = [prev EXCEPT ![f] = prev[b], ![b] = f]
           /\ nelems' = nelems + 1 /\ asked' = pos
           /\ UNCHANGED <<head, tail, result, broken>>
    BY <2>1 DEF InsertBefore
  <2>3. f = fresh /\ fresh' = f + 1 /\ UNCHANGED <<cache, use_cache, released>>
    BY <1>2, <2>2, FreshItem
  <2>4. a # f /\ b # f
    <3>1. a < fresh /\ b < fresh
      BY <1>3, <1>6
    <3> QED
      BY <1>4, <2>3, <3>1
  <2>5. f \in Pointers /\ a \in Pointers /\ b \in Pointers
    BY <1>3, <1>8, <2>2 DEF Items, Pointers
  <2>6. Linking(n, c, k, f)
    <3>1. prev' \in [Items -> Pointers] /\ next' \in [Items -> Pointers]
          /\ data' = [i \in Items |-> data'[i]]
      <4> HIDE DEF a, b
      <4> QED
        BY <1>4, <1>7, <1>8, <2>2, <2>5
    <3>2. /\ next'[f] = b /\ next'[a] = f /\ prev'[f] = a /\ prev'[b] = f
          /\ \A i \in Items \ {f} : i # a => next'[i] = next[i]
          /\ \A i \in Items \ {f} : i # b => prev'[i] = prev[i]
      <4> HIDE DEF a, b
      <4> QED
        BY <1>4, <1>7, <1>8, <2>2, <2>4
    <3>3. k > 1 /\ k <= n /\ k # 1 /\ k # n + 1
      BY <1>3, <1>6
    <3> QED
      BY <2>2, <2>3, <3>1, <3>2, <3>3 DEF Linking
  <2> HIDE DEF a, b
  <2> QED
    BY <1>1, <1>2, <1>6, <1>w, <2>2, <2>6, LinkingPuts
<1>10. CASE ~(pos > 0)
  <2>1. InsertAfter(a, pos, x) /\ ~Bad(next[a])
    BY <1>5, <1>6, <1>10
  <2>2. PICK f \in Items :
           /\ NewItem(f)
           /\ data' = [data EXCEPT ![f] = x]
           /\ prev' = [prev EXCEPT ![next[a]] = f, ![f] = a]
           /\ next' = [next EXCEPT ![f] = next[a], ![a] = f]
           /\ nelems' = nelems + 1 /\ asked' = pos
           /\ UNCHANGED <<head, tail, result, broken>>
    BY <2>1 DEF InsertAfter
  <2>3. f = fresh /\ fresh' = f + 1 /\ UNCHANGED <<cache, use_cache, released>>
    BY <1>2, <2>2, FreshItem
  <2>4. a # f /\ b # f
    <3>1. a < fresh /\ b < fresh
      BY <1>3, <1>6
    <3> QED
      BY <1>4, <2>3, <3>1
  <2>5. f \in Pointers /\ a \in Pointers /\ b \in Pointers
    BY <1>3, <1>8, <2>2 DEF Items, Pointers
  <2>6. Linking(n, c, k, f)
    <3>1. prev' \in [Items -> Pointers] /\ next' \in [Items -> Pointers]
          /\ data' = [i \in Items |-> data'[i]]
      <4> HIDE DEF a, b
      <4> QED
        BY <1>4, <1>7, <1>8, <2>2, <2>5
    <3>2. /\ next'[f] = b /\ next'[a] = f /\ prev'[f] = a /\ prev'[b] = f
          /\ \A i \in Items \ {f} : i # a => next'[i] = next[i]
          /\ \A i \in Items \ {f} : i # b => prev'[i] = prev[i]
      <4> HIDE DEF a, b
      <4> QED
        BY <1>4, <1>7, <1>8, <2>2, <2>4
    <3>3. k > 1 /\ k <= n /\ k # 1 /\ k # n + 1
      BY <1>3, <1>6
    <3> QED
      BY <2>2, <2>3, <3>1, <3>2, <3>3 DEF Linking
  <2> HIDE DEF a, b
  <2> QED
    BY <1>1, <1>2, <1>6, <1>w, <2>2, <2>6, LinkingPuts
<1> QED
  BY <1>9, <1>10

\* An empty list holds whatever no array is.
LEMMA NothingHeld == ASSUME NEW n, NEW c, Holds(n, c), n = 0 PROVE Holds(0, <<>>)
BY DEF Holds

\* A position that a careful caller names, but for the first of an empty list.
LEMMA CarefulHas ==
    ASSUME NEW n, NEW c, Holds(n, c), NEW pos \in Int, pos \in Existing \cup {0}
    PROVE  IF n = 0 THEN pos = 0 /\ ~Raw!Has(pos, nelems)
           ELSE Raw!Has(pos, nelems) /\ Clamped(pos, n) = Raw!Index(pos, nelems)
<1>1. n \in Nat /\ nelems = n
  BY DEF Holds
<1>2. n # 0 => pos \in -n .. n - 1
  BY <1>1 DEF Existing
<1>3. n = 0 => pos = 0 /\ ~(pos \in -n .. n - 1)
  BY <1>1 DEF Existing
<1> QED
  BY <1>1, <1>2, <1>3, WithinFacts DEF Raw!Has

\* A call that finds nothing.
LEMMA MissSteps ==
    ASSUME ListInv, Holds(0, <<>>), NEW pos \in Int, pos \in Positions,
           careful => pos \in Existing \cup {0},
           asked' = pos, result' = 0, UNCHANGED <<ends, links, memory>>
    PROVE  Steps
<1>1. UNCHANGED <<head, tail, nelems, prev, next, data, cache, use_cache, fresh, released>>
  BY DEF ends, links, memory
<1>2. ListInv'
  <2>1. ListTypes'
    BY <1>1 DEF ListInv, ListTypes
  <2>2. Holds(0, <<>>)'
    BY <1>1 DEF Holds
  <2> QED
    BY <2>1, <2>2 DEF ListInv
<1>3. Contents' = Contents
  BY <1>1 DEF Contents, Forward, Walk
<1>4. ASSUME careful PROVE Raw!SeqNext
  <2>1. ~Raw!Has(pos, nelems)
    BY <1>4, CarefulHas
  <2>2. Raw!Miss(pos)
    BY <1>1, <1>3, <2>1 DEF Raw!Miss
  <2> QED
    BY <2>2 DEF Raw!SeqNext
<1> QED
  BY <1>2, <1>4 DEF Steps

LEMMA GetSteps ==
    ASSUME ListInv, NEW pos \in Int, pos \in Positions,
           careful => pos \in Existing \cup {0}, ListGet(pos)
    PROVE  Steps
<1>1. PICK n, c : Holds(n, c)
  BY DEF ListInv
<1>2. ListTypes
  BY DEF ListInv
<1> SUFFICES ASSUME ~Lost(pos) PROVE Steps
  BY BreakKeeps DEF ListGet
<1>3. n \in Nat /\ nelems = n
  BY <1>1 DEF Holds
<1>4. /\ asked' = pos /\ result' = (IF FindPosition(pos) = 0 THEN 0 ELSE data[FindPosition(pos)])
      /\ UNCHANGED <<ends, links, memory>>
  BY DEF ListGet
<1>5. CASE n = 0
  <2>1. Holds(0, <<>>)
    BY <1>1, <1>5, NothingHeld
  <2>2. FindPosition(pos) = 0
    BY <1>1, <1>2, <1>5, FoundNear
  <2> QED
    BY <1>4, <2>1, <2>2, MissSteps
<1>6. CASE n > 0
  <2> DEFINE k == Clamped(pos, n)
  <2>1. FindPosition(pos) = c[k] /\ k \in 1 .. n /\ c[k] # 0
    BY <1>1, <1>2, <1>6, FoundNear, HeldItems
  <2>2. UNCHANGED <<head, tail, nelems, prev, next, data, cache, use_cache, fresh, released>>
    BY <1>4 DEF ends, links, memory
  <2>3. ListInv'
    <3>1. ListTypes'
      BY <1>2, <2>2 DEF ListTypes
    <3>2. Holds(n, c)'
      BY <1>1, <2>2 DEF Holds
    <3> QED
      BY <3>1, <3>2 DEF ListInv
  <2>4. Contents' = Contents
    BY <2>2 DEF Contents, Forward, Walk
  <2>5. ASSUME careful PROVE Raw!SeqNext
    <3>1. Raw!Has(pos, nelems) /\ k = Raw!Index(pos, nelems)
      BY <1>1, <1>6, <2>5, CarefulHas
    <3>2. result' = Contents[k]
      <4>1. Contents = [i \in 1 .. n |-> data[c[i]]]
        BY <1>1, <1>2, ContentsNow
      <4> HIDE DEF k
      <4> QED
        BY <1>4, <2>1, <4>1
    <3> HIDE DEF k
    <3>3. Raw!Look(pos)
      BY <1>4, <2>2, <2>4, <3>1, <3>2 DEF Raw!Look
    <3> QED
      BY <3>3 DEF Raw!SeqNext
  <2> QED
    BY <2>3, <2>5 DEF Steps
<1> QED
  BY <1>3, <1>5, <1>6

LEMMA PopSteps ==
    ASSUME ListInv, NEW pos \in Int, pos \in Positions,
           careful => pos \in Existing \cup {0}, ListPop(pos)
    PROVE  Steps
<1>1. PICK n, c : Holds(n, c)
  BY DEF ListInv
<1>2. ListTypes
  BY DEF ListInv
<1> DEFINE i == FindPosition(pos)
<1> SUFFICES ASSUME ~Break("pop", pos) PROVE Steps
  BY BreakKeeps
<1>3. n \in Nat /\ nelems = n
  BY <1>1 DEF Holds
<1>4. ~Lost(pos) /\ asked' = pos
  BY DEF ListPop
<1>5. CASE n = 0
  <2>1. Holds(0, <<>>)
    BY <1>1, <1>5, NothingHeld
  <2>2. i = 0
    BY <1>1, <1>2, <1>4, <1>5, FoundNear
  <2>3. result' = 0 /\ UNCHANGED <<ends, links, memory>>
    <3> HIDE DEF i
    <3> QED
      BY <1>4, <2>2 DEF ListPop, i
  <2> QED
    BY <1>4, <2>1, <2>3, MissSteps
<1>6. CASE n > 0
  <2> DEFINE k == Clamped(pos, n)
  <2>1. i = c[k] /\ k \in 1 .. n /\ c[k] # 0
    BY <1>1, <1>2, <1>4, <1>6, FoundNear, HeldItems
  <2>2. Unlink(i)
    <3> HIDE DEF k
    <3> QED
      BY <1>4, <2>1 DEF ListPop
  <2> HIDE DEF i
  <2>3. Unlinking(n, c, k, i)
    <3> HIDE DEF k
    <3> QED
      BY <2>1, <2>2 DEF Unlink, Unlinking
  <2>4. /\ ListTypes' /\ Holds(n - 1, Narrower(n, c, k))' /\ UNCHANGED data
    <3> HIDE DEF k
    <3>1. UNCHANGED data
      BY <1>1, <1>2, <2>1, <2>3, Unlinked
    <3> QED
      BY <1>1, <1>2, <2>1, <2>3, <3>1, UnlinkedTypes, TakenOut
  <2>5. Contents' = RemoveAt(Contents, k)
    BY <1>1, <1>2, <2>1, <2>4, ContentsTaken
  <2>6. result' = Contents[k]
    <3>1. Contents = [j \in 1 .. n |-> data[c[j]]]
      BY <1>1, <1>2, ContentsNow
    <3> HIDE DEF k
    <3> QED
      BY <2>1, <2>2, <3>1 DEF Unlink
  <2>7. ASSUME careful PROVE Raw!SeqNext
    <3>1. Raw!Has(pos, nelems) /\ k = Raw!Index(pos, nelems)
      BY <1>1, <1>6, <2>7, CarefulHas
    <3> HIDE DEF k
    <3>2. nelems' = nelems - 1
      BY <2>2 DEF Unlink
    <3>3. Raw!Take(pos)
      BY <1>4, <2>5, <2>6, <3>1, <3>2 DEF Raw!Take, RemoveAt, Raw!RemoveAt
    <3> QED
      BY <3>3 DEF Raw!SeqNext
  <2>8. ListInv'
    BY <2>4 DEF ListInv
  <2> QED
    BY <2>7, <2>8 DEF Steps
<1> QED
  BY <1>3, <1>5, <1>6

\* The contents of an empty list.
LEMMA EmptyContents ==
    ASSUME ListTypes, NEW c, Holds(0, c) PROVE Contents = <<>>
<1>1. Contents = [k \in 1 .. 0 |-> data[c[k]]]
  BY ContentsNow
<1> QED
  BY <1>1

LEMMA EmptyContentsThen == (\A c : ListTypes /\ Holds(0, c) => Contents = <<>>)'
<1>1. \A c : ListTypes /\ Holds(0, c) => Contents = <<>>
  BY EmptyContents
<1> QED
  BY <1>1, PTL

LEMMA FiniSteps ==
    ASSUME ListInv, ListFini PROVE Steps
<1>1. PICK n, c : Holds(n, c)
  BY DEF ListInv
<1>2. ListTypes
  BY DEF ListInv
<1> DEFINE freed == Range(Forward) \cup Range(Walk(cache, next))
<1> SUFFICES ASSUME ~Break("fini", 0) PROVE Steps
  BY BreakKeeps
<1>3. /\ head' = 0 /\ tail' = 0 /\ nelems' = 0
      /\ cache' = 0 /\ use_cache' = FALSE
      /\ released' = released \cup freed
      /\ UNCHANGED <<prev, next, data, fresh, asked, result>>
  BY DEF ListFini, links
<1>4. /\ MaxItems \in Nat /\ n \in 0 .. MaxItems
      /\ \A i \in 1 .. n : c[i] \in Items /\ c[i] < fresh
  BY <1>1, <1>2, HeldItems
<1>5. freed \subseteq 1 .. fresh - 1
  <2>1. Forward = [k \in 1 .. n |-> c[k]]
    BY <1>1, <1>2, ForwardIs
  <2>2. Walk(cache, next) = [k \in 1 .. 0 |-> 0]
    BY <1>2, NoWalk DEF ListTypes
  <2>3. Range(Walk(cache, next)) = {}
    BY <2>2 DEF Range
  <2>4. \A x \in Range(Forward) : \E k \in 1 .. n : x = c[k]
    BY <2>1 DEF Range
  <2>5. \A k \in 1 .. n : c[k] \in 1 .. fresh - 1
    BY <1>2, <1>4 DEF Items, ListTypes
  <2> QED
    BY <2>3, <2>4, <2>5
<1> HIDE DEF freed
<1>6. ListTypes'
  <2>1. 0 \in Pointers
    BY <1>4 DEF Pointers
  <2> QED
    BY <1>2, <1>3, <1>5, <2>1 DEF ListTypes
<1>7. Holds(0, [i \in 1 .. 0 |-> 0])'
  <2>1. fresh' \in 1 .. MaxItems + 1 /\ released' \subseteq 1 .. fresh' - 1
    BY <1>6 DEF ListTypes
  <2> QED
    BY <1>3, <1>4, <2>1 DEF Holds
<1>8. Contents' = <<>>
  BY <1>6, <1>7, EmptyContentsThen
<1>9. Raw!Clear
  BY <1>3, <1>8 DEF Raw!Clear
<1>10. Raw!SeqNext
  BY <1>9 DEF Raw!SeqNext
<1>11. ListInv'
  BY <1>6, <1>7 DEF ListInv
<1> QED
  BY <1>10, <1>11 DEF Steps

LEMMA ListSteps ==
    ASSUME ListInv, [ListNext]_listvars PROVE Steps
<1>1. CASE ListNext
  <2>1. ASSUME NEW x \in Datas, NEW pos \in Named(Existing) \ {0, -1}, ListInsert(pos, x)
        PROVE  Steps
    <3>1. pos \in Int \ {0, -1} /\ pos \in Positions /\ (careful => pos \in Existing)
      BY NamedFacts
    <3> QED
      BY <2>1, <3>1, InsertSteps
  <2>2. ASSUME NEW pos \in Named(Existing \cup {0}), ListGet(pos) \/ ListPop(pos) PROVE Steps
    <3>1. pos \in Int /\ pos \in Positions /\ (careful => pos \in Existing \cup {0})
      BY NamedFacts
    <3> QED
      BY <2>2, <3>1, GetSteps, PopSteps
  <2> QED
    BY <1>1, <2>1, <2>2, AppendSteps, PrependSteps, FiniSteps DEF ListNext
<1>2. CASE UNCHANGED listvars
  <2>1. UNCHANGED <<head, tail, nelems, prev, next, data, cache, use_cache, fresh, released,
                    asked, result>>
    BY <1>2 DEF listvars, ends, links, memory
  <2>2. ListInv'
    <3>1. ListTypes'
      BY <2>1 DEF ListInv, ListTypes
    <3>2. PICK n, c : Holds(n, c)
      BY DEF ListInv
    <3>3. Holds(n, c)'
      BY <2>1, <3>2 DEF Holds
    <3> QED
      BY <3>1, <3>3 DEF ListInv
  <2>3. Contents' = Contents
    BY <2>1 DEF Contents, Forward, Walk
  <2> QED
    BY <2>1, <2>2, <2>3 DEF Steps
<1> QED
  BY <1>1, <1>2

LEMMA ListStarts ==
    ASSUME Cached = {FALSE}, ListInit PROVE ListInv /\ Raw!SeqInit
<1>0. MaxItems \in Nat
  BY ListAssumption
<1>1. ListTypes
  BY <1>0 DEF ListInit, ListTypes, Items, Pointers
<1>2. Holds(0, [i \in 1 .. 0 |-> 0])
  BY <1>0 DEF ListInit, Holds
<1>3. Contents = <<>>
  BY <1>1, <1>2, EmptyContents
<1> QED
  BY <1>1, <1>2, <1>3 DEF ListInv, Raw!SeqInit, ListInit

\* A step of the list is one of the sequence that ImplementsSequence speaks of,
\* which stays empty for callers that are not careful.
LEMMA CarefulMapped ==
    ASSUME [ListNext]_listvars, careful => [Raw!SeqNext]_<<Contents, nelems, asked, result>>
    PROVE  [Sequence!SeqNext]_<<IF careful THEN Contents ELSE <<>>,
                                IF careful THEN nelems ELSE 0,
                                IF careful THEN asked ELSE 0,
                                IF careful THEN result ELSE 0>>
<1>1. UNCHANGED careful
  BY DEF ListNext, listvars
<1>2. CASE ~careful
  BY <1>1, <1>2
<1>3. CASE careful
  <2>1. CASE UNCHANGED <<Contents, nelems, asked, result>>
    BY <1>1, <2>1
  <2>2. ASSUME Raw!Clear PROVE Sequence!Clear
    BY <1>1, <1>3, <2>2 DEF Raw!Clear, Sequence!Clear
  <2>3. ASSUME NEW d, NEW p, Raw!Put(p, d) PROVE Sequence!Put(p, d)
    BY <1>1, <1>3, <2>3
       DEF Raw!Put, Raw!InsertAt, Raw!Within, Raw!Has, Raw!Index,
           Sequence!Put, Sequence!InsertAt, Sequence!Within, Sequence!Has, Sequence!Index
  <2>4. ASSUME NEW p, Raw!Look(p) PROVE Sequence!Look(p)
    BY <1>1, <1>3, <2>4
       DEF Raw!Look, Raw!Has, Raw!Index, Sequence!Look, Sequence!Has, Sequence!Index
  <2>5. ASSUME NEW p, Raw!Take(p) PROVE Sequence!Take(p)
    BY <1>1, <1>3, <2>5
       DEF Raw!Take, Raw!RemoveAt, Raw!Has, Raw!Index,
           Sequence!Take, Sequence!RemoveAt, Sequence!Has, Sequence!Index
  <2>6. ASSUME NEW p, Raw!Miss(p) PROVE Sequence!Miss(p)
    BY <1>1, <1>3, <2>6 DEF Raw!Miss, Raw!Has, Sequence!Miss, Sequence!Has
  <2>7. CASE Raw!SeqNext
    BY <2>2, <2>3, <2>4, <2>5, <2>6, <2>7 DEF Raw!SeqNext, Sequence!SeqNext
  <2> QED
    BY <1>3, <2>1, <2>7
<1> QED
  BY <1>2, <1>3

\* Without a cache of deleted items, the linked list of tclist.c is the sequence
\* of tclist.h for careful callers, whatever the number of items and whatever they
\* put into it: as long as they get, take and insert at positions that the list
\* has, or get and take the first of an empty one, each operation does to what
\* tc_list_foreach() visits what the header says, whether the item is reached from
\* the head or from the tail.  Of other callers it says nothing.
THEOREM ListIsSequence ==
    ASSUME Cached = {FALSE} PROVE ListSpec => ImplementsSequence
<1>1. ListInit => /\ ListInv
                  /\ Sequence!SeqInit
  BY ListStarts DEF Raw!SeqInit, Sequence!SeqInit
<1>2. ListInv /\ [ListNext]_listvars
        => /\ ListInv'
           /\ [Sequence!SeqNext]_<<IF careful THEN Contents ELSE <<>>,
                                   IF careful THEN nelems ELSE 0,
                                   IF careful THEN asked ELSE 0,
                                   IF careful THEN result ELSE 0>>
  BY ListSteps, CarefulMapped DEF Steps
<1> QED
  BY <1>1, <1>2, PTL DEF ListSpec, ImplementsSequence, Sequence!SeqSpec

-----------------------------------------------------------------------------
(* Memory that is not there: whatever position callers name.                *)

\* The pointers of an item, but at the ends.
LEMMA NeighboursGood ==
    ASSUME ListTypes, NEW n, NEW c, Holds(n, c), NEW k \in 1 .. n
    PROVE  /\ k # 1 => ~Bad(prev[c[k]])
           /\ k # n => ~Bad(next[c[k]])
           /\ next[c[n]] = 0
<1>0. n \in Nat /\ \A i \in 1 .. n : ~Bad(c[i])
  BY HeldItems DEF Bad
<1>1. ASSUME k # 1 PROVE ~Bad(prev[c[k]])
  <2>1. k \in 2 .. n /\ k - 1 \in 1 .. n
    BY <1>0, <1>1
  <2>2. prev[c[k]] = c[k - 1]
    BY <2>1 DEF Holds
  <2> QED
    BY <1>0, <2>1, <2>2
<1>2. ASSUME k # n PROVE ~Bad(next[c[k]])
  <2>1. k + 1 \in 1 .. n
    BY <1>0, <1>2
  <2>2. next[c[k]] = c[k + 1]
    BY <1>2 DEF Holds
  <2> QED
    BY <1>0, <2>1, <2>2
<1>3. next[c[n]] = 0
  BY <1>0 DEF Holds
<1> QED
  BY <1>1, <1>2, <1>3

\* The cases of BreaksOnlyThere, for the call that breaks.
Excused(what, pos) ==
    LET missing == pos \notin Existing
    IN CASE what = "prepend"        -> head = 0 /\ Stale
         [] what \in {"get", "pop"} -> missing /\ pos < 0 /\ Stale
         [] what = "insert"         -> missing /\ ((pos < 0 /\ Stale) \/ nelems = 1)
         [] OTHER                   -> FALSE

\* A call follows no such pointer, or is one of these.
Harmless ==
    UNCHANGED broken \/ \E what, pos : broken' = Fault(what, pos) /\ Excused(what, pos)

LEMMA AppendHarmless ==
    ASSUME ListInv, NEW x, ListAppend(x) PROVE UNCHANGED broken
<1>1. PICK n, c : Holds(n, c)
  BY DEF ListInv
<1>2. ListTypes
  BY DEF ListInv
<1>3. ~(head # 0 /\ Bad(tail))
  <2> SUFFICES ASSUME head # 0 PROVE ~Bad(tail)
    OBVIOUS
  <2>1. n # 0 /\ n \in Nat
    BY <1>1 DEF Holds
  <2>2. tail = c[n] /\ n \in 1 .. n
    BY <1>1, <2>1 DEF Holds
  <2> QED
    BY <1>1, <1>2, <2>2, HeldItems DEF Bad
<1> QED
  BY <1>3 DEF ListAppend

LEMMA PrependHarmless ==
    ASSUME ListInv, NEW x, ListPrepend(x) PROVE Harmless
<1>1. PICK n, c : Holds(n, c)
  BY DEF ListInv
<1>2. ListTypes
  BY DEF ListInv
<1>3. CASE tail # 0 /\ Bad(head)
  <2>1. head = 0
    <3> SUFFICES ASSUME head # 0 PROVE FALSE
      OBVIOUS
    <3>1. n # 0 /\ n \in Nat
      BY <1>1 DEF Holds
    <3>2. head = c[1] /\ 1 \in 1 .. n
      BY <1>1, <3>1 DEF Holds
    <3> QED
      BY <1>1, <1>2, <1>3, <3>2, HeldItems DEF Bad
  <2>2. broken' = Fault("prepend", 0)
    BY <1>3 DEF ListPrepend, Break
  <2>3. Excused("prepend", 0)
    BY <1>3, <2>1 DEF Excused, Stale
  <2> QED
    BY <2>2, <2>3 DEF Harmless
<1>4. CASE ~(tail # 0 /\ Bad(head))
  BY <1>4 DEF ListPrepend, Harmless
<1> QED
  BY <1>3, <1>4

LEMMA InsertHarmless ==
    ASSUME ListInv, NEW x, NEW pos \in Int \ {0, -1}, ListInsert(pos, x)
    PROVE  Harmless
<1>1. PICK n, c : Holds(n, c)
  BY DEF ListInv
<1>2. ListTypes
  BY DEF ListInv
<1>3. n \in Nat /\ nelems = n
  BY <1>1 DEF Holds
<1>4. CASE Lost(pos)
  <2>1. broken' = Fault("insert", pos)
    BY <1>4 DEF ListInsert, Break
  <2>2. pos < 0 /\ pos \notin Existing /\ Stale
    BY <1>1, <1>2, <1>4, LostWhere
  <2>3. Excused("insert", pos)
    BY <2>2 DEF Excused
  <2> QED
    BY <2>1, <2>3 DEF Harmless
<1>5. CASE ~Lost(pos)
  <2> DEFINE j == Clamped(pos, n)
  <2>1. FindPosition(pos) # 0
    BY <1>5 DEF ListInsert
  <2>2. n > 0
    BY <1>1, <1>2, <1>3, <1>5, <2>1, FoundNear
  <2>3. FindPosition(pos) = c[j] /\ j \in 1 .. n
    BY <1>1, <1>2, <1>5, <2>2, FoundNear
  <2>4. /\ pos > 0 /\ j = 1 => n = 1 /\ pos \notin Existing
        /\ ~(pos > 0) /\ j = n => n = 1 /\ pos \notin Existing
    BY <1>3, <2>2 DEF Clamped, Existing
  <2> HIDE DEF j
  <2>5. CASE n = 1 /\ pos \notin Existing
    <3>1. Excused("insert", pos)
      BY <1>3, <2>5 DEF Excused
    <3>2. UNCHANGED broken \/ broken' = Fault("insert", pos)
      BY <1>5 DEF ListInsert, InsertBefore, InsertAfter, Break
    <3> QED
      BY <3>1, <3>2 DEF Harmless
  <2>6. CASE ~(n = 1 /\ pos \notin Existing)
    <3>1. CASE pos > 0
      <4>1. InsertBefore(c[j], pos, x) /\ ~Bad(prev[c[j]])
        BY <1>1, <1>2, <1>5, <2>3, <2>4, <2>6, <3>1, NeighboursGood DEF ListInsert
      <4> QED
        BY <4>1 DEF InsertBefore, Harmless
    <3>2. CASE ~(pos > 0)
      <4>1. InsertAfter(c[j], pos, x) /\ ~Bad(next[c[j]])
        BY <1>1, <1>2, <1>5, <2>3, <2>4, <2>6, <3>2, NeighboursGood DEF ListInsert
      <4> QED
        BY <4>1 DEF InsertAfter, Harmless
    <3> QED
      BY <3>1, <3>2
  <2> QED
    BY <2>5, <2>6
<1> QED
  BY <1>4, <1>5

LEMMA LookHarmless ==
    ASSUME ListInv, NEW pos \in Int, ListGet(pos) \/ ListPop(pos) PROVE Harmless
<1>1. PICK n, c : Holds(n, c)
  BY DEF ListInv
<1>2. ListTypes
  BY DEF ListInv
<1>3. n \in Nat
  BY <1>1 DEF Holds
<1>4. CASE Lost(pos)
  <2>1. \E what \in {"get", "pop"} : broken' = Fault(what, pos)
    BY <1>4 DEF ListGet, ListPop, Break
  <2>2. pos < 0 /\ pos \notin Existing /\ Stale
    BY <1>1, <1>2, <1>4, LostWhere
  <2>3. Excused("get", pos) /\ Excused("pop", pos)
    BY <2>2 DEF Excused
  <2> QED
    BY <2>1, <2>3 DEF Harmless
<1>5. CASE ~Lost(pos) /\ ListGet(pos)
  BY <1>5 DEF ListGet, Harmless
<1>6. CASE ~Lost(pos) /\ ListPop(pos)
  <2> DEFINE i == FindPosition(pos)
             k == Clamped(pos, n)
  <2>1. i = 0 \/ (n > 0 /\ i = c[k] /\ k \in 1 .. n)
    BY <1>1, <1>2, <1>3, <1>6, FoundNear
  <2> HIDE DEF i, k
  <2>2. CASE i = 0
    BY <1>6, <2>2 DEF ListPop, i, Harmless
  <2>3. CASE n > 0 /\ i = c[k] /\ k \in 1 .. n
    <3>1. head = c[1] /\ tail = c[n]
      BY <1>1, <2>3 DEF Holds
    <3>2. /\ k # 1 => ~Bad(prev[i])
          /\ k # n => ~Bad(next[i])
          /\ next[c[n]] = 0
      BY <1>1, <1>2, <2>3, NeighboursGood
    <3>3. \A j \in Joined(i) : ~Bad(j)
      BY <2>3, <3>1, <3>2 DEF Joined
    <3>4. UNCHANGED broken
      BY <1>6, <3>3 DEF ListPop, i, Unlink
    <3> QED
      BY <3>4 DEF Harmless
  <2> QED
    BY <2>1, <2>2, <2>3
<1> QED
  BY <1>4, <1>5, <1>6

LEMMA FiniHarmless ==
    ASSUME ListInv, ListFini PROVE UNCHANGED broken
<1>1. PICK n, c : Holds(n, c)
  BY DEF ListInv
<1>2. ListTypes
  BY DEF ListInv
<1>3. Forward = [k \in 1 .. n |-> c[k]] /\ \A k \in 1 .. n : c[k] \notin released
  BY <1>1, <1>2, ForwardIs, HeldItems
<1>4. Walk(cache, next) = [k \in 1 .. 0 |-> 0]
  BY <1>2, NoWalk DEF ListTypes
<1>5. Range(Walk(cache, next)) = {}
  BY <1>4 DEF Range
<1>6. Range(Forward) \cap released = {}
  BY <1>3 DEF Range
<1> QED
  BY <1>5, <1>6 DEF ListFini

LEMMA ListHarmless ==
    ASSUME ListInv, [ListNext]_listvars PROVE Harmless
<1>1. ASSUME NEW S, NEW x, NEW pos \in Named(S) \ {0, -1}, ListInsert(pos, x) PROVE Harmless
  BY <1>1, NamedFacts, InsertHarmless
<1>2. ASSUME NEW S, NEW pos \in Named(S), ListGet(pos) \/ ListPop(pos) PROVE Harmless
  BY <1>2, NamedFacts, LookHarmless
<1>3. UNCHANGED broken => Harmless
  BY DEF Harmless
<1>4. CASE UNCHANGED listvars
  BY <1>3, <1>4 DEF listvars
<1>5. CASE ListNext
  BY <1>1, <1>2, <1>3, <1>5, AppendHarmless, PrependHarmless, FiniHarmless DEF ListNext
<1> QED
  BY <1>4, <1>5

\* Without a cache no operation on a list, at whatever position callers name, in any
\* order and any number, follows a pointer that is NULL or into released memory, but
\* for the cases that BreaksOnlyThere names: a prepend to a list that pops have
\* emptied, a missing position from the end in a list that is Stale, and an insertion
\* at a missing position of a list of one item.
THEOREM ListBreaksOnlyThere ==
    ASSUME Cached = {FALSE} PROVE ListSpec => BreaksOnlyThere
<1>1. ListInit => ListInv
  BY ListStarts
<1>2. ListInv /\ [ListNext]_listvars => ListInv'
  BY ListSteps DEF Steps
<1>3. ListInv /\ [ListNext]_listvars
        => [broken' # broken =>
              LET pos == broken'.at
                  missing == pos \notin Existing
              IN CASE broken'.call = "prepend"        -> head = 0 /\ Stale
                   [] broken'.call \in {"get", "pop"} -> missing /\ pos < 0 /\ Stale
                   [] broken'.call = "insert" ->
                         missing /\ ((pos < 0 /\ Stale) \/ nelems = 1)
                   [] OTHER -> FALSE]_listvars
  <2> SUFFICES ASSUME ListInv, [ListNext]_listvars, broken' # broken
               PROVE  Excused(broken'.call, broken'.at)
    BY DEF Excused
  <2>1. PICK what, pos : broken' = Fault(what, pos) /\ Excused(what, pos)
    BY ListHarmless DEF Harmless
  <2>2. broken'.call = what /\ broken'.at = pos
    BY <2>1 DEF Fault
  <2> QED
    BY <2>1, <2>2
<1> QED
  BY <1>1, <1>2, <1>3, PTL DEF ListSpec, BreaksOnlyThere
=============================================================================
