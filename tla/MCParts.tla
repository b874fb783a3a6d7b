------------------------------- MODULE MCParts -------------------------------
(***************************************************************************)
(* Values of the constants for CoreModes, ModuleFactory, FilterTable,      *)
(* TCList, AVIFile, Cluster and CloneSync.  The seven share no state, so a *)
(* behaviour exercises one of them, chosen at the start, and leaves the    *)
(* others as they began.                                                   *)
(***************************************************************************)
EXTENDS CoreModes, ModuleFactory, FilterTable, TCList, AVIFile,
        Cluster, CloneSync

CONSTANT Parts   \* the parts that are tried

VARIABLE part

AllParts == {"modes", "modules", "filters", "list", "file", "cluster", "sync"}
JustFilters == {"filters"}
JustCluster == {"cluster"}

AllModes == {"default", "split", "psu", "psu_whole", "dvd", "dvd_whole"}
SomeUnits == {<<4>>, <<3, 1, 2>>, <<0, 3>>}
FromSecond == <<1, 100>>
\* Two steps beyond the ends of the longest list.
AllPositions == -5 .. 4
SomeLogs == {<<1, 2, 0>>, <<0, 1>>, <<2>>}

\* A part that is not exercised has one initial state.
PartsInit ==
    /\ part \in Parts /\ ModesInit /\ FactoryInit /\ FilterInit /\ ListInit
    /\ FileInit /\ ClusterInit /\ SyncInit
    /\ part # "modes" => mode = "default" /\ units = <<4>> /\ lag = 0
    /\ part # "modules" => type = [s \in Slots |-> CHOOSE t \in Types : TRUE]
    /\ part # "list" => use_cache = FALSE /\ careful = (CHOOSE c \in Careful : TRUE)

PartsNext ==
    /\ \/ part = "modes" /\ ModesNext
       \/ part = "modules" /\ FactoryNext
       \/ part = "filters" /\ FilterNext
       \/ part = "list" /\ ListNext
       \/ part = "file" /\ FileNext
       \/ part = "cluster" /\ ClusterNext
       \/ part = "sync" /\ SyncNext
    /\ UNCHANGED part
    /\ part # "modes" => UNCHANGED modevars
    /\ part # "modules" => UNCHANGED facvars
    /\ part # "filters" => UNCHANGED filvars
    /\ part # "list" => UNCHANGED listvars
    /\ part # "file" => UNCHANGED avivars
    /\ part # "cluster" => UNCHANGED clustervars
    /\ part # "sync" => UNCHANGED syncvars

partvars == <<part, modevars, facvars, filvars, listvars, avivars, clustervars,
              syncvars>>

PartsSpec == PartsInit /\ [][PartsNext]_partvars
=============================================================================
