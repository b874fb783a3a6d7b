----------------------------- MODULE FilterTable -----------------------------
(***************************************************************************)
(* The table of loaded filters, which three kinds of threads use without a *)
(* lock: the threads that pass a frame through the filters, the event      *)
(* thread with the commands of the control socket, and the main thread,    *)
(* which removes every filter at the end.                                  *)
(*                                                                         *)
(*   tc_filter_process, _add, _find, _remove, _enable, _disable,           *)
(*   _configure, _get_conf, _fini                        src/filter.c      *)
(*   handle_load, _config, _enable, _disable, _parameter src/socket.c      *)
(*   the end of main()                                   src/transcode.c   *)
(*                                                                         *)
(* The filters of option -J are loaded by the main thread before the other *)
(* threads exist; here they are the first commands of the event thread.    *)
(***************************************************************************)
EXTENDS Integers

CONSTANTS MaxFilters,  \* MAX_FILTERS
          Names,       \* names of filters
          NoName,      \* the name of a slot that was cleared
          Processors   \* the threads that call tc_filter_process()

ASSUME FilterAssumption == MaxFilters \in Nat \ {0} /\ NoName \notin Names

Places == 0 .. MaxFilters - 1

VARIABLES name,     \* filters[i].name
          id,       \* filters[i].id, 0 for a free slot
          enabled,  \* the slots with filters[i].enabled
          entry,    \* the slots with an entry function
          mapped,   \* the slots whose plugin is in memory
          command,  \* what the event thread does next
          place,    \* the slot of its command
          newid,    \* the id tc_filter_add() gives
          pass,     \* what each processor does next
          filter,   \* the slot of the filter it calls
          last,     \* last_id
          due,      \* the filters its frame must still meet: enabled since the
                    \* pass began and not run
          phase,    \* what the main thread does next
          closing,  \* the slot tc_filter_fini() is at
          crashed   \* whether a thread has called a function that is gone

table == <<name, id, enabled, entry, mapped>>
event == <<command, place, newid>>
passes == <<pass, filter, last, due>>
fini == <<phase, closing>>
filvars == <<table, event, passes, fini, crashed>>

FilterInit ==
    /\ name = [s \in Places |-> NoName] /\ id = [s \in Places |-> 0]
    /\ enabled = {} /\ entry = {} /\ mapped = {}
    /\ command = "wait" /\ place = 0 /\ newid = 0
    /\ pass = [p \in Processors |-> "idle"] /\ filter = [p \in Processors |-> 0]
    /\ last = [p \in Processors |-> 0] /\ due = [p \in Processors |-> {}]
    /\ phase = "work" /\ closing = 0
    /\ crashed = FALSE

Loaded == {s \in Places : id[s] # 0}

\* filters[i].enabled = 0
Disable(s) ==
    /\ enabled' = enabled \ {s}
    /\ due' = [p \in Processors |-> due[p] \ {s}]

-----------------------------------------------------------------------------
(* tc_filter_process                                                        *)

\* The enabled filters that come after the last one run.
Ahead(p) == {s \in Loaded \cap enabled : id[s] > last[p]}

\* Mutant: the last match in the table.
NearestInTable(p, s) == s \in Ahead(p) /\ \A u \in Ahead(p) : u <= s

\* The filter with the lowest id of them.
Nearest(p, s) == s \in Ahead(p) /\ \A u \in Ahead(p) : id[s] <= id[u]

Start(p) ==
    /\ pass[p] = "idle" /\ phase = "work"
    /\ pass' = [pass EXCEPT ![p] = "select"]
    /\ last' = [last EXCEPT ![p] = 0]
    /\ due' = [due EXCEPT ![p] = Loaded \cap enabled]
    /\ UNCHANGED <<table, event, filter, fini>>

Select(p) ==
    /\ pass[p] = "select"
    /\ \E s \in Places :
          /\ Nearest(p, s)
          /\ filter' = [filter EXCEPT ![p] = s]
          /\ last' = [last EXCEPT ![p] = id[s]]
    /\ pass' = [pass EXCEPT ![p] = "call"]
    /\ UNCHANGED <<table, event, due, fini>>

Finish(p) ==
    /\ pass[p] = "select" /\ Ahead(p) = {}
    /\ pass' = [pass EXCEPT ![p] = "idle"]
    /\ UNCHANGED <<table, event, filter, last, due, fini>>

Call(p) ==
    LET s == filter[p]
    IN /\ pass[p] = "call"
       /\ IF s \in entry
          THEN /\ pass' = [pass EXCEPT ![p] = "run"]
               /\ due' = [due EXCEPT ![p] = @ \ {s}]
               /\ UNCHANGED enabled
          ELSE /\ pass' = [pass EXCEPT ![p] = "select"]
               /\ Disable(s)
       /\ UNCHANGED <<name, id, entry, mapped, event, filter, last, fini>>

\* The filter is done with the frame.
Back(p) ==
    /\ pass[p] = "run"
    /\ pass' = [pass EXCEPT ![p] = "select"]
    /\ UNCHANGED <<table, event, filter, last, due, fini>>

-----------------------------------------------------------------------------
(* The commands of the event thread.                                        *)

Initialized == phase \notin {"final", "ended"}

Become(what) == command' = what
Done == Become("wait")

\* tc_filter_find(): the id in the first slot of the name.
Found(n, s) ==
    /\ name[s] = n /\ \A u \in Places : name[u] = n => s <= u
    /\ id[s] # 0

\* A command on a filter that was loaded by its name.
Begin(n, what) ==
    /\ command = "wait" /\ Initialized
    /\ \E s \in Places : Found(n, s) /\ place' = s
    /\ Become(what)
    /\ UNCHANGED <<table, newid, passes, fini>>

\* The filter was removed since it was found: id_to_index() fails.
Gone ==
    /\ command \in {"enable", "disable", "config", "ask"}
    /\ ~Initialized \/ id[place] = 0
    /\ Done
    /\ UNCHANGED <<table, place, newid, passes, fini>>

\* tc_filter_enable(), tc_filter_disable()
Enable ==
    /\ command = "enable" /\ Initialized /\ id[place] # 0
    /\ enabled' = enabled \cup {place}
    /\ Done
    /\ UNCHANGED <<name, id, entry, mapped, place, newid, passes, fini>>

DisableIt ==
    /\ command = "disable" /\ Initialized /\ id[place] # 0
    /\ Disable(place)
    /\ Done
    /\ UNCHANGED <<name, id, entry, mapped, place, newid, pass, filter, last, fini>>

\* tc_filter_configure() and tc_filter_get_conf() test the entry function...
Check(from, to) ==
    /\ command = from /\ Initialized /\ id[place] # 0
    /\ IF place \in entry
       THEN Become(to) /\ UNCHANGED <<enabled, due>>
       ELSE Done /\ Disable(place)
    /\ UNCHANGED <<name, id, entry, mapped, place, newid, pass, filter, last, fini>>

\* ... and call it: to close, to initialise, for the configuration.
CallEntry(from, to) ==
    /\ command = from
    /\ crashed' = (place \notin entry \cap mapped)
    /\ Become(to)
    /\ UNCHANGED <<table, place, newid, passes, fini>>

\* The filter does not accept its new options.
InitFails ==
    /\ command = "tested"
    /\ Disable(place)
    /\ Done
    /\ UNCHANGED <<name, id, entry, mapped, place, newid, pass, filter, last, fini>>

InitWorks ==
    /\ command = "tested"
    /\ Done
    /\ UNCHANGED <<table, place, newid, passes, fini>>

-----------------------------------------------------------------------------
(* tc_filter_add, tc_filter_remove                                          *)

\* Mutant: any free slot.
FreePlace(s) == id[s] = 0

\* The first free slot.
FirstFreePlace(s) == id[s] = 0 /\ \A u \in Places : id[u] = 0 => s <= u

\* Mutant: the flag that a failed initialisation left stays.
KeepFlag(s) == UNCHANGED <<enabled, due>>

\* The filter is disabled until it is initialised.
ResetFlag(s) == Disable(s)

LoadName(n) ==
    /\ command = "wait" /\ Initialized
    /\ \E s \in Places :
          /\ FirstFreePlace(s)
          /\ name' = [name EXCEPT ![s] = n]
          /\ ResetFlag(s)
          /\ place' = s
    /\ \E k \in {0} \cup {id[s] : s \in Places} :
          (\A s \in Places : id[s] <= k) /\ newid' = k + 1
    /\ Become("open")
    /\ UNCHANGED <<id, entry, mapped, pass, filter, last, fini>>

\* dlopen() or dlsym() fails: the name stays in a free slot.
OpenFails ==
    /\ command = "open"
    /\ Done
    /\ UNCHANGED <<table, place, newid, passes, fini>>

Open ==
    /\ command = "open"
    /\ entry' = entry \cup {place} /\ mapped' = mapped \cup {place}
    /\ id' = [id EXCEPT ![place] = newid]
    /\ Become("init")
    /\ UNCHANGED <<name, enabled, place, newid, passes, fini>>

\* Whether the filter accepts its options.
InitEnds(next) ==
    /\ command = "loaded"
    /\ Become(next)
    /\ UNCHANGED <<table, place, newid, passes, fini>>

\* The slot is enabled, also when its filter was removed.
Publish ==
    /\ command = "publish"
    /\ enabled' = enabled \cup {place}
    /\ Done
    /\ UNCHANGED <<name, id, entry, mapped, place, newid, passes, fini>>

\* tc_filter_remove() closes and unloads the plugin...
Unload(s) ==
    /\ crashed' = (s \in entry \ mapped)
    /\ mapped' = mapped \ {s}

\* ... and clears the slot.
Clear(s) ==
    /\ entry' = entry \ {s}
    /\ name' = [name EXCEPT ![s] = NoName]
    /\ id' = [id EXCEPT ![s] = 0]
    /\ Disable(s)

Drop ==
    /\ command = "drop"
    /\ IF id[place] # 0 THEN Unload(place) /\ Become("clear")
                        ELSE UNCHANGED <<mapped, crashed>> /\ Become("publish")
    /\ UNCHANGED <<name, id, enabled, entry, place, newid, passes, fini>>

DropCleared ==
    /\ command = "clear"
    /\ Clear(place)
    /\ Become("publish")
    /\ UNCHANGED <<mapped, place, newid, pass, filter, last, fini>>

-----------------------------------------------------------------------------
(* The end of main: the pool and the import are closed, the filters removed *)
(* and only then the event thread is stopped.                               *)

Close ==
    /\ phase = "work" /\ \A p \in Processors : pass[p] = "idle"
    /\ phase' = "fini" /\ closing' = 0
    /\ UNCHANGED <<table, event, passes>>

FiniNext ==
    /\ phase = "fini" /\ closing < MaxFilters /\ id[closing] = 0
    /\ closing' = closing + 1
    /\ UNCHANGED <<table, event, passes, phase>>

FiniUnload ==
    /\ phase = "fini" /\ closing < MaxFilters /\ id[closing] # 0
    /\ Unload(closing)
    /\ phase' = "remove"
    /\ UNCHANGED <<name, id, enabled, entry, event, passes, closing>>

FiniClear ==
    /\ phase = "remove"
    /\ Clear(closing)
    /\ phase' = "fini" /\ closing' = closing + 1
    /\ UNCHANGED <<mapped, event, pass, filter, last>>

FiniEnds ==
    /\ phase = "fini" /\ closing = MaxFilters
    /\ phase' = "final"
    /\ UNCHANGED <<table, event, passes, closing>>

StopEvents ==
    /\ phase = "final" /\ command = "wait"
    /\ phase' = "ended"
    /\ UNCHANGED <<table, event, passes, closing>>

-----------------------------------------------------------------------------

Quiet ==
    \/ \E p \in Processors : Start(p) \/ Select(p) \/ Finish(p) \/ Call(p) \/ Back(p)
    \/ \E n \in Names : LoadName(n) \/ \E what \in {"enable", "disable", "config", "ask"} :
                                        Begin(n, what)
    \/ Gone \/ Enable \/ DisableIt
    \/ Check("config", "shut") \/ Check("ask", "answer")
    \/ InitFails \/ InitWorks
    \/ OpenFails \/ Open \/ InitEnds("publish") \/ InitEnds("drop")
    \/ Publish \/ DropCleared
    \/ Close \/ FiniNext \/ FiniClear \/ FiniEnds \/ StopEvents

Loud ==
    \/ CallEntry("init", "loaded")
    \/ CallEntry("shut", "start") \/ CallEntry("start", "tested")
    \/ CallEntry("answer", "wait")
    \/ Drop \/ FiniUnload

FilterNext == ~crashed /\ (Loud \/ (Quiet /\ UNCHANGED crashed))

FilterSpec == FilterInit /\ [][FilterNext]_filvars

-----------------------------------------------------------------------------
(* Properties.                                                              *)

FilterTypeOK ==
    /\ name \in [Places -> Names \cup {NoName}] /\ id \in [Places -> Nat]
    /\ enabled \subseteq Places /\ entry \subseteq Places /\ mapped \subseteq Places
    /\ command \in {"wait", "enable", "disable", "config", "shut", "start", "tested",
                    "ask", "answer", "open", "init", "loaded", "publish", "drop",
                    "clear"}
    /\ place \in Places
    /\ newid \in Nat
    /\ pass \in [Processors -> {"idle", "select", "call", "run"}]
    /\ filter \in [Processors -> Places]
    /\ last \in [Processors -> Nat]
    /\ due \in [Processors -> SUBSET Places]
    /\ phase \in {"work", "fini", "remove", "final", "ended"}
    /\ closing \in 0 .. MaxFilters /\ (phase = "remove" => closing \in Places)

\* No frame is given to a filter whose plugin was unloaded, though tables are
\* read, changed and cleared without a lock (tc_filter_process).
RunsLoaded == \A p \in Processors : pass[p] = "run" => filter[p] \in mapped

\* A frame meets every filter that was enabled when its pass began and stayed
\* enabled, while the event thread loads, enables and removes others.
PassComplete == \A p \in Processors : pass[p] = "idle" => due[p] = {}

\* A command finds a filter whenever one of that name is loaded, in spite of the
\* names that failed loads leave behind (tc_filter_find).
FindsLoaded ==
    \A s \in Loaded : phase = "work" => \E u \in Places : Found(name[s], u)

\* No command calls a filter after its plugin is gone.  tc_filter_fini's comment
\* forbids every call after it; the event thread outlives it.
NoLateCall == ~crashed
=============================================================================
