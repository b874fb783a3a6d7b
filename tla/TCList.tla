------------------------------- MODULE TCList -------------------------------
(***************************************************************************)
(* The doubly linked list with a cache of deleted items                    *)
(* (libtc/tclist.c), and the sequence it stands for.                       *)
(*                                                                         *)
(* An item is a number, 0 is NULL.  Memory that was released is not        *)
(* allocated again here, so that an operation that follows a pointer into  *)
(* it can be told from one that does not.  Callers name any position, also *)
(* one that the list does not have.                                        *)
(***************************************************************************)
EXTENDS Integers, SequencesExt

CONSTANTS MaxItems,  \* bound: the allocations of a run
          Datas,     \* what callers put into the list
          Cached,    \* the values of use_cache
          Positions, \* the positions callers name
          Careful    \* the values of careful

ASSUME ListAssumption ==
    /\ MaxItems \in Nat /\ Cached \subseteq BOOLEAN
    /\ Positions \subseteq Int /\ Careful \subseteq BOOLEAN

VARIABLES head, tail, nelems,
          prev, next, data,  \* the fields of each item
          cache, use_cache,
          fresh,     \* the next item tc_zalloc() returns
          released,  \* items given back by tc_free()
          asked,     \* the position that the last call named
          result,    \* what the last get or pop returned
          broken,    \* the call that has followed a NULL or released pointer
          careful    \* callers name positions that the list has, or the first (get, pop)

ends == <<head, tail, nelems>>
links == <<prev, next, data>>
memory == <<cache, use_cache, fresh, released>>
listvars == <<ends, links, memory, asked, result, broken, careful>>

Items == 1 .. MaxItems
Pointers == 0 .. MaxItems

Fault(name, pos) == [call |-> name, at |-> pos]
NoFault == Fault("none", 0)

ListInit ==
    /\ head = 0 /\ tail = 0 /\ nelems = 0
    /\ prev = [i \in Items |-> 0] /\ next = [i \in Items |-> 0]
    /\ data = [i \in Items |-> 0]
    /\ cache = 0 /\ use_cache \in Cached
    /\ fresh = 1 /\ released = {}
    /\ asked = 0 /\ result = 0 /\ broken = NoFault
    /\ careful \in Careful

\* The items met by following next, or prev, from an item up to a NULL.
Walk(start, link) ==
    LET w[k \in Pointers] ==
          IF k = 0 THEN start ELSE IF w[k - 1] = 0 THEN 0 ELSE link[w[k - 1]]
        len == CHOOSE n \in Pointers : /\ n = MaxItems \/ w[n] = 0
                                       /\ \A k \in 0 .. n - 1 : w[k] # 0
    IN [k \in 1 .. len |-> w[k - 1]]

\* What tc_list_foreach() visits.
Forward == Walk(head, next)
Backward == Walk(tail, prev)

Contents == LET items == Forward IN [k \in DOMAIN items |-> data[items[k]]]

\* The item after n steps, or where the search ends before.
StepsInto(path, n) ==
    CASE path = <<>>   -> 0
      [] Len(path) > n -> path[n + 1]
      [] OTHER         -> Last(path)

\* find_position()
FindPosition(pos) ==
    CASE pos = 0  -> head
      [] pos = -1 -> tail
      [] pos > 0  -> StepsInto(Forward, pos)
      [] pos < -1 -> StepsInto(Backward, -pos - 1)

\* The search reads an item that was released.
Lost(pos) ==
    LET path  == IF pos >= 0 THEN Forward ELSE Backward
        steps == IF pos >= 0 THEN pos ELSE -pos - 1
    IN \E k \in DOMAIN path : k <= steps + 1 /\ path[k] \in released

-----------------------------------------------------------------------------

\* new_item(): the item and what is left of the cache.
NewItem(i) ==
    IF use_cache /\ cache # 0
    THEN i = cache /\ cache' = next[cache] /\ UNCHANGED <<use_cache, fresh, released>>
    ELSE /\ i = fresh /\ fresh <= MaxItems /\ fresh' = fresh + 1
         /\ UNCHANGED <<cache, use_cache, released>>

\* A pointer that cannot be followed.
Bad(i) == i = 0 \/ i \in released

\* The process has read or written memory that is not there.
Break(name, pos) ==
    broken' = Fault(name, pos) /\ UNCHANGED <<ends, links, memory, asked, result>>

\* tc_list_append(): a recycled item keeps its next pointer.
ListAppend(d) ==
    \E i \in Items :
       IF head # 0 /\ Bad(tail) THEN Break("append", -1)
       ELSE /\ NewItem(i)
            /\ data' = [data EXCEPT ![i] = d]
            /\ prev' = [prev EXCEPT ![i] = tail]
            /\ IF head = 0 THEN head' = i /\ UNCHANGED next
                           ELSE next' = [next EXCEPT ![tail] = i] /\ UNCHANGED head
            /\ tail' = i /\ nelems' = nelems + 1 /\ asked' = -1
            /\ UNCHANGED <<result, broken>>

\* tc_list_prepend()
ListPrepend(d) ==
    \E i \in Items :
       IF tail # 0 /\ Bad(head) THEN Break("prepend", 0)
       ELSE /\ NewItem(i)
            /\ data' = [data EXCEPT ![i] = d]
            /\ next' = [next EXCEPT ![i] = head]
            /\ IF tail = 0 THEN tail' = i /\ UNCHANGED prev
                           ELSE prev' = [prev EXCEPT ![head] = i] /\ UNCHANGED tail
            /\ head' = i /\ nelems' = nelems + 1 /\ asked' = 0
            /\ UNCHANGED <<result, broken>>

\* item_insert_before()
InsertBefore(ref, pos, d) ==
    \E i \in Items :
       IF Bad(prev[ref]) THEN Break("insert", pos)
       ELSE /\ NewItem(i)
            /\ data' = [data EXCEPT ![i] = d]
            /\ next' = [next EXCEPT ![prev[ref]] = i, ![i] = ref]
            /\ prev' = [prev EXCEPT ![i] = prev[ref], ![ref] = i]
            /\ nelems' = nelems + 1 /\ asked' = pos
            /\ UNCHANGED <<head, tail, result, broken>>

\* item_insert_after()
InsertAfter(ref, pos, d) ==
    \E i \in Items :
       IF Bad(next[ref]) THEN Break("insert", pos)
       ELSE /\ NewItem(i)
            /\ data' = [data EXCEPT ![i] = d]
            /\ prev' = [prev EXCEPT ![next[ref]] = i, ![i] = ref]
            /\ next' = [next EXCEPT ![i] = next[ref], ![ref] = i]
            /\ nelems' = nelems + 1 /\ asked' = pos
            /\ UNCHANGED <<head, tail, result, broken>>

\* tc_list_insert() where it neither prepends nor appends; it fails, without an
\* effect, when the search finds nothing.
ListInsert(pos, d) ==
    LET ref == FindPosition(pos)
    IN IF Lost(pos) THEN Break("insert", pos)
       ELSE ref # 0 /\ IF pos > 0 THEN InsertBefore(ref, pos, d)
                                 ELSE InsertAfter(ref, pos, d)

\* tc_list_get()
ListGet(pos) ==
    LET i == FindPosition(pos)
    IN IF Lost(pos) THEN Break("get", pos)
       ELSE /\ asked' = pos /\ result' = IF i = 0 THEN 0 ELSE data[i]
            /\ UNCHANGED <<ends, links, memory, broken>>

\* Mutant: the item behind keeps its pointer to the one that goes.
PrevKept(i) == prev

\* Mutant: the item behind is made the first one, wherever it comes to stand.
PrevCut(i) ==
    [j \in Items |-> IF j # next[i] \/ (tail = i /\ head # i) THEN prev[j] ELSE 0]

\* The pointers back when item i is unlinked: of the new head, or of the item behind.
PrevWithout(i) ==
    [j \in Items |-> IF j # next[i] \/ (tail = i /\ head # i) THEN prev[j]
                     ELSE IF head = i THEN 0 ELSE prev[i]]

\* The pointers forward: of the new tail, or of the item before.
NextWithout(i) ==
    [j \in Items |-> IF j # prev[i] \/ head = i THEN next[j]
                     ELSE IF tail = i THEN 0 ELSE next[i]]

\* del_item()
DelItem(i) ==
    IF use_cache
    THEN /\ prev' = [PrevWithout(i) EXCEPT ![i] = 0]
         /\ next' = [NextWithout(i) EXCEPT ![i] = cache]
         /\ data' = [data EXCEPT ![i] = 0]
         /\ cache' = i /\ UNCHANGED released
    ELSE /\ prev' = PrevWithout(i) /\ next' = NextWithout(i) /\ UNCHANGED data
         /\ released' = released \cup {i} /\ UNCHANGED cache

\* The items that unlinking item i writes to.
Joined(i) ==
    CASE head = i              -> {next[i]} \ {0}
      [] head # i /\ tail = i -> {prev[i]} \ {0}
      [] OTHER                 -> {prev[i], next[i]}

\* Unlinking the item i.
Unlink(i) ==
    /\ result' = data[i]
    /\ DelItem(i)
    /\ head' = IF head = i THEN next[i] ELSE head
    /\ tail' = IF tail = i /\ head # i THEN prev[i] ELSE tail
    /\ nelems' = nelems - 1
    /\ UNCHANGED <<use_cache, fresh, broken>>

\* tc_list_pop(): the tail stays when the only item goes.
ListPop(pos) ==
    LET i == FindPosition(pos)
    IN IF Lost(pos) THEN Break("pop", pos)
       ELSE IF i = 0
       THEN asked' = pos /\ result' = 0 /\ UNCHANGED <<ends, links, memory, broken>>
       ELSE IF \E j \in Joined(i) : Bad(j) THEN Break("pop", pos)
       ELSE asked' = pos /\ Unlink(i)

\* tc_list_fini() frees the items of the list and of the cache.
ListFini ==
    LET freed == Range(Forward) \cup Range(Walk(cache, next))
    IN IF Range(Forward) \cap Range(Walk(cache, next)) # {} \/ freed \cap released # {}
       THEN Break("fini", 0)
       ELSE /\ head' = 0 /\ tail' = 0 /\ nelems' = 0
            /\ cache' = 0 /\ use_cache' = FALSE
            /\ released' = released \cup freed
            /\ UNCHANGED <<links, fresh, asked, result, broken>>

\* The positions that exist in the list.
Existing == -nelems .. nelems - 1

\* What callers name of them, and of the others.
Named(sensible) == IF careful THEN Positions \cap sensible ELSE Positions

ListNext ==
    /\ broken = NoFault /\ UNCHANGED careful
    /\ \/ \E d \in Datas : ListAppend(d) \/ ListPrepend(d)
       \/ \E d \in Datas, pos \in Named(Existing) \ {0, -1} : ListInsert(pos, d)
       \/ \E pos \in Named(Existing \cup {0}) : ListGet(pos) \/ ListPop(pos)
       \/ ListFini

ListSpec == ListInit /\ [][ListNext]_listvars

-----------------------------------------------------------------------------
(* Properties.                                                              *)

\* tc_list_pop() leaves the tail of an emptied list as it was, and what is then
\* appended points back to it (use_cache = 0).
Stale == IF head = 0 THEN tail # 0 ELSE prev[head] # 0

\* Whichever positions callers name, an operation follows a NULL or released
\* pointer in these cases only: prepending to a list that pops have emptied; a
\* position from the end that is missing, in such a list or in what was put into
\* it since; and inserting at a missing position of a list of one item
\* (tc_list_prepend, find_position, item_insert_before, item_insert_after).
BreaksOnlyThere ==
    [][broken' # broken =>
          LET pos == broken'.at
              missing == pos \notin Existing
          IN CASE broken'.call = "prepend"        -> head = 0 /\ Stale
               [] broken'.call \in {"get", "pop"} -> missing /\ pos < 0 /\ Stale
               [] broken'.call = "insert" ->
                     missing /\ ((pos < 0 /\ Stale) \/ nelems = 1)
               [] OTHER -> FALSE]_listvars

\* The list is the sequence that tclist.h describes, whichever way an item is
\* reached, as long as callers are careful and no operation has followed a pointer
\* of an emptied list (use_cache = 0).  Of other callers it says nothing: for a
\* missing element they get the one at which the search ended.
Sequence == INSTANCE ListSequence
               WITH items <- IF careful THEN Contents ELSE <<>>,
                    size  <- IF careful THEN nelems ELSE 0,
                    place <- IF careful THEN asked ELSE 0,
                    got   <- IF careful THEN result ELSE 0

ImplementsSequence == Sequence!SeqSpec
=============================================================================
