---------------------------- MODULE ListSequence ----------------------------
(***************************************************************************)
(* What a list promises (tclist.h): a sequence of data with a size, into   *)
(* which data go at a position and from which they come, counted from the  *)
(* start (0, 1, ...) or from the end (-1, -2, ...), also at positions that *)
(* the sequence does not have.                                             *)
(***************************************************************************)
EXTENDS Integers, SequencesExt

CONSTANTS Datas, Positions

VARIABLES items, size,
          place,  \* the position that the last call named
          got     \* what the last call returned

SeqInit == items = <<>> /\ size = 0 /\ place = 0 /\ got = 0

\* The index of position p in a sequence of n items.
Index(p, n) == IF p >= 0 THEN p + 1 ELSE n + p + 1

Has(p, n) == p \in -n .. n - 1

\* "Position after the last -> the last.  Position before the first -> the first."
Within(p, n) == CASE Has(p, n) -> Index(p, n)
                 [] p >= n    -> n
                 [] p < -n    -> 1

\* The new element becomes the position p of the list.
Put(p, d) ==
    /\ size' = size + 1 /\ place' = p
    /\ UNCHANGED got
    /\ items' = InsertAt(items, Within(p, size + 1), d)

Look(p) ==
    /\ Has(p, size)
    /\ place' = p /\ UNCHANGED <<items, size>>
    /\ got' = items[Index(p, size)]

Take(p) ==
    /\ Has(p, size)
    /\ size' = size - 1 /\ place' = p
    /\ got' = items[Index(p, size)]
    /\ items' = RemoveAt(items, Index(p, size))

\* "NULL on error (requested element doesn't exist)": looked for or taken.
Miss(p) ==
    /\ ~Has(p, size)
    /\ place' = p /\ got' = 0 /\ UNCHANGED <<items, size>>

Clear == items' = <<>> /\ size' = 0 /\ UNCHANGED <<place, got>>

SeqNext ==
    \/ Clear
    \/ \E d \in Datas, p \in Positions \cup {0, -1} : Put(p, d)
    \/ \E p \in Positions : Look(p) \/ Take(p) \/ Miss(p)

SeqSpec == SeqInit /\ [][SeqNext]_<<items, size, place, got>>
=============================================================================
