----------------------------- MODULE ExportPages -----------------------------
(***************************************************************************)
(* The pages of one scope's commit feed that export hands out              *)
(* (src/store/export.rs).  A caller freezes the high-water mark with its   *)
(* first page and asks for the next one after the cursor the last one      *)
(* returned; commits go on meanwhile.  A page is made of whole commits.    *)
(*                                                                         *)
(* The feed is given by ends: ends[i + 1] is the number of events of its   *)
(* first i commits, none of which is empty.  An event counts as one unit of*)
(* the byte budget too.                                                    *)
(***************************************************************************)
EXTENDS Naturals, FiniteSets

(* The events of the commits after `from`, up to and including `to`.       *)
EventsIn(ends, from, to) == ends[to + 1] - ends[from + 1]

(* The commits whose last event is among the first n after the cursor.     *)
Within(ends, cursor, mark, n) ==
    {to \in cursor + 1 .. mark : EventsIn(ends, cursor, to) <= n}

(* trailing_fetch_commit_is_whole, for a fetch of at most n events.        *)
EndsWhole(ends, cursor, mark, n) ==
    \/ n >= EventsIn(ends, cursor, mark)
    \/ \E to \in Within(ends, cursor, mark, n) : EventsIn(ends, cursor, to) = n

(* The LIMIT of the fetch: one more than the page may carry, doubled until *)
(* the last commit fetched is whole.                                       *)
FetchCap(ends, cursor, mark, limit) ==
    LET grown[cap \in Nat] ==
            IF EndsWhole(ends, cursor, mark, cap) THEN cap ELSE grown[2 * cap]
    IN  grown[limit + 1]

(* pack_export_page: whole commits while they fit both budgets, the first  *)
(* one always.                                                             *)
Packed(ends, cursor, fetched, limit, budget) ==
    {to \in fetched : \/ to = cursor + 1
                      \/ EventsIn(ends, cursor, to) <= limit
                         /\ EventsIn(ends, cursor, to) <= budget}

(* Seeded fault: the page is the last one when the fetch was.              *)
PageWhenExhausted(ends, cursor, mark, limit, budget) ==
    LET cap == FetchCap(ends, cursor, mark, limit)
        packed == Packed(ends, cursor, Within(ends, cursor, mark, cap), limit, budget)
    IN  [next |-> cursor + Cardinality(packed),
         complete |-> EventsIn(ends, cursor, mark) < cap]

(* export: the cursor to go on from, and whether that is the mark.  A fetch*)
(* that could have returned more events than it did has reached the mark.  *)
Page(ends, cursor, mark, limit, budget) ==
    LET cap == FetchCap(ends, cursor, mark, limit)
        fetched == Within(ends, cursor, mark, cap)
        packed == Packed(ends, cursor, fetched, limit, budget)
    IN  [next |-> cursor + Cardinality(packed),
         complete |-> EventsIn(ends, cursor, mark) < cap /\ packed = fetched]
================================================================================
