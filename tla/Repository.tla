------------------------------ MODULE Repository ------------------------------
(***************************************************************************)
(* What BaseRepository makes of a row and of a table: merges, and lists    *)
(* that are filtered, sorted and cut into pages.                           *)
(***************************************************************************)
EXTENDS Naturals, FiniteSets, SequencesExt

\* Mutant of Merge: the patch is the row.
Merge_Replacing(patch, row) == patch

\* merge leaves the columns alone that the patch does not name.
Merge(patch, row) == [c \in DOMAIN row |-> IF c \in DOMAIN patch THEN patch[c] ELSE row[c]]

Compares(op, x, y) == CASE op = "eq"  -> x = y
                        [] op = "ne"  -> x # y
                        [] op = "gt"  -> x > y
                        [] op = "gte" -> x >= y
                        [] op = "lt"  -> x < y
                        [] op = "lte" -> x <= y

\* A query is a set of conditions; a row meets them all.
Meets(row, query) == \A c \in query : Compares(c.op, row[c.col], c.value)

Matching(table, query) == {i \in DOMAIN table : table[i].there /\ Meets(table[i], query)}

\* Without a sortBy, the ids descend: the k-th row has k - 1 newer ones.
Newer(rows, i) == {j \in rows : j > i}
NewestFirst(rows) ==
    [k \in 1..Cardinality(rows) |-> CHOOSE i \in rows : Cardinality(Newer(rows, i)) = k - 1]

Listed(table, query) == NewestFirst(Matching(table, query))

\* skip and take.
PageOf(list, page, limit) ==
    SubSeq(list, (page - 1) * limit + 1, Min({page * limit, Len(list)}))

PagesFor(total, limit) == (total + limit - 1) \div limit
=============================================================================
