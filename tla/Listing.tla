-------------------------------- MODULE Listing --------------------------------
(***************************************************************************)
(* A client that walks through the pages of a list while others write to   *)
(* the table.  paginatedList asks for the rows of the page first and for   *)
(* the total behind them: the client stops at the last page it was told of.*)
(***************************************************************************)
EXTENDS Repository

CONSTANT Limit      \* rows of a page

ASSUME LimitAssumption == Limit \in Nat \ {0}

VARIABLES
    walk,           \* the page the client asks for, and what of it is still to be read
    seen,           \* rows it has been shown
    awaited,        \* rows on the list from the beginning on
    shrunk          \* whether a row has left the list since

listVars == <<walk, seen, awaited, shrunk>>

Walks == [page : Nat, read : 0..2, total : Nat]

ListTypeOK(ids) ==
    /\ walk \in Walks /\ seen \subseteq ids /\ awaited \subseteq ids /\ shrunk \in BOOLEAN

ListInit(list) ==
    /\ walk = [page |-> 1, read |-> 0, total |-> 0]
    /\ seen = {} /\ awaited = ToSet(list) /\ shrunk = FALSE

\* Mutant of Statements: the total is asked for before the rows.
Statements_CountFirst == <<"count", "items">>

\* getManyAndCount.
Statements == <<"items", "count">>

Walking == walk.page # 0
Reading   == walk.read + 1
Asks(s) == Walking /\ walk.read < 2 /\ Statements[Reading] = s

ReadItems(list) ==
    /\ Asks("items")
    /\ seen' = seen \cup ToSet(PageOf(list, walk.page, Limit))
    /\ walk' = [walk EXCEPT !.read = Reading]

ReadCount(list) ==
    /\ Asks("count")
    /\ walk' = [walk EXCEPT !.read = Reading, !.total = Len(list)]
    /\ UNCHANGED seen

\* The answer is there: the client goes on to the next page, if there is one.
TurnPage ==
    /\ Walking /\ walk.read = 2
    /\ walk' = [page |-> IF walk.page < PagesFor(walk.total, Limit) THEN walk.page + 1 ELSE 0,
                read |-> 0, total |-> 0]
    /\ UNCHANGED seen

WalkOn(list) == ReadItems(list) \/ ReadCount(list) \/ TurnPage

\* What a step of anybody does to the list.
Observe(before, after) ==
    /\ awaited' = awaited \cap ToSet(after)
    /\ shrunk' = (shrunk \/ (Walking /\ ~(ToSet(before) \subseteq ToSet(after))))

-----------------------------------------------------------------------------
\* Who walks through the pages to the last one has seen every row that was there
\* all the time, whatever is inserted or changed meanwhile, unless a row was
\* removed: rows then move up, and one may slip to a page already read
\* (base.repository.ts).
WalkSeesEveryRow == ~Walking /\ ~shrunk => awaited \subseteq seen
=============================================================================
