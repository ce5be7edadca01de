------------------------------- MODULE Paging -------------------------------
(***************************************************************************)
(* A list that is read one page at a time with a bookmark: rooms and       *)
(* contests of a user, newest first, and the tabs of the browse page, each *)
(* sorted by a date of its own in its own direction.  The page keeps the   *)
(* pages it loaded; what is in the list changes between any two requests.  *)
(***************************************************************************)
EXTENDS Integers, FiniteSets, Sequences, SequencesExt

CONSTANTS
    Items,          \* the documents, as numbers: their ids are ordered
    Dates,          \* what the list is sorted by
    Limit,          \* documents of a page
    MaxEdits        \* bound: changes of the list

ASSUME PagingAssumption ==
    Items \subseteq Int /\ IsFiniteSet(Items) /\ Dates \subseteq Int /\ Limit \in Nat \ {0}

Absent == <<>>      \* the date of a document that is not, or no longer, in the list
NoMore == <<>>      \* nextCursor: null

VARIABLES
    direction,  \* 1 or -1
    at,         \* the date of each document, <<>> when it is not in the list
    pages,      \* the pages that are shown
    loading,    \* the request series that runs: its pages, how many it wants
    moved,      \* history: what has changed since the shown pages began to be read
    edits       \* bound: changes left

pagingVars == <<direction, at, pages, loading, moved, edits>>

Quiet == [on |-> FALSE, more |-> FALSE, pages |-> <<>>, want |-> 0, moved |-> {}]

PagingInit ==
    /\ direction \in {1, -1}
    /\ at \in [Items -> {Absent} \cup {<<d>> : d \in Dates}]
    /\ pages = <<>>
    /\ loading = Quiet
    /\ moved = {}
    /\ edits = MaxEdits

Here == {i \in Items : at[i] # Absent}

\* The bookmark of a document: its date and its id.
CursorOf(i) == <<at[i][1], i>>

\* Mutant: the id does not break ties.
AfterDateOnly(i, cursor) == direction * at[i][1] > direction * cursor[1]

\* Strictly after the bookmark.
After(i, cursor) ==
    \/ direction * at[i][1] > direction * cursor[1]
    \/ at[i][1] = cursor[1] /\ direction * i > direction * cursor[2]

\* The order of find: by date and then by id.
Precedes(i, j) ==
    \/ direction * at[i][1] < direction * at[j][1]
    \/ at[i][1] = at[j][1] /\ direction * i < direction * j

\* These documents in the order of find: the n-th has n - 1 before it.
InOrder(docs) ==
    [n \in 1 .. Cardinality(docs) |->
        CHOOSE i \in docs : Cardinality({j \in docs : Precedes(j, i)}) = n - 1]

\* One page: one more document than it holds is read, to know whether another follows.
PageAfter(cursor) ==
    LET matching == {i \in Here : cursor = NoMore \/ After(i, cursor)}
        rows == InOrder(matching)
        items == SubSeq(rows, 1, IF Len(rows) > Limit THEN Limit ELSE Len(rows))
    IN [items |-> items,
        next |-> IF Len(rows) > Limit THEN CursorOf(Last(items)) ELSE NoMore]

\* fetchNextPage: while there is a next page that is not on its way.  A series of
\* requests takes the place of one that has not ended.
LoadMore ==
    /\ ~loading.more
    /\ pages # <<>> /\ Last(pages).next # NoMore
    /\ loading' = [on |-> TRUE, more |-> TRUE, pages |-> pages, want |-> Len(pages) + 1, moved |-> moved]
    /\ UNCHANGED <<direction, at, pages, moved, edits>>

\* First shown, or its queries are invalidated: as many pages again, from the first.
Refetch ==
    /\ loading' = [on |-> TRUE, more |-> FALSE, pages |-> <<>>,
                   want |-> IF pages = <<>> THEN 1 ELSE Len(pages), moved |-> {}]
    /\ UNCHANGED <<direction, at, pages, moved, edits>>

\* A request of the series is answered; its page follows the last one's bookmark.
Answered ==
    /\ loading.on
    /\ LET last == IF loading.pages = <<>> THEN NoMore ELSE Last(loading.pages).next
           got == Append(loading.pages, PageAfter(last))
       IN IF Len(got) = loading.want \/ Last(got).next = NoMore
          THEN /\ pages' = got
               /\ moved' = loading.moved
               /\ loading' = Quiet
          ELSE /\ loading' = [loading EXCEPT !.pages = got]
               /\ UNCHANGED <<pages, moved>>
    /\ UNCHANGED <<direction, at, edits>>

\* Someone makes a document, moves its date or its tab, or deletes it.
Edit(i, date) ==
    /\ edits > 0 /\ edits' = edits - 1
    /\ date # at[i]
    /\ at' = [at EXCEPT ![i] = date]
    /\ moved' = moved \cup {i}
    /\ loading' = [loading EXCEPT !.moved = @ \cup {i}]
    /\ UNCHANGED <<direction, pages>>

PagingNext ==
    \/ LoadMore \/ Refetch \/ Answered
    \/ \E i \in Items, date \in {Absent} \cup {<<d>> : d \in Dates} : Edit(i, date)

PagingSpec == PagingInit /\ [][PagingNext]_pagingVars

-----------------------------------------------------------------------------

\* The documents on these pages.
Shown(list) == UNION {ToSet(list[p].items) : p \in DOMAIN list}

\* The documents that stayed and are not after the last bookmark, and no other that
\* stayed, are on these pages; each row precedes every later one, so none is there twice.
ListsInOrder(list, stayed) ==
    /\ \A i \in stayed :
          i \in Shown(list) <=> (Last(list).next = NoMore \/ ~After(i, Last(list).next))
    /\ \A p, q \in DOMAIN list : \A n \in DOMAIN list[p].items, k \in DOMAIN list[q].items :
          /\ p < q \/ (p = q /\ n < k)
          /\ {list[p].items[n], list[q].items[k]} \subseteq stayed
          => Precedes(list[p].items[n], list[q].items[k])

\* "Send it back to get the items after it": what has been in the list all along, and
\* has not moved, is shown exactly once, in order, up to the last bookmark, whatever
\* else came, moved or went between the pages (pagination.ts; contests.service.ts,
\* browse: "Dates can repeat, so the id breaks ties").
PagesShowEachOnce == pages # <<>> => ListsInOrder(pages, Here \ moved)

=============================================================================
