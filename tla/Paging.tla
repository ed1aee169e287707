------------------------------- MODULE Paging -------------------------------
(***************************************************************************)
(* How a client reads a long list page by page: the feed and the lists of  *)
(* PostsService and MusicService.  Each query takes one row more than the  *)
(* page to know whether there is a next page, and answers with a cursor.   *)
(* The list changes between the pages.                                     *)
(***************************************************************************)
EXTENDS Integers, FiniteSets

CONSTANTS
    Rows,        \* how many rows the where clause of the list selects
    Take,        \* the size of a page
    MaxStamp     \* bound: values of createdAt

ASSUME PagingAssumption ==
    /\ Rows \in Nat /\ Take \in Nat \ {0} /\ MaxStamp \in Nat \ {0}

Row == 1..Rows

VARIABLES
    at,          \* createdAt of each row; 0 when it is not on the list
    source,      \* the query of the feed that returns the row
    clock,       \* createdAt of the next row
    walk,        \* the list that is read, and the cursor of the next page
    times,       \* history: how often each row was served
    steady,      \* history: rows on the list since the walk began
    used,        \* history: the cursors sent so far
    astray       \* history: the row of the next page's cursor was erased

pagingVars == <<at, source, clock, walk, times, steady, used, astray>>

\* The lists by what their cursor is: a time; the last row of the page; the
\* row after the page, which was fetched to see whether there is one.
Dated == {"feed", "music"}
LastRow == {"user posts", "comments", "liked", "reposts of a post"}
RowAfter == {"saved", "my reposts", "reposts of a user"}
List == Dated \cup LastRow \cup RowAfter

\* A time or a row; or no cursor yet, or none any more.
Start == -1
End == 0
Cursor == 1..MaxStamp \cup Row \cup {Start, End}

PagingTypeOK ==
    /\ at \in [Row -> 0..MaxStamp]
    /\ source \in [Row -> {"post", "repost"}]
    /\ clock \in 1..MaxStamp
    /\ walk \in [list : List, cursor : Cursor]
    /\ times \in [Row -> Nat]
    /\ steady \subseteq Row
    /\ used \subseteq Cursor
    /\ astray \in BOOLEAN

PagingInit ==
    /\ at = [r \in Row |-> 0]
    /\ source \in [Row -> {"post", "repost"}]
    /\ clock = 1
    /\ walk \in [list : List, cursor : {End}]
    /\ times = [r \in Row |-> 0]
    /\ steady = {}
    /\ used = {}
    /\ astray = FALSE

-----------------------------------------------------------------------------
Listed == {r \in Row : at[r] > 0}

\* createdAt descending; comments are read in the order they were written.
Before(r, s) == IF walk.list = "comments" THEN at[r] < at[s] ELSE at[r] > at[s]

\* A new row is written while the walk goes on.  Rows of one millisecond are
\* tried where the cursor is a time; elsewhere the order of the list is total.
\* A row that was erased does not come back, for a new one has another id;
\* but the rows of the liked list go by their post, and one liked again is on
\* the list again, with a new time.
Write(r) ==
    /\ walk.cursor # Start
    /\ at[r] = 0
    /\ walk.list # "liked" =>
          times[r] = 0 /\ (walk.list \in Dated \/ r \notin used)
    /\ at' = [at EXCEPT ![r] = clock]
    /\ IF walk.list \in Dated THEN clock' \in {clock, clock + 1}
                              ELSE clock' = clock + 1
    /\ clock' <= MaxStamp
    /\ UNCHANGED <<source, walk, times, steady, used, astray>>

\* A toggle or a deletion takes a row off the list.
Erase(r) ==
    /\ r \in Listed
    /\ at' = [at EXCEPT ![r] = 0]
    /\ steady' = steady \ {r}
    /\ astray' = (astray \/ (walk.list \notin Dated /\ r = walk.cursor))
    /\ UNCHANGED <<source, clock, walk, times, used>>

\* A client opens the list.
Open ==
    /\ walk.cursor = End /\ used = {}
    /\ walk' = [walk EXCEPT !.cursor = Start]
    /\ steady' = Listed
    /\ used' = {Start}
    /\ UNCHANGED <<at, source, clock, times, astray>>

\* The first n rows of S; the database orders rows of one time as it likes.
Firsts(n, S) ==
    {T \in SUBSET S :
        /\ Cardinality(T) = IF Cardinality(S) < n THEN Cardinality(S) ELSE n
        /\ \A r \in T, s \in S \ T : ~Before(s, r)}

AfterCursor_Inclusive(c) ==
    IF c = Start THEN Listed
    ELSE IF walk.list \in Dated THEN {r \in Listed : at[r] <= c}
    ELSE {r \in Listed : c \in Listed /\ Before(c, r)}

\* createdAt: { lt: cursor }, or the rows after the cursor's row; when that
\* row is no longer on the list there are none.
AfterCursor(c) ==
    IF c = Start THEN Listed
    ELSE IF walk.list \in Dated THEN {r \in Listed : at[r] < c}
    ELSE {r \in Listed : c \in Listed /\ Before(c, r)}

\* One query; getFeed merges the firsts of two.
Fetched(S) ==
    IF walk.list # "feed" THEN Firsts(Take + 1, S)
    ELSE {rows \in SUBSET S :
            \E T \in Firsts(Take + 1, {r \in S : source[r] = "post"}),
               U \in Firsts(Take + 1, {r \in S : source[r] = "repost"}) :
                  rows \in Firsts(Take + 1, T \cup U)}

LastOf(S) == {r \in S : \A s \in S : ~Before(r, s)}

\* The cursor of the answer.
NextCursor(rows, page) ==
    IF Cardinality(rows) <= Take THEN {End}
    ELSE IF walk.list \in Dated THEN {at[r] : r \in LastOf(page)}
    ELSE IF walk.list \in LastRow THEN LastOf(page)
    ELSE LastOf(rows)

ReadPage ==
    /\ walk.cursor # End
    /\ \E rows \in Fetched(AfterCursor(walk.cursor)) :
         \E page \in Firsts(Take, rows), c \in Cursor :
           /\ c \in NextCursor(rows, page)
           /\ walk' = [walk EXCEPT !.cursor = c]
           /\ used' = used \cup {c}
           /\ times' = [r \in Row |->
                          IF r \in page THEN times[r] + 1 ELSE times[r]]
    /\ UNCHANGED <<at, source, clock, steady, astray>>

PagingNext ==
    \/ \E r \in Row : Write(r) \/ Erase(r)
    \/ Open
    \/ ReadPage

PagingSpec == PagingInit /\ [][PagingNext]_pagingVars

-----------------------------------------------------------------------------
\* Rows the code loses at a cursor: those of the very time of a dated cursor
\* that did not fit the page, and the row after each page of RowAfter.
LostAtCursor(r) ==
    IF walk.list \in Dated THEN at[r] \in used
    ELSE walk.list \in RowAfter /\ r \in used

\* No row is served twice, and a walk to the end serves every row that was
\* on the list all the time, whatever is written and erased meanwhile: but
\* for LostAtCursor, and for a walk whose cursor's row was erased, which ends
\* there - or, on the liked list, goes on wherever that post is liked again.
WalkServesSteadyRows ==
    /\ ~(walk.list = "liked" /\ astray) => \A r \in Row : times[r] <= 1
    /\ walk.cursor = End /\ used # {} =>
         astray \/ \A r \in steady : times[r] = 1 \/ LostAtCursor(r)
=============================================================================
