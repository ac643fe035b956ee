------------------------------ MODULE Pagination ------------------------------
(***************************************************************************)
(* A section of the page that has a "Load more" button: list of            *)
(* backend/src/images/imageRepository.ts on one side, fetchSection,        *)
(* loadMore and reloadAll of frontend/src/hooks/useImageUploads.ts with    *)
(* the section actions of the reducer on the other, while rows enter and   *)
(* leave the section.  LiveUpdates has the order of events and snapshots;  *)
(* here a change reaches a page that is live at once, and any other never. *)
(***************************************************************************)
EXTENDS Integers, FiniteSets, FiniteSetsExt

CONSTANTS
    MaxRows,   \* bound: rows that are ever in the section
    Batch,     \* how many rows one insert creates: they share their created_at
    Limit,     \* rows of a page
    MaxDrops,  \* bound: losses of the event stream or of the LISTEN connection
    MaxAsks,   \* bound: list requests
    Null       \* no cursor, no answer yet

ASSUME PagingBounds == /\ {MaxRows, Batch, Limit, MaxDrops, MaxAsks} \subseteq Nat
                       /\ Batch > 0 /\ Limit > 0 /\ MaxAsks > 0 /\ Null \notin Int

VARIABLES
    rows,    \* the status of each row: not yet in the section, in it, or gone from it
    shown,   \* the rows of the section that state.images has
    live,    \* whether the page hears of changes
    paging,  \* state.paging of the section, with the reload its cursor stems from
    seen,    \* paging as of the last render, which a click acts on
    asks,    \* list requests under way, numbered
    asked, reloads, drops   \* how many requests, reloads and losses there were

clicks     == <<live, seen, drops>>
pagingVars == <<rows, shown, live, paging, seen, asks, asked, reloads, drops>>

Rows   == 1 .. MaxRows
Cursor == Rows \cup {Null}
Paging == [cursor : Cursor, loading : BOOLEAN, of : 0 .. MaxDrops + 1]
Answer == [rows : SUBSET Rows, next : Cursor]
Ask    == [n : 1 .. MaxAsks, of : 1 .. MaxDrops + 1, from : Cursor, answer : Answer \cup {Null}]

ASSUME NoAnswer == Null \notin Answer

PagingTypeOK ==
    /\ rows \in [Rows -> {"out", "in", "gone"}] /\ shown \subseteq Rows
    /\ live \in BOOLEAN /\ paging \in Paging /\ seen \in Paging
    /\ \A a \in asks : a \in Ask
    /\ asked \in 1 .. MaxAsks /\ reloads = drops + (IF live THEN 1 ELSE 0)

\* Rows are numbered in the order of (created_at, id); a batch shares created_at.
CreatedAt(k) == k \div Batch

\* Mutant: a cursor of the time alone.
EarlierByTime(a, b) == CreatedAt(a) < CreatedAt(b)

\* The row comparison (created_at, id) < (?, ?): the column's milliseconds survive
\* encodeCursor and decodeCursor.
Earlier(a, b) == \/ CreatedAt(a) < CreatedAt(b)
                 \/ CreatedAt(a) = CreatedAt(b) /\ a < b

\* The newest n of some rows.
Newest(n, ks) == {k \in ks : Cardinality({j \in ks : j > k}) < n}

\* Mutant: the row read in excess becomes the cursor.
ListSkips(from) ==
    LET found == {k \in Rows : rows[k] = "in" /\ (from = Null \/ Earlier(k, from))} IN
    [rows |-> Newest(Limit, found),
     next |-> IF Cardinality(found) > Limit THEN Min(Newest(Limit + 1, found)) ELSE Null]

\* list: one row more than the page tells whether there is a next one.
List(from) ==
    LET found == {k \in Rows : rows[k] = "in" /\ (from = Null \/ Earlier(k, from))} IN
    [rows |-> Newest(Limit, found),
     next |-> IF Cardinality(found) > Limit THEN Min(Newest(Limit, found)) ELSE Null]

\* fetchSection up to its await.
Fetch(of, from) ==
    /\ asked < MaxAsks /\ asked' = asked + 1
    /\ asks' = asks \cup {[n |-> asked + 1, of |-> of, from |-> from, answer |-> Null]}

\* The mount has fetched, and the stream is open: it opens before any answer comes,
\* or LiveUpdates has what is missed.
PagingInit ==
    /\ rows \in [Rows -> {"out", "in"}] /\ shown = {} /\ live = TRUE
    /\ paging = [cursor |-> Null, loading |-> TRUE, of |-> 0] /\ seen = paging
    /\ asks = {[n |-> 1, of |-> 1, from |-> Null, answer |-> Null]}
    /\ asked = 1 /\ reloads = 1 /\ drops = 0

\* An insert, or a verdict: image/upserted on a live page.
Enters(k) ==
    /\ rows[k] = "out"
    /\ rows' = [rows EXCEPT ![k] = "in"]
    /\ shown' = IF live THEN shown \cup {k} ELSE shown
    /\ UNCHANGED <<clicks, paging, asks, asked, reloads>>

\* A delete: no other row leaves one of these sections.  image/removed.
Leaves(k) ==
    /\ rows[k] = "in"
    /\ rows' = [rows EXCEPT ![k] = "gone"]
    /\ shown' = IF live THEN shown \ {k} ELSE shown
    /\ UNCHANGED <<clicks, paging, asks, asked, reloads>>

Drops ==
    /\ live /\ drops < MaxDrops
    /\ live' = FALSE /\ drops' = drops + 1
    /\ UNCHANGED <<rows, shown, paging, seen, asks, asked, reloads>>

\* Mutant: the first open of the stream reloads, too.
ReconnectAlways ==
    /\ live' = TRUE /\ reloads' = reloads + 1
    /\ paging' = [paging EXCEPT !.loading = TRUE]
    /\ Fetch(reloads', Null)
    /\ UNCHANGED <<rows, shown, seen, drops>>

\* The stream reopens, or resync comes: reloadAll, whatever is under way.
Reconnect ==
    /\ ~live /\ live' = TRUE /\ reloads' = reloads + 1
    /\ paging' = [paging EXCEPT !.loading = TRUE]
    /\ Fetch(reloads', Null)
    /\ UNCHANGED <<rows, shown, seen, drops>>

\* loadMore, with the cursor and the guard of the last render.
LoadMore ==
    /\ seen.cursor # Null /\ ~seen.loading
    /\ paging' = [paging EXCEPT !.loading = TRUE]
    /\ seen' = paging'
    /\ Fetch(seen.of, seen.cursor)
    /\ UNCHANGED <<rows, shown, live, reloads, drops>>

RenderPaging ==
    /\ seen # paging /\ seen' = paging
    /\ UNCHANGED <<rows, shown, live, paging, asks, asked, reloads, drops>>

ListReads(a) ==
    /\ a.answer = Null
    /\ asks' = (asks \ {a}) \cup {[a EXCEPT !.answer = List(a.from)]}
    /\ UNCHANGED <<rows, shown, clicks, paging, asked, reloads>>

\* section/loaded.
Loaded(a) ==
    /\ a.answer # Null
    /\ asks' = asks \ {a}
    /\ shown' = shown \cup a.answer.rows
    /\ paging' = [cursor |-> a.answer.next, loading |-> FALSE, of |-> a.of]
    /\ UNCHANGED <<rows, clicks, asked, reloads>>

\* section/loadFailed.
LoadFailed(a) ==
    /\ asks' = asks \ {a}
    /\ paging' = [paging EXCEPT !.loading = FALSE]
    /\ UNCHANGED <<rows, shown, clicks, asked, reloads>>

PagingNext ==
    \/ \E k \in Rows : Enters(k) \/ Leaves(k)
    \/ Drops \/ Reconnect \/ LoadMore \/ RenderPaging
    \/ \E a \in asks : ListReads(a) \/ Loaded(a) \/ LoadFailed(a)

PagingSpec == PagingInit /\ [][PagingNext]_pagingVars

-----------------------------------------------------------------------------
\* Paging loses no row: on a live page each row of the section is shown, or lies where
\* "Load more" will come to it, whatever entered and left meanwhile and whatever
\* request is still under way.  Excused is a cursor that does not stem from the newest
\* reload: that reload failed or has no answer yet, or a page asked for before it was
\* answered after it.
NothingUnreachable ==
    live /\ paging.of = reloads =>
        \A k \in Rows \ shown : rows[k] = "in" => paging.cursor # Null /\ k < paging.cursor

=============================================================================
