--------------------------- MODULE UploadHookProofs ---------------------------
(***************************************************************************)
(* The two halves of the hook useImageUploads.  Its list requests, in      *)
(* Pagination: paging loses no row, for any number of rows, sizes of pages *)
(* and batches, requests and lost connections.  Its upload queue, in       *)
(* UploadQueue: the slots hold, for any number of files, slots and faults. *)
(***************************************************************************)
EXTENDS Pagination, UploadQueue, FiniteSetTheorems, SequenceTheorems,
        WellFoundedInduction, TLAPS

-----------------------------------------------------------------------------
(* Finite sets of numbers.                                                   *)

\* A number with the fewest above (below) it cannot have one above (below) it.
LEMMA LeastAndGreatest ==
    ASSUME NEW N \in Nat, NEW K \in SUBSET (1 .. N), K # {}
    PROVE  /\ \E k \in K : \A j \in K : j <= k
           /\ \E k \in K : \A j \in K : k <= j
<1> DEFINE S == 1 .. N
<1>1. S \subseteq Nat /\ IsFiniteSet(S)
    BY FS_Interval
<1>a. K \subseteq S
    OBVIOUS
<1> HIDE DEF S
<1>2. IsWellFoundedOn(StrictSubsetOrdering(S), SUBSET S)
    BY <1>1, FS_StrictSubsetOrderingWellFounded, FS_FiniteSubsetsOfFinite
<1>3. \E k \in K : \A j \in K : j <= k
    <2> DEFINE Above(k) == {j \in K : j > k}
               Aboves == {Above(k) : k \in K}
    <2>1. Aboves \subseteq SUBSET S /\ Aboves # {}
        BY <1>a
    <2> HIDE DEF Aboves
    <2>2. PICK A \in Aboves : \A B \in Aboves : <<B, A>> \notin StrictSubsetOrdering(S)
        BY <1>2, <2>1, WFMin
    <2> USE DEF Aboves
    <2>3. PICK k \in K : A = Above(k)
        OBVIOUS
    <2>4. ASSUME NEW j \in K, j > k PROVE FALSE
        <3>1. Above(j) \subseteq Above(k) /\ j \in Above(k) /\ j \notin Above(j)
            <4>1. \A i \in K : i \in Int
                BY <1>1, <1>a
            <4>2. \A i \in K : i > j => i > k
                BY <2>4, <4>1
            <4>3. ~ (j > j)
                BY <4>1
            <4> QED BY <2>4, <4>2, <4>3
        <3>2. <<Above(j), Above(k)>> \in StrictSubsetOrdering(S)
            BY <1>a, <3>1 DEF StrictSubsetOrdering
        <3> QED BY <2>2, <2>3, <3>2
    <2> QED BY <1>1, <1>a, <2>4
<1>4. \E k \in K : \A j \in K : k <= j
    <2> DEFINE Below(k) == {j \in K : j < k}
               Belows == {Below(k) : k \in K}
    <2>1. Belows \subseteq SUBSET S /\ Belows # {}
        BY <1>a
    <2> HIDE DEF Belows
    <2>2. PICK A \in Belows : \A B \in Belows : <<B, A>> \notin StrictSubsetOrdering(S)
        BY <1>2, <2>1, WFMin
    <2> USE DEF Belows
    <2>3. PICK k \in K : A = Below(k)
        OBVIOUS
    <2>4. ASSUME NEW j \in K, j < k PROVE FALSE
        <3>1. Below(j) \subseteq Below(k) /\ j \in Below(k) /\ j \notin Below(j)
            <4>1. \A i \in K : i \in Int
                BY <1>1, <1>a
            <4>2. \A i \in K : i < j => i < k
                BY <2>4, <4>1
            <4>3. ~ (j < j)
                BY <4>1
            <4> QED BY <2>4, <4>2, <4>3
        <3>2. <<Below(j), Below(k)>> \in StrictSubsetOrdering(S)
            BY <1>a, <3>1 DEF StrictSubsetOrdering
        <3> QED BY <2>2, <2>3, <3>2
    <2> QED BY <1>1, <1>a, <2>4
<1> QED BY <1>3, <1>4

\* Those with fewer than n above them are at most n, and some unless there is none.
LEMMA TheLast ==
    ASSUME NEW N \in Nat, NEW K \in SUBSET (1 .. N), NEW n \in Int
    PROVE  LET P == {k \in K : Cardinality({j \in K : j > k}) < n}
           IN  /\ IsFiniteSet(P)
               /\ P # {} => Cardinality(P) <= n
               /\ P = {} => K = {} \/ n <= 0
<1> DEFINE Above(k) == {j \in K : j > k}
           P == {k \in K : Cardinality(Above(k)) < n}
<1>1. \A k \in K : k \in Int
    OBVIOUS
<1>2. IsFiniteSet(1 .. N)
    BY FS_Interval
<1>3. IsFiniteSet(K)
    BY <1>2, FS_Subset
<1>4. P \subseteq K /\ IsFiniteSet(P)
    BY <1>3, FS_Subset
<1>5. \A k \in K : IsFiniteSet(Above(k)) /\ Cardinality(Above(k)) \in Nat
    BY <1>3, FS_Subset, FS_CardinalityType
<1>6. ASSUME P # {} PROVE Cardinality(P) <= n
    <2>1. PICK m \in P : \A k \in P : m <= k
        BY <1>6, <1>4, LeastAndGreatest
    <2>2. P \subseteq Above(m) \cup {m}
        <3>1. \A k \in P : k = m \/ k > m
            BY <1>1, <2>1
        <3> QED BY <3>1
    <2>3. m \notin Above(m) /\ m \in K /\ Cardinality(Above(m)) < n
        BY <1>1, <2>1
    <2>4. /\ IsFiniteSet(Above(m) \cup {m})
          /\ Cardinality(Above(m) \cup {m}) = Cardinality(Above(m)) + 1
        BY <1>5, <2>3, FS_AddElement
    <2>5. Cardinality(P) <= Cardinality(Above(m) \cup {m})
        BY <2>2, <2>4, FS_Subset
    <2> QED BY <1>4, <1>5, <2>3, <2>4, <2>5, FS_CardinalityType
<1>7. ASSUME P = {}, K # {} PROVE n <= 0
    <2>1. PICK m \in K : \A k \in K : k <= m
        BY <1>7, LeastAndGreatest
    <2>2. \A k \in K : ~ (k > m)
        BY <1>1, <2>1
    <2>3. Above(m) = {}
        BY <2>2
    <2>4. Cardinality(Above(m)) = 0
        BY <2>3, FS_EmptySet
    <2> QED BY <1>7, <2>4
<1> QED BY <1>4, <1>6, <1>7

-----------------------------------------------------------------------------
(* Pagination.                                                               *)

Unseen == {k \in Rows \ shown : rows[k] = "in"}

\* "Load more" with this cursor, and what follows it, comes to every unseen row.
Covers(c) == Unseen = {} \/ (c # Null /\ \A k \in Unseen : k < c)

-----------------------------------------------------------------------------
(* list. *)

\* The row comparison is the order of the rows.
LEMMA EarlierIsLess ==
    ASSUME NEW a \in Rows, NEW b \in Rows, a < b PROVE Earlier(a, b)
<1>1. a \in Nat /\ b \in Nat /\ Batch \in Nat \ {0}
    BY PagingBounds DEF Rows
<1>2. a \div Batch <= b \div Batch
    BY <1>1
<1> QED BY <1>1, <1>2 DEF Earlier, CreatedAt


\* Some rows, if any, have a newest and an oldest.
LEMMA NewestAndOldest ==
    ASSUME NEW K \in SUBSET Rows, K # {}
    PROVE  /\ \E k \in K : \A j \in K : j <= k
           /\ \E k \in K : \A j \in K : k <= j
BY LeastAndGreatest, PagingBounds DEF Rows

\* Rows that do not fit the page are more than it holds, and older than all it has.
LEMMA PageIsNewest ==
    ASSUME NEW K \in SUBSET Rows, NEW k \in K, k \notin Newest(Limit, K)
    PROVE  /\ Cardinality(K) > Limit
           /\ Min(Newest(Limit, K)) \in K
           /\ k < Min(Newest(Limit, K))
<1> DEFINE Above(j) == {i \in K : i > j}
           Page == Newest(Limit, K)
<1>1. (\A j \in K : j \in Int) /\ IsFiniteSet(K) /\ Limit \in Nat \ {0}
    <2>1. Limit \in Nat \ {0} /\ MaxRows \in Int
        BY PagingBounds
    <2>2. IsFiniteSet(Rows)
        BY <2>1, FS_Interval DEF Rows
    <2>3. IsFiniteSet(K)
        BY <2>2, FS_Subset
    <2>4. \A j \in K : j \in Int
        BY <2>1 DEF Rows
    <2> QED BY <2>1, <2>3, <2>4
<1>2. \A j \in K : IsFiniteSet(Above(j)) /\ Cardinality(Above(j)) \in Nat
    BY <1>1, FS_Subset, FS_CardinalityType
<1>3. Cardinality(Above(k)) >= Limit
    BY <1>1, <1>2 DEF Newest
<1>4. Cardinality(K) > Limit
    <2>1. Cardinality(K \ {k}) = Cardinality(K) - 1 /\ IsFiniteSet(K \ {k})
        BY <1>1, FS_RemoveElement
    <2>2. Above(k) \subseteq K \ {k}
        BY <1>1
    <2>3. Cardinality(Above(k)) <= Cardinality(K \ {k})
        BY <2>1, <2>2, FS_Subset
    <2> QED BY <1>1, <1>2, <1>3, <2>1, <2>3, FS_CardinalityType
<1>5. Page # {}
    <2>1. PICK m \in K : \A j \in K : j <= m
        BY NewestAndOldest
    <2>2. Above(m) = {}
        <3>1. \A i \in K : ~ (i > m)
            BY <1>1, <2>1
        <3> QED BY <3>1
    <2>3. Cardinality(Above(m)) = 0
        BY <2>2, FS_EmptySet
    <2> QED BY <1>1, <2>3 DEF Newest
<1>6. \A m \in Page : k < m
    <2>1. SUFFICES ASSUME NEW m \in Page, m <= k PROVE FALSE
        BY <1>1 DEF Newest
    <2>2. m \in K /\ Cardinality(Above(m)) < Limit
        BY DEF Newest
    <2>4. \A i \in K : i > k => i > m
        BY <1>1, <2>1, <2>2
    <2>5. Above(k) \subseteq Above(m)
        BY <2>4
    <2>3. Cardinality(Above(k)) <= Cardinality(Above(m))
        BY <1>2, <2>2, <2>5, FS_Subset
    <2> QED BY <1>1, <1>2, <1>3, <2>2, <2>3
<1>7. Page \subseteq K
    BY DEF Newest
<1>8. Min(Page) \in Page
    <2>1. \E j \in Page : \A i \in Page : j <= i
        BY <1>5, <1>7, NewestAndOldest
    <2> QED BY <2>1 DEF Min
<1> QED BY <1>4, <1>6, <1>7, <1>8


-----------------------------------------------------------------------------
(* The types.                                                                *)

\* A cursor stems from a reload: without one there is none.
PagingTypes ==
    /\ PagingTypeOK
    /\ drops \in 0 .. MaxDrops
    /\ paging.of = 0 => paging.cursor = Null
    /\ seen.of = 0 => seen.cursor = Null

\* What list answers is of the types, from whatever cursor.
LEMMA ListType ==
    ASSUME NEW from \in Cursor
    PROVE  List(from) \in Answer
<1> DEFINE found == {k \in Rows : rows[k] = "in" /\ (from = Null \/ Earlier(k, from))}
<1>1. Newest(Limit, found) \subseteq Rows
    BY DEF Newest
<1>2. Cardinality(found) > Limit => Min(Newest(Limit, found)) \in Rows
    <2>1. SUFFICES ASSUME Cardinality(found) > Limit
                   PROVE  Min(Newest(Limit, found)) \in Rows
        OBVIOUS
    <2>2. found # {}
        BY <2>1, PagingBounds, FS_EmptySet
    <2>3. found \in SUBSET Rows
        OBVIOUS
    <2> HIDE DEF found
    <2>4. Newest(Limit, found) # {}
        <3>1. PICK m \in found : \A j \in found : j <= m
            BY <2>2, <2>3, NewestAndOldest
        <3>2. \A j \in found : ~ (j > m)
            BY <2>3, <3>1, PagingBounds DEF Rows
        <3>3. {j \in found : j > m} = {}
            BY <3>2
        <3>4. Cardinality({j \in found : j > m}) < Limit
            BY <3>3, PagingBounds, FS_EmptySet
        <3> QED BY <3>4 DEF Newest
    <2>5. Newest(Limit, found) \in SUBSET Rows
        BY <2>3 DEF Newest
    <2>6. \E j \in Newest(Limit, found) : \A i \in Newest(Limit, found) : j <= i
        BY <2>4, <2>5, NewestAndOldest
    <2> QED BY <2>5, <2>6 DEF Min
<1> QED BY <1>1, <1>2 DEF List, Answer, Cursor

LEMMA TypesInit == PagingInit => PagingTypes
BY PagingBounds DEF PagingInit, PagingTypes, PagingTypeOK, Paging, Ask, Answer, Cursor

LEMMA FetchType ==
    ASSUME PagingTypes, NEW of \in 1 .. MaxDrops + 1, NEW from \in Cursor, Fetch(of, from)
    PROVE  asked' \in 1 .. MaxAsks /\ \A a \in asks' : a \in Ask
<1>1. asked \in Nat /\ MaxAsks \in Nat /\ asked < MaxAsks /\ asked' = asked + 1
    BY PagingBounds DEF Fetch, PagingTypes, PagingTypeOK
<1>2. [n |-> asked + 1, of |-> of, from |-> from, answer |-> Null] \in Ask
    BY <1>1 DEF Ask
<1> QED BY <1>1, <1>2 DEF Fetch, PagingTypes, PagingTypeOK

LEMMA TypesNext == PagingTypes /\ [PagingNext]_pagingVars => PagingTypes'
<1> SUFFICES ASSUME PagingTypes, [PagingNext]_pagingVars PROVE PagingTypes'
    OBVIOUS
<1> USE PagingBounds DEF PagingTypes, PagingTypeOK
<1>1. ASSUME NEW k \in Rows, Enters(k) PROVE PagingTypes'
    BY <1>1 DEF Enters, clicks
<1>2. ASSUME NEW k \in Rows, Leaves(k) PROVE PagingTypes'
    BY <1>2 DEF Leaves, clicks
<1>3. CASE Drops
    <2>1. drops' \in 0 .. MaxDrops /\ reloads' = drops' + (IF live' THEN 1 ELSE 0)
        BY <1>3 DEF Drops
    <2>2. UNCHANGED <<rows, shown, paging, seen, asks, asked>> /\ live' \in BOOLEAN
        BY <1>3 DEF Drops
    <2> QED BY <2>1, <2>2
<1>4. CASE Reconnect
    <2>1. reloads' \in 1 .. MaxDrops + 1 /\ Null \in Cursor
        BY <1>4 DEF Reconnect, Cursor
    <2>2. asked' \in 1 .. MaxAsks /\ \A a \in asks' : a \in Ask
        BY <1>4, <2>1, FetchType DEF Reconnect
    <2>3. /\ paging' \in Paging /\ paging'.of = paging.of
          /\ paging'.cursor = paging.cursor
        BY <1>4 DEF Reconnect, Paging
    <2>4. /\ rows' = rows /\ shown' = shown /\ seen' = seen /\ drops' = drops /\ ~live
          /\ live' = TRUE /\ reloads' = reloads + 1
        BY <1>4 DEF Reconnect
    <2> QED BY <2>2, <2>3, <2>4
<1>5. CASE LoadMore
    <2>1. seen.of \in 1 .. MaxDrops + 1 /\ seen.cursor \in Cursor
        BY <1>5 DEF LoadMore, Paging
    <2>2. asked' \in 1 .. MaxAsks /\ \A a \in asks' : a \in Ask
        BY <1>5, <2>1, FetchType DEF LoadMore
    <2>3. /\ paging' \in Paging /\ paging'.of = paging.of
          /\ paging'.cursor = paging.cursor /\ seen' = paging'
        BY <1>5 DEF LoadMore, Paging
    <2> QED BY <1>5, <2>2, <2>3 DEF LoadMore
<1>6. CASE RenderPaging
    BY <1>6 DEF RenderPaging
<1>7. ASSUME NEW a \in asks, ListReads(a) PROVE PagingTypes'
    <2>1. a \in Ask
        OBVIOUS
    <2>2. List(a.from) \in Answer
        BY <2>1, ListType DEF Ask
    <2>3. [a EXCEPT !.answer = List(a.from)] \in Ask
        BY <2>1, <2>2 DEF Ask
    <2>4. \A b \in asks' : b \in Ask
        BY <1>7, <2>3 DEF ListReads
    <2> QED BY <1>7, <2>4 DEF ListReads, clicks
<1>8. ASSUME NEW a \in asks, Loaded(a) PROVE PagingTypes'
    <2>1. a \in Ask
        OBVIOUS
    <2>2. a.answer \in Answer /\ a.of \in 1 .. MaxDrops + 1
        BY <1>8, <2>1 DEF Loaded, Ask
    <2>3. paging' \in Paging /\ paging'.of # 0 /\ shown' \subseteq Rows
        BY <1>8, <2>2 DEF Loaded, Paging, Answer
    <2> QED BY <1>8, <2>3 DEF Loaded, clicks
<1>9. ASSUME NEW a \in asks, LoadFailed(a) PROVE PagingTypes'
    <2>1. /\ paging' \in Paging /\ paging'.of = paging.of
          /\ paging'.cursor = paging.cursor
        BY <1>9 DEF LoadFailed, Paging
    <2> QED BY <1>9, <2>1 DEF LoadFailed, clicks
<1>10. CASE UNCHANGED pagingVars
    BY <1>10 DEF pagingVars
<1> QED
    BY <1>1, <1>2, <1>3, <1>4, <1>5, <1>6, <1>7, <1>8, <1>9, <1>10 DEF PagingNext

\* The variables keep their types, and there is one reload per loss that was followed
\* by a reconnect, plus the first.
THEOREM PagingTypesHold == PagingSpec => []PagingTypeOK
<1>1. PagingTypes => PagingTypeOK
    BY DEF PagingTypes
<1> QED BY <1>1, TypesInit, TypesNext, PTL DEF PagingSpec


-----------------------------------------------------------------------------
(* Nothing is out of reach.                                                  *)

\* With this answer, "Load more" with its cursor comes to every unseen row it lacks.
Completes(answer) ==
    \A k \in Unseen \ answer.rows : answer.next # Null /\ k < answer.next

\* On a live page this holds of every cursor of the newest reload: the one of the
\* state, the one a click acts on, that of a request, and that of an answer.
InReach ==
    live =>
        /\ paging.of = reloads => Covers(paging.cursor)
        /\ seen.of = reloads => Covers(seen.cursor)
        /\ \A a \in asks : a.of = reloads =>
               IF a.answer = Null THEN a.from = Null \/ Covers(a.from)
                                  ELSE Completes(a.answer)

\* Nothing stems from a reload that is still to come.
NoneAhead ==
    paging.of <= reloads /\ seen.of <= reloads /\ \A a \in asks : a.of <= reloads

PagingInv == PagingTypes /\ NoneAhead /\ InReach

\* A page and its cursor leave out no unseen row that the cursor asked with came to.
LEMMA ListCompletes ==
    ASSUME NEW from \in Cursor, from = Null \/ Covers(from)
    PROVE  Completes(List(from))
<1> DEFINE found == {k \in Rows : rows[k] = "in" /\ (from = Null \/ Earlier(k, from))}
<1>1. SUFFICES ASSUME NEW k \in Unseen, k \notin Newest(Limit, found)
               PROVE  /\ Cardinality(found) > Limit
                      /\ Min(Newest(Limit, found)) \in found
                      /\ k < Min(Newest(Limit, found))
    <2>1. Null \notin found
        BY PagingBounds DEF Rows
    <2>2. List(from).rows = Newest(Limit, found)
        BY DEF List
    <2>3. Cardinality(found) > Limit => List(from).next = Min(Newest(Limit, found))
        BY DEF List
    <2> HIDE DEF found
    <2> QED BY <2>1, <2>2, <2>3 DEF Completes
<1>2. k \in Rows /\ rows[k] = "in"
    BY DEF Unseen
<1>3. from = Null \/ Earlier(k, from)
    BY <1>2, EarlierIsLess DEF Covers, Cursor
<1>4. k \in found /\ found \in SUBSET Rows
    BY <1>2, <1>3
<1> HIDE DEF found
<1> QED BY <1>1, <1>4, PageIsNewest

\* The fewer rows are unseen, the more a cursor or an answer covers.
LEMMA FewerUnseen ==
    ASSUME Unseen' \subseteq Unseen
    PROVE  /\ \A c \in Cursor : Covers(c) => Covers(c)'
           /\ \A answer \in Answer : Completes(answer) => Completes(answer)'
BY DEF Covers, Completes

LEMMA ReachInit == PagingInit => NoneAhead /\ InReach
BY DEF PagingInit, NoneAhead, InReach

LEMMA ReachNext ==
    PagingInv /\ [PagingNext]_pagingVars => NoneAhead' /\ InReach'
<1> SUFFICES ASSUME PagingInv, [PagingNext]_pagingVars PROVE NoneAhead' /\ InReach'
    OBVIOUS
<1> USE DEF PagingInv, PagingTypes, PagingTypeOK
<1>0. /\ drops \in Nat /\ reloads \in Nat /\ paging.of \in Nat /\ seen.of \in Nat
      /\ paging.cursor \in Cursor /\ seen.cursor \in Cursor
      /\ \A a \in asks : a.of \in Nat /\ a.from \in Cursor /\ a.answer \in Answer \cup {Null}
    BY PagingBounds DEF Paging, Ask
<1>1. ASSUME NEW k \in Rows, Enters(k) \/ Leaves(k) PROVE NoneAhead' /\ InReach'
    <2>1. UNCHANGED <<live, paging, seen, asks, reloads>>
        BY <1>1 DEF Enters, Leaves, clicks
    <2>2. live => Unseen' \subseteq Unseen
        BY <1>1 DEF Enters, Leaves, Unseen
    <2> QED BY <1>0, <2>1, <2>2, FewerUnseen DEF NoneAhead, InReach
<1>2. CASE Drops
    BY <1>2 DEF Drops, NoneAhead, InReach
<1>3. CASE Reconnect
    <2>1. /\ paging'.of = paging.of /\ seen' = seen /\ reloads' = reloads + 1
          /\ asks' = asks \cup
                 {[n |-> asked + 1, of |-> reloads', from |-> Null, answer |-> Null]}
        BY <1>3 DEF Reconnect, Fetch, Paging
    <2> QED BY <1>0, <2>1 DEF NoneAhead, InReach
<1>4. CASE LoadMore
    <2>1. /\ paging'.of = paging.of /\ paging'.cursor = paging.cursor /\ seen' = paging'
          /\ asks' = asks \cup
                 {[n |-> asked + 1, of |-> seen.of, from |-> seen.cursor, answer |-> Null]}
        BY <1>4 DEF LoadMore, Fetch, Paging
    <2>2. UNCHANGED <<rows, shown, live, reloads>>
        BY <1>4 DEF LoadMore
    <2>3. Unseen' = Unseen
        BY <2>2 DEF Unseen
    <2> QED BY <1>0, <2>1, <2>2, <2>3 DEF NoneAhead, InReach, Covers, Completes
<1>5. CASE RenderPaging
    <2>1. UNCHANGED <<rows, shown, live, paging, asks, reloads>> /\ seen' = paging
        BY <1>5 DEF RenderPaging
    <2> QED BY <2>1 DEF NoneAhead, InReach, Covers, Completes, Unseen
<1>6. ASSUME NEW a \in asks, ListReads(a) PROVE NoneAhead' /\ InReach'
    <2> DEFINE b == [a EXCEPT !.answer = List(a.from)]
    <2>1. UNCHANGED <<rows, shown, live, paging, seen, reloads>>
        BY <1>6 DEF ListReads, clicks
    <2>2. Unseen' = Unseen
        BY <2>1 DEF Unseen
    <2>3. asks' = (asks \ {a}) \cup {b} /\ a.answer = Null /\ a \in Ask
        BY <1>6 DEF ListReads
    <2>4. b.of = a.of /\ b.answer = List(a.from)
        BY <2>3 DEF Ask
    <2>5. b.answer # Null
        BY <1>0, <2>4, ListType, NoAnswer
    <2>6. live /\ a.of = reloads => Completes(b.answer)
        BY <1>0, <2>3, <2>4, ListCompletes DEF InReach
    <2> HIDE DEF b
    <2> QED BY <1>0, <2>1, <2>2, <2>3, <2>4, <2>5, <2>6
            DEF NoneAhead, InReach, Covers, Completes
<1>7. ASSUME NEW a \in asks, Loaded(a) PROVE NoneAhead' /\ InReach'
    <2>1. /\ asks' = asks \ {a} /\ a.answer \in Answer /\ a.answer # Null
          /\ shown' = shown \cup a.answer.rows
          /\ paging'.cursor = a.answer.next /\ paging'.of = a.of
          /\ UNCHANGED <<rows, live, seen, reloads>>
        BY <1>0, <1>7 DEF Loaded, clicks
    <2>2. Unseen' = Unseen \ a.answer.rows
        BY <2>1 DEF Unseen
    <2>3. ASSUME live, a.of = reloads PROVE Covers(a.answer.next)'
        BY <2>1, <2>2, <2>3 DEF InReach, Covers, Completes
    <2> QED BY <1>0, <2>1, <2>2, <2>3, FewerUnseen DEF NoneAhead, InReach, Covers
<1>8. ASSUME NEW a \in asks, LoadFailed(a) PROVE NoneAhead' /\ InReach'
    <2>1. /\ asks' = asks \ {a} /\ paging'.of = paging.of
          /\ paging'.cursor = paging.cursor
          /\ UNCHANGED <<rows, shown, live, seen, reloads>>
        BY <1>8 DEF LoadFailed, clicks, Paging
    <2>2. Unseen' = Unseen
        BY <2>1 DEF Unseen
    <2> QED BY <2>1, <2>2 DEF NoneAhead, InReach, Covers, Completes
<1>9. CASE UNCHANGED pagingVars
    BY <1>9 DEF pagingVars, NoneAhead, InReach, Covers, Completes, Unseen
<1> QED
    BY <1>1, <1>2, <1>3, <1>4, <1>5, <1>6, <1>7, <1>8, <1>9 DEF PagingNext

\* Whatever enters and leaves a section while the page loads it piece by piece, and
\* however its requests overlap: no row of the section is out of reach of "Load more".
THEOREM NothingIsLost == PagingSpec => []NothingUnreachable
<1>1. PagingInit => PagingInv
    BY TypesInit, ReachInit DEF PagingInv
<1>2. PagingInv /\ [PagingNext]_pagingVars => PagingInv'
    BY TypesNext, ReachNext DEF PagingInv
<1>3. PagingInv => NothingUnreachable
    BY DEF PagingInv, InReach, NothingUnreachable, Covers, Unseen
<1> QED BY <1>1, <1>2, <1>3, PTL DEF PagingSpec


-----------------------------------------------------------------------------
(* UploadQueue: the reducer.                                                 *)

\* Every upload is in the state once.
Unique(us) == \A j, k \in DOMAIN us : us[j].id = us[k].id => j = k

LEMMA UniqueCounts ==
    ASSUME NEW us \in Seq(Upload), Unique(us)
    PROVE  /\ IsFiniteSet(Ids(us)) /\ Cardinality(Ids(us)) = Len(us)
           /\ \A phases : In(us, phases) \subseteq Ids(us)
<1> DEFINE id == [k \in 1 .. Len(us) |-> us[k].id]
<1>1. Len(us) \in Nat /\ DOMAIN us = 1 .. Len(us)
    OBVIOUS
<1>2. id \in Bijection(1 .. Len(us), Ids(us))
    BY <1>1 DEF Unique, Ids, Bijection, Injection, Surjection, IsInjective
<1>3. IsFiniteSet(1 .. Len(us)) /\ Cardinality(1 .. Len(us)) = Len(us)
    BY <1>1, FS_Interval
<1>4. ExistsBijection(1 .. Len(us), Ids(us))
    BY <1>2 DEF ExistsBijection
<1>5. IsFiniteSet(Ids(us)) /\ Cardinality(Ids(us)) = Len(us)
    BY <1>3, <1>4, FS_Bijection
<1> QED BY <1>5 DEF In, Ids

\* updateUpload changes the phase of the uploads it is told to, and nothing else.
LEMMA PatchedIs ==
    ASSUME uploads \in Seq(Upload), Unique(uploads), NEW ids,
           NEW phase \in {"validating", "invalid", "queued", "uploading", "uploaded", "error"}
    PROVE  LET us == Patched(ids, phase)
           IN  /\ us \in Seq(Upload) /\ Unique(us) /\ Len(us) = Len(uploads)
               /\ Ids(us) = Ids(uploads)
               /\ \A phases : In(us, phases) = (In(uploads, phases) \ ids)
                                  \cup (IF phase \in phases THEN Ids(uploads) \cap ids ELSE {})
<1> DEFINE us == Patched(ids, phase)
<1>1. /\ Len(uploads) \in Nat /\ DOMAIN uploads = 1 .. Len(uploads)
      /\ \A k \in DOMAIN uploads : uploads[k] \in Upload
    OBVIOUS
<1>2. /\ DOMAIN us = 1 .. Len(uploads)
      /\ \A k \in DOMAIN uploads :
             us[k] = IF uploads[k].id \in ids THEN [uploads[k] EXCEPT !.phase = phase]
                                              ELSE uploads[k]
    BY <1>1 DEF Patched
<1>3. \A k \in DOMAIN uploads :
          /\ us[k] \in Upload /\ us[k].id = uploads[k].id
          /\ us[k].phase = IF uploads[k].id \in ids THEN phase ELSE uploads[k].phase
    BY <1>1, <1>2 DEF Upload
<1>4. us \in Seq(Upload) /\ Len(us) = Len(uploads)
    BY <1>1, <1>2, <1>3 DEF Patched
<1> HIDE DEF us
<1>5. Unique(us)
    BY <1>1, <1>2, <1>3 DEF Unique
<1>6. Ids(us) = Ids(uploads)
    BY <1>1, <1>2, <1>3 DEF Ids
<1>7. ASSUME NEW phases
      PROVE  In(us, phases) = (In(uploads, phases) \ ids)
                                  \cup (IF phase \in phases THEN Ids(uploads) \cap ids ELSE {})
    BY <1>1, <1>2, <1>3 DEF In, Ids
<1> QED BY <1>4, <1>5, <1>6, <1>7 DEF us

\* A dismissal takes one upload out.
LEMMA WithoutIs ==
    ASSUME uploads \in Seq(Upload), Unique(uploads), NEW f \in Ids(uploads)
    PROVE  LET us == Without(f)
           IN  /\ us \in Seq(Upload) /\ Unique(us)
               /\ Ids(us) = Ids(uploads) \ {f}
               /\ \A phases : In(us, phases) = In(uploads, phases) \ {f}
<1> DEFINE at == CHOOSE k \in DOMAIN uploads : uploads[k].id = f
           us == Without(f)
           From(k) == IF k < at THEN k ELSE k + 1
<1>1. Len(uploads) \in Nat /\ DOMAIN uploads = 1 .. Len(uploads)
    OBVIOUS
<1>2. at \in 1 .. Len(uploads) /\ uploads[at].id = f
    BY <1>1 DEF Ids
<1> HIDE DEF at
<1>3. us = SubSeq(uploads, 1, at - 1) \o SubSeq(uploads, at + 1, Len(uploads))
    BY DEF Without, RemoveAt, at
<1>4. /\ us \in Seq(Upload) /\ Len(us) = Len(uploads) - 1
      /\ \A k \in 1 .. Len(us) : us[k] = uploads[From(k)]
    <2>1. /\ SubSeq(uploads, 1, at - 1) \in Seq(Upload)
          /\ Len(SubSeq(uploads, 1, at - 1)) = at - 1
          /\ \A k \in 1 .. at - 1 : SubSeq(uploads, 1, at - 1)[k] = uploads[k]
        BY <1>1, <1>2
    <2>2. /\ SubSeq(uploads, at + 1, Len(uploads)) \in Seq(Upload)
          /\ Len(SubSeq(uploads, at + 1, Len(uploads))) = Len(uploads) - at
          /\ \A k \in 1 .. Len(uploads) - at :
                 SubSeq(uploads, at + 1, Len(uploads))[k] = uploads[at + k]
        <3> DEFINE m == at + 1
                   n == Len(uploads)
        <3>1. m \in Int /\ n \in Int /\ \A k \in m .. n : uploads[k] \in Upload
            BY <1>1, <1>2
        <3>2. /\ SubSeq(uploads, m, n) \in Seq(Upload)
              /\ Len(SubSeq(uploads, m, n)) = IF m <= n THEN n - m + 1 ELSE 0
              /\ \A k \in 1 .. n - m + 1 : SubSeq(uploads, m, n)[k] = uploads[m + k - 1]
            <4> HIDE DEF m, n
            <4> QED BY <3>1, SubSeqProperties
        <3>3. n - m + 1 = Len(uploads) - at /\ (m <= n \/ n - m + 1 = 0)
            <4>1. at \in Int /\ n \in Int /\ at <= n
                BY <1>1, <1>2
            <4>2. n - m + 1 = n - at /\ (m <= n \/ n - m + 1 = 0)
                <5> HIDE DEF n
                <5> QED BY <4>1
            <4> QED BY <4>2
        <3>4. \A k \in 1 .. Len(uploads) - at : m + k - 1 = at + k
            BY <1>1, <1>2
        <3>5. \A k \in 1 .. Len(uploads) - at : SubSeq(uploads, m, n)[k] = uploads[at + k]
            <4> HIDE DEF m, n
            <4> QED BY <3>2, <3>3, <3>4
        <3>6. Len(SubSeq(uploads, m, n)) = Len(uploads) - at
            <4> HIDE DEF m, n
            <4> QED BY <3>2, <3>3
        <3> QED BY <3>2, <3>5, <3>6
    <2> DEFINE s == SubSeq(uploads, 1, at - 1)
               t == SubSeq(uploads, at + 1, Len(uploads))
    <2>3. /\ s \in Seq(Upload) /\ Len(s) = at - 1 /\ t \in Seq(Upload)
          /\ Len(t) = Len(uploads) - at /\ us = s \o t
          /\ \A k \in 1 .. at - 1 : s[k] = uploads[k]
          /\ \A k \in 1 .. Len(uploads) - at : t[k] = uploads[at + k]
        BY <1>3, <2>1, <2>2
    <2> HIDE DEF s, t
    <2>4. /\ us \in Seq(Upload) /\ Len(us) = Len(s) + Len(t)
          /\ \A k \in 1 .. Len(s) + Len(t) : us[k] = IF k <= Len(s) THEN s[k] ELSE t[k - Len(s)]
        <3>1. s \in Seq(Upload) /\ t \in Seq(Upload)
            BY <2>3
        <3>2. /\ s \o t \in Seq(Upload) /\ Len(s \o t) = Len(s) + Len(t)
              /\ \A k \in 1 .. Len(s) + Len(t) :
                     (s \o t)[k] = IF k <= Len(s) THEN s[k] ELSE t[k - Len(s)]
            BY <3>1, ConcatProperties
        <3> HIDE DEF us
        <3> QED BY <2>3, <3>2
    <2> HIDE DEF us
    <2>5. ASSUME NEW k \in 1 .. Len(us) PROVE us[k] = uploads[From(k)]
        <3>1. CASE k <= at - 1
            BY <1>1, <1>2, <2>3, <2>4, <3>1
        <3>2. CASE k > at - 1
            <4>1. k - (at - 1) \in 1 .. Len(uploads) - at
                BY <1>1, <1>2, <2>3, <2>4, <3>2
            <4>2. us[k] = t[k - (at - 1)] /\ at + (k - (at - 1)) = k + 1
                BY <1>1, <1>2, <2>3, <2>4, <3>2
            <4> QED BY <1>1, <1>2, <2>3, <3>2, <4>1, <4>2
        <3> QED BY <1>2, <2>3, <3>1, <3>2
    <2> QED BY <1>1, <1>2, <2>3, <2>4, <2>5
<1> HIDE DEF us
<1>5. DOMAIN us = 1 .. Len(uploads) - 1
    BY <1>4
<1>6. /\ \A k \in DOMAIN us : From(k) \in DOMAIN uploads /\ From(k) # at
      /\ \A j \in DOMAIN uploads \ {at} : \E k \in DOMAIN us : From(k) = j
      /\ \A j, k \in DOMAIN us : From(j) = From(k) => j = k
    <2>1. \A j \in DOMAIN uploads \ {at} : \E k \in DOMAIN us : From(k) = j
        <3>1. TAKE j \in DOMAIN uploads \ {at}
        <3>2. CASE j < at
            BY <1>1, <1>2, <1>5, <3>2
        <3>3. CASE j > at
            <4>1. j - 1 \in DOMAIN us /\ From(j - 1) = j
                BY <1>1, <1>2, <1>5, <3>3
            <4> QED BY <4>1
        <3> QED BY <1>1, <1>2, <3>2, <3>3
    <2> QED BY <1>1, <1>2, <1>5, <2>1
<1>7. \A k \in DOMAIN uploads : uploads[k].id = f => k = at
    BY <1>1, <1>2 DEF Unique
<1> HIDE DEF From
<1>8. Unique(us)
    BY <1>4, <1>5, <1>6 DEF Unique
<1>9. /\ \A k \in DOMAIN us : \E j \in DOMAIN uploads : us[k] = uploads[j] /\ uploads[j].id # f
      /\ \A j \in DOMAIN uploads : uploads[j].id # f => \E k \in DOMAIN us : us[k] = uploads[j]
    BY <1>2, <1>4, <1>5, <1>6, <1>7
<1>10. Ids(us) = Ids(uploads) \ {f}
    BY <1>9 DEF Ids
<1>11. ASSUME NEW phases PROVE In(us, phases) = In(uploads, phases) \ {f}
    BY <1>9 DEF In
<1> QED BY <1>4, <1>8, <1>10, <1>11 DEF us


-----------------------------------------------------------------------------
(* UploadQueue: the types, and the requests against the state.               *)

\* The page renders nothing but what was dispatched, and every upload once.
UploadTypes ==
    /\ uploads \in Seq(Upload) /\ rendered \in Seq(Upload)
    /\ Unique(uploads) /\ Unique(rendered)
    /\ Ids(uploads) \subseteq 1 .. chosen /\ started \subseteq 1 .. chosen
    /\ Ids(rendered) \subseteq 1 .. chosen
    /\ dirty \in BOOLEAN /\ due \in BOOLEAN
    /\ chosen \in 0 .. MaxFiles /\ faults \in 0 .. MaxFaults

\* Between a render and its effect nothing is started: the effect counts every open
\* request, although the state has moved on.
CountsTheOpen == due => started \cap Ids(uploads) \subseteq In(rendered, {"uploading"})

\* Without a dispatch since the render, the effect has seen the state there is.
RenderedIsCurrent == ~dirty => rendered = uploads

\* No slot is idle while a file waits: once the page has rendered and its effect has
\* run, the slots are taken or the queue is empty.
SlotsAreUsed ==
    ~dirty /\ ~due /\ In(uploads, {"queued"}) # {} =>
        Cardinality(In(uploads, {"uploading"})) >= MaxParallel

UploadInv ==
    /\ UploadTypes /\ UploadingIsOpen /\ WithinParallel
    /\ CountsTheOpen /\ RenderedIsCurrent /\ SlotsAreUsed

LEMMA UploadInitial == UploadInit => UploadInv
<1> SUFFICES ASSUME UploadInit PROVE UploadInv
    OBVIOUS
<1>1. /\ uploads = <<>> /\ rendered = <<>> /\ started = {} /\ dirty = FALSE /\ due = FALSE
      /\ chosen = 0 /\ faults = 0
    BY DEF UploadInit
<1>2. /\ DOMAIN uploads = {} /\ DOMAIN rendered = {}
    BY <1>1
<1>3. Ids(uploads) = {} /\ Ids(rendered) = {} /\ \A phases : In(uploads, phases) = {}
    BY <1>2 DEF Ids, In
<1>4. UploadTypes
    <2>1. <<>> \in Seq(Upload)
        OBVIOUS
    <2>2. Unique(uploads) /\ Unique(rendered)
        BY <1>2 DEF Unique
    <2>3. chosen \in 0 .. MaxFiles /\ faults \in 0 .. MaxFaults
        BY <1>1, UploadBounds
    <2> QED BY <1>1, <1>3, <2>1, <2>2, <2>3 DEF UploadTypes
<1> QED BY <1>1, <1>3, <1>4, FS_EmptySet, UploadBounds
        DEF UploadInv, UploadingIsOpen, WithinParallel, CountsTheOpen, RenderedIsCurrent,
            SlotsAreUsed

\* A dispatch that opens no request keeps the invariant if the requests and the uploads
\* shown as uploading stay the same set.
LEMMA DispatchKeeps ==
    ASSUME UploadInv, dirty' = TRUE, rendered' = rendered, due' = due, UploadTypes',
           started' \cap Ids(uploads') \subseteq started \cap Ids(uploads),
           UploadingIsOpen'
    PROVE  UploadInv'
<1>1. IsFiniteSet(Ids(uploads))
    BY UniqueCounts DEF UploadInv, UploadTypes
<1>2. IsFiniteSet(started \cap Ids(uploads))
    BY <1>1, FS_Subset
<1>3. /\ IsFiniteSet(started' \cap Ids(uploads'))
      /\ Cardinality(started' \cap Ids(uploads')) <= Cardinality(started \cap Ids(uploads))
    BY <1>2, FS_Subset
<1>4. WithinParallel'
    <2>1. /\ Cardinality(started' \cap Ids(uploads')) \in Nat
          /\ Cardinality(started \cap Ids(uploads)) \in Nat
        BY <1>2, <1>3, FS_CardinalityType
    <2> QED BY <1>3, <2>1, UploadBounds DEF UploadInv, WithinParallel, Ids
<1>5. CountsTheOpen'
    BY DEF UploadInv, CountsTheOpen, In, Ids
<1>6. RenderedIsCurrent' /\ SlotsAreUsed'
    BY DEF RenderedIsCurrent, SlotsAreUsed
<1> QED BY <1>4, <1>5, <1>6 DEF UploadInv


\* No upload is in two phases.
LEMMA OnePhase ==
    ASSUME NEW us \in Seq(Upload), Unique(us), NEW p, NEW q, p # q
    PROVE  In(us, {p}) \cap In(us, {q}) = {}
BY DEF In, Unique

LEMMA AddFilesKeeps ==
    ASSUME UploadInv, NEW n \in Files, AddFiles(n) PROVE UploadInv'
<1> DEFINE new == [k \in 1 .. n |-> [id |-> chosen + k, phase |-> "validating"]]
<1>1. /\ n \in Nat /\ n > 0 /\ chosen \in Nat /\ chosen + n <= MaxFiles /\ MaxFiles \in Nat
      /\ uploads \in Seq(Upload) /\ Len(uploads) \in Nat /\ DOMAIN uploads = 1 .. Len(uploads)
    BY UploadBounds DEF AddFiles, Files, UploadInv, UploadTypes
<1>2. /\ uploads' = new \o uploads /\ dirty' = TRUE /\ chosen' = chosen + n
      /\ rendered' = rendered /\ due' = due /\ started' = started /\ faults' = faults
    BY DEF AddFiles, Dispatch, react
<1>3. /\ new \in Seq(Upload) /\ Len(new) = n
      /\ \A k \in 1 .. n : new[k].id = chosen + k /\ new[k].phase = "validating"
    <2>1. \A k \in 1 .. n : [id |-> chosen + k, phase |-> "validating"] \in Upload
        BY <1>1 DEF Upload, Files
    <2>2. new \in [1 .. n -> Upload]
        BY <2>1
    <2>3. new \in Seq(Upload) /\ DOMAIN new = 1 .. n
        BY <1>1, <2>2, SeqDef
    <2>4. Len(new) = n
        BY <1>1, <2>3, LenProperties
    <2>5. \A k \in 1 .. n : new[k].id = chosen + k /\ new[k].phase = "validating"
        OBVIOUS
    <2> QED BY <2>3, <2>4, <2>5
<1> HIDE DEF new
<1>4. /\ uploads' \in Seq(Upload) /\ Len(uploads') = n + Len(uploads)
      /\ \A k \in 1 .. n + Len(uploads) :
             uploads'[k] = IF k <= n THEN new[k] ELSE uploads[k - n]
    BY <1>1, <1>2, <1>3, ConcatProperties
<1>5. DOMAIN uploads' = 1 .. n + Len(uploads)
    BY <1>1, <1>4
<1>6. /\ \A k \in DOMAIN uploads' :
             \/ k <= n /\ uploads'[k].id = chosen + k /\ uploads'[k].phase = "validating"
             \/ k > n /\ k - n \in DOMAIN uploads /\ uploads'[k] = uploads[k - n]
      /\ \A k \in DOMAIN uploads :
             k + n \in DOMAIN uploads' /\ uploads'[k + n] = uploads[k]
    <2>1. ASSUME NEW k \in DOMAIN uploads'
          PROVE \/ k <= n /\ uploads'[k].id = chosen + k /\ uploads'[k].phase = "validating"
                \/ k > n /\ k - n \in DOMAIN uploads /\ uploads'[k] = uploads[k - n]
        BY <1>1, <1>3, <1>4, <1>5
    <2>2. ASSUME NEW k \in DOMAIN uploads
          PROVE  k + n \in DOMAIN uploads' /\ uploads'[k + n] = uploads[k]
        <3>1. k + n \in 1 .. n + Len(uploads) /\ ~ (k + n <= n) /\ (k + n) - n = k
            BY <1>1
        <3> QED BY <1>4, <1>5, <3>1
    <2> QED BY <2>1, <2>2
<1>7. \A k \in DOMAIN uploads : uploads[k].id \in 1 .. chosen
    BY DEF UploadInv, UploadTypes, Ids
<1>8. Unique(uploads')
    <2>1. SUFFICES ASSUME NEW j \in DOMAIN uploads', NEW k \in DOMAIN uploads',
                          uploads'[j].id = uploads'[k].id
                   PROVE  j = k
        BY DEF Unique
    <2>2. j \in Int /\ k \in Int
        BY <1>1, <1>5
    <2>3. CASE j <= n /\ k <= n
        BY <1>1, <1>6, <2>1, <2>2, <2>3
    <2>4. CASE j > n /\ k > n
        <3>1. /\ j - n \in DOMAIN uploads /\ k - n \in DOMAIN uploads
              /\ uploads[j - n].id = uploads[k - n].id
            BY <1>1, <1>6, <2>1, <2>2, <2>4
        <3>2. j - n = k - n
            BY <3>1 DEF UploadInv, UploadTypes, Unique
        <3> QED BY <1>1, <2>2, <3>2
    <2>5. CASE j <= n /\ k > n
        <3>1. uploads'[j].id = chosen + j /\ uploads'[k].id \in 1 .. chosen /\ j >= 1
            BY <1>1, <1>5, <1>6, <1>7, <2>2, <2>5
        <3> QED BY <1>1, <2>1, <2>2, <3>1
    <2>6. CASE j > n /\ k <= n
        <3>1. uploads'[k].id = chosen + k /\ uploads'[j].id \in 1 .. chosen /\ k >= 1
            BY <1>1, <1>5, <1>6, <1>7, <2>2, <2>6
        <3> QED BY <1>1, <2>1, <2>2, <3>1
    <2> QED BY <1>1, <2>2, <2>3, <2>4, <2>5, <2>6
<1>9. /\ \A x \in Ids(uploads') : x \in Ids(uploads) \/ x \in chosen + 1 .. chosen + n
      /\ Ids(uploads) \subseteq Ids(uploads')
    <2>1. \A k \in DOMAIN uploads' :
              uploads'[k].id \in Ids(uploads) \/ uploads'[k].id \in chosen + 1 .. chosen + n
        BY <1>1, <1>5, <1>6 DEF Ids
    <2> QED BY <1>6, <2>1 DEF Ids
<1>10. In(uploads', {"uploading"}) = In(uploads, {"uploading"})
    <2>1. \A k \in DOMAIN uploads' : uploads'[k].phase = "uploading" =>
              \E j \in DOMAIN uploads : uploads'[k] = uploads[j]
        BY <1>6
    <2> QED BY <1>6, <2>1 DEF In
<1>11. UploadTypes'
    <2>1. Ids(uploads') \subseteq 1 .. chosen'
        BY <1>1, <1>2, <1>9 DEF UploadInv, UploadTypes
    <2>2. started' \subseteq 1 .. chosen' /\ Ids(rendered') \subseteq 1 .. chosen'
        BY <1>1, <1>2 DEF UploadInv, UploadTypes, Ids
    <2>3. chosen' \in 0 .. MaxFiles
        BY <1>1, <1>2
    <2> QED BY <1>2, <1>4, <1>8, <2>1, <2>2, <2>3 DEF UploadInv, UploadTypes, Unique
<1>12. started' \cap Ids(uploads') = started \cap Ids(uploads)
    BY <1>1, <1>2, <1>9 DEF UploadInv, UploadTypes
<1>13. UploadingIsOpen'
    BY <1>10, <1>12 DEF UploadInv, UploadingIsOpen, In, Ids
<1> QED BY <1>2, <1>11, <1>12, <1>13, DispatchKeeps


\* The actions that dispatch a patch of one upload, or take it out.
LEMMA PatchKeeps ==
    ASSUME UploadInv, NEW f \in Files,
           NEW phase \in {"validating", "invalid", "queued", "uploaded", "error"},
           Dispatch(Patched({f}, phase)), rendered' = rendered, due' = due, chosen' = chosen,
           faults' \in 0 .. MaxFaults, started' = started \ {f}
    PROVE  UploadInv'
<1> DEFINE us == Patched({f}, phase)
<1>1. /\ us \in Seq(Upload) /\ Unique(us) /\ Ids(us) = Ids(uploads)
      /\ In(us, {"uploading"}) = In(uploads, {"uploading"}) \ {f}
    <2>1. uploads \in Seq(Upload) /\ Unique(uploads)
        BY DEF UploadInv, UploadTypes
    <2> QED BY <2>1, PatchedIs
<1>2. uploads' = us /\ dirty' = TRUE
    BY DEF Dispatch
<1> HIDE DEF us
<1>3. Ids(uploads') = Ids(uploads)
      /\ In(uploads', {"uploading"}) = In(uploads, {"uploading"}) \ {f}
    BY <1>1, <1>2
<1>4. UploadTypes'
    <2>1. uploads' \in Seq(Upload) /\ Unique(uploads')
        BY <1>1, <1>2
    <2>2. Unique(rendered') /\ Ids(rendered') = Ids(rendered)
        BY DEF UploadInv, UploadTypes, Unique, Ids
    <2> QED BY <1>2, <1>3, <2>1, <2>2 DEF UploadInv, UploadTypes, Unique
<1>5. UploadingIsOpen'
    BY <1>3 DEF UploadInv, UploadingIsOpen
<1> QED BY <1>2, <1>3, <1>4, <1>5, DispatchKeeps

LEMMA RemovalKeeps ==
    ASSUME UploadInv, NEW f \in Ids(uploads),
           Dispatch(Without(f)), rendered' = rendered, due' = due, chosen' = chosen,
           faults' = faults, started' = started \ {f}
    PROVE  UploadInv'
<1> DEFINE us == Without(f)
<1>1. /\ us \in Seq(Upload) /\ Unique(us) /\ Ids(us) = Ids(uploads) \ {f}
      /\ In(us, {"uploading"}) = In(uploads, {"uploading"}) \ {f}
    <2>1. uploads \in Seq(Upload) /\ Unique(uploads)
        BY DEF UploadInv, UploadTypes
    <2> QED BY <2>1, WithoutIs
<1>2. uploads' = us /\ dirty' = TRUE
    BY DEF Dispatch
<1> HIDE DEF us
<1>3. Ids(uploads') = Ids(uploads) \ {f}
      /\ In(uploads', {"uploading"}) = In(uploads, {"uploading"}) \ {f}
    BY <1>1, <1>2
<1>4. UploadTypes'
    <2>1. uploads' \in Seq(Upload) /\ Unique(uploads')
        BY <1>1, <1>2
    <2>2. Unique(rendered') /\ Ids(rendered') = Ids(rendered)
        BY DEF UploadInv, UploadTypes, Unique, Ids
    <2> QED BY <1>2, <1>3, <2>1, <2>2 DEF UploadInv, UploadTypes, Unique
<1>5. UploadingIsOpen'
    BY <1>3 DEF UploadInv, UploadingIsOpen
<1> QED BY <1>2, <1>3, <1>4, <1>5, DispatchKeeps

\* An upload in another phase has no open request: there is none to close.
LEMMA NotOpen ==
    ASSUME UploadInv, NEW phase, phase # "uploading", NEW f \in In(uploads, {phase})
    PROVE  started \ {f} = started /\ f \in Ids(uploads)
<1>1. f \notin In(uploads, {"uploading"})
    BY OnePhase DEF UploadInv, UploadTypes
<1>2. f \in Ids(uploads)
    BY DEF In, Ids
<1> QED BY <1>1, <1>2 DEF UploadInv, UploadingIsOpen

LEMMA RenderKeeps == UploadInv /\ Render => UploadInv'
<1> SUFFICES ASSUME UploadInv, Render PROVE UploadInv'
    OBVIOUS
<1>1. /\ rendered' = uploads /\ dirty' = FALSE /\ due' = TRUE
      /\ UNCHANGED <<chosen, uploads, started, faults>>
    BY DEF Render
<1>2. UploadTypes' /\ UploadingIsOpen' /\ WithinParallel'
    <2>1. /\ Ids(uploads') = Ids(uploads) /\ Ids(rendered') = Ids(uploads)
          /\ Unique(uploads') /\ Unique(rendered')
          /\ In(uploads', {"uploading"}) = In(uploads, {"uploading"})
        BY <1>1 DEF UploadInv, UploadTypes, Unique
    <2>2. UploadTypes'
        BY <1>1, <2>1 DEF UploadInv, UploadTypes, Unique
    <2> QED BY <1>1, <2>1, <2>2 DEF UploadInv, UploadingIsOpen, WithinParallel
<1>3. CountsTheOpen'
    BY <1>1 DEF UploadInv, UploadingIsOpen, CountsTheOpen, Ids, In
<1> QED BY <1>1, <1>2, <1>3 DEF UploadInv, RenderedIsCurrent, SlotsAreUsed

LEMMA FillSlotsKeeps == UploadInv /\ FillSlots => UploadInv'
<1> SUFFICES ASSUME UploadInv, FillSlots PROVE UploadInv'
    OBVIOUS
<1> DEFINE next == {rendered[k].id : k \in Picked}
           open == started \cap Ids(uploads)
<1>0. uploads \in Seq(Upload) /\ Unique(uploads) /\ rendered \in Seq(Upload) /\ Unique(rendered)
    BY DEF UploadInv, UploadTypes
<1>1. /\ due /\ due' = FALSE /\ started' = started \cup next
      /\ uploads' = Patched(next, "uploading") /\ dirty' = (dirty \/ next # {})
      /\ UNCHANGED <<chosen, rendered, faults>>
    BY DEF FillSlots
<1>2. /\ uploads' \in Seq(Upload) /\ Unique(uploads') /\ Ids(uploads') = Ids(uploads)
      /\ In(uploads', {"uploading"}) =
             (In(uploads, {"uploading"}) \ next) \cup (Ids(uploads) \cap next)
    BY <1>0, <1>1, PatchedIs
<1>3. next \subseteq Ids(rendered)
    BY DEF Picked, Queue, Ids
<1>4. UploadTypes'
    BY <1>1, <1>2, <1>3 DEF UploadInv, UploadTypes, Unique, Ids
<1>5. UploadingIsOpen'
    BY <1>1, <1>2, <1>3 DEF UploadInv, UploadingIsOpen
<1>6. /\ Active \in Nat /\ IsFiniteSet(In(rendered, {"uploading"}))
      /\ Active = Cardinality(In(rendered, {"uploading"}))
    <2>1. IsFiniteSet(Ids(rendered)) /\ In(rendered, {"uploading"}) \subseteq Ids(rendered)
        BY <1>0, UniqueCounts
    <2> QED BY <2>1, FS_Subset, FS_CardinalityType DEF Active
<1>7. /\ IsFiniteSet(Picked)
      /\ Picked # {} => Cardinality(Picked) <= Slots
      /\ Picked = {} => Queue = {} \/ Slots <= 0
    <2>1. Len(rendered) \in Nat /\ Queue \in SUBSET (1 .. Len(rendered))
        BY <1>0 DEF Queue
    <2>2. Slots \in Int
        BY <1>6, UploadBounds DEF Slots
    <2> HIDE DEF next
    <2>3. LET P == {k \in Queue : Cardinality({j \in Queue : j > k}) < Slots}
          IN  /\ IsFiniteSet(P)
              /\ P # {} => Cardinality(P) <= Slots
              /\ P = {} => Queue = {} \/ Slots <= 0
        BY <2>1, <2>2, TheLast
    <2> QED BY <2>3 DEF Picked
<1>8. IsFiniteSet(next) /\ Cardinality(next) <= Cardinality(Picked)
    <2> DEFINE id == [k \in Picked |-> rendered[k].id]
    <2>1. id \in Surjection(Picked, next)
        BY DEF Surjection
    <2> HIDE DEF id, next
    <2> QED BY <1>7, <2>1, FS_Surjection
<1>9. WithinParallel'
    <2>1. started' \cap Ids(uploads') = open \cup (next \cap Ids(uploads))
        BY <1>1, <1>2
    <2>2. CASE Picked = {}
        <3>1. started' \cap Ids(uploads') = open
            BY <2>1, <2>2
        <3> QED BY <3>1 DEF UploadInv, WithinParallel
    <2>3. CASE Picked # {}
        <3>1. IsFiniteSet(open) /\ Cardinality(open) <= Active
            BY <1>1, <1>6, FS_Subset DEF UploadInv, CountsTheOpen
        <3>2. /\ IsFiniteSet(next \cap Ids(uploads))
              /\ Cardinality(next \cap Ids(uploads)) <= Cardinality(next)
            BY <1>8, FS_Subset
        <3> DEFINE both == open \cap (next \cap Ids(uploads))
        <3>3. Cardinality(open \cup (next \cap Ids(uploads))) =
                  Cardinality(open) + Cardinality(next \cap Ids(uploads)) - Cardinality(both)
            BY <3>1, <3>2, FS_Union
        <3>4. /\ Cardinality(both) \in Nat /\ Cardinality(open) \in Nat
              /\ Cardinality(next \cap Ids(uploads)) \in Nat
              /\ Cardinality(next) \in Nat /\ Cardinality(Picked) \in Nat
            <4>1. IsFiniteSet(both)
                BY <3>1, FS_Subset
            <4> QED BY <1>7, <1>8, <3>1, <3>2, <4>1, FS_CardinalityType
        <3>5. Cardinality(Picked) <= MaxParallel - Active
            BY <1>7, <2>3 DEF Slots
        <3> HIDE DEF both, open, next
        <3>6. Cardinality(open \cup (next \cap Ids(uploads))) <= MaxParallel
            BY <1>6, <1>8, <3>1, <3>2, <3>3, <3>4, <3>5, UploadBounds
        <3> QED BY <2>1, <3>6 DEF WithinParallel
    <2> QED BY <2>2, <2>3
<1>10. CountsTheOpen'
    BY <1>1 DEF CountsTheOpen
<1>11. ~dirty' => ~dirty /\ rendered = uploads /\ next = {} /\ uploads' = uploads
    <2>1. SUFFICES ASSUME ~dirty, next = {} PROVE uploads' = uploads
        BY <1>1 DEF UploadInv, UploadTypes, RenderedIsCurrent
    <2>2. uploads' = [k \in DOMAIN uploads |-> uploads[k]]
        BY <1>1, <2>1 DEF Patched
    <2>3. uploads = [k \in DOMAIN uploads |-> uploads[k]]
        BY <1>0, LenProperties
    <2> QED BY <2>2, <2>3
<1>12. RenderedIsCurrent'
    BY <1>1, <1>11 DEF RenderedIsCurrent
<1>13. SlotsAreUsed'
    <2>1. SUFFICES ASSUME ~dirty', In(uploads', {"queued"}) # {}
                   PROVE  Cardinality(In(uploads', {"uploading"})) >= MaxParallel
        BY DEF SlotsAreUsed
    <2>2. rendered = uploads /\ uploads' = uploads /\ Picked = {}
        BY <1>11, <2>1
    <2>3. PICK k \in DOMAIN uploads : uploads[k].phase = "queued"
        BY <2>1, <2>2 DEF In
    <2>4. uploads[k].id \in In(uploads, {"queued"}) /\ uploads[k].id \in Ids(uploads)
        BY <2>3 DEF In, Ids
    <2>5. uploads[k].id \notin In(uploads, {"uploading"})
        BY <1>0, <2>4, OnePhase
    <2>6. k \in Queue
        BY <2>2, <2>3, <2>4, <2>5 DEF UploadInv, UploadingIsOpen, Queue
    <2>7. MaxParallel - Active <= 0
        BY <1>7, <2>2, <2>6 DEF Slots
    <2>8. Active >= MaxParallel
        BY <1>6, <2>7, UploadBounds
    <2> QED BY <1>6, <2>2, <2>8
<1> QED BY <1>4, <1>5, <1>9, <1>10, <1>12, <1>13 DEF UploadInv

LEMMA UploadStep == UploadInv /\ [UploadNext]_uploadVars => UploadInv'
<1> SUFFICES ASSUME UploadInv, [UploadNext]_uploadVars PROVE UploadInv'
    OBVIOUS
<1>1. ASSUME NEW n \in Files, AddFiles(n) PROVE UploadInv'
    BY <1>1, AddFilesKeeps
<1>2. ASSUME NEW f \in Files, Dismiss(f) PROVE UploadInv'
    BY <1>2, RemovalKeeps DEF Dismiss, react
<1>3. ASSUME NEW f \in Files, Retry(f) PROVE UploadInv'
    <2>1. f \in In(uploads, {"error"}) /\ faults' \in 0 .. MaxFaults
        BY <1>3 DEF Retry, UploadInv, UploadTypes
    <2>2. started \ {f} = started
        BY <2>1, NotOpen
    <2> QED BY <1>3, <2>1, <2>2, PatchKeeps DEF Retry, react
<1>4. ASSUME NEW f \in Files, Validated(f) PROVE UploadInv'
    <2>1. f \in In(uploads, {"validating"}) /\ faults' \in 0 .. MaxFaults
        BY <1>4 DEF Validated, UploadInv, UploadTypes
    <2>2. started \ {f} = started
        BY <2>1, NotOpen
    <2> QED BY <1>4, <2>1, <2>2, PatchKeeps DEF Validated, react
<1>5. ASSUME NEW f \in Files, Progress(f) PROVE UploadInv'
    <2>1. /\ dirty' = TRUE
          /\ UNCHANGED <<chosen, uploads, rendered, due, started, faults>>
        BY <1>5 DEF Progress, react
    <2>2. UploadTypes' /\ UploadingIsOpen'
        BY <2>1 DEF UploadInv, UploadTypes, UploadingIsOpen, Unique, Ids, In
    <2> QED BY <2>1, <2>2, DispatchKeeps
<1>6. ASSUME NEW f \in Files, Succeeded(f) PROVE UploadInv'
    <2>1. faults' \in 0 .. MaxFaults
        BY <1>6 DEF Succeeded, UploadInv, UploadTypes
    <2> QED BY <1>6, <2>1, PatchKeeps DEF Succeeded, react
<1>7. ASSUME NEW f \in Files, Failed(f) PROVE UploadInv'
    <2>1. faults' \in 0 .. MaxFaults
        BY <1>7, UploadBounds DEF Failed, UploadInv, UploadTypes
    <2> QED BY <1>7, <2>1, PatchKeeps DEF Failed, react
<1>8. ASSUME NEW f \in Files, ImageRemoved(f) PROVE UploadInv'
    <2>1. f \in In(uploads, {"uploaded"})
        BY <1>8 DEF ImageRemoved
    <2>2. started \ {f} = started /\ f \in Ids(uploads)
        BY <2>1, NotOpen
    <2> QED BY <1>8, <2>2, RemovalKeeps DEF ImageRemoved, react
<1>9. CASE Render
    BY <1>9, RenderKeeps
<1>10. CASE FillSlots
    BY <1>10, FillSlotsKeeps
<1>11. CASE UNCHANGED uploadVars
    BY <1>11 DEF uploadVars, react, UploadInv, UploadTypes, UploadingIsOpen, WithinParallel,
                 CountsTheOpen, RenderedIsCurrent, SlotsAreUsed, Unique
<1> QED
    BY <1>1, <1>2, <1>3, <1>4, <1>5, <1>6, <1>7, <1>8, <1>9, <1>10, <1>11 DEF UploadNext

\* The upload queue keeps its types, and every upload is in the state once.
THEOREM UploadTypesHold == UploadSpec => []UploadTypeOK
<1>1. UploadInv => UploadTypeOK
    BY UniqueCounts DEF UploadInv, UploadTypes, UploadTypeOK
<1> QED BY <1>1, UploadInitial, UploadStep, PTL DEF UploadSpec

\* Never more requests than MAX_PARALLEL_UPLOADS, although the effect counts them in the
\* state of a render that dismissals, answers and retries have overtaken.
THEOREM ParallelBound == UploadSpec => []WithinParallel
<1>1. UploadInv => WithinParallel
    BY DEF UploadInv
<1> QED BY <1>1, UploadInitial, UploadStep, PTL DEF UploadSpec

\* The refs of the hook and the state of the reducer agree in every interleaving.
THEOREM RefsAgree == UploadSpec => []UploadingIsOpen
<1>1. UploadInv => UploadingIsOpen
    BY DEF UploadInv
<1> QED BY <1>1, UploadInitial, UploadStep, PTL DEF UploadSpec

\* When React has nothing left to do, a file waits only because all slots are taken.
THEOREM NoIdleSlot == UploadSpec => []SlotsAreUsed
<1>1. UploadInv => SlotsAreUsed
    BY DEF UploadInv
<1> QED BY <1>1, UploadInitial, UploadStep, PTL DEF UploadSpec

===============================================================================
