---------------------------- MODULE PagingProofs ----------------------------
(***************************************************************************)
(* Proofs about the paged lists, for any rows, sizes of pages and integers *)
(* wide enough for them, and whoever inserts or deletes between the pages. *)
(***************************************************************************)
EXTENDS Paging, SequenceTheorems, FiniteSetTheorems, TLAPS

-----------------------------------------------------------------------------
(* Numbers *)

\* Said apart, for the arithmetic is not linear.
LEMMA ProductIsNat ==
    ASSUME NEW a \in Nat, NEW b \in Nat
    PROVE  a * b \in Nat
OBVIOUS

\* A number below the modulus is its own remainder.
LEMMA ModSmall ==
    ASSUME NEW a \in Nat, NEW m \in Nat, a < m
    PROVE  a % m = a
OBVIOUS

\* A page begins where the one before it ends.
LEMMA NextStart ==
    ASSUME NEW p \in Int, NEW s \in Int
    PROVE  ((p + 1) - 1) * s = (p - 1) * s + s
OBVIOUS

\* As many pages as newPagedResponse says cover the rows, and fewer do not.
LEMMA PagesCover ==
    ASSUME NEW n \in Nat, NEW s \in Nat \ {0}, NEW p \in Nat
    PROVE  /\ p >= TotalPages(n, s) => p * s >= n
           /\ p < TotalPages(n, s) => p * s < n
<1>1. PICK q \in Nat, r \in Nat : q = TotalPages(n, s) /\ n + s - 1 = q * s + r /\ r < s
    BY DEF TotalPages
<1>2. p >= q => p * s >= q * s
    BY SMT
<1>3. p < q => p * s + s <= q * s
    BY SMT
<1>4. QED  BY <1>1, <1>2, <1>3

\* A number of rows that is an int does not overflow.
LEMMA WrapIsIdentity ==
    ASSUME NEW n \in Nat, n < Half
    PROVE  Wrap(n) = n
<1>1. Half \in Nat /\ n + Half \in Nat /\ 2 * Half \in Nat /\ n + Half < 2 * Half
    BY PagingAssumption
<1>2. (n + Half) % (2 * Half) = n + Half
    BY <1>1, ModSmall
<1>3. QED  BY <1>1, <1>2 DEF Wrap

-----------------------------------------------------------------------------
(* The order of the rows *)

\* The rows up to r, in the order of the list.
UpTo(r) == {q \in rows : IF list = "audit" THEN q >= r ELSE q <= r}

\* Ids are numbers, and there are finitely many, fewer than integers.
RowsOK == rows \subseteq Nat /\ IsFiniteSet(rows) /\ Cardinality(rows) <= MaxRows

\* The rows and a page after them can be counted.
LEMMA RowsAreFew ==
    ASSUME RowsOK
    PROVE  Cardinality(rows) \in Nat /\ Cardinality(rows) + MaxSize < Half
BY PagingAssumption, FS_CardinalityType DEF RowsOK

\* A row has a rank from the first to the last.
LEMMA RankInRange ==
    ASSUME RowsOK, NEW r \in rows
    PROVE  Rank(r) \in 1 .. Cardinality(rows)
<1>1. IsFiniteSet(UpTo(r)) /\ Cardinality(UpTo(r)) <= Cardinality(rows) /\ Cardinality(UpTo(r)) \in Nat
    BY FS_Subset, FS_CardinalityType DEF RowsOK, UpTo
<1>2. r \in UpTo(r)
    BY DEF RowsOK, UpTo
<1>3. Cardinality(UpTo(r)) # 0
    BY <1>1, <1>2, FS_EmptySet
<1>4. QED  BY <1>1, <1>3, RowsAreFew DEF Rank, UpTo

\* A row before another has the smaller rank.
LEMMA RankGrows ==
    ASSUME RowsOK, NEW q \in rows, NEW r \in rows, q # r, q \in UpTo(r)
    PROVE  Rank(q) < Rank(r)
<1>0. \A x \in rows : x \in Nat
    BY DEF RowsOK
<1>1. UpTo(q) \subseteq UpTo(r) /\ r \in UpTo(r) /\ r \notin UpTo(q)
    <2>1. CASE list = "audit"
        BY <1>0, <2>1 DEF UpTo
    <2>2. CASE list # "audit"
        BY <1>0, <2>2 DEF UpTo
    <2>3. QED  BY <2>1, <2>2
<1>2. IsFiniteSet(UpTo(r))
    BY FS_Subset DEF RowsOK, UpTo
<1>3. /\ Cardinality(UpTo(q)) <= Cardinality(UpTo(r)) /\ Cardinality(UpTo(q)) # Cardinality(UpTo(r))
      /\ Cardinality(UpTo(q)) \in Nat /\ Cardinality(UpTo(r)) \in Nat
    BY <1>1, <1>2, FS_Subset, FS_CardinalityType
<1>4. QED  BY <1>3 DEF Rank, UpTo

\* So every rank is that of one row, and the list has each row at its rank.
LEMMA ListHasRanks ==
    ASSUME RowsOK
    PROVE  /\ \A q, r \in rows : Rank(q) = Rank(r) => q = r
           /\ \A i \in 1 .. Cardinality(rows) : Sorted[i] \in rows /\ Rank(Sorted[i]) = i
           /\ Sorted \in Seq(rows) /\ Len(Sorted) = Cardinality(rows)
<1>1. ASSUME NEW q \in rows, NEW r \in rows, q # r PROVE Rank(q) # Rank(r)
    <2>1. q \in UpTo(r) \/ r \in UpTo(q)
        BY DEF RowsOK, UpTo
    <2>2. Rank(q) < Rank(r) \/ Rank(r) < Rank(q)
        BY <1>1, <2>1, RankGrows
    <2>3. Rank(q) \in Nat /\ Rank(r) \in Nat
        BY RankInRange
    <2>4. QED  BY <2>2, <2>3
<1> DEFINE n == Cardinality(rows)
           rank == [r \in rows |-> Rank(r)]
<1>2. n \in Nat
    BY RowsAreFew
<1>3. rank \in Injection(rows, 1 .. n)
    BY <1>1, RankInRange DEF Injection, IsInjective
<1>4. IsFiniteSet(1 .. n) /\ Cardinality(1 .. n) = n
    BY <1>2, FS_Interval
<1>5. rank \in Surjection(rows, 1 .. n)
    BY <1>3, <1>4, FS_Injection
<1>6. \A i \in 1 .. n : \E r \in rows : Rank(r) = i
    BY <1>5 DEF Surjection
<1>7. \A i \in 1 .. n : Sorted[i] = CHOOSE r \in rows : Rank(r) = i
    BY DEF Sorted
<1>8. \A i \in 1 .. n : Sorted[i] \in rows /\ Rank(Sorted[i]) = i
    BY <1>6, <1>7
<1>9. Sorted = [i \in 1 .. n |-> Sorted[i]]
    BY DEF Sorted
<1>10. Sorted \in [1 .. n -> rows]
    BY <1>8, <1>9
<1>11. QED  BY <1>1, <1>2, <1>8, <1>10

-----------------------------------------------------------------------------
(* A page *)

\* No page is empty or larger than MaxSize, whatever is asked for.
LEMMA SizeInRange ==
    ASSUME NEW s \in Int
    PROVE  NormalSize(s) \in 1 .. MaxSize
BY PagingAssumption DEF NormalSize

\* A slice of the list: the rows of the ranks of the page, and how many they are.
LEMMA PageMeans ==
    ASSUME RowsOK, NEW p \in Int, NEW s \in Int, NEW before \in Nat, NEW size \in Nat,
           size = NormalSize(s), before = (NormalPage(p) - 1) * size, before < Half
    PROVE  /\ ToSet(Paginate(Sorted, p, s)) = {r \in rows : Rank(r) \in before + 1 .. before + size}
           /\ Len(Paginate(Sorted, p, s)) < size => Cardinality(rows) < before + size
           /\ Len(Paginate(Sorted, p, s)) >= size => before + size <= Cardinality(rows)
           /\ Len(Paginate(Sorted, p, s)) \in Nat
<1>1. Offset(p, s) = before
    <2>1. Start(p, s) = before
        BY WrapIsIdentity DEF Start
    <2>2. QED  BY <2>1 DEF Offset
<1>2. PICK n \in Nat : n = Cardinality(rows)
    BY RowsAreFew
<1>3. size \in 1 .. MaxSize
    BY SizeInRange
<1>4. PICK end \in Nat : /\ end = Min({before + size, n})
                         /\ end <= n /\ end <= before + size /\ (end = n \/ end = before + size)
    <2>1. \E x \in {before + size, n} : \A y \in {before + size, n} : x <= y
        OBVIOUS
    <2>2. /\ Min({before + size, n}) \in {before + size, n}
          /\ \A y \in {before + size, n} : Min({before + size, n}) <= y
        BY <2>1 DEF Min
    <2>3. QED  BY <2>2
<1> DEFINE given == SubSeq(Sorted, before + 1, end)
<1>5. Paginate(Sorted, p, s) = given
    <2>1. Len(Sorted) = n
        BY <1>2, ListHasRanks
    <2>2. ~(before < 0)
        OBVIOUS
    <2>3. Paginate(Sorted, p, s) = SubSeq(Sorted, before + 1, Min({before + size, n}))
        BY <1>1, <2>1, <2>2, Zenon DEF Paginate
    <2>4. QED  BY <1>4, <2>3
<1>6. \A i \in before + 1 .. end : Sorted[i] \in rows /\ Rank(Sorted[i]) = i
    BY <1>2, <1>4, ListHasRanks
<1>7. /\ Len(given) = IF before + 1 <= end THEN end - before ELSE 0
      /\ given \in Seq(rows)
      /\ \A i \in 1 .. end - before : given[i] = Sorted[before + i]
    <2>1. PICK first \in Int : first = before + 1
        OBVIOUS
    <2>2. \A i \in first .. end : Sorted[i] \in rows
        BY <1>6, <2>1
    <2>3. /\ SubSeq(Sorted, first, end) \in Seq(rows)
          /\ Len(SubSeq(Sorted, first, end)) = IF first <= end THEN end - first + 1 ELSE 0
          /\ \A i \in 1 .. end - first + 1 : SubSeq(Sorted, first, end)[i] = Sorted[first + i - 1]
        BY <2>2, SubSeqProperties
    <2>4. given = SubSeq(Sorted, first, end)
        BY <2>1
    <2> HIDE DEF given
    <2>5. end - first + 1 = end - before
        BY <2>1
    <2>6. ASSUME NEW i \in 1 .. end - before PROVE given[i] = Sorted[before + i]
        <3>1. first + i - 1 = before + i
            BY <2>1
        <3>2. given[i] = Sorted[first + i - 1]
            BY <2>3, <2>4, <2>5
        <3>3. QED  BY <3>1, <3>2
    <2>7. QED  BY <2>1, <2>3, <2>4, <2>5, <2>6
<1> HIDE DEF given
<1>8. ToSet(given) = {r \in rows : Rank(r) \in before + 1 .. before + size}
    <2>1. ToSet(given) = {given[i] : i \in DOMAIN given} /\ DOMAIN given = 1 .. Len(given)
        BY <1>7 DEF ToSet
    <2>2. ASSUME NEW i \in DOMAIN given
          PROVE  given[i] \in rows /\ Rank(given[i]) \in before + 1 .. before + size
        <3>1. i \in 1 .. end - before /\ before + i \in before + 1 .. end
            <4>1. i \in 1 .. end - before
                BY <1>7, <2>1
            <4>2. QED  BY <4>1
        <3>2. given[i] = Sorted[before + i]
            BY <1>7, <3>1
        <3>3. Sorted[before + i] \in rows /\ Rank(Sorted[before + i]) = before + i
            BY <1>6, <3>1
        <3>4. before + i \in before + 1 .. before + size
            BY <1>4, <3>1
        <3>5. QED  BY <3>2, <3>3, <3>4
    <2>3. ASSUME NEW r \in rows, Rank(r) \in before + 1 .. before + size
          PROVE  \E i \in DOMAIN given : given[i] = r
        <3>1. PICK k \in 1 .. n : k = Rank(r)
            BY <1>2, RankInRange
        <3>2. k \in before + 1 .. end
            BY <1>4, <2>3, <3>1
        <3>3. Sorted[k] = r
            BY <1>2, <3>1, ListHasRanks
        <3>4. k - before \in 1 .. end - before /\ before + (k - before) = k
            BY <3>2
        <3>5. k - before \in DOMAIN given
            <4>1. Len(given) = end - before
                BY <1>7, <3>2
            <4>2. QED  BY <2>1, <3>4, <4>1
        <3>6. given[k - before] = Sorted[k]
            BY <1>7, <3>4
        <3>7. QED  BY <3>3, <3>5, <3>6
    <2>4. QED  BY <2>1, <2>2, <2>3
<1>9. QED  BY <1>2, <1>3, <1>4, <1>5, <1>7, <1>8

-----------------------------------------------------------------------------
(* The rows, whoever inserts and deletes *)

RowsInv ==
    /\ nextId \in 1 .. MaxRows + 1
    /\ rows \subseteq 1 .. nextId - 1

\* Ids given in order to at most MaxRows rows are finitely many.
LEMMA RowsInvMeans == RowsInv => RowsOK
<1> SUFFICES ASSUME RowsInv PROVE RowsOK
    OBVIOUS
<1>1. PICK n \in Nat : n = nextId - 1 /\ n <= MaxRows
    BY PagingAssumption DEF RowsInv
<1>2. IsFiniteSet(1 .. n) /\ Cardinality(1 .. n) = n
    BY FS_Interval
<1>3. IsFiniteSet(rows) /\ Cardinality(rows) <= n
    BY <1>1, <1>2, FS_Subset DEF RowsInv
<1>4. Cardinality(rows) \in Nat
    BY <1>3, FS_CardinalityType
<1>5. rows \subseteq Nat
    BY <1>1 DEF RowsInv
<1>6. QED  BY <1>1, <1>3, <1>4, <1>5, PagingAssumption DEF RowsOK

\* Only Insert gives an id.
LEMMA RowsInvariant == Spec => []RowsInv
<1>1. Init => RowsInv
    BY PagingAssumption DEF Init, RowsInv
<1>2. RowsInv /\ [Next]_vars => RowsInv'
    <2> SUFFICES ASSUME RowsInv, [Next]_vars PROVE RowsInv'
        OBVIOUS
    <2>1. CASE Insert
        <3>1. nextId \in Nat /\ nextId' = nextId + 1 /\ nextId <= MaxRows
            BY <2>1 DEF Insert, RowsInv
        <3>2. rows' = rows \cup {nextId}
            BY <2>1 DEF Insert
        <3>3. QED  BY <3>1, <3>2, PagingAssumption DEF RowsInv
    <2>2. CASE Delete
        BY <2>2 DEF Delete, RowsInv
    <2>3. CASE ListMemory \/ Count \/ Select \/ UNCHANGED vars
        BY <2>3 DEF ListMemory, Count, Select, vars, RowsInv
    <2>4. QED  BY <2>1, <2>2, <2>3 DEF Next
<1>3. QED  BY <1>1, <1>2, PTL DEF Spec

\* Whatever rows there are and whatever page is asked for, the slice is the page.
THEOREM PagesAreRight == Spec => []EveryRowOnItsPage
<1>1. ASSUME RowsOK, NEW p \in -Half .. Half - 1, NEW s \in -Half .. Half - 1
      PROVE  LET size == NormalSize(s)
                 before == IF p < 1 THEN 0 ELSE (p - 1) * size
             IN  before < Half =>
                    ToSet(Paginate(Sorted, p, s)) =
                        {r \in rows : [q \in rows |-> Rank(q)][r] \in before + 1 .. before + size}
    <2>1. p \in Int /\ s \in Int
        BY PagingAssumption
    <2>2. PICK size \in Nat : size = NormalSize(s)
        BY <2>1, SizeInRange
    <2>3. PICK before \in Nat : before = (IF p < 1 THEN 0 ELSE (p - 1) * size)
        <3>1. ~(p < 1) => p - 1 \in Nat /\ (p - 1) * size \in Nat
            BY <2>1, <2>2, ProductIsNat
        <3>2. QED  BY <3>1
    <2>4. before = (NormalPage(p) - 1) * size
        BY <2>1, <2>3 DEF NormalPage
    <2>5. before < Half =>
            ToSet(Paginate(Sorted, p, s)) = {r \in rows : Rank(r) \in before + 1 .. before + size}
        BY <1>1, <2>1, <2>2, <2>4, PageMeans
    <2>6. {r \in rows : Rank(r) \in before + 1 .. before + size} =
            {r \in rows : [q \in rows |-> Rank(q)][r] \in before + 1 .. before + size}
        OBVIOUS
    <2>7. QED  BY <2>2, <2>3, <2>5, <2>6
<1>2. RowsOK => EveryRowOnItsPage
    BY <1>1 DEF EveryRowOnItsPage
<1>3. QED  BY <1>2, RowsInvMeans, RowsInvariant, PTL

-----------------------------------------------------------------------------
(* The walk *)

\* Of the rows of one rank there is one at most.
LEMMA OneOfRank ==
    ASSUME RowsOK, NEW n, NEW S, S = {r \in rows : Rank(r) = n}
    PROVE  IsFiniteSet(S) /\ Cardinality(S) \in {0, 1}
<1>1. \A q, r \in S : q = r
    BY ListHasRanks
<1>2. CASE S = {}
    BY <1>2, FS_EmptySet
<1>3. CASE S # {}
    <2>1. PICK r : S = {r}
        BY <1>1, <1>3
    <2>2. QED  BY <2>1, FS_Singleton
<1>4. QED  BY <1>2, <1>3

\* When ranks move by one, one row at most crosses a rank.
LEMMA OneMore ==
    ASSUME RowsOK, NEW n, NEW A, IsFiniteSet(A), NEW B,
           B \subseteq A \cup {r \in rows : Rank(r) = n}
    PROVE  /\ Cardinality(A) \in Nat /\ Cardinality(B) \in Nat
           /\ Cardinality(B) <= Cardinality(A) + 1
<1> DEFINE S == {r \in rows : Rank(r) = n}
<1>1. IsFiniteSet(S) /\ Cardinality(S) \in {0, 1}
    BY OneOfRank
<1> HIDE DEF S
<1>2. Cardinality(A) \in Nat /\ Cardinality(A \cap S) \in Nat
    <2>1. A \cap S \subseteq A
        OBVIOUS
    <2>2. QED  BY <2>1, FS_Subset, FS_CardinalityType
<1>3. IsFiniteSet(A \cup S)
      /\ Cardinality(A \cup S) = Cardinality(A) + Cardinality(S) - Cardinality(A \cap S)
    BY <1>1, FS_Union
<1>4. B \subseteq A \cup S
    BY DEF S
<1>5. Cardinality(B) <= Cardinality(A \cup S) /\ Cardinality(B) \in Nat
    BY <1>3, <1>4, FS_Subset, FS_CardinalityType
<1>6. QED  BY <1>1, <1>2, <1>3, <1>5

\* A row that is inserted comes after the ids that are there: none gets a smaller
\* rank, and in the audit log all of them the next greater one.
LEMMA InsertMovesByOne ==
    ASSUME RowsOK, RowsInv, rows' = rows \cup {nextId}, list' = list, NEW r \in rows
    PROVE  /\ Rank(r) \in Nat /\ Rank(r)' \in Nat
           /\ Rank(r) <= Rank(r)' /\ Rank(r)' <= Rank(r) + 1
           /\ list # "audit" => Rank(r)' = Rank(r)
<1>1. UpTo(r) \subseteq rows /\ IsFiniteSet(UpTo(r)) /\ Cardinality(UpTo(r)) \in Nat
    BY FS_Subset, FS_CardinalityType DEF UpTo, RowsOK
<1>2. r \in Nat /\ nextId \in Nat /\ r < nextId
    BY PagingAssumption DEF RowsInv
<1>3. CASE list = "audit"
    <2>1. UpTo(r)' = UpTo(r) \cup {nextId}
        BY <1>2, <1>3 DEF UpTo
    <2>2. nextId \notin UpTo(r)
        BY <1>1, PagingAssumption DEF RowsInv
    <2>3. Cardinality(UpTo(r)') = Cardinality(UpTo(r)) + 1
        BY <1>1, <2>1, <2>2, FS_AddElement
    <2>4. QED  BY <1>1, <1>3, <2>3 DEF Rank, UpTo
<1>4. CASE list # "audit"
    <2>1. UpTo(r)' = UpTo(r)
        BY <1>2, <1>4 DEF UpTo
    <2>2. QED  BY <1>1, <2>1 DEF Rank, UpTo
<1>5. QED  BY <1>3, <1>4

\* A row that is deleted takes the rows after it one rank down.
LEMMA DeleteMovesByOne ==
    ASSUME RowsOK, NEW d \in rows, rows' = rows \ {d}, list' = list, NEW r \in rows'
    PROVE  /\ Rank(r) \in Nat /\ Rank(r)' \in Nat
           /\ Rank(r)' <= Rank(r) /\ Rank(r) <= Rank(r)' + 1
<1>1. IsFiniteSet(UpTo(r)) /\ Cardinality(UpTo(r)) \in Nat
    BY FS_Subset, FS_CardinalityType DEF UpTo, RowsOK
<1>2. UpTo(r)' = UpTo(r) \ {d}
    BY DEF UpTo
<1>3. /\ IsFiniteSet(UpTo(r) \ {d})
      /\ Cardinality(UpTo(r) \ {d}) =
            IF d \in UpTo(r) THEN Cardinality(UpTo(r)) - 1 ELSE Cardinality(UpTo(r))
    BY <1>1, FS_RemoveElement
<1>4. Cardinality(UpTo(r) \ {d}) \in Nat
    BY <1>3, FS_CardinalityType
<1>5. QED  BY <1>1, <1>2, <1>3, <1>4 DEF Rank, UpTo

-----------------------------------------------------------------------------

Size == NormalSize(asked)

\* The rows of the pages the reader has behind it.
Passed == (page - 1) * Size

\* The rows it was not given although it has passed their ranks.
Behind == {r \in stayed \ seen : Rank(r) <= Passed}

\* The rows a reader does not expect that counted n, and how many they may be.
Beyond(n) == {r \in stayed : Rank(r) > n}
Moved == IF list = "audit" THEN torn ELSE 0

\* A row gets behind the reader when a deletion takes it there, and beyond its
\* count when an insertion puts records in front of it.
WalkInv ==
    /\ asked \in Int /\ page \in Nat \ {0} /\ total \in 0 .. MaxRows
    /\ ends \in {"short", "total_pages"} /\ pc \in {"asking", "counted", "done"}
    /\ removed \in Nat /\ torn \in Nat
    /\ stayed \subseteq rows
    /\ pc # "done" => Passed <= MaxRows
    /\ pc # "done" => Cardinality(Behind) <= removed
    /\ pc = "counted" => Cardinality(Beyond(total)) <= Moved
    /\ WalkMissesOnlyMoved

\* The rows of these sets are some of the rows.
LEMMA SubsetsCount ==
    ASSUME RowsOK, NEW S, S \subseteq rows
    PROVE  /\ IsFiniteSet(S) /\ Cardinality(S) \in Nat
           /\ \A T : T \subseteq S =>
                IsFiniteSet(T) /\ Cardinality(T) \in Nat /\ Cardinality(T) <= Cardinality(S)
<1>1. IsFiniteSet(S) /\ Cardinality(S) \in Nat
    BY FS_Subset, FS_CardinalityType DEF RowsOK
<1>2. QED  BY <1>1, FS_Subset, FS_CardinalityType

\* No row is beyond a count that is right.
LEMMA NoneBeyond ==
    ASSUME RowsOK, WalkInv
    PROVE  Beyond(Cardinality(rows)) = {} /\ Cardinality(Beyond(Cardinality(rows))) = 0
<1>1. \A r \in stayed : ~(Rank(r) > Cardinality(rows))
    BY RankInRange, RowsAreFew DEF WalkInv
<1>2. QED  BY <1>1, FS_EmptySet DEF Beyond

\* The rows behind the reader after one more page.
LEMMA PassedGrows ==
    ASSUME WalkInv
    PROVE  /\ Size \in 1 .. MaxSize
           /\ Passed \in Nat
           /\ page * Size = Passed + Size
           /\ NormalPage(page) = page
<1>1. Size \in 1 .. MaxSize
    BY SizeInRange DEF WalkInv, Size
<1>2. page - 1 \in Nat /\ Size \in Nat /\ page \in Int /\ Size \in Int
    BY <1>1, PagingAssumption DEF WalkInv
<1>3. Passed \in Nat
    BY <1>2, ProductIsNat DEF Passed
<1>4. page * Size = Passed + Size
    <2>1. ((page + 1) - 1) * Size = (page - 1) * Size + Size
        BY <1>2, NextStart
    <2>2. (page + 1) - 1 = page
        BY <1>2
    <2>3. QED  BY <2>1, <2>2 DEF Passed
<1>5. QED  BY <1>1, <1>3, <1>4 DEF WalkInv, NormalPage

\* An answer leaves no row behind the reader that it was not given, and a reader
\* who stops misses what was behind it and what it did not expect.
LEMMA AnswerKeepsWalk ==
    ASSUME RowsOK, WalkInv, pc # "done", NEW count \in 0 .. MaxRows,
           Cardinality(Beyond(count)) <= Moved,
           Answer(count),
           UNCHANGED <<list, rows, asked, ends, total, stayed, removed, torn>>
    PROVE  WalkInv'
<1> DEFINE given == Paginate(Sorted, page, Size)
           last == IF ends = "short" THEN Len(given) < Size ELSE page >= TotalPages(count, Size)
<1>1. /\ seen' = seen \cup ToSet(given)
      /\ pc' = (IF last THEN "done" ELSE "asking")
      /\ page' = page + 1
    BY DEF Answer, Size
<1> HIDE DEF last
<1>2. /\ Size \in 1 .. MaxSize /\ Passed \in Nat /\ page * Size = Passed + Size
      /\ NormalPage(page) = page
    BY PassedGrows
<1>3. Passed <= MaxRows /\ Passed < Half
    BY <1>2, PagingAssumption DEF WalkInv
<1>4. /\ ToSet(given) = {r \in rows : Rank(r) \in Passed + 1 .. Passed + Size}
      /\ Len(given) < Size => Cardinality(rows) < Passed + Size
      /\ Len(given) >= Size => Passed + Size <= Cardinality(rows)
      /\ Len(given) \in Nat
    <2>1. page \in Int /\ Passed \in Nat /\ Size \in Nat /\ Size \in Int
        BY <1>2, PagingAssumption DEF WalkInv
    <2>2. Size = NormalSize(Size)
        BY <1>2, PagingAssumption DEF NormalSize
    <2>3. Passed = (NormalPage(page) - 1) * Size
        BY <1>2 DEF Passed
    <2>4. QED  BY <1>3, <2>1, <2>2, <2>3, PageMeans
<1> HIDE DEF given
<1> DEFINE end == Passed + Size
<1>5. Passed' = end
    <2>1. Passed' = ((page + 1) - 1) * Size
        BY <1>1 DEF Passed, Size
    <2>2. page \in Int /\ Size \in Int
        BY <1>2, PagingAssumption DEF WalkInv
    <2>3. QED  BY <2>1, <2>2, NextStart DEF Passed
<1>6. Cardinality(rows) \in Nat /\ Cardinality(rows) <= MaxRows
    BY RowsAreFew DEF RowsOK
\* A row it is not given was behind it before, or has a rank beyond the page.
<1>7. ASSUME NEW r \in stayed \ seen' PROVE r \in Behind \/ Rank(r) > end
    <2>1. r \in rows /\ r \in stayed \ seen /\ r \notin ToSet(given)
        BY <1>1, <1>7 DEF WalkInv
    <2>2. Rank(r) \in Nat
        BY <2>1, <1>6, RankInRange
    <2>3. Rank(r) \notin Passed + 1 .. end
        BY <1>4, <2>1
    <2>4. Rank(r) <= Passed \/ Rank(r) > end
        BY <1>2, <2>2, <2>3
    <2>5. QED  BY <2>1, <2>4 DEF Behind
<1>8. Behind \subseteq rows /\ Cardinality(Behind) <= removed
    BY DEF Behind, WalkInv
<1>9. Cardinality(Behind)' <= removed
    <2>1. \A r : Rank(r)' = Rank(r)
        BY DEF Rank
    <2>2. Behind' = {r \in stayed \ seen' : Rank(r) <= end}
        BY <1>5, <2>1 DEF Behind
    <2>3. ASSUME NEW r \in Behind' PROVE r \in Behind
        <3>1. r \in stayed \ seen' /\ Rank(r) <= end
            BY <2>2, <2>3
        <3>2. r \in rows
            BY <3>1 DEF WalkInv
        <3>3. Rank(r) \in Nat
            BY <1>6, <3>2, RankInRange
        <3>4. ~(Rank(r) > end)
            BY <1>2, <3>1, <3>3
        <3>5. QED  BY <1>7, <3>1, <3>4
    <2>4. /\ Cardinality(Behind') <= Cardinality(Behind)
          /\ Cardinality(Behind') \in Nat /\ Cardinality(Behind) \in Nat
        BY <1>8, <2>3, SubsetsCount
    <2>5. QED  BY <1>8, <2>4 DEF WalkInv
\* A page that is not the last ends within the rows.
<1>10. ~last => end <= MaxRows
    <2>1. CASE ends = "short"
        <3>1. ~last => ~(Len(given) < Size)
            BY <2>1 DEF last
        <3>2. Len(given) \in Nat
            BY <1>4
        <3>3. Size \in Nat /\ MaxRows \in Nat /\ end \in Nat
            BY <1>2, PagingAssumption
        <3>4. ~last => Len(given) >= Size
            BY <3>1, <3>2, <3>3
        <3>5. ~last => end <= Cardinality(rows)
            BY <1>4, <3>4
        <3>6. QED  BY <1>6, <3>3, <3>5
    <2>2. CASE ends # "short"
        <3>1. page \in Nat /\ Size \in Nat \ {0} /\ count \in Nat
            BY <1>2, PagingAssumption DEF WalkInv
        <3>2. ~last => page < TotalPages(count, Size)
            <4>1. TotalPages(count, Size) \in Int
                BY <3>1 DEF TotalPages
            <4>2. QED  BY <2>2, <3>1, <4>1 DEF last
        <3>3. page < TotalPages(count, Size) => page * Size < count
            BY <3>1, PagesCover
        <3>4. QED  BY <1>2, <3>1, <3>2, <3>3, PagingAssumption
    <2>3. QED  BY <2>1, <2>2
\* After a short page there is no row.
<1>11. ASSUME last, ends = "short" PROVE Cardinality(stayed \ seen') <= removed
    <2>1. Cardinality(rows) < end
        BY <1>4, <1>11 DEF last
    <2>2. ASSUME NEW r \in stayed \ seen' PROVE r \in Behind
        <3>1. r \in rows
            BY <2>2 DEF WalkInv
        <3>2. ~(Rank(r) > end)
            BY <1>2, <1>6, <2>1, <3>1, RankInRange
        <3>3. QED  BY <1>7, <2>2, <3>2
    <2>3. /\ Cardinality(stayed \ seen') <= Cardinality(Behind)
          /\ Cardinality(stayed \ seen') \in Nat /\ Cardinality(Behind) \in Nat
        BY <1>8, <2>2, SubsetsCount
    <2>4. QED  BY <1>8, <2>3 DEF WalkInv
\* After the last page of total_pages there are those beyond the count.
<1>12. ASSUME last, ends = "total_pages" PROVE Cardinality(stayed \ seen') <= removed + Moved
    <2>1. page \in Nat /\ Size \in Nat \ {0} /\ count \in Nat
        BY <1>2, PagingAssumption DEF WalkInv
    <2>2. page >= TotalPages(count, Size)
        BY <1>12 DEF last
    <2>3. end >= count
        BY <1>2, <2>1, <2>2, PagesCover
    <2>4. ASSUME NEW r \in stayed \ seen' PROVE r \in Behind \cup Beyond(count)
        <3>1. r \in rows
            BY <2>4 DEF WalkInv
        <3>2. Rank(r) > end => Rank(r) > count
            BY <1>2, <1>6, <2>1, <2>3, <3>1, RankInRange
        <3>3. QED  BY <1>7, <2>4, <3>2 DEF Beyond
    <2>5. Beyond(count) \subseteq rows
        BY DEF Beyond, WalkInv
    <2>6. /\ IsFiniteSet(Behind) /\ IsFiniteSet(Beyond(count))
          /\ Cardinality(Behind) \in Nat /\ Cardinality(Beyond(count)) \in Nat
          /\ Cardinality(Behind \cap Beyond(count)) \in Nat
        <3>1. Behind \cap Beyond(count) \subseteq rows
            BY <2>5
        <3>2. QED  BY <1>8, <2>5, <3>1, SubsetsCount
    <2>7. Cardinality(Behind \cup Beyond(count)) =
            Cardinality(Behind) + Cardinality(Beyond(count)) - Cardinality(Behind \cap Beyond(count))
        BY <2>6, FS_Union
    <2>8. /\ Cardinality(stayed \ seen') <= Cardinality(Behind \cup Beyond(count))
          /\ Cardinality(stayed \ seen') \in Nat
        <3>1. Behind \cup Beyond(count) \subseteq rows /\ stayed \ seen' \subseteq Behind \cup Beyond(count)
            BY <1>8, <2>4, <2>5
        <3>2. QED  BY <3>1, SubsetsCount
    <2>9. Moved \in Nat /\ removed \in Nat
        BY DEF Moved, WalkInv
    <2>10. Cardinality(Beyond(count)) <= Moved
        OBVIOUS
    <2>11. QED  BY <1>8, <2>6, <2>7, <2>8, <2>9, <2>10
<1>13. WalkMissesOnlyMoved'
    <2> SUFFICES ASSUME last
                 PROVE  Cardinality(stayed \ seen') <=
                            removed + IF ends = "total_pages" /\ list = "audit" THEN torn ELSE 0
        BY <1>1 DEF WalkMissesOnlyMoved
    <2>1. CASE ends = "short"
        <3>1. Cardinality(stayed \ seen') <= removed
            BY <1>11, <2>1
        <3>2. (IF ends = "total_pages" /\ list = "audit" THEN torn ELSE 0) = 0 /\ removed \in Nat
            BY <2>1 DEF WalkInv
        <3>3. removed + 0 = removed
            BY <3>2
        <3>4. QED  BY <3>1, <3>2, <3>3
    <2>2. CASE ends = "total_pages"
        <3>1. Cardinality(stayed \ seen') <= removed + Moved
            BY <1>12, <2>2
        <3>2. (IF ends = "total_pages" /\ list = "audit" THEN torn ELSE 0) = Moved
            BY <2>2 DEF Moved
        <3>3. QED  BY <3>1, <3>2
    <2>3. QED  BY <2>1, <2>2 DEF WalkInv
<1>14. /\ (asked \in Int /\ total \in 0 .. MaxRows /\ ends \in {"short", "total_pages"})'
       /\ (removed \in Nat /\ torn \in Nat /\ stayed \subseteq rows)'
       /\ page' \in Nat \ {0} /\ pc' \in {"asking", "counted", "done"} /\ pc' # "counted"
       /\ pc' # "done" => Passed' <= MaxRows
    BY <1>1, <1>5, <1>10 DEF WalkInv
<1>15. (pc # "done" => Cardinality(Behind) <= removed)'
    BY <1>9
<1>16. QED  BY <1>13, <1>14, <1>15 DEF WalkInv

\* Writers and reader keep the walk as WalkInv says.
LEMMA WalkInvariant == Spec => []WalkInv
<1>1. Init => WalkInv
    <2> SUFFICES ASSUME Init PROVE WalkInv
        OBVIOUS
    <2>1. RowsInv
        BY PagingAssumption DEF Init, RowsInv
    <2>2. RowsOK
        BY <2>1, RowsInvMeans
    <2>3. asked \in Int /\ page = 1
        BY PagingAssumption DEF Init
    <2>4. Size \in Nat
        BY <2>3, SizeInRange, PagingAssumption DEF Size
    <2>5. Passed = 0
        BY <2>3, <2>4 DEF Passed
    <2>6. Cardinality(Behind) = 0
        <3>1. Cardinality(rows) \in Nat
            BY <2>2, RowsAreFew
        <3>2. \A r \in rows : ~(Rank(r) <= 0)
            BY <2>2, <3>1, RankInRange
        <3>3. Behind = {}
            BY <2>5, <3>2 DEF Init, Behind
        <3>4. QED  BY <3>3, FS_EmptySet
    <2>7. WalkMissesOnlyMoved
        BY DEF Init, WalkMissesOnlyMoved
    <2>8. total \in 0 .. MaxRows
        BY PagingAssumption DEF Init
    <2>9. /\ ends \in {"short", "total_pages"} /\ pc = "asking"
          /\ removed = 0 /\ torn = 0 /\ stayed \subseteq rows
        BY DEF Init
    <2>10. Passed <= MaxRows
        BY <2>5, PagingAssumption
    <2>11. QED  BY <2>3, <2>6, <2>7, <2>8, <2>9, <2>10 DEF WalkInv
<1>2. RowsInv /\ RowsOK /\ WalkInv /\ [Next]_vars => WalkInv'
    <2> SUFFICES ASSUME RowsInv, RowsOK, WalkInv, [Next]_vars PROVE WalkInv'
        OBVIOUS
    <2>0. /\ Behind \subseteq rows /\ Beyond(total) \subseteq rows
          /\ IsFiniteSet(Behind) /\ IsFiniteSet(Beyond(total))
        <3>1. Behind \subseteq rows /\ Beyond(total) \subseteq rows
            BY DEF Behind, Beyond, WalkInv
        <3>2. QED  BY <3>1, SubsetsCount
    <2>1. CASE Insert
        <3>1. /\ rows' = rows \cup {nextId} /\ list' = list
              /\ UNCHANGED <<asked, ends, pc, page, total, seen, stayed, removed>>
              /\ torn' = IF pc = "counted" THEN torn + 1 ELSE torn
            BY <2>1 DEF Insert
        <3>2. Passed' = Passed /\ Passed \in Nat
            BY <3>1, PassedGrows DEF Passed, Size
        <3>3. ASSUME pc # "done" PROVE Cardinality(Behind)' <= removed
            <4>1. ASSUME NEW r \in Behind' PROVE r \in Behind
                <5>1. r \in stayed \ seen /\ Rank(r)' <= Passed /\ r \in rows
                    BY <3>1, <3>2, <4>1 DEF Behind, WalkInv
                <5>2. Rank(r) <= Rank(r)' /\ Rank(r) \in Nat /\ Rank(r)' \in Nat
                    BY <3>1, <5>1, InsertMovesByOne
                <5>3. Rank(r) <= Passed
                    BY <3>2, <5>1, <5>2
                <5>4. QED  BY <5>1, <5>3 DEF Behind
            <4>2. /\ Cardinality(Behind') <= Cardinality(Behind)
                  /\ Cardinality(Behind') \in Nat /\ Cardinality(Behind) \in Nat
                BY <2>0, <4>1, SubsetsCount
            <4>3. QED  BY <3>3, <4>2 DEF WalkInv
        <3>4. ASSUME pc = "counted" PROVE Cardinality(Beyond(total))' <= Moved'
            <4>1. Cardinality(Beyond(total)) <= Moved /\ total \in Nat /\ torn \in Nat
                BY <3>4 DEF WalkInv
            <4>2. ASSUME NEW r \in Beyond(total)'
                  PROVE  /\ r \in stayed /\ r \in rows /\ Rank(r)' > total
                         /\ Rank(r) \in Nat /\ Rank(r)' \in Nat
                         /\ Rank(r) <= Rank(r)' /\ Rank(r)' <= Rank(r) + 1
                         /\ list # "audit" => Rank(r)' = Rank(r)
                <5>1. r \in stayed /\ r \in rows /\ Rank(r)' > total
                    BY <3>1, <4>2 DEF Beyond, WalkInv
                <5>2. QED  BY <3>1, <5>1, InsertMovesByOne
            <4>3. CASE list = "audit"
                <5>1. ASSUME NEW r \in Beyond(total)'
                      PROVE  r \in Beyond(total) \cup {q \in rows : Rank(q) = total}
                    <6>1. r \in stayed /\ r \in rows
                        BY <4>2, <5>1
                    <6>2. Rank(r) > total \/ Rank(r) = total
                        BY <4>1, <4>2, <5>1
                    <6>3. QED  BY <6>1, <6>2 DEF Beyond
                <5>2. /\ Cardinality(Beyond(total)) \in Nat /\ Cardinality(Beyond(total)') \in Nat
                      /\ Cardinality(Beyond(total)') <= Cardinality(Beyond(total)) + 1
                    BY <2>0, <5>1, OneMore
                <5>3. Moved = torn /\ Moved' = torn + 1
                    BY <3>1, <3>4, <4>3 DEF Moved
                <5>4. QED  BY <4>1, <5>2, <5>3
            <4>4. CASE list # "audit"
                <5>1. ASSUME NEW r \in Beyond(total)' PROVE r \in Beyond(total)
                    <6>1. r \in stayed /\ Rank(r) > total
                        BY <4>2, <4>4, <5>1
                    <6>2. QED  BY <6>1 DEF Beyond
                <5>2. /\ Cardinality(Beyond(total)') <= Cardinality(Beyond(total))
                      /\ Cardinality(Beyond(total)') \in Nat /\ Cardinality(Beyond(total)) \in Nat
                    BY <2>0, <5>1, SubsetsCount
                <5>3. Moved = 0 /\ Moved' = 0
                    BY <3>1, <4>4 DEF Moved
                <5>4. QED  BY <4>1, <5>2, <5>3
            <4>5. QED  BY <4>3, <4>4
        <3>5. WalkMissesOnlyMoved'
            BY <3>1 DEF WalkInv, WalkMissesOnlyMoved
        <3>6. (torn \in Nat)'
            BY <3>1 DEF WalkInv
        <3>7. (pc # "done" => Cardinality(Behind) <= removed)'
            BY <3>1, <3>3
        <3>8. (pc = "counted" => Cardinality(Beyond(total)) <= Moved)'
            BY <3>1, <3>4
        <3>9. (pc # "done" => Passed <= MaxRows)'
            BY <3>1, <3>2 DEF WalkInv
        <3>10. QED  BY <3>1, <3>5, <3>6, <3>7, <3>8, <3>9 DEF WalkInv
    <2>2. CASE Delete
        <3>1. PICK d \in rows : rows' = rows \ {d} /\ stayed' = stayed \ {d}
            BY <2>2 DEF Delete
        <3>2. removed' = removed + 1 /\ UNCHANGED <<list, asked, ends, pc, page, total, seen, torn>>
            BY <2>2 DEF Delete
        <3>3. Passed' = Passed /\ Passed \in Nat
            BY <3>2, PassedGrows DEF Passed, Size
        <3>4. removed \in Nat /\ total \in Nat /\ stayed \subseteq rows
            BY DEF WalkInv
        <3>5. ASSUME NEW r \in stayed'
              PROVE  /\ Rank(r) \in Nat /\ Rank(r)' \in Nat
                     /\ Rank(r)' <= Rank(r) /\ Rank(r) <= Rank(r)' + 1
            <4>1. r \in rows'
                BY <3>1, <3>4, <3>5
            <4>2. QED  BY <3>1, <3>2, <4>1, DeleteMovesByOne
        <3>6. ASSUME pc # "done" PROVE Cardinality(Behind)' <= removed + 1
            <4>1. PICK n \in Nat : n = Passed + 1
                BY <3>3
            <4>2. ASSUME NEW r \in Behind'
                  PROVE  r \in Behind \cup {q \in rows : Rank(q) = n}
                <5>1. r \in stayed' /\ r \notin seen /\ Rank(r)' <= Passed
                    BY <3>2, <3>3, <4>2 DEF Behind
                <5>2. r \in stayed \ seen /\ r \in rows
                    BY <3>1, <3>4, <5>1
                <5>3. Rank(r) <= Passed \/ Rank(r) = n
                    BY <3>3, <3>5, <4>1, <5>1
                <5>4. QED  BY <5>2, <5>3 DEF Behind
            <4>3. /\ Cardinality(Behind) \in Nat /\ Cardinality(Behind') \in Nat
                  /\ Cardinality(Behind') <= Cardinality(Behind) + 1
                BY <2>0, <4>2, OneMore
            <4>4. Cardinality(Behind) <= removed
                BY <3>6 DEF WalkInv
            <4>5. QED  BY <3>4, <4>3, <4>4
        <3>7. ASSUME pc = "counted" PROVE Cardinality(Beyond(total))' <= Moved
            <4>1. ASSUME NEW r \in Beyond(total)' PROVE r \in Beyond(total)
                <5>1. r \in stayed' /\ Rank(r)' > total
                    BY <3>2, <4>1 DEF Beyond
                <5>2. r \in stayed /\ Rank(r) > total
                    BY <3>1, <3>4, <3>5, <5>1
                <5>3. QED  BY <5>2 DEF Beyond
            <4>2. /\ Cardinality(Beyond(total)') <= Cardinality(Beyond(total))
                  /\ Cardinality(Beyond(total)') \in Nat /\ Cardinality(Beyond(total)) \in Nat
                BY <2>0, <4>1, SubsetsCount
            <4>3. Cardinality(Beyond(total)) <= Moved /\ Moved \in Nat
                BY <3>7 DEF WalkInv, Moved
            <4>4. QED  BY <4>2, <4>3
        <3>8. WalkMissesOnlyMoved'
            <4> SUFFICES ASSUME pc = "done"
                         PROVE  Cardinality(stayed' \ seen) <=
                            removed + 1 + IF ends = "total_pages" /\ list = "audit" THEN torn ELSE 0
                BY <3>2 DEF WalkMissesOnlyMoved
            <4>1. PICK m \in Nat : m = IF ends = "total_pages" /\ list = "audit" THEN torn ELSE 0
                BY DEF WalkInv
            <4>2. Cardinality(stayed \ seen) <= removed + m
                BY <4>1 DEF WalkInv, WalkMissesOnlyMoved
            <4>3. stayed' \ seen \subseteq stayed \ seen /\ stayed \ seen \subseteq rows
                BY <3>1, <3>4
            <4>4. /\ Cardinality(stayed' \ seen) <= Cardinality(stayed \ seen)
                  /\ Cardinality(stayed' \ seen) \in Nat /\ Cardinality(stayed \ seen) \in Nat
                BY <4>3, SubsetsCount
            <4>5. Cardinality(stayed' \ seen) <= removed + 1 + m
                BY <3>4, <4>2, <4>4
            <4>6. QED  BY <4>1, <4>5
        <3>9. stayed' \subseteq rows' /\ removed' \in Nat /\ Moved' = Moved
            BY <3>1, <3>2, <3>4 DEF Moved
        <3>10. (pc # "done" => Cardinality(Behind) <= removed)'
            BY <3>2, <3>6
        <3>11. (pc = "counted" => Cardinality(Beyond(total)) <= Moved)'
            BY <3>2, <3>7, <3>9
        <3>12. (pc # "done" => Passed <= MaxRows)'
            BY <3>2, <3>3 DEF WalkInv
        <3>13. QED  BY <3>2, <3>8, <3>9, <3>10, <3>11, <3>12 DEF WalkInv
    <2>3. CASE ListMemory
        <3>1. Cardinality(rows) \in 0 .. MaxRows
            BY RowsAreFew DEF RowsOK
        <3>2. Cardinality(Beyond(Cardinality(rows))) <= Moved
            BY NoneBeyond DEF Moved, WalkInv
        <3>3. QED  BY <2>3, <3>1, <3>2, AnswerKeepsWalk DEF ListMemory
    <2>4. CASE Count
        <3>1. Cardinality(rows) \in 0 .. MaxRows
            BY RowsAreFew DEF RowsOK
        <3>2. /\ pc = "asking" /\ pc' = "counted" /\ total' = Cardinality(rows) /\ torn' = 0
              /\ UNCHANGED <<list, rows, asked, ends, page, seen, stayed, removed>>
            BY <2>4 DEF Count
        <3>3. Passed' = Passed /\ \A r : Rank(r)' = Rank(r)
            BY <3>2 DEF Passed, Size, Rank
        <3>4. Behind' = Behind
            BY <3>2, <3>3 DEF Behind
        <3>5. Beyond(total)' = Beyond(Cardinality(rows))
            BY <3>2, <3>3 DEF Beyond
        <3>6. Cardinality(Beyond(total))' <= Moved'
            <4>1. Moved' = 0
                BY <3>2 DEF Moved
            <4>2. QED  BY <3>5, <4>1, NoneBeyond
        <3>7. WalkMissesOnlyMoved'
            BY <3>2 DEF WalkMissesOnlyMoved
        <3>8. QED  BY <3>1, <3>2, <3>3, <3>4, <3>6, <3>7 DEF WalkInv
    <2>5. CASE Select
        <3>1. total \in 0 .. MaxRows /\ pc # "done" /\ Cardinality(Beyond(total)) <= Moved
            BY <2>5 DEF Select, WalkInv
        <3>2. QED  BY <2>5, <3>1, AnswerKeepsWalk DEF Select
    <2>6. CASE UNCHANGED vars
        <3>1. Passed' = Passed /\ Moved' = Moved /\ \A r : Rank(r)' = Rank(r)
            BY <2>6 DEF vars, Passed, Size, Rank, Moved
        <3>2. Behind' = Behind /\ Beyond(total)' = Beyond(total)
            BY <2>6, <3>1 DEF vars, Behind, Beyond
        <3>3. QED  BY <2>6, <3>1, <3>2 DEF vars, WalkInv, WalkMissesOnlyMoved
    <2>7. QED  BY <2>1, <2>2, <2>3, <2>4, <2>5, <2>6 DEF Next
<1>3. QED  BY <1>1, <1>2, RowsInvMeans, RowsInvariant, PTL DEF Spec

\* Whichever way a reader knows the end, in both stores and for every page size,
\* it misses no more rows than were deleted meanwhile, and in the audit log, if it
\* trusts total_pages, than were inserted after the last COUNT as well.
THEOREM WalkMissesFew == Spec => []WalkMissesOnlyMoved
<1>1. WalkInv => WalkMissesOnlyMoved
    BY DEF WalkInv
<1>2. QED  BY <1>1, WalkInvariant, PTL
=============================================================================
