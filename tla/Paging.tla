------------------------------- MODULE Paging -------------------------------
(***************************************************************************)
(* The paged lists of the admin endpoints: pageParams and the store        *)
(* normalise what the client asks for, the store answers a slice of the    *)
(* rows by id and their number, and newPagedResponse adds the number of    *)
(* pages.  The audit log is listed newest first and only grows.  Nothing   *)
(* is held between the pages; Oracle holds nothing between COUNT and       *)
(* SELECT either.  A reader walks through the pages meanwhile.             *)
(*                                                                         *)
(* An operator named Faulty... is a wrong version of the definition after  *)
(* it, kept to show that the properties notice it; nothing uses it.        *)
(***************************************************************************)
EXTENDS Integers, Sequences, SequencesExt, FiniteSetsExt

CONSTANTS
    Half,         \* int is -Half .. Half - 1, 2^63 in the code
    DefaultSize,  \* 20
    MaxSize,      \* 100
    MaxRows,      \* bound on the rows ever inserted
    AskedSizes    \* the page sizes the reader may ask for

\* No list is so long that the end of a page of it is no int.
ASSUME PagingAssumption ==
    /\ Half \in Nat /\ MaxRows \in Nat /\ MaxSize \in Nat
    /\ MaxRows + MaxSize < Half
    /\ DefaultSize \in 1 .. MaxSize
    /\ AskedSizes \subseteq Int

VARIABLES
    list,     \* what is listed: "partners" (or routes, or policies) or "audit"
    store,    \* "memory" or "oracle"
    rows,     \* the ids that are there
    nextId,
    asked,    \* the page size the reader asks for
    ends,     \* how the reader knows the last page: "short" or "total_pages"
    pc,       \* the reader's request: "asking", "counted" or "done"
    page,     \* the page it asks for
    total,    \* the count Oracle gave
    seen,     \* the ids the reader was given
    stayed,   \* history: the rows that were there since the reader began
    removed,  \* history: number of rows deleted since then
    torn      \* history: number of rows inserted between the last COUNT and its
              \* SELECT

vars == <<list, store, rows, nextId, asked, ends, pc, page, total, seen, stayed, removed, torn>>

-----------------------------------------------------------------------------
(* The slice *)

\* The value of an int after an overflow.
Wrap(n) == ((n + Half) % (2 * Half)) - Half

FaultyNormalPage(p) == IF p < 0 THEN 1 ELSE p
NormalPage(p) == IF p < 1 THEN 1 ELSE p
NormalSize(s) == IF s < 1 THEN DefaultSize ELSE IF s > MaxSize THEN MaxSize ELSE s

Start(p, s) == Wrap((NormalPage(p) - 1) * NormalSize(s))

\* ORDER BY id, or id DESC.
Rank(r) == Cardinality({q \in rows : IF list = "audit" THEN q >= r ELSE q <= r})
Sorted == [i \in 1 .. Cardinality(rows) |-> CHOOSE r \in rows : Rank(r) = i]

\* Oracle takes a negative OFFSET for 0.
Offset(p, s) == IF store = "oracle" /\ Start(p, s) < 0 THEN 0 ELSE Start(p, s)

\* A slice with a negative bound panics.
Panic == <<"panic">>
Paginate(all, p, s) ==
    IF Offset(p, s) < 0 THEN Panic
    ELSE SubSeq(all, Offset(p, s) + 1, Min({Offset(p, s) + NormalSize(s), Len(all)}))

\* newPagedResponse
FaultyTotalPages(n, s) == n \div s
TotalPages(n, s) == (n + s - 1) \div s

-----------------------------------------------------------------------------
(* The reader and the writers *)

Init ==
    /\ list \in {"partners", "audit"} /\ store \in {"memory", "oracle"}
    /\ nextId \in 1 .. MaxRows
    /\ rows = 1 .. nextId - 1
    /\ asked \in AskedSizes /\ ends \in {"short", "total_pages"}
    /\ pc = "asking" /\ page = 1 /\ total = 0
    /\ seen = {} /\ stayed = rows /\ removed = 0 /\ torn = 0

Insert ==
    /\ nextId <= MaxRows
    /\ rows' = rows \cup {nextId}
    /\ nextId' = nextId + 1
    /\ torn' = IF pc = "counted" THEN torn + 1 ELSE torn
    /\ UNCHANGED <<list, store, asked, ends, pc, page, total, seen, stayed, removed>>

\* No audit record is ever deleted.
Delete ==
    /\ list # "audit"
    /\ \E r \in rows : rows' = rows \ {r} /\ stayed' = stayed \ {r}
    /\ removed' = removed + 1
    /\ UNCHANGED <<list, store, nextId, asked, ends, pc, page, total, seen, torn>>

\* The answer to a page, and whether the reader takes it for the last.
Answer(count) ==
    LET size == NormalSize(asked)
        given == Paginate(Sorted, page, size)
        last == IF ends = "short" THEN Len(given) < size ELSE page >= TotalPages(count, size)
    IN  /\ seen' = seen \cup ToSet(given)
        /\ pc' = IF last THEN "done" ELSE "asking"
        /\ page' = page + 1

\* Under the lock of the in-memory store.
ListMemory ==
    /\ pc = "asking" /\ store = "memory"
    /\ Answer(Cardinality(rows))
    /\ UNCHANGED <<list, store, rows, nextId, asked, ends, total, stayed, removed, torn>>

Count ==
    /\ pc = "asking" /\ store = "oracle"
    /\ pc' = "counted"
    /\ total' = Cardinality(rows) /\ torn' = 0
    /\ UNCHANGED <<list, store, rows, nextId, asked, ends, page, seen, stayed, removed>>

Select ==
    /\ pc = "counted"
    /\ Answer(total)
    /\ UNCHANGED <<list, store, rows, nextId, asked, ends, total, stayed, removed, torn>>

Next == Insert \/ Delete \/ ListMemory \/ Count \/ Select

Spec == Init /\ [][Next]_vars

-----------------------------------------------------------------------------
(* Properties *)

\* The page of a row depends on nothing but its rank: for any page and size a
\* client may ask for, the slice has the rows of the ranks of that page, and
\* only a page so far that its first rank is no int panics or is another page.
EveryRowOnItsPage ==
    \E all \in {Sorted}, rank \in {[r \in rows |-> Rank(r)]} :
        \A p, s \in -Half .. Half - 1 :
            LET size == NormalSize(s)
                before == IF p < 1 THEN 0 ELSE (p - 1) * size
            IN  before < Half =>
                    ToSet(Paginate(all, p, s)) = {r \in rows : rank[r] \in before + 1 .. before + size}

\* Of the rows that are there all the while a reader that walks through the pages
\* misses at most one for each row deleted meanwhile, and none for the rows that
\* are inserted between the pages or between COUNT and SELECT.  Only a reader of the
\* audit log who trusts total_pages misses more: at most one for each record
\* inserted after the last COUNT, for it moved the others towards the end.
WalkMissesOnlyMoved ==
    pc = "done" =>
        Cardinality(stayed \ seen) <=
            removed + IF ends = "total_pages" /\ list = "audit" THEN torn ELSE 0

=============================================================================
