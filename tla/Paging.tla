------------------------------- MODULE Paging -------------------------------
(***************************************************************************)
(* How every table is read a page at a time: models/common.rs, the query   *)
(* string of api/src/routes.rs, and the ORDER BY of each model's list.     *)
(*                                                                         *)
(* A row is its id and the column it is ordered by, a number or NULL.      *)
(* Integers are i64: Top stands for the largest.                           *)
(***************************************************************************)
EXTENDS Integers, Sequences, FiniteSets, SequencesExt, Sorting

CONSTANTS
    Top,       \* i64::MAX
    PageMax,   \* service::PAGE_MAX
    PageSize,  \* default_size
    Null       \* no value in a column

I64 == (-Top - 1)..Top

PagingAssumption ==
    /\ Top \in Nat /\ PageMax \in 1..Top /\ PageSize \in 1..PageMax
    /\ Null \notin Int
ASSUME PagingAssumption

----------------------------------------------------------------------------
(* How each table is listed: the columns it may be ordered by, those of    *)
(* them that may hold nothing, those compared COLLATE NOCASE, and those    *)
(* that no two rows may have the same in.                                  *)

ItemTable == [orderable |-> {"id", "name", "amount", "done_at", "created_at"},
              nullable |-> {"done_at"}, nocase |-> {}, unique |-> {}]
ListTable == [orderable |-> {"id", "name", "created_at", "updated_at"},
              nullable |-> {}, nocase |-> {}, unique |-> {}]
NoteTable == [orderable |-> {"id", "body", "created_at"},
              nullable |-> {}, nocase |-> {}, unique |-> {}]
TagTable == [orderable |-> {"id", "name", "colour", "emoji", "created_at", "sort_order"},
             nullable |-> {"colour", "emoji"}, nocase |-> {"name"}, unique |-> {"name"}]
UnitTable == [orderable |-> {"id", "name", "created_at"},
              nullable |-> {}, nocase |-> {"name"}, unique |-> {"name"}]
UserTable == [orderable |-> {"id", "sub", "email", "name", "created_at"},
              nullable |-> {"email", "name"}, nocase |-> {}, unique |-> {"sub"}]

Tables == {ItemTable, ListTable, NoteTable, TagTable, UnitTable, UserTable}

(* An odd name is the even one below it in capitals.                       *)
Collated(table, field, key) ==
    IF key # Null /\ field \in table.nocase THEN 2 * (key \div 2) ELSE key

(* Both branches of the CASE put NULLS LAST, and the id breaks ties.       *)
ComesBefore(a, b, ascending) ==
    \/ a.key # Null /\ b.key = Null
    \/ a.key # Null /\ b.key # Null /\ IF ascending THEN a.key < b.key ELSE a.key > b.key
    \/ a.key = b.key /\ a.id < b.id

Ordered(rows, ascending) ==
    InTurn(rows, {p \in rows \X rows : ComesBefore(p[1], p[2], ascending)})

----------------------------------------------------------------------------
(* One page (models/common.rs Paging).                                     *)

AtLeastNone(n) == IF n < 0 THEN 0 ELSE n
Saturated(n) == IF n > Top THEN Top ELSE n

PageLimit(page) == AtLeastNone(page.size)
OffsetFromZero(page) == Saturated(AtLeastNone(page.number) * PageLimit(page))
PageOffset(page) == Saturated(AtLeastNone(page.number - 1) * PageLimit(page))

Fetched(rows, page) ==
    SubSeq(rows, PageOffset(page) + 1,
           IF PageOffset(page) + PageLimit(page) < Len(rows)
           THEN PageOffset(page) + PageLimit(page) ELSE Len(rows))

(* page_of: the rows, and what it takes to walk the rest.                  *)
MoreWhileFull(page, items, total) == Len(items) = PageLimit(page)
MoreAfter(page, items, total) == Saturated(PageOffset(page) + Len(items)) < total

PageOf(page, items, total) ==
    [items |-> items, total |-> total,
     total_pages |-> IF PageLimit(page) = 0 THEN 0
                     ELSE Saturated(total + PageLimit(page) - 1) \div PageLimit(page),
     has_more |-> MoreAfter(page, items, total)]

(* PageQuery: what the query string asks for, bounded; and the one page a  *)
(* screen reads.                                                           *)
Bounded(size) == IF size > PageMax THEN PageMax ELSE AtLeastNone(size)
Queried(query) == [number |-> query.number, size |-> Bounded(query.size)]
FirstPage == [number |-> 1, size |-> PageSize]
Everything == [number |-> 1, size |-> PageMax]

=============================================================================
