------------------------------ MODULE Listing -------------------------------
(***************************************************************************)
(* Any one of the tables that are read in pages, by any one of the columns *)
(* it may be ordered by: rows come, change and go, as a model's create,    *)
(* update and delete make them, and whoever lists the table may ask for    *)
(* pages of any size and number.  A row that something else still needs    *)
(* (ON DELETE RESTRICT) is one that no Delete is of.                       *)
(***************************************************************************)
EXTENDS Paging

CONSTANTS
    Keys,        \* what a column may hold: numbers, and Null
    Absent,      \* no row
    MaxListed    \* bound on ids

(* Rows are counted in an i64, and half of what one can count is more rows *)
(* than fit anywhere: beyond that total_pages would be cut short.          *)
ListingAssumption ==
    /\ Keys \subseteq Int \cup {Null} /\ Absent \notin Keys
    /\ MaxListed \in Nat /\ 2 * MaxListed <= Top
ASSUME ListingAssumption

VARIABLES
    sheet,    \* the table
    column,    \* the column it is ordered by
    cells      \* what each row has there

listing == <<sheet, column, cells>>

Ids == 1..MaxListed
TakenIds == {i \in Ids : cells[i] # Absent}

(* INTEGER PRIMARY KEY: one more than the largest there is.                *)
NextId == Max({0} \cup TakenIds) + 1

(* NOT NULL, UNIQUE and, for the id, what it is.                           *)
Fits(i, key) ==
    /\ column = "id" => key = i
    /\ key = Null => column \in sheet.nullable
    /\ column \in sheet.unique =>
          \A j \in TakenIds \ {i} :
             Collated(sheet, column, cells[j]) # Collated(sheet, column, key)

----------------------------------------------------------------------------

ListingInit ==
    /\ sheet \in Tables
    /\ column \in sheet.orderable
    /\ cells = [i \in Ids |-> Absent]

Create(key) ==
    /\ NextId \in Ids /\ Fits(NextId, key)
    /\ cells' = [cells EXCEPT ![NextId] = key]
    /\ UNCHANGED <<sheet, column>>

Update(i, key) ==
    /\ i \in TakenIds /\ Fits(i, key)
    /\ cells' = [cells EXCEPT ![i] = key]
    /\ UNCHANGED <<sheet, column>>

Delete(i) ==
    /\ i \in TakenIds
    /\ cells' = [cells EXCEPT ![i] = Absent]
    /\ UNCHANGED <<sheet, column>>

ListingNext ==
    \/ \E key \in Keys : Create(key) \/ \E i \in Ids : Update(i, key)
    \/ \E i \in Ids : Delete(i)

ListingSpec == ListingInit /\ [][ListingNext]_listing

----------------------------------------------------------------------------
(* What a listing answers.                                                 *)

TableRows == {[id |-> i, key |-> Collated(sheet, column, cells[i])] : i \in TakenIds}

Page(number, size, rows) ==
    LET asked == [number |-> number, size |-> size]
    IN PageOf(asked, Fetched(rows, asked), Len(rows))

(* Up to the last page, and no further, there is more.                     *)
EndsAt(last, size, rows) ==
    \A n \in 1..Top : LET page == Page(n, size, rows)
                      IN /\ page.has_more <=> n < last
                         /\ n > last => page.items = <<>>

(* What is met where on the pages up to the last.                          *)
PlacesOn(n, items) == {[page |-> n, at |-> i, row |-> items[i]] : i \in DOMAIN items}
MetOn(last, size, rows) ==
    UNION {PlacesOn(n, Page(n, size, rows).items) : n \in 1..last}
Earlier(p, q) == p.page < q.page \/ (p.page = q.page /\ p.at < q.at)

(* It is every row of the table, each before those it comes before.        *)
MeetsAll(places, ascending) ==
    /\ {p.row : p \in places} = TableRows
    /\ \A p, q \in places : Earlier(p, q) => ComesBefore(p.row, q.row, ascending)

(* "Walking has_more must terminate, land on total_pages, and cover every  *)
(* row" (walking_pages_covers_every_row), exactly once and in order, in    *)
(* any table by any of its columns and in pages of any size, a size nobody *)
(* can mean included: no such page is the whole table.                     *)
WalkMeetsEveryRow ==
    \A ascending \in BOOLEAN :
       LET rows == Ordered(TableRows, ascending)
       IN \A size \in I64 :
             LET first == Page(1, size, rows)
             IN IF size <= 0
                THEN first.items = <<>> /\ (first.has_more <=> TableRows # {})
                ELSE \E last \in 1..Top :
                        /\ EndsAt(last, size, rows)
                        /\ MeetsAll(MetOn(last, size, rows), ascending)
                        /\ TableRows # {} => first.total_pages = last
                        /\ Page(-Top - 1, size, rows) = first

=============================================================================
