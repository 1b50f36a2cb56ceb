-------------------------- MODULE ShoppingHistory ---------------------------
(***************************************************************************)
(* What must be remembered of the past to say that what is said is listed, *)
(* lands where a phone foresaw, and what is filed is learned: whether      *)
(* anybody else wrote while a request was under way, what became of the    *)
(* row it had in hand, what there was when a line was said; which rows     *)
(* nobody touched while a page was being read; and whether an import had   *)
(* its list to itself from the start.                                      *)
(***************************************************************************)
EXTENDS Shopping

VARIABLES
    alone,     \* alone[c]: nobody else has written since the request arrived
    listed,    \* listed[c]: for a line said, it has been on the list, wanted, since then
    strayed,   \* strayed[c]: the row to put back was renamed, or its id given to another
    found,     \* found[c]: for a line said, the rows as they were then
    foretold,  \* foretold[c]: what a phone that knew everything then would do with the line
    said,      \* the lines said since anything else was written, if remembered
    again,     \* again[c]: c says one of them
    steady,    \* steady[c]: for a page, the rows nobody has touched since it was asked for
    calm,      \* calm[c]: nor the aisles and their orders
    made       \* made[c]: it is an import, into a list that had no row then

shopHistory == <<alone, listed, strayed, found, foretold, said, again, steady, calm, made>>

Arrives(c) == ~Busy(c) /\ work'[c].plan # <<>>
Acts(c) == work'[c] # work[c]
Completes(c) == Busy(c) /\ ~Busy(c)' /\ Step(c)
Saying(c) == Busy(c) /\ Ask(c).deed = "say"
Filing(c) == Busy(c) /\ Ask(c).deed \in {"file", "unfile"}
Showing(c) == Busy(c) /\ Ask(c).deed = "board"
Remembers(c) == Key(Parse(Ask(c).line).name) \in DOMAIN history'

(* The row of a line said, wanted.                                            *)
Wanted(c) == Saying(c) /\ \E i \in Listed :
                ~items[i].done /\ Key(items[i].name) = Key(Parse(Ask(c).line).name)

Strays(c) ==
    LET i == work[c].row IN
    /\ At(c, "put_back") /\ Present(i)'
    /\ Present(i) => Key(items'[i].name) # Key(items[i].name)

ShoppingHistoryInit ==
    /\ Init
    /\ alone = [c \in Callers |-> TRUE]
    /\ listed = [c \in Callers |-> FALSE]
    /\ strayed = [c \in Callers |-> FALSE]
    /\ found = [c \in Callers |-> None]
    /\ foretold = [c \in Callers |-> None]
    /\ said = {}
    /\ again = [c \in Callers |-> FALSE]
    /\ steady = [c \in Callers |-> {}]
    /\ calm = [c \in Callers |-> TRUE]
    /\ made = [c \in Callers |-> FALSE]

RememberShopping ==
    /\ alone' = [c \in Callers |->
          Arrives(c) \/ ~Busy(c)' \/ (alone[c] /\ (tables' = tables \/ Acts(c)))]
    /\ listed' = [c \in Callers |-> Wanted(c)' \/ (Busy(c)' /\ listed[c])]
    /\ strayed' = [c \in Callers |-> Busy(c)' /\ (strayed[c] \/ Strays(c))]
    /\ found' = [c \in Callers |->
          IF Arrives(c) /\ Saying(c)' THEN RowsNow
          ELSE IF Busy(c)' THEN found[c] ELSE None]
    /\ foretold' = [c \in Callers |->
          IF Arrives(c) /\ Saying(c)' THEN Resolve(Ask(c)'.line, RowsNow, history)
          ELSE IF Busy(c)' THEN foretold[c] ELSE None]
    /\ said' = {Ask(c).line : c \in {e \in Callers : /\ Saying(e) /\ Completes(e)
                                                    /\ alone[e] /\ Remembers(e)}}
               \cup (IF tables' = tables THEN said ELSE {})
    /\ again' = [c \in Callers |->
          IF Arrives(c) THEN Saying(c)' /\ Ask(c)'.line \in said
          ELSE Busy(c)' /\ again[c]]
    /\ steady' = [c \in Callers |->
          IF Arrives(c) /\ Showing(c)' THEN Listed
          ELSE IF Busy(c)' THEN {i \in steady[c] : items'[i] = items[i]} ELSE {}]
    /\ calm' = [c \in Callers |->
          ~Showing(c) \/ ~Busy(c)' \/ (calm[c] /\ orders' = orders /\ shelf' = shelf)]
    /\ made' = [c \in Callers |->
          IF Arrives(c) THEN Ask(c)'.cache # <<>> /\ Listed = {} ELSE Busy(c)' /\ made[c]]

ShoppingHistorySpec ==
    ShoppingHistoryInit /\ [][Next /\ RememberShopping]_<<vars, shopHistory>>

----------------------------------------------------------------------------

(* What somebody says and is told was added has been on the list since they   *)
(* said it, wanted, whoever else was writing (items::create), unless the row  *)
(* that was to be put back was renamed, or deleted and its id given to        *)
(* another, before it was.                                                    *)
WhatIsSaidIsListed ==
    [][\A c \in Callers : Saying(c) /\ Completes(c) /\ ~At(c, "put_back") /\ ~strayed[c] =>
          listed[c]]_<<vars, shopHistory>>

(* Where a line lands, by what a phone decided on the rows it had; and what   *)
(* there is of it when the request ends, but for the aisles of a row that was *)
(* there.                                                                     *)
Unfiled(row) == [row EXCEPT !.tags = {}]
Landed(rows, told) ==
    [i \in DOMAIN rows |-> IF i = told.row
                           THEN [rows[i] EXCEPT !.done = @ /\ ~told.put_back] ELSE rows[i]]

AsForetold(c, rows, told) ==
    IF "row" \in DOMAIN told
    THEN [i \in Listed' |-> Unfiled(items'[i])] =
            [i \in DOMAIN rows |-> Unfiled(Landed(rows, told)[i])]
    ELSE \E i \in RowIds \ DOMAIN rows :
            RowsNow' = [j \in DOMAIN rows \cup {i} |->
                          IF j # i THEN rows[j]
                          ELSE IF Remembers(c) THEN told ELSE Unfiled(told)]

(* A phone that has the rows and the memory decides what the server decides   *)
(* (add::resolve; "both have the same inputs and cannot disagree",            *)
(* items::remembered): with nobody else writing meanwhile, the row the server *)
(* then has is the one foretold, save for the aisles of a row that was there, *)
(* and of one whose name was forgotten, over those used more, before it was   *)
(* filed.                                                                     *)
ForetoldByThePhone ==
    [][\A c \in Callers : Saying(c) /\ Completes(c) /\ alone[c] =>
          AsForetold(c, found[c], foretold[c])]_<<vars, shopHistory>>

(* "Adding something the list already wants changes nothing" and is "safe to  *)
(* replay" (items::create): a line said a second time, nothing having         *)
(* changed in between and the name not being forgotten over those used more,  *)
(* leaves every row as the first time left it.                                *)
SayingItTwiceIsSayingItOnce ==
    [][\A c \in Callers : Saying(c) /\ Completes(c) /\ alone[c] /\ again[c] =>
          RowsNow' = found[c]]_<<vars, shopHistory>>

(* Filing and unfiling teach: with nobody else writing meanwhile, the memory  *)
(* of a name that is remembered ends as all its row is filed under            *)
(* (tags::remember).                                                          *)
FilingIsLearned ==
    [][\A c \in Callers : Filing(c) /\ At(c, "remember") /\ Completes(c) /\ alone[c] =>
          LET row == items[Ask(c).row] IN
          Key(row.name) \in DOMAIN history' => history'[Key(row.name)].tags = row.tags
      ]_<<vars, shopHistory>>

(* "An item sits under the first of its tags in this order": a row nobody     *)
(* touched while the page was being read is on it, under Other only if it has *)
(* no aisle; and, the aisles and their orders being left alone, under the     *)
(* first of its aisles in the reader's own order or, failing that, in the one *)
(* inherited, behind those it places in the order of the shop.                *)
Chosen(p) == IF orders[p].tags # <<>> THEN orders[p].tags ELSE Inherited

Precedes(walk, s, t) ==
    LET place(r) == CHOOSE i \in DOMAIN walk : walk[i] = r
    IN CASE s \in ToSet(walk) /\ t \in ToSet(walk) -> place(s) < place(t)
         [] s \in ToSet(walk) /\ t \notin ToSet(walk) -> TRUE
         [] s \notin ToSet(walk) /\ t \in ToSet(walk) -> FALSE
         [] OTHER -> Nearer(s, t)

BoardShowsWhatStayed ==
    \A c \in Callers : At(c, "show") =>
        \A i \in steady[c] : ~items[i].done =>
            /\ i \in work[c].page
            /\ IF items[i].tags = {} THEN Heading(c, i) = None
               ELSE /\ Heading(c, i) \in items[i].tags
                    /\ calm[c] => \A t \in items[i].tags \ {Heading(c, i)} :
                                     Precedes(Chosen(Ask(c).by), Heading(c, i), t)

(* Rows a device held that say the same in the same unit become one, called   *)
(* what the first was and as much of it, crossed off if the last was, and     *)
(* filed under the aisles of all.  Of the first m rows, the k-th among them:  *)
SameRow(a, b) ==
    Key(a.name) = Key(b.name) /\ MeasuredOrCounted(a.unit) = MeasuredOrCounted(b.unit)
Twins(cache, k, m) == {j \in 1..m : SameRow(cache[j], cache[k])}
BroughtAs(cache, k, m, aisles) ==
    LET twins == Twins(cache, k, m)
        first == cache[Min(twins)]
    IN [name |-> Capitalised(first.name), amount |-> first.amount,
        unit |-> MeasuredOrCounted(first.unit), done |-> cache[Max(twins)].done,
        tags |-> (UNION {ToSet(cache[j].tags) : j \in twins}) \cap aisles]

(* What a device held before it had a server of its own is all there after    *)
(* it is brought over (embedded Local::import, "Everything a device held")    *)
(* into the list made for it, and nothing else is: each row once, with its    *)
(* amount, filed under those of its aisles there are, and crossed off if it   *)
(* was; those that say the same in the same unit as one.                      *)
ImportKeepsEverything ==
    [][\A c \in Callers : Completes(c) /\ alone[c] /\ made[c] =>
          LET cache == Ask(c).cache
              n == Len(cache)
          IN /\ {items'[i] : i \in Listed'} = {BroughtAs(cache, k, n, Aisles) : k \in 1..n}
             /\ \A i, j \in Listed' :
                   Key(items'[i].name) = Key(items'[j].name) /\ items'[i].unit = items'[j].unit
                      => i = j
      ]_<<vars, shopHistory>>

=============================================================================
