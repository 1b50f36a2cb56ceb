------------------------------ MODULE Shopping ------------------------------
(***************************************************************************)
(* One list and everything that grows around it: its rows, the memory of   *)
(* what is bought on it, the aisles things are filed under and the order   *)
(* each person walks them in.  web/domain/src/service/items.rs and tags.rs *)
(* over models/item.rs, history.rs and tag.rs, with the rules of Reading.  *)
(*                                                                         *)
(* A request is a sequence of statements with those of others in between   *)
(* and no transaction around them, save for the two the models open (the   *)
(* filing of a remembered name, an order that is set); a dropped           *)
(* connection ends it anywhere.                                            *)
(*                                                                         *)
(* Modelled: rows under the ids SQLite gives them (a deleted one's is      *)
(* given again), memory with its upsert, its bound and its forgetting,     *)
(* aisles made and deleted with what cascades, orders set, inherited and   *)
(* cleared, the page that shows it all.                                    *)
(* Left out: who may (Membership, Admission), rows named by a device       *)
(* (SyncServer), who is told (Watching), lists other than this one, paging.*)
(***************************************************************************)
EXTENDS Reading, Sorting

CONSTANTS
    Callers,     \* requests that may be under way at once
    People,      \* those on the list, in the order of their ids
    MaxRows,     \* bound on row ids
    MaxTags,     \* bound on aisle ids
    MaxTime,     \* bound on the clock
    MaxEntries,  \* history::MAX_ENTRIES
    Pool,        \* how many memories a suggestion is chosen from
    Requests,    \* what callers may ask
    Stored       \* databases to start from

RowIds == 1..MaxRows
TagIds == 1..MaxTags
Moments == 0..MaxTime

Rows == [name: Names, amount: Nat \ {0}, unit: Maybe(Known), done: BOOLEAN,
         tags: SUBSET TagIds]
Entries == [display: Names, unit: Maybe(Known), amount: Maybe(Nat \ {0}), uses: Nat \ {0},
            last: Moments, tags: SUBSET TagIds]
Orders == [tags: Seq(TagIds), set: Moments]

(* What each front end can be asked for: the pages, the API, and the       *)
(* server inside an app, of rows and of aisles.                            *)
PageDeeds == {"say", "edit", "toggle", "drop", "sweep", "file", "unfile", "move",
              "set_order", "board", "aisles"}
ApiDeeds == {"say", "add", "edit", "tick", "drop", "sweep", "clear", "file", "unfile",
             "forget", "shelve", "raze", "set_order", "list", "aisles"}
AppRowDeeds == {"list", "say", "tick", "edit", "drop", "sweep"}
AppAisleDeeds == {"aisles", "set_order", "shelve", "raze", "file", "unfile"}
Deeds == PageDeeds \cup ApiDeeds \cup AppRowDeeds \cup AppAisleDeeds \cup {"import"}

(* A row of the cache a device kept before it had a server inside.         *)
Incoming == [name: Names, amount: Nat \ {0}, unit: Maybe(Known), done: BOOLEAN,
             tags: Seq(TagIds)]

(* What is asked, by whom, and the arguments: a line, or the columns of a  *)
(* row; a row, rows, an aisle or an order of aisles; a cache.  `done` says *)
(* whether a row is crossed off or an aisle moves up.                      *)
Asked == [by: People, deed: Deeds, line: Names, amount: Nat \ {0}, unit: Maybe(Known),
          row: RowIds, rows: SUBSET RowIds, done: BOOLEAN, tag: TagIds,
          walk: Seq(TagIds), cache: Seq(Incoming)]

(* A database a server may have written: its foreign keys and primary keys *)
(* hold, and a name is remembered under its key.                           *)
ShelvedIn(db) == {t \in TagIds : db.shelf[t] # None}
StoredWell(db) ==
    /\ db.items \in [RowIds -> Maybe(Rows)] /\ db.shelf \in [TagIds -> Maybe(Nat)]
    /\ \A i \in RowIds : db.items[i] # None => db.items[i].tags \subseteq ShelvedIn(db)
    /\ db.history \in [DOMAIN db.history -> Entries] /\ IsFiniteSet(DOMAIN db.history)
    /\ \A k \in DOMAIN db.history : /\ k = Key(db.history[k].display)
                                    /\ db.history[k].tags \subseteq ShelvedIn(db)
    /\ db.orders \in [People -> Orders]
    /\ \A p \in People : /\ db.orders[p].tags \in Seq(ShelvedIn(db))
                          /\ IsInjective(db.orders[p].tags)

VARIABLES
    items,    \* the rows of the list, each with its item_tags; None: no such row
    history,  \* item_history and item_history_tags, by key
    shelf,    \* the tags table: where an aisle is in the shop, None: no such aisle
    orders,   \* list_tag_order on this list, by person; no tags: none was set
    now,      \* unixepoch(), in half-lives
    work      \* work[c]: the request c has under way

tables == <<items, history, shelf, orders>>
vars == <<items, history, shelf, orders, now, work>>

ShoppingAssumption ==
    /\ People \subseteq Nat
    /\ MaxRows \in Nat /\ MaxTags \in Nat /\ MaxTime \in Nat /\ 0..MaxTime \subseteq DOMAIN Worth
    /\ MaxEntries \in Nat \ {0} /\ Pool \in Nat
    /\ Requests \subseteq Asked
    /\ \A asked \in Requests : asked.cache # <<>> => asked.deed = "import"
    /\ None \notin Rows /\ None \notin Entries /\ None \notin Nat /\ None \notin Requests
    /\ \A db \in Stored : StoredWell(db)
ASSUME ShoppingAssumption

----------------------------------------------------------------------------
(* Reading the tables.                                                     *)

Present(i) == items[i] # None
Listed == {i \in RowIds : Present(i)}
RowsNow == [i \in Listed |-> items[i]]
Aisles == {t \in TagIds : shelf[t] # None}

(* INTEGER PRIMARY KEY without AUTOINCREMENT.                              *)
NextAfter(used, k) == (\A m \in used : m < k) /\ (k > 1 => k - 1 \in used)

(* Tag::list by_shop: ORDER BY sort_order, id.                             *)
Nearer(s, t) == shelf[s] < shelf[t] \/ (shelf[s] = shelf[t] /\ s < t)
ByShop == InTurn(Aisles, {p \in Aisles \X Aisles : Nearer(p[1], p[2])})

(* Order::inherited: of those set here, the one that was earliest.         *)
Walkers == {p \in People : orders[p].tags # <<>>}
Inherited ==
    IF Walkers = {} THEN <<>>
    ELSE orders[CHOOSE p \in Walkers : \A q \in Walkers :
                   \/ orders[p].set < orders[q].set
                   \/ orders[p].set = orders[q].set /\ p <= q].tags

(* Entry::for_list: the most recently used, as many as were asked for.     *)
Recent(n) ==
    {read \in SUBSET DOMAIN history :
        /\ Cardinality(read) = (IF Cardinality(DOMAIN history) < n
                                THEN Cardinality(DOMAIN history) ELSE n)
        /\ \A k \in read, m \in DOMAIN history \ read : history[k].last >= history[m].last}

(* items::suggestions, shown in the spelling last used.                    *)
Candidate(k) == [name |-> history[k].display, uses |-> history[k].uses,
                 last |-> history[k].last]
Suggestions(typed) ==
    {Offer(typed, {Candidate(k) : k \in read}, now) : read \in Recent(Pool)}

----------------------------------------------------------------------------
(* Requests.                                                               *)

Steps == {"recall", "seek", "insert", "put_back", "record", "prune", "filed_before",
          "file_one", "look", "rewrite", "tick", "turn", "drop", "sweep", "clear", "forget",
          "attach", "detach", "held", "remember", "shelve", "raze", "own", "others", "all",
          "check", "lay", "rows", "filed", "show"}

(* row, name, amount and unit: the row in hand, as it was read, and        *)
(* crossed: what becomes of it.  left: aisles still to file it under, or   *)
(* those it was found to have.  walk: an order of aisles, checked: how far *)
(* it was found to exist.  page: the rows still wanted, as a page has read *)
(* them, and filed: what they were filed under.  next: what an import asks *)
(* after this of the row in hand, and later: the rows it has yet to bring. *)
NoWork == [asked |-> None, plan |-> <<>>, row |-> None, name |-> None, amount |-> 1,
           unit |-> None, crossed |-> FALSE, left |-> {}, walk |-> <<>>, checked |-> 0,
           page |-> {}, filed |-> <<>>, next |-> <<>>, later |-> <<>>]

Busy(c) == work[c].plan # <<>>
Ask(c) == work[c].asked
At(c, step) == Busy(c) /\ Head(work[c].plan) = step
Rest(c) == Tail(work[c].plan)

(* The statements of each request.  items.rs: create from the look-up of a *)
(* like row on, quick_add, update, set_done, toggle, delete, clear_done,   *)
(* forget; tags.rs: attach, detach, create, delete, order_for, set_order;  *)
(* the pages and lists made of these.                                      *)
CreatePlan == <<"seek", "record", "prune">>
SayPlan == <<"recall", "seek", "record", "prune", "filed_before", "file_one">>
EditPlan == <<"look", "rewrite", "record">>
TickPlan == <<"look", "tick">>
TogglePlan == <<"look", "turn", "tick">>
DropPlan == <<"look", "drop">>
SweepPlan == <<"sweep">>
ClearPlan == <<"clear">>
ForgetPlan == <<"forget">>
FilePlan == <<"look", "attach", "held", "remember">>
UnfilePlan == <<"look", "detach", "held", "remember">>
ShelvePlan == <<"shelve">>
RazePlan == <<"raze">>
SetOrderPlan == <<"check", "lay">>
MovePlan == <<"own", "all", "check", "lay">>
AislesPlan == <<"own", "all", "show">>
ListPlan == <<"rows", "filed", "show">>
BoardPlan == <<"rows", "filed", "own", "all", "show">>

PlanOf(deed) ==
    CASE deed = "say" -> SayPlan           [] deed = "add" -> CreatePlan
      [] deed = "edit" -> EditPlan         [] deed = "tick" -> TickPlan
      [] deed = "toggle" -> TogglePlan     [] deed = "drop" -> DropPlan
      [] deed = "sweep" -> SweepPlan       [] deed = "clear" -> ClearPlan
      [] deed = "forget" -> ForgetPlan     [] deed = "file" -> FilePlan
      [] deed = "unfile" -> UnfilePlan     [] deed = "shelve" -> ShelvePlan
      [] deed = "raze" -> RazePlan         [] deed = "set_order" -> SetOrderPlan
      [] deed = "move" -> MovePlan         [] deed = "aisles" -> AislesPlan
      [] deed = "list" -> ListPlan         [] deed = "board" -> BoardPlan

(* What a request brings with it is in hand from the start: `add` and      *)
(* `edit` the columns they give, an unmeasured one counted.                *)
MeasuredOrCounted(unit) == IF unit = None THEN Counted ELSE unit

Begin(asked, next, later) ==
    [NoWork EXCEPT !.asked = asked, !.plan = PlanOf(asked.deed), !.row = asked.row,
        !.name = asked.line, !.amount = asked.amount, !.unit = MeasuredOrCounted(asked.unit),
        !.crossed = asked.done, !.walk = asked.walk, !.next = next, !.later = later]

(* An import asks for each row it holds to be created, then filed under    *)
(* each of its aisles, then crossed off.                                   *)
Bringing(asked, row) ==
    <<[asked EXCEPT !.deed = "add", !.line = row.name, !.amount = row.amount,
           !.unit = row.unit]>>
    \o [k \in DOMAIN row.tags |-> [asked EXCEPT !.deed = "file", !.tag = row.tags[k]]]
    \o (IF row.done THEN <<[asked EXCEPT !.deed = "tick", !.done = TRUE]>> ELSE <<>>)
BringNext(asked, rows) ==
    IF rows = <<>> THEN NoWork
    ELSE Begin(Head(Bringing(asked, Head(rows))), Tail(Bringing(asked, Head(rows))), Tail(rows))

Starts(asked) ==
    IF asked.deed = "import" THEN BringNext(asked, asked.cache) ELSE Begin(asked, <<>>, <<>>)

Becomes(c, w) == work' = [work EXCEPT ![c] = w]
Continue(c) == Becomes(c, [work[c] EXCEPT !.plan = Rest(c)])

(* What an import asks next is about the row it has in hand; it passes     *)
(* over an aisle that cannot be had, and ends on anything else.            *)
Onward(w) ==
    IF w.next = <<>> THEN BringNext(w.asked, w.later)
    ELSE Begin([Head(w.next) EXCEPT !.row = w.row], Tail(w.next), w.later)
StopAtAnyError(w) == NoWork
AfterAnError(w) == IF w.asked.deed = "file" THEN Onward(w) ELSE NoWork

Finish(c) == Becomes(c, Onward(work[c]))
GiveUp(c) == Becomes(c, AfterAnError(work[c]))

Arrive(c) ==
    /\ ~Busy(c)
    /\ \E asked \in Requests : Becomes(c, Starts(asked))
    /\ UNCHANGED <<tables, now>>

(* Each of these is one statement and whatever is decided on what it read. *)
Only(c, w) == Becomes(c, w) /\ UNCHANGED <<tables, now>>

----------------------------------------------------------------------------
(* Adding (items::quick_add and create).                                   *)

(* Entry::get, by the name the line turned out to have.                    *)
EntryOfTheLine(line) == IF Key(line) \in DOMAIN history THEN history[Key(line)] ELSE None
EntryOf(line) ==
    LET k == Key(Parse(line).name) IN IF k \in DOMAIN history THEN history[k] ELSE None

(* What is remembered says what the line did not.                          *)
RecallEntry(c) ==
    LET reading == Parse(Ask(c).line)
        entry == EntryOf(Ask(c).line)
    IN
    /\ At(c, "recall")
    /\ Only(c, [work[c] EXCEPT !.plan = Rest(c), !.name = reading.name,
                   !.amount = AmountFor(reading, entry), !.unit = UnitFor(reading, entry)])

(* Item::alike.  What is there is not touched, what is crossed off comes   *)
(* back, and only what is not there is made.                               *)
Seek(c) ==
    LET like == Alike(RowsNow, work[c].name, work[c].unit)
        i == Pick(RowsNow, like)
    IN
    /\ At(c, "seek")
    /\ IF like = {} THEN Only(c, [work[c] EXCEPT !.plan = <<"insert">> \o Rest(c)])
       ELSE IF items[i].done
       THEN Only(c, [work[c] EXCEPT !.row = i, !.plan = <<"put_back">> \o Rest(c)])
       ELSE Only(c, [work[c] EXCEPT !.row = i, !.name = items[i].name,
                        !.amount = items[i].amount, !.plan = Rest(c)])

Insert(c) ==
    /\ At(c, "insert")
    /\ \E i \in RowIds :
        /\ NextAfter(Listed, i)
        /\ items' = [items EXCEPT ![i] = [name |-> Capitalised(work[c].name),
                         amount |-> work[c].amount, unit |-> work[c].unit,
                         done |-> FALSE, tags |-> {}]]
        /\ Becomes(c, [work[c] EXCEPT !.row = i, !.name = Capitalised(@), !.plan = Rest(c)])
    /\ UNCHANGED <<history, shelf, orders, now>>

(* Item::put_back, of whatever row has the id by now.                      *)
LeaveCrossedOff(row) == row
BackOnTheList(row) == [row EXCEPT !.done = FALSE]

PutBack(c) ==
    LET i == work[c].row IN
    /\ At(c, "put_back")
    /\ IF Present(i)
       THEN /\ items' = [items EXCEPT ![i] = BackOnTheList(@)]
            /\ Becomes(c, [work[c] EXCEPT !.name = items[i].name,
                              !.amount = items[i].amount, !.plan = Rest(c)])
       ELSE UNCHANGED items /\ GiveUp(c)
    /\ UNCHANGED <<history, shelf, orders, now>>

(* Entry::record: one statement, so that no use is lost.                   *)
Used(old, w) ==
    [display |-> w.name, unit |-> IF w.unit = None THEN old.unit ELSE w.unit,
     amount |-> w.amount, uses |-> old.uses + 1, last |-> now, tags |-> old.tags]
FirstUse(w) ==
    [display |-> w.name, unit |-> w.unit, amount |-> w.amount, uses |-> 1, last |-> now,
     tags |-> {}]

Record(c) ==
    LET w == work[c]
        k == Key(w.name)
    IN
    /\ At(c, "record")
    /\ history' = [m \in DOMAIN history \cup {k} |->
                     IF m # k THEN history[m]
                     ELSE IF k \in DOMAIN history THEN Used(history[k], w) ELSE FirstUse(w)]
    /\ IF Rest(c) = <<>> THEN Finish(c) ELSE Continue(c)
    /\ UNCHANGED <<items, shelf, orders, now>>

(* Entry::prune: those used least go, of them the ones used longest ago,   *)
(* and of those whichever.                                                 *)
Outranks(k, m) ==
    \/ history[k].uses > history[m].uses
    \/ history[k].uses = history[m].uses /\ history[k].last >= history[m].last

Prune(c) ==
    /\ At(c, "prune")
    /\ \E kept \in SUBSET DOMAIN history :
        /\ Cardinality(kept) = Min({MaxEntries, Cardinality(DOMAIN history)})
        /\ \A k \in kept, m \in DOMAIN history \ kept : Outranks(k, m)
        /\ history' = [k \in kept |-> history[k]]
    /\ IF Rest(c) = <<>> THEN Finish(c) ELSE Continue(c)
    /\ UNCHANGED <<items, shelf, orders, now>>

(* Entry::tags_for, by the name the line had: file it where it was filed.  *)
FiledBefore(c) ==
    LET entry == EntryOf(Ask(c).line)
        under == IF entry = None THEN {} ELSE entry.tags
    IN
    /\ At(c, "filed_before")
    /\ Only(c, IF under = {} THEN Onward(work[c]) ELSE [work[c] EXCEPT !.left = under, !.plan = Rest(c)])

(* Tag::attach, one after the other; what cannot be is passed over.        *)
MayAttach(i, t) == Present(i) /\ shelf[t] # None /\ t \notin items[i].tags
WithTag(i, t) == [items EXCEPT ![i].tags = @ \cup {t}]

FileOne(c) ==
    LET t == Min(work[c].left)
        i == work[c].row
    IN
    /\ At(c, "file_one")
    /\ items' = IF MayAttach(i, t) THEN WithTag(i, t) ELSE items
    /\ IF work[c].left = {t} THEN Finish(c)
       ELSE Becomes(c, [work[c] EXCEPT !.left = @ \ {t}])
    /\ UNCHANGED <<history, shelf, orders, now>>

----------------------------------------------------------------------------
(* Changing a row.                                                         *)

(* items::editable: the row is read, and what it is called is kept.        *)
Look(c) ==
    LET i == work[c].row IN
    /\ At(c, "look")
    /\ Only(c, IF ~Present(i) THEN AfterAnError(work[c])
               ELSE IF Ask(c).deed = "edit" THEN [work[c] EXCEPT !.plan = Rest(c)]
               ELSE [work[c] EXCEPT !.plan = Rest(c), !.name = items[i].name,
                        !.crossed = IF Ask(c).deed = "toggle" THEN ~items[i].done ELSE @])

(* Item::update; the correction is remembered, and nothing is forgotten.   *)
Rewrite(c) ==
    LET w == work[c] IN
    /\ At(c, "rewrite")
    /\ IF Present(w.row)
       THEN /\ items' = [items EXCEPT ![w.row].name = Capitalised(w.name),
                            ![w.row].amount = w.amount, ![w.row].unit = w.unit]
            /\ Becomes(c, [w EXCEPT !.name = Capitalised(@), !.plan = Rest(c)])
       ELSE UNCHANGED items /\ GiveUp(c)
    /\ UNCHANGED <<history, shelf, orders, now>>

(* Item::set_done, as was decided when the row was first looked at.        *)
CrossOff(c) ==
    LET i == work[c].row IN
    /\ At(c, "tick")
    /\ IF Present(i)
       THEN items' = [items EXCEPT ![i].done = work[c].crossed] /\ Finish(c)
       ELSE UNCHANGED items /\ GiveUp(c)
    /\ UNCHANGED <<history, shelf, orders, now>>

(* set_done looks the row up again.                                        *)
Turn(c) ==
    /\ At(c, "turn")
    /\ Only(c, IF Present(work[c].row) THEN [work[c] EXCEPT !.plan = Rest(c)]
               ELSE AfterAnError(work[c]))

Strike(rows) == [i \in RowIds |-> IF i \in rows THEN None ELSE items[i]]

Drop(c) ==
    /\ At(c, "drop") /\ Finish(c)
    /\ items' = Strike({work[c].row})
    /\ UNCHANGED <<history, shelf, orders, now>>

(* Item::delete_done.                                                      *)
CrossedOff == {i \in Listed : items[i].done}

Sweep(c) ==
    /\ At(c, "sweep") /\ Finish(c)
    /\ items' = Strike(CrossedOff)
    /\ UNCHANGED <<history, shelf, orders, now>>

(* Item::delete_done_among: of the rows named, those that are crossed off  *)
(* by now.                                                                 *)
Clear(c) ==
    /\ At(c, "clear") /\ Finish(c)
    /\ items' = Strike(Ask(c).rows \cap CrossedOff)
    /\ UNCHANGED <<history, shelf, orders, now>>

(* Entry::forget.                                                          *)
Forget(c) ==
    /\ At(c, "forget") /\ Finish(c)
    /\ history' = [k \in DOMAIN history \ {Key(Ask(c).line)} |-> history[k]]
    /\ UNCHANGED <<items, shelf, orders, now>>

----------------------------------------------------------------------------
(* Filing (tags.rs).                                                       *)

(* A row filed there already, or an aisle that is not there, is an error.  *)
Attach(c) ==
    LET i == work[c].row IN
    /\ At(c, "attach")
    /\ IF MayAttach(i, Ask(c).tag)
       THEN items' = WithTag(i, Ask(c).tag) /\ Continue(c)
       ELSE UNCHANGED items /\ GiveUp(c)
    /\ UNCHANGED <<history, shelf, orders, now>>

Detach(c) ==
    LET i == work[c].row IN
    /\ At(c, "detach")
    /\ IF Present(i) /\ Ask(c).tag \in items[i].tags
       THEN items' = [items EXCEPT ![i].tags = @ \ {Ask(c).tag}] /\ Continue(c)
       ELSE UNCHANGED items /\ GiveUp(c)
    /\ UNCHANGED <<history, shelf, orders, now>>

(* remember: all a row is filed under by now, not what was just attached.  *)
HeldIsTheTag(c) == {Ask(c).tag}
HeldByTheRow(c) == IF Present(work[c].row) THEN items[work[c].row].tags ELSE {}

Held(c) ==
    /\ At(c, "held")
    /\ Only(c, [work[c] EXCEPT !.left = HeldByTheRow(c), !.plan = Rest(c)])

(* Entry::remember_tags, under the name the row had when it was looked up; *)
(* a transaction, which a name or an aisle that has gone undoes.           *)
Remember(c) ==
    LET k == Key(work[c].name) IN
    /\ At(c, "remember") /\ Finish(c)
    /\ history' = IF k \in DOMAIN history /\ work[c].left \subseteq Aisles
                  THEN [history EXCEPT ![k].tags = work[c].left] ELSE history
    /\ UNCHANGED <<items, shelf, orders, now>>

(* Tag::create: sort_order is 0 by default, before the first in the shop.  *)
Shelve(c) ==
    /\ At(c, "shelve") /\ Finish(c)
    /\ \E t \in TagIds : NextAfter(Aisles, t) /\ shelf' = [shelf EXCEPT ![t] = 0]
    /\ UNCHANGED <<items, history, orders, now>>

WithoutAisle(walk, t) ==
    IF t \in ToSet(walk) THEN RemoveAt(walk, CHOOSE i \in DOMAIN walk : walk[i] = t) ELSE walk

(* Tag::delete, and with it every row of the three tables that names it.   *)
RazeOutOfSight(t) ==
    /\ shelf' = [shelf EXCEPT ![t] = None]
    /\ items' = [i \in RowIds |-> IF Present(i) THEN [items[i] EXCEPT !.tags = @ \ {t}]
                                  ELSE None]
    /\ orders' = [p \in People |-> [orders[p] EXCEPT !.tags = WithoutAisle(@, t)]]
    /\ UNCHANGED history

RazeAisle(t) ==
    /\ shelf' = [shelf EXCEPT ![t] = None]
    /\ items' = [i \in RowIds |-> IF Present(i) THEN [items[i] EXCEPT !.tags = @ \ {t}]
                                  ELSE None]
    /\ orders' = [p \in People |-> [orders[p] EXCEPT !.tags = WithoutAisle(@, t)]]
    /\ history' = [k \in DOMAIN history |-> [history[k] EXCEPT !.tags = @ \ {t}]]

Raze(c) ==
    /\ At(c, "raze") /\ Finish(c)
    /\ RazeAisle(Ask(c).tag)
    /\ UNCHANGED now

----------------------------------------------------------------------------
(* The order of the aisles (tags::order_for, set_order; pages/items.rs).   *)

(* One's own order; failing that, the one that was set here first.         *)
OwnOrder(c) ==
    LET own == orders[Ask(c).by].tags IN
    /\ At(c, "own")
    /\ Only(c, [work[c] EXCEPT !.walk = own,
                   !.plan = (IF own = <<>> THEN <<"others">> ELSE <<>>) \o Rest(c)])

Inherit(c) ==
    /\ At(c, "others")
    /\ Only(c, [work[c] EXCEPT !.walk = Inherited, !.plan = Rest(c)])

(* Then every aisle there is: those that were placed first, the others     *)
(* behind them in the order of the shop.                                   *)
OnlyWhatWasPlaced(chosen) == Keeping(chosen, Aisles)

WholeWalk(chosen) == Keeping(chosen, Aisles) \o Keeping(ByShop, Aisles \ ToSet(chosen))

(* move_tag: an aisle changes places with the one before or behind it.     *)
Swapped(walk, t, up) ==
    LET at == CHOOSE i \in DOMAIN walk : walk[i] = t
        to == IF up THEN at - 1 ELSE at + 1
    IN IF t \notin ToSet(walk) \/ to \notin DOMAIN walk THEN <<>>
       ELSE [walk EXCEPT ![at] = walk[to], ![to] = t]

AllAisles(c) ==
    LET walk == WholeWalk(work[c].walk)
        moved == Swapped(walk, Ask(c).tag, Ask(c).done)
    IN
    /\ At(c, "all")
    /\ Only(c, IF Ask(c).deed # "move" THEN [work[c] EXCEPT !.walk = walk, !.plan = Rest(c)]
               ELSE IF moved = <<>> THEN Onward(work[c])
               ELSE [work[c] EXCEPT !.walk = moved, !.plan = Rest(c)])

(* set_order asks for each of them by name, then writes them (Order::set). *)
Check(c) ==
    LET w == work[c] IN
    /\ At(c, "check")
    /\ Only(c, IF w.checked = Len(w.walk) THEN [w EXCEPT !.plan = Rest(c)]
               ELSE IF shelf[w.walk[w.checked + 1]] = None THEN AfterAnError(w)
               ELSE [w EXCEPT !.checked = @ + 1])

(* One transaction: an aisle that is given twice or has gone undoes it all. *)
Writable(walk) == walk \in Seq(Aisles) /\ IsInjective(walk)

LayWhatFits(p, walk) ==
    orders' = [orders EXCEPT ![p] = [tags |-> Keeping(walk, Aisles), set |-> now]]

LayWhole(p, walk) ==
    orders' = IF Writable(walk)
              THEN [orders EXCEPT ![p] = [tags |-> walk, set |-> now]] ELSE orders

Lay(c) ==
    /\ At(c, "lay") /\ Finish(c)
    /\ LayWhole(Ask(c).by, work[c].walk)
    /\ UNCHANGED <<items, history, shelf, now>>

----------------------------------------------------------------------------
(* The page of the list (pages/items.rs board and group_by_category).      *)

ReadRows(c) ==
    /\ At(c, "rows")
    /\ Only(c, [work[c] EXCEPT !.page = {i \in Listed : ~items[i].done}, !.plan = Rest(c)])

ReadFiled(c) ==
    /\ At(c, "filed")
    /\ Only(c, [work[c] EXCEPT !.filed = [i \in Listed |-> items[i].tags], !.plan = Rest(c)])

(* The heading a row is under: the first of its aisles in this order, or   *)
(* Other (None) where it has none of them.                                 *)
Heading(c, i) ==
    LET walk == work[c].walk
        under == IF i \in DOMAIN work[c].filed THEN work[c].filed[i] ELSE {}
        places == {at \in DOMAIN walk : walk[at] \in under}
    IN IF places = {} THEN None ELSE walk[Min(places)]

Show(c) ==
    /\ At(c, "show") /\ Finish(c)
    /\ UNCHANGED <<tables, now>>

----------------------------------------------------------------------------

Cut(c) ==
    /\ Busy(c)
    /\ Only(c, NoWork)

Step(c) ==
    \/ RecallEntry(c) \/ Seek(c) \/ Insert(c) \/ PutBack(c) \/ Record(c) \/ Prune(c)
    \/ FiledBefore(c) \/ FileOne(c)
    \/ Look(c) \/ Rewrite(c) \/ CrossOff(c) \/ Turn(c) \/ Drop(c) \/ Sweep(c)
    \/ Clear(c) \/ Forget(c)
    \/ Attach(c) \/ Detach(c) \/ Held(c) \/ Remember(c) \/ Shelve(c) \/ Raze(c)
    \/ OwnOrder(c) \/ Inherit(c) \/ AllAisles(c) \/ Check(c) \/ Lay(c)
    \/ ReadRows(c) \/ ReadFiled(c) \/ Show(c)

Tick ==
    /\ now < MaxTime /\ now' = now + 1
    /\ UNCHANGED <<tables, work>>

Init ==
    /\ \E db \in Stored :
          items = db.items /\ history = db.history /\ shelf = db.shelf /\ orders = db.orders
    /\ now = 0
    /\ work = [c \in Callers |-> NoWork]

Next ==
    \/ \E c \in Callers : Arrive(c) \/ Step(c) \/ Cut(c)
    \/ Tick

Spec == Init /\ [][Next]_vars

----------------------------------------------------------------------------
(* What must hold.                                                         *)

(* Type correctness: every row, memory and order is of the type its table  *)
(* says, under its own key, names only aisles there are and no aisle       *)
(* twice, whatever is deleted under a request.                             *)
ShoppingTypeOK ==
    /\ \A i \in Listed : items[i] \in Rows /\ items[i].tags \subseteq Aisles
    /\ \A k \in DOMAIN history :
          /\ history[k] \in Entries /\ history[k].tags \subseteq Aisles
          /\ k = Key(history[k].display)
    /\ shelf \in [TagIds -> Maybe(Nat)]
    /\ \A p \in People : orders[p] \in Orders /\ Writable(orders[p].tags)
    /\ now \in Moments
    /\ \A c \in Callers : ToSet(work[c].plan) \subseteq Steps

(* An order is set as a whole or not at all, by the person whose it is        *)
(* (Order::set), and otherwise only loses an aisle that is deleted.           *)
OrdersAreSetWhole ==
    [][\A p \in People : orders'[p] # orders[p] =>
          \/ \E c \in Callers : /\ work'[c] # work[c] /\ Ask(c).by = p
                               /\ orders'[p].tags = work[c].walk
          \/ \E t \in Aisles \ Aisles' : orders'[p].tags = WithoutAisle(orders[p].tags, t)
      ]_vars

=============================================================================
