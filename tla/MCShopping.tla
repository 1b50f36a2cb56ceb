----------------------------- MODULE MCShopping -----------------------------
(* A small instance of Shopping: Ann (1) and Bob (2) share a list; two        *)
(* requests at a time.  Each behaviour plays one scene: a line that is read,  *)
(* a memory that is offered, or a database and the requests that may arrive.  *)
EXTENDS Suggesting, NotesHistory, AddField, Listing

CONSTANTS c1, c2

Ann == 1
Bob == 2

MCTexts == {"milk", "Milk", "mint", "eggs", "fl", "oz", "pint", "unit"}
MCFold == [t \in MCTexts |-> IF t = "Milk" THEN "milk" ELSE t]
MCCapital == [t \in MCTexts |-> IF t = "milk" THEN "Milk" ELSE t]
MCSpelled == [t \in MCTexts |->
    CASE t = "milk" -> <<113, 109, 112, 111>>
      [] t = "Milk" -> <<81, 109, 112, 111>>
      [] t = "mint" -> <<113, 109, 114, 120>>
      [] t = "eggs" -> <<105, 107, 107, 119>>
      [] t = "fl" -> <<106, 112>>
      [] t = "oz" -> <<115, 126>>
      [] t = "pint" -> <<116, 109, 114, 120>>
      [] t = "unit" -> <<121, 114, 109, 120>>]

MCWorth == [age \in 0..MaxTime |-> 2 ^ (MaxTime - age)]

T(text) == [number |-> NoNumber, text |-> text]
N(number) == [number |-> number, text |-> NoText]
G(number, text) == [number |-> number, text |-> text]

Unit == <<"unit">>
Pint == <<"pint">>
FlOz == <<"fl", "oz">>
MCKnown == {Unit, Pint, FlOz, <<"fl">>}
MCBare == {Pint, FlOz}

Milk == <<T("milk")>>
Mint == <<T("mint")>>
Eggs == <<T("eggs")>>
MintMilk == <<T("mint"), T("milk")>>
PintMilk == <<T("pint"), T("Milk")>>
TwoMilk == <<T("milk"), N(2)>>

MCTypeable == {N(2), N(0), G(5, "fl"), T("milk"), T("Milk"), T("pint"), T("fl"), T("oz")}
MCOffered == {PintMilk, MintMilk}
MCQueries == {<<>>, <<113>>, <<113, 109>>, <<109, 111>>, <<112>>, Spelling(Milk)}

Blank == [by |-> Ann, deed |-> "board", line |-> Milk, amount |-> 1, unit |-> None,
          row |-> 1, rows |-> {}, done |-> TRUE, tag |-> 1, walk |-> <<>>, cache |-> <<>>]
By(p, deed) == [Blank EXCEPT !.by = p, !.deed = deed]
Says(p, line) == [By(p, "say") EXCEPT !.line = line]
Adds(p, line, unit) == [By(p, "add") EXCEPT !.line = line, !.unit = unit]
Edits(p, line, amount) == [By(p, "edit") EXCEPT !.line = line, !.amount = amount]
Ticks(p, done) == [By(p, "tick") EXCEPT !.done = done]
Files(p, t) == [By(p, "file") EXCEPT !.tag = t]
Unfiles(p, t) == [By(p, "unfile") EXCEPT !.tag = t]
Razes(t) == [By(Ann, "raze") EXCEPT !.tag = t]
Lays(p, walk) == [By(p, "set_order") EXCEPT !.walk = walk]
Clears(p, rows) == [By(p, "clear") EXCEPT !.rows = rows]
Moves(p, t, up) == [By(p, "move") EXCEPT !.tag = t, !.done = up]

Row(name, unit, done, tags) ==
    [name |-> Capitalised(name), amount |-> 1, unit |-> unit, done |-> done, tags |-> tags]
Entry(name, unit, uses, last, tags) ==
    Key(name) :> [display |-> Capitalised(name), unit |-> unit, amount |-> 3, uses |-> uses,
                  last |-> last, tags |-> tags]
Kept(name, unit, done, tags) ==
    [name |-> name, amount |-> 2, unit |-> unit, done |-> done, tags |-> tags]
Caches == {<<a, b>> : a \in {Kept(Milk, Pint, done, tags) : done \in BOOLEAN,
                                                    tags \in {<<1>>, <<2, 1>>, <<3, 2>>}},
                      b \in {Kept(Milk, None, TRUE, <<3>>), Kept(Eggs, None, FALSE, <<2>>)}}
          \* two that say the same, with another between
          \cup {<<Kept(Milk, Pint, done, <<1, 3>>), Kept(Milk, Unit, FALSE, <<>>),
                  [Kept(<<T("Milk")>>, Pint, ticked, <<2, 1>>) EXCEPT !.amount = 5]>> :
                    done \in BOOLEAN, ticked \in BOOLEAN}
Brings(p, cache) == [By(p, "import") EXCEPT !.cache = cache]
NoOrder == [tags |-> <<>>, set |-> 0]

(* The first rows of the list, what is remembered, and Ann's order.           *)
Db(rows, memory, walk) ==
    [items |-> [i \in RowIds |-> IF i \in DOMAIN rows THEN rows[i] ELSE None],
     history |-> memory,
     shelf |-> [t \in TagIds |-> IF t = 1 THEN 20 ELSE IF t = 2 THEN 10 ELSE None],
     orders |-> [p \in People |-> IF p = Ann THEN [tags |-> walk, set |-> 0]
                                  ELSE NoOrder]]

Bought(name) == {Entry(name, Unit, uses, last, {}) : uses \in {1, 2, 4}, last \in 0..1}
Memories == {a @@ b @@ c : a \in Bought(Milk), b \in Bought(Mint), c \in Bought(MintMilk)}

Nothing == <<>>
MilkInPints == Entry(Milk, Pint, 2, 0, {2})
Filed == <<Row(Milk, Pint, FALSE, {1})>>

Scene(name, db, asks, budget, clock) ==
    [name |-> name, db |-> db, asks |-> asks, budget |-> budget, clock |-> clock]

Scenes ==
    {Scene("reading", Db(Nothing, Nothing, <<>>), {}, 0, FALSE)}
    \cup {Scene("offer", Db(Nothing, memory, <<>>), {}, 0, TRUE) : memory \in Memories}
    \cup {
    \* the same thing said again and again, by two people, and crossed off between
    Scene("said", Db(Nothing, Nothing, <<>>),
          {Says(Ann, Milk), Says(Bob, PintMilk), By(Bob, "toggle"), By(Bob, "sweep")},
          3, FALSE),
    Scene("said", Db(<<Row(Milk, Pint, TRUE, {1})>>, MilkInPints, <<>>),
          {Says(Ann, Milk), Says(Bob, TwoMilk), By(Bob, "drop"), Ticks(Ann, FALSE),
           Adds(Bob, Milk, None), Clears(Bob, {1}), Edits(Bob, Eggs, 2)}, 3, FALSE),
    \* a memory that is full, or nearly
    Scene("full", Db(<<Row(Mint, Unit, FALSE, {})>>,
                     MilkInPints @@ Entry(Eggs, Unit, 2, 0, {}), <<>>),
          {Says(Ann, Milk), Says(Bob, Mint), Edits(Bob, Mint, 2)}, 3, TRUE),
    \* or overfull, as corrections leave it, of what is used more
    Scene("full", Db(Nothing, Entry(Milk, Pint, 1, 0, {2}) @@ Entry(Mint, Unit, 4, 0, {})
                                 @@ Entry(Eggs, Unit, 4, 0, {}), <<>>),
          {Says(Ann, Milk), By(Bob, "drop")}, 3, FALSE),
    \* filing and what it teaches
    Scene("filed", Db(Filed, MilkInPints, <<>>),
          {Files(Ann, 2), Unfiles(Bob, 1), Says(Ann, Milk), Razes(2), By(Bob, "drop"),
           By(Ann, "forget")},
          3, FALSE),
    \* walking the shop
    Scene("walk", Db(<<Row(Milk, Pint, FALSE, {1, 2}), Row(Eggs, Unit, FALSE, {})>>, Nothing,
                     <<2>>),
          {Lays(Ann, <<1, 2>>), Lays(Bob, <<2, 3>>), By(Bob, "board"), Moves(Bob, 1, TRUE),
           Razes(2), By(Ann, "shelve"), Ticks(Ann, TRUE)}, 3, FALSE),
    Scene("walk", Db(Filed, Nothing, <<>>),
          {Lays(Ann, <<1, 1>>), Moves(Ann, 1, FALSE), Lays(Bob, <<>>), By(Ann, "board"),
           Files(Bob, 2), By(Bob, "list"), By(Ann, "aisles")}, 3, TRUE),
    \* notes, and pages of anything
    Scene("notes", Db(Nothing, Nothing, <<>>), {}, 3, FALSE),
    Scene("pages", Db(Nothing, Nothing, <<>>), {}, 0, FALSE),
    \* a device hands over the cache it kept
    Scene("bring", Db(Nothing, Nothing, <<>>),
          {Brings(Ann, cache) : cache \in Caches}, 1, FALSE) }

(* Notes: Ann has two and may write more, Bob has one; two requests at a time. *)
MCAuthors == {Ann, Bob}
MCDrawers == {[i \in 1..4 |-> CASE i = 1 -> [author |-> Ann, body |-> 1, created |-> 0]
                                [] i = 2 -> [author |-> Bob, body |-> 1, created |-> 0]
                                [] i = 3 -> [author |-> Ann, body |-> 0, created |-> 1]
                                [] OTHER -> Null]}
Jot(p, deed, i) == [by |-> p, deed |-> deed, note |-> i, body |-> 2, size |-> 1,
                    order |-> [field |-> "created_at", ascending |-> FALSE]]
Walks(p, size, field, up) ==
    [Jot(p, "walk", 1) EXCEPT !.size = size, !.order = [field |-> field, ascending |-> up]]
MCErrands ==
    {Jot(Ann, "write", 1), Jot(Bob, "write", 1), Jot(Ann, "rewrite", 1), Jot(Ann, "erase", 1),
     Jot(Ann, "erase", 3), Jot(Ann, "rewrite", 2), Jot(Bob, "read", 1),
     Walks(Ann, 1, "body", TRUE), Walks(Ann, 2, "created_at", FALSE), Walks(Ann, 6, "id", TRUE)}

Alternatives == Permutations(Callers)
MCRequests == UNION {scene.asks : scene \in Scenes}
MCStored == {scene.db : scene \in Scenes}

VARIABLES
    scene,     \* the scene this behaviour plays
    asks       \* how many requests have arrived

ghosts == <<scene, asks>>

MCInit ==
    /\ SuggestingInit
    /\ scene \in Scenes
    /\ [items |-> items, history |-> history, shelf |-> shelf, orders |-> orders] = scene.db
    /\ asks = 0
    /\ NotesHistoryInit
    /\ FieldInit
    /\ ListingInit
    /\ scene.name # "pages" => sheet = UnitTable /\ column = "name"

ListNext ==
    /\ \/ scene.clock /\ Tick
       \/ \E c \in Callers : (asks < scene.budget /\ Arrive(c)) \/ Step(c) \/ Cut(c)
    /\ \A c \in Callers : Arrives(c) => \E asked \in scene.asks : work'[c] = Starts(asked)
    /\ asks' = asks + (IF \E c \in Callers : Arrives(c) THEN 1 ELSE 0)
    /\ UNCHANGED <<scene, query, typed, listing, notes, desks, today, notesHistory>>
    /\ RememberShopping

NotesSceneNext ==
    /\ scene.name = "notes"
    /\ NextDay \/ \E c \in Clients : (asks < scene.budget /\ Come(c)) \/ ErrandStep(c) \/ Leave(c)
    /\ asks' = asks + (IF \E c \in Clients : Comes(c) THEN 1 ELSE 0)
    /\ RememberNotes
    /\ UNCHANGED <<vars, shopHistory, query, scene, typed, listing>>

ReadingSceneNext ==
    /\ scene.name = "reading"
    /\ FieldNext
    /\ UNCHANGED <<vars, shopHistory, query, ghosts, listing, notes, desks, today,
                   notesHistory>>

PagesSceneNext ==
    /\ scene.name = "pages"
    /\ ListingNext
    /\ UNCHANGED <<vars, shopHistory, query, ghosts, typed, notes, desks, today, notesHistory>>

OfferSceneNext ==
    /\ scene.name = "offer"
    /\ StopAsking \/ \E typing \in Queries : AskFor(typing)
    /\ UNCHANGED <<vars, shopHistory, ghosts, typed, listing, notes, desks, today, notesHistory>>

MCNext == ListNext \/ NotesSceneNext \/ ReadingSceneNext \/ PagesSceneNext
          \/ OfferSceneNext

MCSpec ==
    MCInit /\ [][MCNext]_<<vars, shopHistory, query, ghosts, notes, desks, today, notesHistory, typed,
                          listing>>

=============================================================================
