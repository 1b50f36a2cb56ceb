------------------------------- MODULE Notes --------------------------------
(***************************************************************************)
(* Notes: each belongs to whoever wrote it and to no one else.             *)
(* service/notes.rs over models/note.rs, as /api/notes and the page of     *)
(* notes call them.                                                        *)
(*                                                                         *)
(* Every operation on one note loads it, checks its author, and only then  *)
(* acts: two statements, with those of others in between.  A page is two   *)
(* more, the rows and their count.                                         *)
(*                                                                         *)
(* Modelled: the table with the ids SQLite gives (a deleted one's is given *)
(* again) and who is asking; somebody who walks the pages one by one.      *)
(* Left out: signing in (Admission), accounts that are closed, bodies that *)
(* are refused.                                                            *)
(***************************************************************************)
EXTENDS Paging

CONSTANTS
    Clients,   \* requests that may be under way at once
    Authors,   \* who may write notes
    Bodies,    \* what a note may say, as numbers in the order of the alphabet
    MaxNotes,  \* bound on note ids
    MaxDays,   \* bound on the clock
    Errands,   \* what clients may ask
    Drawers    \* tables to start from

NoteIds == 1..MaxNotes
Note == [author: Authors, body: Bodies, created: 0..MaxDays]
Orderings == [field: NoteTable.orderable, ascending: BOOLEAN]
Errand == [by: Authors, deed: {"write", "read", "rewrite", "erase", "walk"},
           note: NoteIds, body: Bodies, size: I64, order: Orderings]

VARIABLES
    notes,  \* the table; Null: no such note
    desks,  \* desks[c]: the request c has under way
    today   \* unixepoch(), in days

NotesAssumption ==
    /\ MaxNotes \in 0..Top /\ MaxDays \in Nat /\ Bodies \subseteq Int
    /\ Errands \subseteq Errand /\ Null \notin Note
    /\ Drawers \subseteq [NoteIds -> Note \cup {Null}]
ASSUME NotesAssumption

----------------------------------------------------------------------------

Written == {i \in NoteIds : notes[i] # Null}
NextNote(i) == (\A m \in Written : m < i) /\ (i > 1 => i - 1 \in Written)
Of(author) == {i \in Written : notes[i].author = author}

KeyOf(i, field) ==
    CASE field = "id" -> i
      [] field = "body" -> notes[i].body
      [] field = "created_at" -> notes[i].created

(* Note::for_user: one's own, in the order asked for.                      *)
Lines(author, order) == {[id |-> i, key |-> KeyOf(i, order.field)] : i \in Of(author)}
InOrder(author, order) == Ordered(Lines(author, order), order.ascending)

Idle == [errand |-> Null, plan |-> <<>>, number |-> 1, items |-> <<>>]

Working(c) == desks[c].plan # <<>>
Asks(c) == desks[c].errand
AtStep(c, step) == Working(c) /\ Head(desks[c].plan) = step
Follows(c) == Tail(desks[c].plan)
AskedPage(c) == Queried([number |-> desks[c].number, size |-> Asks(c).size])

ErrandPlanUnchecked(deed) ==
    CASE deed = "write" -> <<"insert">>
      [] deed = "read" -> <<"load">>
      [] deed = "rewrite" -> <<"put">>
      [] deed = "erase" -> <<"load", "strike">>
      [] deed = "walk" -> <<"rows", "count">>
ErrandPlan(deed) ==
    CASE deed = "write" -> <<"insert">>
      [] deed = "read" -> <<"load">>
      [] deed = "rewrite" -> <<"load", "put">>
      [] deed = "erase" -> <<"load", "strike">>
      [] deed = "walk" -> <<"rows", "count">>

Desk(c, d) == desks' = [desks EXCEPT ![c] = d]

Come(c) ==
    /\ ~Working(c)
    /\ \E errand \in Errands :
          Desk(c, [Idle EXCEPT !.errand = errand, !.plan = ErrandPlan(errand.deed)])
    /\ UNCHANGED <<notes, today>>

(* notes::get: somebody else's reads as missing.                           *)
Load(c) ==
    /\ AtStep(c, "load")
    /\ Desk(c, IF Asks(c).note \in Of(Asks(c).by) /\ Follows(c) # <<>>
               THEN [desks[c] EXCEPT !.plan = Follows(c)] ELSE Idle)
    /\ UNCHANGED <<notes, today>>

WriteNote(c) ==
    /\ AtStep(c, "insert") /\ Desk(c, Idle)
    /\ \E i \in NoteIds :
          /\ NextNote(i)
          /\ notes' = [notes EXCEPT ![i] = [author |-> Asks(c).by, body |-> Asks(c).body,
                                            created |-> today]]
    /\ UNCHANGED today

PutNote(c) ==
    /\ AtStep(c, "put") /\ Desk(c, Idle)
    /\ notes' = IF Asks(c).note \in Written
                THEN [notes EXCEPT ![Asks(c).note].body = Asks(c).body] ELSE notes
    /\ UNCHANGED today

EraseNote(c) ==
    /\ AtStep(c, "strike") /\ Desk(c, Idle)
    /\ notes' = [notes EXCEPT ![Asks(c).note] = Null]
    /\ UNCHANGED today

(* for_user: the rows of a page, and then how many there are.              *)
FetchRows(c) ==
    LET rows == Fetched(InOrder(Asks(c).by, Asks(c).order), AskedPage(c)) IN
    /\ AtStep(c, "rows")
    /\ Desk(c, [desks[c] EXCEPT !.plan = Follows(c),
                   !.items = [k \in DOMAIN rows |-> rows[k].id]])
    /\ UNCHANGED <<notes, today>>

(* Whoever walks asks for the next page while there is more.               *)
CountRows(c) ==
    LET page == PageOf(AskedPage(c), desks[c].items, Cardinality(Of(Asks(c).by)))
        next == [Idle EXCEPT !.errand = Asks(c), !.plan = ErrandPlan("walk"),
                             !.number = desks[c].number + 1]
    IN
    /\ AtStep(c, "count")
    /\ Desk(c, IF page.has_more /\ desks[c].number < Top THEN next ELSE Idle)
    /\ UNCHANGED <<notes, today>>

(* The connection drops.                                                   *)
Leave(c) ==
    /\ Working(c) /\ Desk(c, Idle)
    /\ UNCHANGED <<notes, today>>

NextDay == today < MaxDays /\ today' = today + 1 /\ UNCHANGED <<notes, desks>>

NotesInit ==
    /\ notes \in Drawers
    /\ desks = [c \in Clients |-> Idle]
    /\ today = 0

ErrandStep(c) ==
    \/ Load(c) \/ WriteNote(c) \/ PutNote(c) \/ EraseNote(c) \/ FetchRows(c) \/ CountRows(c)

NotesNext == NextDay \/ \E c \in Clients : Come(c) \/ ErrandStep(c) \/ Leave(c)

NotesSpec == NotesInit /\ [][NotesNext]_<<notes, desks, today>>

=============================================================================
