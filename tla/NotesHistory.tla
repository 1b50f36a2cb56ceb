---------------------------- MODULE NotesHistory ----------------------------
(***************************************************************************)
(* What must be remembered of the past to say whose a note is, and what a  *)
(* walk through the pages must have met: ids are given again, so that a    *)
(* note may not be the one that was asked about; and a walk is many        *)
(* statements, with others writing and erasing in between.                 *)
(***************************************************************************)
EXTENDS Notes

VARIABLES
    given,   \* given[c]: the ids given again since the request c arrived
    met,     \* met[c]: the notes a walk has met, in turn
    stayed,  \* stayed[c]: those of the walker there were, all along
    moved    \* moved[c]: whether since then one of theirs was erased, or written

notesHistory == <<given, met, stayed, moved>>

Walking(c) == Working(c) /\ Asks(c).deed = "walk"
DeskActs(c) == desks'[c] # desks[c]
Comes(c) == ~Working(c) /\ Working(c)'

(* In a walk ordered by what they say, an edit moves a note both ways.     *)
Reworded(c, i) == notes'[i].body # notes[i].body /\ Asks(c).order.field = "body"
Erased(c) == \E i \in Of(Asks(c).by) : notes'[i] = Null \/ Reworded(c, i)
Wrote(c) ==
    \E i \in NoteIds : /\ notes'[i] # Null /\ notes'[i].author = Asks(c).by
                       /\ i \in Of(Asks(c).by) => Reworded(c, i)

NotesHistoryInit ==
    /\ NotesInit
    /\ given = [c \in Clients |-> {}]
    /\ met = [c \in Clients |-> <<>>]
    /\ stayed = [c \in Clients |-> {}]
    /\ moved = [c \in Clients |-> [erased |-> FALSE, written |-> FALSE]]

RememberGiven ==
    given' = [c \in Clients |->
                IF Working(c)' THEN given[c] \cup (Written' \ Written) ELSE {}]

RememberWalks ==
    /\ met' = [c \in Clients |->
          IF ~Walking(c)' THEN <<>>
          ELSE IF DeskActs(c) /\ AtStep(c, "rows") THEN met[c] \o desks'[c].items ELSE met[c]]
    /\ stayed' = [c \in Clients |->
          IF ~Walking(c)' THEN {}
          ELSE IF Comes(c) THEN Of(desks'[c].errand.by) ELSE stayed[c] \cap Written']
    /\ moved' = [c \in Clients |->
          [erased |-> Walking(c) /\ (moved[c].erased \/ Erased(c)),
           written |-> Walking(c) /\ (moved[c].written \/ Wrote(c))]]

RememberNotes == RememberGiven /\ RememberWalks

NotesHistorySpec ==
    NotesHistoryInit /\ [][NotesNext /\ RememberNotes]_<<notes, desks, today, notesHistory>>

----------------------------------------------------------------------------

(* A note is changed only by a request of whoever wrote it ("load-and-check   *)
(* first", service/notes.rs), unless the id that was checked has been given   *)
(* to another note since.                                                     *)
NotesAreOnesOwn ==
    [][\A i \in Written : notes'[i] # notes[i] =>
          \E c \in Clients : /\ desks'[c] # desks[c] /\ Asks(c).note = i
                             /\ Asks(c).by = notes[i].author \/ i \in given[c]
      ]_<<notes, desks, given>>

(* A page is two statements and a walk is many pages, with others writing in  *)
(* between (Unit::list says what that may do to one page).  Of the notes that *)
(* were theirs from the beginning of a walk to its end, whoever walks misses  *)
(* none unless one of theirs was erased meanwhile, and meets none twice       *)
(* unless one was written: whatever the size of the pages, if they have one.  *)
PagesAddUp ==
    [][\A c \in Clients : AtStep(c, "count") /\ ~Working(c)' /\ CountRows(c)
                                                /\ Asks(c).size > 0 =>
          /\ ~moved[c].erased => stayed[c] \subseteq ToSet(met[c])
          /\ ~moved[c].written => IsInjective(met[c])
      ]_<<notes, desks, notesHistory>>

=============================================================================
