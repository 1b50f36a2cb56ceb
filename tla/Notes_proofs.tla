---------------------------- MODULE Notes_proofs ----------------------------
(***************************************************************************)
(* Proofs about Notes and Listing: the table of notes keeps its type, a    *)
(* note is changed only by a request of whoever wrote it, whoever walks    *)
(* the pages meets every note that stays, and of a table nobody changes,   *)
(* whichever it is, every row, once and in order.                          *)
(***************************************************************************)
EXTENDS NotesHistory, Listing, Sorting_proofs

----------------------------------------------------------------------------
(* The inductive invariant.                                                *)

(* What an errand of each kind may have left to do.                        *)
LeftToDo(deed, p) ==
    \/ deed = "write"   /\ p = <<"insert">>
    \/ deed = "read"    /\ p = <<"load">>
    \/ deed = "rewrite" /\ (p = <<"load", "put">> \/ p = <<"put">>)
    \/ deed = "erase"   /\ (p = <<"load", "strike">> \/ p = <<"strike">>)
    \/ deed = "walk"    /\ (p = <<"rows", "count">> \/ p = <<"count">>)

DeskOK(d) ==
    /\ d = [errand |-> d.errand, plan |-> d.plan, number |-> d.number, items |-> d.items]
    /\ d.number \in 1..Top
    /\ d.plan # <<>> => d.errand \in Errand /\ LeftToDo(d.errand.deed, d.plan)

Drawer == [NoteIds -> Note \cup {Null}]

DesksTyped ==
    /\ desks = [c \in Clients |-> desks[c]]
    /\ \A c \in Clients : DeskOK(desks[c])

NotesTypeOK == notes \in Drawer /\ today \in 0..MaxDays /\ DesksTyped

(* A note that was loaded and is about to be changed is the asker's own,   *)
(* or its id has been given again since.                                   *)
Checked(c) ==
    LET i == Asks(c).note IN
    (AtStep(c, "put") \/ AtStep(c, "strike")) /\ i \in Written =>
        notes[i].author = Asks(c).by \/ i \in given[c]

NotesInv ==
    /\ NotesTypeOK
    /\ given = [c \in Clients |-> given[c]]
    /\ \A c \in Clients : Checked(c)

----------------------------------------------------------------------------
(* Plans.                                                                  *)

(* A statement is taken off the front of what is left.                     *)
LEMMA OneLeft ==
    ASSUME NEW x
    PROVE  Head(<<x>>) = x /\ Tail(<<x>>) = <<>> /\ <<x>> # <<>>
OBVIOUS

LEMMA TwoLeft ==
    ASSUME NEW x, NEW y
    PROVE  Head(<<x, y>>) = x /\ Tail(<<x, y>>) = <<y>> /\ <<x, y>> # <<>>
OBVIOUS

(* The statement an errand has come to tells which errand it is, and what  *)
(* is left behind it.                                                      *)
LEMMA WhereItIs ==
    ASSUME NEW deed, NEW p, LeftToDo(deed, p)
    PROVE  /\ p # <<>>
           /\ Head(p) = "put" => deed = "rewrite" /\ Tail(p) = <<>>
           /\ Head(p) = "strike" => deed = "erase" /\ Tail(p) = <<>>
           /\ Head(p) = "load" /\ Tail(p) # <<>> => LeftToDo(deed, Tail(p))
           /\ Head(p) = "rows" => LeftToDo(deed, Tail(p)) /\ Head(Tail(p)) = "count"
<1>1. CASE p = <<"insert">> /\ deed = "write"
      BY <1>1, OneLeft
<1>2. CASE p = <<"load">> /\ deed = "read"
      BY <1>2, OneLeft
<1>3. CASE p = <<"load", "put">> /\ deed = "rewrite"
      BY <1>3, TwoLeft DEF LeftToDo
<1>4. CASE p = <<"put">> /\ deed = "rewrite"
      BY <1>4, OneLeft
<1>5. CASE p = <<"load", "strike">> /\ deed = "erase"
      BY <1>5, TwoLeft DEF LeftToDo
<1>6. CASE p = <<"strike">> /\ deed = "erase"
      BY <1>6, OneLeft
<1>7. CASE p = <<"rows", "count">> /\ deed = "walk"
      BY <1>7, OneLeft, TwoLeft DEF LeftToDo
<1>8. CASE p = <<"count">> /\ deed = "walk"
      BY <1>8, OneLeft
<1>9. QED BY <1>1, <1>2, <1>3, <1>4, <1>5, <1>6, <1>7, <1>8 DEF LeftToDo

(* An errand begins with all of its statements to do.                      *)
LEMMA WholePlan ==
    ASSUME NEW e \in Errand
    PROVE  /\ LeftToDo(e.deed, ErrandPlan(e.deed))
           /\ Head(ErrandPlan(e.deed)) \notin {"put", "strike"}
<1>1. e.deed \in {"write", "read", "rewrite", "erase", "walk"}
      BY DEF Errand
<1>2. ErrandPlan("write") = <<"insert">> /\ ErrandPlan("read") = <<"load">>
      BY DEF ErrandPlan
<1>3. /\ ErrandPlan("rewrite") = <<"load", "put">>
      /\ ErrandPlan("erase") = <<"load", "strike">>
      /\ ErrandPlan("walk") = <<"rows", "count">>
      BY DEF ErrandPlan
<1>4. QED BY <1>1, <1>2, <1>3, OneLeft, TwoLeft DEF LeftToDo

----------------------------------------------------------------------------
(* The desks.                                                              *)

Rewritten(d, e, p, n, i) == d = [errand |-> e, plan |-> p, number |-> n, items |-> i]

(* What becomes of a desk that is changed in some of its parts.            *)
LEMMA PartsOfARecord ==
    ASSUME NEW E, NEW P, NEW N, NEW I, NEW e \in E, NEW p \in P, NEW n \in N, NEW i \in I,
           NEW d \in [errand : E, plan : P, number : N, items : I]
    PROVE  /\ Rewritten([d EXCEPT !.errand = e, !.plan = p], e, p, d.number, d.items)
           /\ Rewritten([d EXCEPT !.plan = p], d.errand, p, d.number, d.items)
           /\ Rewritten([d EXCEPT !.plan = p, !.items = i], d.errand, p, d.number, i)
           /\ Rewritten([d EXCEPT !.errand = e, !.plan = p, !.number = n], e, p, n, d.items)
<1> DEFINE Desks == [errand : E, plan : P, number : N, items : I]
<1>1. Rewritten([d EXCEPT !.errand = e, !.plan = p], e, p, d.number, d.items)
  <2> DEFINE x == [d EXCEPT !.errand = e, !.plan = p]
  <2>1. x \in Desks /\ x.errand = e /\ x.plan = p
        /\ x.number = d.number /\ x.items = d.items
        OBVIOUS
  <2> HIDE DEF x
  <2>2. Rewritten(x, x.errand, x.plan, x.number, x.items)
        BY <2>1 DEF Rewritten
  <2>3. QED BY <2>1, <2>2 DEF x
<1>2. Rewritten([d EXCEPT !.plan = p], d.errand, p, d.number, d.items)
  <2> DEFINE x == [d EXCEPT !.plan = p]
  <2>1. x \in Desks /\ x.errand = d.errand /\ x.plan = p
        /\ x.number = d.number /\ x.items = d.items
        OBVIOUS
  <2> HIDE DEF x
  <2>2. Rewritten(x, x.errand, x.plan, x.number, x.items)
        BY <2>1 DEF Rewritten
  <2>3. QED BY <2>1, <2>2 DEF x
<1>3. Rewritten([d EXCEPT !.plan = p, !.items = i], d.errand, p, d.number, i)
  <2> DEFINE x == [d EXCEPT !.plan = p, !.items = i]
  <2>1. x \in Desks /\ x.errand = d.errand /\ x.plan = p
        /\ x.number = d.number /\ x.items = i
        OBVIOUS
  <2> HIDE DEF x
  <2>2. Rewritten(x, x.errand, x.plan, x.number, x.items)
        BY <2>1 DEF Rewritten
  <2>3. QED BY <2>1, <2>2 DEF x
<1>4. Rewritten([d EXCEPT !.errand = e, !.plan = p, !.number = n], e, p, n, d.items)
  <2> DEFINE x == [d EXCEPT !.errand = e, !.plan = p, !.number = n]
  <2>1. x \in Desks /\ x.errand = e /\ x.plan = p
        /\ x.number = n /\ x.items = d.items
        OBVIOUS
  <2> HIDE DEF x
  <2>2. Rewritten(x, x.errand, x.plan, x.number, x.items)
        BY <2>1 DEF Rewritten
  <2>3. QED BY <2>1, <2>2 DEF x
<1>5. QED BY <1>1, <1>2, <1>3, <1>4

LEMMA PartsOfADesk ==
    ASSUME NEW d, Rewritten(d, d.errand, d.plan, d.number, d.items), NEW e, NEW p, NEW n, NEW i
    PROVE  /\ Rewritten([d EXCEPT !.errand = e, !.plan = p], e, p, d.number, d.items)
           /\ Rewritten([d EXCEPT !.plan = p], d.errand, p, d.number, d.items)
           /\ Rewritten([d EXCEPT !.plan = p, !.items = i], d.errand, p, d.number, i)
           /\ Rewritten([d EXCEPT !.errand = e, !.plan = p, !.number = n], e, p, n, d.items)
<1> DEFINE E == {d.errand, e}
           P == {d.plan, p}
           N == {d.number, n}
           I == {d.items, i}
<1>1. d \in [errand : E, plan : P, number : N, items : I]
      BY DEF Rewritten
<1>2. e \in E /\ p \in P /\ n \in N /\ i \in I
      OBVIOUS
<1> HIDE DEF E, P, N, I
<1>3. QED BY <1>1, <1>2, PartsOfARecord, ZenonT(60)

LEMMA IdleDesk == DeskOK(Idle) /\ Idle.plan = <<>>
<1>1. Top \in Nat /\ 1 \in 1..Top
      BY PagingAssumption DEF PagingAssumption
<1>2. Idle.plan = <<>> /\ Idle.number = 1
      BY DEF Idle
<1>3. Idle = [errand |-> Idle.errand, plan |-> Idle.plan, number |-> Idle.number,
              items |-> Idle.items]
      BY DEF Idle
<1>4. QED BY <1>1, <1>2, <1>3 DEF DeskOK

(* Only one desk changes in a step.                                        *)
LEMMA OneDesk ==
    ASSUME DesksTyped, NEW c \in Clients, NEW d, Desk(c, d), DeskOK(d)
    PROVE  /\ DesksTyped'
           /\ desks'[c] = d
           /\ \A x \in Clients \ {c} : desks'[x] = desks[x]
<1>1. desks' = [desks EXCEPT ![c] = d]
      BY DEF Desk
<1>2. DOMAIN desks = Clients
      BY DEF DesksTyped
<1>3. desks'[c] = d /\ \A x \in Clients \ {c} : desks'[x] = desks[x]
      BY <1>1, <1>2
<1>4. desks' = [x \in Clients |-> desks'[x]]
      BY <1>1, <1>2
<1>5. \A x \in Clients : DeskOK(desks'[x])
      BY <1>3 DEF DesksTyped
<1>6. QED BY <1>3, <1>4, <1>5 DEF DesksTyped

(* Whoever has an errand under way has it as it was asked.                 *)
LEMMA Underway ==
    ASSUME DesksTyped, NEW c \in Clients, Working(c)
    PROVE  /\ Asks(c) \in Errand
           /\ LeftToDo(Asks(c).deed, desks[c].plan)
           /\ DeskOK(desks[c])
BY DEF DesksTyped, DeskOK, Working, Asks

----------------------------------------------------------------------------
(* The actions.                                                            *)

(* No note changes hands: one that stays keeps its author.                 *)
AuthorsStay == \A i \in Written \cap Written' : notes'[i].author = notes[i].author

(* What was checked for an errand stays so while others act.               *)
LEMMA CheckedStays ==
    ASSUME NEW x \in Clients, Checked(x), desks'[x] = desks[x], AuthorsStay, RememberGiven
    PROVE  Checked(x)'
<1>1. /\ Asks(x)' = Asks(x) /\ Working(x)' = Working(x)
      /\ AtStep(x, "put")' = AtStep(x, "put") /\ AtStep(x, "strike")' = AtStep(x, "strike")
      BY DEF Asks, Working, AtStep
<1>2. SUFFICES ASSUME AtStep(x, "put") \/ AtStep(x, "strike"), Asks(x).note \in Written'
               PROVE  \/ notes'[Asks(x).note].author = Asks(x).by
                      \/ Asks(x).note \in given'[x]
      BY <1>1 DEF Checked
<1>3. given'[x] = given[x] \cup (Written' \ Written)
      BY <1>1, <1>2 DEF RememberGiven, AtStep
<1>4. CASE Asks(x).note \in Written
      BY <1>2, <1>3, <1>4 DEF Checked, AuthorsStay
<1>5. CASE Asks(x).note \notin Written
      BY <1>2, <1>3, <1>5
<1>6. QED BY <1>4, <1>5

(* An errand that is not about to change a note has nothing to have        *)
(* checked.                                                                *)
LEMMA NothingToCheck ==
    ASSUME NEW c \in Clients, NEW d, desks'[c] = d,
           d.plan = <<>> \/ Head(d.plan) \notin {"put", "strike"}
    PROVE  Checked(c)'
BY DEF Checked, AtStep, Working

(* What an action of one errand must be shown to do.                       *)
LEMMA OneErrand ==
    ASSUME NotesInv, RememberGiven, NEW c \in Clients, NEW d, Desk(c, d), DeskOK(d),
           notes' \in Drawer, today' \in 0..MaxDays, AuthorsStay, Checked(c)'
    PROVE  NotesInv'
<1>1. DesksTyped /\ (\A x \in Clients : Checked(x))
      BY DEF NotesInv, NotesTypeOK
<1>2. DesksTyped' /\ \A x \in Clients \ {c} : desks'[x] = desks[x]
      BY <1>1, OneDesk
<1>3. \A x \in Clients \ {c} : Checked(x)'
      BY <1>1, <1>2, CheckedStays
<1>4. given' = [x \in Clients |-> given'[x]]
      BY DEF RememberGiven
<1>5. QED BY <1>2, <1>3, <1>4 DEF NotesInv, NotesTypeOK

LEMMA NothingWritten ==
    ASSUME NotesInv, UNCHANGED <<notes, today>>
    PROVE  notes' \in Drawer /\ today' \in 0..MaxDays /\ AuthorsStay /\ Written' = Written
BY DEF NotesInv, NotesTypeOK, AuthorsStay, Written

LEMMA ComeKeeps ==
    ASSUME NotesInv, RememberGiven, NEW c \in Clients, Come(c)
    PROVE  NotesInv'
<1>1. PICK e \in Errands :
          Desk(c, [Idle EXCEPT !.errand = e, !.plan = ErrandPlan(e.deed)])
      BY DEF Come
<1> DEFINE d == [Idle EXCEPT !.errand = e, !.plan = ErrandPlan(e.deed)]
<1>2. e \in Errand
      BY NotesAssumption DEF NotesAssumption
<1>3. /\ d = [errand |-> d.errand, plan |-> d.plan, number |-> d.number, items |-> d.items]
      /\ d.errand = e /\ d.plan = ErrandPlan(e.deed) /\ d.number = Idle.number
  <2>1. Rewritten(Idle, Idle.errand, Idle.plan, Idle.number, Idle.items)
        BY IdleDesk DEF DeskOK, Rewritten
  <2>2. Rewritten(d, e, ErrandPlan(e.deed), Idle.number, Idle.items)
        BY <2>1, PartsOfADesk
  <2>3. QED BY <2>2 DEF Rewritten
<1>4. Idle.number \in 1..Top
      BY IdleDesk DEF DeskOK
<1> HIDE DEF d
<1>5. DeskOK(d)
      BY <1>2, <1>3, <1>4, WholePlan DEF DeskOK
<1>6. Desk(c, d)
      BY <1>1 DEF d
<1>7. desks'[c] = d
      BY <1>5, <1>6, OneDesk DEF NotesInv, NotesTypeOK
<1>8. Checked(c)'
      BY <1>2, <1>3, <1>7, WholePlan, NothingToCheck
<1>9. UNCHANGED <<notes, today>>
      BY DEF Come
<1>10. QED BY <1>5, <1>6, <1>8, <1>9, NothingWritten, OneErrand

(* An errand that ends leaves nothing to be checked.                       *)
LEMMA Ending ==
    ASSUME NotesInv, NEW c \in Clients, Desk(c, Idle)
    PROVE  Checked(c)'
<1>1. desks'[c] = Idle
      BY IdleDesk, OneDesk DEF NotesInv, NotesTypeOK
<1>2. QED BY <1>1, IdleDesk, NothingToCheck

LEMMA LoadKeeps ==
    ASSUME NotesInv, RememberGiven, NEW c \in Clients, Load(c)
    PROVE  NotesInv'
<1>1. DesksTyped /\ AtStep(c, "load") /\ UNCHANGED <<notes, today>>
      BY DEF NotesInv, NotesTypeOK, Load
<1>2. /\ Asks(c) \in Errand /\ DeskOK(desks[c])
      /\ LeftToDo(Asks(c).deed, desks[c].plan) /\ Head(desks[c].plan) = "load"
      BY <1>1, Underway DEF AtStep
<1>3. CASE ~(Asks(c).note \in Of(Asks(c).by) /\ Follows(c) # <<>>)
  <2>1. Desk(c, Idle)
        BY <1>3 DEF Load
  <2>2. QED BY <1>1, <2>1, IdleDesk, Ending, NothingWritten, OneErrand
<1>4. CASE Asks(c).note \in Of(Asks(c).by) /\ Follows(c) # <<>>
  <2> DEFINE d == [desks[c] EXCEPT !.plan = Follows(c)]
  <2>1. Desk(c, d)
        BY <1>4 DEF Load
  <2>2. d = [errand |-> desks[c].errand, plan |-> Follows(c), number |-> desks[c].number,
             items |-> desks[c].items]
        BY <1>2 DEF DeskOK
  <2> HIDE DEF d
  <2>3. LeftToDo(Asks(c).deed, Follows(c))
        BY <1>2, <1>4, WhereItIs DEF Follows
  <2>4. DeskOK(d)
        BY <1>2, <2>2, <2>3 DEF DeskOK, Asks
  <2>5. desks'[c] = d
        BY <1>1, <2>1, <2>4, OneDesk
  <2>6. Asks(c)' = Asks(c)
        BY <2>2, <2>5 DEF Asks
  <2>7. notes[Asks(c).note].author = Asks(c).by
        BY <1>4 DEF Of
  <2>8. Checked(c)'
        BY <1>1, <2>6, <2>7 DEF Checked
  <2>9. QED BY <1>1, <2>1, <2>4, <2>8, NothingWritten, OneErrand
<1>5. QED BY <1>3, <1>4

(* A new note's id was free.                                               *)
LEMMA WriteKeeps ==
    ASSUME NotesInv, RememberGiven, NEW c \in Clients, WriteNote(c)
    PROVE  NotesInv'
<1>1. PICK i \in NoteIds :
          /\ NextNote(i)
          /\ notes' = [notes EXCEPT ![i] = [author |-> Asks(c).by, body |-> Asks(c).body,
                                            created |-> today]]
      BY DEF WriteNote
<1>2. DesksTyped /\ notes \in Drawer /\ today \in 0..MaxDays /\ today' = today
      BY DEF NotesInv, NotesTypeOK, WriteNote
<1>3. Asks(c).by \in Authors /\ Asks(c).body \in Bodies
      BY <1>2, Underway DEF WriteNote, AtStep, Errand
<1>4. notes' \in Drawer
      BY <1>1, <1>2, <1>3 DEF Drawer, Note
<1>5. i \notin Written
      BY <1>1 DEF NextNote, NoteIds
<1>6. \A j \in NoteIds \ {i} : notes'[j] = notes[j]
      BY <1>1, <1>2 DEF Drawer
<1>7. AuthorsStay
      BY <1>5, <1>6 DEF AuthorsStay, Written
<1>8. Desk(c, Idle)
      BY DEF WriteNote
<1>9. QED BY <1>2, <1>4, <1>7, <1>8, IdleDesk, Ending, OneErrand

LEMMA PutKeeps ==
    ASSUME NotesInv, RememberGiven, NEW c \in Clients, PutNote(c)
    PROVE  NotesInv'
<1>1. DesksTyped /\ notes \in Drawer /\ today \in 0..MaxDays /\ today' = today
      BY DEF NotesInv, NotesTypeOK, PutNote
<1>2. Asks(c).body \in Bodies /\ Asks(c).note \in NoteIds
      BY <1>1, Underway DEF PutNote, AtStep, Errand
<1>3. CASE Asks(c).note \notin Written
  <2>1. notes' = notes
        BY <1>3 DEF PutNote
  <2>2. QED BY <1>1, <2>1, IdleDesk, Ending, OneErrand DEF PutNote, AuthorsStay, Written
<1>4. CASE Asks(c).note \in Written
  <2>1. notes' = [notes EXCEPT ![Asks(c).note].body = Asks(c).body]
        BY <1>4 DEF PutNote
  <2>2. notes[Asks(c).note] \in Note
        BY <1>1, <1>2, <1>4 DEF Written, Drawer
  <2>3. /\ notes'[Asks(c).note] \in Note
        /\ notes'[Asks(c).note].author = notes[Asks(c).note].author
        /\ \A j \in NoteIds \ {Asks(c).note} : notes'[j] = notes[j]
        BY <1>1, <1>2, <2>1, <2>2 DEF Drawer, Note
  <2>4. notes' \in Drawer
        BY <1>1, <2>1, <2>3 DEF Drawer
  <2>5. AuthorsStay
        BY <2>3 DEF AuthorsStay, Written
  <2>6. QED BY <1>1, <2>4, <2>5, IdleDesk, Ending, OneErrand DEF PutNote
<1>5. QED BY <1>3, <1>4

LEMMA EraseKeeps ==
    ASSUME NotesInv, RememberGiven, NEW c \in Clients, EraseNote(c)
    PROVE  NotesInv'
<1>1. notes \in Drawer /\ today' = today /\ today \in 0..MaxDays
      BY DEF NotesInv, NotesTypeOK, EraseNote
<1>2. notes' = [notes EXCEPT ![Asks(c).note] = Null]
      BY DEF EraseNote
<1>3. notes' \in Drawer /\ AuthorsStay
      BY <1>1, <1>2 DEF Drawer, AuthorsStay, Written
<1>4. QED BY <1>1, <1>3, IdleDesk, Ending, OneErrand DEF EraseNote

LEMMA FetchKeeps ==
    ASSUME NotesInv, RememberGiven, NEW c \in Clients, FetchRows(c)
    PROVE  NotesInv'
<1> DEFINE rows == Fetched(InOrder(Asks(c).by, Asks(c).order), AskedPage(c))
           ids == [k \in DOMAIN rows |-> rows[k].id]
           d == [desks[c] EXCEPT !.plan = Follows(c), !.items = ids]
<1>1. Desk(c, d) /\ AtStep(c, "rows") /\ UNCHANGED <<notes, today>>
      BY DEF FetchRows
<1> HIDE DEF ids
<1>2. /\ DesksTyped /\ Asks(c) \in Errand /\ DeskOK(desks[c])
      /\ LeftToDo(Asks(c).deed, desks[c].plan) /\ Head(desks[c].plan) = "rows"
      BY <1>1, Underway DEF AtStep, NotesInv, NotesTypeOK
<1>3. Rewritten(d, desks[c].errand, Follows(c), desks[c].number, ids)
  <2>1. Rewritten(desks[c], desks[c].errand, desks[c].plan, desks[c].number, desks[c].items)
        BY <1>2 DEF DeskOK, Rewritten
  <2>2. QED BY <2>1, PartsOfADesk
<1> HIDE DEF d
<1>4. LeftToDo(Asks(c).deed, Follows(c)) /\ Head(Follows(c)) = "count"
      BY <1>2, WhereItIs DEF Follows
<1>5. DeskOK(d)
      BY <1>2, <1>3, <1>4 DEF DeskOK, Asks, Rewritten
<1>6. desks'[c] = d
      BY <1>1, <1>2, <1>5, OneDesk
<1>7. d.plan = Follows(c)
      BY <1>3 DEF Rewritten
<1>8. Checked(c)'
      BY <1>4, <1>6, <1>7, NothingToCheck
<1>9. QED BY <1>1, <1>5, <1>8, NothingWritten, OneErrand

LEMMA CountKeeps ==
    ASSUME NotesInv, RememberGiven, NEW c \in Clients, CountRows(c)
    PROVE  NotesInv'
<1> DEFINE d == [Idle EXCEPT !.errand = Asks(c), !.plan = ErrandPlan("walk"),
                             !.number = desks[c].number + 1]
<1>1. /\ Desk(c, Idle) \/ (desks[c].number < Top /\ Desk(c, d))
      /\ AtStep(c, "count") /\ UNCHANGED <<notes, today>>
      BY DEF CountRows
<1>2. /\ DesksTyped /\ Asks(c) \in Errand /\ DeskOK(desks[c])
      /\ LeftToDo(Asks(c).deed, desks[c].plan) /\ Head(desks[c].plan) = "count"
      BY <1>1, Underway DEF AtStep, NotesInv, NotesTypeOK
<1>3. CASE Desk(c, Idle)
      BY <1>1, <1>3, IdleDesk, Ending, NothingWritten, OneErrand
<1>4. CASE desks[c].number < Top /\ Desk(c, d)
  <2>1. Rewritten(d, Asks(c), ErrandPlan("walk"), desks[c].number + 1, Idle.items)
    <3>1. Rewritten(Idle, Idle.errand, Idle.plan, Idle.number, Idle.items)
          BY IdleDesk DEF DeskOK, Rewritten
    <3>2. QED BY <3>1, PartsOfADesk
  <2> HIDE DEF d
  <2>2. Asks(c).deed = "walk"
        BY <1>2, OneLeft, TwoLeft DEF LeftToDo
  <2>3. desks[c].number + 1 \in 1..Top
        BY <1>2, <1>4, PagingAssumption DEF DeskOK, PagingAssumption
  <2>4. LeftToDo(Asks(c).deed, d.plan) /\ Head(d.plan) \notin {"put", "strike"}
        BY <1>2, <2>1, <2>2, WholePlan DEF Rewritten
  <2>5. DeskOK(d)
        BY <1>2, <2>1, <2>3, <2>4 DEF DeskOK, Rewritten
  <2>6. desks'[c] = d
        BY <1>2, <1>4, <2>5, OneDesk
  <2>7. Checked(c)'
        BY <2>4, <2>6, NothingToCheck
  <2>8. QED BY <1>1, <1>4, <2>5, <2>7, NothingWritten, OneErrand
<1>5. QED BY <1>1, <1>3, <1>4

LEMMA LeaveKeeps ==
    ASSUME NotesInv, RememberGiven, NEW c \in Clients, Leave(c)
    PROVE  NotesInv'
BY IdleDesk, Ending, NothingWritten, OneErrand DEF Leave

LEMMA NextDayKeeps ==
    ASSUME NotesInv, RememberGiven, NextDay
    PROVE  NotesInv'
<1>1. today' \in 0..MaxDays
      BY NotesAssumption DEF NotesInv, NotesTypeOK, NextDay, NotesAssumption
<1>2. desks' = desks /\ notes' = notes
      BY DEF NextDay
<1>3. DesksTyped' /\ notes' \in Drawer
      BY <1>2 DEF NotesInv, NotesTypeOK, DesksTyped
<1>4. \A x \in Clients : Checked(x)'
      BY <1>2, CheckedStays DEF NotesInv, AuthorsStay, Written
<1>5. given' = [x \in Clients |-> given'[x]]
      BY DEF RememberGiven
<1>6. QED BY <1>1, <1>3, <1>4, <1>5 DEF NotesInv, NotesTypeOK

----------------------------------------------------------------------------
(* Results.                                                                *)

LEMMA InitiallyInv == NotesHistoryInit => NotesInv
<1> SUFFICES ASSUME NotesHistoryInit PROVE NotesInv
    OBVIOUS
<1>1. notes \in Drawer /\ today \in 0..MaxDays
      BY NotesAssumption DEF NotesHistoryInit, NotesInit, NotesAssumption, Drawer
<1>2. desks = [c \in Clients |-> Idle] /\ given = [c \in Clients |-> {}]
      BY DEF NotesHistoryInit, NotesInit
<1>3. DesksTyped
      BY <1>2, IdleDesk DEF DesksTyped
<1>4. \A c \in Clients : Checked(c)
      BY <1>2, IdleDesk DEF Checked, AtStep, Working
<1>5. QED BY <1>1, <1>2, <1>3, <1>4 DEF NotesInv, NotesTypeOK

notesvars == <<notes, desks, today, notesHistory>>

LEMMA StepKeepsInv == NotesInv /\ [NotesNext /\ RememberNotes]_notesvars => NotesInv'
<1> SUFFICES ASSUME NotesInv, [NotesNext /\ RememberNotes]_notesvars PROVE NotesInv'
    OBVIOUS
<1>1. CASE UNCHANGED notesvars
  <2>1. \A c \in Clients : Checked(c)'
        BY <1>1 DEF notesvars, notesHistory, NotesInv, Checked, AtStep, Working, Asks, Written
  <2>2. NotesTypeOK' /\ given' = [c \in Clients |-> given'[c]]
        BY <1>1 DEF notesvars, notesHistory, NotesInv, NotesTypeOK, DesksTyped
  <2>3. QED BY <2>1, <2>2 DEF NotesInv
<1>2. CASE RememberGiven /\ NextDay
      BY <1>2, NextDayKeeps
<1>3. CASE RememberGiven /\ \E c \in Clients : Come(c) \/ ErrandStep(c) \/ Leave(c)
  <2>1. PICK c \in Clients : Come(c) \/ ErrandStep(c) \/ Leave(c)
        BY <1>3
  <2>2. CASE Come(c)
        BY <1>3, <2>2, ComeKeeps
  <2>3. CASE ErrandStep(c)
        BY <1>3, <2>3, LoadKeeps, WriteKeeps, PutKeeps, EraseKeeps, FetchKeeps, CountKeeps
        DEF ErrandStep
  <2>4. CASE Leave(c)
        BY <1>3, <2>4, LeaveKeeps
  <2>5. QED BY <2>1, <2>2, <2>3, <2>4
<1>4. QED BY <1>1, <1>2, <1>3 DEF NotesNext, RememberNotes

(* The table of notes keeps its type, and every request under way is one   *)
(* that was asked and is somewhere in its statements.                      *)
THEOREM NotesKeepTheirTypes == NotesHistorySpec => []NotesTypeOK
<1>1. NotesInv => NotesTypeOK
      BY DEF NotesInv
<1>2. QED BY <1>1, InitiallyInv, StepKeepsInv, PTL DEF NotesHistorySpec, notesvars

(* The step that changes a note.                                           *)
OnesOwn ==
    \A i \in Written : notes'[i] # notes[i] =>
        \E c \in Clients : /\ desks'[c] # desks[c] /\ Asks(c).note = i
                           /\ Asks(c).by = notes[i].author \/ i \in given[c]

LEMMA OnlyOnesOwn == NotesInv /\ [NotesNext /\ RememberNotes]_notesvars => OnesOwn
<1> DEFINE Owned(i) == \E c \in Clients : /\ desks'[c] # desks[c] /\ Asks(c).note = i
                                          /\ Asks(c).by = notes[i].author \/ i \in given[c]
<1>0. SUFFICES ASSUME NotesInv, [NotesNext /\ RememberNotes]_notesvars
               PROVE  \A i \in Written : notes'[i] # notes[i] => Owned(i)
    BY DEF OnesOwn
<1> TAKE i \in Written
<1> HAVE notes'[i] # notes[i]
<1>1. /\ NotesInv /\ NotesNext /\ notes' # notes
      /\ i \in NoteIds /\ notes \in Drawer /\ DesksTyped
      BY <1>0 DEF notesvars, Written, NotesInv, NotesTypeOK
<1>2. PICK c \in Clients : WriteNote(c) \/ PutNote(c) \/ EraseNote(c)
      BY <1>1 DEF NotesNext, NextDay, Come, ErrandStep, Load, FetchRows, CountRows, Leave
<1>3. ~WriteNote(c)
  <2> SUFFICES ASSUME WriteNote(c) PROVE FALSE
      OBVIOUS
  <2>1. PICK j \in NoteIds :
            /\ NextNote(j)
            /\ notes' = [notes EXCEPT ![j] = [author |-> Asks(c).by, body |-> Asks(c).body,
                                              created |-> today]]
        BY DEF WriteNote
  <2>2. j \notin Written
        BY <2>1 DEF NextNote, NoteIds
  <2>3. QED BY <1>1, <2>1, <2>2 DEF Drawer
<1>4. Asks(c).note = i
      BY <1>1, <1>2, <1>3 DEF PutNote, EraseNote, Drawer
<1>5. AtStep(c, "put") \/ AtStep(c, "strike")
      BY <1>2, <1>3 DEF PutNote, EraseNote
<1>6. Asks(c).by = notes[i].author \/ i \in given[c]
      BY <1>1, <1>4, <1>5 DEF NotesInv, Checked
<1>7. Desk(c, Idle)
      BY <1>2, <1>3 DEF PutNote, EraseNote
<1>8. desks'[c] = Idle
      BY <1>1, <1>7, IdleDesk, OneDesk
<1>9. desks[c].plan # <<>>
      BY <1>5 DEF AtStep, Working
<1>10. QED BY <1>4, <1>6, <1>8, <1>9, IdleDesk

(* A note is changed only by a request of whoever wrote it, for any number *)
(* of requests, authors and notes, unless its id was given again since it  *)
(* was loaded.                                                             *)
THEOREM NotesBelongToTheirAuthors == NotesHistorySpec => NotesAreOnesOwn
<1>1. NotesInv /\ [NotesNext /\ RememberNotes]_notesvars =>
        [\A i \in Written : notes'[i] # notes[i] =>
            \E c \in Clients : /\ desks'[c] # desks[c] /\ Asks(c).note = i
                               /\ Asks(c).by = notes[i].author \/ i \in given[c]
        ]_<<notes, desks, given>>
      BY OnlyOnesOwn DEF OnesOwn
<1>2. QED BY <1>1, InitiallyInv, StepKeepsInv, PTL
          DEF NotesHistorySpec, NotesAreOnesOwn, notesvars

----------------------------------------------------------------------------
(* Parts of a sequence.                                                    *)

(* What stands in a part of a sequence.                                    *)
LEMMA Slice ==
    ASSUME NEW S, NEW n \in Nat, NEW s \in [1..n -> S], NEW o \in Nat, NEW l \in Nat,
           NEW got, got = SubSeq(s, o + 1, IF o + l < Len(s) THEN o + l ELSE Len(s))
    PROVE  /\ got \in Seq(S) /\ Len(got) \in Nat /\ Len(got) <= l
           /\ Len(got) < l => n <= o + Len(got)
           /\ Len(got) > 0 => o + Len(got) <= n
           /\ \A j \in 1..Len(got) : o + j \in 1..n /\ got[j] = s[o + j]
<1>1. s \in Seq(S) /\ Len(s) = n
      OBVIOUS
<1> DEFINE to == IF o + l < n THEN o + l ELSE n
<1>2. to \in Nat /\ to <= n /\ to <= o + l /\ (to < o + l => to = n)
      OBVIOUS
<1>3. got = SubSeq(s, o + 1, to)
      BY <1>1
<1> HIDE DEF to
<1>4. CASE o >= to
  <2>1. got = <<>>
        BY <1>1, <1>2, <1>3, <1>4
  <2>2. QED BY <1>2, <1>4, <2>1
<1>5. CASE o < to
  <2>1. Len(got) = to - o /\ got \in Seq(S)
        BY <1>1, <1>2, <1>3, <1>5
  <2>2. \A j \in 1..to - o : got[j] = s[o + j]
        BY <1>1, <1>2, <1>3, <1>5
  <2>3. QED BY <1>2, <1>5, <2>1, <2>2
<1>6. QED BY <1>2, <1>4, <1>5

----------------------------------------------------------------------------
(* Rows in order, and the pages of them.                                   *)

(* Rows as a page has them: each a row of its own.                         *)
Keyed(rows) ==
    /\ \A r \in rows : r.id \in Int /\ (r.key \in Int \/ r.key = Null)
    /\ \A q, r \in rows : q.id = r.id => q = r

Arranged(rows, ascending) == {p \in rows \X rows : ComesBefore(p[1], p[2], ascending)}

LEMMA RowsCompare ==
    ASSUME NEW rows, Keyed(rows), NEW ascending
    PROVE  Compares(rows, Arranged(rows, ascending))
<1> DEFINE before(q, r) == ComesBefore(q, r, ascending)
<1>1. \A q, r \in rows : <<q, r>> \in Arranged(rows, ascending) <=> before(q, r)
      BY DEF Arranged
<1>2. \A r \in rows : r.id \in Int /\ (r.key \in Int \/ r.key = Null)
      BY DEF Keyed
<1>3. \A r \in rows : ~before(r, r)
      BY <1>2, PagingAssumption DEF ComesBefore, PagingAssumption
<1>4. \A q, r \in rows : q # r => before(q, r) \/ before(r, q)
  <2> TAKE q, r \in rows
  <2> HAVE q # r
  <2>1. q.id # r.id
        BY DEF Keyed
  <2>2. QED BY <1>2, <2>1, PagingAssumption DEF ComesBefore, PagingAssumption
<1>5. \A p, q, r \in rows : before(p, q) /\ before(q, r) => before(p, r)
      BY <1>2, PagingAssumption DEF ComesBefore, PagingAssumption
<1> HIDE DEF before
<1>6. QED BY <1>1, <1>3, <1>4, <1>5 DEF Compares

(* A page holds the rows of its places, and is short only at the end.      *)
PageInPlace(rows, ascending, page) ==
    LET got == Fetched(Ordered(rows, ascending), page)
        o == PageOffset(page)
        l == PageLimit(page)
        place(r) == Rank(rows, Arranged(rows, ascending), r)
    IN /\ got \in Seq(rows) /\ Len(got) \in Nat /\ Len(got) <= l
       /\ Len(got) < l => \A r \in rows : place(r) < o + Len(got)
       /\ \A j \in 1..Len(got) : place(got[j]) = o + j - 1
       /\ \A r \in rows :
             /\ place(r) \in Nat
             /\ o <= place(r) /\ place(r) < o + Len(got) =>
                   /\ place(r) - o + 1 \in 1..Len(got)
                   /\ got[place(r) - o + 1] = r

LEMMA PageHolds ==
    ASSUME NEW rows, IsFiniteSet(rows), Keyed(rows), NEW ascending,
           NEW page, PageOffset(page) \in Nat, PageLimit(page) \in Nat
    PROVE  PageInPlace(rows, ascending, page)
<1> DEFINE got == Fetched(Ordered(rows, ascending), page)
           o == PageOffset(page)
           l == PageLimit(page)
           before == Arranged(rows, ascending)
           s == InTurn(rows, before)
           n == Cardinality(rows)
<1>1. Compares(rows, before) /\ n \in Nat /\ o \in Nat /\ l \in Nat
      BY RowsCompare, FS_CardinalityType
<1>2. /\ s \in [1..n -> rows]
      /\ \A k \in 1..n : Rank(rows, before, s[k]) = k - 1
      /\ \A x \in rows : /\ Rank(rows, before, x) + 1 \in 1..n
                         /\ s[Rank(rows, before, x) + 1] = x
      BY <1>1, Sorted
<1>3. got = SubSeq(s, o + 1, IF o + l < Len(s) THEN o + l ELSE Len(s))
      BY DEF Fetched, Ordered, Arranged, got
<1>4. \A x \in rows : Rank(rows, before, x) \in 0..n - 1
      BY <1>1, RanksTellApart
<1> HIDE DEF s, n, before, got, o, l
<1>5. /\ got \in Seq(rows) /\ Len(got) \in Nat /\ Len(got) <= l
      /\ Len(got) < l => n <= o + Len(got)
      /\ \A j \in 1..Len(got) : o + j \in 1..n /\ got[j] = s[o + j]
  <2>1. n \in Nat /\ s \in [1..n -> rows]
        BY <1>1, <1>2
  <2>2. QED BY <1>1, <1>3, <2>1, Slice
<1>6. Len(got) < l => \A r \in rows : Rank(rows, before, r) < o + Len(got)
      BY <1>1, <1>4, <1>5
<1>7. \A j \in 1..Len(got) : Rank(rows, before, got[j]) = o + j - 1
      BY <1>1, <1>2, <1>5
<1>8. ASSUME NEW r \in rows, NEW k, k = Rank(rows, before, r),
             o <= k, k < o + Len(got)
      PROVE  k - o + 1 \in 1..Len(got) /\ got[k - o + 1] = r
  <2>1. k \in Nat
        BY <1>1, <1>4, <1>8
  <2>2. k - o + 1 \in 1..Len(got) /\ o + (k - o + 1) = k + 1
        BY <1>1, <1>5, <1>8, <2>1
  <2>3. got[k - o + 1] = s[k + 1]
        BY <1>5, <2>2
  <2>4. s[k + 1] = r
        BY <1>2, <1>8
  <2>5. QED BY <2>2, <2>3, <2>4
<1>9. \A r \in rows : Rank(rows, before, r) \in Nat
      BY <1>1, <1>4
<1>10. QED BY <1>5, <1>6, <1>7, <1>8, <1>9 DEF before, got, o, l, PageInPlace

(* An element loses its place only to what is new.                         *)
LEMMA PlacesGrow ==
    ASSUME NEW S, NEW T, IsFiniteSet(T), S \subseteq T, NEW ascending, NEW x \in S
    PROVE  Rank(S, Arranged(S, ascending), x) <= Rank(T, Arranged(T, ascending), x)
<1> DEFINE F == Foregoing(S, Arranged(S, ascending), x)
           G == Foregoing(T, Arranged(T, ascending), x)
<1>1. F \subseteq G /\ G \subseteq T
      BY DEF Foregoing, Arranged
<1>2. IsFiniteSet(G)
      BY <1>1, FS_Subset
<1>3. Cardinality(F) <= Cardinality(G)
      BY <1>1, <1>2, FS_Subset
<1>4. QED BY <1>3 DEF Rank

----------------------------------------------------------------------------
(* Walking the pages.                                                      *)

(* The pages of a walk, one behind the other, for as long as the end of    *)
(* one can be told.                                                        *)
PagesInTurn(n, size) ==
    LET o == PageOffset(Queried([number |-> n, size |-> size]))
        l == PageLimit(Queried([number |-> n, size |-> size]))
        after == PageOffset(Queried([number |-> n + 1, size |-> size]))
    IN /\ l \in 1..Top /\ o \in 0..Top /\ after \in 0..Top
       /\ n = 1 => o = 0
       /\ n = Top => o >= Top - 1
       /\ \A r \in 0..l : o + r < Top => o + r <= after /\ (r = l => o + r = after)

LEMMA PagesMeet ==
    ASSUME NEW size \in I64, size > 0, NEW n \in 1..Top
    PROVE  PagesInTurn(n, size)
<1> DEFINE o == PageOffset(Queried([number |-> n, size |-> size]))
           l == PageLimit(Queried([number |-> n, size |-> size]))
<1>1. Top \in Nat /\ PageMax \in 1..Top
      BY PagingAssumption DEF PagingAssumption
<1>2. l = Bounded(size) /\ l \in 1..Top
      BY <1>1 DEF Queried, Bounded, PageLimit, AtLeastNone, I64
<1> DEFINE before == (n - 1) * l
           next == n * l
<1>3. before \in Nat /\ next \in Nat /\ next = before + l
      BY <1>1, <1>2
<1>4. o = Saturated(before)
      BY <1>1, <1>2, <1>3 DEF Queried, PageOffset, PageLimit, AtLeastNone
<1>5. PageOffset(Queried([number |-> n + 1, size |-> size])) = Saturated(next)
      BY <1>1, <1>2, <1>3 DEF Queried, PageOffset, PageLimit, AtLeastNone
<1>6. n = 1 => before = 0
      BY <1>2
<1>7. n - 1 <= before
  <2>1. n - 1 \in Nat
        BY <1>1
  <2>2. (n - 1) * l >= n - 1
        BY <1>2, <2>1
  <2>3. QED BY <2>2
<1> HIDE DEF before, next, o, l
<1>8. Saturated(next) \in 0..Top /\ o \in 0..Top /\ (n = 1 => o = 0) /\ (n = Top => o >= Top - 1)
      BY <1>1, <1>3, <1>4, <1>6, <1>7 DEF Saturated
<1>9. \A r \in 0..l : o + r < Top => o + r <= Saturated(next) /\ (r = l => o + r = Saturated(next))
      BY <1>1, <1>2, <1>3, <1>4 DEF Saturated
<1>10. QED BY <1>2, <1>5, <1>8, <1>9 DEF PagesInTurn, o, l

(* Whoever walks: the rows there are, where each of them stands, and how   *)
(* far the pages that were read have come.                                 *)
Lined(c) == Lines(Asks(c).by, Asks(c).order)
LineOf(c, i) == [id |-> i, key |-> KeyOf(i, Asks(c).order.field)]
Place(c, i) ==
    Rank(Lined(c), Arranged(Lined(c), Asks(c).order.ascending), LineOf(c, i))
Reached(c) ==
    PageOffset(AskedPage(c)) + (IF AtStep(c, "count") THEN Len(desks[c].items) ELSE 0)

(* What was there all along, no row having gone, is met when the walk has  *)
(* come so far; what was met, no row having come, is behind it.            *)
Met(c) ==
    /\ \A i \in stayed[c] : Place(c, i) < Reached(c) => i \in ToSet(met[c])
    /\ AtStep(c, "count") /\ Len(desks[c].items) < PageLimit(AskedPage(c)) =>
          stayed[c] \subseteq ToSet(met[c])
Behind(c) ==
    /\ IsInjective(met[c])
    /\ \A i \in ToSet(met[c]) \cap Of(Asks(c).by) : Place(c, i) < Reached(c)

WalkOK(c) ==
    /\ ~Walking(c) => met[c] = <<>>
    /\ Walking(c) /\ Asks(c).size > 0 =>
          /\ met[c] \in Seq(NoteIds) /\ stayed[c] \subseteq Of(Asks(c).by)
          /\ AtStep(c, "count") =>
                desks[c].items \in Seq(NoteIds) /\ Len(desks[c].items) <= PageLimit(AskedPage(c))
          /\ ~moved[c].erased => Met(c)
          /\ ~moved[c].written => Behind(c)

WalksInv == NotesInv /\ \A c \in Clients : WalkOK(c)

(* What a walk has under way.                                              *)
LEMMA OnAWalk ==
    ASSUME DesksTyped, NEW c \in Clients, Walking(c)
    PROVE  /\ Asks(c) \in Errand /\ Asks(c).size \in I64
           /\ Asks(c).by \in Authors /\ Asks(c).order \in Orderings
           /\ desks[c].number \in 1..Top
           /\ \/ AtStep(c, "rows") /\ Follows(c) = <<"count">> /\ ~AtStep(c, "count")
              \/ AtStep(c, "count") /\ Follows(c) = <<>> /\ ~AtStep(c, "rows")
<1>1. Asks(c) \in Errand /\ LeftToDo(Asks(c).deed, desks[c].plan) /\ DeskOK(desks[c])
      /\ Working(c) /\ Asks(c).deed = "walk"
      BY Underway DEF Walking
<1>2. desks[c].plan = <<"rows", "count">> \/ desks[c].plan = <<"count">>
      BY <1>1 DEF LeftToDo
<1>3. /\ Asks(c).size \in I64 /\ Asks(c).by \in Authors /\ Asks(c).order \in Orderings
      /\ desks[c].number \in 1..Top
      BY <1>1 DEF Errand, DeskOK
<1>4. /\ Head(<<"rows", "count">>) = "rows" /\ Tail(<<"rows", "count">>) = <<"count">>
      /\ Head(<<"count">>) = "count" /\ Tail(<<"count">>) = <<>>
      BY OneLeft, TwoLeft
<1>5. \/ AtStep(c, "rows") /\ Follows(c) = <<"count">> /\ ~AtStep(c, "count")
      \/ AtStep(c, "count") /\ Follows(c) = <<>> /\ ~AtStep(c, "rows")
      BY <1>1, <1>2, <1>4 DEF AtStep, Follows
<1>6. QED BY <1>1, <1>3, <1>5

LEMMA PageOfAWalk ==
    ASSUME DesksTyped, NEW c \in Clients, Walking(c), Asks(c).size > 0
    PROVE  LET o == PageOffset(AskedPage(c))
               l == PageLimit(AskedPage(c))
               after == PageOffset(Queried([number |-> desks[c].number + 1,
                                            size |-> Asks(c).size]))
           IN /\ l \in 1..Top /\ o \in 0..Top /\ after \in 0..Top
              /\ desks[c].number = 1 => o = 0
              /\ desks[c].number = Top => o >= Top - 1
              /\ \A r \in 0..l : o + r < Top => o + r <= after /\ (r = l => o + r = after)
<1> DEFINE n == desks[c].number
           size == Asks(c).size
<1>1. n \in 1..Top /\ size \in I64 /\ size > 0
      BY OnAWalk
<1>2. AskedPage(c) = Queried([number |-> n, size |-> size])
      BY DEF AskedPage
<1> HIDE DEF n, size
<1>3. PagesInTurn(n, size)
      BY <1>1, PagesMeet
<1>4. QED BY <1>2, <1>3 DEF n, size, PagesInTurn

(* The rows a walk goes through.                                           *)
RowsStand(c) ==
    /\ Keyed(Lined(c)) /\ IsFiniteSet(Lined(c))
    /\ Cardinality(Lined(c)) <= Cardinality(Of(Asks(c).by))
    /\ Cardinality(Of(Asks(c).by)) \in 0..Top
    /\ \A i \in Of(Asks(c).by) :
          /\ LineOf(c, i) \in Lined(c)
          /\ Place(c, i) \in Nat /\ Place(c, i) < Cardinality(Of(Asks(c).by))
    /\ \A r \in Lined(c) : r.id \in Of(Asks(c).by) /\ LineOf(c, r.id) = r
    /\ Of(Asks(c).by) \subseteq NoteIds

Standing == \A c \in Clients : NotesTypeOK /\ Walking(c) => RowsStand(c)

LEMMA RowsOfAWalk == Standing
<1> SUFFICES ASSUME NotesTypeOK, NEW c \in Clients, Walking(c)
             PROVE  RowsStand(c)
    BY DEF Standing
<1> DEFINE own == Of(Asks(c).by)
           field == Asks(c).order.field
<1>1. notes \in Drawer /\ Asks(c).order \in Orderings
      BY OnAWalk DEF NotesTypeOK
<1>2. field \in {"id", "body", "created_at"}
      BY <1>1 DEF Orderings, NoteTable
<1>3. own \subseteq NoteIds /\ \A i \in own : notes[i] \in Note
      BY <1>1 DEF Of, Written, Drawer
<1>4. \A i \in own : KeyOf(i, field) \in Int
      BY <1>2, <1>3, NotesAssumption DEF KeyOf, NotesAssumption, Note, NoteIds
<1>5. MaxNotes \in 0..Top /\ Top \in Nat
      BY NotesAssumption, PagingAssumption DEF NotesAssumption, PagingAssumption
<1>6. IsFiniteSet(NoteIds) /\ Cardinality(NoteIds) = MaxNotes
      BY <1>5, FS_Interval DEF NoteIds
<1>7. IsFiniteSet(own) /\ Cardinality(own) \in Nat /\ Cardinality(own) <= MaxNotes
      BY <1>3, <1>6, FS_Subset, FS_CardinalityType
<1>8. Lined(c) = {LineOf(c, i) : i \in own}
      BY DEF Lined, Lines, LineOf
<1>9. \A i \in own : LineOf(c, i).id = i /\ LineOf(c, i).key = KeyOf(i, field)
      BY DEF LineOf
<1>10. Keyed(Lined(c))
      BY <1>3, <1>4, <1>8, <1>9 DEF Keyed, NoteIds
<1>11. IsFiniteSet(Lined(c)) /\ Cardinality(Lined(c)) <= Cardinality(own)
  <2> DEFINE f == [i \in own |-> LineOf(c, i)]
  <2>1. f \in Surjection(own, Lined(c))
        BY <1>8 DEF Surjection
  <2>2. QED BY <1>7, <2>1, FS_Surjection
<1>12. \A i \in own : Place(c, i) \in 0..Cardinality(Lined(c)) - 1
  <2> TAKE i \in own
  <2>1. Compares(Lined(c), Arranged(Lined(c), Asks(c).order.ascending))
        BY <1>10, RowsCompare
  <2>2. LineOf(c, i) \in Lined(c)
        BY <1>8
  <2>3. QED BY <1>11, <2>1, <2>2, RanksTellApart DEF Place
<1>13. Cardinality(Lined(c)) \in Nat
      BY <1>11, FS_CardinalityType
<1>14. \A i \in own : Place(c, i) \in Nat /\ Place(c, i) < Cardinality(own)
      BY <1>7, <1>11, <1>12, <1>13
<1> HIDE DEF own
<1>15. \A r \in Lined(c) : r.id \in own /\ LineOf(c, r.id) = r
      BY <1>8, <1>9
<1>16. QED BY <1>3, <1>5, <1>7, <1>8, <1>10, <1>11, <1>14, <1>15 DEF own, RowsStand

LEMMA RowsThen == Standing'
BY RowsOfAWalk, PTL

(* No note changes hands or gets any older.                                *)
NotesStay ==
    \A i \in Written \cap Written' : /\ notes'[i].author = notes[i].author
                                     /\ notes'[i].created = notes[i].created

LEMMA NotesDoStay ==
    ASSUME NotesTypeOK, NotesNext
    PROVE  NotesStay
<1>1. notes \in Drawer
      BY DEF NotesTypeOK
<1>2. CASE notes' = notes
      BY <1>2 DEF NotesStay
<1>3. ASSUME NEW c \in Clients, WriteNote(c)
      PROVE  NotesStay
  <2>1. PICK i \in NoteIds :
            /\ NextNote(i)
            /\ notes' = [notes EXCEPT ![i] = [author |-> Asks(c).by, body |-> Asks(c).body,
                                              created |-> today]]
        BY <1>3 DEF WriteNote
  <2>2. i \notin Written
        BY <2>1 DEF NextNote, NoteIds
  <2>3. QED BY <1>1, <2>1, <2>2 DEF Drawer, NotesStay, Written
<1>4. ASSUME NEW c \in Clients, PutNote(c), notes' # notes
      PROVE  NotesStay
  <2>1. notes' = [notes EXCEPT ![Asks(c).note].body = Asks(c).body] /\ Asks(c).note \in Written
        BY <1>4 DEF PutNote
  <2>2. notes[Asks(c).note] \in Note /\ Asks(c).note \in NoteIds
        BY <1>1, <2>1 DEF Written, Drawer
  <2>3. /\ notes'[Asks(c).note].author = notes[Asks(c).note].author
        /\ notes'[Asks(c).note].created = notes[Asks(c).note].created
        /\ \A j \in NoteIds \ {Asks(c).note} : notes'[j] = notes[j]
        BY <1>1, <2>1, <2>2 DEF Drawer, Note
  <2>4. QED BY <2>3 DEF NotesStay, Written
<1>5. ASSUME NEW c \in Clients, EraseNote(c)
      PROVE  NotesStay
      BY <1>1, <1>5 DEF EraseNote, Drawer, NotesStay, Written
<1>6. QED BY <1>2, <1>3, <1>4, <1>5
          DEF NotesNext, NextDay, Come, ErrandStep, Load, FetchRows, CountRows, Leave

(* While others act, what has been met stays met, in its place or behind   *)
(* it, unless a row came; and what there was stays, unless one has gone.   *)
LEMMA WalkWaits ==
    ASSUME NotesInv, NotesTypeOK', NotesStay, RememberWalks,
           NEW c \in Clients, WalkOK(c), Walking(c), desks'[c] = desks[c]
    PROVE  WalkOK(c)'
<1> DEFINE by == Asks(c).by
           field == Asks(c).order.field
           own == Of(by)
<1>1. /\ Asks(c)' = Asks(c) /\ Walking(c)' /\ AskedPage(c)' = AskedPage(c)
      /\ AtStep(c, "count")' = AtStep(c, "count") /\ Reached(c)' = Reached(c)
      BY DEF Asks, Walking, Working, AtStep, AskedPage, Reached
<1>2. /\ met'[c] = met[c] /\ stayed'[c] = stayed[c] \cap Written'
      /\ moved'[c].erased = (moved[c].erased \/ Erased(c))
      /\ moved'[c].written = (moved[c].written \/ Wrote(c))
      BY <1>1 DEF RememberWalks, DeskActs, Comes, Walking
<1>3. CASE ~(Asks(c).size > 0)
      BY <1>1, <1>3 DEF WalkOK
<1>4. CASE Asks(c).size > 0
  <2>1. /\ met[c] \in Seq(NoteIds) /\ stayed[c] \subseteq own
        /\ AtStep(c, "count") =>
              desks[c].items \in Seq(NoteIds) /\ Len(desks[c].items) <= PageLimit(AskedPage(c))
        /\ ~moved[c].erased => Met(c)
        /\ ~moved[c].written => Behind(c)
        BY <1>4 DEF WalkOK
  <2>2. Asks(c).order \in Orderings
        BY OnAWalk DEF NotesInv, NotesTypeOK
  <2>3. field \in {"id", "body", "created_at"}
        BY <2>2 DEF Orderings, NoteTable
  <2>4. \A i \in Written \cap Written' :
            notes'[i].body = notes[i].body \/ field # "body" =>
                KeyOf(i, field)' = KeyOf(i, field)
        BY <1>1, <2>3 DEF KeyOf, NotesStay
  <2>5. Of(Asks(c).by)' = {i \in Written' : notes'[i].author = by}
        BY <1>1 DEF Of
  <2>6. stayed'[c] \subseteq Of(Asks(c).by)'
        BY <1>2, <2>1, <2>5 DEF Of, NotesStay
  <2>7. /\ \A i : LineOf(c, i)' = [id |-> i, key |-> KeyOf(i, field)']
        /\ Lined(c)' = {LineOf(c, i)' : i \in Of(Asks(c).by)'}
        /\ Lined(c) = {LineOf(c, i) : i \in own}
        /\ \A i : Place(c, i)' = Rank(Lined(c)', Arranged(Lined(c)', Asks(c).order.ascending),
                                      LineOf(c, i)')
        BY <1>1 DEF LineOf, Lined, Lines, Place, Arranged, Rank, Foregoing, ComesBefore
  <2>8. RowsStand(c) /\ RowsStand(c)'
        BY <1>1, RowsOfAWalk, RowsThen DEF NotesInv, Standing
  <2>9. Reached(c) \in Nat
    <3>1. DesksTyped
          BY DEF NotesInv, NotesTypeOK
    <3>2. PageOffset(AskedPage(c)) \in 0..Top
          BY <1>4, <3>1, PageOfAWalk
    <3>3. QED BY <2>1, <3>2 DEF Reached
  <2>10. ASSUME ~moved'[c].erased
        PROVE  Met(c)'
    <3>1. ~Erased(c) /\ Met(c)
          BY <1>2, <2>1, <2>10
    <3>2. \A i \in own : i \in Written' /\ ~Reworded(c, i)
          BY <3>1 DEF Erased, Written, Of
    <3>3. \A i \in own : i \in Of(Asks(c).by)' /\ KeyOf(i, field)' = KeyOf(i, field)
          BY <2>4, <2>5, <3>2 DEF Of, NotesStay, Reworded
    <3>4. \A i \in own : LineOf(c, i)' = LineOf(c, i)
          BY <2>7, <3>3 DEF LineOf
    <3>5. Lined(c) \subseteq Lined(c)'
          BY <2>7, <3>3, <3>4
    <3>6. \A i \in own : Place(c, i) <= Place(c, i)'
      <4> TAKE i \in own
      <4>1. LineOf(c, i) \in Lined(c)
            BY <2>8 DEF RowsStand
      <4>2. QED BY <2>7, <2>8, <3>4, <3>5, <4>1, PlacesGrow DEF Place, RowsStand
    <3>7. \A i \in own : Place(c, i) \in Nat /\ Place(c, i)' \in Nat
          BY <2>8, <3>3 DEF RowsStand
    <3>8. \A i \in stayed'[c] : Place(c, i)' < Reached(c)' => i \in ToSet(met'[c])
      <4> TAKE i \in stayed'[c]
      <4> HAVE Place(c, i)' < Reached(c)'
      <4>1. i \in stayed[c] /\ i \in own
            BY <1>2, <2>1
      <4>2. Place(c, i) < Reached(c)
            BY <1>1, <2>9, <3>6, <3>7, <4>1
      <4>3. QED BY <1>2, <3>1, <4>1, <4>2 DEF Met
    <3>9. QED BY <1>1, <1>2, <3>1, <3>8 DEF Met
  <2>11. ASSUME ~moved'[c].written
         PROVE  Behind(c)'
    <3>1. ~Wrote(c) /\ Behind(c)
          BY <1>2, <2>1, <2>11
    <3>2. \A i \in Of(Asks(c).by)' : i \in own /\ ~Reworded(c, i)
          BY <2>5, <3>1 DEF Wrote, Written
    <3>3. \A i \in Of(Asks(c).by)' : KeyOf(i, field)' = KeyOf(i, field)
          BY <2>4, <2>5, <3>2 DEF Of, Reworded
    <3>4. \A i \in Of(Asks(c).by)' : LineOf(c, i)' = LineOf(c, i)
          BY <2>7, <3>3 DEF LineOf
    <3>5. Lined(c)' \subseteq Lined(c)
          BY <2>7, <3>2, <3>4
    <3>6. \A i \in Of(Asks(c).by)' : Place(c, i)' <= Place(c, i)
          BY <2>7, <2>8, <3>4, <3>5, PlacesGrow DEF Place, RowsStand
    <3>7. \A i \in Of(Asks(c).by)' : Place(c, i) \in Nat /\ Place(c, i)' \in Nat
          BY <2>8, <3>2 DEF RowsStand
    <3>8. \A i \in ToSet(met'[c]) \cap Of(Asks(c).by)' : Place(c, i)' < Reached(c)'
      <4> TAKE i \in ToSet(met'[c]) \cap Of(Asks(c).by)'
      <4>1. Place(c, i) < Reached(c)
            BY <1>2, <3>1, <3>2 DEF Behind
      <4>2. QED BY <1>1, <2>9, <3>6, <3>7, <4>1
    <3>9. QED BY <1>2, <3>1, <3>8 DEF Behind
  <2>12. QED BY <1>1, <1>2, <2>1, <2>6, <2>10, <2>11 DEF WalkOK
<1>5. QED BY <1>3, <1>4

(* What is met on a page, behind what was met before.                      *)
LEMMA OneBehindTheOther ==
    ASSUME NEW S, NEW a \in Seq(S), NEW b \in Seq(S)
    PROVE  /\ a \o b \in Seq(S) /\ ToSet(a \o b) = ToSet(a) \cup ToSet(b)
           /\ \A k \in 1..Len(b) : b[k] \in ToSet(b)
           /\ IsInjective(a) /\ IsInjective(b) /\ ToSet(a) \cap ToSet(b) = {} =>
                IsInjective(a \o b)
<1> DEFINE s == a \o b
           m == Len(a)
           n == Len(b)
<1>1. /\ s \in Seq(S) /\ Len(s) = m + n /\ m \in Nat /\ n \in Nat
      /\ \A k \in 1..m : s[k] = a[k]
      /\ \A k \in 1..n : s[m + k] = b[k]
      /\ DOMAIN s = 1..m + n /\ DOMAIN a = 1..m /\ DOMAIN b = 1..n
      OBVIOUS
<1> HIDE DEF s, m, n
<1>2. \A k \in 1..m + n : k \in 1..m \/ (k - m \in 1..n /\ k = m + (k - m))
      BY <1>1
<1>3. ToSet(s) = ToSet(a) \cup ToSet(b)
  <2>1. ASSUME NEW k \in 1..m + n PROVE s[k] \in ToSet(a) \cup ToSet(b)
    <3>1. CASE k \in 1..m
      <4>1. s[k] = a[k] /\ k \in DOMAIN a
            BY <1>1, <3>1
      <4>2. QED BY <4>1 DEF ToSet
    <3>2. CASE k - m \in 1..n /\ k = m + (k - m)
      <4>1. s[k] = b[k - m] /\ k - m \in DOMAIN b
            BY <1>1, <3>2
      <4>2. QED BY <4>1 DEF ToSet
    <3>3. QED BY <1>2, <3>1, <3>2
  <2>2. \A k \in 1..m : k \in 1..m + n /\ a[k] = s[k]
        BY <1>1
  <2>3. \A k \in 1..n : m + k \in 1..m + n /\ b[k] = s[m + k]
        BY <1>1
  <2>4. ToSet(a) \subseteq ToSet(s)
        BY <1>1, <2>2 DEF ToSet
  <2>5. ToSet(b) \subseteq ToSet(s)
        BY <1>1, <2>3, ZenonT(60) DEF ToSet
  <2>6. ToSet(s) \subseteq ToSet(a) \cup ToSet(b)
        BY <1>1, <2>1 DEF ToSet
  <2>7. QED BY <2>4, <2>5, <2>6
<1>4. ASSUME IsInjective(a), IsInjective(b), ToSet(a) \cap ToSet(b) = {}
      PROVE  IsInjective(s)
  <2> SUFFICES ASSUME NEW j \in 1..m + n, NEW k \in 1..m + n, s[j] = s[k]
               PROVE  j = k
      BY <1>1 DEF IsInjective
  <2>1. \A x \in 1..m, y \in 1..n : a[x] # b[y]
        BY <1>1, <1>4 DEF ToSet
  <2>2. CASE j \in 1..m /\ k \in 1..m
        BY <1>1, <1>4, <2>2 DEF IsInjective
  <2>3. CASE j \in 1..m /\ k - m \in 1..n
    <3>1. a[j] = b[k - m]
          BY <1>1, <1>2, <2>3
    <3>2. QED BY <2>1, <2>3, <3>1
  <2>4. CASE j - m \in 1..n /\ k \in 1..m
    <3>1. b[j - m] = a[k]
          BY <1>1, <1>2, <2>4
    <3>2. QED BY <2>1, <2>4, <3>1
  <2>5. CASE j - m \in 1..n /\ k - m \in 1..n
    <3>1. b[j - m] = b[k - m]
          BY <1>1, <1>2, <2>5
    <3>2. j - m = k - m
          BY <1>1, <1>4, <2>5, <3>1 DEF IsInjective
    <3>3. QED BY <1>1, <3>2
  <2>6. QED BY <1>2, <2>2, <2>3, <2>4, <2>5
<1>5. \A k \in 1..Len(b) : b[k] \in ToSet(b)
      BY <1>1 DEF ToSet, n
<1>6. QED BY <1>1, <1>3, <1>4, <1>5 DEF s

(* The desk of a walk that has read the rows of a page.                    *)
LEMMA DeskFetches ==
    ASSUME NotesInv, NEW c \in Clients, FetchRows(c)
    PROVE  /\ Walking(c) /\ Walking(c)' /\ AtStep(c, "rows") /\ AtStep(c, "count")'
           /\ Asks(c)' = Asks(c) /\ desks'[c].number = desks[c].number
           /\ desks'[c] # desks[c]
           /\ desks'[c].items =
                LET rows == Fetched(InOrder(Asks(c).by, Asks(c).order), AskedPage(c)) IN
                [k \in DOMAIN rows |-> rows[k].id]
<1> DEFINE rows == Fetched(InOrder(Asks(c).by, Asks(c).order), AskedPage(c))
           ids == [k \in DOMAIN rows |-> rows[k].id]
           d == [desks[c] EXCEPT !.plan = Follows(c), !.items = ids]
<1>1. desks' = [desks EXCEPT ![c] = d] /\ AtStep(c, "rows")
      BY DEF FetchRows, Desk
<1> HIDE DEF rows, ids
<1>2. /\ DesksTyped /\ DeskOK(desks[c]) /\ LeftToDo(Asks(c).deed, desks[c].plan)
      /\ Working(c) /\ Head(desks[c].plan) = "rows"
      BY <1>1, Underway DEF AtStep, NotesInv, NotesTypeOK
<1>3. desks'[c] = d
      BY <1>1, <1>2 DEF DesksTyped
<1>4. Rewritten(d, desks[c].errand, Follows(c), desks[c].number, ids)
  <2>1. Rewritten(desks[c], desks[c].errand, desks[c].plan, desks[c].number, desks[c].items)
        BY <1>2 DEF DeskOK, Rewritten
  <2>2. QED BY <2>1, PartsOfADesk
<1> HIDE DEF d
<1>5. Asks(c).deed = "walk" /\ desks[c].plan = <<"rows", "count">>
      BY <1>2, OneLeft, TwoLeft DEF LeftToDo
<1>6. Follows(c) = <<"count">> /\ Follows(c) # <<>> /\ Head(Follows(c)) = "count"
      BY <1>5, OneLeft, TwoLeft DEF Follows
<1>7. desks'[c].errand = desks[c].errand /\ desks'[c].plan = Follows(c)
      /\ desks'[c].number = desks[c].number /\ desks'[c].items = ids
      BY <1>3, <1>4 DEF Rewritten
<1>8. Working(c)' /\ AtStep(c, "count")' /\ Asks(c)' = Asks(c)
      BY <1>6, <1>7 DEF Working, AtStep, Asks
<1>9. desks'[c] # desks[c]
  <2>1. Head(desks[c].plan) = "rows" /\ Head(desks'[c].plan) = "count"
        BY <1>2, <1>6, <1>7
  <2>2. QED BY <2>1
<1>10. QED BY <1>1, <1>2, <1>5, <1>7, <1>8, <1>9 DEF Walking, ids, rows

(* A page is read: its rows are met, and they are of the places behind     *)
(* those reached before.                                                   *)
LEMMA FetchWalks ==
    ASSUME NotesInv, RememberWalks, NEW c \in Clients, WalkOK(c), FetchRows(c)
    PROVE  WalkOK(c)'
<1> DEFINE rows == Lined(c)
           asc == Asks(c).order.ascending
           own == Of(Asks(c).by)
           page == AskedPage(c)
           o == PageOffset(page)
           l == PageLimit(page)
           got == Fetched(Ordered(rows, asc), page)
           ids == [k \in DOMAIN got |-> got[k].id]
<1>1. /\ Walking(c) /\ Walking(c)' /\ AtStep(c, "rows") /\ AtStep(c, "count")'
      /\ Asks(c)' = Asks(c) /\ desks'[c].number = desks[c].number
      /\ desks'[c] # desks[c] /\ desks'[c].items = ids
      BY DeskFetches DEF InOrder, Lined
<1>2. notes' = notes /\ Written' = Written
      BY DEF FetchRows, Written
<1>3. /\ met'[c] = met[c] \o ids
      /\ stayed'[c] = stayed[c] \cap Written
      /\ moved[c].erased => moved'[c].erased
      /\ moved[c].written => moved'[c].written
      BY <1>1, <1>2 DEF RememberWalks, DeskActs, Comes, Walking
<1>4. CASE ~(Asks(c).size > 0)
      BY <1>1, <1>4 DEF WalkOK
<1>5. CASE Asks(c).size > 0
  <2>1. NotesTypeOK /\ DesksTyped
        BY DEF NotesInv, NotesTypeOK
  <2>2. RowsStand(c)
        BY <1>1, <2>1, RowsOfAWalk DEF Standing
  <2>3. o \in 0..Top /\ l \in 1..Top
        BY <1>1, <1>5, <2>1, PageOfAWalk
  <2>4. IsFiniteSet(rows) /\ Keyed(rows) /\ Top \in Nat
        BY <2>2, PagingAssumption DEF RowsStand, PagingAssumption
  <2> HIDE DEF own, page, o, l, got, rows, asc
  <2>5. /\ got \in Seq(rows) /\ Len(got) \in Nat /\ Len(got) <= l
        /\ Len(got) < l => \A r \in rows : Rank(rows, Arranged(rows, asc), r) < o + Len(got)
        /\ \A j \in 1..Len(got) : Rank(rows, Arranged(rows, asc), got[j]) = o + j - 1
        /\ \A r \in rows :
              LET k == Rank(rows, Arranged(rows, asc), r) IN
              o <= k /\ k < o + Len(got) => k - o + 1 \in 1..Len(got) /\ got[k - o + 1] = r
    <3>1. PageOffset(page) \in Nat /\ PageLimit(page) \in Nat
          BY <2>3, <2>4 DEF o, l
    <3>2. PageInPlace(rows, asc, page)
          BY <2>4, <3>1, PageHolds
    <3>3. QED BY <3>2 DEF PageInPlace, got, o, l
  <2>6. /\ \A i \in own : /\ LineOf(c, i) \in rows /\ Place(c, i) \in Nat
                          /\ Place(c, i) = Rank(rows, Arranged(rows, asc), LineOf(c, i))
        /\ \A r \in rows : r.id \in own /\ LineOf(c, r.id) = r
        /\ own \subseteq NoteIds
        BY <2>2 DEF RowsStand, Place, own, rows, asc
  <2>7. DOMAIN got = 1..Len(got) /\ \A k \in 1..Len(got) : got[k] \in rows
        BY <2>5
  <2>8. /\ ids \in Seq(NoteIds) /\ Len(ids) = Len(got)
        /\ \A k \in 1..Len(got) : ids[k] \in own /\ LineOf(c, ids[k]) = got[k]
        BY <2>5, <2>6, <2>7
  <2> HIDE DEF ids
  <2>9. \A k \in 1..Len(got) : Place(c, ids[k]) = o + k - 1
        BY <2>5, <2>6, <2>8
  <2>10. \A i \in own : o <= Place(c, i) /\ Place(c, i) < o + Len(got) => i \in ToSet(ids)
    <3> TAKE i \in own
    <3> HAVE o <= Place(c, i) /\ Place(c, i) < o + Len(got)
    <3> DEFINE k == Place(c, i) - o + 1
    <3>1. k \in 1..Len(got) /\ got[k] = LineOf(c, i)
          BY <2>5, <2>6
    <3>2. ids[k] \in own /\ LineOf(c, ids[k]) = LineOf(c, i)
          BY <2>8, <3>1
    <3>3. ids[k] = i
          BY <3>2 DEF LineOf
    <3>4. QED BY <2>8, <3>1, <3>3 DEF ToSet
  <2>11. /\ met[c] \in Seq(NoteIds) /\ stayed[c] \subseteq own
         /\ ~moved[c].erased => Met(c)
         /\ ~moved[c].written => Behind(c)
         BY <1>1, <1>5 DEF WalkOK, own
  <2>12. stayed'[c] = stayed[c] /\ stayed'[c] \subseteq own /\ Of(Asks(c).by)' = own
         BY <1>1, <1>2, <1>3, <2>11 DEF Of, own
  <2>13. met'[c] \in Seq(NoteIds) /\ ToSet(met'[c]) = ToSet(met[c]) \cup ToSet(ids)
         BY <1>3, <2>8, <2>11, OneBehindTheOther
  <2>14. AskedPage(c)' = page /\ PageOffset(AskedPage(c)') = o /\ PageLimit(AskedPage(c)') = l
         BY <1>1 DEF AskedPage, page, o, l
  <2>15. Reached(c) = o /\ Reached(c)' = o + Len(got) /\ Len(desks'[c].items) = Len(got)
    <3>1. ~AtStep(c, "count")
          BY <1>1, <2>1, OnAWalk
    <3>2. Reached(c)' = PageOffset(AskedPage(c)') + Len(desks'[c].items)
          BY <1>1 DEF Reached
    <3>3. QED BY <1>1, <2>3, <2>8, <2>14, <3>1, <3>2 DEF Reached, o, page
  <2>16. \A i : Place(c, i)' = Place(c, i)
         BY <1>1, <1>2, <2>12 DEF Place, Lined, Lines, LineOf, KeyOf, Rank, Foregoing, Arranged,
                                  own, ComesBefore
  <2>17. ASSUME ~moved'[c].erased
         PROVE  Met(c)'
    <3>1. Met(c)
          BY <1>3, <2>11, <2>17
    <3>2. \A i \in stayed[c] : Place(c, i) < o + Len(got) => i \in ToSet(met'[c])
      <4> TAKE i \in stayed[c]
      <4> HAVE Place(c, i) < o + Len(got)
      <4>1. i \in own /\ Place(c, i) \in Nat
            BY <2>6, <2>11
      <4>2. CASE Place(c, i) < o
            BY <2>13, <2>15, <3>1, <4>2 DEF Met
      <4>3. CASE o <= Place(c, i)
            BY <2>10, <2>13, <4>1, <4>3
      <4>4. QED BY <2>3, <4>1, <4>2, <4>3
    <3>3. Len(got) < l => stayed[c] \subseteq ToSet(met'[c])
          BY <2>5, <2>6, <2>11, <3>2
    <3>4. QED BY <2>12, <2>14, <2>15, <2>16, <3>2, <3>3 DEF Met
  <2>18. ASSUME ~moved'[c].written
         PROVE  Behind(c)'
    <3>1. Behind(c)
          BY <1>3, <2>11, <2>18
    <3>2. \A i \in ToSet(ids) : i \in own /\ o <= Place(c, i) /\ Place(c, i) < o + Len(got)
      <4> TAKE i \in ToSet(ids)
      <4>1. PICK k \in 1..Len(got) : i = ids[k]
            BY <2>8 DEF ToSet
      <4>2. QED BY <2>3, <2>5, <2>8, <2>9, <4>1
    <3>3. IsInjective(ids)
      <4> SUFFICES ASSUME NEW j \in 1..Len(got), NEW k \in 1..Len(got), ids[j] = ids[k]
                   PROVE  j = k
          BY <2>8 DEF IsInjective
      <4>1. o + j - 1 = o + k - 1
            BY <2>9
      <4>2. QED BY <2>3, <4>1
    <3>4. ToSet(met[c]) \cap ToSet(ids) = {}
      <4>1. \A i \in ToSet(met[c]) \cap own : Place(c, i) < o
            BY <2>15, <3>1 DEF Behind, own
      <4>2. QED BY <2>3, <2>6, <3>2, <4>1
    <3>5. IsInjective(met'[c])
          BY <1>3, <2>8, <2>11, <3>1, <3>3, <3>4, OneBehindTheOther DEF Behind
    <3>6. \A i \in ToSet(met'[c]) \cap own : Place(c, i) < o + Len(got)
      <4> TAKE i \in ToSet(met'[c]) \cap own
      <4>1. CASE i \in ToSet(ids)
            BY <3>2, <4>1
      <4>2. CASE i \in ToSet(met[c])
        <5>1. Place(c, i) < o
              BY <2>15, <3>1, <4>2 DEF Behind, own
        <5>2. QED BY <2>3, <2>5, <2>6, <5>1
      <4>3. QED BY <2>13, <4>1, <4>2
    <3>7. QED BY <2>12, <2>15, <2>16, <3>5, <3>6 DEF Behind
  <2>19. QED BY <1>1, <2>5, <2>8, <2>12, <2>13, <2>14, <2>17, <2>18 DEF WalkOK
<1>6. QED BY <1>4, <1>5

(* The desk of a walk when a page has been counted: the next page, or the  *)
(* end of it.                                                              *)
LEMMA DeskCounts ==
    ASSUME NotesInv, NEW c \in Clients, CountRows(c)
    PROVE  LET page == PageOf(AskedPage(c), desks[c].items, Cardinality(Of(Asks(c).by)))
           IN /\ Walking(c) /\ AtStep(c, "count") /\ ~AtStep(c, "rows")
              /\ page.has_more /\ desks[c].number < Top =>
                    /\ Walking(c)' /\ AtStep(c, "rows")' /\ ~AtStep(c, "count")'
                    /\ Asks(c)' = Asks(c) /\ desks'[c].number = desks[c].number + 1
              /\ ~(page.has_more /\ desks[c].number < Top) => ~Working(c)'
<1> DEFINE page == PageOf(AskedPage(c), desks[c].items, Cardinality(Of(Asks(c).by)))
           d == [Idle EXCEPT !.errand = Asks(c), !.plan = ErrandPlan("walk"),
                             !.number = desks[c].number + 1]
<1>1. /\ AtStep(c, "count")
      /\ desks' = [desks EXCEPT ![c] = IF page.has_more /\ desks[c].number < Top
                                       THEN d ELSE Idle]
      BY DEF CountRows, Desk
<1> HIDE DEF page
<1>2. /\ DesksTyped /\ LeftToDo(Asks(c).deed, desks[c].plan)
      /\ Working(c) /\ Head(desks[c].plan) = "count"
      BY <1>1, Underway DEF AtStep, NotesInv, NotesTypeOK
<1>3. Asks(c).deed = "walk"
      BY <1>2, OneLeft, TwoLeft DEF LeftToDo
<1>4. ~AtStep(c, "rows")
      BY <1>2 DEF AtStep
<1>5. Rewritten(d, Asks(c), ErrandPlan("walk"), desks[c].number + 1, Idle.items)
  <2>1. Rewritten(Idle, Idle.errand, Idle.plan, Idle.number, Idle.items)
        BY IdleDesk DEF DeskOK, Rewritten
  <2>2. QED BY <2>1, PartsOfADesk
<1> HIDE DEF d
<1>6. CASE page.has_more /\ desks[c].number < Top
  <2>1. desks'[c] = d
        BY <1>1, <1>2, <1>6 DEF DesksTyped
  <2>2. desks'[c].errand = Asks(c) /\ desks'[c].plan = <<"rows", "count">>
        /\ desks'[c].number = desks[c].number + 1
        BY <1>5, <2>1 DEF Rewritten, ErrandPlan
  <2>3. desks'[c].plan # <<>> /\ Head(desks'[c].plan) = "rows"
        BY <2>2, TwoLeft
  <2>4. QED BY <1>1, <1>2, <1>3, <1>4, <1>6, <2>2, <2>3
            DEF Walking, Working, AtStep, Asks, page
<1>7. CASE ~(page.has_more /\ desks[c].number < Top)
  <2>1. desks'[c] = Idle
        BY <1>1, <1>2, <1>7 DEF DesksTyped
  <2>2. QED BY <1>1, <1>2, <1>3, <1>4, <1>7, <2>1, IdleDesk DEF Walking, Working, page
<1>8. QED BY <1>6, <1>7

(* The next page begins behind the last: no nearer, while there is more,   *)
(* and no further if the page was full.                                    *)
LEMMA CountWalks ==
    ASSUME NotesInv, RememberWalks, NEW c \in Clients, WalkOK(c), CountRows(c), Walking(c)'
    PROVE  WalkOK(c)'
<1> DEFINE own == Of(Asks(c).by)
           page == AskedPage(c)
           o == PageOffset(page)
           l == PageLimit(page)
           m == Len(desks[c].items)
           after == PageOffset(Queried([number |-> desks[c].number + 1,
                                        size |-> Asks(c).size]))
           total == Cardinality(own)
<1>1. /\ Walking(c) /\ AtStep(c, "count") /\ ~AtStep(c, "rows")
      /\ Walking(c)' /\ AtStep(c, "rows")' /\ ~AtStep(c, "count")'
      /\ Asks(c)' = Asks(c) /\ desks'[c].number = desks[c].number + 1
      /\ Saturated(o + m) < total
  <2>1. PageOf(page, desks[c].items, total).has_more = (Saturated(o + m) < total)
        BY DEF PageOf, MoreAfter
  <2>2. Working(c)'
        BY DEF Walking
  <2>3. QED BY <2>1, <2>2, DeskCounts
<1>2. notes' = notes /\ Written' = Written
      BY DEF CountRows, Written
<1>3. /\ met'[c] = met[c]
      /\ stayed'[c] = stayed[c] \cap Written
      /\ moved[c].erased => moved'[c].erased
      /\ moved[c].written => moved'[c].written
      BY <1>1, <1>2 DEF RememberWalks, DeskActs, Comes, Walking
<1>4. CASE ~(Asks(c).size > 0)
      BY <1>1, <1>4 DEF WalkOK
<1>5. CASE Asks(c).size > 0
  <2>1. NotesTypeOK /\ DesksTyped
        BY DEF NotesInv, NotesTypeOK
  <2>2. RowsStand(c)
        BY <1>1, <2>1, RowsOfAWalk DEF Standing
  <2>3. /\ o \in 0..Top /\ l \in 1..Top /\ after \in 0..Top
        /\ \A r \in 0..l : o + r < Top => o + r <= after /\ (r = l => o + r = after)
        BY <1>1, <1>5, <2>1, PageOfAWalk
  <2>4. total \in 0..Top /\ Top \in Nat
        BY <2>2, PagingAssumption DEF RowsStand, PagingAssumption
  <2>5. /\ met[c] \in Seq(NoteIds) /\ stayed[c] \subseteq own
        /\ desks[c].items \in Seq(NoteIds) /\ m <= l
        /\ ~moved[c].erased => Met(c)
        /\ ~moved[c].written => Behind(c)
        BY <1>1, <1>5 DEF WalkOK
  <2>6. \A i \in own : Place(c, i) \in Nat
        BY <2>2 DEF RowsStand
  <2>7. m \in 0..l
        BY <2>3, <2>5
  <2>8. AskedPage(c)' = Queried([number |-> desks[c].number + 1, size |-> Asks(c).size])
        BY <1>1 DEF AskedPage
  <2>9. Reached(c) = o + m /\ Reached(c)' = after
    <3>1. Reached(c)' = PageOffset(AskedPage(c)') + 0
          BY <1>1 DEF Reached
    <3>2. QED BY <1>1, <2>3, <2>8, <3>1 DEF Reached
  <2>10. stayed'[c] = stayed[c] /\ stayed'[c] \subseteq own /\ Of(Asks(c).by)' = own
         BY <1>1, <1>2, <1>3, <2>5 DEF Of
  <2>11. \A i : Place(c, i)' = Place(c, i)
         BY <1>1, <1>2, <2>10 DEF Place, Lined, Lines, LineOf, KeyOf, Rank, Foregoing, Arranged,
                                  ComesBefore
  <2> HIDE DEF own, page, o, l, m, after, total
  <2>12. o + m < Top /\ o + m <= after /\ (m = l => o + m = after)
    <3>1. o + m < Top
          BY <1>1, <2>3, <2>4, <2>7 DEF Saturated
    <3>2. QED BY <2>3, <2>7, <3>1
  <2>13. ASSUME ~moved'[c].erased
         PROVE  Met(c)'
    <3>1. Met(c)
          BY <1>3, <2>5, <2>13
    <3>2. CASE m = l
          BY <1>1, <1>3, <2>9, <2>10, <2>11, <2>12, <3>1, <3>2 DEF Met
    <3>3. CASE m # l
      <4>1. m < l
            BY <2>3, <2>7, <3>3
      <4>2. stayed[c] \subseteq ToSet(met[c])
            BY <1>1, <3>1, <4>1 DEF Met, m, l, page
      <4>3. QED BY <1>1, <1>3, <2>10, <4>2 DEF Met
    <3>4. QED BY <3>2, <3>3
  <2>14. ASSUME ~moved'[c].written
         PROVE  Behind(c)'
    <3>1. Behind(c)
          BY <1>3, <2>5, <2>14
    <3>2. \A i \in ToSet(met[c]) \cap own : Place(c, i) < after
      <4> TAKE i \in ToSet(met[c]) \cap own
      <4>1. Place(c, i) < o + m
            BY <2>9, <3>1 DEF Behind, own
      <4>2. QED BY <2>3, <2>6, <2>7, <2>12, <4>1
    <3>3. QED BY <1>3, <2>9, <2>10, <2>11, <3>1, <3>2 DEF Behind
  <2>15. QED BY <1>1, <1>3, <2>5, <2>10, <2>13, <2>14 DEF WalkOK
<1>6. QED BY <1>4, <1>5

(* A walk begins before the first row.                                     *)
LEMMA ComeWalks ==
    ASSUME NotesInv, NotesTypeOK', RememberWalks, NEW c \in Clients, WalkOK(c), Come(c),
           Walking(c)'
    PROVE  WalkOK(c)'
<1>1. PICK e \in Errands :
          desks' = [desks EXCEPT ![c] = [Idle EXCEPT !.errand = e,
                                                     !.plan = ErrandPlan(e.deed)]]
      BY DEF Come, Desk
<1>2. notes' = notes /\ ~Working(c) /\ ~Walking(c) /\ DesksTyped
      BY DEF Come, Walking, NotesInv, NotesTypeOK
<1> DEFINE d == [Idle EXCEPT !.errand = e, !.plan = ErrandPlan(e.deed)]
<1>3. desks'[c] = d
      BY <1>1, <1>2 DEF DesksTyped
<1>4. Rewritten(d, e, ErrandPlan(e.deed), Idle.number, Idle.items)
  <2>1. Rewritten(Idle, Idle.errand, Idle.plan, Idle.number, Idle.items)
        BY IdleDesk DEF DeskOK, Rewritten
  <2>2. QED BY <2>1, PartsOfADesk
<1> HIDE DEF d
<1>5. Asks(c)' = e /\ desks'[c].number = 1 /\ desks'[c].plan = ErrandPlan(e.deed)
      BY <1>3, <1>4 DEF Rewritten, Asks, Idle
<1>6. e.deed = "walk" /\ desks'[c].plan = <<"rows", "count">>
      BY <1>5 DEF Walking, ErrandPlan
<1>7. ~AtStep(c, "count")'
      BY <1>6, TwoLeft DEF AtStep
<1>8. met'[c] = <<>> /\ stayed'[c] = Of(e.by)'
  <2>1. met'[c] = met[c]
        BY <1>2 DEF RememberWalks, AtStep
  <2>2. Comes(c)
        BY <1>2 DEF Comes, Walking
  <2>3. Of(desks'[c].errand.by) = Of(e.by)
        BY <1>5 DEF Asks
  <2>4. stayed'[c] = Of(e.by)
        BY <2>2, <2>3 DEF RememberWalks
  <2>5. QED BY <1>2, <2>1, <2>4 DEF WalkOK, Of, Written
<1>9. CASE ~(e.size > 0)
      BY <1>5, <1>9 DEF WalkOK
<1>10. CASE e.size > 0
  <2>1. e \in Errand /\ Top \in Nat /\ 1 \in 1..Top
        BY NotesAssumption, PagingAssumption DEF NotesAssumption, PagingAssumption
  <2>2. e.size \in I64
        BY <2>1 DEF Errand
  <2>3. PageOffset(AskedPage(c)') = 0
    <3>1. AskedPage(c)' = Queried([number |-> 1, size |-> e.size])
          BY <1>5 DEF AskedPage
    <3>2. PagesInTurn(1, e.size)
          BY <1>10, <2>1, <2>2, PagesMeet
    <3>3. QED BY <3>1, <3>2 DEF PagesInTurn
  <2>4. Reached(c)' = 0
        BY <1>7, <2>3 DEF Reached
  <2>5. RowsStand(c)'
        BY RowsThen DEF Standing
  <2>6. \A i \in stayed'[c] : Place(c, i)' \in Nat
        BY <1>5, <1>8, <2>5 DEF RowsStand
  <2>7. \A i \in stayed'[c] : ~(Place(c, i)' < Reached(c)')
        BY <2>4, <2>6
  <2>8. Met(c)'
        BY <1>7, <2>7 DEF Met
  <2>9. ToSet(met'[c]) = {} /\ IsInjective(met'[c]) /\ met'[c] \in Seq(NoteIds)
        BY <1>8 DEF ToSet, IsInjective
  <2>10. Behind(c)'
         BY <2>9 DEF Behind
  <2>11. stayed'[c] \subseteq Of(Asks(c).by)'
         BY <1>5, <1>8
  <2>12. QED BY <1>7, <2>8, <2>9, <2>10, <2>11 DEF WalkOK
<1>11. QED BY <1>9, <1>10

LEMMA NoLongerWalking ==
    ASSUME RememberWalks, NEW c \in Clients, ~Walking(c)'
    PROVE  WalkOK(c)'
BY DEF RememberWalks, WalkOK

(* Whatever is done, by a walk or while it waits, keeps what is known of   *)
(* it.                                                                     *)
LEMMA OneErrandWalks ==
    ASSUME WalksInv, NotesTypeOK', RememberNotes, NotesNext,
           NEW d \in Clients, Come(d) \/ ErrandStep(d) \/ Leave(d), NEW c \in Clients
    PROVE  WalkOK(c)'
<1>1. /\ NotesInv /\ WalkOK(c) /\ RememberWalks /\ NotesStay /\ NotesTypeOK /\ DesksTyped
      BY NotesDoStay DEF WalksInv, RememberNotes, NotesInv, NotesTypeOK
<1>2. CASE ~Walking(c)'
      BY <1>1, <1>2, NoLongerWalking
<1>3. CASE Walking(c)' /\ c # d
  <2>1. \E r : Desk(d, r)
        BY DEF Come, ErrandStep, Load, WriteNote, PutNote, EraseNote, FetchRows, CountRows,
               Leave
  <2>2. desks'[c] = desks[c]
        BY <1>1, <1>3, <2>1 DEF Desk, DesksTyped
  <2>3. Walking(c)
        BY <1>3, <2>2 DEF Walking, Working, Asks
  <2>4. QED BY <1>1, <2>2, <2>3, WalkWaits
<1>4. CASE Walking(c)' /\ c = d
  <2>1. ~Desk(c, Idle)
    <3>1. Desk(c, Idle) => desks'[c] = Idle
          BY <1>1 DEF Desk, DesksTyped
    <3>2. QED BY <1>4, <3>1, IdleDesk DEF Walking, Working
  <2>2. ~Load(c)
    <3> SUFFICES ASSUME Load(c) PROVE FALSE
        OBVIOUS
    <3>1. Desk(c, [desks[c] EXCEPT !.plan = Follows(c)]) /\ AtStep(c, "load")
          BY <2>1 DEF Load
    <3>2. LeftToDo(Asks(c).deed, desks[c].plan) /\ DeskOK(desks[c])
          BY <1>1, <3>1, Underway DEF AtStep
    <3>3. desks'[c].errand = desks[c].errand
      <4>1. desks'[c] = [desks[c] EXCEPT !.plan = Follows(c)]
            BY <1>1, <3>1 DEF Desk, DesksTyped
      <4>2. Rewritten(desks[c], desks[c].errand, desks[c].plan, desks[c].number, desks[c].items)
            BY <3>2 DEF DeskOK, Rewritten
      <4>3. QED BY <4>1, <4>2, PartsOfADesk DEF Rewritten
    <3>4. Asks(c).deed = "walk"
          BY <1>4, <3>3 DEF Walking, Asks
    <3>5. QED BY <3>1, <3>2, <3>4, OneLeft, TwoLeft DEF LeftToDo, AtStep
  <2>3. Come(c) \/ FetchRows(c) \/ CountRows(c)
        BY <1>4, <2>1, <2>2 DEF ErrandStep, WriteNote, PutNote, EraseNote, Leave
  <2>4. QED BY <1>1, <1>4, <2>3, ComeWalks, FetchWalks, CountWalks
<1>5. QED BY <1>2, <1>3, <1>4

LEMMA StepKeepsWalks == WalksInv /\ [NotesNext /\ RememberNotes]_notesvars => WalksInv'
<1> SUFFICES ASSUME WalksInv, [NotesNext /\ RememberNotes]_notesvars PROVE WalksInv'
    OBVIOUS
<1>1. NotesInv' /\ NotesTypeOK'
      BY StepKeepsInv DEF WalksInv, NotesInv
<1> SUFFICES ASSUME NEW c \in Clients PROVE WalkOK(c)'
    BY <1>1 DEF WalksInv
<1>2. CASE UNCHANGED notesvars
  <2>1. /\ desks' = desks /\ notes' = notes
        /\ met' = met /\ stayed' = stayed /\ moved' = moved
        BY <1>2 DEF notesvars, notesHistory
  <2>2. /\ Asks(c)' = Asks(c) /\ Walking(c)' = Walking(c) /\ AskedPage(c)' = AskedPage(c)
        /\ AtStep(c, "count")' = AtStep(c, "count") /\ Reached(c)' = Reached(c)
        BY <2>1 DEF Asks, Walking, Working, AtStep, AskedPage, Reached
  <2>3. Of(Asks(c).by)' = Of(Asks(c).by)
        BY <2>1, <2>2 DEF Of, Written
  <2>4. \A i : Place(c, i)' = Place(c, i)
        BY <2>1, <2>2, <2>3 DEF Place, Lined, Lines, LineOf, KeyOf, Rank, Foregoing, Arranged,
                                ComesBefore
  <2>5. (Met(c) => Met(c)') /\ (Behind(c) => Behind(c)')
        BY <2>1, <2>2, <2>3, <2>4 DEF Met, Behind
  <2>6. WalkOK(c)
        BY DEF WalksInv
  <2>7. QED BY <2>1, <2>2, <2>3, <2>5, <2>6 DEF WalkOK
<1>3. CASE RememberNotes /\ NextDay
  <2>1. desks'[c] = desks[c] /\ RememberWalks /\ NotesInv /\ WalkOK(c) /\ NotesStay
        BY <1>3, NotesDoStay DEF NextDay, RememberNotes, WalksInv, NotesInv, NotesNext
  <2>2. CASE Walking(c)
        BY <1>1, <2>1, <2>2, WalkWaits
  <2>3. CASE ~Walking(c)
    <3>1. ~Walking(c)'
          BY <2>1, <2>3 DEF Walking, Working, Asks
    <3>2. QED BY <2>1, <3>1, NoLongerWalking
  <2>4. QED BY <2>2, <2>3
<1>4. CASE RememberNotes /\ \E d \in Clients : Come(d) \/ ErrandStep(d) \/ Leave(d)
      BY <1>1, <1>4, OneErrandWalks DEF NotesNext
<1>5. QED BY <1>2, <1>3, <1>4 DEF NotesNext

LEMMA InitiallyWalks == NotesHistoryInit => WalksInv
<1> SUFFICES ASSUME NotesHistoryInit, NEW c \in Clients PROVE WalkOK(c)
    BY InitiallyInv DEF WalksInv
<1>1. met[c] = <<>> /\ desks[c] = Idle
      BY DEF NotesHistoryInit, NotesInit
<1>2. QED BY <1>1, IdleDesk DEF WalkOK, Walking, Working

(* The step that ends a walk at its last page.                             *)
AddUp ==
    \A c \in Clients : AtStep(c, "count") /\ ~Working(c)' /\ CountRows(c) /\ Asks(c).size > 0 =>
        /\ ~moved[c].erased => stayed[c] \subseteq ToSet(met[c])
        /\ ~moved[c].written => IsInjective(met[c])

LEMMA WalksAddUp == WalksInv => AddUp
<1> SUFFICES ASSUME WalksInv, NEW c \in Clients, AtStep(c, "count"), ~Working(c)', CountRows(c),
                    Asks(c).size > 0
             PROVE  /\ ~moved[c].erased => stayed[c] \subseteq ToSet(met[c])
                    /\ ~moved[c].written => IsInjective(met[c])
    BY DEF AddUp
<1> DEFINE page == AskedPage(c)
           o == PageOffset(page)
           l == PageLimit(page)
           m == Len(desks[c].items)
           total == Cardinality(Of(Asks(c).by))
<1>1. NotesInv /\ NotesTypeOK /\ DesksTyped /\ WalkOK(c)
      BY DEF WalksInv, NotesInv, NotesTypeOK
<1>2. Walking(c) /\ (~(Saturated(o + m) < total) \/ ~(desks[c].number < Top))
  <2>1. PageOf(page, desks[c].items, total).has_more = (Saturated(o + m) < total)
        BY DEF PageOf, MoreAfter
  <2>2. ~Walking(c)'
        BY DEF Walking
  <2>3. QED BY <1>1, <2>1, <2>2, DeskCounts
<1>3. RowsStand(c) /\ Top \in Nat
      BY <1>1, <1>2, RowsOfAWalk, PagingAssumption DEF Standing, PagingAssumption
<1>4. o \in 0..Top /\ l \in 1..Top /\ (desks[c].number = Top => o >= Top - 1)
      BY <1>1, <1>2, PageOfAWalk
<1>5. desks[c].number \in 1..Top
      BY <1>1, <1>2, OnAWalk
<1>6. /\ stayed[c] \subseteq Of(Asks(c).by)
      /\ desks[c].items \in Seq(NoteIds) /\ m <= l
      /\ ~moved[c].erased => Met(c)
      /\ ~moved[c].written => Behind(c)
      BY <1>1, <1>2 DEF WalkOK
<1>7. total \in 0..Top /\ m \in Nat
      /\ \A i \in Of(Asks(c).by) : Place(c, i) \in Nat /\ Place(c, i) < total
      BY <1>3, <1>6 DEF RowsStand
<1>8. Reached(c) = o + m
      BY DEF Reached
<1>9. ASSUME ~moved[c].erased
      PROVE  stayed[c] \subseteq ToSet(met[c])
  <2>1. Met(c)
        BY <1>6, <1>9
  <2> HIDE DEF o, l, m, total
  <2>2. CASE ~(Saturated(o + m) < total)
    <3>1. total <= o + m
          BY <1>3, <1>4, <1>7, <2>2 DEF Saturated
    <3>2. \A i \in stayed[c] : Place(c, i) < Reached(c)
          BY <1>4, <1>6, <1>7, <1>8, <3>1
    <3>3. QED BY <2>1, <3>2 DEF Met
  <2>3. CASE Saturated(o + m) < total /\ ~(desks[c].number < Top)
    <3>1. desks[c].number = Top
          BY <1>3, <1>5, <2>3
    <3>2. o >= Top - 1 /\ o + m < Top
          BY <1>3, <1>4, <1>7, <2>3, <3>1 DEF Saturated
    <3>3. m < l
          BY <1>3, <1>4, <1>7, <3>2
    <3>4. QED BY <2>1, <3>3 DEF Met, m, l, page
  <2>4. QED BY <1>2, <2>2, <2>3
<1>10. QED BY <1>6, <1>9 DEF Behind

(* Of the notes that were theirs all along, whoever walks the pages to the *)
(* end misses none unless one of theirs was erased, and meets none twice   *)
(* unless one was written: for any number of others, any notes, any order  *)
(* and pages of any size.                                                  *)
THEOREM WalksMissNothing == NotesHistorySpec => PagesAddUp
<1>1. WalksInv => AddUp
      BY WalksAddUp
<1>2. QED BY <1>1, InitiallyWalks, StepKeepsWalks, PTL
          DEF NotesHistorySpec, PagesAddUp, AddUp, notesvars

----------------------------------------------------------------------------
(* The pages of any table, in any of its orders and of any size.           *)

LEMMA Divided ==
    ASSUME NEW a \in Nat, NEW b \in Nat, b > 0
    PROVE  /\ a \div b \in Nat
           /\ (a \div b) * b <= a
           /\ a < (a \div b) * b + b
OBVIOUS

LEMMA MoreOfThem ==
    ASSUME NEW m \in Nat, NEW n \in Nat, m <= n, NEW b \in Nat
    PROVE  m * b <= n * b /\ n * b = m * b + (n - m) * b
<1>1. n - m \in Nat /\ (n - m) * b \in Nat
      OBVIOUS
<1>2. n * b = m * b + (n - m) * b
      OBVIOUS
<1>3. QED BY <1>1, <1>2

(* The place of a row is the number of rows before it.                     *)
PlaceIn(T, ascending, r) == Rank(T, Arranged(T, ascending), r)

(* One page of a table, as a walk meets it.                                *)
PageThere(n, size, T, ascending) ==
    LET page == Page(n, size, Ordered(T, ascending))
        before == (n - 1) * size
    IN /\ page.items \in Seq(T) /\ Len(page.items) \in Nat
       /\ page.has_more <=> n * size < Cardinality(T)
       /\ before >= Cardinality(T) => page.items = <<>>
       /\ \A i \in DOMAIN page.items :
             /\ page.items[i] \in T
             /\ PlaceIn(T, ascending, page.items[i]) = before + i - 1
             /\ i \in 1..size
       /\ \A r \in T : before <= PlaceIn(T, ascending, r) /\ PlaceIn(T, ascending, r) < n * size =>
             \E i \in DOMAIN page.items : page.items[i] = r

LEMMA LengthInOrder ==
    ASSUME NEW T, IsFiniteSet(T), Keyed(T), NEW ascending
    PROVE  Len(Ordered(T, ascending)) = Cardinality(T)
<1>1. Compares(T, Arranged(T, ascending)) /\ Cardinality(T) \in Nat
      BY RowsCompare, FS_CardinalityType
<1>2. InTurn(T, Arranged(T, ascending)) \in [1..Cardinality(T) -> T]
      BY <1>1, Sorted
<1>3. QED BY <1>1, <1>2 DEF Ordered, Arranged

LEMMA PageOfATable ==
    ASSUME NEW T, IsFiniteSet(T), Keyed(T), 2 * Cardinality(T) <= Top, NEW ascending,
           NEW n \in 1..Top, NEW size \in 1..Top
    PROVE  PageThere(n, size, T, ascending)
<1> DEFINE asked == [number |-> n, size |-> size]
           s == Ordered(T, ascending)
           got == Fetched(s, asked)
           total == Cardinality(T)
           o == PageOffset(asked)
           before == (n - 1) * size
           after == n * size
           place(r) == PlaceIn(T, ascending, r)
           more == Saturated(o + Len(got)) < total
<1>1. Top \in Nat /\ total \in Nat /\ total <= Top
      BY FS_CardinalityType, PagingAssumption DEF PagingAssumption
<1>2. before \in Nat /\ after \in Nat /\ after = before + size
      BY <1>1
<1>3. PageLimit(asked) = size /\ o = Saturated(before)
      BY <1>1, <1>2 DEF PageLimit, PageOffset, AtLeastNone
<1>4. o \in Nat /\ (before < total => o = before) /\ (before >= total => o >= total)
      BY <1>1, <1>2, <1>3 DEF Saturated
<1>5. /\ Page(n, size, s).items = got
      /\ Page(n, size, s).has_more = more
  <2>1. Len(s) = total
        BY LengthInOrder
  <2>2. QED BY <2>1 DEF Page, PageOf, MoreAfter
<1>6. PageInPlace(T, ascending, asked)
      BY <1>3, <1>4, PageHolds
<1>7. \A r \in T : place(r) \in 0..total - 1
      BY RowsCompare, RanksTellApart DEF PlaceIn
<1>8. /\ got \in Seq(T) /\ Len(got) \in Nat /\ Len(got) <= size
      /\ Len(got) < size => \A r \in T : place(r) < o + Len(got)
      /\ \A j \in 1..Len(got) : place(got[j]) = o + j - 1
      /\ \A r \in T : o <= place(r) /\ place(r) < o + Len(got) =>
                         /\ place(r) - o + 1 \in 1..Len(got)
                         /\ got[place(r) - o + 1] = r
      BY <1>3, <1>6 DEF PageInPlace, PlaceIn
<1>9. total > 0 => \E r \in T : place(r) = total - 1
  <2> SUFFICES ASSUME total > 0 PROVE \E r \in T : place(r) = total - 1
      OBVIOUS
  <2>1. /\ InTurn(T, Arranged(T, ascending)) \in [1..total -> T]
        /\ \A k \in 1..total :
              Rank(T, Arranged(T, ascending), InTurn(T, Arranged(T, ascending))[k]) = k - 1
        BY RowsCompare, Sorted
  <2>2. total \in 1..total
        BY <1>1
  <2>3. QED BY <2>1, <2>2 DEF PlaceIn
<1> HIDE DEF got, total, o, before, after, place, more
<1>10. DOMAIN got = 1..Len(got) /\ \A i \in 1..Len(got) : got[i] \in T
       BY <1>8
<1>11. before >= total => got = <<>>
  <2> SUFFICES ASSUME before >= total, Len(got) > 0 PROVE FALSE
      BY <1>8
  <2>1. 1 \in 1..Len(got)
        BY <1>8
  <2>2. got[1] \in T /\ place(got[1]) = o
        BY <1>4, <1>8, <1>10, <2>1
  <2>3. QED BY <1>1, <1>4, <1>7, <2>2
<1>12. before < total => (more <=> after < total)
  <2> SUFFICES ASSUME before < total PROVE more <=> after < total
      OBVIOUS
  <2>1. o = before /\ total > 0
        BY <1>1, <1>2, <1>4
  <2>2. Len(got) < size => total - 1 < before + Len(got)
        BY <1>8, <1>9, <2>1
  <2>3. Len(got) > 0 => before + Len(got) <= total
    <3> SUFFICES ASSUME Len(got) > 0 PROVE before + Len(got) <= total
        OBVIOUS
    <3>1. Len(got) \in 1..Len(got)
          BY <1>8
    <3>2. place(got[Len(got)]) = before + Len(got) - 1 /\ got[Len(got)] \in T
          BY <1>8, <1>10, <2>1, <3>1
    <3>3. QED BY <1>1, <1>2, <1>7, <1>8, <3>2
  <2>4. before + Len(got) <= total
        BY <1>1, <1>2, <1>8, <2>1, <2>3
  <2>5. more <=> before + Len(got) < total
        BY <1>1, <1>2, <1>8, <2>1, <2>4 DEF more, Saturated
  <2>6. QED BY <1>1, <1>2, <1>8, <2>2, <2>4, <2>5
<1>13. before >= total => ~more /\ ~(after < total)
  <2> SUFFICES ASSUME before >= total PROVE ~more /\ ~(after < total)
      OBVIOUS
  <2>1. o + Len(got) >= total /\ o + Len(got) \in Nat
        BY <1>1, <1>4, <1>8
  <2>2. QED BY <1>1, <1>2, <2>1 DEF more, Saturated
<1>14. more <=> after < total
       BY <1>1, <1>2, <1>12, <1>13
<1>15. ASSUME NEW i \in DOMAIN got
       PROVE  got[i] \in T /\ place(got[i]) = before + i - 1 /\ i \in 1..size
  <2>1. i \in 1..Len(got) /\ got # <<>>
        BY <1>8, <1>10
  <2>2. o = before
        BY <1>1, <1>2, <1>4, <1>11, <2>1
  <2>3. QED BY <1>8, <1>10, <2>1, <2>2
<1>16. ASSUME NEW r \in T, before <= place(r), place(r) < after
       PROVE  \E i \in DOMAIN got : got[i] = r
  <2>1. place(r) \in 0..total - 1
        BY <1>7
  <2>2. o = before
        BY <1>1, <1>2, <1>4, <1>16, <2>1
  <2>3. place(r) < o + Len(got)
        BY <1>2, <1>8, <1>16, <2>1, <2>2
  <2>4. place(r) - o + 1 \in 1..Len(got) /\ got[place(r) - o + 1] = r
        BY <1>8, <1>16, <2>2, <2>3
  <2>5. QED BY <1>10, <2>4
<1>17. QED BY <1>5, <1>8, <1>11, <1>14, <1>15, <1>16
           DEF PageThere, got, total, before, after, place

(* The last page there is something on is the one that total_pages counts. *)
LEMMA LastOfThem ==
    ASSUME NEW total \in Nat, 2 * total <= Top, NEW size \in 1..Top
    PROVE  \E last \in 1..Top :
              /\ \A n \in 1..Top : n * size < total <=> n < last
              /\ total > 0 => Saturated(total + size - 1) \div size = last
<1>1. Top \in Nat /\ size \in Nat /\ size > 0 /\ size <= Top
      BY PagingAssumption DEF PagingAssumption
<1>2. CASE total = 0
  <2>1. \A n \in 1..Top : ~(n * size < total)
        BY <1>1, <1>2
  <2>2. 1 \in 1..Top /\ \A n \in 1..Top : ~(n < 1)
        BY <1>1
  <2>3. QED BY <1>2, <2>1, <2>2
<1>3. CASE total > 0
  <2> DEFINE a == total + size - 1
             last == a \div size
  <2>1. a \in Nat /\ a = total + size - 1
        BY <1>1
  <2> HIDE DEF a
  <2>2. last \in Nat /\ last * size <= a /\ a < last * size + size
        BY <1>1, <2>1, Divided
  <2> HIDE DEF last
  <2>3. last > 0
    <3> SUFFICES ASSUME last = 0 PROVE FALSE
        BY <2>2
    <3>1. last * size = 0
          BY <1>1
    <3>2. QED BY <1>1, <1>3, <2>1, <2>2, <3>1
  <2>4. last * size \in Nat /\ total <= last * size /\ last * size <= total + size - 1
        BY <1>1, <2>1, <2>2
  <2>5. last <= Top
    <3>1. last - 1 \in Nat /\ last * size = (last - 1) * size + size
          BY <1>1, <2>2, <2>3
    <3>2. (last - 1) * size \in Nat /\ last - 1 <= (last - 1) * size
      <4>1. (last - 1) * 1 <= (last - 1) * size
        <5> DEFINE c == last - 1
        <5>1. c \in Nat
              BY <3>1
        <5> HIDE DEF c
        <5>2. 1 * c <= size * c
              BY <1>1, <5>1, MoreOfThem
        <5>3. c * 1 <= c * size
              BY <1>1, <5>1, <5>2
        <5>4. QED BY <5>3 DEF c
      <4>2. QED BY <1>1, <3>1, <4>1
    <3> DEFINE p == (last - 1) * size
               q == last * size
    <3>3. /\ last - 1 <= p /\ p \in Nat /\ q \in Nat /\ q = p + size
          /\ q <= total + size - 1
          BY <2>4, <3>1, <3>2
    <3> HIDE DEF p, q
    <3>4. QED BY <1>1, <1>3, <2>2, <3>3
  <2>6. ASSUME NEW n \in 1..Top
        PROVE  n * size < total <=> n < last
    <3>1. n \in Nat /\ n * size \in Nat
          BY <1>1
    <3>2. CASE n < last
      <4>1. n + 1 \in Nat /\ n + 1 <= last /\ (n + 1) * size = n * size + size
            BY <1>1, <2>2, <3>1, <3>2
      <4>2. (n + 1) * size <= last * size
            BY <1>1, <2>2, <4>1, MoreOfThem
      <4>3. QED BY <1>1, <2>4, <3>1, <3>2, <4>1, <4>2
    <3>3. CASE ~(n < last)
      <4>1. last * size <= n * size
            BY <1>1, <2>2, <3>1, <3>3, MoreOfThem
      <4>2. QED BY <2>4, <3>1, <3>3, <4>1
    <3>4. QED BY <3>2, <3>3
  <2>7. Saturated(a) \div size = last
    <3>1. CASE a <= Top
          BY <1>1, <2>1, <3>1 DEF Saturated, last
    <3>2. CASE a > Top
      <4>1. size > total
            BY <1>1, <2>1, <3>2
      <4>2. last = 1
        <5> SUFFICES ASSUME last >= 2 PROVE FALSE
            BY <2>2, <2>3
        <5>1. 2 * size <= last * size
              BY <1>1, <2>2, MoreOfThem
        <5>2. QED BY <1>1, <2>4, <4>1, <5>1
      <4>3. Saturated(a) = Top /\ Top < 2 * size
            BY <1>1, <2>1, <3>2 DEF Saturated
      <4> DEFINE d == Top \div size
      <4>4. d \in Nat /\ d * size <= Top /\ Top < d * size + size
            BY <1>1, Divided
      <4> HIDE DEF d
      <4>5. d # 0
        <5> SUFFICES ASSUME d = 0 PROVE FALSE
            OBVIOUS
        <5>1. d * size = 0
              BY <1>1
        <5>2. QED BY <1>1, <4>4, <5>1
      <4>6. d < 2
        <5> SUFFICES ASSUME d >= 2 PROVE FALSE
            BY <4>4
        <5>1. 2 * size <= d * size
              BY <1>1, <4>4, MoreOfThem
        <5>2. QED BY <1>1, <4>3, <4>4, <5>1
      <4>7. d = 1
            BY <4>4, <4>5, <4>6
      <4>8. QED BY <4>2, <4>3, <4>7 DEF d
    <3>3. QED BY <1>1, <2>1, <3>1, <3>2
  <2>8. last \in 1..Top
        BY <2>2, <2>3, <2>5
  <2>9. QED BY <2>6, <2>7, <2>8 DEF a
<1>4. QED BY <1>2, <1>3

(* The rows that are listed: each of its own, and no more than ids.        *)
ListingOK == cells \in [Ids -> Keys \cup {Absent}]

LEMMA RowsOfTheTable ==
    ASSUME ListingOK
    PROVE  /\ IsFiniteSet(TableRows) /\ Keyed(TableRows)
           /\ Cardinality(TableRows) \in Nat /\ 2 * Cardinality(TableRows) <= Top
           /\ Cardinality(TableRows) = 0 <=> TableRows = {}
<1> DEFINE f == [i \in TakenIds |-> [id |-> i, key |-> Collated(sheet, column, cells[i])]]
<1>1. IsFiniteSet(Ids) /\ Cardinality(Ids) = MaxListed /\ MaxListed \in Nat
  <2>1. MaxListed \in Nat
        BY ListingAssumption DEF ListingAssumption
  <2>2. IsFiniteSet(1..MaxListed)
        /\ Cardinality(1..MaxListed) = IF 1 > MaxListed THEN 0 ELSE MaxListed - 1 + 1
        BY <2>1, FS_Interval
  <2>3. QED BY <2>1, <2>2 DEF Ids
<1>2. /\ IsFiniteSet(TakenIds) /\ Cardinality(TakenIds) \in Nat
      /\ Cardinality(TakenIds) <= MaxListed
  <2>1. TakenIds \in SUBSET Ids
        BY DEF TakenIds
  <2>2. QED BY <1>1, <2>1, FS_Subset, FS_CardinalityType
<1>3. f \in Surjection(TakenIds, TableRows)
      BY DEF Surjection, TableRows
<1>4. IsFiniteSet(TableRows) /\ Cardinality(TableRows) <= Cardinality(TakenIds)
      BY <1>2, <1>3, FS_Surjection
<1>5. /\ Cardinality(TableRows) \in Nat
      /\ Cardinality(TableRows) = 0 <=> TableRows = {}
      BY <1>4, FS_CardinalityType, FS_EmptySet
<1>6. 2 * Cardinality(TableRows) <= Top
      BY <1>1, <1>2, <1>4, <1>5, PagingAssumption, ListingAssumption
      DEF ListingAssumption, PagingAssumption
<1>7. Keyed(TableRows)
  <2>1. ASSUME NEW i \in TakenIds
        PROVE  /\ i \in Int
               /\ \/ Collated(sheet, column, cells[i]) \in Int
                  \/ Collated(sheet, column, cells[i]) = Null
    <3>1. i \in Int /\ cells[i] \in Keys
          BY ListingAssumption DEF TakenIds, Ids, ListingOK, ListingAssumption
    <3>2. cells[i] = Null \/ cells[i] \in Int
          BY <3>1, ListingAssumption DEF ListingAssumption
    <3>3. cells[i] \in Int => 2 * (cells[i] \div 2) \in Int
          OBVIOUS
    <3>4. QED BY <3>1, <3>2, <3>3 DEF Collated
  <2>2. QED BY <2>1 DEF Keyed, TableRows
<1>8. QED BY <1>4, <1>5, <1>6, <1>7

LEMMA ListingStays == ListingOK /\ [ListingNext]_listing => ListingOK'
<1> SUFFICES ASSUME ListingOK, [ListingNext]_listing
             PROVE  ListingOK'
    OBVIOUS
<1>1. ASSUME NEW key \in Keys, Create(key)
      PROVE  ListingOK'
      BY <1>1 DEF Create, ListingOK, Ids
<1>2. ASSUME NEW key \in Keys, NEW i \in Ids, Update(i, key)
      PROVE  ListingOK'
      BY <1>2 DEF Update, ListingOK, Ids
<1>3. ASSUME NEW i \in Ids, Delete(i)
      PROVE  ListingOK'
      BY <1>3 DEF Delete, ListingOK, Ids
<1>4. CASE UNCHANGED listing
      BY <1>4 DEF listing, ListingOK, Ids
<1>5. QED BY <1>1, <1>2, <1>3, <1>4 DEF ListingNext

(* Pages of a size, one behind the other, are the table.                   *)
LEMMA PagesAreTheTable ==
    ASSUME ListingOK, NEW ascending, NEW size \in 1..Top, NEW last \in 1..Top,
           \A n \in 1..Top : n * size < Cardinality(TableRows) <=> n < last
    PROVE  LET rows == Ordered(TableRows, ascending)
           IN EndsAt(last, size, rows) /\ MeetsAll(MetOn(last, size, rows), ascending)
<1> DEFINE T == TableRows
           total == Cardinality(T)
           rows == Ordered(T, ascending)
           items(n) == Page(n, size, rows).items
           more(n) == Page(n, size, rows).has_more
           place(r) == PlaceIn(T, ascending, r)
           seen == MetOn(last, size, rows)
<1>1. /\ IsFiniteSet(T) /\ Keyed(T) /\ total \in Nat /\ 2 * total <= Top
      /\ Top \in Nat /\ size \in Nat /\ size > 0 /\ last \in Nat
      BY RowsOfTheTable, PagingAssumption DEF PagingAssumption
<1>2. \A n \in 1..Top : n * size < total <=> n < last
      OBVIOUS
<1>3. ASSUME NEW n \in 1..Top
      PROVE  PageThere(n, size, T, ascending)
      BY <1>1, PageOfATable
<1>4. \A r \in T : place(r) \in 0..total - 1
      BY <1>1, RowsCompare, RanksTellApart DEF PlaceIn
<1>5. ASSUME NEW r \in T, NEW u \in T, place(r) < place(u)
      PROVE  ComesBefore(r, u, ascending)
  <2> DEFINE before == Arranged(T, ascending)
  <2>1. Compares(T, before)
        BY <1>1, RowsCompare
  <2>2. \A y \in T : Rank(T, before, y) < Rank(T, before, u) <=> <<y, u>> \in before
        BY <1>1, <2>1, RanksTellApart
  <2>3. <<r, u>> \in before
        BY <1>5, <2>2 DEF PlaceIn
  <2>4. QED BY <2>3 DEF Arranged
<1> HIDE DEF T, total, place
<1>6. ASSUME NEW n \in 1..Top
      PROVE  /\ (n - 1) * size \in Nat /\ n * size = (n - 1) * size + size
             /\ items(n) \in Seq(T) /\ Len(items(n)) \in Nat
             /\ more(n) <=> n * size < total
             /\ (n - 1) * size >= total => items(n) = <<>>
             /\ \A i \in DOMAIN items(n) :
                   /\ items(n)[i] \in T
                   /\ place(items(n)[i]) = (n - 1) * size + i - 1
                   /\ i \in 1..size
             /\ \A r \in T : (n - 1) * size <= place(r) /\ place(r) < n * size =>
                   \E i \in DOMAIN items(n) : items(n)[i] = r
  <2> DEFINE before == (n - 1) * size
  <2>1. before \in Nat /\ n * size = before + size
        BY <1>1
  <2>2. PageThere(n, size, T, ascending)
        BY <1>3
  <2> HIDE DEF before
  <2>3. /\ items(n) \in Seq(T) /\ Len(items(n)) \in Nat
        /\ more(n) <=> n * size < total
        /\ before >= total => items(n) = <<>>
        /\ \A i \in DOMAIN items(n) :
              /\ items(n)[i] \in T
              /\ place(items(n)[i]) = before + i - 1
              /\ i \in 1..size
        /\ \A r \in T : before <= place(r) /\ place(r) < n * size =>
              \E i \in DOMAIN items(n) : items(n)[i] = r
        BY <2>2 DEF PageThere, total, place, before
  <2>4. QED BY <2>1, <2>3 DEF before
<1> HIDE DEF items, more
<1>7. EndsAt(last, size, rows)
  <2>1. ASSUME NEW n \in 1..Top
        PROVE  (more(n) <=> n < last) /\ (n > last => items(n) = <<>>)
    <3>1. more(n) <=> n < last
          BY <1>2, <1>6
    <3>2. ASSUME n > last
          PROVE  items(n) = <<>>
      <4>1. n - 1 \in 1..Top /\ ~(n - 1 < last)
            BY <1>1, <3>2
      <4>2. ~((n - 1) * size < total)
            BY <1>2, <4>1
      <4>3. QED BY <1>1, <1>6, <4>2
    <3>3. QED BY <3>1, <3>2
  <2>2. QED BY <2>1 DEF EndsAt, items, more
<1>8. \A p \in seen : \E n \in 1..last : \E i \in DOMAIN items(n) :
         p = [page |-> n, at |-> i, row |-> items(n)[i]]
      BY DEF seen, MetOn, PlacesOn, items
<1>9. \A n \in 1..last : \A i \in DOMAIN items(n) :
         [page |-> n, at |-> i, row |-> items(n)[i]] \in seen
      BY DEF seen, MetOn, PlacesOn, items
<1> HIDE DEF seen
<1>10. 1..last \subseteq 1..Top
       BY <1>1
<1>11. ASSUME NEW p \in seen
       PROVE  /\ p.page \in 1..Top /\ p.at \in 1..size /\ p.row \in T
              /\ place(p.row) = (p.page - 1) * size + p.at - 1
  <2>1. PICK n \in 1..last : \E i \in DOMAIN items(n) :
           p = [page |-> n, at |-> i, row |-> items(n)[i]]
        BY <1>8
  <2>2. PICK i \in DOMAIN items(n) : p = [page |-> n, at |-> i, row |-> items(n)[i]]
        BY <2>1
  <2>3. n \in 1..Top
        BY <1>10
  <2>4. p.page = n /\ p.at = i /\ p.row = items(n)[i]
        BY <2>2
  <2>5. QED BY <1>6, <2>3, <2>4
<1>12. {p.row : p \in seen} = T
  <2>1. ASSUME NEW r \in T
        PROVE  \E p \in seen : p.row = r
    <3> DEFINE k == place(r)
               n == k \div size + 1
    <3>1. k \in Nat /\ k < total
          BY <1>1, <1>4
    <3>2. k \div size \in Nat /\ (k \div size) * size <= k /\ k < (k \div size) * size + size
          BY <1>1, <3>1, Divided
    <3>3. n \in Nat /\ n - 1 = k \div size /\ n > 0
          BY <3>2
    <3> HIDE DEF k, n
    <3>4. (n - 1) * size <= k /\ k < (n - 1) * size + size /\ (n - 1) * size \in Nat
          BY <1>1, <3>2, <3>3
    <3>5. n <= last
      <4> SUFFICES ASSUME n > last PROVE FALSE
          BY <1>1, <3>3
      <4>1. last <= n - 1 /\ n - 1 \in Nat
            BY <1>1, <3>3
      <4>2. last * size <= (n - 1) * size
            BY <1>1, <4>1, MoreOfThem
      <4>3. ~(last * size < total)
            BY <1>1, <1>2
      <4>4. last * size \in Nat
            BY <1>1
      <4>5. QED BY <1>1, <3>1, <3>4, <4>2, <4>3, <4>4
    <3>6. n \in 1..Top /\ n \in 1..last
          BY <1>1, <3>3, <3>5
    <3>7. (n - 1) * size <= place(r) /\ place(r) < n * size
          BY <1>6, <3>4, <3>6 DEF k
    <3>8. \E i \in DOMAIN items(n) : items(n)[i] = r
          BY <1>6, <3>6, <3>7
    <3>9. PICK i \in DOMAIN items(n) : items(n)[i] = r
          BY <3>8
    <3>10. [page |-> n, at |-> i, row |-> items(n)[i]] \in seen
           BY <1>9, <3>6
    <3>11. QED BY <3>9, <3>10
  <2>2. QED BY <1>11, <2>1
<1>13. ASSUME NEW p \in seen, NEW q \in seen, Earlier(p, q)
       PROVE  ComesBefore(p.row, q.row, ascending)
  <2> DEFINE m == p.page
             n == q.page
             i == p.at
             j == q.at
             a == (m - 1) * size
             b == (n - 1) * size
  <2>1. /\ m \in 1..Top /\ n \in 1..Top /\ i \in 1..size /\ j \in 1..size
        /\ p.row \in T /\ q.row \in T
        /\ place(p.row) = a + i - 1 /\ place(q.row) = b + j - 1
        BY <1>11
  <2>2. m < n \/ (m = n /\ i < j)
        BY <1>13 DEF Earlier
  <2> HIDE DEF m, n, i, j
  <2>3. a \in Nat /\ b \in Nat
        BY <1>6, <2>1
  <2>4. ASSUME m < n
        PROVE  a + size <= b
    <3>1. m \in Nat /\ n - 1 \in Nat /\ m <= n - 1
          BY <1>1, <2>1, <2>4
    <3>2. m * size <= (n - 1) * size
          BY <1>1, <3>1, MoreOfThem
    <3>3. m * size = a + size
          BY <1>6, <2>1
    <3>4. QED BY <3>2, <3>3
  <2>5. m = n => a = b
        OBVIOUS
  <2> HIDE DEF a, b
  <2>6. a + i - 1 < b + j - 1
        BY <1>1, <2>1, <2>2, <2>3, <2>4, <2>5
  <2>7. QED BY <1>5, <2>1, <2>6
<1>14. MeetsAll(seen, ascending)
       BY <1>12, <1>13 DEF MeetsAll, T
<1>15. QED BY <1>7, <1>14 DEF seen, T

(* A page of a size nobody can mean holds nothing, and there is more       *)
(* wherever there is anything; and no page comes before the first.         *)
LEMMA PageOfNoSize ==
    ASSUME ListingOK, NEW ascending, NEW size \in I64, size <= 0
    PROVE  LET first == Page(1, size, Ordered(TableRows, ascending))
           IN first.items = <<>> /\ (first.has_more <=> TableRows # {})
<1> DEFINE T == TableRows
           s == Ordered(T, ascending)
           asked == [number |-> 1, size |-> size]
           got == Fetched(s, asked)
           total == Cardinality(T)
<1>1. IsFiniteSet(T) /\ Keyed(T) /\ total \in Nat /\ Top \in Nat /\ (total = 0 <=> T = {})
      BY RowsOfTheTable, PagingAssumption DEF PagingAssumption
<1>2. Len(s) = total
      BY <1>1, LengthInOrder
<1>3. PageLimit(asked) = 0 /\ PageOffset(asked) = 0
      BY <1>1 DEF PageLimit, PageOffset, AtLeastNone, Saturated, I64
<1>4. PageInPlace(T, ascending, asked)
      BY <1>1, <1>3, PageHolds
<1>5. got \in Seq(T) /\ Len(got) \in Nat /\ Len(got) <= 0
      BY <1>3, <1>4 DEF PageInPlace
<1>6. got = <<>> /\ Len(got) = 0
      BY <1>5
<1> HIDE DEF got, total, s
<1>7. /\ Page(1, size, s).items = got
      /\ Page(1, size, s).has_more <=> Saturated(0 + 0) < total
      BY <1>2, <1>3, <1>6 DEF Page, PageOf, MoreAfter, got
<1>8. Saturated(0 + 0) = 0
      BY <1>1 DEF Saturated
<1>9. QED BY <1>1, <1>6, <1>7, <1>8 DEF s

LEMMA NoPageBeforeTheFirst ==
    ASSUME NEW size, NEW rows
    PROVE  Page(-Top - 1, size, rows) = Page(1, size, rows)
<1> DEFINE asked == [number |-> -Top - 1, size |-> size]
           one == [number |-> 1, size |-> size]
<1>1. Top \in Nat
      BY PagingAssumption DEF PagingAssumption
<1>2. PageLimit(asked) = PageLimit(one)
      BY DEF PageLimit
<1>3. AtLeastNone(asked.number - 1) = AtLeastNone(one.number - 1)
      BY <1>1 DEF AtLeastNone
<1>4. PageOffset(asked) = PageOffset(one)
      BY <1>2, <1>3 DEF PageOffset
<1>5. Fetched(rows, asked) = Fetched(rows, one)
      BY <1>2, <1>4 DEF Fetched
<1>6. QED BY <1>2, <1>4, <1>5 DEF Page, PageOf, MoreAfter

LEMMA EveryRowIsMet == ListingOK => WalkMeetsEveryRow
<1> SUFFICES ASSUME ListingOK, NEW ascending \in BOOLEAN, NEW size \in I64
             PROVE  LET rows == Ordered(TableRows, ascending)
                        first == Page(1, size, rows)
                    IN IF size <= 0
                       THEN first.items = <<>> /\ (first.has_more <=> TableRows # {})
                       ELSE \E last \in 1..Top :
                               /\ EndsAt(last, size, rows)
                               /\ MeetsAll(MetOn(last, size, rows), ascending)
                               /\ TableRows # {} => first.total_pages = last
                               /\ Page(-Top - 1, size, rows) = first
    BY DEF WalkMeetsEveryRow
<1> DEFINE rows == Ordered(TableRows, ascending)
           total == Cardinality(TableRows)
<1>1. /\ IsFiniteSet(TableRows) /\ Keyed(TableRows)
      /\ total \in Nat /\ 2 * total <= Top /\ (total = 0 <=> TableRows = {})
      BY RowsOfTheTable
<1>2. CASE size <= 0
      BY <1>2, PageOfNoSize
<1>3. CASE ~(size <= 0)
  <2>1. Top \in Nat /\ size \in 1..Top
        BY <1>3, PagingAssumption DEF PagingAssumption, I64
  <2>2. PICK last \in 1..Top :
           /\ \A n \in 1..Top : n * size < total <=> n < last
           /\ total > 0 => Saturated(total + size - 1) \div size = last
        BY <1>1, <2>1, LastOfThem
  <2>3. EndsAt(last, size, rows) /\ MeetsAll(MetOn(last, size, rows), ascending)
        BY <2>1, <2>2, PagesAreTheTable
  <2>4. TableRows # {} => Page(1, size, rows).total_pages = last
    <3> DEFINE asked == [number |-> 1, size |-> size]
    <3>1. PageLimit(asked) = size /\ size # 0
          BY <2>1 DEF PageLimit, AtLeastNone
    <3>2. Len(rows) = total
          BY <1>1, LengthInOrder
    <3> HIDE DEF rows, total
    <3>3. Page(1, size, rows).total_pages = Saturated(total + size - 1) \div size
          BY <3>1, <3>2 DEF Page, PageOf
    <3>4. QED BY <1>1, <2>2, <3>3
  <2>5. Page(-Top - 1, size, rows) = Page(1, size, rows)
        BY NoPageBeforeTheFirst
  <2>6. QED BY <1>3, <2>3, <2>4, <2>5
<1>4. QED BY <1>2, <1>3

(* Whatever has become of a table, in any order it is listed in and in     *)
(* pages of any size, walking has_more ends where total_pages says and     *)
(* meets every row once, each before those it comes before.                *)
THEOREM PagesMeetEveryRow == ListingSpec => []WalkMeetsEveryRow
<1>1. ListingInit => ListingOK
      BY DEF ListingInit, ListingOK
<1>2. ListingOK /\ [ListingNext]_listing => ListingOK'
      BY ListingStays
<1>3. ListingOK => WalkMeetsEveryRow
      BY EveryRowIsMet
<1>4. QED BY <1>1, <1>2, <1>3, PTL DEF ListingSpec

=============================================================================
