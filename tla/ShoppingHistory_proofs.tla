----------------------- MODULE ShoppingHistory_proofs -----------------------
(***************************************************************************)
(* Proofs about ShoppingHistory: that what is said is listed, where a      *)
(* phone foretold, and once, that filing is learned, that the page of a    *)
(* list shows what nobody touched, in its place, and that what a device    *)
(* held is all there after it is brought over; and about Suggesting: that  *)
(* what is offered is the best of what is remembered.                      *)
(***************************************************************************)
EXTENDS Suggesting, Shopping_proofs

----------------------------------------------------------------------------
(* What a request that says a line, or files a row, has come to.           *)

AfterRecall == <<"seek", "record", "prune", "filed_before", "file_one">>
ToInsert == <<"insert", "record", "prune", "filed_before", "file_one">>
ToPutBack == <<"put_back", "record", "prune", "filed_before", "file_one">>
AfterSeek == <<"record", "prune", "filed_before", "file_one">>
AfterRecord == <<"prune", "filed_before", "file_one">>
AfterPrune == <<"filed_before", "file_one">>
ToFile == <<"file_one">>

SaidAs(c) == Parse(work[c].asked.line).name

(* What was read off the line is sought; the row put back is called that   *)
(* unless it strayed; and past these the line has been on the list.        *)
SayShape(c) ==
    Saying(c) =>
        \/ work[c].plan = SayPlan
        \/ work[c].plan \in {AfterRecall, ToInsert} /\ work[c].name = SaidAs(c)
        \/ /\ work[c].plan = ToPutBack
           /\ Present(work[c].row) /\ ~strayed[c] =>
                 Key(items[work[c].row].name) = Key(SaidAs(c))
        \/ work[c].plan \in {AfterSeek, AfterRecord, AfterPrune, ToFile} /\ (~strayed[c] => listed[c])

ToAttach == <<"attach", "held", "remember">>
ToDetach == <<"detach", "held", "remember">>
AfterFiling == <<"held", "remember">>
ToRemember == <<"remember">>

(* While nobody else writes, what was read of the row is so.               *)
FileShape(c) ==
    Filing(c) =>
        /\ work[c].row = work[c].asked.row
        /\ \/ work[c].plan \in {FilePlan, UnfilePlan}
           \/ /\ work[c].plan \in {ToAttach, ToDetach, AfterFiling, ToRemember}
              /\ alone[c] => Present(work[c].row) /\ work[c].name = items[work[c].row].name
        /\ work[c].plan = ToRemember /\ alone[c] => work[c].left = items[work[c].row].tags

ShoppingHistoryInv ==
    /\ ShoppingInv
    /\ \A c \in Callers : SayShape(c) /\ FileShape(c)

LEMMA NameKept ==
    ASSUME NEW name \in Names
    PROVE  Key(Capitalised(name)) = Key(name)
<1> DEFINE Up(i) == IF i = 1 /\ name[i].number = NoNumber
                    THEN [name[i] EXCEPT !.text = Capital[@]] ELSE name[i]
<1>1. Capitalised(name) = [i \in DOMAIN name |-> Up(i)]
      BY DEF Capitalised
<1>2. ASSUME NEW i \in DOMAIN name PROVE Lowered(Up(i)) = Lowered(name[i])
  <2>1. name[i] \in Words
        BY NameIs
  <2>2. CASE i = 1 /\ name[i].number = NoNumber
    <3>1. name[i].text \in Texts /\ name[i] = [number |-> NoNumber, text |-> name[i].text]
          BY <2>1, <2>2, WordIs
    <3>2. /\ Capital[name[i].text] \in Texts /\ NoText \notin Texts
          /\ Fold[Capital[name[i].text]] = Fold[name[i].text]
          BY <3>1, ReadingAssumption DEF ReadingAssumption
    <3> DEFINE low == name[i].text
               up == Capital[low]
    <3>3. Up(i) = [number |-> NoNumber, text |-> up]
          BY <2>2, <3>1
    <3> HIDE DEF low, up, Up
    <3>4. Lowered(Up(i)) = [number |-> NoNumber, text |-> Fold[up]]
          BY <3>2, <3>3 DEF Lowered, low, up
    <3>5. Lowered(name[i]) = [number |-> NoNumber, text |-> Fold[low]]
          BY <3>1, <3>2 DEF Lowered, low
    <3>6. QED BY <3>2, <3>4, <3>5 DEF low, up
  <2>3. QED BY <2>2
<1> HIDE DEF Up
<1>3. QED BY <1>1, <1>2 DEF Key

LEMMA SaidPlans ==
    /\ Head(SayPlan) = "recall" /\ Tail(SayPlan) = AfterRecall
    /\ Head(AfterRecall) = "seek" /\ Tail(AfterRecall) = AfterSeek
    /\ Head(ToInsert) = "insert" /\ Tail(ToInsert) = AfterSeek
    /\ Head(ToPutBack) = "put_back" /\ Tail(ToPutBack) = AfterSeek
    /\ Head(AfterSeek) = "record" /\ Tail(AfterSeek) = AfterRecord
    /\ Head(AfterRecord) = "prune" /\ Tail(AfterRecord) = AfterPrune
    /\ Head(AfterPrune) = "filed_before" /\ Tail(AfterPrune) = ToFile
    /\ Head(ToFile) = "file_one"
BY DEF SayPlan, AfterRecall, ToInsert, ToPutBack, AfterSeek, AfterRecord, AfterPrune, ToFile

LEMMA SaidBy ==
    <<"insert">> \o AfterSeek = ToInsert /\ <<"put_back">> \o AfterSeek = ToPutBack
<1>1. ASSUME NEW s \in {"insert", "put_back"}
      PROVE  <<s>> \o AfterSeek = <<s, "record", "prune", "filed_before", "file_one">>
  <2>1. <<s>> \in Seq({s}) /\ Len(<<s>>) = 1 /\ <<s>>[1] = s
        OBVIOUS
  <2>2. AfterSeek \in Seq(Steps) /\ Len(AfterSeek) = 4
        BY DEF AfterSeek, Steps
  <2>3. <<s>> \in Seq({s} \cup Steps) /\ AfterSeek \in Seq({s} \cup Steps)
        BY <2>1, <2>2
  <2>4. /\ <<s>> \o AfterSeek \in Seq({s} \cup Steps) /\ Len(<<s>> \o AfterSeek) = 5
        /\ \A i \in 1..5 : (<<s>> \o AfterSeek)[i] = IF i <= 1 THEN s ELSE AfterSeek[i - 1]
    <3> DEFINE S == {s} \cup Steps
               one == <<s>>
    <3>1. one \in Seq(S) /\ AfterSeek \in Seq(S)
          BY <2>3
    <3>2. Len(one) = 1 /\ one[1] = s
          BY <2>1
    <3> HIDE DEF S, one
    <3>3. /\ one \o AfterSeek \in Seq(S) /\ Len(one \o AfterSeek) = Len(one) + Len(AfterSeek)
          /\ \A i \in 1..Len(one) + Len(AfterSeek) :
                (one \o AfterSeek)[i] = IF i <= Len(one) THEN one[i] ELSE AfterSeek[i - Len(one)]
          BY <3>1, ConcatProperties
    <3>4. QED BY <2>2, <3>2, <3>3 DEF S, one
  <2> DEFINE p == <<s>> \o AfterSeek
             q == <<s, "record", "prune", "filed_before", "file_one">>
  <2>5. /\ q \in Seq({s} \cup Steps) /\ Len(q) = 5
        /\ \A i \in 1..5 : q[i] = IF i <= 1 THEN s ELSE AfterSeek[i - 1]
        BY DEF AfterSeek, Steps
  <2>6. /\ p \in Seq({s} \cup Steps) /\ Len(p) = 5
        /\ \A i \in 1..5 : p[i] = IF i <= 1 THEN s ELSE AfterSeek[i - 1]
        BY <2>4
  <2> HIDE DEF p, q
  <2>7. p = q
        BY <2>5, <2>6, SeqEqual
  <2>8. QED BY <2>7 DEF p, q
<1>2. QED BY <1>1 DEF ToInsert, ToPutBack

LEMMA FiledPlans ==
    /\ Head(FilePlan) = "look" /\ Tail(FilePlan) = ToAttach
    /\ Head(UnfilePlan) = "look" /\ Tail(UnfilePlan) = ToDetach
    /\ Head(ToAttach) = "attach" /\ Tail(ToAttach) = AfterFiling
    /\ Head(ToDetach) = "detach" /\ Tail(ToDetach) = AfterFiling
    /\ Head(AfterFiling) = "held" /\ Tail(AfterFiling) = ToRemember
    /\ Head(ToRemember) = "remember" /\ Tail(ToRemember) = <<>>
BY DEF FilePlan, UnfilePlan, ToAttach, ToDetach, AfterFiling, ToRemember

LEMMA PlansOf ==
    PlanOf("say") = SayPlan /\ PlanOf("file") = FilePlan /\ PlanOf("unfile") = UnfilePlan
BY DEF PlanOf

LEMMA FiledApart ==
    /\ FilePlan # ToRemember /\ UnfilePlan # ToRemember /\ ToAttach # ToRemember
    /\ ToDetach # ToRemember /\ AfterFiling # ToRemember
BY FiledPlans

LEMMA StepAt ==
    ASSUME NEW c \in Callers, Step(c)
    PROVE  \/ At(c, "recall") /\ RecallEntry(c)
           \/ At(c, "seek") /\ Seek(c)
           \/ At(c, "insert") /\ Insert(c)
           \/ At(c, "put_back") /\ PutBack(c)
           \/ At(c, "record") /\ Record(c)
           \/ At(c, "prune") /\ Prune(c)
           \/ At(c, "filed_before") /\ FiledBefore(c)
           \/ At(c, "file_one") /\ FileOne(c)
           \/ At(c, "look") /\ Look(c)
           \/ At(c, "attach") /\ Attach(c)
           \/ At(c, "detach") /\ Detach(c)
           \/ At(c, "held") /\ Held(c)
           \/ At(c, "remember") /\ Remember(c)
           \/ \E s \in {"rewrite", "tick", "turn", "drop", "sweep", "clear", "forget", "shelve",
                        "raze", "own", "others", "all", "check", "lay", "rows", "filed", "show"} :
                 At(c, s)
<1>1. /\ RecallEntry(c) => At(c, "recall")
      /\ Seek(c) => At(c, "seek")
      /\ Insert(c) => At(c, "insert")
      /\ PutBack(c) => At(c, "put_back")
      BY DEF RecallEntry, Seek, Insert, PutBack
<1>2. /\ Record(c) => At(c, "record")
      /\ Prune(c) => At(c, "prune")
      /\ FiledBefore(c) => At(c, "filed_before")
      /\ FileOne(c) => At(c, "file_one")
      BY DEF Record, Prune, FiledBefore, FileOne
<1>3. /\ Look(c) => At(c, "look")
      /\ Attach(c) => At(c, "attach")
      /\ Detach(c) => At(c, "detach")
      /\ Held(c) => At(c, "held")
      /\ Remember(c) => At(c, "remember")
      BY DEF Look, Attach, Detach, Held, Remember
<1>4. /\ Rewrite(c) => At(c, "rewrite")
      /\ CrossOff(c) => At(c, "tick")
      /\ Turn(c) => At(c, "turn")
      BY DEF Rewrite, CrossOff, Turn
<1>5. /\ Drop(c) => At(c, "drop")
      /\ Sweep(c) => At(c, "sweep")
      /\ Clear(c) => At(c, "clear")
      /\ Forget(c) => At(c, "forget")
      /\ Shelve(c) => At(c, "shelve")
      /\ Raze(c) => At(c, "raze")
      BY DEF Drop, Sweep, Clear, Forget, Shelve, Raze
<1>6. /\ OwnOrder(c) => At(c, "own")
      /\ Inherit(c) => At(c, "others")
      /\ AllAisles(c) => At(c, "all")
      /\ Check(c) => At(c, "check")
      /\ Lay(c) => At(c, "lay")
      BY DEF OwnOrder, Inherit, AllAisles, Check, Lay
<1>7. /\ ReadRows(c) => At(c, "rows")
      /\ ReadFiled(c) => At(c, "filed")
      /\ Show(c) => At(c, "show")
      BY DEF ReadRows, ReadFiled, Show
<1>8. QED BY <1>1, <1>2, <1>3, <1>4, <1>5, <1>6, <1>7 DEF Step

(* A request changes none but itself.                                      *)
LEMMA OthersWait ==
    ASSUME ShoppingInv, NEW c \in Callers, Arrive(c) \/ Step(c) \/ Cut(c),
           NEW e \in Callers, e # c
    PROVE  work'[e] = work[e]
<1>1. work = [x \in Callers |-> work[x]]
      BY DEF ShoppingInv
<1>2. \A w : Becomes(c, w) => work'[e] = work[e]
      BY <1>1 DEF Becomes
<1>3. Continue(c) \/ Finish(c) \/ GiveUp(c) => work'[e] = work[e]
      BY <1>2 DEF Continue, Finish, GiveUp
<1>4. \A w : Only(c, w) => work'[e] = work[e]
      BY <1>2 DEF Only
<1>5. Arrive(c) \/ Cut(c) => work'[e] = work[e]
      BY <1>2, <1>4 DEF Arrive, Cut
<1>6. Step(c) => work'[e] = work[e]
      BY <1>2, <1>3, <1>4
      DEF Step, RecallEntry, Seek, Insert, PutBack, Record, Prune, FiledBefore, FileOne, Look,
          Rewrite, CrossOff, Turn, Drop, Sweep, Clear, Forget, Attach, Detach, Held, Remember,
          Shelve, Raze, OwnOrder, Inherit, AllAisles, Check, Lay, ReadRows, ReadFiled, Show
<1>7. QED BY <1>5, <1>6

(* What a request asks it asks to its end.                                 *)
LEMMA AsksOn ==
    ASSUME ShoppingInv, NEW c \in Callers, Step(c)
    PROVE  (Fresh(work'[c]) /\ Unsaid(work'[c])) \/ work'[c].asked = work[c].asked
<1>1. work = [x \in Callers |-> work[x]]
      BY DEF ShoppingInv
<1>2. Busy(c) /\ WorkOK(work[c])
      BY StepAt DEF At, ShoppingInv
<1>3. /\ Fresh(Onward(work[c])) /\ Fresh(AfterAnError(work[c])) /\ work[c] \in Works({work[c].walk})
      /\ Unsaid(Onward(work[c])) /\ Unsaid(AfterAnError(work[c]))
      BY <1>2, OnwardOK, UnderWay DEF Busy
<1>4. \A w : Becomes(c, w) => work'[c] = w
      BY <1>1 DEF Becomes
<1>5. Finish(c) \/ GiveUp(c) => Fresh(work'[c]) /\ Unsaid(work'[c])
      BY <1>3, <1>4 DEF Finish, GiveUp
<1>6. Continue(c) => work'[c].asked = work[c].asked
      BY <1>3, <1>4 DEF Continue, Works
<1>7. \A w : Only(c, w) => work'[c] = w
      BY <1>4 DEF Only
<1> DEFINE Kept == (Fresh(work'[c]) /\ Unsaid(work'[c])) \/ work'[c].asked = work[c].asked
<1>8. RecallEntry(c) \/ Seek(c) \/ Insert(c) => Kept
  <2>1. RecallEntry(c) => Kept
        BY <1>3, <1>7 DEF RecallEntry, Works
  <2>2. Seek(c) => Kept
    <3> DEFINE like == Alike(RowsNow, work[c].name, work[c].unit)
               i == Pick(RowsNow, like)
               d1 == [work[c] EXCEPT !.plan = <<"insert">> \o Rest(c)]
               d2 == [work[c] EXCEPT !.row = i, !.plan = <<"put_back">> \o Rest(c)]
               d3 == [work[c] EXCEPT !.row = i, !.name = items[i].name,
                         !.amount = items[i].amount, !.plan = Rest(c)]
    <3>1. Seek(c) => Only(c, d1) \/ Only(c, d2) \/ Only(c, d3)
          BY DEF Seek
    <3> HIDE DEF i
    <3>2. /\ d1.asked = work[c].asked /\ d2.asked = work[c].asked
          /\ d3.asked = work[c].asked
          BY <1>3 DEF Works
    <3> HIDE DEF d1, d2, d3
    <3>3. QED BY <1>7, <3>1, <3>2
  <2>3. Insert(c) => Kept
        BY <1>3, <1>4 DEF Insert, Works
  <2>4. QED BY <2>1, <2>2, <2>3
<1>9. PutBack(c) \/ Record(c) \/ Prune(c) => Kept
  <2>1. PutBack(c) => Kept
        BY <1>3, <1>4, <1>5 DEF PutBack, Works
  <2>2. Record(c) \/ Prune(c) => Kept
        BY <1>5, <1>6 DEF Record, Prune
  <2>3. QED BY <2>1, <2>2
<1>10. FiledBefore(c) \/ FileOne(c) => Kept
      BY <1>3, <1>4, <1>5, <1>7 DEF FiledBefore, FileOne, Works
<1>11. Look(c) \/ Rewrite(c) \/ CrossOff(c) \/ Turn(c) => Kept
  <2>1. Look(c) => Kept
    <3> DEFINE i == work[c].row
               crossed == IF Ask(c).deed = "toggle" THEN ~items[i].done ELSE work[c].crossed
               d1 == [work[c] EXCEPT !.plan = Rest(c)]
               d2 == [work[c] EXCEPT !.plan = Rest(c), !.name = items[i].name,
                         !.crossed = crossed]
    <3>1. Look(c) => Only(c, IF ~Present(i) THEN AfterAnError(work[c])
                             ELSE IF Ask(c).deed = "edit" THEN d1 ELSE d2)
          BY DEF Look
    <3>2. d1.asked = work[c].asked
          BY <1>3 DEF Works
    <3> HIDE DEF crossed
    <3>3. d2.asked = work[c].asked
          BY <1>3 DEF Works
    <3> HIDE DEF d1, d2, i
    <3>4. QED BY <1>3, <1>7, <3>1, <3>2, <3>3
  <2>2. Rewrite(c) => Kept
        BY <1>3, <1>4, <1>5 DEF Rewrite, Works
  <2>3. CrossOff(c) => Kept
        BY <1>5 DEF CrossOff
  <2>4. Turn(c) => Kept
        BY <1>3, <1>7 DEF Turn, Works
  <2>5. QED BY <2>1, <2>2, <2>3, <2>4
<1>12. Drop(c) \/ Sweep(c) \/ Clear(c) \/ Forget(c) \/ Remember(c) \/ Shelve(c) \/ Raze(c) => Kept
      BY <1>5 DEF Drop, Sweep, Clear, Forget, Remember, Shelve, Raze
<1>13. Attach(c) \/ Detach(c) \/ Held(c) => Kept
      BY <1>3, <1>4, <1>5, <1>6, <1>7 DEF Attach, Detach, Held, Works
<1>14. OwnOrder(c) \/ Inherit(c) \/ AllAisles(c) => Kept
      BY <1>3, <1>4, <1>7 DEF OwnOrder, Inherit, AllAisles, Works
<1>15. Check(c) \/ Lay(c) \/ ReadRows(c) \/ ReadFiled(c) \/ Show(c) => Kept
      BY <1>3, <1>4, <1>5, <1>7 DEF Check, Lay, ReadRows, ReadFiled, Show, Works
<1>16. QED BY <1>8, <1>9, <1>10, <1>11, <1>12, <1>13, <1>14, <1>15 DEF Step

(* While others write, a request stands where it stood.                    *)
LEMMA ShapesStand ==
    ASSUME NEW c \in Callers, work'[c] = work[c], RememberShopping, SayShape(c), FileShape(c)
    PROVE  SayShape(c)' /\ FileShape(c)'
<1>1. Saying(c)' = Saying(c) /\ Filing(c)' = Filing(c) /\ SaidAs(c)' = SaidAs(c)
      BY DEF Saying, Filing, SaidAs, Busy, Ask
<1>2. SayShape(c)'
  <2> SUFFICES ASSUME Saying(c) PROVE SayShape(c)'
      BY <1>1 DEF SayShape
  <2>1. Busy(c)'
        BY DEF Saying, Busy
  <2>2. /\ listed[c] => listed'[c]
        /\ ~strayed'[c] => ~strayed[c] /\ ~Strays(c)
        BY <2>1 DEF RememberShopping
  <2>3. CASE work[c].plan = ToPutBack
    <3>1. At(c, "put_back")
          BY <2>3, SaidPlans DEF At, Busy, Saying
    <3>2. ASSUME Present(work[c].row)', ~strayed'[c]
          PROVE  Key(items'[work[c].row].name) = Key(SaidAs(c))
      <4>1. ~strayed[c] /\ ~Strays(c)
            BY <2>2, <3>2
      <4>2. Present(work[c].row) /\ Key(items'[work[c].row].name) = Key(items[work[c].row].name)
            BY <3>1, <3>2, <4>1 DEF Strays, Present
      <4>3. Key(items[work[c].row].name) = Key(SaidAs(c))
            BY <2>3, <4>1, <4>2, SaidPlans DEF SayShape, SayPlan, ToPutBack, AfterRecall,
               ToInsert, AfterSeek, AfterRecord, AfterPrune, ToFile
      <4>4. QED BY <4>2, <4>3
    <3>3. QED BY <1>1, <2>3, <3>2 DEF SayShape, Present
  <2>4. CASE work[c].plan # ToPutBack
        BY <1>1, <2>2, <2>4 DEF SayShape
  <2>5. QED BY <2>3, <2>4
<1>3. FileShape(c)'
  <2> SUFFICES ASSUME Filing(c) PROVE FileShape(c)'
      BY <1>1 DEF FileShape
  <2>1. Busy(c)' /\ Busy(c)
        BY DEF Filing, Busy
  <2>2. alone'[c] => alone[c] /\ items' = items
        BY <2>1 DEF RememberShopping, Arrives, Acts, tables
  <2>3. QED BY <1>1, <2>2 DEF FileShape, Present
<1>4. QED BY <1>2, <1>3

(* One that begins has come to nothing yet.                                *)
LEMMA FreshShapes ==
    ASSUME NEW c \in Callers, Fresh(work'[c])
    PROVE  SayShape(c)' /\ FileShape(c)'
<1>1. work'[c].plan # <<>> =>
         work'[c].plan = PlanOf(work'[c].asked.deed) /\ work'[c].row = work'[c].asked.row
      BY DEF Fresh
<1>2. Saying(c)' => work'[c].plan = SayPlan
      BY <1>1, PlansOf DEF Saying, Busy, Ask
<1>3. Filing(c)' => /\ work'[c].plan \in {FilePlan, UnfilePlan}
                    /\ work'[c].row = work'[c].asked.row
      BY <1>1, PlansOf DEF Filing, Busy, Ask
<1>4. QED BY <1>2, <1>3, FiledApart DEF SayShape, FileShape

(* Each statement of a line that is said.                                  *)
LEMMA SayingGoesOn ==
    ASSUME ShoppingInv, NEW c \in Callers, Step(c), RememberShopping, SayShape(c), Saying(c)
    PROVE  /\ SayShape(c)'
           /\ work[c].plan \in {SayPlan, AfterRecall, ToInsert} => Busy(c)'
<1> DEFINE w == work[c]
           d == work'[c]
<1>1. /\ WorkOK(w) /\ w.plan # <<>> /\ w \in Works({w.walk}) /\ w.row \in RowIds
      /\ w.name \in Names /\ w.asked \in Asked /\ w.asked.deed = "say"
      /\ Fresh(Onward(w)) /\ Fresh(AfterAnError(w)) /\ Rest(c) = Tail(w.plan)
      BY OnwardOK, UnderWay DEF Saying, Busy, Ask, ShoppingInv, Rest
<1>2. \A x : Becomes(c, x) => d = x
      BY DEF Becomes, ShoppingInv
<1>3. \A x : Only(c, x) => d = x /\ UNCHANGED items
      BY <1>2 DEF Only, tables
<1>4. Finish(c) \/ GiveUp(c) => SayShape(c)'
      BY <1>1, <1>2, FreshShapes DEF Finish, GiveUp
<1>5. ASSUME d.plan # <<>>, listed[c] \/ strayed[c] \/ Wanted(c)'
      PROVE  ~strayed'[c] => listed'[c]
      BY <1>5 DEF RememberShopping, Busy
<1>6. ASSUME NEW i \in RowIds, Present(i)', ~items'[i].done,
             Key(items'[i].name) = Key(SaidAs(c)), d.asked = w.asked, d.plan # <<>>
      PROVE  Wanted(c)'
  <2>1. Saying(c)' /\ Ask(c)' = Ask(c)
        BY <1>1, <1>6 DEF Saying, Busy, Ask
  <2>2. i \in Listed'
        BY <1>6 DEF Listed
  <2>3. QED BY <1>6, <2>1, <2>2 DEF Wanted, SaidAs, Ask
<1>7. ASSUME w.plan = SayPlan
     PROVE  SayShape(c)' /\ Busy(c)'
  <2>1. RecallEntry(c)
        BY <1>7, StepAt, SaidPlans DEF At
  <2> DEFINE reading == Parse(Ask(c).line)
             amount == AmountFor(reading, EntryOf(Ask(c).line))
             unit == UnitFor(reading, EntryOf(Ask(c).line))
             after == [w EXCEPT !.plan = Rest(c), !.name = reading.name, !.amount = amount,
                          !.unit = unit]
  <2>2. Only(c, after)
        BY <2>1 DEF RecallEntry
  <2>3. d = after
        BY <1>3, <2>2
  <2> HIDE DEF reading, amount, unit
  <2>4. after.plan = AfterRecall /\ after.name = reading.name /\ after.asked = w.asked
        BY <1>1, <1>7, SaidPlans DEF Works
  <2> HIDE DEF after
  <2>5. d.plan = AfterRecall /\ d.name = SaidAs(c) /\ d.asked = w.asked
        BY <2>3, <2>4 DEF reading, SaidAs, Ask
  <2>6. QED BY <2>5 DEF SayShape, SaidAs, Busy, AfterRecall
<1>8. ASSUME w.plan = AfterRecall /\ w.name = SaidAs(c)
     PROVE  SayShape(c)' /\ Busy(c)'
  <2> DEFINE like == Alike(RowsNow, work[c].name, work[c].unit)
             i == Pick(RowsNow, like)
             d1 == [w EXCEPT !.plan = <<"insert">> \o Rest(c)]
             d2 == [w EXCEPT !.row = i, !.plan = <<"put_back">> \o Rest(c)]
             d3 == [w EXCEPT !.row = i, !.name = items[i].name, !.amount = items[i].amount,
                       !.plan = Rest(c)]
  <2>1. Seek(c)
        BY <1>8, StepAt, SaidPlans DEF At
  <2>2. IF like = {} THEN Only(c, d1) ELSE IF items[i].done THEN Only(c, d2) ELSE Only(c, d3)
        BY <2>1 DEF Seek
  <2>3. Rest(c) = AfterSeek
        BY <1>1, <1>8, SaidPlans
  <2>4. ASSUME like # {}
        PROVE  i \in RowIds /\ Present(i) /\ Key(items[i].name) = Key(SaidAs(c))
    <3>1. like \subseteq Listed /\ \A j \in Listed : RowsNow[j] = items[j]
          BY DEF Alike, RowsNow
    <3>2. \A j \in like : Key(items[j].name) = Key(w.name)
          BY <3>1 DEF Alike
    <3>3. like \subseteq Nat /\ \A j \in like : RowsNow[j].done \in BOOLEAN
          BY <3>1, RowIs DEF Listed, RowIds
    <3> HIDE DEF like
    <3>4. i \in like
          BY <2>4, <3>3, PickIs
    <3>5. QED BY <1>8, <3>1, <3>2, <3>4 DEF Listed
  <2> HIDE DEF like, i
  <2>5. CASE like = {}
    <3>1. d = d1
          BY <1>3, <2>2, <2>5
    <3>2. d1.plan = ToInsert /\ d1.name = w.name /\ d1.asked = w.asked
          BY <1>1, <2>3, SaidBy DEF Works
    <3>3. QED BY <1>8, <3>1, <3>2 DEF SayShape, SaidAs, Busy, ToInsert
  <2>6. CASE like # {} /\ items[i].done
    <3>1. d = d2 /\ UNCHANGED items
          BY <1>3, <2>2, <2>6
    <3>2. d2.plan = ToPutBack /\ d2.row = i /\ d2.asked = w.asked
          BY <1>1, <2>3, SaidBy DEF Works
    <3> HIDE DEF d2
    <3>3. Key(items'[i].name) = Key(SaidAs(c)) /\ SaidAs(c)' = SaidAs(c)
          BY <2>4, <2>6, <3>1, <3>2 DEF SaidAs
    <3>4. QED BY <3>1, <3>2, <3>3 DEF SayShape, Busy, ToPutBack
  <2>7. CASE like # {} /\ ~items[i].done
    <3>1. d = d3 /\ UNCHANGED items
          BY <1>3, <2>2, <2>7
    <3>2. d3.plan = AfterSeek /\ d3.asked = w.asked
          BY <1>1, <2>3 DEF Works
    <3> HIDE DEF d3
    <3>3. Wanted(c)'
          BY <1>6, <2>4, <2>7, <3>1, <3>2, SaidPlans DEF Present, AfterSeek
    <3>4. QED BY <1>5, <3>1, <3>2, <3>3 DEF SayShape, Busy, AfterSeek
  <2>8. QED BY <2>5, <2>6, <2>7
<1>9. ASSUME w.plan = ToInsert /\ w.name = SaidAs(c)
     PROVE  SayShape(c)' /\ Busy(c)'
  <2>1. Insert(c)
        BY <1>9, StepAt, SaidPlans DEF At
  <2> DEFINE row == [name |-> Capitalised(w.name), amount |-> w.amount, unit |-> w.unit,
                     done |-> FALSE, tags |-> {}]
             after(i) == [w EXCEPT !.row = i, !.name = Capitalised(w.name), !.plan = Rest(c)]
  <2>2. PICK i \in RowIds : items' = [items EXCEPT ![i] = row] /\ Becomes(c, after(i))
        BY <2>1 DEF Insert
  <2>3. row # None
    <3>1. w.amount \in Nat \ {0} /\ w.unit \in Maybe(Known) /\ Capitalised(w.name) \in Names
          BY <1>1, UnderWay, CapitalisedIsAName
    <3>2. row \in Rows
          BY <3>1 DEF Rows
    <3>3. QED BY <3>2, ShoppingAssumption DEF ShoppingAssumption
  <2>4. row.done = FALSE /\ row.name = Capitalised(w.name)
        OBVIOUS
  <2> HIDE DEF row
  <2>5. items'[i] = row
        BY <2>2 DEF ShoppingInv, StoreOK, ItemsOK
  <2>6. Key(row.name) = Key(SaidAs(c))
        BY <1>1, <1>9, <2>4, NameKept
  <2>7. after(i).plan = AfterSeek /\ after(i).asked = w.asked
        BY <1>1, <1>9, SaidPlans DEF Works
  <2> HIDE DEF after
  <2>8. d.plan = AfterSeek /\ d.asked = w.asked
        BY <1>2, <2>2, <2>7
  <2>9. Wanted(c)'
        BY <1>6, <2>3, <2>4, <2>5, <2>6, <2>8 DEF Present, AfterSeek
  <2>10. QED BY <1>5, <2>8, <2>9 DEF SayShape, Busy, AfterSeek
<1>10. ASSUME w.plan = ToPutBack,
              Present(w.row) /\ ~strayed[c] => Key(items[w.row].name) = Key(SaidAs(c))
       PROVE  SayShape(c)'
  <2>1. PutBack(c)
        BY <1>10, StepAt, SaidPlans DEF At
  <2> DEFINE i == w.row
             back == [items[i] EXCEPT !.done = FALSE]
             after == [w EXCEPT !.name = items[i].name, !.amount = items[i].amount,
                          !.plan = Rest(c)]
  <2>2. IF Present(i) THEN items' = [items EXCEPT ![i] = back] /\ Becomes(c, after)
        ELSE GiveUp(c)
        BY <2>1 DEF PutBack, BackOnTheList
  <2>3. CASE ~Present(i)
        BY <1>4, <2>2, <2>3
  <2>4. CASE Present(i)
    <3>1. items[i] \in Rows
          BY <1>1, <2>4, RowIs
    <3>2. back \in Rows /\ back.done = FALSE /\ back.name = items[i].name
          BY <3>1 DEF Rows
    <3>3. back # None
          BY <3>2, ShoppingAssumption DEF ShoppingAssumption
    <3> HIDE DEF back
    <3>4. items'[i] = back
          BY <1>1, <2>2, <2>4 DEF ShoppingInv, StoreOK, ItemsOK
    <3>5. after.plan = AfterSeek /\ after.asked = w.asked
          BY <1>1, <1>10, SaidPlans DEF Works
    <3> HIDE DEF after
    <3>6. d.plan = AfterSeek /\ d.asked = w.asked
          BY <1>2, <2>2, <2>4, <3>5
    <3>7. ~strayed[c] => Wanted(c)'
          BY <1>1, <1>6, <1>10, <2>4, <3>2, <3>3, <3>4, <3>6 DEF Present, AfterSeek
    <3>8. QED BY <1>5, <3>6, <3>7 DEF SayShape, AfterSeek
  <2>5. QED BY <2>3, <2>4
<1>11. ASSUME w.plan \in {AfterSeek, AfterRecord, AfterPrune, ToFile}, ~strayed[c] => listed[c],
              d.plan \in {AfterRecord, AfterPrune, ToFile}
       PROVE  SayShape(c)'
       BY <1>5, <1>11 DEF SayShape, AfterRecord, AfterPrune, ToFile
<1>12. ASSUME w.plan = AfterSeek /\ (~strayed[c] => listed[c])
      PROVE  SayShape(c)'
  <2>1. Record(c)
        BY <1>12, StepAt, SaidPlans DEF At
  <2>2. Rest(c) = AfterRecord /\ Rest(c) # <<>>
    <3>1. Rest(c) = AfterRecord
          BY <1>1, <1>12, SaidPlans
    <3>2. AfterRecord # <<>>
          BY DEF AfterRecord
    <3>3. QED BY <3>1, <3>2
  <2>3. Continue(c)
        BY <2>1, <2>2 DEF Record
  <2>4. d.plan = AfterRecord
        BY <1>1, <1>2, <2>2, <2>3 DEF Continue, Works
  <2>5. QED BY <1>11, <1>12, <2>4
<1>13. ASSUME w.plan = AfterRecord /\ (~strayed[c] => listed[c])
      PROVE  SayShape(c)'
  <2>1. Prune(c)
        BY <1>13, StepAt, SaidPlans DEF At
  <2>2. Rest(c) = AfterPrune /\ Rest(c) # <<>>
    <3>1. Rest(c) = AfterPrune
          BY <1>1, <1>13, SaidPlans
    <3>2. AfterPrune # <<>>
          BY DEF AfterPrune
    <3>3. QED BY <3>1, <3>2
  <2>3. Continue(c)
        BY <2>1, <2>2 DEF Prune
  <2>4. d.plan = AfterPrune
        BY <1>1, <1>2, <2>2, <2>3 DEF Continue, Works
  <2>5. QED BY <1>11, <1>13, <2>4
<1>14. ASSUME w.plan = AfterPrune /\ (~strayed[c] => listed[c])
      PROVE  SayShape(c)'
  <2> DEFINE entry == EntryOf(Ask(c).line)
             under == IF entry = None THEN {} ELSE entry.tags
             after == [w EXCEPT !.left = under, !.plan = Rest(c)]
  <2>1. FiledBefore(c)
        BY <1>14, StepAt, SaidPlans DEF At
  <2>2. Only(c, IF under = {} THEN Onward(w) ELSE after)
        BY <2>1 DEF FiledBefore
  <2> HIDE DEF under
  <2>3. after.plan = ToFile
        BY <1>1, <1>14, SaidPlans DEF Works
  <2> HIDE DEF after
  <2>4. d = Onward(w) \/ d.plan = ToFile
        BY <1>3, <2>2, <2>3
  <2>5. QED BY <1>1, <1>11, <1>14, <2>4, FreshShapes
<1>15. ASSUME w.plan = ToFile /\ (~strayed[c] => listed[c])
      PROVE  SayShape(c)'
  <2> DEFINE t == Min(w.left)
             after == [w EXCEPT !.left = @ \ {t}]
  <2>1. FileOne(c)
        BY <1>15, StepAt, SaidPlans DEF At
  <2>2. Finish(c) \/ Becomes(c, after)
        BY <2>1 DEF FileOne
  <2> HIDE DEF t
  <2>3. after.plan = ToFile
        BY <1>1, <1>15 DEF Works
  <2> HIDE DEF after
  <2>4. CASE Finish(c)
        BY <1>4, <2>4
  <2>5. CASE Becomes(c, after)
    <3>1. d.plan = ToFile
          BY <1>2, <2>3, <2>5
    <3>2. QED BY <1>11, <1>15, <3>1
  <2>6. QED BY <2>2, <2>4, <2>5
<1>16. /\ SayPlan \notin {ToPutBack, AfterSeek, AfterRecord, AfterPrune, ToFile}
       /\ AfterRecall \notin {ToPutBack, AfterSeek, AfterRecord, AfterPrune, ToFile}
       /\ ToInsert \notin {ToPutBack, AfterSeek, AfterRecord, AfterPrune, ToFile}
      BY SaidPlans
<1>17. QED BY <1>7, <1>8, <1>9, <1>10, <1>12, <1>13, <1>14, <1>15, <1>16 DEF SayShape

(* Each statement of a filing or an unfiling.                              *)
LEMMA FilingGoesOn ==
    ASSUME ShoppingInv, NEW c \in Callers, Step(c), RememberShopping, FileShape(c), Filing(c)
    PROVE  FileShape(c)'
<1> DEFINE w == work[c]
           d == work'[c]
           i == w.row
<1>1. /\ WorkOK(w) /\ w.plan # <<>> /\ w \in Works({w.walk}) /\ i \in RowIds
      /\ w.asked \in Asked /\ w.asked.deed \in {"file", "unfile"} /\ i = w.asked.row
      /\ Fresh(Onward(w)) /\ Fresh(AfterAnError(w)) /\ Rest(c) = Tail(w.plan)
      BY OnwardOK, UnderWay DEF Filing, Busy, Ask, ShoppingInv, Rest, FileShape
<1>2. \A x : Becomes(c, x) => d = x
      BY DEF Becomes, ShoppingInv
<1>3. \A x : Only(c, x) => d = x /\ UNCHANGED items
      BY <1>2 DEF Only, tables
<1>4. Finish(c) \/ GiveUp(c) => FileShape(c)'
      BY <1>1, <1>2, FreshShapes DEF Finish, GiveUp
<1>5. Continue(c) => d.plan = Rest(c) /\ d.row = i /\ d.name = w.name /\ d.asked = w.asked
      BY <1>1, <1>2 DEF Continue, Works
<1>6. alone'[c] => alone[c] \/ ~Busy(c)'
      BY <1>1 DEF RememberShopping, Arrives, Busy
<1>7. ASSUME d.plan \in {ToAttach, ToDetach, AfterFiling}, d.row = i, d.asked = w.asked,
             alone[c] => items'[i] # None /\ d.name = items'[i].name
      PROVE  FileShape(c)'
  <2>1. d.plan # <<>> /\ d.plan # ToRemember
        BY <1>7, FiledApart DEF ToAttach, ToDetach, AfterFiling
  <2>2. alone'[c] => items'[i] # None /\ d.name = items'[i].name
        BY <1>6, <1>7, <2>1 DEF Busy
  <2>3. QED BY <1>1, <1>7, <2>1, <2>2 DEF FileShape, Present
<1>8. CASE w.plan \in {FilePlan, UnfilePlan}
  <2> DEFINE crossed == IF Ask(c).deed = "toggle" THEN ~items[i].done ELSE w.crossed
             after == [w EXCEPT !.plan = Rest(c), !.name = items[i].name, !.crossed = crossed]
  <2>1. Look(c)
        BY <1>8, StepAt, FiledPlans DEF At
  <2>2. Only(c, IF ~Present(i) THEN AfterAnError(w) ELSE after)
        BY <1>1, <2>1 DEF Look, Ask
  <2> HIDE DEF crossed
  <2>3. /\ after.plan \in {ToAttach, ToDetach} /\ after.row = i /\ after.name = items[i].name
        /\ after.asked = w.asked
        BY <1>1, <1>8, FiledPlans DEF Works
  <2> HIDE DEF after
  <2>4. CASE ~Present(i)
        BY <1>1, <1>3, <2>2, <2>4, FreshShapes
  <2>5. CASE Present(i)
    <3>1. d = after /\ UNCHANGED items
          BY <1>3, <2>2, <2>5
    <3>2. items'[i] # None /\ d.name = items'[i].name
          BY <2>3, <2>5, <3>1 DEF Present
    <3>3. QED BY <1>7, <2>3, <3>1, <3>2
  <2>6. QED BY <2>4, <2>5
<1>9. CASE /\ w.plan \in {ToAttach, ToDetach}
           /\ alone[c] => Present(i) /\ w.name = items[i].name
  <2> DEFINE t == Ask(c).tag
             more == [items[i] EXCEPT !.tags = @ \cup {t}]
             less == [items[i] EXCEPT !.tags = @ \ {t}]
  <2>1. Attach(c) \/ Detach(c)
        BY <1>9, StepAt, FiledPlans DEF At
  <2>2. CASE GiveUp(c)
        BY <1>4, <2>2
  <2>3. CASE ~GiveUp(c)
    <3>1. /\ Continue(c) /\ Present(i)
          /\ items' = [items EXCEPT ![i] = more] \/ items' = [items EXCEPT ![i] = less]
          BY <2>1, <2>3 DEF Attach, Detach, MayAttach, WithTag
    <3>2. items[i] \in Rows
          BY <1>1, <3>1, RowIs
    <3>3. /\ DOMAIN more = DOMAIN items[i] /\ more.name = items[i].name
          /\ DOMAIN less = DOMAIN items[i] /\ less.name = items[i].name
          BY <3>2 DEF Rows
    <3>4. more # None /\ less # None
      <4>1. \A s \in SUBSET TagIds : [items[i] EXCEPT !.tags = s] \in Rows
            BY <3>2 DEF Rows
      <4>2. t \in TagIds /\ items[i].tags \in SUBSET TagIds
            BY <1>1, <3>2, AskedIs DEF Ask, Rows
      <4>3. more \in Rows /\ less \in Rows
            BY <4>1, <4>2
      <4>4. QED BY <4>3, ShoppingAssumption DEF ShoppingAssumption
    <3> HIDE DEF more, less
    <3>5. items'[i] = more \/ items'[i] = less
          BY <1>1, <3>1 DEF ShoppingInv, StoreOK, ItemsOK
    <3>6. items'[i] # None /\ items'[i].name = items[i].name
          BY <3>3, <3>4, <3>5 DEF Present
    <3>7. d.plan = AfterFiling /\ d.row = i /\ d.name = w.name /\ d.asked = w.asked
          BY <1>1, <1>5, <1>9, <3>1, FiledPlans
    <3>8. QED BY <1>7, <1>9, <3>6, <3>7
  <2>4. QED BY <2>2, <2>3
<1>10. CASE w.plan = AfterFiling /\ (alone[c] => Present(i) /\ w.name = items[i].name)
  <2> DEFINE held == HeldByTheRow(c)
             after == [w EXCEPT !.left = held, !.plan = Rest(c)]
  <2>1. Held(c)
        BY <1>10, StepAt, FiledPlans DEF At
  <2>2. Only(c, after)
        BY <2>1 DEF Held
  <2>3. Present(i) => held = items[i].tags
        BY DEF HeldByTheRow
  <2> HIDE DEF held
  <2>4. /\ after.plan = ToRemember /\ after.row = i /\ after.name = w.name /\ after.left = held
        /\ after.asked = w.asked
        BY <1>1, <1>10, FiledPlans DEF Works
  <2> HIDE DEF after
  <2>5. d = after /\ UNCHANGED items
        BY <1>3, <2>2
  <2>6. alone'[c] => items'[i] # None /\ d.name = items'[i].name /\ d.left = items'[i].tags
    <3>1. alone'[c] => alone[c]
      <4>1. d.plan # <<>>
        <5>1. d.plan = ToRemember
              BY <2>4, <2>5
        <5>2. ToRemember # <<>>
              BY DEF ToRemember
        <5>3. QED BY <5>1, <5>2
      <4>2. QED BY <1>6, <4>1 DEF Busy
    <3>2. alone[c] => items[i] # None /\ w.name = items[i].name /\ held = items[i].tags
          BY <1>10, <2>3 DEF Present
    <3>3. d.name = w.name /\ d.left = held /\ items' = items
          BY <2>4, <2>5
    <3> HIDE DEF w, d, i
    <3>4. QED BY <3>1, <3>2, <3>3
  <2>7. QED BY <1>1, <2>4, <2>5, <2>6 DEF FileShape, Present
<1>11. CASE w.plan = ToRemember
  <2>1. Remember(c)
        BY <1>11, StepAt, FiledPlans DEF At
  <2>2. QED BY <1>4, <2>1 DEF Remember
<1>12. QED BY <1>8, <1>9, <1>10, <1>11 DEF FileShape

LEMMA ShapesKept ==
    ASSUME ShoppingHistoryInv, Next /\ RememberShopping, NEW c \in Callers
    PROVE  SayShape(c)' /\ FileShape(c)'
<1>1. ShoppingInv /\ SayShape(c) /\ FileShape(c)
      BY DEF ShoppingHistoryInv
<1>2. work'[c] = work[c] \/ Arrive(c) \/ Step(c) \/ Cut(c)
  <2>1. ASSUME NEW e \in Callers, Arrive(e) \/ Step(e) \/ Cut(e)
        PROVE  work'[c] = work[c] \/ Arrive(c) \/ Step(c) \/ Cut(c)
        BY <1>1, <2>1, OthersWait
  <2>2. QED BY <2>1 DEF Next, Tick
<1>3. CASE work'[c] = work[c]
      BY <1>1, <1>3, ShapesStand
<1>4. CASE Arrive(c)
  <2>1. PICK a \in Requests : work'[c] = Starts(a)
        BY <1>1, <1>4 DEF Arrive, Becomes, ShoppingInv
  <2>2. Fresh(Starts(a))
        BY StartsOK, ShoppingAssumption DEF ShoppingAssumption
  <2>3. QED BY <2>1, <2>2, FreshShapes
<1>5. CASE Cut(c)
  <2>1. work'[c] = NoWork
        BY <1>1, <1>5 DEF Cut, Only, Becomes, ShoppingInv
  <2>2. Fresh(work'[c])
        BY <2>1, NothingInHand DEF Fresh
  <2>3. QED BY <2>2, FreshShapes
<1>6. CASE Step(c)
  <2>1. CASE Fresh(work'[c])
        BY <2>1, FreshShapes
  <2>2. CASE work'[c].asked = work[c].asked
    <3>1. Busy(c)
          BY <1>6, StepAt DEF At
    <3>2. (Saying(c)' => Saying(c)) /\ (Filing(c)' => Filing(c))
          BY <2>2, <3>1 DEF Saying, Filing, Ask
    <3>3. SayShape(c)'
          BY <1>1, <1>6, <3>2, SayingGoesOn DEF SayShape
    <3>4. FileShape(c)'
          BY <1>1, <1>6, <3>2, FilingGoesOn DEF FileShape
    <3>5. QED BY <3>3, <3>4
  <2>3. QED BY <1>1, <1>6, <2>1, <2>2, AsksOn
<1>7. QED BY <1>2, <1>3, <1>4, <1>5, <1>6

LEMMA HistoryKept ==
    ShoppingHistoryInv /\ [Next /\ RememberShopping]_<<vars, shopHistory>> => ShoppingHistoryInv'
<1> SUFFICES ASSUME ShoppingHistoryInv, [Next /\ RememberShopping]_<<vars, shopHistory>>
             PROVE  ShoppingHistoryInv'
    OBVIOUS
<1>1. ShoppingInv'
      BY NextKeepsInv DEF ShoppingHistoryInv
<1>2. CASE Next /\ RememberShopping
      BY <1>1, <1>2, ShapesKept DEF ShoppingHistoryInv
<1>3. CASE UNCHANGED <<vars, shopHistory>>
  <2>1. ASSUME NEW c \in Callers PROVE SayShape(c)' /\ FileShape(c)'
    <3>1. SayShape(c) /\ FileShape(c)
          BY DEF ShoppingHistoryInv
    <3>2. UNCHANGED <<items, work, alone, listed, strayed>>
          BY <1>3 DEF vars, tables, shopHistory
    <3>3. QED BY <3>1, <3>2 DEF SayShape, FileShape, Saying, Filing, SaidAs, Busy, Ask, Present
  <2>2. QED BY <1>1, <2>1 DEF ShoppingHistoryInv
<1>4. QED BY <1>2, <1>3

LEMMA HistoryBegins == ShoppingHistoryInit => ShoppingHistoryInv
<1> SUFFICES ASSUME ShoppingHistoryInit PROVE ShoppingHistoryInv
    OBVIOUS
<1>1. ShoppingInv
      BY InitHolds DEF ShoppingHistoryInit
<1>2. \A c \in Callers : ~Busy(c)
      BY NothingInHand DEF ShoppingHistoryInit, Init, Busy
<1>3. QED BY <1>1, <1>2 DEF ShoppingHistoryInv, SayShape, FileShape, Saying, Filing

(* What somebody says and is told was added has been on the list since     *)
(* they said it, wanted, whatever others wrote between the look-up and the *)
(* writing (items::create, quick_add), unless the row that was to be put   *)
(* back was renamed, or deleted and its id given to another, before it was.*)
THEOREM WhatIsSaidWasListed == ShoppingHistorySpec => WhatIsSaidIsListed
<1>1. ASSUME ShoppingHistoryInv, NEW c \in Callers, Saying(c), Completes(c), ~At(c, "put_back"),
             ~strayed[c], RememberShopping
      PROVE  listed[c]
  <2>1. ShoppingInv /\ SayShape(c) /\ Step(c)
        BY <1>1 DEF ShoppingHistoryInv, Completes
  <2>2. work[c].plan \notin {SayPlan, AfterRecall, ToInsert}
        BY <1>1, <2>1, SayingGoesOn DEF Completes
  <2>3. work[c].plan # ToPutBack
        BY <1>1, SaidPlans DEF At, Completes
  <2>4. QED BY <1>1, <2>1, <2>2, <2>3 DEF SayShape
<1>2. ShoppingHistoryInv /\ [Next /\ RememberShopping]_<<vars, shopHistory>> =>
        [\A c \in Callers : Saying(c) /\ Completes(c) /\ ~At(c, "put_back") /\ ~strayed[c] =>
            listed[c]]_<<vars, shopHistory>>
      BY <1>1
<1>3. QED BY <1>2, HistoryBegins, HistoryKept, PTL DEF ShoppingHistorySpec, WhatIsSaidIsListed

(* Filing and unfiling teach: with nobody else writing meanwhile, the      *)
(* memory of a name that is remembered ends as all its row is filed under  *)
(* (tags::remember).                                                       *)
THEOREM FilingTeaches == ShoppingHistorySpec => FilingIsLearned
<1>1. ASSUME ShoppingHistoryInv, NEW c \in Callers, Filing(c), At(c, "remember"), Completes(c),
             alone[c], NEW row, row = items[Ask(c).row], Key(row.name) \in DOMAIN history'
      PROVE  history'[Key(row.name)].tags = row.tags
  <2> DEFINE i == work[c].row
             k == Key(work[c].name)
             left == work[c].left
  <2>1. ShoppingInv /\ FileShape(c) /\ Step(c)
        BY <1>1 DEF ShoppingHistoryInv, Completes
  <2>2. Remember(c)
        BY <1>1, <2>1, StepAt DEF At
  <2>3. history' = IF k \in DOMAIN history /\ left \subseteq Aisles
                   THEN [history EXCEPT ![k].tags = left] ELSE history
        BY <2>2 DEF Remember
  <2>4. work[c].plan = ToRemember /\ Ask(c).row = i
        BY <1>1, <2>1, FiledPlans DEF FileShape, At, Ask
  <2>5. Present(i) /\ work[c].name = items[i].name /\ left = items[i].tags
        BY <1>1, <2>1, <2>4, FiledApart DEF FileShape
  <2>6. row = items[i] /\ k = Key(row.name)
        BY <1>1, <2>4, <2>5
  <2>7. left \subseteq Aisles /\ left = row.tags
    <3>1. i \in RowIds
          BY <1>1, <2>1, UnderWay DEF ShoppingInv, Filing, Busy
    <3>2. QED BY <2>1, <2>5, <2>6, <3>1, RowIs
  <2> HIDE DEF i, k, left
  <2>8. k \in DOMAIN history /\ history[k] \in Entries
        BY <1>1, <2>1, <2>3, <2>6, EntryIs
  <2>9. history' = [history EXCEPT ![k].tags = left]
        BY <2>3, <2>7, <2>8
  <2>10. history'[k].tags = left
        BY <2>8, <2>9 DEF Entries
  <2>11. QED BY <2>6, <2>7, <2>10
<1>2. ShoppingHistoryInv /\ [Next /\ RememberShopping]_<<vars, shopHistory>> =>
        [\A c \in Callers : Filing(c) /\ At(c, "remember") /\ Completes(c) /\ alone[c] =>
            LET row == items[Ask(c).row] IN
            Key(row.name) \in DOMAIN history' => history'[Key(row.name)].tags = row.tags
        ]_<<vars, shopHistory>>
      BY <1>1
<1>3. QED BY <1>2, HistoryBegins, HistoryKept, PTL DEF ShoppingHistorySpec, FilingIsLearned

----------------------------------------------------------------------------
(* What a phone foretells of a line that is said.                          *)

Settled == {AfterSeek, AfterRecord, AfterPrune, ToFile}
Learned(k) == IF k \in DOMAIN history THEN history[k].tags ELSE {}

(* The rows are as they were.                                              *)
RowsAre(rows) == rows = [i \in DOMAIN rows |-> rows[i]] /\ DOMAIN rows \subseteq RowIds
Still(rows) == Listed = DOMAIN rows /\ \A i \in Listed : items[i] = rows[i]

AsRead(c) ==
    LET line == work[c].asked.line IN
    /\ work[c].name = Parse(line).name
    /\ work[c].amount = AmountFor(Parse(line), EntryOf(line))
    /\ work[c].unit = UnitFor(Parse(line), EntryOf(line))

ToBeMade(w, tags) ==
    [name |-> Capitalised(w.name), amount |-> w.amount, unit |-> w.unit, done |-> FALSE,
     tags |-> tags]

(* The line has landed on the row it was to.                               *)
LandedAs(rows, told) ==
    /\ "row" \in DOMAIN told
    /\ Listed = DOMAIN rows
    /\ \A i \in Listed : Unfiled(items[i]) = Unfiled(Landed(rows, told)[i])

(* Or the row that was to be made has been, and is filed so far.           *)
FiledSoFar(told, tags) == [told EXCEPT !.tags = tags]

MadeAs(c, rows, told) ==
    LET w == work[c]
        k == Key(SaidAs(c))
    IN
    /\ told \in Rows /\ w.row \in RowIds \ DOMAIN rows
    /\ Listed = DOMAIN rows \cup {w.row}
    /\ \A i \in DOMAIN rows : items[i] = rows[i]
    /\ items[w.row] = FiledSoFar(told, IF w.plan = ToFile THEN told.tags \ w.left ELSE {})
    /\ w.plan = AfterSeek => Key(w.name) = k /\ told.tags = Learned(k)
    /\ w.plan \in {AfterRecord, ToFile} => k \in DOMAIN history /\ told.tags = Learned(k)
    /\ w.plan = AfterPrune => (k \in DOMAIN history => told.tags = Learned(k))
    /\ w.plan = ToFile => w.left \subseteq told.tags

Tells(c, rows, told) ==
    LET w == work[c] IN
    \/ w.plan = SayPlan /\ Still(rows) /\ told = Resolve(w.asked.line, rows, history)
    \/ /\ w.plan = AfterRecall /\ Still(rows) /\ told = Resolve(w.asked.line, rows, history)
       /\ AsRead(c)
    \/ /\ w.plan = ToInsert /\ Still(rows) /\ w.name = SaidAs(c)
       /\ told = ToBeMade(w, Learned(Key(SaidAs(c))))
    \/ /\ w.plan = ToPutBack /\ Still(rows) /\ w.row \in Listed
       /\ told = [row |-> w.row, put_back |-> TRUE]
    \/ w.plan \in Settled /\ LandedAs(rows, told)
    \/ w.plan \in Settled /\ MadeAs(c, rows, told)

TellShape(c) ==
    \A rows, told : Saying(c) /\ alone[c] /\ rows = found[c] /\ told = foretold[c] =>
        RowsAre(rows) /\ Tells(c, rows, told)

LEMMA PlansApart ==
    /\ SayPlan \notin {AfterRecall, ToInsert, ToPutBack, AfterSeek, AfterRecord, AfterPrune, ToFile}
    /\ AfterRecall \notin {ToInsert, ToPutBack, AfterSeek, AfterRecord, AfterPrune, ToFile}
    /\ ToInsert \notin {ToPutBack, AfterSeek, AfterRecord, AfterPrune, ToFile}
    /\ ToPutBack \notin {AfterSeek, AfterRecord, AfterPrune, ToFile}
    /\ AfterSeek \notin {AfterRecord, AfterPrune, ToFile}
    /\ AfterRecord \notin {AfterPrune, ToFile}
    /\ AfterPrune # ToFile
    /\ SayPlan # <<>> /\ AfterRecall # <<>> /\ ToInsert # <<>> /\ ToPutBack # <<>>
    /\ AfterSeek # <<>> /\ AfterRecord # <<>> /\ AfterPrune # <<>> /\ ToFile # <<>>
<1>1. /\ SayPlan # <<>> /\ AfterRecall # <<>> /\ ToInsert # <<>> /\ ToPutBack # <<>>
      /\ AfterSeek # <<>> /\ AfterRecord # <<>> /\ AfterPrune # <<>> /\ ToFile # <<>>
      BY DEF SayPlan, AfterRecall, ToInsert, ToPutBack, AfterSeek, AfterRecord, AfterPrune, ToFile
<1>2. QED BY <1>1, SaidPlans

(* What is known of a line that is being said.                             *)
LEMMA InHand ==
    ASSUME ShoppingInv, NEW c \in Callers, Saying(c)
    PROVE  /\ WorkOK(work[c]) /\ work[c].plan # <<>> /\ work[c] \in Works({work[c].walk})
           /\ work[c].row \in RowIds /\ work[c].name \in Names /\ work[c].asked \in Asked
           /\ work[c].asked.line \in Names
           /\ work[c].amount \in Nat \ {0} /\ work[c].unit \in Maybe(Known)
           /\ Rest(c) = Tail(work[c].plan)
           /\ Unsaid(Onward(work[c])) /\ Unsaid(AfterAnError(work[c]))
           /\ \A x : Becomes(c, x) => work'[c] = x
           /\ \A x : Only(c, x) => work'[c] = x /\ UNCHANGED <<items, history, shelf>>
           /\ Continue(c) => work'[c] = [work[c] EXCEPT !.plan = Rest(c)]
           /\ Finish(c) \/ GiveUp(c) => Unsaid(work'[c])
<1>1. WorkOK(work[c]) /\ work[c].plan # <<>>
      BY DEF ShoppingInv, Saying, Busy
<1>2. \A x : Becomes(c, x) => work'[c] = x
      BY DEF Becomes, ShoppingInv
<1>3. Unsaid(Onward(work[c])) /\ Unsaid(AfterAnError(work[c]))
      BY <1>1, OnwardOK
<1>4. \A x : Only(c, x) => work'[c] = x /\ UNCHANGED <<items, history, shelf>>
      BY <1>2 DEF Only, tables
<1>5. Continue(c) => work'[c] = [work[c] EXCEPT !.plan = Rest(c)]
      BY <1>2 DEF Continue
<1>6. Finish(c) \/ GiveUp(c) => Unsaid(work'[c])
      BY <1>2, <1>3 DEF Finish, GiveUp
<1>7. work[c].asked \in Asked /\ work[c].asked.line \in Names
      BY <1>1, UnderWay, AskedIs
<1>8. QED BY <1>1, <1>2, <1>3, <1>4, <1>5, <1>6, <1>7, UnderWay DEF Rest

(* The same rows, and so the same decision.                                *)
LEMMA StillThere ==
    ASSUME NEW rows, RowsAre(rows), Still(rows)
    PROVE  RowsNow = rows
BY DEF RowsAre, Still, RowsNow

(* The line is read, with what is remembered of its name.                  *)
LEMMA LineRead ==
    ASSUME ShoppingInv, NEW c \in Callers, Saying(c), Step(c), work[c].plan = SayPlan
    PROVE  /\ UNCHANGED <<items, history>> /\ work'[c].asked = work[c].asked
           /\ work'[c].plan = AfterRecall /\ AsRead(c)'
<1> DEFINE w == work[c]
           line == w.asked.line
           reading == Parse(line)
           amount == AmountFor(reading, EntryOf(line))
           unit == UnitFor(reading, EntryOf(line))
           after == [w EXCEPT !.plan = Rest(c), !.name = reading.name, !.amount = amount,
                        !.unit = unit]
<1>1. RecallEntry(c)
      BY InHand, StepAt, SaidPlans DEF At
<1>2. Only(c, after)
      BY <1>1 DEF RecallEntry, Ask
<1>3. work'[c] = after /\ UNCHANGED <<items, history, shelf>>
      BY <1>2, InHand
<1> HIDE DEF reading, amount, unit
<1>4. /\ after.plan = AfterRecall /\ after.asked = w.asked /\ after.name = reading.name
      /\ after.amount = amount /\ after.unit = unit
      BY InHand, SaidPlans, ZenonT(60) DEF Works
<1> HIDE DEF after
<1>5. AsRead(c)'
      BY <1>3, <1>4 DEF AsRead, EntryOf, reading, amount, unit
<1>6. QED BY <1>3, <1>4, <1>5

(* The row of the line is found, or is to be made.                         *)
LEMMA LineSought ==
    ASSUME ShoppingInv, NEW c \in Callers, Saying(c), Step(c), work[c].plan = AfterRecall,
           NEW like, like = Alike(RowsNow, work[c].name, work[c].unit),
           NEW i, i = Pick(RowsNow, like)
    PROVE  /\ UNCHANGED <<items, history>> /\ work'[c].asked = work[c].asked
           /\ work'[c].unit = work[c].unit
           /\ like = {} =>
                 /\ work'[c].plan = ToInsert /\ work'[c].name = work[c].name
                 /\ work'[c].amount = work[c].amount
           /\ like # {} => work'[c].row = i
           /\ like # {} /\ items[i].done => work'[c].plan = ToPutBack
           /\ like # {} /\ ~items[i].done =>
                 work'[c].plan = AfterSeek /\ work'[c].name = items[i].name
<1> DEFINE w == work[c]
           d == work'[c]
           d1 == [w EXCEPT !.plan = <<"insert">> \o Rest(c)]
           d2 == [w EXCEPT !.row = i, !.plan = <<"put_back">> \o Rest(c)]
           d3 == [w EXCEPT !.row = i, !.name = items[i].name, !.amount = items[i].amount,
                     !.plan = Rest(c)]
<1>1. Seek(c)
      BY InHand, StepAt, SaidPlans DEF At
<1>2. IF like = {} THEN Only(c, d1) ELSE IF items[i].done THEN Only(c, d2) ELSE Only(c, d3)
      BY <1>1 DEF Seek
<1>3. Rest(c) = AfterSeek /\ w \in Works({w.walk})
      BY InHand, SaidPlans
<1>4. d = (IF like = {} THEN d1 ELSE IF items[i].done THEN d2 ELSE d3)
      /\ UNCHANGED <<items, history>>
      BY <1>2, InHand
<1>5. /\ d1.plan = ToInsert /\ d1.name = w.name /\ d1.asked = w.asked /\ d1.unit = w.unit
      /\ d1.amount = w.amount
      BY <1>3, SaidBy DEF Works
<1>6. d2.plan = ToPutBack /\ d2.row = i /\ d2.asked = w.asked /\ d2.unit = w.unit
      BY <1>3, SaidBy DEF Works
<1>7. /\ d3.plan = AfterSeek /\ d3.row = i /\ d3.asked = w.asked /\ d3.unit = w.unit
      /\ d3.name = items[i].name
      BY <1>3 DEF Works
<1> HIDE DEF d1, d2, d3
<1>8. QED BY <1>4, <1>5, <1>6, <1>7

(* A row is made under the next id.                                        *)
LEMMA RowMade ==
    ASSUME ShoppingInv, NEW c \in Callers, Saying(c), Step(c), work[c].plan = ToInsert
    PROVE  /\ UNCHANGED history
           /\ work'[c].plan = AfterSeek /\ work'[c].asked = work[c].asked
           /\ work'[c].unit = work[c].unit /\ work'[c].name = Capitalised(work[c].name)
           /\ work'[c].row \in RowIds \ Listed /\ Listed' = Listed \cup {work'[c].row}
           /\ items'[work'[c].row] = [name |-> Capitalised(work[c].name),
                  amount |-> work[c].amount, unit |-> work[c].unit, done |-> FALSE, tags |-> {}]
           /\ \A j \in Listed : items'[j] = items[j]
<1> DEFINE w == work[c]
           d == work'[c]
           name == Capitalised(w.name)
           row == [name |-> name, amount |-> w.amount, unit |-> w.unit,
                   done |-> FALSE, tags |-> {}]
           after(i) == [w EXCEPT !.row = i, !.name = Capitalised(w.name), !.plan = Rest(c)]
<1>1. Insert(c)
      BY InHand, StepAt, SaidPlans DEF At
<1>2. PICK i \in RowIds : /\ NextAfter(Listed, i) /\ items' = [items EXCEPT ![i] = row]
                          /\ Becomes(c, after(i)) /\ UNCHANGED history
      BY <1>1 DEF Insert
<1>3. /\ name \in Names /\ w.amount \in Nat \ {0}
      /\ w.unit \in Maybe(Known) /\ w \in Works({w.walk}) /\ Rest(c) = AfterSeek
      BY InHand, CapitalisedIsAName, SaidPlans
<1>4. /\ after(i).plan = AfterSeek /\ after(i).asked = w.asked /\ after(i).row = i
      /\ after(i).name = name /\ after(i).unit = w.unit
      BY <1>3 DEF Works
<1>5. d = after(i)
      BY <1>2, InHand
<1> HIDE DEF after, name
<1>6. row \in Rows
      BY <1>3 DEF Rows
<1>7. row # None
      BY <1>6, ShoppingAssumption DEF ShoppingAssumption
<1> HIDE DEF row
<1>8. i \notin Listed
      BY <1>2 DEF NextAfter, RowIds
<1>9. items'[i] = row /\ \A j \in RowIds \ {i} : items'[j] = items[j]
      BY <1>2 DEF ShoppingInv, StoreOK, ItemsOK
<1>10. Listed' = Listed \cup {i} /\ \A j \in Listed : items'[j] = items[j]
      BY <1>7, <1>8, <1>9 DEF Listed, Present
<1>11. QED BY <1>2, <1>4, <1>5, <1>8, <1>9, <1>10 DEF row, name

(* A row is put back as it was, wanted.                                    *)
LEMMA RowPutBack ==
    ASSUME ShoppingInv, NEW c \in Callers, Saying(c), Step(c), work[c].plan = ToPutBack,
           work[c].row \in Listed
    PROVE  /\ UNCHANGED history
           /\ work'[c].plan = AfterSeek /\ work'[c].asked = work[c].asked
           /\ work'[c].unit = work[c].unit /\ work'[c].row = work[c].row
           /\ work'[c].name = items[work[c].row].name
           /\ Listed' = Listed
           /\ items'[work[c].row] = [items[work[c].row] EXCEPT !.done = FALSE]
           /\ \A j \in Listed : j # work[c].row => items'[j] = items[j]
<1> DEFINE w == work[c]
           i == w.row
           back == [items[i] EXCEPT !.done = FALSE]
           after == [w EXCEPT !.name = items[i].name, !.amount = items[i].amount,
                        !.plan = Rest(c)]
<1>1. PutBack(c) /\ i \in RowIds /\ Present(i)
      BY InHand, StepAt, SaidPlans DEF At, Listed
<1>2. items' = [items EXCEPT ![i] = back] /\ Becomes(c, after) /\ UNCHANGED history
      BY <1>1 DEF PutBack, BackOnTheList
<1>3. back \in Rows
      BY <1>1, RowIs DEF Rows
<1>4. back # None
      BY <1>3, ShoppingAssumption DEF ShoppingAssumption
<1>5. /\ after.plan = AfterSeek /\ after.asked = w.asked /\ after.unit = w.unit
      /\ after.row = w.row /\ after.name = items[i].name
      BY InHand, SaidPlans, ZenonT(60) DEF Works
<1>6. work'[c] = after
      BY <1>2, InHand
<1> HIDE DEF after, back
<1>7. items'[i] = back /\ \A j \in RowIds \ {i} : items'[j] = items[j]
      BY <1>1, <1>2 DEF ShoppingInv, StoreOK, ItemsOK
<1>8. Listed' = Listed /\ \A j \in Listed : j # i => items'[j] = items[j]
      BY <1>1, <1>4, <1>7 DEF Listed, Present
<1>9. QED BY <1>2, <1>5, <1>6, <1>7, <1>8 DEF back

(* What was bought is remembered.                                          *)
LEMMA LineRecorded ==
    ASSUME ShoppingInv, NEW c \in Callers, Saying(c), Step(c), work[c].plan = AfterSeek,
           NEW n, n = Key(work[c].name)
    PROVE  /\ UNCHANGED items
           /\ history' = [m \in DOMAIN history \cup {n} |->
                  IF m # n THEN history[m]
                  ELSE IF n \in DOMAIN history THEN Used(history[n], work[c])
                  ELSE FirstUse(work[c])]
           /\ work'[c].plan = AfterRecord /\ work'[c].asked = work[c].asked
           /\ work'[c].unit = work[c].unit /\ work'[c].row = work[c].row
<1> DEFINE w == work[c]
           after == [w EXCEPT !.plan = Rest(c)]
<1>1. Record(c) /\ Rest(c) = AfterRecord
      BY InHand, StepAt, SaidPlans DEF At
<1>2. /\ UNCHANGED items /\ Continue(c)
      /\ history' = [m \in DOMAIN history \cup {n} |->
                       IF m # n THEN history[m]
                       ELSE IF n \in DOMAIN history THEN Used(history[n], w) ELSE FirstUse(w)]
      BY <1>1, PlansApart DEF Record
<1>3. work'[c] = after
  <2>1. Continue(c)
        BY <1>2
  <2>2. QED BY <2>1, InHand
<1>4. /\ after.plan = AfterRecord /\ after.asked = w.asked /\ after.row = w.row
      /\ after.unit = w.unit
      BY <1>1, InHand DEF Works
<1> HIDE DEF after
<1>5. QED BY <1>2, <1>3, <1>4

(* Some of what is remembered may be forgotten.                            *)
LEMMA MemoryPruned ==
    ASSUME ShoppingInv, NEW c \in Callers, Saying(c), Step(c), work[c].plan = AfterRecord
    PROVE  /\ UNCHANGED items
           /\ \E kept \in SUBSET DOMAIN history : history' = [m \in kept |-> history[m]]
           /\ work'[c].plan = AfterPrune /\ work'[c].asked = work[c].asked
           /\ work'[c].unit = work[c].unit /\ work'[c].row = work[c].row
<1> DEFINE w == work[c]
           after == [w EXCEPT !.plan = Rest(c)]
<1>1. Prune(c) /\ Rest(c) = AfterPrune
      BY InHand, StepAt, SaidPlans DEF At
<1>2. \E kept \in SUBSET DOMAIN history : history' = [m \in kept |-> history[m]]
      BY <1>1 DEF Prune
<1>3. UNCHANGED items /\ Continue(c)
      BY <1>1, PlansApart DEF Prune
<1>4. work'[c] = after
      BY <1>3, InHand
<1>5. /\ after.plan = AfterPrune /\ after.asked = w.asked /\ after.row = w.row
      /\ after.unit = w.unit
      BY <1>1, InHand DEF Works
<1> HIDE DEF after
<1>6. QED BY <1>2, <1>3, <1>4, <1>5

(* What the name is filed under is looked up.                              *)
LEMMA FilingFound ==
    ASSUME ShoppingInv, NEW c \in Callers, Saying(c), Step(c), work[c].plan = AfterPrune,
           NEW under, under = Learned(Key(SaidAs(c)))
    PROVE  /\ UNCHANGED <<items, history>>
           /\ under = {} => Unsaid(work'[c])
           /\ under # {} =>
                 /\ work'[c].plan = ToFile /\ work'[c].asked = work[c].asked
                 /\ work'[c].unit = work[c].unit /\ work'[c].row = work[c].row
                 /\ work'[c].left = under
<1> DEFINE w == work[c]
           d == work'[c]
           k == Key(SaidAs(c))
           entry == EntryOf(Ask(c).line)
           before == IF entry = None THEN {} ELSE entry.tags
           after == [w EXCEPT !.left = before, !.plan = Rest(c)]
<1>1. FiledBefore(c) /\ Rest(c) = ToFile
      BY InHand, StepAt, SaidPlans DEF At
<1>2. Only(c, IF before = {} THEN Onward(w) ELSE after)
      BY <1>1 DEF FiledBefore
<1>3. d = (IF before = {} THEN Onward(w) ELSE after) /\ UNCHANGED <<items, history, shelf>>
      BY <1>2, InHand
<1>4. before = under
  <2>1. entry = IF k \in DOMAIN history THEN history[k] ELSE None
        BY DEF EntryOf, SaidAs, Ask
  <2> HIDE DEF k, entry
  <2>2. k \in DOMAIN history => history[k] # None
    <3>1. k \in DOMAIN history => history[k] \in Entries
          BY EntryIs
    <3>2. QED BY <3>1, ShoppingAssumption DEF ShoppingAssumption
  <2>3. QED BY <2>1, <2>2 DEF Learned, k
<1> HIDE DEF before
<1>5. /\ after.plan = ToFile /\ after.asked = w.asked /\ after.row = w.row
      /\ after.left = under /\ after.unit = w.unit
  <2>1. under \in SUBSET TagIds
    <3> HIDE DEF k
    <3>1. QED BY <1>4, EntryIs DEF Learned, k
  <2>2. QED BY <1>1, <1>4, <2>1, InHand DEF Works
<1> HIDE DEF after
<1>6. QED BY <1>3, <1>4, <1>5, InHand

(* The row is filed under the first of what is left, unless it is.         *)
LEMMA FiledUnderOne ==
    ASSUME ShoppingInv, NEW c \in Callers, Saying(c), Step(c), work[c].plan = ToFile,
           NEW i, i = work[c].row
    PROVE  /\ UNCHANGED <<history, shelf>>
           /\ \E t \in work[c].left :
                 /\ t \in TagIds
                 /\ items' = IF MayAttach(i, t) THEN WithTag(i, t) ELSE items
                 /\ work[c].left = {t} => Unsaid(work'[c])
                 /\ work[c].left # {t} =>
                       /\ work'[c].plan = ToFile /\ work'[c].asked = work[c].asked
                       /\ work'[c].unit = work[c].unit /\ work'[c].row = i
                       /\ work'[c].left = work[c].left \ {t}
<1> DEFINE w == work[c]
           d == work'[c]
           left == w.left
           t == Min(left)
           after == [w EXCEPT !.left = @ \ {t}]
<1>1. FileOne(c)
      BY InHand, StepAt, SaidPlans DEF At
<1>2. /\ items' = IF MayAttach(i, t) THEN WithTag(i, t) ELSE items
      /\ IF left = {t} THEN Finish(c) ELSE Becomes(c, after)
      /\ UNCHANGED <<history, shelf>>
      BY <1>1 DEF FileOne
<1>3. left \in SUBSET TagIds /\ left # {} /\ w \in Works({w.walk})
  <2> HIDE DEF w
  <2>1. WorkOK(w) /\ w.plan # <<>> /\ w.plan = ToFile
        BY InHand DEF w
  <2>2. w.plan[1] = "file_one" /\ Len(w.plan) = 1
        BY <2>1 DEF ToFile
  <2>3. FiledInTurn(w.plan, left) /\ left \in SUBSET TagIds
        BY <2>1, UnderWay
  <2>4. left # {}
        BY <2>2, <2>3 DEF FiledInTurn
  <2>5. QED BY <2>3, <2>4, InHand DEF w
<1>4. t \in left /\ t \in TagIds
      BY <1>3, MinIsThere DEF TagIds
<1> HIDE DEF t
<1>5. IF left = {t} THEN Unsaid(d) ELSE d = after
      BY <1>2, InHand
<1>6. /\ after.plan = ToFile /\ after.asked = w.asked /\ after.row = i
      /\ after.left = left \ {t} /\ after.unit = w.unit
      BY <1>3 DEF Works
<1> HIDE DEF after
<1>7. QED BY <1>2, <1>4, <1>5, <1>6

(* Each of them keeps what was foretold true, on a line not yet read,      *)
LEMMA Reread ==
    ASSUME ShoppingInv, NEW c \in Callers, Saying(c), Step(c), work[c].plan = SayPlan,
           NEW rows, NEW told, Still(rows), told = Resolve(work[c].asked.line, rows, history)
    PROVE  Tells(c, rows, told)'
<1>1. /\ UNCHANGED <<items, history>> /\ work'[c].asked = work[c].asked
      /\ work'[c].plan = AfterRecall /\ AsRead(c)'
      BY LineRead
<1>2. Still(rows)' /\ told = Resolve(work[c].asked.line, rows, history)'
      BY <1>1 DEF Still, Listed, Present
<1>3. QED BY <1>1, <1>2 DEF Tells

(* The row of a line that is there, or the one to be made: what the server *)
(* decides is what was foretold.                                           *)
LEMMA Decided ==
    ASSUME ShoppingInv, NEW c \in Callers, Saying(c), Step(c), work[c].plan = AfterRecall,
           NEW rows, NEW told, RowsAre(rows), Still(rows), AsRead(c),
           told = Resolve(work[c].asked.line, rows, history)
    PROVE  Tells(c, rows, told)'
<1> DEFINE w == work[c]
           d == work'[c]
           like == Alike(RowsNow, w.name, w.unit)
           i == Pick(RowsNow, like)
<1>1. UNCHANGED <<items, history>> /\ d.asked = w.asked /\ d.unit = w.unit
      BY LineSought
<1>2. like = {} => d.plan = ToInsert /\ d.name = w.name /\ d.amount = w.amount
      BY LineSought
<1>3. like # {} => IF items[i].done THEN d.plan = ToPutBack /\ d.row = i ELSE d.plan = AfterSeek
      BY LineSought
<1>4. RowsNow = rows
      BY StillThere
<1>5. like # {} => i \in like /\ i \in RowIds /\ Present(i)
  <2>1. like \subseteq Listed /\ \A j \in Listed : RowsNow[j] = items[j]
        BY DEF Alike, RowsNow
  <2>2. like \subseteq Nat /\ \A j \in like : RowsNow[j].done \in BOOLEAN
        BY <2>1, RowIs DEF Listed, RowIds
  <2> HIDE DEF like
  <2>3. like # {} => i \in like
        BY <2>2, PickIs
  <2>4. QED BY <2>1, <2>3 DEF Listed
<1>6. /\ w.name = SaidAs(c) /\ EntryOf(w.asked.line) = Recall(history, w.asked.line)
      BY DEF AsRead, SaidAs, EntryOf, Recall
<1>7. told = IF like # {} THEN [row |-> i, put_back |-> rows[i].done]
             ELSE ToBeMade(w, Learned(Key(SaidAs(c))))
  <2>1. like = Alike(rows, Parse(w.asked.line).name,
                     UnitFor(Parse(w.asked.line), Recall(history, w.asked.line)))
        BY <1>4, <1>6 DEF AsRead
  <2>2. CASE like # {}
        BY <1>4, <2>1, <2>2 DEF Resolve
  <2>3. CASE like = {}
    <3>1. (IF Recall(history, w.asked.line) = None THEN {}
           ELSE Recall(history, w.asked.line).tags) = Learned(Key(SaidAs(c)))
      <4> DEFINE k == Key(SaidAs(c))
      <4>1. Recall(history, w.asked.line) = IF k \in DOMAIN history THEN history[k] ELSE None
            BY DEF Recall, SaidAs
      <4>2. k \in DOMAIN history => history[k] # None
        <5> HIDE DEF k
        <5>1. k \in DOMAIN history => history[k] \in Entries
              BY EntryIs
        <5>2. QED BY <5>1, ShoppingAssumption DEF ShoppingAssumption
      <4> HIDE DEF k
      <4>3. QED BY <4>1, <4>2 DEF Learned, k
    <3>2. QED BY <1>6, <2>1, <2>3, <3>1 DEF Resolve, ToBeMade, AsRead
  <2>4. QED BY <2>2, <2>3
<1> HIDE DEF like, i
<1>8. Still(rows)' /\ Listed' = Listed
      BY <1>1 DEF Still, Listed, Present
<1>9. CASE like = {}
  <2>1. SaidAs(c)' = SaidAs(c) /\ Learned(Key(SaidAs(c)))' = Learned(Key(SaidAs(c)))
        BY <1>1 DEF SaidAs, Learned
  <2>2. ToBeMade(w, Learned(Key(SaidAs(c))))' = ToBeMade(w, Learned(Key(SaidAs(c))))
        BY <1>1, <1>2, <1>9, <2>1 DEF ToBeMade
  <2>3. QED BY <1>2, <1>6, <1>7, <1>8, <1>9, <2>1, <2>2 DEF Tells
<1>10. CASE like # {} /\ items[i].done
  <2>1. i \in Listed /\ rows[i] = items[i] /\ items[i].done \in BOOLEAN
        BY <1>5, <1>10, RowIs DEF Still, Listed
  <2>2. told = [row |-> i, put_back |-> TRUE]
        BY <1>7, <1>10, <2>1
  <2>3. QED BY <1>3, <1>8, <1>10, <2>1, <2>2 DEF Tells
<1>11. CASE like # {} /\ ~items[i].done
  <2>1. told = [row |-> i, put_back |-> rows[i].done] /\ i \in Listed /\ rows[i] = items[i]
        BY <1>5, <1>7, <1>11 DEF Still, Listed
  <2>2. items[i] \in Rows /\ items[i].done = FALSE
        BY <1>5, <1>11, RowIs
  <2>3. [rows[i] EXCEPT !.done = @ /\ ~told.put_back] = rows[i]
        BY <2>1, <2>2 DEF Rows
  <2>4. \A j \in DOMAIN rows : Landed(rows, told)[j] = rows[j]
        BY <2>1, <2>3 DEF Landed
  <2>5. LandedAs(rows, told)'
        BY <1>8, <2>1, <2>4 DEF LandedAs, Still
  <2>6. QED BY <1>3, <1>11, <2>5 DEF Tells, Settled
<1>12. QED BY <1>9, <1>10, <1>11

LEMMA FiledSoFarIs ==
    ASSUME NEW told \in Rows, NEW tags \in SUBSET TagIds
    PROVE  /\ FiledSoFar(told, tags) \in Rows /\ FiledSoFar(told, tags).tags = tags
           /\ FiledSoFar(told, tags) =
                 [name |-> told.name, amount |-> told.amount, unit |-> told.unit,
                  done |-> told.done, tags |-> tags]
<1> DEFINE row == FiledSoFar(told, tags)
<1>1. /\ row \in Rows /\ row.name = told.name /\ row.amount = told.amount
      /\ row.unit = told.unit /\ row.done = told.done /\ row.tags = tags
      BY DEF FiledSoFar, Rows
<1> HIDE DEF row
<1>2. row = [name |-> row.name, amount |-> row.amount, unit |-> row.unit, done |-> row.done,
             tags |-> row.tags]
      BY <1>1 DEF Rows
<1>3. QED BY <1>1, <1>2 DEF row

(* A row that is made is the row foretold, not yet filed.                  *)
LEMMA MadeAsTold ==
    ASSUME ShoppingInv, NEW c \in Callers, Saying(c), Step(c), work[c].plan = ToInsert,
           NEW rows, NEW told, RowsAre(rows), Still(rows), work[c].name = SaidAs(c),
           told = ToBeMade(work[c], Learned(Key(SaidAs(c))))
    PROVE  Tells(c, rows, told)'
<1> DEFINE w == work[c]
           d == work'[c]
           k == Key(SaidAs(c))
           tags == Learned(k)
           name == Capitalised(w.name)
           amount == w.amount
           unit == w.unit
           row == [name |-> name, amount |-> amount, unit |-> unit, done |-> FALSE, tags |-> {}]
<1>1. /\ UNCHANGED history /\ d.plan = AfterSeek /\ d.asked = w.asked /\ d.name = name
      /\ d.row \in RowIds \ Listed /\ Listed' = Listed \cup {d.row} /\ items'[d.row] = row
      /\ \A j \in Listed : items'[j] = items[j]
      BY RowMade
<1>2. /\ name \in Names /\ w.name \in Names /\ amount \in Nat \ {0} /\ unit \in Maybe(Known)
      BY InHand, CapitalisedIsAName
<1>3. tags \in SUBSET TagIds
  <2> HIDE DEF k
  <2>1. QED BY EntryIs DEF Learned
<1>4. Key(name) = k
      BY <1>2, NameKept
<1>5. told = [name |-> name, amount |-> amount, unit |-> unit, done |-> FALSE, tags |-> tags]
      BY DEF ToBeMade
<1>6. k' = k /\ tags' = tags
      BY <1>1 DEF SaidAs, Learned
<1> HIDE DEF tags, name, amount, unit, row, k
<1>7. told \in Rows /\ told.tags = tags
      BY <1>2, <1>3, <1>5 DEF Rows
<1>8. row = FiledSoFar(told, {})
  <2>1. FiledSoFar(told, {}) = [name |-> told.name, amount |-> told.amount,
                                unit |-> told.unit, done |-> told.done, tags |-> {}]
        BY <1>7, FiledSoFarIs
  <2>2. told.name = name /\ told.amount = amount /\ told.unit = unit /\ told.done = FALSE
        BY <1>5
  <2>3. QED BY <2>1, <2>2 DEF row
<1>9. /\ d.row \in RowIds \ DOMAIN rows /\ Listed' = DOMAIN rows \cup {d.row}
      /\ items'[d.row] = FiledSoFar(told, {})
      /\ \A j \in DOMAIN rows : items'[j] = rows[j]
      BY <1>1, <1>8 DEF Still
<1>10. (Key(work[c].name) = Key(SaidAs(c)) /\ told.tags = Learned(Key(SaidAs(c))))'
       BY <1>1, <1>4, <1>6, <1>7 DEF k, tags
<1>11. MadeAs(c, rows, told)'
       BY <1>1, <1>7, <1>9, <1>10, PlansApart DEF MadeAs
<1>12. QED BY <1>1, <1>11 DEF Tells, Settled

(* A row that is put back lands where it was foretold, and is found.       *)
LEMMA PutBackAsTold ==
    ASSUME ShoppingInv, NEW c \in Callers, Saying(c), Step(c), work[c].plan = ToPutBack,
           NEW rows, NEW told, RowsAre(rows), Still(rows), work[c].row \in Listed,
           told = [row |-> work[c].row, put_back |-> TRUE]
    PROVE  Tells(c, rows, told)'
<1> DEFINE i == work[c].row
           back == [items[i] EXCEPT !.done = FALSE]
<1>1. /\ work'[c].plan = AfterSeek /\ Listed' = Listed /\ items'[i] = back
      /\ \A j \in Listed : j # i => items'[j] = items[j]
      BY RowPutBack
<1>2. items[i] \in Rows /\ rows[i] = items[i]
      BY RowIs DEF Listed, Still
<1>3. [rows[i] EXCEPT !.done = @ /\ ~told.put_back] = back
  <2>1. (rows[i].done /\ ~told.put_back) = FALSE
        OBVIOUS
  <2>2. QED BY <1>2, <2>1
<1> HIDE DEF back
<1>4. \A j \in DOMAIN rows : items'[j] = Landed(rows, told)[j]
      BY <1>1, <1>3 DEF Landed, Still
<1>5. LandedAs(rows, told)'
      BY <1>1, <1>4 DEF LandedAs, Still
<1>6. QED BY <1>1, <1>5 DEF Tells, Settled

(* What is recorded keeps what is known of the name.                       *)
LEMMA RecordedAsTold ==
    ASSUME ShoppingInv, NEW c \in Callers, Saying(c), Step(c), work[c].plan = AfterSeek,
           NEW rows, NEW told, LandedAs(rows, told) \/ MadeAs(c, rows, told)
    PROVE  Tells(c, rows, told)'
<1> DEFINE w == work[c]
           d == work'[c]
           k == Key(SaidAs(c))
           n == Key(w.name)
<1>1. /\ UNCHANGED items /\ d.plan = AfterRecord /\ d.asked = w.asked /\ d.row = w.row
      /\ history' = [m \in DOMAIN history \cup {n} |->
             IF m # n THEN history[m]
             ELSE IF n \in DOMAIN history THEN Used(history[n], w) ELSE FirstUse(w)]
      BY LineRecorded
<1>2. CASE LandedAs(rows, told)
  <2>1. LandedAs(rows, told)'
        BY <1>1, <1>2 DEF LandedAs, Listed, Present
  <2>2. QED BY <1>1, <2>1 DEF Tells, Settled
<1>3. CASE MadeAs(c, rows, told)
  <2>1. n = k /\ told.tags = Learned(k) /\ w.plan # ToFile
        BY <1>3, PlansApart DEF MadeAs
  <2>2. k' = k
        BY <1>1 DEF SaidAs
  <2> HIDE DEF k, n
  <2>3. k \in DOMAIN history' /\ history'[k].tags = Learned(k)
    <3>1. Used(history[n], w).tags = history[n].tags /\ FirstUse(w).tags = {}
          BY DEF Used, FirstUse
    <3>2. QED BY <1>1, <2>1, <3>1 DEF Learned
  <2>4. (k \in DOMAIN history /\ told.tags = Learned(k))'
        BY <2>1, <2>2, <2>3 DEF Learned
  <2>5. /\ told \in Rows /\ d.row \in RowIds \ DOMAIN rows
        /\ Listed' = DOMAIN rows \cup {d.row}
        /\ \A i \in DOMAIN rows : items'[i] = rows[i]
        /\ items'[d.row] = FiledSoFar(told, {})
        BY <1>1, <1>3, <2>1 DEF MadeAs, Listed, Present
  <2>6. AfterRecord # ToFile /\ AfterRecord # AfterSeek /\ AfterRecord # AfterPrune
        BY PlansApart
  <2>7. MadeAs(c, rows, told)'
        BY <1>1, <2>4, <2>5, <2>6 DEF MadeAs, k
  <2>8. QED BY <1>1, <2>7 DEF Tells, Settled
<1>4. QED BY <1>2, <1>3

(* What is forgotten is forgotten altogether.                              *)
LEMMA PrunedAsTold ==
    ASSUME ShoppingInv, NEW c \in Callers, Saying(c), Step(c), work[c].plan = AfterRecord,
           NEW rows, NEW told, LandedAs(rows, told) \/ MadeAs(c, rows, told)
    PROVE  Tells(c, rows, told)'
<1> DEFINE d == work'[c]
           k == Key(SaidAs(c))
<1>1. /\ UNCHANGED items /\ d.plan = AfterPrune /\ d.asked = work[c].asked
      /\ d.row = work[c].row
      BY MemoryPruned
<1>2. PICK kept \in SUBSET DOMAIN history : history' = [m \in kept |-> history[m]]
      BY MemoryPruned
<1>3. CASE LandedAs(rows, told)
  <2>1. LandedAs(rows, told)'
        BY <1>1, <1>3 DEF LandedAs, Listed, Present
  <2>2. QED BY <1>1, <2>1 DEF Tells, Settled
<1>4. CASE MadeAs(c, rows, told)
  <2>1. k \in DOMAIN history /\ told.tags = Learned(k) /\ AfterRecord # ToFile
        BY <1>4, PlansApart DEF MadeAs
  <2>2. k' = k
        BY <1>1 DEF SaidAs
  <2> HIDE DEF k
  <2>3. k \in DOMAIN history' => history'[k].tags = told.tags
        BY <1>2, <2>1 DEF Learned
  <2>4. (k \in DOMAIN history => told.tags = Learned(k))'
        BY <2>2, <2>3 DEF Learned
  <2>5. /\ told \in Rows /\ d.row \in RowIds \ DOMAIN rows
        /\ Listed' = DOMAIN rows \cup {d.row}
        /\ \A i \in DOMAIN rows : items'[i] = rows[i]
        /\ items'[d.row] = FiledSoFar(told, {})
        BY <1>1, <1>4, <2>1 DEF MadeAs, Listed, Present
  <2>6. AfterPrune # ToFile /\ AfterPrune # AfterSeek /\ AfterPrune # AfterRecord
        BY PlansApart
  <2>7. MadeAs(c, rows, told)'
        BY <1>1, <2>4, <2>5, <2>6 DEF MadeAs, k
  <2>8. QED BY <1>1, <2>7 DEF Tells, Settled
<1>5. QED BY <1>3, <1>4

(* What there is in the end, on a row that was there, or on a new one.     *)
LEMMA LandedIsForetold ==
    ASSUME NEW c, NEW rows, NEW told, LandedAs(rows, told)'
    PROVE  AsForetold(c, rows, told)
BY DEF LandedAs, AsForetold

LEMMA MadeIsForetold ==
    ASSUME NEW c, NEW rows, NEW told \in Rows, NEW i \in RowIds \ DOMAIN rows,
           Listed' = DOMAIN rows \cup {i}, \A j \in DOMAIN rows : items'[j] = rows[j],
           items'[i] = IF Remembers(c) THEN told ELSE Unfiled(told)
    PROVE  AsForetold(c, rows, told)
<1>1. "row" \notin DOMAIN told
      BY DEF Rows
<1>2. RowsNow' = [j \in DOMAIN rows \cup {i} |->
                    IF j # i THEN rows[j] ELSE IF Remembers(c) THEN told ELSE Unfiled(told)]
      BY DEF RowsNow
<1>3. QED BY <1>1, <1>2 DEF AsForetold

LEMMA AllFiled == ASSUME NEW told \in Rows PROVE FiledSoFar(told, told.tags) = told
<1>1. told = [name |-> told.name, amount |-> told.amount, unit |-> told.unit,
              done |-> told.done, tags |-> told.tags] /\ told.tags \in SUBSET TagIds
      BY DEF Rows
<1>2. QED BY <1>1, FiledSoFarIs

(* What the name was filed under is found.                                 *)
LEMMA FoundAsTold ==
    ASSUME ShoppingInv, NEW c \in Callers, Saying(c), Step(c), work[c].plan = AfterPrune,
           NEW rows, NEW told, LandedAs(rows, told) \/ MadeAs(c, rows, told)
    PROVE  Tells(c, rows, told)' \/ (Unsaid(work'[c]) /\ AsForetold(c, rows, told))
<1> DEFINE w == work[c]
           d == work'[c]
           k == Key(SaidAs(c))
           under == Learned(k)
<1>1. /\ UNCHANGED <<items, history>>
      /\ under = {} => Unsaid(d)
      /\ under # {} => /\ d.plan = ToFile /\ d.asked = w.asked /\ d.row = w.row
                       /\ d.left = under
      BY FilingFound
<1>2. CASE LandedAs(rows, told)
  <2>1. LandedAs(rows, told)'
        BY <1>1, <1>2 DEF LandedAs, Listed, Present
  <2>2. QED BY <1>1, <2>1, LandedIsForetold DEF Tells, Settled
<1>3. CASE MadeAs(c, rows, told)
  <2>1. /\ told \in Rows /\ w.row \in RowIds \ DOMAIN rows
        /\ Listed' = DOMAIN rows \cup {w.row}
        /\ \A i \in DOMAIN rows : items'[i] = rows[i]
        /\ items'[w.row] = FiledSoFar(told, {})
        BY <1>1, <1>3, PlansApart DEF MadeAs, Listed, Present
  <2>2. k \in DOMAIN history => told.tags = Learned(k)
        BY <1>3, PlansApart DEF MadeAs
  <2>3. CASE under = {}
    <3>1. Remembers(c) <=> k \in DOMAIN history
          BY <1>1 DEF Remembers, SaidAs, Ask
    <3> HIDE DEF k
    <3>2. Remembers(c) => FiledSoFar(told, {}) = told
          BY <2>1, <2>2, <2>3, <3>1, AllFiled
    <3>3. items'[w.row] = IF Remembers(c) THEN told ELSE Unfiled(told)
          BY <2>1, <3>2 DEF FiledSoFar, Unfiled
    <3>4. QED BY <1>1, <2>1, <2>3, <3>3, MadeIsForetold
  <2>4. CASE under # {}
    <3>1. d.plan = ToFile /\ d.asked = w.asked /\ d.row = w.row /\ d.left = under
          BY <1>1, <2>4
    <3>2. k' = k
          BY <3>1 DEF SaidAs
    <3> HIDE DEF k
    <3>3. k \in DOMAIN history /\ told.tags = under
          BY <2>2, <2>4 DEF Learned
    <3>4. (k \in DOMAIN history /\ told.tags = Learned(k))'
          BY <1>1, <3>2, <3>3 DEF Learned
    <3>5. told.tags \ d.left = {} /\ d.left \subseteq told.tags
          BY <3>1, <3>3
    <3>6. ToFile # AfterSeek /\ ToFile # AfterRecord /\ ToFile # AfterPrune
          BY PlansApart
    <3>7. MadeAs(c, rows, told)'
          BY <2>1, <3>1, <3>4, <3>5, <3>6 DEF MadeAs, k
    <3>8. QED BY <3>1, <3>7 DEF Tells, Settled
  <2>5. QED BY <2>3, <2>4
<1>4. QED BY <1>2, <1>3

(* An aisle is one of those the name was filed under, and is there.        *)
LEMMA FiledAsTold ==
    ASSUME ShoppingInv, NEW c \in Callers, Saying(c), Step(c), work[c].plan = ToFile,
           NEW rows, NEW told, LandedAs(rows, told) \/ MadeAs(c, rows, told)
    PROVE  Tells(c, rows, told)' \/ (Unsaid(work'[c]) /\ AsForetold(c, rows, told))
<1> DEFINE d == work'[c]
           i == work[c].row
           left == work[c].left
<1>1. PICK t \in left :
          /\ t \in TagIds
          /\ items' = IF MayAttach(i, t) THEN WithTag(i, t) ELSE items
          /\ UNCHANGED <<history, shelf>>
          /\ left = {t} => Unsaid(d)
          /\ left # {t} => /\ d.plan = ToFile /\ d.asked = work[c].asked /\ d.row = i
                           /\ d.left = left \ {t}
      BY FiledUnderOne
<1> DEFINE tagged == [items[i] EXCEPT !.tags = @ \cup {t}]
<1>2. CASE LandedAs(rows, told)
  <2>1. CASE ~MayAttach(i, t)
    <3>1. LandedAs(rows, told)'
          BY <1>1, <1>2, <2>1 DEF LandedAs, Listed, Present
    <3>2. QED BY <1>1, <3>1, LandedIsForetold DEF Tells, Settled
  <2>2. CASE MayAttach(i, t)
    <3>1. i \in RowIds /\ Present(i) /\ items[i] \in Rows
          BY <2>2, InHand, RowIs DEF MayAttach
    <3>2. tagged \in Rows /\ Unfiled(tagged) = Unfiled(items[i])
      <4> DEFINE tags == items[i].tags \cup {t}
      <4>1. tags \in SUBSET TagIds
            BY <1>1, <3>1 DEF Rows
      <4>2. tagged = FiledSoFar(items[i], tags)
            BY DEF FiledSoFar
      <4> HIDE DEF tags, tagged
      <4>3. tagged \in Rows /\ tagged = [name |-> items[i].name, amount |-> items[i].amount,
              unit |-> items[i].unit, done |-> items[i].done, tags |-> tags]
            BY <3>1, <4>1, <4>2, FiledSoFarIs
      <4>4. Unfiled(tagged) = FiledSoFar(tagged, {}) /\ Unfiled(items[i]) = FiledSoFar(items[i], {})
            BY DEF Unfiled, FiledSoFar
      <4>5. /\ FiledSoFar(items[i], {}) =
                 [name |-> items[i].name, amount |-> items[i].amount,
                  unit |-> items[i].unit, done |-> items[i].done, tags |-> {}]
            /\ FiledSoFar(tagged, {}) =
                 [name |-> tagged.name, amount |-> tagged.amount,
                  unit |-> tagged.unit, done |-> tagged.done, tags |-> {}]
            BY <3>1, <4>3, FiledSoFarIs
      <4>6. QED BY <4>3, <4>4, <4>5
    <3>3. tagged # None
          BY <3>2, ShoppingAssumption DEF ShoppingAssumption
    <3>4. items'[i] = tagged /\ \A j \in RowIds \ {i} : items'[j] = items[j]
      <4>1. items' = [items EXCEPT ![i] = tagged]
            BY <1>1, <2>2 DEF WithTag
      <4> HIDE DEF tagged
      <4>2. QED BY <3>1, <4>1 DEF ShoppingInv, StoreOK, ItemsOK
    <3> HIDE DEF tagged
    <3>5. Listed' = Listed
          BY <3>1, <3>3, <3>4 DEF Listed, Present
    <3>6. \A j \in Listed : Unfiled(items'[j]) = Unfiled(items[j])
          BY <3>2, <3>4 DEF Listed
    <3>7. LandedAs(rows, told)'
          BY <1>2, <3>5, <3>6 DEF LandedAs
    <3>8. QED BY <1>1, <3>7, LandedIsForetold DEF Tells, Settled
  <2>3. QED BY <2>1, <2>2
<1>3. CASE MadeAs(c, rows, told)
  <2> DEFINE k == Key(SaidAs(c))
             tags == told.tags \ left
             more == told.tags \ (left \ {t})
  <2>1. /\ told \in Rows /\ i \in RowIds \ DOMAIN rows /\ Listed = DOMAIN rows \cup {i}
        /\ \A j \in DOMAIN rows : items[j] = rows[j]
        /\ items[i] = FiledSoFar(told, tags)
        /\ k \in DOMAIN history /\ told.tags = Learned(k) /\ left \subseteq told.tags
        BY <1>3, PlansApart DEF MadeAs
  <2>2. told.tags \in SUBSET TagIds /\ told.tags \subseteq Aisles
    <3> HIDE DEF k
    <3>1. QED BY <2>1, EntryIs DEF Learned
  <2>3. tags \in SUBSET TagIds /\ more \in SUBSET TagIds /\ more = tags \cup {t}
        BY <1>1, <2>1, <2>2
  <2>4. items[i] \in Rows /\ items[i].tags = tags
        BY <2>1, <2>3, FiledSoFarIs
  <2>5. MayAttach(i, t)
    <3>1. Present(i)
          BY <2>1, <2>4, ShoppingAssumption DEF ShoppingAssumption, Present
    <3>2. shelf[t] # None
          BY <1>1, <2>1, <2>2 DEF Aisles
    <3>3. t \notin items[i].tags
          BY <1>1, <2>4
    <3>4. QED BY <3>1, <3>2, <3>3 DEF MayAttach
  <2>6. tagged = FiledSoFar(told, more)
    <3>1. tagged = FiledSoFar(items[i], more)
          BY <2>3, <2>4 DEF FiledSoFar
    <3> HIDE DEF tagged, tags, more
    <3>2. /\ FiledSoFar(items[i], more) =
               [name |-> items[i].name, amount |-> items[i].amount,
                unit |-> items[i].unit, done |-> items[i].done, tags |-> more]
          /\ FiledSoFar(told, more) =
               [name |-> told.name, amount |-> told.amount,
                unit |-> told.unit, done |-> told.done, tags |-> more]
          /\ items[i] =
               [name |-> told.name, amount |-> told.amount,
                unit |-> told.unit, done |-> told.done, tags |-> tags]
          BY <2>1, <2>3, <2>4, FiledSoFarIs
    <3>3. QED BY <3>1, <3>2
  <2>7. tagged # None
    <3>1. None \notin Rows
          BY ShoppingAssumption DEF ShoppingAssumption
    <3>2. told \in Rows /\ more \in SUBSET TagIds
          BY <2>1, <2>3
    <3> HIDE DEF tagged, more
    <3>3. FiledSoFar(told, more) \in Rows
          BY <3>2, FiledSoFarIs
    <3>4. QED BY <2>6, <3>1, <3>3
  <2>8. items'[i] = tagged /\ \A j \in RowIds \ {i} : items'[j] = items[j]
    <3>1. items' = [items EXCEPT ![i] = tagged]
          BY <1>1, <2>5 DEF WithTag
    <3> HIDE DEF tagged
    <3>2. QED BY <2>1, <3>1 DEF ShoppingInv, StoreOK, ItemsOK
  <2> HIDE DEF tagged
  <2>9. Listed' = DOMAIN rows \cup {i}
        BY <2>1, <2>7, <2>8 DEF Listed, Present
  <2>10. \A j \in DOMAIN rows : items'[j] = rows[j]
        BY <2>1, <2>8 DEF Listed
  <2> HIDE DEF k
  <2>11. CASE left = {t}
    <3>1. Remembers(c)
          BY <1>1, <2>1 DEF Remembers, k, SaidAs, Ask
    <3>2. more = told.tags
          BY <2>11
    <3>3. items'[i] = told
          BY <2>1, <2>6, <2>8, <3>2, AllFiled
    <3>4. AsForetold(c, rows, told)
          BY <2>1, <2>9, <2>10, <3>1, <3>3, MadeIsForetold
    <3>5. QED BY <1>1, <2>11, <3>4
  <2>12. CASE left # {t}
    <3>1. d.plan = ToFile /\ d.asked = work[c].asked /\ d.row = i /\ d.left = left \ {t}
          BY <1>1, <2>12
    <3>2. k' = k
          BY <3>1 DEF k, SaidAs
    <3>3. (k \in DOMAIN history /\ told.tags = Learned(k))'
          BY <1>1, <2>1, <3>2 DEF Learned
    <3>4. items'[i] = FiledSoFar(told, told.tags \ d.left) /\ d.left \subseteq told.tags
          BY <2>1, <2>6, <2>8, <3>1
    <3>5. ToFile # AfterSeek /\ ToFile # AfterRecord /\ ToFile # AfterPrune
          BY PlansApart
    <3>6. MadeAs(c, rows, told)'
          BY <2>1, <2>9, <2>10, <3>1, <3>3, <3>4, <3>5 DEF MadeAs, k
    <3>7. QED BY <3>1, <3>6 DEF Tells, Settled
  <2>13. QED BY <2>11, <2>12
<1>4. QED BY <1>2, <1>3

(* Each statement of a line that is said, and what it comes to.            *)
LEMMA TellingGoesOn ==
    ASSUME ShoppingInv, NEW c \in Callers, Saying(c), Step(c),
           NEW rows, NEW told, RowsAre(rows), Tells(c, rows, told)
    PROVE  Tells(c, rows, told)' \/ (Unsaid(work'[c]) /\ AsForetold(c, rows, told))
<1> DEFINE w == work[c]
<1>1. CASE w.plan = SayPlan /\ Still(rows) /\ told = Resolve(w.asked.line, rows, history)
      BY <1>1, Reread
<1>2. CASE /\ w.plan = AfterRecall /\ Still(rows)
           /\ told = Resolve(w.asked.line, rows, history) /\ AsRead(c)
      BY <1>2, Decided
<1>3. CASE /\ w.plan = ToInsert /\ Still(rows) /\ w.name = SaidAs(c)
           /\ told = ToBeMade(w, Learned(Key(SaidAs(c))))
      BY <1>3, MadeAsTold
<1>4. CASE /\ w.plan = ToPutBack /\ Still(rows) /\ w.row \in Listed
           /\ told = [row |-> w.row, put_back |-> TRUE]
      BY <1>4, PutBackAsTold
<1>5. CASE w.plan \in Settled /\ (LandedAs(rows, told) \/ MadeAs(c, rows, told))
  <2>1. CASE w.plan = AfterSeek
        BY <1>5, <2>1, RecordedAsTold
  <2>2. CASE w.plan = AfterRecord
        BY <1>5, <2>2, PrunedAsTold
  <2>3. CASE w.plan = AfterPrune
        BY <1>5, <2>3, FoundAsTold
  <2>4. CASE w.plan = ToFile
        BY <1>5, <2>4, FiledAsTold
  <2>5. QED BY <1>5, <2>1, <2>2, <2>3, <2>4 DEF Settled
<1>6. QED BY <1>1, <1>2, <1>3, <1>4, <1>5 DEF Tells

(* Nobody foretells anything of what is not said.                          *)
LEMMA UnsaidTellsNothing ==
    ASSUME NEW c \in Callers, Unsaid(work'[c])
    PROVE  TellShape(c)'
<1>1. ~Saying(c)'
      BY DEF Unsaid, Saying, Busy, Ask
<1>2. QED BY <1>1 DEF TellShape

(* What was foretold is so of the same rows and the same memory.           *)
LEMMA TellsTheSame ==
    ASSUME NEW c \in Callers, work'[c] = work[c], UNCHANGED <<items, history>>,
           NEW rows, NEW told, Tells(c, rows, told)
    PROVE  Tells(c, rows, told)'
<1>1. Still(rows)' = Still(rows) /\ LandedAs(rows, told)' = LandedAs(rows, told)
      BY DEF Still, LandedAs, Listed, Present
<1>2. /\ AsRead(c)' = AsRead(c) /\ SaidAs(c)' = SaidAs(c) /\ Listed' = Listed
      /\ \A k : Learned(k)' = Learned(k)
      BY DEF AsRead, EntryOf, SaidAs, Learned, Listed, Present
<1>3. MadeAs(c, rows, told)' = MadeAs(c, rows, told)
      BY <1>2 DEF MadeAs
<1>4. QED BY <1>1, <1>2, <1>3 DEF Tells, ToBeMade

(* While others only read, what was foretold stands.                       *)
LEMMA TellingStands ==
    ASSUME NEW c \in Callers, work'[c] = work[c], RememberShopping, TellShape(c)
    PROVE  TellShape(c)'
<1> SUFFICES ASSUME Saying(c)', alone'[c], NEW rows, rows = found'[c],
                    NEW told, told = foretold'[c]
             PROVE  RowsAre(rows) /\ Tells(c, rows, told)'
    BY DEF TellShape
<1>1. Saying(c) /\ Busy(c)' /\ Busy(c)
      BY DEF Saying, Busy, Ask
<1>2. alone[c] /\ tables' = tables /\ found'[c] = found[c] /\ foretold'[c] = foretold[c]
      BY <1>1 DEF RememberShopping, Arrives, Acts
<1>3. RowsAre(rows) /\ Tells(c, rows, told)
      BY <1>1, <1>2 DEF TellShape
<1>4. UNCHANGED <<items, history>>
      BY <1>2 DEF tables
<1>5. QED BY <1>3, <1>4, TellsTheSame

(* A phone foretells of a line, on the rows there are, as it is said.      *)
LEMMA TellingBegins ==
    ASSUME ShoppingInv, NEW c \in Callers, Arrive(c), RememberShopping
    PROVE  TellShape(c)'
<1> SUFFICES ASSUME Saying(c)', NEW rows, rows = found'[c], NEW told, told = foretold'[c]
             PROVE  RowsAre(rows) /\ Tells(c, rows, told)'
    BY DEF TellShape
<1>1. PICK a \in Requests : work'[c] = Starts(a)
      BY DEF Arrive, Becomes, ShoppingInv
<1>2. a \in Asked
      BY ShoppingAssumption DEF ShoppingAssumption
<1>3. ~Busy(c) /\ UNCHANGED <<items, history>> /\ Busy(c)' /\ work'[c].asked.deed = "say"
      BY DEF Arrive, tables, Saying, Ask
<1>4. a.deed # "import"
  <2>1. a.deed = "import" => Unsaid(work'[c])
        BY <1>1, <1>2, AskedIs, BringNextOK DEF Starts
  <2>2. QED BY <1>3, <2>1 DEF Unsaid, Busy
<1>5. Fresh(work'[c])
      BY <1>1, <1>2, StartsOK
<1>6. work'[c].plan = SayPlan
      BY <1>3, <1>5, PlansOf DEF Fresh, Busy
<1>7. Arrives(c)
      BY <1>3 DEF Arrives, Busy
<1>8. rows = RowsNow /\ told = Resolve(work'[c].asked.line, RowsNow, history)
      BY <1>7 DEF RememberShopping, Ask
<1>9. RowsAre(rows) /\ Still(rows)
      BY <1>8 DEF RowsAre, Still, RowsNow, Listed
<1>10. Still(rows)'
      BY <1>3, <1>9 DEF Still, Listed, Present
<1>11. QED BY <1>3, <1>6, <1>8, <1>9, <1>10 DEF Tells

LEMMA TellingKept ==
    ASSUME ShoppingInv, Next /\ RememberShopping, NEW c \in Callers, TellShape(c)
    PROVE  TellShape(c)'
<1>1. work'[c] = work[c] \/ Arrive(c) \/ Step(c) \/ Cut(c)
  <2>1. ASSUME NEW e \in Callers, Arrive(e) \/ Step(e) \/ Cut(e)
        PROVE  work'[c] = work[c] \/ Arrive(c) \/ Step(c) \/ Cut(c)
        BY <2>1, OthersWait
  <2>2. QED BY <2>1 DEF Next, Tick
<1>2. CASE work'[c] = work[c]
      BY <1>2, TellingStands
<1>3. CASE Arrive(c)
      BY <1>3, TellingBegins
<1>4. CASE Cut(c)
  <2>1. work'[c] = NoWork
        BY <1>4 DEF Cut, Only, Becomes, ShoppingInv
  <2>2. Unsaid(work'[c])
        BY <2>1, NothingInHand DEF Unsaid
  <2>3. QED BY <2>2, UnsaidTellsNothing
<1>5. CASE Step(c)
  <2>1. Busy(c)
        BY <1>5, StepAt DEF At
  <2>2. CASE Unsaid(work'[c])
        BY <2>2, UnsaidTellsNothing
  <2>3. CASE ~Unsaid(work'[c])
    <3> SUFFICES ASSUME Saying(c)', alone'[c], NEW rows, rows = found'[c],
                        NEW told, told = foretold'[c]
                 PROVE  RowsAre(rows) /\ Tells(c, rows, told)'
        BY DEF TellShape
    <3>1. Saying(c)
          BY <1>5, <2>1, <2>3, AsksOn DEF Saying, Ask
    <3>2. Busy(c)' /\ ~Arrives(c)
          BY <2>1 DEF Saying, Arrives
    <3>3. alone[c] /\ found'[c] = found[c] /\ foretold'[c] = foretold[c]
          BY <3>2 DEF RememberShopping
    <3>4. RowsAre(rows) /\ Tells(c, rows, told)
          BY <3>1, <3>3 DEF TellShape
    <3>5. QED BY <1>5, <2>3, <3>1, <3>4, TellingGoesOn
  <2>4. QED BY <2>2, <2>3
<1>6. QED BY <1>1, <1>2, <1>3, <1>4, <1>5

ForetellingInv == ShoppingInv /\ \A c \in Callers : TellShape(c)

LEMMA ForetellingKept ==
    ForetellingInv /\ [Next /\ RememberShopping]_<<vars, shopHistory>> => ForetellingInv'
<1> SUFFICES ASSUME ForetellingInv, [Next /\ RememberShopping]_<<vars, shopHistory>>
             PROVE  ForetellingInv'
    OBVIOUS
<1>1. ShoppingInv'
      BY NextKeepsInv DEF ForetellingInv
<1>2. CASE Next /\ RememberShopping
      BY <1>1, <1>2, TellingKept DEF ForetellingInv
<1>3. CASE UNCHANGED <<vars, shopHistory>>
  <2>1. ASSUME NEW c \in Callers PROVE TellShape(c)'
    <3> SUFFICES ASSUME Saying(c)', alone'[c], NEW rows, rows = found'[c],
                        NEW told, told = foretold'[c]
                 PROVE  RowsAre(rows) /\ Tells(c, rows, told)'
        BY DEF TellShape
    <3>1. UNCHANGED <<items, history, work, alone, found, foretold>>
          BY <1>3 DEF vars, tables, shopHistory
    <3>2. RowsAre(rows) /\ Tells(c, rows, told)
          BY <3>1 DEF ForetellingInv, TellShape, Saying, Busy, Ask
    <3>3. QED BY <3>1, <3>2, TellsTheSame
  <2>2. QED BY <1>1, <2>1 DEF ForetellingInv
<1>4. QED BY <1>2, <1>3

LEMMA ForetellingBegins == ShoppingHistoryInit => ForetellingInv
<1> SUFFICES ASSUME ShoppingHistoryInit PROVE ForetellingInv
    OBVIOUS
<1>1. ShoppingInv
      BY InitHolds DEF ShoppingHistoryInit
<1>2. \A c \in Callers : ~Busy(c)
      BY NothingInHand DEF ShoppingHistoryInit, Init, Busy
<1>3. QED BY <1>1, <1>2 DEF ForetellingInv, TellShape, Saying

(* A phone that has the rows and the memory decides what the server        *)
(* decides (add::resolve; "both have the same inputs and cannot disagree", *)
(* items::remembered): with nobody else writing meanwhile, the rows a line *)
(* leaves are those foretold as it was said, save for the aisles of a row  *)
(* that was there, and of one whose name was forgotten, over those used    *)
(* more, before it was filed.                                              *)
THEOREM PhonesForetell == ShoppingHistorySpec => ForetoldByThePhone
<1>1. ASSUME ForetellingInv, NEW c \in Callers, Saying(c), Completes(c), alone[c],
             NEW rows, rows = found[c], NEW told, told = foretold[c]
      PROVE  AsForetold(c, rows, told)
  <2>1. ShoppingInv /\ Step(c) /\ work'[c].plan = <<>>
        BY <1>1 DEF ForetellingInv, Completes, Busy
  <2>2. RowsAre(rows) /\ Tells(c, rows, told)
        BY <1>1 DEF ForetellingInv, TellShape
  <2>3. ~Tells(c, rows, told)'
        BY <2>1, PlansApart DEF Tells, Settled
  <2>4. QED BY <1>1, <2>1, <2>2, <2>3, TellingGoesOn
<1>2. ForetellingInv /\ [Next /\ RememberShopping]_<<vars, shopHistory>> =>
        [\A c \in Callers : Saying(c) /\ Completes(c) /\ alone[c] =>
            AsForetold(c, found[c], foretold[c])]_<<vars, shopHistory>>
      BY <1>1
<1>3. QED BY <1>2, ForetellingBegins, ForetellingKept, PTL
      DEF ShoppingHistorySpec, ForetoldByThePhone

----------------------------------------------------------------------------
(* What a line that is said leaves, for when it is said again.             *)

UnitOf(line) == UnitFor(Parse(line), EntryOf(line))

(* A row that says the same, and the one that would be found of those.     *)
RowSays(i, name, unit) ==
    i \in Listed /\ Key(items[i].name) = Key(name) /\ items[i].unit = unit
LandsOn(i, name, unit) ==
    /\ RowSays(i, name, unit) /\ ~items[i].done
    /\ \A j \in Listed : RowSays(j, name, unit) /\ ~items[j].done => i <= j
NoneWanted(name, unit) == \A j \in Listed : RowSays(j, name, unit) => items[j].done

(* A line that is remembered, and has its row, filed under all it is.      *)
Stands(line) ==
    LET name == Parse(line).name IN
    /\ Key(name) \in DOMAIN history
    /\ \E i \in Listed : LandsOn(i, name, UnitOf(line)) /\ Learned(Key(name)) \subseteq items[i].tags

(* A line comes to its row, and is remembered in that row's unit.          *)
Settles(c) ==
    LET w == work[c]
        k == Key(SaidAs(c))
    IN
    \/ w.plan = SayPlan
    \/ w.plan = AfterRecall /\ AsRead(c)
    \/ /\ w.plan = ToInsert /\ w.name = SaidAs(c) /\ w.unit = UnitOf(w.asked.line)
       /\ NoneWanted(SaidAs(c), w.unit)
    \/ /\ w.plan = ToPutBack /\ RowSays(w.row, SaidAs(c), w.unit) /\ w.unit = UnitOf(w.asked.line)
       /\ NoneWanted(SaidAs(c), w.unit)
    \/ /\ w.plan \in Settled /\ LandsOn(w.row, SaidAs(c), w.unit)
       /\ w.plan = AfterSeek => Key(w.name) = k
       /\ w.plan = AfterSeek \/ k \in DOMAIN history => w.unit = UnitOf(w.asked.line)
       /\ w.plan \in {AfterRecord, ToFile} => k \in DOMAIN history
       /\ w.plan = ToFile => Learned(k) \subseteq items[w.row].tags \cup w.left

(* Said again it comes to the row that it came to before, and is filed.    *)
Repeats(c, rows) ==
    LET w == work[c] IN
    /\ Still(rows)
    /\ \/ w.plan \in {SayPlan, AfterRecall} /\ Stands(w.asked.line)
       \/ /\ w.plan \in Settled /\ Learned(Key(SaidAs(c))) \subseteq items[w.row].tags
          /\ w.plan = ToFile => w.left \subseteq items[w.row].tags

SettleShape(c) == Saying(c) /\ alone[c] => Settles(c)
RepeatShape(c) ==
    \A rows : Saying(c) /\ alone[c] /\ again[c] /\ rows = found[c] =>
        RowsAre(rows) /\ Repeats(c, rows)

LEMMA ReadAgain ==
    ASSUME ShoppingInv, NEW c \in Callers, Saying(c), Step(c), work[c].plan = SayPlan, NEW rows
    PROVE  Settles(c)' /\ (Repeats(c, rows) => Repeats(c, rows)')
<1>1. /\ UNCHANGED <<items, history>> /\ work'[c].asked = work[c].asked
      /\ work'[c].plan = AfterRecall /\ AsRead(c)'
      BY LineRead
<1>2. Settles(c)'
      BY <1>1 DEF Settles
<1>3. ASSUME Repeats(c, rows)
      PROVE  Repeats(c, rows)'
  <2>1. Still(rows) /\ Stands(work[c].asked.line)
        BY <1>3, PlansApart DEF Repeats, Settled
  <2>2. Still(rows)'
        BY <1>1, <2>1 DEF Still, Listed, Present
  <2>3. Stands(work[c].asked.line)'
        BY <1>1, <2>1 DEF Stands, LandsOn, RowSays, UnitOf, EntryOf, Learned, Listed, Present
  <2>4. QED BY <1>1, <2>2, <2>3 DEF Repeats
<1>4. QED BY <1>2, <1>3

(* The rows that are sought.                                               *)
LEMMA SoughtAre ==
    ASSUME ShoppingInv, NEW name, NEW unit, NEW like, like = Alike(RowsNow, name, unit),
           NEW i, i = Pick(RowsNow, like)
    PROVE  /\ \A j : RowSays(j, name, unit) <=> j \in like
           /\ like \subseteq Listed
           /\ like # {} =>
                 /\ i \in like
                 /\ \A j \in like : \/ ~items[i].done /\ items[j].done
                                    \/ items[i].done = items[j].done /\ i <= j
<1>1. like \subseteq Listed /\ \A j \in Listed : RowsNow[j] = items[j]
      BY DEF Alike, RowsNow
<1>2. \A j : RowSays(j, name, unit) <=> j \in like
      BY <1>1 DEF RowSays, Alike, RowsNow
<1>3. like \subseteq Nat /\ \A j \in like : RowsNow[j].done \in BOOLEAN
      BY <1>1, RowIs DEF Listed, RowIds
<1>4. ASSUME like # {}
      PROVE  /\ i \in like
             /\ \A j \in like : \/ ~items[i].done /\ items[j].done
                                \/ items[i].done = items[j].done /\ i <= j
  <2>1. /\ i \in like
        /\ \A j \in like : \/ ~RowsNow[i].done /\ RowsNow[j].done
                           \/ RowsNow[i].done = RowsNow[j].done /\ i <= j
        BY <1>3, <1>4, PickIs
  <2>2. RowsNow[i] = items[i] /\ \A j \in like : RowsNow[j] = items[j]
        BY <1>1, <2>1
  <2>3. QED BY <2>1, <2>2
<1>5. QED BY <1>1, <1>2, <1>4

LEMMA SoughtAgain ==
    ASSUME ShoppingInv, NEW c \in Callers, Saying(c), Step(c), work[c].plan = AfterRecall,
           AsRead(c), NEW rows
    PROVE  Settles(c)' /\ (Repeats(c, rows) => Repeats(c, rows)')
<1> DEFINE w == work[c]
           d == work'[c]
           name == SaidAs(c)
           unit == UnitOf(w.asked.line)
           like == Alike(RowsNow, w.name, w.unit)
           i == Pick(RowsNow, like)
<1>1. /\ UNCHANGED <<items, history>> /\ d.asked = w.asked /\ d.unit = w.unit
      /\ like = {} => d.plan = ToInsert /\ d.name = w.name
      /\ like # {} => d.row = i
      /\ like # {} /\ items[i].done => d.plan = ToPutBack
      /\ like # {} /\ ~items[i].done => d.plan = AfterSeek /\ d.name = items[i].name
      BY LineSought
<1>2. w.name = name /\ w.unit = unit
      BY DEF AsRead, SaidAs, UnitOf
<1>3. /\ \A j : RowSays(j, name, unit) <=> j \in like
      /\ like \subseteq Listed
      /\ like # {} =>
            /\ i \in like
            /\ \A j \in like : \/ ~items[i].done /\ items[j].done
                               \/ items[i].done = items[j].done /\ i <= j
      BY <1>2, SoughtAre
<1>4. /\ SaidAs(c)' = name /\ UnitOf(w.asked.line)' = unit /\ Listed' = Listed
      /\ Learned(Key(name))' = Learned(Key(name))
      BY <1>1 DEF SaidAs, UnitOf, EntryOf, Listed, Present, Learned
<1>5. \A j \in Listed : items[j].done \in BOOLEAN /\ j \in Nat
      BY RowIs DEF Listed, RowIds
<1> HIDE DEF like, i, name, unit
<1>6. CASE like = {}
  <2>1. NoneWanted(SaidAs(c), w.unit)'
        BY <1>1, <1>2, <1>3, <1>4, <1>6 DEF NoneWanted, RowSays
  <2>2. Settles(c)'
        BY <1>1, <1>2, <1>4, <1>6, <2>1 DEF Settles, NoneWanted, RowSays
  <2>3. ~Repeats(c, rows)
    <3>1. ~Stands(w.asked.line)
          BY <1>3, <1>6 DEF Stands, LandsOn, name, unit, SaidAs
    <3>2. QED BY <3>1, PlansApart DEF Repeats, Settled
  <2>4. QED BY <2>2, <2>3
<1>7. CASE like # {} /\ items[i].done
  <2>1. \A j \in like : items[j].done
        BY <1>3, <1>5, <1>7
  <2>2. d.plan = ToPutBack /\ d.row = i /\ i \in like
        BY <1>1, <1>3, <1>7
  <2>3. Settles(c)'
        BY <1>1, <1>2, <1>3, <1>4, <2>1, <2>2 DEF Settles, NoneWanted, RowSays
  <2>4. ~Repeats(c, rows)
    <3>1. ~Stands(w.asked.line)
          BY <1>3, <2>1 DEF Stands, LandsOn, name, unit, SaidAs
    <3>2. QED BY <3>1, PlansApart DEF Repeats, Settled
  <2>5. QED BY <2>3, <2>4
<1>8. CASE like # {} /\ ~items[i].done
  <2>1. i \in like /\ \A j \in like : ~items[j].done => i <= j
        BY <1>3, <1>5, <1>8
  <2>2. d.plan = AfterSeek /\ d.row = i /\ d.name = items[i].name
        BY <1>1, <1>8
  <2>3. LandsOn(i, name, unit)
        BY <1>3, <1>8, <2>1 DEF LandsOn
  <2>4. Key(items[i].name) = Key(name)
        BY <2>3 DEF LandsOn, RowSays
  <2>5. AfterSeek # AfterRecord /\ AfterSeek # ToFile
        BY PlansApart
  <2>6. Settles(c)'
        BY <1>1, <1>2, <1>4, <2>2, <2>3, <2>4, <2>5 DEF Settles, Settled, LandsOn, RowSays
  <2>7. ASSUME Repeats(c, rows)
        PROVE  Repeats(c, rows)'
    <3>1. Still(rows) /\ Stands(w.asked.line)
          BY <2>7, PlansApart DEF Repeats, Settled
    <3>2. PICK j \in Listed : LandsOn(j, name, unit) /\ Learned(Key(name)) \subseteq items[j].tags
          BY <3>1 DEF Stands, name, unit, SaidAs
    <3>3. j <= i /\ i <= j /\ i \in Nat /\ j \in Nat
          BY <1>3, <1>5, <2>1, <2>3, <3>2 DEF LandsOn
    <3>4. i = j
          BY <3>3
    <3>5. Learned(Key(SaidAs(c)))' \subseteq items'[d.row].tags
          BY <1>1, <1>4, <2>2, <3>2, <3>4 DEF name, Learned
    <3>6. Still(rows)'
          BY <1>1, <3>1 DEF Still, Listed, Present
    <3>7. QED BY <2>2, <2>5, <3>5, <3>6 DEF Repeats, Settled
  <2>8. QED BY <2>6, <2>7
<1>9. QED BY <1>6, <1>7, <1>8

(* What is made, or put back, is the only one that is wanted.              *)
LEMMA LandedAgain ==
    ASSUME ShoppingInv, NEW c \in Callers, Saying(c), Step(c),
           work[c].plan \in {ToInsert, ToPutBack}, Settles(c), NEW rows
    PROVE  Settles(c)' /\ ~Repeats(c, rows)
<1> DEFINE w == work[c]
           d == work'[c]
           name == SaidAs(c)
           unit == w.unit
<1>1. /\ unit = UnitOf(w.asked.line) /\ NoneWanted(name, unit)
      /\ w.plan = ToInsert => w.name = name
      /\ w.plan = ToPutBack => RowSays(w.row, name, unit)
      BY PlansApart DEF Settles, Settled
<1>2. ~Repeats(c, rows)
      BY PlansApart DEF Repeats, Settled
<1>3. AfterSeek # AfterRecord /\ AfterSeek # ToFile
      BY PlansApart
<1>4. ASSUME UNCHANGED history, d.plan = AfterSeek, d.asked = w.asked, d.unit = w.unit,
             Key(d.name) = Key(name), d.row \in RowIds, Listed' = Listed \cup {d.row},
             Key(items'[d.row].name) = Key(name), items'[d.row].unit = unit, ~items'[d.row].done,
             \A j \in Listed : j # d.row => items'[j] = items[j]
      PROVE  Settles(c)'
  <2>1. SaidAs(c)' = name /\ UnitOf(w.asked.line)' = unit
        BY <1>1, <1>4 DEF SaidAs, UnitOf, EntryOf
  <2>2. d.row <= d.row
        BY <1>4 DEF RowIds
  <2>3. ASSUME NEW j \in Listed', Key(items'[j].name) = Key(name), items'[j].unit = unit,
               ~items'[j].done
        PROVE  j = d.row
        BY <1>1, <1>4, <2>3 DEF NoneWanted, RowSays
  <2>4. LandsOn(work[c].row, SaidAs(c), work[c].unit)'
        BY <1>4, <2>1, <2>2, <2>3 DEF LandsOn, RowSays
  <2>5. QED BY <1>3, <1>4, <2>1, <2>4 DEF Settles, Settled
<1>5. CASE w.plan = ToInsert
  <2>1. /\ UNCHANGED history
        /\ d.plan = AfterSeek /\ d.asked = w.asked
        /\ d.unit = w.unit /\ d.name = Capitalised(w.name)
        /\ d.row \in RowIds \ Listed /\ Listed' = Listed \cup {d.row}
        /\ items'[d.row] = [name |-> Capitalised(w.name),
               amount |-> w.amount, unit |-> w.unit, done |-> FALSE, tags |-> {}]
        /\ \A j \in Listed : items'[j] = items[j]
        BY <1>5, RowMade
  <2>2. Key(Capitalised(w.name)) = Key(name)
        BY <1>1, <1>5, InHand, NameKept
  <2> HIDE DEF w, d, name, unit
  <2>3. /\ items'[d.row].name = Capitalised(w.name) /\ items'[d.row].unit = w.unit
        /\ ~items'[d.row].done
        BY <2>1
  <2>4. QED BY <1>2, <1>4, <2>1, <2>2, <2>3 DEF unit
<1>6. CASE w.plan = ToPutBack
  <2>1. RowSays(w.row, name, unit) /\ w.row \in Listed /\ w.row \in RowIds
        BY <1>1, <1>6 DEF RowSays, Listed
  <2>2. /\ UNCHANGED history
        /\ d.plan = AfterSeek /\ d.asked = w.asked
        /\ d.unit = w.unit /\ d.row = w.row
        /\ d.name = items[w.row].name
        /\ Listed' = Listed
        /\ items'[w.row] = [items[w.row] EXCEPT !.done = FALSE]
        /\ \A j \in Listed : j # w.row => items'[j] = items[j]
        BY <1>6, <2>1, RowPutBack
  <2>3. items[w.row] \in Rows
        BY <2>1, RowIs DEF Listed
  <2>4. /\ items'[d.row].name = items[w.row].name /\ items'[d.row].unit = items[w.row].unit
        /\ ~items'[d.row].done
        BY <2>2, <2>3 DEF Rows
  <2>5. Key(items[w.row].name) = Key(name) /\ items[w.row].unit = unit
        BY <2>1 DEF RowSays
  <2>6. QED BY <1>2, <1>4, <2>1, <2>2, <2>4, <2>5
<1>7. QED BY <1>1, <1>2, <1>5, <1>6

(* What is recorded is remembered in the unit it was listed in.            *)
LEMMA RecordedAgain ==
    ASSUME ShoppingInv, ShoppingInv', NEW c \in Callers, Saying(c), Step(c),
           work[c].plan = AfterSeek, Settles(c), NEW rows
    PROVE  Settles(c)' /\ (Repeats(c, rows) => Repeats(c, rows)')
<1> DEFINE w == work[c]
           d == work'[c]
           line == w.asked.line
           name == SaidAs(c)
           n == Key(w.name)
           k == Key(name)
           entry == EntryOf(line)
           unit == w.unit
<1>1. LandsOn(w.row, name, unit) /\ n = k /\ unit = UnitOf(line)
      BY PlansApart DEF Settles, Settled
<1>2. /\ UNCHANGED items
      /\ history' = [m \in DOMAIN history \cup {n} |->
             IF m # n THEN history[m]
             ELSE IF n \in DOMAIN history THEN Used(history[n], w) ELSE FirstUse(w)]
      /\ d.plan = AfterRecord /\ d.asked = w.asked /\ d.unit = w.unit /\ d.row = w.row
      BY LineRecorded
<1>3. SaidAs(c)' = name /\ EntryOf(line)' = history'[k] /\ k \in DOMAIN history'
  <2>1. k \in DOMAIN history'
        BY <1>1, <1>2
  <2>2. QED BY <1>2, <2>1 DEF SaidAs, EntryOf
<1>4. entry = IF k \in DOMAIN history THEN history[k] ELSE None
      BY DEF EntryOf, SaidAs
<1> HIDE DEF n, k, name, line, entry
<1>5. history'[k].tags = Learned(k)
  <2>1. Used(history[n], w).tags = history[n].tags /\ FirstUse(w).tags = {}
        BY DEF Used, FirstUse
  <2>2. QED BY <1>1, <1>2, <2>1 DEF Learned
<1>6. UnitOf(line)' = unit
  <2> DEFINE reading == Parse(line)
             before == history[k].unit
             after == history'[k].unit
  <2>1. /\ k \in DOMAIN history => after = IF unit = None THEN before ELSE unit
        /\ k \notin DOMAIN history => after = unit
        BY <1>1, <1>2 DEF Used, FirstUse
  <2>2. history'[k] # None
    <3>1. history'[k] \in Entries
          BY <1>3 DEF ShoppingInv, StoreOK, HistoryOK, EntryOK
    <3>2. QED BY <3>1, ShoppingAssumption DEF ShoppingAssumption
  <2>3. k \in DOMAIN history => entry # None /\ entry.unit = before
    <3>1. k \in DOMAIN history => history[k] \in Entries
          BY EntryIs
    <3>2. QED BY <1>4, <3>1, ShoppingAssumption DEF ShoppingAssumption
  <2>4. unit = UnitFor(reading, entry)
        BY <1>1 DEF UnitOf, entry
  <2>5. UnitOf(line)' = UnitFor(reading, history'[k])
    <3>1. line' = line
          BY <1>2 DEF line
    <3>2. QED BY <1>3, <3>1 DEF UnitOf
  <2> HIDE DEF reading, before
  <2>6. UnitFor(reading, history'[k]) = unit
        BY <1>4, <2>1, <2>2, <2>3, <2>4 DEF UnitFor
  <2>7. QED BY <2>5, <2>6
<1>7. AfterRecord # AfterSeek /\ AfterRecord # ToFile
      BY PlansApart
<1>8. LandsOn(work[c].row, SaidAs(c), work[c].unit)'
      BY <1>1, <1>2, <1>3 DEF LandsOn, RowSays, Listed, Present
<1>9. Settles(c)'
      BY <1>2, <1>3, <1>6, <1>7, <1>8 DEF Settles, Settled, k, line
<1>10. ASSUME Repeats(c, rows)
       PROVE  Repeats(c, rows)'
  <2>1. Still(rows) /\ Learned(k) \subseteq items[w.row].tags
        BY <1>10, PlansApart DEF Repeats, k, name
  <2>2. Still(rows)'
        BY <1>2, <2>1 DEF Still, Listed, Present
  <2>3. Learned(Key(SaidAs(c)))' \subseteq items'[d.row].tags
        BY <1>2, <1>3, <1>5, <2>1 DEF Learned, k
  <2>4. QED BY <1>2, <1>7, <2>2, <2>3 DEF Repeats, Settled
<1>11. QED BY <1>9, <1>10

(* What is forgotten is forgotten altogether.                              *)
LEMMA PrunedAgain ==
    ASSUME ShoppingInv, NEW c \in Callers, Saying(c), Step(c), work[c].plan = AfterRecord,
           Settles(c), NEW rows
    PROVE  Settles(c)' /\ (Repeats(c, rows) => Repeats(c, rows)')
<1> DEFINE w == work[c]
           d == work'[c]
           line == w.asked.line
           k == Key(SaidAs(c))
<1>1. LandsOn(w.row, SaidAs(c), w.unit) /\ k \in DOMAIN history /\ w.unit = UnitOf(line)
      BY PlansApart DEF Settles, Settled
<1>2. /\ UNCHANGED items
      /\ d.plan = AfterPrune /\ d.asked = w.asked /\ d.unit = w.unit /\ d.row = w.row
      BY MemoryPruned
<1>3. PICK kept \in SUBSET DOMAIN history : history' = [m \in kept |-> history[m]]
      BY MemoryPruned
<1>4. SaidAs(c)' = SaidAs(c) /\ (k \in DOMAIN history' => history'[k] = history[k])
      BY <1>2, <1>3 DEF SaidAs
<1>5. k \in DOMAIN history' => EntryOf(line)' = EntryOf(line)
      BY <1>1, <1>4 DEF EntryOf, SaidAs
<1> HIDE DEF k, line
<1>6. k \in DOMAIN history' => UnitOf(line)' = w.unit
  <2>1. line' = line
        BY <1>2 DEF line
  <2>2. QED BY <1>1, <1>4, <1>5, <2>1 DEF UnitOf
<1>7. Learned(k)' \subseteq Learned(k)
      BY <1>3, <1>4 DEF Learned, k
<1>8. AfterPrune # AfterSeek /\ AfterPrune # AfterRecord /\ AfterPrune # ToFile
      BY PlansApart
<1>9. LandsOn(work[c].row, SaidAs(c), work[c].unit)'
      BY <1>1, <1>2, <1>4 DEF LandsOn, RowSays, Listed, Present
<1>10. Settles(c)'
      BY <1>2, <1>4, <1>6, <1>8, <1>9 DEF Settles, Settled, k, line
<1>11. ASSUME Repeats(c, rows)
       PROVE  Repeats(c, rows)'
  <2>1. Still(rows) /\ Learned(k) \subseteq items[w.row].tags
        BY <1>11, PlansApart DEF Repeats, k
  <2>2. Still(rows)'
        BY <1>2, <2>1 DEF Still, Listed, Present
  <2>3. Learned(Key(SaidAs(c)))' \subseteq items'[d.row].tags
        BY <1>2, <1>4, <1>7, <2>1 DEF Learned, k
  <2>4. QED BY <1>2, <1>8, <2>2, <2>3 DEF Repeats, Settled
<1>12. QED BY <1>10, <1>11

(* What it is filed under is looked up, and there may be nothing.          *)
LEMMA FoundAgain ==
    ASSUME ShoppingInv, NEW c \in Callers, Saying(c), Step(c), work[c].plan = AfterPrune,
           Settles(c), NEW rows,
           NEW line, line = work[c].asked.line, NEW k, k = Key(Parse(line).name)
    PROVE  /\ \/ Settles(c)'
              \/ Unsaid(work'[c]) /\ (Remembers(c) => Stands(line)')
           /\ Repeats(c, rows) => Still(rows)' /\ (Repeats(c, rows)' \/ Unsaid(work'[c]))
<1> DEFINE w == work[c]
           d == work'[c]
           name == Parse(line).name
           under == Learned(k)
<1>0. SaidAs(c) = name /\ k = Key(SaidAs(c))
      BY DEF SaidAs
<1>1. LandsOn(w.row, name, w.unit) /\ (k \in DOMAIN history => w.unit = UnitOf(line))
      BY <1>0, PlansApart DEF Settles, Settled
<1>2. /\ UNCHANGED <<items, history>>
      /\ under = {} => Unsaid(d)
      /\ under # {} => /\ d.plan = ToFile /\ d.asked = w.asked /\ d.unit = w.unit
                       /\ d.row = w.row /\ d.left = under
      BY <1>0, FilingFound
<1>3. Still(rows) => Still(rows)'
      BY <1>2 DEF Still, Listed, Present
<1>4. UnitOf(line)' = UnitOf(line) /\ Learned(k)' = under
      BY <1>2 DEF UnitOf, EntryOf, Learned
<1>5. CASE under = {}
  <2>1. ASSUME Remembers(c)
        PROVE  Stands(line)'
    <3>1. k \in DOMAIN history
          BY <1>2, <2>1 DEF Remembers, Ask
    <3>2. LandsOn(w.row, name, UnitOf(line)) /\ w.row \in Listed
          BY <1>1, <3>1 DEF LandsOn, RowSays
    <3>3. Stands(line)
          BY <1>5, <3>1, <3>2 DEF Stands
    <3>4. QED BY <1>2, <3>3 DEF Stands, LandsOn, RowSays, UnitOf, EntryOf, Learned, Listed, Present
  <2>2. QED BY <1>2, <1>3, <1>5, <2>1 DEF Repeats
<1>6. CASE under # {}
  <2>1. d.plan = ToFile /\ d.asked = w.asked /\ d.unit = w.unit /\ d.row = w.row /\ d.left = under
        BY <1>2, <1>6
  <2>2. SaidAs(c)' = name /\ k \in DOMAIN history
        BY <1>0, <1>6, <2>1 DEF SaidAs, Learned
  <2> HIDE DEF under, name
  <2>3. LandsOn(work[c].row, SaidAs(c), work[c].unit)'
        BY <1>1, <1>2, <2>1, <2>2 DEF LandsOn, RowSays, Listed, Present
  <2>4. w.unit = UnitOf(line)
        BY <1>1, <2>2
  <2>5. Learned(Key(SaidAs(c)))' = under /\ Key(SaidAs(c))' = k
        BY <1>0, <1>2, <2>2 DEF Learned, under
  <2>6. UnitOf(work[c].asked.line)' = w.unit
        BY <1>4, <2>1, <2>4
  <2>7. Settles(c)'
        BY <1>2, <2>1, <2>2, <2>3, <2>5, <2>6, PlansApart DEF Settles, Settled
  <2>8. ASSUME Repeats(c, rows)
        PROVE  Repeats(c, rows)'
    <3>1. Still(rows) /\ under \subseteq items[w.row].tags
          BY <1>0, <2>8, PlansApart DEF Repeats, under
    <3>2. QED BY <1>2, <1>3, <2>1, <2>5, <3>1 DEF Repeats, Settled
  <2>9. QED BY <1>3, <2>7, <2>8 DEF Repeats
<1>7. QED BY <1>5, <1>6

(* It is filed under each in turn, or is there already.                    *)
LEMMA FiledAgain ==
    ASSUME ShoppingInv, NEW c \in Callers, Saying(c), Step(c), work[c].plan = ToFile,
           Settles(c), NEW rows,
           NEW line, line = work[c].asked.line, NEW k, k = Key(Parse(line).name)
    PROVE  /\ \/ Settles(c)'
              \/ Unsaid(work'[c]) /\ (Remembers(c) => Stands(line)')
           /\ Repeats(c, rows) => Still(rows)' /\ (Repeats(c, rows)' \/ Unsaid(work'[c]))
<1> DEFINE w == work[c]
           d == work'[c]
           i == w.row
           left == w.left
           name == Parse(line).name
           unit == w.unit
<1>0. SaidAs(c) = name /\ k = Key(SaidAs(c))
      BY DEF SaidAs
<1>1. /\ LandsOn(i, name, unit) /\ k \in DOMAIN history /\ unit = UnitOf(line)
      /\ Learned(k) \subseteq items[i].tags \cup left
      BY <1>0, PlansApart DEF Settles, Settled
<1>2. UNCHANGED <<history, shelf>>
      BY FiledUnderOne
<1>3. PICK t \in left :
          /\ t \in TagIds
          /\ items' = IF MayAttach(i, t) THEN WithTag(i, t) ELSE items
          /\ left = {t} => Unsaid(d)
          /\ left # {t} => /\ d.plan = ToFile /\ d.asked = w.asked /\ d.unit = unit
                           /\ d.row = i /\ d.left = left \ {t}
      BY FiledUnderOne
<1>4. i \in Listed /\ i \in RowIds /\ Present(i)
      BY <1>1 DEF LandsOn, RowSays, Listed
<1>5. items[i] \in Rows /\ items[i].tags \in SUBSET TagIds
      BY <1>4, RowIs
<1> DEFINE tagged == [items[i] EXCEPT !.tags = @ \cup {t}]
<1>6. /\ tagged \in Rows /\ tagged.name = items[i].name /\ tagged.unit = items[i].unit
      /\ tagged.done = items[i].done /\ tagged.tags = items[i].tags \cup {t}
  <2>1. items[i].tags \cup {t} \in SUBSET TagIds
        BY <1>3, <1>5
  <2>2. QED BY <1>5, <2>1 DEF Rows
<1>7. tagged # None
      BY <1>6, ShoppingAssumption DEF ShoppingAssumption
<1>8. /\ Listed' = Listed
      /\ \A j \in Listed : /\ items'[j].name = items[j].name /\ items'[j].unit = items[j].unit
                           /\ items'[j].done = items[j].done
      /\ items'[i].tags = IF MayAttach(i, t) THEN items[i].tags \cup {t} ELSE items[i].tags
  <2>1. CASE MayAttach(i, t)
    <3>1. items' = [items EXCEPT ![i] = tagged]
          BY <1>3, <2>1 DEF WithTag
    <3> HIDE DEF tagged
    <3>2. items'[i] = tagged /\ \A j \in RowIds : j # i => items'[j] = items[j]
          BY <1>4, <3>1 DEF ShoppingInv, StoreOK, ItemsOK
    <3>3. Listed' = Listed
          BY <1>4, <1>7, <3>2 DEF Listed, Present
    <3>4. QED BY <1>6, <2>1, <3>2, <3>3 DEF Listed
  <2>2. CASE ~MayAttach(i, t)
        BY <1>3, <2>2 DEF Listed, Present
  <2>3. QED BY <2>1, <2>2
<1>9. t \in Learned(k) => t \in items'[i].tags
  <2>1. t \in Learned(k) => shelf[t] # None
        BY <1>1, EntryIs DEF Learned, Aisles
  <2>2. QED BY <1>4, <1>8, <2>1 DEF MayAttach
<1>10. Learned(k)' = Learned(k) /\ UnitOf(line)' = unit
      BY <1>1, <1>2 DEF Learned, UnitOf, EntryOf
<1>11. /\ Key(items'[i].name) = k /\ items'[i].unit = unit /\ ~items'[i].done
       /\ \A j \in Listed' : Key(items'[j].name) = k /\ items'[j].unit = unit /\ ~items'[j].done
                             => i <= j
      BY <1>0, <1>1, <1>4, <1>8 DEF LandsOn, RowSays
<1>12. Repeats(c, rows) => Still(rows)'
  <2>1. ASSUME Repeats(c, rows)
        PROVE  ~MayAttach(i, t)
        BY <1>0, <2>1, PlansApart DEF Repeats, MayAttach
  <2>2. QED BY <1>3, <2>1 DEF Repeats, Still, Listed, Present
<1>13. CASE left = {t}
  <2>1. Unsaid(d)
        BY <1>3, <1>13
  <2>2. Learned(k) \subseteq items'[i].tags
        BY <1>1, <1>8, <1>9, <1>13
  <2> HIDE DEF left, i
  <2>3. Stands(line)'
        BY <1>1, <1>2, <1>4, <1>8, <1>10, <1>11, <2>2 DEF Stands, LandsOn, RowSays
  <2>4. QED BY <1>12, <2>1, <2>3
<1>14. CASE left # {t}
  <2>1. d.plan = ToFile /\ d.asked = w.asked /\ d.unit = unit /\ d.row = i /\ d.left = left \ {t}
        BY <1>3, <1>14
  <2>2. SaidAs(c)' = name /\ Key(SaidAs(c))' = k
        BY <1>0, <2>1 DEF SaidAs
  <2> HIDE DEF left
  <2>3. Learned(k) \subseteq items'[i].tags \cup d.left
        BY <1>1, <1>8, <1>9, <2>1
  <2>4. LandsOn(work[c].row, SaidAs(c), work[c].unit)'
        BY <1>4, <1>8, <1>11, <2>1, <2>2 DEF LandsOn, RowSays
  <2>5. Learned(Key(SaidAs(c)))' = Learned(k) /\ UnitOf(work[c].asked.line)' = unit
        BY <1>2, <1>10, <2>1, <2>2 DEF Learned
  <2>6. ToFile # AfterSeek
        BY PlansApart
  <2>7. Settles(c)'
        BY <1>1, <1>2, <1>10, <2>1, <2>2, <2>3, <2>4, <2>5, <2>6 DEF Settles, Settled
  <2>8. ASSUME Repeats(c, rows)
        PROVE  Repeats(c, rows)'
    <3>1. Learned(k) \subseteq items[i].tags /\ left \subseteq items[i].tags
          BY <1>0, <2>8, PlansApart DEF Repeats, left
    <3>2. QED BY <1>8, <1>12, <2>1, <2>5, <2>8, <3>1 DEF Repeats, Settled
  <2>9. QED BY <1>12, <2>7, <2>8
<1>15. QED BY <1>13, <1>14

LEMMA SaidAgain ==
    ASSUME ShoppingInv, ShoppingInv', NEW c \in Callers, Saying(c), Step(c), Settles(c),
           NEW rows, NEW line, line = work[c].asked.line
    PROVE  /\ \/ Settles(c)'
              \/ Unsaid(work'[c]) /\ (Remembers(c) => Stands(line)')
           /\ Repeats(c, rows) => Still(rows)' /\ (Repeats(c, rows)' \/ Unsaid(work'[c]))
<1> DEFINE w == work[c]
<1>1. \/ w.plan = SayPlan \/ (w.plan = AfterRecall /\ AsRead(c))
      \/ w.plan \in {ToInsert, ToPutBack}
      \/ w.plan = AfterSeek \/ w.plan = AfterRecord \/ w.plan = AfterPrune \/ w.plan = ToFile
      BY DEF Settles, Settled
<1>2. Repeats(c, rows)' => Still(rows)'
      BY DEF Repeats
<1>3. CASE w.plan = SayPlan
      BY <1>2, <1>3, ReadAgain
<1>4. CASE w.plan = AfterRecall /\ AsRead(c)
      BY <1>2, <1>4, SoughtAgain
<1>5. CASE w.plan \in {ToInsert, ToPutBack}
      BY <1>5, LandedAgain
<1>6. CASE w.plan = AfterSeek
      BY <1>2, <1>6, RecordedAgain
<1>7. CASE w.plan = AfterRecord
      BY <1>2, <1>7, PrunedAgain
<1>8. CASE w.plan = AfterPrune
      BY <1>8, FoundAgain
<1>9. CASE w.plan = ToFile
      BY <1>9, FiledAgain
<1>10. QED BY <1>1, <1>3, <1>4, <1>5, <1>6, <1>7, <1>8, <1>9

(* What stands is so of the same rows and the same memory.                 *)
LEMMA StandingStands ==
    ASSUME NEW line, UNCHANGED <<items, history>>
    PROVE  Stands(line)' = Stands(line)
BY DEF Stands, LandsOn, RowSays, UnitOf, EntryOf, Learned, Listed, Present

LEMMA SettlesTheSame ==
    ASSUME NEW c \in Callers, work'[c] = work[c], UNCHANGED <<items, history>>, NEW rows
    PROVE  Settles(c)' = Settles(c) /\ Repeats(c, rows)' = Repeats(c, rows)
<1>1. /\ Listed' = Listed /\ SaidAs(c)' = SaidAs(c) /\ Still(rows)' = Still(rows)
      /\ AsRead(c)' = AsRead(c) /\ Stands(work[c].asked.line)' = Stands(work[c].asked.line)
      /\ Learned(Key(SaidAs(c)))' = Learned(Key(SaidAs(c)))
      /\ UnitOf(work[c].asked.line)' = UnitOf(work[c].asked.line)
      BY DEF Listed, Present, SaidAs, Still, AsRead, Stands, LandsOn, RowSays, UnitOf, EntryOf,
             Learned
<1>2. /\ LandsOn(work[c].row, SaidAs(c), work[c].unit)'
            = LandsOn(work[c].row, SaidAs(c), work[c].unit)
      /\ RowSays(work[c].row, SaidAs(c), work[c].unit)'
            = RowSays(work[c].row, SaidAs(c), work[c].unit)
      /\ NoneWanted(SaidAs(c), work[c].unit)' = NoneWanted(SaidAs(c), work[c].unit)
      BY <1>1 DEF LandsOn, RowSays, NoneWanted
<1>3. Settles(c)' = Settles(c)
      BY <1>1, <1>2 DEF Settles
<1>4. Repeats(c, rows)' = Repeats(c, rows)
      BY <1>1 DEF Repeats
<1>5. QED BY <1>3, <1>4

(* Of what is not said nothing is to be shown.                             *)
LEMMA UnsaidSettlesNothing ==
    ASSUME NEW c \in Callers, Unsaid(work'[c])
    PROVE  SettleShape(c)' /\ RepeatShape(c)'
<1>1. ~Saying(c)'
      BY DEF Unsaid, Saying, Busy, Ask
<1>2. QED BY <1>1 DEF SettleShape, RepeatShape

(* While others only read, what a line comes to stands.                    *)
LEMMA SettlingStands ==
    ASSUME NEW c \in Callers, work'[c] = work[c], RememberShopping,
           SettleShape(c), RepeatShape(c)
    PROVE  SettleShape(c)' /\ RepeatShape(c)'
<1>1. ASSUME Saying(c)', alone'[c]
      PROVE  /\ Saying(c) /\ alone[c] /\ UNCHANGED <<items, history>>
             /\ found'[c] = found[c] /\ (again'[c] => again[c])
  <2>1. Saying(c) /\ Busy(c)' /\ Busy(c)
        BY <1>1 DEF Saying, Busy, Ask
  <2>2. alone[c] /\ tables' = tables /\ found'[c] = found[c] /\ (again'[c] => again[c])
        BY <1>1, <2>1 DEF RememberShopping, Arrives, Acts
  <2>3. QED BY <2>1, <2>2 DEF tables
<1>2. SettleShape(c)'
      BY <1>1, SettlesTheSame DEF SettleShape
<1>3. ASSUME Saying(c)', alone'[c], again'[c], NEW rows, rows = found'[c]
      PROVE  RowsAre(rows) /\ Repeats(c, rows)'
  <2>1. RowsAre(rows) /\ Repeats(c, rows)
        BY <1>1, <1>3 DEF RepeatShape
  <2>2. QED BY <1>1, <1>3, <2>1, SettlesTheSame
<1>4. RepeatShape(c)'
      BY <1>3 DEF RepeatShape
<1>5. QED BY <1>2, <1>4

(* A line said since nothing else was written stands as it is said again.  *)
SaidShape == \A line \in said : Stands(line)

LEMMA SettlingBegins ==
    ASSUME ShoppingInv, SaidShape, NEW c \in Callers, Arrive(c), RememberShopping
    PROVE  SettleShape(c)' /\ RepeatShape(c)'
<1>1. PICK a \in Requests : work'[c] = Starts(a)
      BY DEF Arrive, Becomes, ShoppingInv
<1>2. a \in Asked
      BY ShoppingAssumption DEF ShoppingAssumption
<1>3. ~Busy(c) /\ UNCHANGED <<items, history>>
      BY DEF Arrive, tables
<1>4. a.deed = "import" => Unsaid(work'[c])
      BY <1>1, <1>2, AskedIs, BringNextOK DEF Starts
<1>5. a.deed # "import" => Fresh(work'[c])
      BY <1>1, <1>2, StartsOK
<1>6. ASSUME Saying(c)'
      PROVE  Arrives(c) /\ work'[c].plan = SayPlan
  <2>1. Busy(c)' /\ work'[c].asked.deed = "say"
        BY <1>6 DEF Saying, Ask
  <2>2. Fresh(work'[c])
        BY <1>4, <1>5, <2>1 DEF Unsaid, Busy
  <2>3. QED BY <1>3, <2>1, <2>2, PlansOf DEF Fresh, Busy, Arrives
<1>7. SettleShape(c)'
      BY <1>6 DEF SettleShape, Settles
<1>8. ASSUME Saying(c)', again'[c], NEW rows, rows = found'[c]
      PROVE  RowsAre(rows) /\ Repeats(c, rows)'
  <2>1. rows = RowsNow /\ work'[c].asked.line \in said
        BY <1>6, <1>8 DEF RememberShopping, Ask
  <2>2. RowsAre(rows) /\ Still(rows)
        BY <2>1 DEF RowsAre, Still, RowsNow, Listed
  <2>3. Still(rows)'
        BY <1>3, <2>2 DEF Still, Listed, Present
  <2> DEFINE line == work'[c].asked.line
  <2>4. Stands(line)
        BY <2>1 DEF SaidShape
  <2>5. Stands(work[c].asked.line)'
    <3>1. UnitOf(line) = UnitOf(work[c].asked.line)'
          BY <1>3 DEF UnitOf, EntryOf
    <3>2. QED BY <1>3, <2>4, <3>1 DEF Stands, LandsOn, RowSays, Learned, Listed, Present
  <2>6. QED BY <1>6, <1>8, <2>2, <2>3, <2>5 DEF Repeats
<1>9. RepeatShape(c)'
      BY <1>8 DEF RepeatShape
<1>10. QED BY <1>7, <1>9

LEMMA SettlingKept ==
    ASSUME ShoppingInv, ShoppingInv', SaidShape, Next /\ RememberShopping, NEW c \in Callers,
           SettleShape(c), RepeatShape(c)
    PROVE  SettleShape(c)' /\ RepeatShape(c)'
<1>1. work'[c] = work[c] \/ Arrive(c) \/ Step(c) \/ Cut(c)
  <2>1. ASSUME NEW e \in Callers, Arrive(e) \/ Step(e) \/ Cut(e)
        PROVE  work'[c] = work[c] \/ Arrive(c) \/ Step(c) \/ Cut(c)
        BY <2>1, OthersWait
  <2>2. QED BY <2>1 DEF Next, Tick
<1>2. CASE work'[c] = work[c]
      BY <1>2, SettlingStands
<1>3. CASE Arrive(c)
      BY <1>3, SettlingBegins
<1>4. CASE Cut(c)
  <2>1. work'[c] = NoWork
        BY <1>4 DEF Cut, Only, Becomes, ShoppingInv
  <2>2. Unsaid(work'[c])
        BY <2>1, NothingInHand DEF Unsaid
  <2>3. QED BY <2>2, UnsaidSettlesNothing
<1>5. CASE Step(c) /\ Unsaid(work'[c])
      BY <1>5, UnsaidSettlesNothing
<1>6. CASE Step(c) /\ ~Unsaid(work'[c])
  <2>1. Busy(c)
        BY <1>6, StepAt DEF At
  <2>2. ASSUME Saying(c)', alone'[c]
        PROVE  /\ Saying(c) /\ alone[c] /\ Settles(c)
               /\ found'[c] = found[c] /\ (again'[c] => again[c])
    <3>1. Saying(c)
          BY <1>6, <2>1, <2>2, AsksOn DEF Saying, Ask
    <3>2. Busy(c)' /\ ~Arrives(c)
          BY <2>1, <2>2 DEF Saying, Arrives
    <3>3. alone[c] /\ found'[c] = found[c] /\ (again'[c] => again[c])
          BY <2>2, <3>2 DEF RememberShopping
    <3>4. QED BY <3>1, <3>3 DEF SettleShape
  <2>3. SettleShape(c)'
        BY <1>6, <2>2, SaidAgain DEF SettleShape
  <2>4. ASSUME Saying(c)', alone'[c], again'[c], NEW rows, rows = found'[c]
        PROVE  RowsAre(rows) /\ Repeats(c, rows)'
    <3>1. RowsAre(rows) /\ Repeats(c, rows)
          BY <2>2, <2>4 DEF RepeatShape
    <3>2. QED BY <1>6, <2>2, <2>4, <3>1, SaidAgain
  <2>5. RepeatShape(c)'
        BY <2>4 DEF RepeatShape
  <2>6. QED BY <2>3, <2>5
<1>7. QED BY <1>1, <1>2, <1>3, <1>4, <1>5, <1>6

(* A line that has been said, and is remembered, stands.                   *)
LEMMA SaidKept ==
    ASSUME ShoppingInv, ShoppingInv', SaidShape, RememberShopping,
           \A c \in Callers : SettleShape(c)
    PROVE  SaidShape'
<1>1. ASSUME NEW line \in said, tables' = tables
      PROVE  Stands(line)'
  <2>1. UNCHANGED <<items, history>>
        BY <1>1 DEF tables
  <2>2. QED BY <1>1, <2>1, StandingStands DEF SaidShape
<1>2. ASSUME NEW c \in Callers, Saying(c), Completes(c), alone[c], Remembers(c),
             NEW line, line = work[c].asked.line
      PROVE  Stands(line)'
  <2>1. Step(c) /\ work'[c].plan = <<>> /\ Settles(c)
        BY <1>2 DEF Completes, Busy, SettleShape
  <2>2. ~Settles(c)'
        BY <2>1, PlansApart DEF Settles, Settled
  <2>3. QED BY <1>2, <2>1, <2>2, SaidAgain
<1>3. \A line \in said' : Stands(line)'
      BY <1>1, <1>2 DEF RememberShopping, Ask
<1>4. QED BY <1>3 DEF SaidShape

RepeatingInv ==
    /\ ShoppingInv
    /\ SaidShape
    /\ \A c \in Callers : SettleShape(c) /\ RepeatShape(c)

LEMMA RepeatingKept ==
    RepeatingInv /\ [Next /\ RememberShopping]_<<vars, shopHistory>> => RepeatingInv'
<1> SUFFICES ASSUME RepeatingInv, [Next /\ RememberShopping]_<<vars, shopHistory>>
             PROVE  RepeatingInv'
    OBVIOUS
<1>1. ShoppingInv'
      BY NextKeepsInv DEF RepeatingInv
<1>2. CASE Next /\ RememberShopping
      BY <1>1, <1>2, SettlingKept, SaidKept DEF RepeatingInv
<1>3. CASE UNCHANGED <<vars, shopHistory>>
  <2>1. UNCHANGED <<items, history, work, alone, found, said, again>>
        BY <1>3 DEF vars, tables, shopHistory
  <2>2. SaidShape'
        BY <2>1, StandingStands DEF RepeatingInv, SaidShape
  <2>3. ASSUME NEW c \in Callers PROVE SettleShape(c)' /\ RepeatShape(c)'
    <3>1. SettleShape(c) /\ RepeatShape(c) /\ Saying(c)' = Saying(c)
          BY <2>1 DEF RepeatingInv, Saying, Busy, Ask
    <3>2. QED BY <2>1, <3>1, SettlesTheSame DEF SettleShape, RepeatShape
  <2>4. QED BY <1>1, <2>2, <2>3 DEF RepeatingInv
<1>4. QED BY <1>2, <1>3

LEMMA RepeatingBegins == ShoppingHistoryInit => RepeatingInv
<1> SUFFICES ASSUME ShoppingHistoryInit PROVE RepeatingInv
    OBVIOUS
<1>1. ShoppingInv
      BY InitHolds DEF ShoppingHistoryInit
<1>2. \A c \in Callers : ~Busy(c)
      BY NothingInHand DEF ShoppingHistoryInit, Init, Busy
<1>3. SaidShape
      BY DEF ShoppingHistoryInit, SaidShape
<1>4. QED BY <1>1, <1>2, <1>3 DEF RepeatingInv, SettleShape, RepeatShape, Saying

(* "Adding something the list already wants changes nothing" and is "safe  *)
(* to replay" (items::create): a line said a second time, nothing having   *)
(* changed in between and the name not being forgotten over those used     *)
(* more, leaves every row as the first time left it.                       *)
THEOREM SayingAgainChangesNothing == ShoppingHistorySpec => SayingItTwiceIsSayingItOnce
<1>1. ASSUME RepeatingInv, RepeatingInv', NEW c \in Callers, Saying(c), Completes(c), alone[c],
             again[c], NEW rows, rows = found[c]
      PROVE  RowsNow' = rows
  <2>1. ShoppingInv /\ ShoppingInv' /\ Step(c) /\ Settles(c)
        BY <1>1 DEF RepeatingInv, Completes, SettleShape
  <2>2. RowsAre(rows) /\ Repeats(c, rows)
        BY <1>1 DEF RepeatingInv, RepeatShape
  <2>3. Still(rows)'
        BY <1>1, <2>1, <2>2, SaidAgain
  <2>4. QED BY <2>2, <2>3 DEF RowsAre, Still, RowsNow
<1>2. RepeatingInv /\ [Next /\ RememberShopping]_<<vars, shopHistory>> =>
        [\A c \in Callers : Saying(c) /\ Completes(c) /\ alone[c] /\ again[c] =>
            RowsNow' = found[c]]_<<vars, shopHistory>>
      BY <1>1, RepeatingKept
<1>3. QED BY <1>2, RepeatingBegins, RepeatingKept, PTL
      DEF ShoppingHistorySpec, SayingItTwiceIsSayingItOnce

----------------------------------------------------------------------------
(* The page of the list: in what order the aisles are, of which rows are   *)
(* under the first of theirs.                                              *)

OrderFits(walk) == walk \in Seq(TagIds) /\ IsInjective(walk)

LEMMA InheritedFits ==
    ASSUME OrdersOK
    PROVE  OrderFits(Inherited)
<1> USE DEF Moments
<1>1. \A p \in People : orders[p].tags \in Seq(TagIds) /\ IsInjective(orders[p].tags)
                        /\ orders[p].set \in Nat
  <2>1. \A p \in People : OrderOK(orders[p])
        BY DEF OrdersOK
  <2>2. QED BY <2>1 DEF OrderOK, Orders, Writable
<1>2. CASE Walkers = {}
  <2>1. <<>> \in Seq(TagIds) /\ IsInjective(<<>>)
        BY DEF IsInjective
  <2>2. QED BY <1>2, <2>1 DEF Inherited, OrderFits
<1>3. CASE Walkers # {}
  <2> DEFINE Times == {orders[p].set : p \in Walkers}
             First(p) == \A q \in Walkers : \/ orders[p].set < orders[q].set
                                            \/ orders[p].set = orders[q].set /\ p <= q
  <2>1. Walkers \subseteq People /\ \A p \in Walkers : p \in Nat /\ orders[p].set \in Nat
        BY <1>1, ShoppingAssumption DEF Walkers, ShoppingAssumption
  <2>2. Times \subseteq Nat /\ Times # {}
        BY <1>3, <2>1
  <2>3. PICK t \in Times : \A u \in Times : t <= u
        BY <2>2, LeastThere
  <2> DEFINE Then == {p \in Walkers : orders[p].set = t}
  <2>4. Then \subseteq Nat /\ Then # {}
        BY <2>1, <2>3
  <2>5. PICK p \in Then : \A q \in Then : p <= q
        BY <2>4, LeastThere
  <2>6. First(p)
    <3> SUFFICES ASSUME NEW q \in Walkers
                 PROVE  \/ orders[p].set < orders[q].set
                        \/ orders[p].set = orders[q].set /\ p <= q
        OBVIOUS
    <3>1. orders[p].set = t /\ t <= orders[q].set /\ t \in Nat /\ orders[q].set \in Nat
          BY <2>1, <2>2, <2>3, <2>5
    <3>2. orders[q].set = t => p <= q
          BY <2>5
    <3>3. QED BY <3>1, <3>2
  <2>7. \E q \in Walkers : First(q)
        BY <2>5, <2>6
  <2>8. Inherited = orders[CHOOSE q \in Walkers : First(q)].tags
        BY <1>3 DEF Inherited
  <2>9. (CHOOSE q \in Walkers : First(q)) \in Walkers
        BY <2>7
  <2> HIDE DEF First
  <2>10. QED BY <1>1, <2>1, <2>8, <2>9 DEF OrderFits
<1>4. QED BY <1>2, <1>3

LEMMA ChosenFits ==
    ASSUME OrdersOK, NEW p \in People
    PROVE  OrderFits(Chosen(p))
<1>1. OrderOK(orders[p])
      BY DEF OrdersOK
<1>2. OrderFits(orders[p].tags)
      BY <1>1 DEF OrderOK, Orders, Writable, OrderFits
<1>3. QED BY <1>2, InheritedFits DEF Chosen

LEMMA AislesAre ==
    ASSUME ShelfOK
    PROVE  /\ IsFiniteSet(Aisles) /\ Aisles \subseteq TagIds
           /\ \A t \in Aisles : shelf[t] \in Nat /\ t \in Nat
<1>1. IsFiniteSet(TagIds) /\ \A t \in TagIds : t \in Nat
      BY FS_Interval, ShoppingAssumption DEF TagIds, ShoppingAssumption
<1>2. QED BY <1>1, FS_Subset DEF Aisles, ShelfOK, Maybe

(* The shop's own order has every aisle in it, the nearer first.           *)
LEMMA ByShopIs ==
    ASSUME ShelfOK
    PROVE  /\ ByShop \in Seq(Aisles)
           /\ \A t \in Aisles : \E k \in 1..Len(ByShop) : ByShop[k] = t
           /\ \A j, k \in 1..Len(ByShop) : j < k => Nearer(ByShop[j], ByShop[k])
<1> DEFINE before == {p \in Aisles \X Aisles : Nearer(p[1], p[2])}
           n == Cardinality(Aisles)
<1>1. IsFiniteSet(Aisles) /\ \A t \in Aisles : shelf[t] \in Nat /\ t \in Nat
      BY AislesAre
<1>2. \A s, t \in Aisles : <<s, t>> \in before <=> Nearer(s, t)
      OBVIOUS
<1> HIDE DEF before
<1>3. Compares(Aisles, before)
  <2>1. \A s \in Aisles : ~Nearer(s, s)
        BY <1>1 DEF Nearer
  <2>2. \A s, t \in Aisles : s # t => Nearer(s, t) \/ Nearer(t, s)
        BY <1>1 DEF Nearer
  <2>3. \A s, t, r \in Aisles : Nearer(s, t) /\ Nearer(t, r) => Nearer(s, r)
        BY <1>1 DEF Nearer
  <2>4. QED BY <1>2, <2>1, <2>2, <2>3 DEF Compares
<1> DEFINE shop == InTurn(Aisles, before)
<1>4. /\ shop \in [1..n -> Aisles]
      /\ \A t \in Aisles : \E k \in 1..n : shop[k] = t
      /\ \A j, k \in 1..n : <<shop[j], shop[k]>> \in before <=> j < k
      BY <1>1, <1>3, Sorted
<1>5. ByShop = shop
      BY DEF ByShop, before
<1> HIDE DEF shop
<1>6. n \in Nat
      BY <1>1, FS_CardinalityType
<1> HIDE DEF n
<1>7. ByShop \in Seq(Aisles) /\ Len(ByShop) = n
      BY <1>4, <1>6, <1>5
<1>8. \A j, k \in 1..n : j < k => Nearer(ByShop[j], ByShop[k])
      BY <1>2, <1>4, <1>5
<1>9. QED BY <1>4, <1>7, <1>8, <1>5

(* The whole walk has every aisle in it, those that were placed first.     *)
LEMMA WholeWalkIs ==
    ASSUME ShelfOK, NEW chosen, OrderFits(chosen), NEW walk, walk = WholeWalk(chosen)
    PROVE  /\ walk \in Seq(Aisles)
           /\ \A t \in Aisles : \E k \in 1..Len(walk) : walk[k] = t
           /\ \A j, k \in 1..Len(walk) : j < k => Precedes(chosen, walk[j], walk[k])
<1> DEFINE placed == Keeping(chosen, Aisles)
           others == Aisles \ ToSet(chosen)
           rest == Keeping(ByShop, others)
           m == Len(placed)
           n == Len(rest)
<1>1. /\ chosen \in Seq(TagIds) /\ Len(chosen) \in Nat
      /\ \A i, j \in 1..Len(chosen) : chosen[i] = chosen[j] => i = j
      /\ \A t : t \in ToSet(chosen) <=> \E i \in 1..Len(chosen) : chosen[i] = t
      BY DEF OrderFits, IsInjective, ToSet
<1>2. /\ ByShop \in Seq(Aisles)
      /\ \A t \in Aisles : \E k \in 1..Len(ByShop) : ByShop[k] = t
      /\ \A j, k \in 1..Len(ByShop) : j < k => Nearer(ByShop[j], ByShop[k])
      BY ByShopIs
<1>3. placed \in Seq(TagIds \cap Aisles) /\ TakenInTurn(placed, chosen, Aisles)
      BY <1>1, KeptInTurn
<1>4. rest \in Seq(Aisles \cap others) /\ TakenInTurn(rest, ByShop, others)
      BY <1>2, KeptInTurn
<1>5. PICK at \in [1..m -> 1..Len(chosen)] :
            /\ \A k \in 1..m : placed[k] = chosen[at[k]]
            /\ \A j, k \in 1..m : j < k => at[j] < at[k]
            /\ \A i \in 1..Len(chosen) : chosen[i] \in Aisles => \E k \in 1..m : at[k] = i
      BY <1>3 DEF TakenInTurn
<1>6. PICK by \in [1..n -> 1..Len(ByShop)] :
            /\ \A k \in 1..n : rest[k] = ByShop[by[k]]
            /\ \A j, k \in 1..n : j < k => by[j] < by[k]
            /\ \A i \in 1..Len(ByShop) : ByShop[i] \in others => \E k \in 1..n : by[k] = i
      BY <1>4 DEF TakenInTurn
<1>7. walk = placed \o rest
      BY DEF WholeWalk
<1> HIDE DEF placed, rest, others
<1>8. placed \in Seq(Aisles) /\ rest \in Seq(Aisles) 
      /\ m \in Nat /\ n \in Nat /\ Len(placed) = m /\ Len(rest) = n
      BY <1>3, <1>4
<1>9. /\ walk \in Seq(Aisles) /\ Len(walk) = m + n
      /\ \A k \in 1..m + n : walk[k] = IF k <= m THEN placed[k] ELSE rest[k - m]
      BY <1>7, <1>8, ConcatProperties
<1> HIDE DEF m, n
<1>10. \A k \in 1..m : placed[k] \in ToSet(chosen) /\ placed[k] \in Aisles
  <2>1. \A k \in 1..m : placed[k] \in Aisles
        BY <1>8
  <2>2. \A k \in 1..m : at[k] \in 1..Len(chosen) /\ placed[k] = chosen[at[k]]
        BY <1>5
  <2>3. QED BY <1>1, <2>1, <2>2
<1>11. \A k \in 1..n : rest[k] \notin ToSet(chosen) /\ rest[k] \in Aisles
  <2>1. \A k \in 1..n : rest[k] \in Aisles \cap others
        BY <1>4, <1>8
  <2>2. QED BY <2>1 DEF others
<1>12. \A t \in Aisles : \E k \in 1..m + n : walk[k] = t
  <2> TAKE t \in Aisles
  <2>1. CASE t \in ToSet(chosen)
    <3>1. PICK i \in 1..Len(chosen) : chosen[i] = t
          BY <1>1, <2>1
    <3>2. PICK k \in 1..m : at[k] = i
          BY <1>5, <3>1
    <3>3. k \in 1..m + n /\ walk[k] = t
          BY <1>5, <1>8, <1>9, <3>1, <3>2
    <3>4. QED BY <3>3
  <2>2. CASE t \notin ToSet(chosen)
    <3>1. PICK i \in 1..Len(ByShop) : ByShop[i] = t
          BY <1>2
    <3>2. PICK k \in 1..n : by[k] = i
          BY <1>6, <2>2, <3>1 DEF others
    <3>3. k + m \in 1..m + n /\ ~(k + m <= m) /\ (k + m) - m = k
          BY <1>8
    <3>4. walk[k + m] = t
          BY <1>6, <1>9, <3>1, <3>2, <3>3
    <3>5. QED BY <3>3, <3>4
  <2>3. QED BY <2>1, <2>2
<1>13. ASSUME NEW j \in 1..m + n, NEW k \in 1..m + n, j < k
       PROVE  Precedes(chosen, walk[j], walk[k])
  <2> DEFINE place(r) == CHOOSE i \in DOMAIN chosen : chosen[i] = r
  <2>1. CASE k <= m
    <3>1. j \in 1..m /\ k \in 1..m
          BY <1>8, <1>13, <2>1
    <3>2. walk[j] = chosen[at[j]] /\ walk[k] = chosen[at[k]] /\ at[j] < at[k]
          BY <1>5, <1>8, <1>9, <1>13, <2>1, <3>1
    <3>3. at[j] \in 1..Len(chosen) /\ at[k] \in 1..Len(chosen)
          BY <1>5, <3>1
    <3>4. place(walk[j]) = at[j] /\ place(walk[k]) = at[k]
          BY <1>1, <3>2, <3>3
    <3>5. walk[j] \in ToSet(chosen) /\ walk[k] \in ToSet(chosen)
          BY <1>1, <3>2, <3>3
    <3>6. QED BY <3>2, <3>4, <3>5 DEF Precedes
  <2>2. CASE j <= m /\ ~(k <= m)
    <3>1. walk[j] \in ToSet(chosen)
      <4>1. j \in 1..m
            BY <1>8, <2>2
      <4>2. walk[j] = placed[j]
            BY <1>9, <2>2
      <4>3. QED BY <1>10, <4>1, <4>2
    <3>2. walk[k] \notin ToSet(chosen)
      <4>1. k - m \in 1..n
            BY <1>8, <2>2
      <4>2. walk[k] = rest[k - m]
            BY <1>9, <2>2
      <4>3. QED BY <1>11, <4>1, <4>2
    <3>3. QED BY <3>1, <3>2 DEF Precedes
  <2>3. CASE ~(j <= m)
    <3>1. ~(k <= m) /\ j - m \in 1..n /\ k - m \in 1..n /\ j - m < k - m
          BY <1>8, <1>13, <2>3
    <3>2. walk[j] = rest[j - m] /\ walk[k] = rest[k - m]
          BY <1>9, <2>3, <3>1
    <3>3. walk[j] \notin ToSet(chosen) /\ walk[k] \notin ToSet(chosen)
          BY <1>11, <3>1, <3>2
    <3>4. /\ walk[j] = ByShop[by[j - m]] /\ walk[k] = ByShop[by[k - m]]
          /\ by[j - m] < by[k - m]
          /\ by[j - m] \in 1..Len(ByShop) /\ by[k - m] \in 1..Len(ByShop)
          BY <1>6, <3>1, <3>2
    <3>5. Nearer(walk[j], walk[k])
          BY <1>2, <3>4
    <3>6. QED BY <3>3, <3>5 DEF Precedes
  <2>4. QED BY <1>8, <2>1, <2>2, <2>3
<1>14. QED BY <1>9, <1>12, <1>13

(* The heading is the first place of the walk that a row is filed under.   *)
FirstOf(walk, under, h) ==
    \E k \in 1..Len(walk) : /\ h = walk[k] /\ walk[k] \in under
                            /\ \A j \in 1..Len(walk) : walk[j] \in under => k <= j

LEMMA HeadingIs ==
    ASSUME NEW c, NEW i, NEW walk \in Seq(TagIds), NEW under,
           walk = work[c].walk, i \in DOMAIN work[c].filed, under = work[c].filed[i]
    PROVE  /\ under = {} => Heading(c, i) = None
           /\ under # {} /\ under \subseteq ToSet(walk) => FirstOf(walk, under, Heading(c, i))
<1> DEFINE places == {at \in DOMAIN walk : walk[at] \in under}
<1>1. Heading(c, i) = IF places = {} THEN None ELSE walk[Min(places)]
      BY DEF Heading
<1>2. DOMAIN walk = 1..Len(walk) /\ Len(walk) \in Nat
      OBVIOUS
<1>3. under = {} => places = {}
      OBVIOUS
<1>4. under # {} /\ under \subseteq ToSet(walk) => places # {}
      BY <1>2 DEF ToSet
<1>5. ASSUME places # {}
      PROVE  Min(places) \in places /\ \A j \in places : Min(places) <= j
  <2>1. places \subseteq Nat
        BY <1>2
  <2> HIDE DEF places
  <2>2. \E k \in places : \A j \in places : k <= j
        BY <1>5, <2>1, LeastThere
  <2>3. QED BY <2>2 DEF Min
<1>6. QED BY <1>1, <1>2, <1>3, <1>4, <1>5 DEF FirstOf

(* Where a page that is being read has got to.                             *)
AfterRows == <<"filed", "own", "all", "show">>
AfterFiled == <<"own", "all", "show">>
ToInherit == <<"others", "all", "show">>
ToAisles == <<"all", "show">>
ToShow == <<"show">>

RowsAreRead(c) == \A i \in steady[c] : ~items[i].done => i \in work[c].page
FilingIsRead(c) ==
    \A i \in steady[c] : i \in DOMAIN work[c].filed /\ work[c].filed[i] = items[i].tags
OrderIsRead(c) ==
    OrderFits(work[c].walk) /\ (calm[c] => work[c].walk = Chosen(Ask(c).by))
AislesAreRead(c) ==
    /\ work[c].walk \in Seq(TagIds)
    /\ \A i \in steady[c] : items[i].tags \subseteq ToSet(work[c].walk)
    /\ calm[c] => work[c].walk = WholeWalk(Chosen(Ask(c).by))

BoardShape(c) ==
    IF ~Showing(c) THEN steady[c] = {}
    ELSE /\ work[c].plan \in {BoardPlan, AfterRows, AfterFiled, ToInherit, ToAisles, ToShow}
         /\ work[c].next = <<>> /\ work[c].later = <<>> /\ steady[c] \subseteq Listed
         /\ work[c].plan # BoardPlan => RowsAreRead(c)
         /\ work[c].plan \notin {BoardPlan, AfterRows} => FilingIsRead(c)
         /\ work[c].plan = ToInherit /\ calm[c] => orders[Ask(c).by].tags = <<>>
         /\ work[c].plan = ToAisles => OrderIsRead(c)
         /\ work[c].plan = ToShow => AislesAreRead(c)

BoardInv == ShoppingInv /\ \A c \in Callers : BoardShape(c)

LEMMA BoardPlans ==
    /\ Head(BoardPlan) = "rows" /\ Tail(BoardPlan) = AfterRows
    /\ Head(AfterRows) = "filed" /\ Tail(AfterRows) = AfterFiled
    /\ Head(AfterFiled) = "own" /\ Tail(AfterFiled) = ToAisles
    /\ Head(ToInherit) = "others" /\ Tail(ToInherit) = ToAisles
    /\ Head(ToAisles) = "all" /\ Tail(ToAisles) = ToShow
    /\ Head(ToShow) = "show" /\ Tail(ToShow) = <<>>
    /\ BoardPlan # <<>> /\ AfterRows # <<>> /\ AfterFiled # <<>> /\ ToInherit # <<>>
    /\ ToAisles # <<>> /\ ToShow # <<>>
BY DEF BoardPlan, AfterRows, AfterFiled, ToInherit, ToAisles, ToShow

LEMMA BoardIsPlanned == PlanOf("board") = BoardPlan
BY DEF PlanOf

LEMMA AislesBehindOthers == <<"others">> \o ToAisles = ToInherit
<1> DEFINE p == <<"others">> \o ToAisles
<1>1. <<"others">> \in Seq(Steps) /\ ToAisles \in Seq(Steps) /\ Len(ToAisles) = 2
      BY DEF ToAisles, Steps
<1>2. /\ p \in Seq(Steps) /\ Len(p) = 3
      /\ \A i \in 1..3 : p[i] = IF i <= 1 THEN "others" ELSE ToAisles[i - 1]
  <2> DEFINE one == <<"others">>
  <2>1. one \in Seq(Steps) /\ Len(one) = 1 /\ one[1] = "others"
        BY <1>1
  <2> HIDE DEF one
  <2>2. /\ one \o ToAisles \in Seq(Steps) /\ Len(one \o ToAisles) = Len(one) + Len(ToAisles)
        /\ \A i \in 1..Len(one) + Len(ToAisles) :
              (one \o ToAisles)[i] = IF i <= Len(one) THEN one[i] ELSE ToAisles[i - Len(one)]
        BY <1>1, <2>1, ConcatProperties
  <2>3. QED BY <1>1, <2>1, <2>2 DEF one
<1>3. /\ ToInherit \in Seq(Steps) /\ Len(ToInherit) = 3
      /\ \A i \in 1..3 : ToInherit[i] = IF i <= 1 THEN "others" ELSE ToAisles[i - 1]
      BY DEF ToInherit, ToAisles, Steps
<1> HIDE DEF p
<1>4. p = ToInherit
      BY <1>2, <1>3, SeqEqual
<1>5. QED BY <1>4 DEF p

LEMMA PageStepAt ==
    ASSUME NEW c \in Callers, Step(c)
    PROVE  /\ At(c, "rows") => ReadRows(c)
           /\ At(c, "filed") => ReadFiled(c)
           /\ At(c, "own") => OwnOrder(c)
           /\ At(c, "others") => Inherit(c)
           /\ At(c, "all") => AllAisles(c)
           /\ At(c, "show") => Show(c)
<1>1. /\ RecallEntry(c) => At(c, "recall")
      /\ Seek(c) => At(c, "seek")
      /\ Insert(c) => At(c, "insert")
      /\ PutBack(c) => At(c, "put_back")
      BY DEF RecallEntry, Seek, Insert, PutBack
<1>2. /\ Record(c) => At(c, "record")
      /\ Prune(c) => At(c, "prune")
      /\ FiledBefore(c) => At(c, "filed_before")
      /\ FileOne(c) => At(c, "file_one")
      BY DEF Record, Prune, FiledBefore, FileOne
<1>3. /\ Look(c) => At(c, "look")
      /\ Attach(c) => At(c, "attach")
      /\ Detach(c) => At(c, "detach")
      /\ Held(c) => At(c, "held")
      /\ Remember(c) => At(c, "remember")
      BY DEF Look, Attach, Detach, Held, Remember
<1>4. /\ Rewrite(c) => At(c, "rewrite")
      /\ CrossOff(c) => At(c, "tick")
      /\ Turn(c) => At(c, "turn")
      BY DEF Rewrite, CrossOff, Turn
<1>5. /\ Drop(c) => At(c, "drop")
      /\ Sweep(c) => At(c, "sweep")
      /\ Clear(c) => At(c, "clear")
      /\ Forget(c) => At(c, "forget")
      /\ Shelve(c) => At(c, "shelve")
      /\ Raze(c) => At(c, "raze")
      BY DEF Drop, Sweep, Clear, Forget, Shelve, Raze
<1>6. /\ OwnOrder(c) => At(c, "own")
      /\ Inherit(c) => At(c, "others")
      /\ AllAisles(c) => At(c, "all")
      /\ Check(c) => At(c, "check")
      /\ Lay(c) => At(c, "lay")
      BY DEF OwnOrder, Inherit, AllAisles, Check, Lay
<1>7. /\ ReadRows(c) => At(c, "rows")
      /\ ReadFiled(c) => At(c, "filed")
      /\ Show(c) => At(c, "show")
      BY DEF ReadRows, ReadFiled, Show
<1>8. \A s, t : At(c, s) /\ At(c, t) => s = t
      BY DEF At
<1>9. QED BY <1>1, <1>2, <1>3, <1>4, <1>5, <1>6, <1>7, <1>8 DEF Step

(* What is read of the orders and aisles is the same while they are left.  *)
LEMMA LeftAlone ==
    ASSUME UNCHANGED <<orders, shelf>>, NEW p
    PROVE  /\ Chosen(p)' = Chosen(p)
           /\ WholeWalk(Chosen(p))' = WholeWalk(Chosen(p))
<1>1. Chosen(p)' = Chosen(p)
      BY DEF Chosen, Inherited, Walkers
<1>2. Aisles' = Aisles /\ ByShop' = ByShop
      BY DEF Aisles, ByShop, Nearer
<1>3. QED BY <1>1, <1>2 DEF WholeWalk

(* What becomes of the rows nobody touched.                                *)
LEMMA SteadyRows ==
    ASSUME NEW c \in Callers, RememberShopping
    PROVE  /\ ~Arrives(c) /\ Busy(c)' =>
                 steady'[c] = {i \in steady[c] : items'[i] = items[i]}
           /\ ~Busy(c)' => steady'[c] = {}
           /\ Arrives(c) /\ Showing(c)' => steady'[c] = Listed
           /\ Showing(c) /\ Busy(c)' /\ calm'[c] => calm[c] /\ UNCHANGED <<orders, shelf>>
<1>1. steady'[c] = IF Arrives(c) /\ Showing(c)' THEN Listed
                   ELSE IF Busy(c)' THEN {i \in steady[c] : items'[i] = items[i]} ELSE {}
      BY DEF RememberShopping
<1>2. calm'[c] = (~Showing(c) \/ ~Busy(c)' \/ (calm[c] /\ orders' = orders /\ shelf' = shelf))
      BY DEF RememberShopping
<1>3. Arrives(c) => Busy(c)'
      BY DEF Arrives, Busy
<1>4. Showing(c)' => Busy(c)'
      BY DEF Showing, Busy
<1>5. QED BY <1>1, <1>2, <1>3, <1>4

(* While others write, a page stands where it stood.                       *)
LEMMA BoardStands ==
    ASSUME NEW c \in Callers, work'[c] = work[c], RememberShopping, BoardShape(c)
    PROVE  BoardShape(c)'
<1>1. /\ Showing(c)' = Showing(c) /\ Ask(c)' = Ask(c) /\ Busy(c)' = Busy(c)
      /\ ~Arrives(c)
      BY DEF Showing, Ask, Busy, Arrives
<1>2. CASE ~Showing(c)
      BY <1>1, <1>2, SteadyRows DEF BoardShape
<1>3. CASE Showing(c)
  <2>1. Busy(c)' /\ steady'[c] \subseteq steady[c] /\ \A i \in steady'[c] : items'[i] = items[i]
        BY <1>1, <1>3, SteadyRows DEF Showing
  <2>2. calm'[c] => calm[c] /\ UNCHANGED <<orders, shelf>>
        BY <1>3, <2>1, SteadyRows
  <2>3. steady'[c] \subseteq Listed'
        BY <1>3, <2>1 DEF BoardShape, Listed, Present
  <2>4. RowsAreRead(c) => RowsAreRead(c)'
        BY <2>1 DEF RowsAreRead
  <2>5. FilingIsRead(c) => FilingIsRead(c)'
        BY <2>1 DEF FilingIsRead
  <2>6. OrderIsRead(c) => OrderIsRead(c)'
    <3>1. calm'[c] => calm[c] /\ Chosen(Ask(c).by)' = Chosen(Ask(c).by)
          BY <1>1, <2>2, LeftAlone
    <3>2. QED BY <1>1, <3>1 DEF OrderIsRead, OrderFits
  <2>7. AislesAreRead(c) => AislesAreRead(c)'
    <3>1. calm'[c] =>
             calm[c] /\ WholeWalk(Chosen(Ask(c).by))' = WholeWalk(Chosen(Ask(c).by))
          BY <1>1, <2>2, LeftAlone
    <3>2. QED BY <1>1, <2>1, <3>1 DEF AislesAreRead
  <2>8. calm'[c] => calm[c] /\ orders'[Ask(c)'.by].tags = orders[Ask(c).by].tags
        BY <1>1, <2>2
  <2>9. QED BY <1>1, <1>3, <2>3, <2>4, <2>5, <2>6, <2>7, <2>8 DEF BoardShape
<1>4. QED BY <1>2, <1>3

(* A page that is shown is all there was to do.                            *)
LEMMA PageEnds ==
    ASSUME NEW w, w.next = <<>>, w.later = <<>>
    PROVE  Onward(w) = NoWork
BY DEF Onward, BringNext

(* A request that begins is no page under way.                             *)
LEMMA BoardBegins ==
    ASSUME ShoppingInv, NEW c \in Callers, Arrive(c), RememberShopping, BoardShape(c)
    PROVE  BoardShape(c)'
<1>1. PICK a \in Requests : work'[c] = Starts(a)
      BY DEF Arrive, Becomes, ShoppingInv
<1>2. ~Busy(c) /\ ~Showing(c) /\ UNCHANGED items /\ steady[c] = {}
      BY DEF Arrive, tables, Showing, BoardShape
<1>3. a \in Asked
      BY ShoppingAssumption DEF ShoppingAssumption
<1>4. Fresh(Starts(a)) /\ (a.deed = "import" => Unsaid(Starts(a)))
      BY <1>3, AskedIs, StartsOK, BringNextOK DEF Starts
<1>5. CASE Showing(c)'
  <2>1. Busy(c)' /\ work'[c].asked.deed = "board"
        BY <1>5 DEF Showing, Ask, Busy
  <2>2. a.deed # "import"
        BY <1>1, <1>4, <2>1 DEF Unsaid, Busy
  <2>3. /\ work'[c].plan = BoardPlan
        /\ work'[c].next = <<>> /\ work'[c].later = <<>>
    <3>1. work'[c].plan = BoardPlan
          BY <1>1, <1>4, <2>1, BoardIsPlanned DEF Fresh, Busy
    <3>2. work'[c] = Begin(a, <<>>, <<>>)
          BY <1>1, <2>2 DEF Starts
    <3>3. QED BY <3>1, <3>2 DEF Begin, NoWork
  <2>4. Arrives(c)
        BY <1>2, <2>1 DEF Arrives, Busy
  <2>5. steady'[c] = Listed /\ Listed' = Listed
        BY <1>2, <1>5, <2>4, SteadyRows DEF Listed, Present
  <2>6. BoardPlan \notin {AfterRows, AfterFiled, ToInherit, ToAisles, ToShow}
        BY BoardPlans
  <2>7. QED BY <1>5, <2>3, <2>5, <2>6 DEF BoardShape
<1>6. CASE ~Showing(c)'
  <2>1. steady'[c] = {}
    <3>1. steady'[c] = IF Arrives(c) /\ Showing(c)' THEN Listed
                       ELSE IF Busy(c)' THEN {i \in steady[c] : items'[i] = items[i]} ELSE {}
          BY DEF RememberShopping
    <3>2. QED BY <1>2, <1>6, <3>1
  <2>2. QED BY <1>6, <2>1 DEF BoardShape
<1>7. QED BY <1>5, <1>6

(* One that ends leaves nothing.                                           *)
LEMMA BoardEnds ==
    ASSUME NEW c \in Callers, work'[c] = NoWork, RememberShopping
    PROVE  BoardShape(c)'
<1>1. ~Busy(c)'
      BY NothingInHand DEF Busy
<1>2. QED BY <1>1, SteadyRows DEF BoardShape, Showing

(* A statement of any other request begins no page.                        *)
LEMMA NoBoardGoesOn ==
    ASSUME ShoppingInv, NEW c \in Callers, Step(c), RememberShopping, BoardShape(c), ~Showing(c)
    PROVE  BoardShape(c)'
<1>1. Busy(c) /\ ~Arrives(c) /\ steady[c] = {}
      BY StepAt DEF At, Arrives, BoardShape
<1>2. ~Showing(c)'
  <2>1. CASE Unsaid(work'[c])
        BY <2>1 DEF Unsaid, Showing, Busy, Ask
  <2>2. CASE work'[c].asked = work[c].asked
        BY <1>1, <2>2 DEF Showing, Ask
  <2>3. QED BY <2>1, <2>2, AsksOn
<1>3. steady'[c] = {}
      BY <1>1, SteadyRows
<1>4. QED BY <1>2, <1>3 DEF BoardShape

(* A statement of a page, after which there is more to do.                 *)
LEMMA PageTurns ==
    ASSUME ShoppingInv, NEW c \in Callers, RememberShopping, Showing(c), BoardShape(c),
           NEW d, Only(c, d), d.plan # <<>>, d.asked = work[c].asked,
           d.next = work[c].next, d.later = work[c].later
    PROVE  /\ work'[c] = d /\ Showing(c)' /\ Ask(c)' = Ask(c)
           /\ UNCHANGED <<items, orders, shelf>>
           /\ steady'[c] = steady[c] /\ (calm'[c] => calm[c])
           /\ steady'[c] \subseteq Listed'
           /\ work'[c].next = <<>> /\ work'[c].later = <<>>
<1>1. work'[c] = d /\ UNCHANGED <<items, orders, shelf>>
      BY DEF Only, Becomes, ShoppingInv, tables
<1>2. Showing(c)' /\ Ask(c)' = Ask(c) /\ Busy(c)' /\ ~Arrives(c)
      BY <1>1 DEF Showing, Ask, Busy, Arrives
<1>3. steady'[c] = steady[c] /\ (calm'[c] => calm[c])
      BY <1>1, <1>2, SteadyRows
<1>4. Listed' = Listed
      BY <1>1 DEF Listed, Present
<1>5. QED BY <1>1, <1>2, <1>3, <1>4 DEF BoardShape

LEMMA RowsTurn ==
    ASSUME ShoppingInv, NEW c \in Callers, RememberShopping, Showing(c), BoardShape(c),
           work[c].plan = BoardPlan, ReadRows(c)
    PROVE  BoardShape(c)'
<1> DEFINE d == [work[c] EXCEPT !.page = {i \in Listed : ~items[i].done}, !.plan = Rest(c)]
<1>1. Only(c, d) /\ Rest(c) = AfterRows
      BY BoardPlans DEF ReadRows, Rest
<1>2. /\ d.plan = AfterRows /\ d.page = {i \in Listed : ~items[i].done}
      /\ d.asked = work[c].asked /\ d.next = work[c].next /\ d.later = work[c].later
  <2>1. work[c] \in Works({work[c].walk})
        BY UnderWay DEF ShoppingInv, Showing, Busy
  <2>2. QED BY <1>1, <2>1 DEF Works
<1> HIDE DEF d
<1>3. /\ work'[c] = d /\ Showing(c)' /\ UNCHANGED items
      /\ steady'[c] = steady[c] /\ steady'[c] \subseteq Listed'
      /\ work'[c].next = <<>> /\ work'[c].later = <<>>
      BY <1>1, <1>2, BoardPlans, PageTurns
<1>4. RowsAreRead(c)'
  <2>1. steady[c] \subseteq Listed
        BY DEF BoardShape
  <2>2. QED BY <1>2, <1>3, <2>1 DEF RowsAreRead
<1>5. AfterRows \notin {BoardPlan, AfterFiled, ToInherit, ToAisles, ToShow}
      BY BoardPlans
<1>6. QED BY <1>2, <1>3, <1>4, <1>5 DEF BoardShape

LEMMA FilingTurns ==
    ASSUME ShoppingInv, NEW c \in Callers, RememberShopping, Showing(c), BoardShape(c),
           work[c].plan = AfterRows, ReadFiled(c)
    PROVE  BoardShape(c)'
<1> DEFINE d == [work[c] EXCEPT !.filed = [i \in Listed |-> items[i].tags], !.plan = Rest(c)]
<1>1. Only(c, d) /\ Rest(c) = AfterFiled
      BY BoardPlans DEF ReadFiled, Rest
<1>2. /\ d.plan = AfterFiled /\ d.filed = [i \in Listed |-> items[i].tags]
      /\ d.page = work[c].page
      /\ d.asked = work[c].asked /\ d.next = work[c].next /\ d.later = work[c].later
  <2>1. work[c] \in Works({work[c].walk})
        BY UnderWay DEF ShoppingInv, Showing, Busy
  <2>2. QED BY <1>1, <2>1 DEF Works
<1> HIDE DEF d
<1>3. /\ work'[c] = d /\ Showing(c)' /\ UNCHANGED items
      /\ steady'[c] = steady[c] /\ steady'[c] \subseteq Listed'
      /\ work'[c].next = <<>> /\ work'[c].later = <<>>
      BY <1>1, <1>2, BoardPlans, PageTurns
<1>4. steady[c] \subseteq Listed /\ RowsAreRead(c)
      BY BoardPlans DEF BoardShape
<1>5. RowsAreRead(c)' /\ FilingIsRead(c)'
      BY <1>2, <1>3, <1>4 DEF RowsAreRead, FilingIsRead
<1>6. AfterFiled \notin {BoardPlan, AfterRows, ToInherit, ToAisles, ToShow}
      BY BoardPlans
<1>7. QED BY <1>2, <1>3, <1>5, <1>6 DEF BoardShape

(* What has been read stays so as the order of the aisles is.              *)
LEMMA ReadOn ==
    ASSUME NEW c, RowsAreRead(c), FilingIsRead(c), UNCHANGED items, steady'[c] = steady[c],
           work'[c].page = work[c].page, work'[c].filed = work[c].filed
    PROVE  RowsAreRead(c)' /\ FilingIsRead(c)'
BY DEF RowsAreRead, FilingIsRead

LEMMA OwnTurns ==
    ASSUME ShoppingInv, NEW c \in Callers, RememberShopping, Showing(c), BoardShape(c),
           work[c].plan = AfterFiled, OwnOrder(c)
    PROVE  BoardShape(c)'
<1> DEFINE own == orders[Ask(c).by].tags
           plan == (IF own = <<>> THEN <<"others">> ELSE <<>>) \o Rest(c)
           d == [work[c] EXCEPT !.walk = own, !.plan = plan]
<1>1. Only(c, d) /\ Rest(c) = ToAisles
      BY BoardPlans DEF OwnOrder, Rest
<1>2. plan = IF own = <<>> THEN ToInherit ELSE ToAisles
  <2>1. ToAisles \in Seq(Steps)
        BY DEF ToAisles, Steps
  <2>2. QED BY <1>1, <2>1, AislesBehindOthers, ConcatEmptySeq
<1> HIDE DEF own, plan
<1>3. /\ d.plan = plan /\ d.walk = own /\ d.page = work[c].page /\ d.filed = work[c].filed
      /\ d.asked = work[c].asked /\ d.next = work[c].next /\ d.later = work[c].later
  <2>1. work[c] \in Works({work[c].walk})
        BY UnderWay DEF ShoppingInv, Showing, Busy
  <2>2. QED BY <2>1 DEF Works
<1> HIDE DEF d
<1>4. /\ work'[c] = d /\ Showing(c)' /\ Ask(c)' = Ask(c) /\ UNCHANGED <<items, orders, shelf>>
      /\ steady'[c] = steady[c] /\ steady'[c] \subseteq Listed'
      /\ work'[c].next = <<>> /\ work'[c].later = <<>>
      BY <1>1, <1>2, <1>3, BoardPlans, PageTurns
<1>5. RowsAreRead(c)' /\ FilingIsRead(c)'
  <2>1. RowsAreRead(c) /\ FilingIsRead(c)
        BY BoardPlans DEF BoardShape
  <2>2. QED BY <1>3, <1>4, <2>1, ReadOn
<1>6. own # <<>> => OrderIsRead(c)'
  <2>1. Ask(c).by \in People
        BY UnderWay, AskedIs DEF ShoppingInv, Showing, Busy, Ask
  <2>2. OrderFits(Chosen(Ask(c).by))
        BY <2>1, ChosenFits DEF ShoppingInv, StoreOK
  <2>3. own # <<>> => Chosen(Ask(c).by) = own
        BY DEF Chosen, own
  <2>4. Chosen(Ask(c).by)' = Chosen(Ask(c).by)
        BY <1>4, LeftAlone
  <2>5. QED BY <1>3, <1>4, <2>2, <2>3, <2>4 DEF OrderIsRead
<1>7. own = <<>> => orders'[Ask(c)'.by].tags = <<>>
      BY <1>4 DEF own
<1>8. /\ ToInherit \notin {BoardPlan, AfterRows, AfterFiled, ToAisles, ToShow}
      /\ ToAisles \notin {BoardPlan, AfterRows, AfterFiled, ToInherit, ToShow}
      BY BoardPlans
<1>9. QED BY <1>2, <1>3, <1>4, <1>5, <1>6, <1>7, <1>8 DEF BoardShape

LEMMA InheritedTurns ==
    ASSUME ShoppingInv, NEW c \in Callers, RememberShopping, Showing(c), BoardShape(c),
           work[c].plan = ToInherit, Inherit(c)
    PROVE  BoardShape(c)'
<1> DEFINE d == [work[c] EXCEPT !.walk = Inherited, !.plan = Rest(c)]
<1>1. Only(c, d) /\ Rest(c) = ToAisles
      BY BoardPlans DEF Inherit, Rest
<1>2. /\ d.plan = ToAisles /\ d.walk = Inherited
      /\ d.page = work[c].page /\ d.filed = work[c].filed
      /\ d.asked = work[c].asked /\ d.next = work[c].next /\ d.later = work[c].later
  <2>1. work[c] \in Works({work[c].walk})
        BY UnderWay DEF ShoppingInv, Showing, Busy
  <2>2. QED BY <1>1, <2>1 DEF Works
<1> HIDE DEF d
<1>3. /\ work'[c] = d /\ Showing(c)' /\ Ask(c)' = Ask(c) /\ UNCHANGED <<items, orders, shelf>>
      /\ steady'[c] = steady[c] /\ steady'[c] \subseteq Listed' /\ (calm'[c] => calm[c])
      /\ work'[c].next = <<>> /\ work'[c].later = <<>>
      BY <1>1, <1>2, BoardPlans, PageTurns
<1>4. RowsAreRead(c)' /\ FilingIsRead(c)'
  <2>1. RowsAreRead(c) /\ FilingIsRead(c)
        BY BoardPlans DEF BoardShape
  <2>2. QED BY <1>2, <1>3, <2>1, ReadOn
<1>5. OrderIsRead(c)'
  <2>1. OrderFits(Inherited)
        BY InheritedFits DEF ShoppingInv, StoreOK
  <2>2. calm[c] => Chosen(Ask(c).by) = Inherited
        BY DEF BoardShape, Chosen
  <2>3. Chosen(Ask(c).by)' = Chosen(Ask(c).by)
        BY <1>3, LeftAlone
  <2>4. QED BY <1>2, <1>3, <2>1, <2>2, <2>3 DEF OrderIsRead
<1>6. ToAisles \notin {BoardPlan, AfterRows, AfterFiled, ToInherit, ToShow}
      BY BoardPlans
<1>7. QED BY <1>2, <1>3, <1>4, <1>5, <1>6 DEF BoardShape

LEMMA AislesTurn ==
    ASSUME ShoppingInv, NEW c \in Callers, RememberShopping, Showing(c), BoardShape(c),
           work[c].plan = ToAisles, AllAisles(c)
    PROVE  BoardShape(c)'
<1> DEFINE walk == WholeWalk(work[c].walk)
           d == [work[c] EXCEPT !.walk = walk, !.plan = Rest(c)]
<1>1. Only(c, d) /\ Rest(c) = ToShow
      BY BoardPlans DEF AllAisles, Rest, Showing
<1> HIDE DEF walk
<1>2. /\ d.plan = ToShow /\ d.walk = walk
      /\ d.page = work[c].page /\ d.filed = work[c].filed
      /\ d.asked = work[c].asked /\ d.next = work[c].next /\ d.later = work[c].later
  <2>1. work[c] \in Works({work[c].walk})
        BY UnderWay DEF ShoppingInv, Showing, Busy
  <2>2. QED BY <1>1, <2>1 DEF Works
<1> HIDE DEF d
<1>3. /\ work'[c] = d /\ Showing(c)' /\ Ask(c)' = Ask(c) /\ UNCHANGED <<items, orders, shelf>>
      /\ steady'[c] = steady[c] /\ steady'[c] \subseteq Listed' /\ (calm'[c] => calm[c])
      /\ work'[c].next = <<>> /\ work'[c].later = <<>>
      BY <1>1, <1>2, BoardPlans, PageTurns
<1>4. RowsAreRead(c)' /\ FilingIsRead(c)'
  <2>1. RowsAreRead(c) /\ FilingIsRead(c)
        BY BoardPlans DEF BoardShape
  <2>2. QED BY <1>2, <1>3, <2>1, ReadOn
<1>5. AislesAreRead(c)'
  <2>1. OrderFits(work[c].walk) /\ (calm[c] => work[c].walk = Chosen(Ask(c).by))
        BY BoardPlans DEF BoardShape, OrderIsRead
  <2>2. walk \in Seq(Aisles) /\ \A t \in Aisles : \E k \in 1..Len(walk) : walk[k] = t
        BY <2>1, WholeWalkIs DEF walk, ShoppingInv, StoreOK
  <2>3. walk \in Seq(TagIds) /\ Aisles \subseteq ToSet(walk)
    <3>1. Aisles \subseteq TagIds
          BY DEF Aisles
    <3>2. QED BY <2>2, <3>1 DEF ToSet
  <2>4. \A i \in steady[c] : items[i].tags \subseteq ToSet(walk)
    <3>1. \A i \in Listed : items[i].tags \subseteq Aisles
      <4>1. \A i \in RowIds : RowOK(items[i])
            BY DEF ShoppingInv, StoreOK, ItemsOK
      <4>2. QED BY <4>1 DEF RowOK, Listed, Present
    <3>2. steady[c] \subseteq Listed
          BY DEF BoardShape
    <3>3. QED BY <2>3, <3>1, <3>2
  <2>5. calm[c] => walk = WholeWalk(Chosen(Ask(c).by))
        BY <2>1 DEF walk
  <2>6. WholeWalk(Chosen(Ask(c).by))' = WholeWalk(Chosen(Ask(c).by))
        BY <1>3, LeftAlone
  <2>7. QED BY <1>2, <1>3, <2>3, <2>4, <2>5, <2>6 DEF AislesAreRead
<1>6. ToShow \notin {BoardPlan, AfterRows, AfterFiled, ToInherit, ToAisles}
      BY BoardPlans
<1>7. QED BY <1>2, <1>3, <1>4, <1>5, <1>6 DEF BoardShape

LEMMA BoardGoesOn ==
    ASSUME ShoppingInv, NEW c \in Callers, Step(c), RememberShopping, Showing(c), BoardShape(c)
    PROVE  BoardShape(c)'
<1>1. work[c].plan \in {BoardPlan, AfterRows, AfterFiled, ToInherit, ToAisles, ToShow}
      BY DEF BoardShape
<1>2. CASE work[c].plan = BoardPlan
      BY <1>2, RowsTurn, PageStepAt, BoardPlans DEF At, Showing
<1>3. CASE work[c].plan = AfterRows
      BY <1>3, FilingTurns, PageStepAt, BoardPlans DEF At, Showing
<1>4. CASE work[c].plan = AfterFiled
      BY <1>4, OwnTurns, PageStepAt, BoardPlans DEF At, Showing
<1>5. CASE work[c].plan = ToInherit
      BY <1>5, InheritedTurns, PageStepAt, BoardPlans DEF At, Showing
<1>6. CASE work[c].plan = ToAisles
      BY <1>6, AislesTurn, PageStepAt, BoardPlans DEF At, Showing
<1>7. CASE work[c].plan = ToShow
  <2>1. Show(c)
        BY <1>7, PageStepAt, BoardPlans DEF At, Showing
  <2>2. Onward(work[c]) = NoWork
        BY PageEnds DEF BoardShape
  <2>3. work'[c] = NoWork
        BY <2>1, <2>2 DEF Show, Finish, Becomes, ShoppingInv
  <2>4. QED BY <2>3, BoardEnds
<1>8. QED BY <1>1, <1>2, <1>3, <1>4, <1>5, <1>6, <1>7

LEMMA BoardKept ==
    BoardInv /\ [Next /\ RememberShopping]_<<vars, shopHistory>> => BoardInv'
<1> SUFFICES ASSUME BoardInv, [Next /\ RememberShopping]_<<vars, shopHistory>>
             PROVE  BoardInv'
    OBVIOUS
<1>1. ShoppingInv /\ ShoppingInv'
      BY NextKeepsInv DEF BoardInv
<1>2. ASSUME Next /\ RememberShopping, NEW c \in Callers
      PROVE  BoardShape(c)'
  <2>1. BoardShape(c)
        BY DEF BoardInv
  <2>2. work'[c] = work[c] \/ Arrive(c) \/ Step(c) \/ Cut(c)
    <3>1. ASSUME NEW e \in Callers, Arrive(e) \/ Step(e) \/ Cut(e)
          PROVE  work'[c] = work[c] \/ Arrive(c) \/ Step(c) \/ Cut(c)
          BY <1>1, <3>1, OthersWait
    <3>2. QED BY <1>2, <3>1 DEF Next, Tick
  <2>3. CASE work'[c] = work[c]
        BY <1>2, <2>1, <2>3, BoardStands
  <2>4. CASE Arrive(c)
        BY <1>1, <1>2, <2>1, <2>4, BoardBegins
  <2>5. CASE Cut(c)
    <3>1. work'[c] = NoWork
          BY <1>1, <2>5 DEF Cut, Only, Becomes, ShoppingInv
    <3>2. QED BY <1>2, <3>1, BoardEnds
  <2>6. CASE Step(c)
        BY <1>1, <1>2, <2>1, <2>6, BoardGoesOn, NoBoardGoesOn
  <2>7. QED BY <2>2, <2>3, <2>4, <2>5, <2>6
<1>3. CASE Next /\ RememberShopping
      BY <1>1, <1>2, <1>3 DEF BoardInv
<1>4. CASE UNCHANGED <<vars, shopHistory>>
  <2>1. UNCHANGED <<items, orders, shelf, work, steady, calm>>
        BY <1>4 DEF vars, tables, shopHistory
  <2>2. ASSUME NEW c \in Callers PROVE BoardShape(c)'
    <3>1. BoardShape(c)
          BY DEF BoardInv
    <3>2. /\ Showing(c)' = Showing(c) /\ Ask(c)' = Ask(c) /\ Listed' = Listed
          /\ RowsAreRead(c)' = RowsAreRead(c) /\ FilingIsRead(c)' = FilingIsRead(c)
          BY <2>1 DEF Showing, Ask, Busy, Listed, Present, RowsAreRead, FilingIsRead
    <3>3. OrderIsRead(c) => OrderIsRead(c)'
          BY <2>1, <3>2, LeftAlone DEF OrderIsRead
    <3>4. AislesAreRead(c) => AislesAreRead(c)'
          BY <2>1, <3>2, LeftAlone DEF AislesAreRead
    <3>5. QED BY <2>1, <3>1, <3>2, <3>3, <3>4 DEF BoardShape
  <2>3. QED BY <1>1, <2>2 DEF BoardInv
<1>5. QED BY <1>3, <1>4

LEMMA NoBoardYet == ShoppingHistoryInit => BoardInv
<1> SUFFICES ASSUME ShoppingHistoryInit PROVE BoardInv
    OBVIOUS
<1>1. ShoppingInv
      BY InitHolds DEF ShoppingHistoryInit
<1>2. \A c \in Callers : ~Busy(c) /\ steady[c] = {}
      BY NothingInHand DEF ShoppingHistoryInit, Init, Busy
<1>3. QED BY <1>1, <1>2 DEF BoardInv, BoardShape, Showing

(* What is shown of a row nobody touched.                                  *)
LEMMA BoardIsRight ==
    ASSUME BoardInv, NEW c \in Callers, At(c, "show"), NEW i \in steady[c], ~items[i].done
    PROVE  /\ i \in work[c].page
           /\ IF items[i].tags = {} THEN Heading(c, i) = None
              ELSE /\ Heading(c, i) \in items[i].tags
                   /\ calm[c] => \A t \in items[i].tags \ {Heading(c, i)} :
                                    Precedes(Chosen(Ask(c).by), Heading(c, i), t)
<1> DEFINE walk == work[c].walk
           tags == items[i].tags
           chosen == Chosen(Ask(c).by)
<1>1. BoardShape(c) /\ Showing(c)
      BY DEF BoardInv, BoardShape
<1>2. work[c].plan = ToShow
      BY <1>1, BoardPlans DEF BoardShape, At
<1>3. RowsAreRead(c) /\ FilingIsRead(c) /\ AislesAreRead(c)
      BY <1>1, <1>2, BoardPlans DEF BoardShape
<1>4. i \in work[c].page /\ i \in DOMAIN work[c].filed /\ work[c].filed[i] = tags
      BY <1>3 DEF RowsAreRead, FilingIsRead
<1>5. walk \in Seq(TagIds) /\ tags \subseteq ToSet(walk) /\ (calm[c] => walk = WholeWalk(chosen))
      BY <1>3 DEF AislesAreRead
<1>6. /\ tags = {} => Heading(c, i) = None
      /\ tags # {} => FirstOf(walk, tags, Heading(c, i))
  <2>1. walk = work[c].walk /\ tags = work[c].filed[i] /\ i \in DOMAIN work[c].filed
        BY <1>4
  <2> HIDE DEF walk, tags
  <2>2. QED BY <1>5, <2>1, HeadingIs
<1>7. ASSUME tags # {}, calm[c], NEW t \in tags \ {Heading(c, i)}
      PROVE  Precedes(chosen, Heading(c, i), t)
  <2>1. PICK k \in 1..Len(walk) : /\ Heading(c, i) = walk[k] /\ walk[k] \in tags
                                  /\ \A j \in 1..Len(walk) : walk[j] \in tags => k <= j
        BY <1>6, <1>7 DEF FirstOf
  <2>2. PICK j \in 1..Len(walk) : walk[j] = t
        BY <1>5 DEF ToSet
  <2>3. Ask(c).by \in People
        BY <1>1, UnderWay, AskedIs DEF BoardInv, ShoppingInv, Showing, Busy, Ask
  <2>4. ShelfOK /\ OrderFits(chosen)
        BY <2>3, ChosenFits DEF BoardInv, ShoppingInv, StoreOK
  <2>5. \A m, n \in 1..Len(walk) : m < n => Precedes(chosen, walk[m], walk[n])
        BY <1>5, <1>7, <2>4, WholeWalkIs
  <2>6. k < j
    <3>1. k <= j /\ k # j
          BY <2>1, <2>2
    <3>2. QED BY <3>1
  <2>7. QED BY <2>1, <2>2, <2>5, <2>6
<1>8. QED BY <1>4, <1>6, <1>7 DEF FirstOf

(* "An item sits under the first of its tags in this order": a row nobody     *)
(* touched while the page was being read is on it, under Other only if it has *)
(* no aisle; and, the aisles and their orders being left alone, under the     *)
(* first of its aisles in the reader's own order or, failing that, in the one *)
(* inherited (tags::order_for, group_by_category).                            *)
THEOREM BoardsShowWhatStayed == ShoppingHistorySpec => []BoardShowsWhatStayed
<1>1. BoardInv => BoardShowsWhatStayed
      BY BoardIsRight DEF BoardShowsWhatStayed
<1>2. QED BY <1>1, NoBoardYet, BoardKept, PTL DEF ShoppingHistorySpec

----------------------------------------------------------------------------
(* What a device held is brought over: what is asked of each of its rows,  *)
(* one after the other, and what the rows have become by then.             *)

ToMake == <<"insert", "record", "prune">>
ToTakeUp == <<"put_back", "record", "prune">>
AfterMaking == <<"record", "prune">>
ToPrune == <<"prune">>
ToTick == <<"tick">>

There(rows) == {i \in RowIds : rows[i] # None}
SaysIt(row, brought) ==
    Key(row.name) = Key(brought.name) /\ row.unit = MeasuredOrCounted(brought.unit)

(* The rows are those the first m of the cache have become, but for some.  *)
HeldFor(rows, aisles, cache, m, but) ==
    /\ \A i \in There(rows) : \E k \in 1..m : SaysIt(rows[i], cache[k])
    /\ \A k \in 1..m : \E i \in There(rows) : SaysIt(rows[i], cache[k])
    /\ \A i, j \in There(rows) :
          Key(rows[i].name) = Key(rows[j].name) /\ rows[i].unit = rows[j].unit => i = j
    /\ \A i \in There(rows) \ but : \A k \in 1..m :
          SaysIt(rows[i], cache[k]) => rows[i] = BroughtAs(cache, k, m, aisles)

(* A row made of the first of those that say the same.                      *)
RowOf(first, done, tags) ==
    [name |-> Capitalised(first.name), amount |-> first.amount,
     unit |-> MeasuredOrCounted(first.unit), done |-> done, tags |-> tags]

NotDone == FALSE
RowDone(row, done) == [row EXCEPT !.done = done]
RowUnder(row, tags) == [row EXCEPT !.tags = tags]

(* The row that is made of the m-th, filed under the first n of its aisles.*)
InHandAs(cache, m, n, aisles) ==
    LET twins == Twins(cache, m, m)
        first == cache[Min(twins)]
        under == (UNION {ToSet(cache[j].tags) : j \in twins \ {m}})
                 \cup {cache[m].tags[k] : k \in 1..n}
    IN RowOf(first, NotDone, under \cap aisles)

HasInHand(w, rows, aisles, m, n) ==
    /\ w.row \in There(rows)
    /\ rows[w.row] = InHandAs(w.asked.cache, m, n, aisles)
    /\ HeldFor(rows, aisles, w.asked.cache, m, {w.row})

Adding(w, rows, aisles, m) ==
    LET brought == w.asked.cache[m] IN
    \/ /\ w.plan \in {CreatePlan, ToMake}
       /\ w.name = brought.name /\ w.amount = brought.amount
       /\ w.unit = MeasuredOrCounted(brought.unit)
       /\ HeldFor(rows, aisles, w.asked.cache, m - 1, {})
       /\ w.plan = ToMake => \A i \in There(rows) : ~SaysIt(rows[i], brought)
    \/ /\ w.plan = ToTakeUp /\ w.row \in There(rows) /\ SaysIt(rows[w.row], brought)
       /\ HeldFor(rows, aisles, w.asked.cache, m - 1, {})
    \/ w.plan \in {AfterMaking, ToPrune} /\ HasInHand(w, rows, aisles, m, 0)

FilingIn(w, rows, aisles, m, n) ==
    \/ w.plan \in {FilePlan, ToAttach} /\ HasInHand(w, rows, aisles, m, n - 1)
    \/ w.plan \in {AfterFiling, ToRemember} /\ HasInHand(w, rows, aisles, m, n)

Ticking(w, rows, aisles, m, n) ==
    w.plan \in {TickPlan, ToTick} /\ w.crossed /\ HasInHand(w, rows, aisles, m, n)

(* What is asked of a row in the n-th place after it is made, of which     *)
(* there are so many.                                                      *)
AsksFor(a, cache, brought, n) ==
    /\ a.cache = cache
    /\ IF n <= Len(brought.tags) THEN a.deed = "file" /\ a.tag = brought.tags[n]
       ELSE a.deed = "tick" /\ a.done
AsksOf(brought) == Len(brought.tags) + (IF brought.done THEN 1 ELSE 0)

(* The n-th of these is asked now, of the m-th row, and the rest will be.  *)
Asking(w, m, n) ==
    LET cache == w.asked.cache IN
    /\ m \in 1..Len(cache) /\ n \in 0..AsksOf(cache[m])
    /\ w.later = SubSeq(cache, m + 1, Len(cache))
    /\ Len(w.next) = AsksOf(cache[m]) - n
    /\ \A k \in 1..Len(w.next) : AsksFor(w.next[k], cache, cache[m], n + k)
    /\ IF n = 0 THEN w.asked.deed = "add" ELSE AsksFor(w.asked, cache, cache[m], n)

Doing(w, rows, aisles, m, n) ==
    IF n = 0 THEN Adding(w, rows, aisles, m)
    ELSE IF n <= Len(w.asked.cache[m].tags) THEN FilingIn(w, rows, aisles, m, n)
    ELSE Ticking(w, rows, aisles, m, Len(w.asked.cache[m].tags))

DoneWith(w, rows, aisles, m, n) ==
    IF n <= Len(w.asked.cache[m].tags) THEN HasInHand(w, rows, aisles, m, n)
    ELSE HeldFor(rows, aisles, w.asked.cache, m, {})

BringsAt(w, rows, aisles, m, n) == Asking(w, m, n) /\ Doing(w, rows, aisles, m, n)
BringsOn(w, rows, aisles) ==
    \E m \in 1..Len(w.asked.cache) : \E n \in 0..AsksOf(w.asked.cache[m]) :
        BringsAt(w, rows, aisles, m, n)

BringShape(c) ==
    Busy(c) /\ alone[c] /\ made[c] => BringsOn(work[c], items, Aisles)
BringInv == ShoppingInv /\ \A c \in Callers : BringShape(c)

LEMMA SaysAsWell ==
    ASSUME NEW row, NEW a, NEW b, SaysIt(row, a)
    PROVE  SaysIt(row, b) <=> SameRow(b, a)
<1>1. Key(row.name) = Key(a.name) /\ row.unit = MeasuredOrCounted(a.unit)
      BY DEF SaysIt
<1>2. QED BY <1>1 DEF SaysIt, SameRow

(* Those that say the same become the same row.                            *)
LEMMA BroughtAlike ==
    ASSUME NEW cache, NEW m, NEW aisles, NEW j, NEW k, SameRow(cache[j], cache[k])
    PROVE  /\ Twins(cache, j, m) = Twins(cache, k, m)
           /\ BroughtAs(cache, j, m, aisles) = BroughtAs(cache, k, m, aisles)
<1>1. \A i : SameRow(cache[i], cache[j]) <=> SameRow(cache[i], cache[k])
      BY DEF SameRow
<1>2. Twins(cache, j, m) = Twins(cache, k, m)
      BY <1>1 DEF Twins
<1>3. QED BY <1>2 DEF BroughtAs

LEMMA FirstTwin ==
    ASSUME NEW cache, NEW m \in Nat, NEW k \in 1..m
    PROVE  LET twins == Twins(cache, k, m) IN
           /\ k \in twins /\ Min(twins) \in twins
           /\ SameRow(cache[Min(twins)], cache[k])
<1> DEFINE twins == Twins(cache, k, m)
<1>1. k \in twins /\ twins \subseteq Nat
      BY DEF Twins, SameRow
<1>2. Min(twins) \in twins
  <2> HIDE DEF twins
  <2>1. QED BY <1>1, MinIsThere
<1>3. SameRow(cache[Min(twins)], cache[k])
      BY <1>2 DEF Twins
<1>4. QED BY <1>1, <1>2, <1>3

LEMMA CacheIs ==
    ASSUME NEW cache \in Seq(Incoming), NEW k \in 1..Len(cache)
    PROVE  /\ cache[k] \in Incoming /\ cache[k].name \in Names
           /\ cache[k].amount \in Nat \ {0} /\ cache[k].unit \in Maybe(Known)
           /\ cache[k].done \in BOOLEAN /\ cache[k].tags \in Seq(TagIds)
<1>1. cache[k] \in Incoming
      OBVIOUS
<1>2. QED BY <1>1 DEF Incoming

(* The row in hand says what the row brought says.                         *)
LEMMA HandSays ==
    ASSUME NEW cache \in Seq(Incoming), NEW m \in 1..Len(cache), NEW n, NEW aisles
    PROVE  SaysIt(InHandAs(cache, m, n, aisles), cache[m])
<1> DEFINE first == cache[Min(Twins(cache, m, m))]
<1>1. Min(Twins(cache, m, m)) \in 1..m /\ SameRow(first, cache[m])
  <2>1. m \in Nat /\ m \in 1..m
        OBVIOUS
  <2>2. Min(Twins(cache, m, m)) \in Twins(cache, m, m) /\ SameRow(first, cache[m])
        BY <2>1, FirstTwin
  <2>3. QED BY <2>2 DEF Twins
<1>2. first.name \in Names
      BY <1>1, CacheIs
<1> HIDE DEF first
<1>3. Key(Capitalised(first.name)) = Key(first.name)
      BY <1>2, NameKept
<1>4. /\ InHandAs(cache, m, n, aisles).name = Capitalised(first.name)
      /\ InHandAs(cache, m, n, aisles).unit = MeasuredOrCounted(first.unit)
      BY DEF InHandAs, RowOf, first
<1>5. QED BY <1>1, <1>3, <1>4 DEF SaysIt, SameRow

(* A row that says what the next says is what becomes of both.             *)
LEMMA HeldTurns ==
    ASSUME NEW rows, NEW aisles, NEW cache, NEW m \in Nat \ {0},
           HeldFor(rows, aisles, cache, m - 1, {}),
           NEW r \in There(rows), SaysIt(rows[r], cache[m])
    PROVE  HeldFor(rows, aisles, cache, m, {r})
<1>1. 1..m = (1..m - 1) \cup {m}
      OBVIOUS
<1>2. \A i \in There(rows) : \E k \in 1..m : SaysIt(rows[i], cache[k])
      BY <1>1 DEF HeldFor
<1>3. \A k \in 1..m : \E i \in There(rows) : SaysIt(rows[i], cache[k])
      BY <1>1 DEF HeldFor
<1>4. \A i, j \in There(rows) :
         Key(rows[i].name) = Key(rows[j].name) /\ rows[i].unit = rows[j].unit => i = j
      BY DEF HeldFor
<1>5. ASSUME NEW i \in There(rows) \ {r}, NEW k \in 1..m, SaysIt(rows[i], cache[k])
      PROVE  rows[i] = BroughtAs(cache, k, m, aisles)
  <2>1. ~SaysIt(rows[i], cache[m])
        BY <1>4, <1>5 DEF SaysIt
  <2>2. k \in 1..m - 1
        BY <1>1, <1>5, <2>1
  <2>3. rows[i] = BroughtAs(cache, k, m - 1, aisles)
        BY <1>5, <2>2 DEF HeldFor
  <2>4. Twins(cache, k, m) = Twins(cache, k, m - 1)
    <3>1. ~SameRow(cache[m], cache[k])
          BY <1>5, <2>1, SaysAsWell
    <3>2. QED BY <1>1, <3>1 DEF Twins
  <2>5. QED BY <2>3, <2>4 DEF BroughtAs
<1>6. QED BY <1>2, <1>3, <1>4, <1>5 DEF HeldFor

(* The row in hand may change in what it does not say.                     *)
LEMMA HeldMeanwhile ==
    ASSUME NEW rows, NEW aisles, NEW cache, NEW m, NEW r \in There(rows),
           HeldFor(rows, aisles, cache, m, {r}),
           NEW row, row # None, row.name = rows[r].name, row.unit = rows[r].unit,
           NEW after, after = [rows EXCEPT ![r] = row], rows = [i \in RowIds |-> rows[i]]
    PROVE  HeldFor(after, aisles, cache, m, {r}) /\ r \in There(after) /\ after[r] = row
<1>1. r \in RowIds /\ after[r] = row /\ \A i \in RowIds \ {r} : after[i] = rows[i]
      BY DEF There
<1>2. There(after) = There(rows)
      BY <1>1 DEF There
<1>3. \A i \in There(rows) : after[i].name = rows[i].name /\ after[i].unit = rows[i].unit
      BY <1>1 DEF There
<1>4. \A i \in There(rows) : \A k : SaysIt(after[i], cache[k]) <=> SaysIt(rows[i], cache[k])
      BY <1>3 DEF SaysIt
<1>5. \A i \in There(after) : \E k \in 1..m : SaysIt(after[i], cache[k])
      BY <1>2, <1>4 DEF HeldFor
<1>6. \A k \in 1..m : \E i \in There(after) : SaysIt(after[i], cache[k])
      BY <1>2, <1>4 DEF HeldFor
<1>7. \A i, j \in There(after) :
         Key(after[i].name) = Key(after[j].name) /\ after[i].unit = after[j].unit => i = j
      BY <1>2, <1>3 DEF HeldFor
<1>8. ASSUME NEW i \in There(after) \ {r}, NEW k \in 1..m, SaysIt(after[i], cache[k])
      PROVE  after[i] = BroughtAs(cache, k, m, aisles)
  <2>1. i \in There(rows) \ {r} /\ SaysIt(rows[i], cache[k]) /\ after[i] = rows[i]
        BY <1>1, <1>2, <1>4, <1>8 DEF There
  <2>2. QED BY <2>1 DEF HeldFor
<1>9. QED BY <1>1, <1>2, <1>5, <1>6, <1>7, <1>8 DEF HeldFor

(* A row is made for what none says yet.                                   *)
LEMMA HeldGrows ==
    ASSUME NEW rows, NEW aisles, NEW cache \in Seq(Incoming), NEW m \in 1..Len(cache),
           HeldFor(rows, aisles, cache, m - 1, {}), rows = [i \in RowIds |-> rows[i]],
           \A i \in There(rows) : ~SaysIt(rows[i], cache[m]),
           NEW r \in RowIds, r \notin There(rows), NEW row, row # None, SaysIt(row, cache[m]),
           NEW after, after = [rows EXCEPT ![r] = row]
    PROVE  HeldFor(after, aisles, cache, m, {r}) /\ r \in There(after) /\ after[r] = row
<1>1. after[r] = row /\ \A i \in RowIds \ {r} : after[i] = rows[i]
      OBVIOUS
<1>2. There(after) = There(rows) \cup {r}
      BY <1>1 DEF There
<1>3. \A i \in There(rows) : after[i] = rows[i] /\ i # r
      BY <1>1 DEF There
<1>4. 1..m = (1..m - 1) \cup {m} /\ m \in 1..m
      OBVIOUS
<1>5. \A i \in There(after) : \E k \in 1..m : SaysIt(after[i], cache[k])
      BY <1>1, <1>2, <1>3, <1>4 DEF HeldFor
<1>6. \A k \in 1..m : \E i \in There(after) : SaysIt(after[i], cache[k])
  <2>1. \A k \in 1..m - 1 : \E i \in There(rows) : SaysIt(rows[i], cache[k])
        BY DEF HeldFor
  <2>2. \A k \in 1..m - 1 : \E i \in There(after) : SaysIt(after[i], cache[k])
        BY <1>2, <1>3, <2>1
  <2>3. QED BY <1>1, <1>2, <1>4, <2>2
<1>7. ASSUME NEW i \in There(after), NEW j \in There(after), i # j,
             Key(after[i].name) = Key(after[j].name), after[i].unit = after[j].unit
      PROVE  FALSE
  <2>1. SaysIt(after[i], cache[m]) <=> SaysIt(after[j], cache[m])
        BY <1>7 DEF SaysIt
  <2>2. i # r /\ j # r
        BY <1>1, <1>2, <1>3, <1>7, <2>1
  <2>3. i \in There(rows) /\ j \in There(rows) /\ after[i] = rows[i] /\ after[j] = rows[j]
        BY <1>2, <1>3, <2>2
  <2>4. QED BY <1>7, <2>3 DEF HeldFor
<1>8. ASSUME NEW i \in There(after) \ {r}, NEW k \in 1..m, SaysIt(after[i], cache[k])
      PROVE  after[i] = BroughtAs(cache, k, m, aisles)
  <2>1. i \in There(rows) /\ after[i] = rows[i]
        BY <1>2, <1>3
  <2>2. ~SaysIt(rows[i], cache[m])
        BY <2>1
  <2>3. k \in 1..m - 1
        BY <1>4, <1>8, <2>1, <2>2
  <2>4. rows[i] = BroughtAs(cache, k, m - 1, aisles)
        BY <1>8, <2>1, <2>3 DEF HeldFor
  <2>5. Twins(cache, k, m) = Twins(cache, k, m - 1)
    <3>1. ~SameRow(cache[m], cache[k])
          BY <1>8, <2>1, <2>2, SaysAsWell
    <3>2. QED BY <1>4, <3>1 DEF Twins
  <2>6. QED BY <2>1, <2>4, <2>5 DEF BroughtAs
<1>9. QED BY <1>1, <1>2, <1>5, <1>6, <1>7, <1>8 DEF HeldFor

(* A row that changes in one column.                                       *)
LEMMA RowCrossed ==
    ASSUME NEW first, NEW done, NEW tags, NEW crossed
    PROVE  RowDone(RowOf(first, done, tags), crossed) = RowOf(first, crossed, tags)
BY DEF RowOf, RowDone

LEMMA RowFiled ==
    ASSUME NEW first, NEW done, NEW tags, NEW filed
    PROVE  /\ RowOf(first, done, tags).tags = tags
           /\ RowUnder(RowOf(first, done, tags), filed) = RowOf(first, done, filed)
BY DEF RowOf, RowUnder

LEMMA LeastIs ==
    ASSUME NEW S, S \subseteq Nat, NEW x \in S, \A y \in S : x <= y
    PROVE  Min(S) = x
<1>1. Min(S) \in S /\ \A y \in S : Min(S) <= y
      BY DEF Min
<1>2. Min(S) \in Nat /\ x \in Nat /\ Min(S) <= x /\ x <= Min(S)
      BY <1>1
<1>3. QED BY <1>2

LEMMA GreatestIs ==
    ASSUME NEW S, S \subseteq Nat, NEW x \in S, \A y \in S : y <= x
    PROVE  Max(S) = x
<1>1. Max(S) \in S /\ \A y \in S : Max(S) >= y
      BY DEF Max
<1>2. Max(S) \in Nat /\ x \in Nat /\ Max(S) >= x /\ Max(S) <= x
      BY <1>1
<1>3. QED BY <1>2

(* What is made for the first of those that say the same.                  *)
LEMMA HandMade ==
    ASSUME NEW rows, NEW aisles, NEW cache \in Seq(Incoming), NEW m \in 1..Len(cache),
           HeldFor(rows, aisles, cache, m - 1, {}),
           \A i \in There(rows) : ~SaysIt(rows[i], cache[m])
    PROVE  InHandAs(cache, m, 0, aisles) =
RowOf(cache[m], NotDone, {})
<1>1. Twins(cache, m, m) = {m}
  <2>1. ASSUME NEW k \in 1..m - 1, SameRow(cache[k], cache[m]) PROVE FALSE
    <3>1. PICK i \in There(rows) : SaysIt(rows[i], cache[k])
          BY DEF HeldFor
    <3>2. SameRow(cache[m], cache[k])
          BY <2>1 DEF SameRow
    <3>3. QED BY <3>1, <3>2, SaysAsWell
  <2>2. SameRow(cache[m], cache[m]) /\ 1..m = (1..m - 1) \cup {m}
        BY DEF SameRow
  <2>3. QED BY <2>1, <2>2 DEF Twins
<1>2. Min(Twins(cache, m, m)) = m
  <2>1. {m} \subseteq Nat /\ {m} # {}
        OBVIOUS
  <2>2. Min({m}) \in {m}
        BY <2>1, MinIsThere
  <2>3. QED BY <1>1, <2>2
<1>3. /\ Twins(cache, m, m) \ {m} = {} /\ 1..0 = {}
      BY <1>1
<1>4. (UNION {ToSet(cache[j].tags) : j \in Twins(cache, m, m) \ {m}})
         \cup {cache[m].tags[k] : k \in 1..0} = {}
      BY <1>3
<1>5. QED BY <1>2, <1>4 DEF InHandAs

(* The least of some numbers is the least of these and a greater.          *)
LEMMA LeastOfMore ==
    ASSUME NEW S, S \subseteq Nat, S # {}, NEW n \in Nat, \A x \in S : x <= n
    PROVE  Min(S \cup {n}) = Min(S)
<1>1. PICK x \in S : \A y \in S : x <= y
      BY LeastThere
<1>2. x \in Nat /\ \A y \in S : y \in Nat
      OBVIOUS
<1>3. Min(S) = x
      BY <1>1, <1>2, LeastIs
<1>4. Min(S \cup {n}) = x
  <2>1. S \cup {n} \subseteq Nat /\ x \in S \cup {n} /\ \A y \in S \cup {n} : x <= y
        BY <1>1, <1>2
  <2>2. QED BY <2>1, LeastIs
<1>5. QED BY <1>3, <1>4

(* What is taken up for a later one.                                       *)
LEMMA HandFound ==
    ASSUME NEW rows, NEW aisles, NEW cache \in Seq(Incoming), NEW m \in 1..Len(cache),
           HeldFor(rows, aisles, cache, m - 1, {}),
           NEW r \in There(rows), SaysIt(rows[r], cache[m])
    PROVE  RowDone(rows[r], NotDone) = InHandAs(cache, m, 0, aisles)
<1>1. PICK k \in 1..m - 1 : SaysIt(rows[r], cache[k])
      BY DEF HeldFor
<1>2. SameRow(cache[k], cache[m]) /\ SameRow(cache[m], cache[k])
      BY <1>1, SaysAsWell
<1>3. rows[r] = BroughtAs(cache, k, m - 1, aisles)
      BY <1>1 DEF HeldFor
<1> DEFINE before == Twins(cache, k, m - 1)
<1>4. Twins(cache, m, m) = before \cup {m} /\ m \notin before /\ k \in before
  <2>1. 1..m = (1..m - 1) \cup {m} /\ m \notin 1..m - 1
        OBVIOUS
  <2>2. \A j : SameRow(cache[j], cache[m]) <=> SameRow(cache[j], cache[k])
        BY <1>2 DEF SameRow
  <2>3. QED BY <1>2, <2>1, <2>2 DEF Twins, SameRow
<1>5. Min(Twins(cache, m, m)) = Min(before)
  <2>1. before \subseteq Nat /\ before # {} /\ m \in Nat /\ \A j \in before : j <= m
        BY <1>4 DEF Twins
  <2> HIDE DEF before
  <2>2. QED BY <1>4, <2>1, LeastOfMore
<1>6. (UNION {ToSet(cache[j].tags) : j \in Twins(cache, m, m) \ {m}})
         \cup {cache[m].tags[q] : q \in 1..0}
      = (UNION {ToSet(cache[j].tags) : j \in before})
  <2>1. Twins(cache, m, m) \ {m} = before /\ 1..0 = {}
        BY <1>4
  <2>2. QED BY <2>1
<1> DEFINE first == cache[Min(before)]
           under == (UNION {ToSet(cache[j].tags) : j \in before})
<1>7. rows[r] = RowOf(first, cache[Max(before)].done, under \cap aisles)
      BY <1>3 DEF BroughtAs, RowOf
<1>8. InHandAs(cache, m, 0, aisles) =
         RowOf(first, NotDone, under \cap aisles)
      BY <1>5, <1>6 DEF InHandAs
<1> HIDE DEF first, under, before
<1>9. RowDone(rows[r], NotDone) = RowOf(first, NotDone, under \cap aisles)
      BY <1>7, RowCrossed
<1>10. QED BY <1>8, <1>9

(* It is filed under one aisle more, if that is there.                     *)
LEMMA HandFiled ==
    ASSUME NEW cache \in Seq(Incoming), NEW m \in 1..Len(cache), NEW aisles,
           NEW n \in 1..Len(cache[m].tags), NEW row, row = InHandAs(cache, m, n - 1, aisles),
           NEW t, t = cache[m].tags[n]
    PROVE  InHandAs(cache, m, n, aisles) = RowUnder(row, row.tags \cup ({t} \cap aisles))
<1> DEFINE first == cache[Min(Twins(cache, m, m))]
           others == (UNION {ToSet(cache[j].tags) : j \in Twins(cache, m, m) \ {m}})
           under(k) == others \cup {cache[m].tags[q] : q \in 1..k}
           held(k) == RowOf(first, NotDone, under(k) \cap aisles)
<1>1. \A k : InHandAs(cache, m, k, aisles) = held(k)
      BY DEF InHandAs
<1>2. 1..n = (1..n - 1) \cup {n}
      BY CacheIs
<1>3. under(n) = under(n - 1) \cup {t}
  <2> HIDE DEF others
  <2>1. QED BY <1>2
<1>4. row = held(n - 1)
      BY <1>1
<1>5. row.tags = under(n - 1) \cap aisles
      BY <1>4, RowFiled
<1> HIDE DEF under, first
<1>6. under(n) \cap aisles = row.tags \cup ({t} \cap aisles)
      BY <1>3, <1>5
<1>7. RowUnder(row, under(n) \cap aisles) = held(n)
      BY <1>4, RowFiled
<1> HIDE DEF held
<1>8. QED BY <1>1, <1>6, <1>7

(* When it is filed under all of them, and crossed off if that was.        *)
LEMMA HandDone ==
    ASSUME NEW cache \in Seq(Incoming), NEW m \in 1..Len(cache), NEW aisles,
           NEW row, row = InHandAs(cache, m, Len(cache[m].tags), aisles)
    PROVE  RowDone(row, cache[m].done) = BroughtAs(cache, m, m, aisles)
<1> DEFINE twins == Twins(cache, m, m)
           first == cache[Min(twins)]
           tags == cache[m].tags
           under == (UNION {ToSet(cache[j].tags) : j \in twins \ {m}})
                    \cup {tags[k] : k \in 1..Len(tags)}
           all == (UNION {ToSet(cache[j].tags) : j \in twins})
<1>1. m \in twins /\ \A j \in twins : j \in 1..m
      BY DEF Twins, SameRow
<1>2. Max(twins) = m
  <2>1. m \in Nat /\ \A j \in twins : j \in Nat /\ j <= m
        BY <1>1
  <2> HIDE DEF twins
  <2>2. QED BY <1>1, <2>1, GreatestIs
<1>3. under = all
  <2>1. {tags[k] : k \in 1..Len(tags)} = ToSet(tags)
        BY CacheIs DEF ToSet
  <2>2. twins = (twins \ {m}) \cup {m}
        BY <1>1
  <2> HIDE DEF twins
  <2>3. QED BY <2>1, <2>2
<1>4. row = RowOf(first, NotDone, under \cap aisles)
      BY DEF InHandAs
<1>5. BroughtAs(cache, m, m, aisles) =
         RowOf(first, cache[m].done, all \cap aisles)
      BY <1>2 DEF BroughtAs, RowOf
<1> HIDE DEF first, under, all
<1>6. RowDone(row, cache[m].done) = RowOf(first, cache[m].done, under \cap aisles)
      BY <1>4, RowCrossed
<1>7. QED BY <1>3, <1>5, <1>6

(* Then the first m of the cache are there.                                *)
LEMMA HeldDone ==
    ASSUME NEW rows, NEW aisles, NEW cache, NEW m \in Nat \ {0}, NEW r \in There(rows),
           HeldFor(rows, aisles, cache, m, {r}), SaysIt(rows[r], cache[m]),
           rows[r] = BroughtAs(cache, m, m, aisles)
    PROVE  HeldFor(rows, aisles, cache, m, {})
<1>1. ASSUME NEW i \in There(rows), NEW k \in 1..m, SaysIt(rows[i], cache[k])
      PROVE  rows[i] = BroughtAs(cache, k, m, aisles)
  <2>1. CASE i = r
    <3>1. SameRow(cache[m], cache[k])
          BY <1>1, <2>1, SaysAsWell
    <3>2. QED BY <2>1, <3>1, BroughtAlike
  <2>2. CASE i # r
        BY <1>1, <2>2 DEF HeldFor
  <2>3. QED BY <2>1, <2>2
<1>2. QED BY <1>1 DEF HeldFor

LEMMA BegunIs ==
    ASSUME NEW a, NEW next, NEW later
    PROVE  LET b == Begin(a, next, later) IN
           /\ b.asked = a /\ b.plan = PlanOf(a.deed) /\ b.row = a.row /\ b.name = a.line
           /\ b.amount = a.amount /\ b.unit = MeasuredOrCounted(a.unit) /\ b.crossed = a.done
           /\ b.next = next /\ b.later = later
BY DEF Begin, NoWork

LEMMA BroughtPlans ==
    /\ PlanOf("add") = CreatePlan /\ PlanOf("file") = FilePlan /\ PlanOf("tick") = TickPlan
BY DEF PlanOf

LEMMA AsksAre ==
    ASSUME NEW row \in Incoming
    PROVE  /\ Len(row.tags) \in Nat /\ AsksOf(row) \in Nat
           /\ row.done => AsksOf(row) = Len(row.tags) + 1
           /\ ~row.done => AsksOf(row) = Len(row.tags)
<1>1. Len(row.tags) \in Nat
      BY DEF Incoming
<1>2. ASSUME row.done PROVE AsksOf(row) = Len(row.tags) + 1
      BY <1>2 DEF AsksOf
<1>3. ASSUME ~row.done PROVE AsksOf(row) = Len(row.tags)
  <2>1. AsksOf(row) = Len(row.tags) + 0
        BY <1>3 DEF AsksOf
  <2>2. QED BY <1>1, <2>1
<1>4. AsksOf(row) \in Nat
  <2>1. CASE row.done
        BY <1>1, <1>2, <2>1
  <2>2. CASE ~row.done
        BY <1>1, <1>3, <2>2
  <2>3. QED BY <2>1, <2>2
<1>5. QED BY <1>1, <1>2, <1>3, <1>4

(* What is asked of a row, one after the other.                            *)
LEMMA BringingAsks ==
    ASSUME NEW a \in Asked, NEW row \in Incoming
    PROVE  LET asks == Bringing(a, row) IN
           /\ asks \in Seq(Brought) /\ Len(asks) = AsksOf(row) + 1
           /\ asks[1].deed = "add" /\ asks[1].line = row.name /\ asks[1].amount = row.amount
           /\ asks[1].unit = row.unit /\ asks[1].cache = a.cache
           /\ \A n \in 1..AsksOf(row) : AsksFor(asks[n + 1], a.cache, row, n)
<1> DEFINE add == [a EXCEPT !.deed = "add", !.line = row.name, !.amount = row.amount,
                       !.unit = row.unit]
           file(t) == [a EXCEPT !.deed = "file", !.tag = t]
           tick == [a EXCEPT !.deed = "tick", !.done = TRUE]
           files == [k \in DOMAIN row.tags |-> file(row.tags[k])]
           ticks == IF row.done THEN <<tick>> ELSE <<>>
<1>1. /\ row.name \in Names /\ row.amount \in Nat \ {0} /\ row.unit \in Maybe(Known)
      /\ row.tags \in Seq(TagIds) /\ row.done \in BOOLEAN
      BY DEF Incoming
<1>2. "add" \in Deeds /\ "file" \in Deeds /\ "tick" \in Deeds
      BY DEF Deeds, ApiDeeds
<1>3. /\ add \in Asked /\ add.deed = "add" /\ add.line = row.name /\ add.amount = row.amount
      /\ add.unit = row.unit /\ add.cache = a.cache
      BY <1>1, <1>2 DEF Asked
<1>4. \A t \in TagIds : /\ file(t) \in Asked /\ file(t).deed = "file" /\ file(t).tag = t
                        /\ file(t).cache = a.cache
      BY <1>2 DEF Asked
<1>5. tick \in Asked /\ tick.deed = "tick" /\ tick.done /\ tick.cache = a.cache
      BY <1>2 DEF Asked
<1> HIDE DEF add, file, tick
<1>6. /\ Len(row.tags) \in Nat /\ DOMAIN row.tags = 1..Len(row.tags)
      /\ \A k \in 1..Len(row.tags) : row.tags[k] \in TagIds
      BY <1>1
<1>7. /\ files \in Seq(Asked) /\ Len(files) = Len(row.tags)
      /\ \A k \in 1..Len(row.tags) : files[k] = file(row.tags[k])
  <2>1. \A k \in 1..Len(row.tags) : file(row.tags[k]) \in Asked
        BY <1>4, <1>6
  <2>2. [k \in 1..Len(row.tags) |-> file(row.tags[k])] \in Seq(Asked)
        BY <1>6, <2>1, IsASeq
  <2>3. files = [k \in 1..Len(row.tags) |-> file(row.tags[k])]
        BY <1>6
  <2>4. QED BY <1>6, <2>2, <2>3
<1>8. /\ ticks \in Seq(Asked) /\ Len(ticks) \in Nat
      /\ row.done => Len(ticks) = 1
      /\ row.done => ticks[1] = tick
      /\ ~row.done => Len(ticks) = 0
      BY <1>1, <1>5
<1>9. <<add>> \in Seq(Asked) /\ Len(<<add>>) = 1 /\ <<add>>[1] = add
      BY <1>3
<1> DEFINE one == <<add>>
<1> HIDE DEF files, ticks, one
<1>10. /\ one \o files \in Seq(Asked) /\ Len(one \o files) = 1 + Len(row.tags)
       /\ \A i \in 1..1 + Len(row.tags) :
             (one \o files)[i] = IF i <= 1 THEN add ELSE files[i - 1]
  <2>1. one \in Seq(Asked) /\ Len(one) = 1 /\ one[1] = add
        BY <1>9 DEF one
  <2>2. /\ one \o files \in Seq(Asked) /\ Len(one \o files) = Len(one) + Len(files)
        /\ \A i \in 1..Len(one) + Len(files) :
              (one \o files)[i] = IF i <= Len(one) THEN one[i] ELSE files[i - Len(one)]
    <3>1. one \in Seq(Asked) /\ files \in Seq(Asked)
          BY <1>7, <2>1
    <3>2. QED BY ONLY <3>1, ConcatProperties, ZenonT(60)
  <2>3. QED BY <1>6, <1>7, <2>1, <2>2
<1> DEFINE front == one \o files
           asks == front \o ticks
<1>11. front \in Seq(Asked) /\ Len(front) = 1 + Len(row.tags)
      BY <1>10
<1> HIDE DEF front
<1>12. /\ Len(asks) = Len(front) + Len(ticks)
       /\ \A i \in 1..Len(front) + Len(ticks) :
             asks[i] = IF i <= Len(front) THEN front[i] ELSE ticks[i - Len(front)]
  <2>1. front \in Seq(Asked) /\ ticks \in Seq(Asked)
        BY <1>8, <1>11
  <2>2. QED BY <2>1, ConcatProperties
<1> HIDE DEF asks
<1>13. Len(asks) = AsksOf(row) + 1
  <2>1. CASE row.done
    <3>1. Len(ticks) = 1
          BY <1>8, <2>1
    <3>2. AsksOf(row) = Len(row.tags) + 1
          BY <2>1, AsksAre
    <3>3. QED BY <1>6, <1>11, <1>12, <3>1, <3>2
  <2>2. CASE ~row.done
        BY <1>6, <1>8, <1>11, <1>12, <2>2, AsksAre
  <2>3. QED BY <2>1, <2>2
<1>14. asks[1] = add
  <2>1. 1 \in 1..Len(front) + Len(ticks) /\ 1 <= Len(front) /\ 1 \in 1..1 + Len(row.tags)
        BY <1>6, <1>8, <1>11
  <2>2. asks[1] = front[1]
        BY <1>12, <2>1
  <2>3. QED BY <1>10, <2>1, <2>2 DEF front
<1>15. ASSUME NEW n \in 1..AsksOf(row) PROVE AsksFor(asks[n + 1], a.cache, row, n)
  <2>1. CASE n <= Len(row.tags)
    <3>1. n + 1 \in 1..Len(front) /\ n + 1 <= Len(front) /\ n \in 1..Len(row.tags)
          /\ n + 1 \in 1..1 + Len(row.tags) /\ ~(n + 1 <= 1) /\ (n + 1) - 1 = n
          BY <1>6, <1>11, <2>1
    <3>2. asks[n + 1] = front[n + 1]
          BY <1>8, <1>12, <3>1
    <3>3. front[n + 1] = files[n]
          BY <1>10, <3>1 DEF front
    <3>4. asks[n + 1] = file(row.tags[n])
          BY <1>7, <3>1, <3>2, <3>3
    <3>5. QED BY <1>4, <1>6, <2>1, <3>1, <3>4 DEF AsksFor
  <2>2. CASE ~(n <= Len(row.tags))
    <3>1. row.done /\ n = Len(row.tags) + 1
          BY <1>6, <2>2, AsksAre
    <3>2. /\ n + 1 \in 1..Len(front) + Len(ticks) /\ ~(n + 1 <= Len(front))
          /\ (n + 1) - Len(front) = 1
      <4>1. Len(ticks) = 1
            BY <1>8, <3>1
      <4>2. n + 1 = Len(front) + 1 /\ Len(front) \in Nat
            BY <1>6, <1>11, <3>1
      <4>3. QED BY <4>1, <4>2
    <3>3. asks[n + 1] = tick
          BY <1>8, <1>12, <3>1, <3>2
    <3>4. QED BY <1>5, <2>2, <3>3 DEF AsksFor
  <2>3. QED BY <2>1, <2>2
<1>16. asks = Bringing(a, row)
      BY DEF asks, front, one, files, ticks, add, file, tick, Bringing
<1>17. QED BY <1>3, <1>13, <1>14, <1>15, <1>16, BringingIs

(* The next row is asked for, or there is none.                            *)
LEMMA NextBrought ==
    ASSUME NEW a \in Asked, NEW rows, NEW aisles, NEW m \in 0..Len(a.cache),
           HeldFor(rows, aisles, a.cache, m, {}),
           NEW w, w = BringNext(a, SubSeq(a.cache, m + 1, Len(a.cache)))
    PROVE  /\ m = Len(a.cache) => w = NoWork
           /\ m # Len(a.cache) =>
                 w.plan # <<>> /\ w.asked.cache = a.cache /\ BringsAt(w, rows, aisles, m + 1, 0)
<1> DEFINE cache == a.cache
           rest == SubSeq(cache, m + 1, Len(cache))
<1>1. cache \in Seq(Incoming) /\ Len(cache) \in Nat /\ m \in Nat /\ m <= Len(cache)
      BY AskedIs
<1> HIDE DEF cache
<1>2. CASE m = Len(cache)
  <2>1. rest = <<>>
        BY <1>1, <1>2, SubSeqEmpty
  <2>2. QED BY <1>2, <2>1 DEF BringNext, cache
<1>3. CASE m # Len(cache)
  <2> DEFINE brought == cache[m + 1]
             asks == Bringing(a, brought)
  <2>1. m + 1 \in 1..Len(cache) /\ Len(cache) \in m + 1..Len(cache)
        BY <1>1, <1>3
  <2>2. /\ Head(rest) = brought /\ Tail(rest) = SubSeq(cache, (m + 1) + 1, Len(cache))
        BY <1>1, <2>1, HeadTailOfSubSeq
  <2>3. rest # <<>>
    <3>1. \A i \in m + 1..Len(cache) : cache[i] \in Incoming
          BY <1>1
    <3>2. Len(rest) = (Len(cache) - (m + 1)) + 1
          BY <1>1, <2>1, <3>1, SubSeqProperties
    <3> HIDE DEF rest
    <3>3. Len(rest) # 0
          BY <1>1, <2>1, <3>2
    <3>4. QED BY <3>3
  <2>4. brought \in Incoming
        BY <1>1, <2>1
  <2> HIDE DEF brought, rest
  <2>5. /\ asks \in Seq(Brought) /\ Len(asks) = AsksOf(brought) + 1
        /\ asks[1].deed = "add" /\ asks[1].line = brought.name
        /\ asks[1].amount = brought.amount
        /\ asks[1].unit = brought.unit /\ asks[1].cache = cache
        /\ \A n \in 1..AsksOf(brought) : AsksFor(asks[n + 1], cache, brought, n)
        BY <2>4, BringingAsks DEF cache
  <2>6. AsksOf(brought) \in Nat
        BY <2>4, AsksAre
  <2> HIDE DEF asks
  <2>7. /\ asks # <<>> /\ Head(asks) = asks[1] /\ Len(Tail(asks)) = AsksOf(brought)
        /\ \A n \in 1..AsksOf(brought) : Tail(asks)[n] = asks[n + 1]
    <3>1. asks # <<>>
          BY <2>5, <2>6
    <3>2. QED BY <2>5, <2>6, <3>1, HeadTailProperties
  <2>8. w = Begin(asks[1], Tail(asks), Tail(rest))
        BY <2>2, <2>3, <2>7 DEF BringNext, rest, asks, cache
  <2>9. /\ w.asked = asks[1] /\ w.plan = CreatePlan /\ w.name = brought.name
        /\ w.amount = brought.amount /\ w.unit = MeasuredOrCounted(brought.unit)
        /\ w.next = Tail(asks) /\ w.later = SubSeq(cache, (m + 1) + 1, Len(cache))
    <3> DEFINE add == asks[1]
               next == Tail(asks)
               later == Tail(rest)
    <3>1. w = Begin(add, next, later)
          BY <2>8
    <3> HIDE DEF add, next, later
    <3>2. /\ w.asked = add /\ w.plan = PlanOf(add.deed) /\ w.name = add.line
          /\ w.amount = add.amount /\ w.unit = MeasuredOrCounted(add.unit)
          /\ w.next = next /\ w.later = later
          BY <3>1, BegunIs
    <3>3. QED BY <2>2, <2>5, <3>2, BroughtPlans DEF add, next, later
  <2>10. Asking(w, m + 1, 0)
    <3>1. ASSUME NEW k \in 1..Len(w.next) PROVE AsksFor(w.next[k], cache, brought, 0 + k)
      <4>1. k \in 1..AsksOf(brought) /\ 0 + k = k
            BY <2>6, <2>7, <2>9
      <4>2. w.next[k] = asks[k + 1]
            BY <2>7, <2>9, <4>1
      <4>3. QED BY <2>5, <4>1, <4>2
    <3>2. Len(w.next) = AsksOf(brought) - 0 /\ 0 \in 0..AsksOf(brought)
          BY <2>6, <2>7, <2>9
    <3>3. w.asked.cache = cache /\ w.asked.deed = "add"
          BY <2>5, <2>9
    <3>4. QED BY <2>1, <2>9, <3>1, <3>2, <3>3 DEF Asking, brought
  <2>11. Doing(w, rows, aisles, m + 1, 0)
    <3>1. CreatePlan # ToMake
          BY DEF CreatePlan, ToMake
    <3>2. HeldFor(rows, aisles, cache, (m + 1) - 1, {})
          BY <1>1 DEF cache
    <3>3. w.asked.cache = cache
          BY <2>5, <2>9
    <3>4. QED BY <2>9, <3>1, <3>2, <3>3 DEF Doing, Adding, brought
  <2>12. w.plan # <<>> /\ w.asked.cache = cache
    <3>1. CreatePlan # <<>>
          BY DEF CreatePlan
    <3>2. QED BY <2>5, <2>9, <3>1
  <2>13. QED BY <1>3, <2>10, <2>11, <2>12 DEF BringsAt, cache
<1>4. QED BY <1>2, <1>3 DEF cache

(* A row that is not to be crossed off is done with once it is filed.      *)
LEMMA RowFinished ==
    ASSUME NEW cache \in Seq(Incoming), NEW m \in 1..Len(cache), NEW rows, NEW aisles,
           NEW r \in There(rows), HeldFor(rows, aisles, cache, m, {r}), ~cache[m].done,
           rows[r] = InHandAs(cache, m, Len(cache[m].tags), aisles)
    PROVE  HeldFor(rows, aisles, cache, m, {})
<1> DEFINE row == rows[r]
           first == cache[Min(Twins(cache, m, m))]
           under == (UNION {ToSet(cache[j].tags) : j \in Twins(cache, m, m) \ {m}})
                    \cup {cache[m].tags[k] : k \in 1..Len(cache[m].tags)}
<1>1. row = RowOf(first, NotDone, under \cap aisles)
      BY DEF InHandAs
<1> HIDE DEF first, under
<1>2. RowDone(row, NotDone) = row
      BY <1>1, RowCrossed
<1>3. cache[m].done = NotDone
      BY CacheIs DEF NotDone
<1>4. row = InHandAs(cache, m, Len(cache[m].tags), aisles)
      OBVIOUS
<1> HIDE DEF row
<1>5. RowDone(row, cache[m].done) = BroughtAs(cache, m, m, aisles)
      BY <1>4, HandDone
<1>6. row = BroughtAs(cache, m, m, aisles)
      BY <1>2, <1>3, <1>5
<1>7. SaysIt(row, cache[m])
      BY <1>4, HandSays
<1>8. m \in Nat \ {0}
      OBVIOUS
<1>9. QED BY <1>6, <1>7, <1>8, HeldDone DEF row

(* What is done of a row leads to what is asked next, of it or of the next *)
(* row, or to the end.                                                     *)
LEMMA GoesOnward ==
    ASSUME NEW w, WorkOK(w), w.plan # <<>>, NEW rows, NEW aisles, NEW m, NEW n,
           Asking(w, m, n), DoneWith(w, rows, aisles, m, n)
    PROVE  LET d == Onward(w)
               cache == w.asked.cache
           IN \/ d.plan # <<>> /\ d.asked.cache = cache /\ BringsOn(d, rows, aisles)
              \/ d = NoWork /\ HeldFor(rows, aisles, cache, Len(cache), {})
<1> DEFINE cache == w.asked.cache
           brought == cache[m]
           next == w.next
<1>1. /\ w.asked \in Asked /\ cache \in Seq(Incoming) /\ next \in Seq(Brought)
      BY UnderWay, AskedIs
<1>2. /\ m \in 1..Len(cache) /\ n \in 0..AsksOf(brought)
      /\ w.later = SubSeq(cache, m + 1, Len(cache))
      /\ Len(next) = AsksOf(brought) - n
      /\ \A k \in 1..Len(next) : AsksFor(next[k], cache, brought, n + k)
      BY DEF Asking
<1>3. /\ brought \in Incoming /\ Len(brought.tags) \in Nat /\ AsksOf(brought) \in Nat
      /\ brought.done => AsksOf(brought) = Len(brought.tags) + 1
      /\ ~brought.done => AsksOf(brought) = Len(brought.tags)
  <2>1. brought \in Incoming
        BY <1>1, <1>2
  <2> HIDE DEF brought
  <2>2. QED BY <2>1, AsksAre
<1>4. /\ n <= Len(brought.tags) => HasInHand(w, rows, aisles, m, n)
      /\ ~(n <= Len(brought.tags)) => HeldFor(rows, aisles, cache, m, {})
      BY DEF DoneWith
<1>5. n \in Nat /\ m \in Nat
      BY <1>1, <1>2, <1>3
<1> HIDE DEF brought, next
<1>6. CASE n # AsksOf(brought)
  <2>1. next # <<>> /\ Head(next) = next[1] /\ 1 \in 1..Len(next)
        BY <1>1, <1>2, <1>3, <1>5, <1>6
  <2>2. /\ Head(next) \in Brought /\ Tail(next) \in Seq(Brought)
        /\ Len(Tail(next)) = Len(next) - 1
        /\ \A k \in 1..Len(Tail(next)) : Tail(next)[k] = next[k + 1]
        BY <1>1, <2>1, HeadTailProperties
  <2> DEFINE a == [Head(next) EXCEPT !.row = w.row]
             more == Tail(next)
             later == w.later
             d == Begin(a, more, later)
  <2>3. /\ a.cache = Head(next).cache /\ a.deed = Head(next).deed /\ a.tag = Head(next).tag
        /\ a.done = Head(next).done /\ a.row = w.row
    <3>1. Head(next) \in Asked
          BY <2>2, BroughtIs
    <3>2. QED BY <3>1 DEF Asked
  <2>4. AsksFor(a, cache, brought, n + 1)
    <3>1. AsksFor(Head(next), cache, brought, n + 1)
          BY <1>2, <2>1
    <3> HIDE DEF a
    <3>2. QED BY <2>3, <3>1 DEF AsksFor
  <2>5. Onward(w) = d
        BY <2>1 DEF Onward, next
  <2> HIDE DEF a, more, later
  <2>6. /\ d.asked = a /\ d.plan = PlanOf(a.deed) /\ d.row = w.row /\ d.crossed = a.done
        /\ d.next = more /\ d.later = later
        BY <2>3, BegunIs
  <2> HIDE DEF d
  <2>7. a.cache = cache
        BY <2>4 DEF AsksFor
  <2>8. n + 1 \in 0..AsksOf(brought) /\ n + 1 # 0
        BY <1>2, <1>3, <1>5, <1>6
  <2>9. Asking(d, m, n + 1)
    <3>1. Len(d.next) = AsksOf(brought) - (n + 1)
          BY <1>2, <1>3, <1>5, <2>2, <2>6 DEF more
    <3>2. ASSUME NEW k \in 1..Len(d.next) PROVE AsksFor(d.next[k], cache, brought, (n + 1) + k)
      <4>1. k + 1 \in 1..Len(next) /\ n + (k + 1) = (n + 1) + k /\ k \in 1..Len(more)
            BY <1>2, <1>3, <1>5, <2>6, <3>1
      <4>2. d.next[k] = next[k + 1]
            BY <2>2, <2>6, <4>1 DEF more
      <4>3. AsksFor(next[k + 1], cache, brought, n + (k + 1))
            BY <1>2, <4>1
      <4>4. QED BY <4>1, <4>2, <4>3
    <3>3. d.later = SubSeq(cache, m + 1, Len(cache))
          BY <1>2, <2>6 DEF later
    <3>4. d.asked.cache = cache /\ AsksFor(d.asked, cache, brought, n + 1)
          BY <2>4, <2>6, <2>7
    <3>5. QED BY <1>2, <2>8, <3>1, <3>2, <3>3, <3>4 DEF Asking, brought
  <2>10. n <= Len(brought.tags)
        BY <1>2, <1>3, <1>5, <1>6
  <2>11. HasInHand(d, rows, aisles, m, n)
        BY <1>4, <2>6, <2>7, <2>10 DEF HasInHand
  <2>12. d.plan # <<>> /\ Doing(d, rows, aisles, m, n + 1)
    <3>1. CASE n + 1 <= Len(brought.tags)
      <4>1. d.plan = FilePlan
            BY <2>4, <2>6, <3>1, BroughtPlans DEF AsksFor
      <4>2. (n + 1) - 1 = n /\ d.asked.cache[m] = brought
            BY <1>5, <2>6, <2>7 DEF brought
      <4>3. FilePlan # <<>>
            BY DEF FilePlan
      <4>4. QED BY <2>8, <2>11, <3>1, <4>1, <4>2, <4>3 DEF Doing, FilingIn
    <3>2. CASE ~(n + 1 <= Len(brought.tags))
      <4>1. d.plan = TickPlan /\ d.crossed
            BY <2>4, <2>6, <3>2, BroughtPlans DEF AsksFor
      <4>2. n = Len(brought.tags) /\ d.asked.cache[m] = brought
            BY <1>3, <1>5, <2>6, <2>7, <2>10, <3>2 DEF brought
      <4>3. TickPlan # <<>>
            BY DEF TickPlan
      <4>4. QED BY <2>8, <2>11, <3>2, <4>1, <4>2, <4>3 DEF Doing, Ticking
    <3>3. QED BY <3>1, <3>2
  <2>13. BringsOn(d, rows, aisles)
    <3>1. m \in 1..Len(d.asked.cache) /\ n + 1 \in 0..AsksOf(d.asked.cache[m])
          BY <1>2, <2>6, <2>7, <2>8 DEF brought
    <3>2. QED BY <2>9, <2>12, <3>1 DEF BringsOn, BringsAt
  <2>14. QED BY <2>5, <2>6, <2>7, <2>12, <2>13
<1>7. CASE n = AsksOf(brought)
  <2>1. next = <<>>
        BY <1>1, <1>2, <1>3, <1>7
  <2>2. Onward(w) = BringNext(w.asked, SubSeq(cache, m + 1, Len(cache)))
        BY <1>2, <2>1 DEF Onward, next
  <2>3. HeldFor(rows, aisles, cache, m, {})
    <3>1. CASE brought.done
          BY <1>3, <1>4, <1>7, <3>1
    <3>2. CASE ~brought.done
      <4>1. n = Len(brought.tags)
            BY <1>3, <1>7, <3>2
      <4>2. HasInHand(w, rows, aisles, m, Len(brought.tags))
            BY <1>3, <1>4, <4>1
      <4>3. QED BY <1>1, <1>2, <3>2, <4>2, RowFinished DEF HasInHand, brought
    <3>3. QED BY <3>1, <3>2
  <2> DEFINE a == w.asked
             d == BringNext(a, SubSeq(cache, m + 1, Len(cache)))
  <2>4. a \in Asked /\ m \in 0..Len(a.cache) /\ a.cache = cache
        BY <1>1, <1>2
  <2>5. /\ m = Len(cache) => d = NoWork
        /\ m # Len(cache) =>
              d.plan # <<>> /\ d.asked.cache = cache /\ BringsAt(d, rows, aisles, m + 1, 0)
    <3> HIDE DEF a
    <3>1. QED BY <2>3, <2>4, NextBrought
  <2>6. CASE m = Len(cache)
        BY <2>2, <2>3, <2>5, <2>6
  <2>7. CASE m # Len(cache)
    <3>1. BringsAt(d, rows, aisles, m + 1, 0) /\ d.asked.cache = cache /\ d.plan # <<>>
          BY <2>5, <2>7
    <3> HIDE DEF d
    <3>2. m + 1 \in 1..Len(d.asked.cache) /\ 0 \in 0..AsksOf(d.asked.cache[m + 1])
          BY <3>1 DEF BringsAt, Asking
    <3>3. BringsOn(d, rows, aisles)
          BY <3>1, <3>2 DEF BringsOn
    <3>4. QED BY <2>2, <3>1, <3>3 DEF d
  <2>8. QED BY <2>6, <2>7
<1>8. QED BY <1>6, <1>7

LEMMA ImportPlans ==
    /\ Head(CreatePlan) = "seek" /\ Tail(CreatePlan) = AfterMaking
    /\ Head(ToMake) = "insert" /\ Tail(ToMake) = AfterMaking
    /\ Head(ToTakeUp) = "put_back" /\ Tail(ToTakeUp) = AfterMaking
    /\ Head(AfterMaking) = "record" /\ Tail(AfterMaking) = ToPrune
    /\ Head(ToPrune) = "prune" /\ Tail(ToPrune) = <<>>
    /\ Head(TickPlan) = "look" /\ Tail(TickPlan) = ToTick
    /\ Head(ToTick) = "tick" /\ Tail(ToTick) = <<>>
    /\ CreatePlan # <<>> /\ ToMake # <<>> /\ ToTakeUp # <<>> /\ AfterMaking # <<>>
    /\ ToPrune # <<>> /\ TickPlan # <<>> /\ ToTick # <<>> /\ FilePlan # <<>>
    /\ ToAttach # <<>> /\ AfterFiling # <<>> /\ ToRemember # <<>>
BY DEF CreatePlan, ToMake, ToTakeUp, AfterMaking, ToPrune, TickPlan, ToTick, FilePlan, ToAttach,
       AfterFiling, ToRemember

LEMMA MakingBehind ==
    <<"insert">> \o AfterMaking = ToMake /\ <<"put_back">> \o AfterMaking = ToTakeUp
<1>1. ASSUME NEW s \in {"insert", "put_back"}
      PROVE  <<s>> \o AfterMaking = <<s, "record", "prune">>
  <2> DEFINE one == <<s>>
             p == one \o AfterMaking
             q == <<s, "record", "prune">>
  <2>1. one \in Seq(Steps) /\ Len(one) = 1 /\ one[1] = s
        BY DEF Steps
  <2>2. AfterMaking \in Seq(Steps) /\ Len(AfterMaking) = 2
        BY DEF AfterMaking, Steps
  <2>3. /\ q \in Seq(Steps) /\ Len(q) = 3
        /\ \A i \in 1..3 : q[i] = IF i <= 1 THEN s ELSE AfterMaking[i - 1]
        BY DEF AfterMaking, Steps
  <2> HIDE DEF one, q
  <2>4. /\ p \in Seq(Steps) /\ Len(p) = Len(one) + Len(AfterMaking)
        /\ \A i \in 1..Len(one) + Len(AfterMaking) :
              p[i] = IF i <= Len(one) THEN one[i] ELSE AfterMaking[i - Len(one)]
        BY <2>1, <2>2, ConcatProperties
  <2> HIDE DEF p
  <2>5. Len(p) = 3 /\ \A i \in 1..3 : p[i] = IF i <= 1 THEN s ELSE AfterMaking[i - 1]
        BY <2>1, <2>2, <2>4
  <2>6. Len(p) = Len(q) /\ \A i \in 1..Len(p) : p[i] = q[i]
        BY <2>3, <2>5
  <2>7. p = q
        BY <2>3, <2>4, <2>6, SeqEqual
  <2>8. QED BY <2>7 DEF p, one, q
<1>2. QED BY <1>1 DEF ToMake, ToTakeUp

(* Which statement is which of an import.                                  *)
LEMMA ImportStepAt ==
    ASSUME NEW c \in Callers, Step(c)
    PROVE  /\ At(c, "seek") => Seek(c)
           /\ At(c, "insert") => Insert(c)
           /\ At(c, "put_back") => PutBack(c)
           /\ At(c, "record") => Record(c)
           /\ At(c, "prune") => Prune(c)
           /\ At(c, "look") => Look(c)
           /\ At(c, "attach") => Attach(c)
           /\ At(c, "held") => Held(c)
           /\ At(c, "remember") => Remember(c)
           /\ At(c, "tick") => CrossOff(c)
<1>1. \A s, t : At(c, s) /\ At(c, t) => s = t
      BY DEF At
<1>2. /\ Rewrite(c) => At(c, "rewrite")
      /\ Turn(c) => At(c, "turn")
      /\ Drop(c) => At(c, "drop")
      /\ Sweep(c) => At(c, "sweep")
      /\ Clear(c) => At(c, "clear")
      /\ Forget(c) => At(c, "forget")
      BY DEF Rewrite, Turn, Drop, Sweep, Clear, Forget
<1>3. At(c, "tick") => CrossOff(c)
  <2>1. /\ RecallEntry(c) => At(c, "recall")
        /\ Seek(c) => At(c, "seek")
        /\ Insert(c) => At(c, "insert")
        /\ PutBack(c) => At(c, "put_back")
        /\ Record(c) => At(c, "record")
        /\ Prune(c) => At(c, "prune")
        BY DEF RecallEntry, Seek, Insert, PutBack, Record, Prune
  <2>2. /\ FiledBefore(c) => At(c, "filed_before")
        /\ FileOne(c) => At(c, "file_one")
        /\ Look(c) => At(c, "look")
        /\ Attach(c) => At(c, "attach")
        /\ Detach(c) => At(c, "detach")
        /\ Held(c) => At(c, "held")
        /\ Remember(c) => At(c, "remember")
        BY DEF FiledBefore, FileOne, Look, Attach, Detach, Held, Remember
  <2>3. /\ Shelve(c) => At(c, "shelve")
        /\ Raze(c) => At(c, "raze")
        /\ OwnOrder(c) => At(c, "own")
        /\ Inherit(c) => At(c, "others")
        /\ AllAisles(c) => At(c, "all")
        /\ Check(c) => At(c, "check")
        /\ Lay(c) => At(c, "lay")
        BY DEF Shelve, Raze, OwnOrder, Inherit, AllAisles, Check, Lay
  <2>4. /\ ReadRows(c) => At(c, "rows")
        /\ ReadFiled(c) => At(c, "filed")
        /\ Show(c) => At(c, "show")
        BY DEF ReadRows, ReadFiled, Show
  <2>5. QED BY <1>1, <1>2, <2>1, <2>2, <2>3, <2>4 DEF Step
<1>4. QED BY <1>1, <1>3, StepAt

LEMMA Importing ==
    ASSUME ShoppingInv, NEW c \in Callers, Busy(c), NEW m, NEW n, Asking(work[c], m, n)
    PROVE  LET w == work[c]
               cache == work[c].asked.cache
           IN /\ WorkOK(w) /\ w.plan # <<>> /\ w \in Works({w.walk}) /\ w.row \in RowIds
              /\ w.name \in Names /\ w.amount \in Nat \ {0} /\ w.unit \in Maybe(Known)
              /\ cache \in Seq(Incoming) /\ m \in 1..Len(cache) /\ m \in Nat \ {0} /\ n \in Nat
              /\ cache[m] \in Incoming /\ cache[m].tags \in Seq(TagIds)
              /\ cache[m].name \in Names /\ cache[m].done \in BOOLEAN
              /\ items = [i \in RowIds |-> items[i]] /\ Listed = There(items)
              /\ \A i \in There(items) : /\ i \in RowIds /\ Present(i) /\ items[i] # None
                                         /\ items[i] \in Rows
<1> DEFINE w == work[c]
           cache == w.asked.cache
<1>1. WorkOK(w) /\ w.plan # <<>>
      BY DEF ShoppingInv, Busy
<1>2. /\ w \in Works({w.walk}) /\ w.asked \in Asked /\ w.row \in RowIds /\ w.name \in Names
      /\ w.amount \in Nat \ {0} /\ w.unit \in Maybe(Known)
      BY <1>1, UnderWay
<1>3. cache \in Seq(Incoming)
      BY <1>2, AskedIs
<1>4. m \in 1..Len(cache) /\ n \in 0..AsksOf(cache[m])
      BY DEF Asking
<1>5. /\ cache[m] \in Incoming /\ cache[m].tags \in Seq(TagIds) /\ cache[m].name \in Names
      /\ cache[m].done \in BOOLEAN
      BY <1>3, <1>4, CacheIs
<1>6. m \in Nat \ {0} /\ n \in Nat
      BY <1>3, <1>4, <1>5, AsksAre
<1>7. items = [i \in RowIds |-> items[i]]
      BY DEF ShoppingInv, StoreOK, ItemsOK
<1>8. Listed = There(items)
      BY DEF Listed, Present, There
<1>9. \A i \in There(items) : /\ i \in RowIds /\ Present(i) /\ items[i] # None
                              /\ items[i] \in Rows
      BY RowIs DEF There, Present
<1>10. QED BY <1>1, <1>2, <1>3, <1>4, <1>5, <1>6, <1>7, <1>8, <1>9

(* What a statement of an import leads to.                                 *)
TurnsOut(c) ==
    /\ Aisles' = Aisles
    /\ \/ /\ Busy(c)' /\ Ask(c)'.cache = Ask(c).cache
          /\ BringsOn(work'[c], items', Aisles)
       \/ /\ work'[c] = NoWork
          /\ HeldFor(items', Aisles, Ask(c).cache, Len(Ask(c).cache), {})

LEMMA TurnsTo ==
    ASSUME ShoppingInv, NEW c \in Callers, Busy(c), NEW m, NEW n, Asking(work[c], m, n),
           NEW d, Becomes(c, d), UNCHANGED shelf, d.plan # <<>>, d.asked = work[c].asked,
           d.next = work[c].next, d.later = work[c].later, Doing(d, items', Aisles, m, n)
    PROVE  TurnsOut(c)
<1>1. work'[c] = d /\ Aisles' = Aisles
      BY DEF Becomes, ShoppingInv, Aisles
<1>2. Busy(c)' /\ Ask(c)' = Ask(c)
      BY <1>1 DEF Busy, Ask
<1>3. Asking(d, m, n)
      BY DEF Asking
<1>4. m \in 1..Len(d.asked.cache) /\ n \in 0..AsksOf(d.asked.cache[m])
      BY <1>3 DEF Asking
<1>5. BringsOn(d, items', Aisles)
      BY <1>3, <1>4 DEF BringsOn, BringsAt
<1>6. QED BY <1>1, <1>2, <1>5 DEF TurnsOut

LEMMA TurnsOver ==
    ASSUME ShoppingInv, NEW c \in Callers, Busy(c), NEW m, NEW n, Asking(work[c], m, n),
           Finish(c), UNCHANGED shelf, DoneWith(work[c], items', Aisles, m, n)
    PROVE  TurnsOut(c)
<1> DEFINE w == work[c]
<1>1. work'[c] = Onward(w) /\ Aisles' = Aisles
      BY DEF Finish, Becomes, ShoppingInv, Aisles
<1>2. WorkOK(w) /\ w.plan # <<>> /\ Asking(w, m, n) /\ DoneWith(w, items', Aisles, m, n)
      BY Importing
<1> DEFINE rows == items'
           d == Onward(w)
<1>3. \/ d.plan # <<>> /\ d.asked.cache = w.asked.cache /\ BringsOn(d, rows, Aisles)
      \/ d = NoWork /\ HeldFor(rows, Aisles, w.asked.cache, Len(w.asked.cache), {})
  <2>1. DoneWith(w, rows, Aisles, m, n)
        BY <1>2
  <2> HIDE DEF w, rows
  <2>2. QED BY <1>2, <2>1, GoesOnward
<1>4. QED BY <1>1, <1>3 DEF TurnsOut, Busy, Ask

(* What an import is about, by the statement it is at.                     *)
LEMMA MakingAt ==
    ASSUME NEW c \in Callers, NEW m, NEW n, NEW rows, NEW aisles, Doing(work[c], rows, aisles, m, n),
           At(c, "seek") \/ At(c, "insert") \/ At(c, "put_back") \/ At(c, "record") \/ At(c, "prune")
    PROVE  n = 0 /\ Adding(work[c], rows, aisles, m)
<1>1. \A s : At(c, s) => Head(work[c].plan) = s
      BY DEF At
<1>2. CASE n = 0
      BY <1>2 DEF Doing
<1>3. CASE n # 0
      BY <1>1, <1>3, ImportPlans, FiledPlans DEF Doing, FilingIn, Ticking
<1>4. QED BY <1>2, <1>3

LEMMA SeekingAt ==
    ASSUME NEW c \in Callers, NEW m, NEW n, NEW rows, NEW aisles, Doing(work[c], rows, aisles, m, n),
           At(c, "seek") \/ At(c, "insert")
    PROVE  LET w == work[c]
               brought == w.asked.cache[m]
           IN /\ n = 0 /\ Rest(c) = AfterMaking
              /\ w.name = brought.name /\ w.amount = brought.amount
              /\ w.unit = MeasuredOrCounted(brought.unit)
              /\ HeldFor(rows, aisles, w.asked.cache, m - 1, {})
              /\ At(c, "insert") => \A i \in There(rows) : ~SaysIt(rows[i], brought)
<1>1. \A s : At(c, s) => Head(work[c].plan) = s
      BY DEF At
<1>2. n = 0 /\ Adding(work[c], rows, aisles, m)
      BY MakingAt
<1>3. QED BY <1>1, <1>2, ImportPlans DEF Adding, Rest

LEMMA TakingUpAt ==
    ASSUME NEW c \in Callers, NEW m, NEW n, NEW rows, NEW aisles, Doing(work[c], rows, aisles, m, n),
           At(c, "put_back")
    PROVE  LET w == work[c]
               brought == w.asked.cache[m]
           IN /\ n = 0 /\ Rest(c) = AfterMaking
              /\ w.row \in There(rows) /\ SaysIt(rows[w.row], brought)
              /\ HeldFor(rows, aisles, w.asked.cache, m - 1, {})
<1>1. \A s : At(c, s) => Head(work[c].plan) = s
      BY DEF At
<1>2. n = 0 /\ Adding(work[c], rows, aisles, m)
      BY MakingAt
<1>3. QED BY <1>1, <1>2, ImportPlans DEF Adding, Rest

LEMMA RecordingAt ==
    ASSUME NEW c \in Callers, NEW m, NEW n, NEW rows, NEW aisles, Doing(work[c], rows, aisles, m, n),
           At(c, "record")
    PROVE  n = 0 /\ HasInHand(work[c], rows, aisles, m, 0) /\ Rest(c) = ToPrune
<1>1. \A s : At(c, s) => Head(work[c].plan) = s
      BY DEF At
<1>2. n = 0 /\ Adding(work[c], rows, aisles, m)
      BY MakingAt
<1>3. QED BY <1>1, <1>2, ImportPlans DEF Adding, Rest

LEMMA PruningAt ==
    ASSUME NEW c \in Callers, NEW m, NEW n, BringsAt(work[c], items, Aisles, m, n), At(c, "prune")
    PROVE  n = 0 /\ HasInHand(work[c], items, Aisles, m, 0) /\ Rest(c) = <<>>
<1>1. \A s : At(c, s) => Head(work[c].plan) = s
      BY DEF At
<1>2. n = 0 /\ Adding(work[c], items, Aisles, m)
  <2>1. Doing(work[c], items, Aisles, m, n)
        BY DEF BringsAt
  <2>2. QED BY <2>1, MakingAt
<1>3. QED BY <1>1, <1>2, ImportPlans DEF Adding, Rest

LEMMA FilingAt ==
    ASSUME NEW c \in Callers, NEW m, NEW n, NEW rows, NEW aisles, Doing(work[c], rows, aisles, m, n),
           At(c, "look") \/ At(c, "attach") \/ At(c, "held") \/ At(c, "remember") \/ At(c, "tick")
    PROVE  LET w == work[c]
               tags == w.asked.cache[m].tags
           IN /\ n # 0
              /\ At(c, "look") =>
                    \/ n <= Len(tags) /\ Rest(c) = ToAttach
                       /\ HasInHand(w, rows, aisles, m, n - 1)
                    \/ ~(n <= Len(tags)) /\ Rest(c) = ToTick
                       /\ Ticking(w, rows, aisles, m, Len(tags))
              /\ At(c, "attach") =>
                    /\ n <= Len(tags) /\ Rest(c) = AfterFiling
                    /\ HasInHand(w, rows, aisles, m, n - 1)
              /\ At(c, "held") =>
                    /\ n <= Len(tags) /\ Rest(c) = ToRemember
                    /\ HasInHand(w, rows, aisles, m, n)
              /\ At(c, "remember") =>
                    n <= Len(tags) /\ HasInHand(w, rows, aisles, m, n)
              /\ At(c, "tick") =>
                    ~(n <= Len(tags)) /\ w.crossed /\ HasInHand(w, rows, aisles, m, Len(tags))
<1>1. \A s : At(c, s) => Head(work[c].plan) = s
      BY DEF At
<1>2. n # 0
      BY <1>1, ImportPlans DEF Doing, Adding
<1>3. CASE n <= Len(work[c].asked.cache[m].tags)
      BY <1>1, <1>2, <1>3, ImportPlans, FiledPlans DEF Doing, FilingIn, Rest
<1>4. CASE ~(n <= Len(work[c].asked.cache[m].tags))
      BY <1>1, <1>2, <1>4, ImportPlans DEF Doing, Ticking, Rest
<1>5. QED BY <1>2, <1>3, <1>4

(* Each statement of an import.                                            *)
LEMMA SeekBrings ==
    ASSUME ShoppingInv, NEW c \in Callers, NEW m, NEW n,
           BringsAt(work[c], items, Aisles, m, n), Seek(c)
    PROVE  TurnsOut(c)
<1> DEFINE w == work[c]
           cache == w.asked.cache
           like == Alike(RowsNow, work[c].name, work[c].unit)
           i == Pick(RowsNow, like)
           d1 == [w EXCEPT !.plan = <<"insert">> \o Rest(c)]
           d2 == [w EXCEPT !.row = i, !.plan = <<"put_back">> \o Rest(c)]
           d3 == [w EXCEPT !.row = i, !.name = items[i].name, !.amount = items[i].amount,
                     !.plan = Rest(c)]
<1>0. At(c, "seek") /\ Doing(w, items, Aisles, m, n)
      BY DEF Seek, BringsAt, At
<1>1. /\ At(c, "seek") /\ Busy(c) /\ Asking(w, m, n) /\ Doing(w, items, Aisles, m, n)
      /\ IF like = {} THEN Only(c, d1) ELSE IF items[i].done THEN Only(c, d2) ELSE Only(c, d3)
      BY DEF Seek, BringsAt, At
<1>2. /\ n = 0 /\ Rest(c) = AfterMaking /\ w.name = cache[m].name
      /\ w.amount = cache[m].amount /\ w.unit = MeasuredOrCounted(cache[m].unit)
      /\ HeldFor(items, Aisles, cache, m - 1, {})
  <2>1. n = 0
        BY <1>0, MakingAt
  <2>2. Rest(c) = AfterMaking
        BY <1>0, SeekingAt
  <2>3. /\ w.name = cache[m].name /\ w.amount = cache[m].amount
        /\ w.unit = MeasuredOrCounted(cache[m].unit)
        BY <1>0, SeekingAt
  <2>4. HeldFor(items, Aisles, cache, m - 1, {})
        BY <1>0, SeekingAt
  <2>5. QED BY <2>1, <2>2, <2>3, <2>4
<1>3. /\ w \in Works({w.walk}) /\ cache \in Seq(Incoming) /\ m \in 1..Len(cache)
      /\ m \in Nat \ {0} /\ cache[m] \in Incoming /\ Listed = There(items)
      /\ \A j \in There(items) : j \in RowIds /\ items[j] \in Rows
      BY <1>1, Importing
<1>4. /\ Rest(c) = AfterMaking
      /\ <<"insert">> \o Rest(c) = ToMake /\ <<"put_back">> \o Rest(c) = ToTakeUp
      BY <1>2, MakingBehind
<1>5. like = {j \in There(items) : SaysIt(items[j], cache[m])}
  <2>1. DOMAIN RowsNow = Listed /\ \A j \in Listed : RowsNow[j] = items[j]
        BY DEF RowsNow
  <2>2. QED BY <1>2, <1>3, <2>1 DEF Alike, SaysIt
<1>6. like # {} => i \in There(items) /\ SaysIt(items[i], cache[m])
  <2>1. like \subseteq Nat /\ \A j \in like : RowsNow[j].done \in BOOLEAN
    <3>1. \A j \in Listed : RowsNow[j] = items[j]
          BY DEF RowsNow
    <3>2. \A j \in There(items) : items[j].done \in BOOLEAN /\ j \in Nat
          BY <1>3 DEF Rows, RowIds
    <3>3. QED BY <1>3, <1>5, <3>1, <3>2
  <2> HIDE DEF like
  <2>2. like # {} => i \in like
        BY <2>1, PickIs
  <2>3. QED BY <1>5, <2>2
<1>7. Only(c, d1) \/ Only(c, d2) \/ Only(c, d3) => UNCHANGED shelf /\ items' = items
      BY DEF Only, tables
<1> HIDE DEF like, i, w
<1>8. CASE like = {}
  <2>1. /\ d1.plan = ToMake /\ d1.asked = w.asked /\ d1.next = w.next /\ d1.later = w.later
        /\ d1.name = w.name /\ d1.amount = w.amount /\ d1.unit = w.unit
        BY <1>3, <1>4 DEF Works
  <2>2. Only(c, d1)
        BY <1>1, <1>8
  <2> HIDE DEF d1
  <2>3. \A j \in There(items) : ~SaysIt(items[j], cache[m])
        BY <1>5, <1>8
  <2>4. Doing(d1, items, Aisles, m, n)
        BY <1>2, <2>1, <2>3 DEF Doing, Adding
  <2>5. QED BY <1>1, <1>7, <2>1, <2>2, <2>4, ImportPlans, TurnsTo DEF w, Only
<1>9. CASE like # {} /\ items[i].done
  <2>1. /\ d2.plan = ToTakeUp /\ d2.asked = w.asked /\ d2.next = w.next /\ d2.later = w.later
        /\ d2.row = i
        BY <1>3, <1>4 DEF Works
  <2>2. Only(c, d2)
        BY <1>1, <1>9
  <2> HIDE DEF d2
  <2>3. Doing(d2, items, Aisles, m, n)
        BY <1>2, <1>6, <1>9, <2>1 DEF Doing, Adding
  <2>4. QED BY <1>1, <1>7, <2>1, <2>2, <2>3, ImportPlans, TurnsTo DEF w, Only
<1>10. CASE like # {} /\ ~items[i].done
  <2>1. /\ d3.plan = AfterMaking /\ d3.asked = w.asked /\ d3.next = w.next
        /\ d3.later = w.later /\ d3.row = i
        BY <1>3, <1>4 DEF Works
  <2>2. Only(c, d3)
        BY <1>1, <1>10
  <2> HIDE DEF d3
  <2>3. i \in There(items) /\ SaysIt(items[i], cache[m]) /\ items[i] \in Rows
        BY <1>3, <1>6, <1>10
  <2>4. HeldFor(items, Aisles, cache, m, {i})
        BY <1>2, <1>3, <2>3, HeldTurns
  <2>5. RowDone(items[i], NotDone) = InHandAs(cache, m, 0, Aisles)
        BY <1>2, <1>3, <2>3, HandFound
  <2>6. items[i].done = NotDone
        BY <1>10, <2>3 DEF Rows, NotDone
  <2>7. RowDone(items[i], NotDone) = items[i]
        BY <2>3, <2>6 DEF Rows, RowDone
  <2>8. HasInHand(d3, items, Aisles, m, 0)
        BY <2>1, <2>3, <2>4, <2>5, <2>7 DEF HasInHand
  <2>9. Doing(d3, items, Aisles, m, n)
        BY <1>2, <2>1, <2>8 DEF Doing, Adding
  <2>10. QED BY <1>1, <1>7, <2>1, <2>2, <2>9, ImportPlans, TurnsTo DEF w, Only
<1>11. QED BY <1>8, <1>9, <1>10

LEMMA InsertBrings ==
    ASSUME ShoppingInv, NEW c \in Callers, NEW m, NEW n,
           BringsAt(work[c], items, Aisles, m, n), Insert(c)
    PROVE  TurnsOut(c)
<1> DEFINE w == work[c]
           cache == w.asked.cache
           row == [name |-> Capitalised(w.name), amount |-> w.amount, unit |-> w.unit,
                   done |-> FALSE, tags |-> {}]
           d(i) == [w EXCEPT !.row = i, !.name = Capitalised(@), !.plan = Rest(c)]
<1>1. /\ At(c, "insert") /\ Busy(c) /\ Asking(w, m, n) /\ Doing(w, items, Aisles, m, n)
      /\ UNCHANGED shelf
      BY DEF Insert, BringsAt, At
<1>2. PICK i \in RowIds : /\ NextAfter(Listed, i) /\ items' = [items EXCEPT ![i] = row]
                          /\ Becomes(c, d(i))
      BY DEF Insert
<1>3. /\ n = 0 /\ Rest(c) = AfterMaking /\ w.name = cache[m].name
      /\ w.amount = cache[m].amount /\ w.unit = MeasuredOrCounted(cache[m].unit)
      /\ HeldFor(items, Aisles, cache, m - 1, {})
      /\ \A j \in There(items) : ~SaysIt(items[j], cache[m])
  <2>1. n = 0
        BY <1>1, MakingAt
  <2>2. Rest(c) = AfterMaking
        BY <1>1, SeekingAt
  <2>3. /\ w.name = cache[m].name /\ w.amount = cache[m].amount
        /\ w.unit = MeasuredOrCounted(cache[m].unit)
        BY <1>1, SeekingAt
  <2>4. HeldFor(items, Aisles, cache, m - 1, {})
        BY <1>1, SeekingAt
  <2>5. \A j \in There(items) : ~SaysIt(items[j], cache[m])
        BY <1>1, SeekingAt
  <2>6. QED BY <2>1, <2>2, <2>3, <2>4, <2>5
<1>4. /\ w \in Works({w.walk}) /\ cache \in Seq(Incoming) /\ m \in 1..Len(cache)
      /\ m \in Nat \ {0} /\ cache[m] \in Incoming /\ Listed = There(items)
      /\ items = [j \in RowIds |-> items[j]]
      /\ w.name \in Names /\ w.amount \in Nat \ {0} /\ w.unit \in Maybe(Known)
      BY <1>1, Importing
<1>5. i \notin There(items)
      BY <1>2, <1>4 DEF NextAfter, RowIds
<1>6. row = InHandAs(cache, m, 0, Aisles)
  <2>1. InHandAs(cache, m, 0, Aisles) = RowOf(cache[m], NotDone, {})
        BY <1>3, <1>4, HandMade
  <2>2. QED BY <1>3, <2>1 DEF RowOf, NotDone
<1>7. row # None
  <2>1. Capitalised(w.name) \in Names
        BY <1>4, CapitalisedIsAName
  <2>2. row \in Rows
        BY <1>4, <2>1 DEF Rows
  <2>3. QED BY <2>2, ShoppingAssumption DEF ShoppingAssumption
<1> HIDE DEF row, w
<1>8. SaysIt(row, cache[m])
      BY <1>4, <1>6, HandSays
<1>9. /\ HeldFor(items', Aisles, cache, m, {i}) /\ i \in There(items') /\ items'[i] = row
  <2> DEFINE after == items'
             rows == items
  <2>1. after = [rows EXCEPT ![i] = row] /\ rows = [j \in RowIds |-> rows[j]]
        BY <1>2, <1>4
  <2>2. /\ HeldFor(rows, Aisles, cache, m - 1, {}) /\ i \notin There(rows)
        /\ \A j \in There(rows) : ~SaysIt(rows[j], cache[m])
        BY <1>3, <1>5
  <2> HIDE DEF after, rows
  <2>3. HeldFor(after, Aisles, cache, m, {i}) /\ i \in There(after) /\ after[i] = row
        BY <1>4, <1>7, <1>8, <2>1, <2>2, HeldGrows, ZenonT(60)
  <2>4. QED BY <2>3 DEF after
<1>10. /\ d(i).plan = AfterMaking /\ d(i).asked = w.asked /\ d(i).next = w.next
       /\ d(i).later = w.later /\ d(i).row = i
      BY <1>3, <1>4 DEF Works, w
<1> HIDE DEF d
<1>11. HasInHand(d(i), items', Aisles, m, 0)
      BY <1>6, <1>9, <1>10 DEF HasInHand
<1>12. Doing(d(i), items', Aisles, m, n)
      BY <1>3, <1>10, <1>11 DEF Doing, Adding
<1>13. QED BY <1>1, <1>2, <1>10, <1>12, ImportPlans, TurnsTo DEF w

LEMMA PutBackBrings ==
    ASSUME ShoppingInv, NEW c \in Callers, NEW m, NEW n,
           BringsAt(work[c], items, Aisles, m, n), PutBack(c)
    PROVE  TurnsOut(c)
<1> DEFINE w == work[c]
           cache == w.asked.cache
           i == work[c].row
           row == RowDone(items[i], NotDone)
           d == [w EXCEPT !.name = items[i].name, !.amount = items[i].amount, !.plan = Rest(c)]
<1>1. /\ At(c, "put_back") /\ Busy(c) /\ Asking(w, m, n) /\ Doing(w, items, Aisles, m, n)
      /\ UNCHANGED shelf
      BY DEF PutBack, BringsAt, At
<1>2. /\ n = 0 /\ Rest(c) = AfterMaking
      /\ i \in There(items) /\ SaysIt(items[i], cache[m])
      /\ HeldFor(items, Aisles, cache, m - 1, {})
      BY <1>1, TakingUpAt
<1>3. /\ w \in Works({w.walk}) /\ cache \in Seq(Incoming) /\ m \in 1..Len(cache)
      /\ m \in Nat \ {0} /\ cache[m] \in Incoming
      /\ items = [j \in RowIds |-> items[j]]
      /\ items[i] \in Rows /\ Present(i)
      BY <1>1, <1>2, Importing
<1>4. items' = [items EXCEPT ![i] = row] /\ Becomes(c, d)
      BY <1>3 DEF PutBack, BackOnTheList, RowDone, NotDone
<1>5. row = InHandAs(cache, m, 0, Aisles)
      BY <1>2, <1>3, HandFound
<1>6. row \in Rows /\ row # None /\ row.name = items[i].name /\ row.unit = items[i].unit
  <2>1. row \in Rows /\ row.name = items[i].name /\ row.unit = items[i].unit
        BY <1>3 DEF Rows, RowDone, NotDone
  <2>2. QED BY <2>1, ShoppingAssumption DEF ShoppingAssumption
<1>7. HeldFor(items, Aisles, cache, m, {i})
      BY <1>2, <1>3, HeldTurns
<1> HIDE DEF row, w
<1>8. HeldFor(items', Aisles, cache, m, {i}) /\ i \in There(items') /\ items'[i] = row
  <2> DEFINE after == items'
             rows == items
             r == i
  <2>1. after = [rows EXCEPT ![r] = row] /\ rows = [j \in RowIds |-> rows[j]]
        BY <1>3, <1>4
  <2>2. /\ HeldFor(rows, Aisles, cache, m, {r}) /\ r \in There(rows)
        /\ row.name = rows[r].name /\ row.unit = rows[r].unit
        BY <1>2, <1>6, <1>7
  <2> HIDE DEF after, rows, r
  <2>3. HeldFor(after, Aisles, cache, m, {r}) /\ r \in There(after) /\ after[r] = row
        BY <1>6, <2>1, <2>2, HeldMeanwhile
  <2>4. QED BY <2>3 DEF after, r
<1>9. /\ d.plan = AfterMaking /\ d.asked = w.asked /\ d.next = w.next
      /\ d.later = w.later /\ d.row = i
      BY <1>2, <1>3 DEF Works, w
<1> HIDE DEF d
<1>10. HasInHand(d, items', Aisles, m, 0)
      BY <1>5, <1>8, <1>9 DEF HasInHand
<1>11. Doing(d, items', Aisles, m, n)
      BY <1>2, <1>9, <1>10 DEF Doing, Adding
<1>12. QED BY <1>1, <1>4, <1>9, <1>11, ImportPlans, TurnsTo DEF w

LEMMA RecordBrings ==
    ASSUME ShoppingInv, NEW c \in Callers, NEW m, NEW n,
           BringsAt(work[c], items, Aisles, m, n), Record(c)
    PROVE  TurnsOut(c)
<1> DEFINE w == work[c]
           d == [w EXCEPT !.plan = Rest(c)]
<1>1. At(c, "record") /\ Doing(w, items, Aisles, m, n)
      BY DEF Record, BringsAt
<1>2. n = 0 /\ Rest(c) = ToPrune /\ HasInHand(w, items, Aisles, m, 0)
      BY <1>1, RecordingAt
<1>3. Busy(c) /\ Asking(w, m, n) /\ UNCHANGED shelf /\ items' = items
      BY DEF Record, BringsAt, At
<1>4. w \in Works({w.walk})
      BY <1>3, Importing
<1>5. Becomes(c, d)
      BY <1>2, ImportPlans DEF Record, Continue
<1>6. /\ d.plan = ToPrune /\ d.asked = w.asked /\ d.next = w.next /\ d.later = w.later
      /\ d.row = w.row
      BY <1>2, <1>4 DEF Works
<1> HIDE DEF d
<1>7. HasInHand(d, items', Aisles, m, 0)
      BY <1>2, <1>3, <1>6 DEF HasInHand
<1>8. Doing(d, items', Aisles, m, n)
      BY <1>2, <1>6, <1>7 DEF Doing, Adding
<1>9. QED BY <1>3, <1>5, <1>6, <1>8, ImportPlans, TurnsTo

LEMMA PruneBrings ==
    ASSUME ShoppingInv, NEW c \in Callers, NEW m, NEW n,
           BringsAt(work[c], items, Aisles, m, n), Prune(c)
    PROVE  TurnsOut(c)
<1> DEFINE w == work[c]
<1>1. At(c, "prune") /\ Doing(w, items, Aisles, m, n)
      BY DEF Prune, BringsAt
<1>2. n = 0 /\ Rest(c) = <<>> /\ HasInHand(w, items, Aisles, m, 0)
  <2>1. n = 0
        BY <1>1, MakingAt
  <2>2. HasInHand(w, items, Aisles, m, 0)
        BY <1>1, PruningAt
  <2>3. Rest(c) = <<>>
        BY <1>1, PruningAt
  <2>4. QED BY <2>1, <2>2, <2>3
<1>3. Busy(c) /\ Asking(w, m, n) /\ UNCHANGED shelf /\ items' = items
      BY DEF Prune, BringsAt, At
<1>4. w.asked.cache[m].tags \in Seq(TagIds)
      BY <1>3, Importing
<1>5. Finish(c)
      BY <1>2 DEF Prune
<1>6. DoneWith(w, items', Aisles, m, n)
  <2> DEFINE tags == w.asked.cache[m].tags
  <2>1. tags \in Seq(TagIds) /\ n = 0
        BY <1>2, <1>4
  <2> HIDE DEF tags
  <2>2. n <= Len(tags)
        BY <2>1
  <2>3. QED BY <1>2, <1>3, <2>2 DEF DoneWith, tags
<1>7. QED BY <1>3, <1>5, <1>6, TurnsOver

LEMMA LookBrings ==
    ASSUME ShoppingInv, NEW c \in Callers, NEW m, NEW n,
           BringsAt(work[c], items, Aisles, m, n), Look(c)
    PROVE  TurnsOut(c)
<1> DEFINE w == work[c]
           tags == w.asked.cache[m].tags
           d == [w EXCEPT !.plan = Rest(c), !.name = items[w.row].name, !.crossed = @]
<1>1. At(c, "look") /\ Doing(w, items, Aisles, m, n) /\ Busy(c) /\ Asking(w, m, n)
      BY DEF Look, BringsAt, At
<1>2. /\ n # 0
      /\ \/ n <= Len(tags) /\ Rest(c) = ToAttach /\ HasInHand(w, items, Aisles, m, n - 1)
         \/ ~(n <= Len(tags)) /\ Rest(c) = ToTick /\ Ticking(w, items, Aisles, m, Len(tags))
      BY <1>1, FilingAt
<1>3. w.asked.deed \in {"file", "tick"}
      BY <1>1, <1>2 DEF Asking, AsksFor
<1>4. Present(w.row)
  <2>1. w.row \in There(items)
        BY <1>2 DEF HasInHand, Ticking
  <2>2. QED BY <2>1 DEF There, Present
<1>5. w \in Works({w.walk})
      BY <1>1, Importing
<1>6. Becomes(c, d) /\ UNCHANGED shelf /\ items' = items
  <2>1. ~(Ask(c).deed = "edit") /\ ~(Ask(c).deed = "toggle")
        BY <1>3 DEF Ask
  <2>2. Only(c, d)
        BY <1>4, <2>1 DEF Look
  <2>3. QED BY <2>2 DEF Only, tables
<1>7. /\ d.plan = Rest(c) /\ d.asked = w.asked /\ d.next = w.next /\ d.later = w.later
      /\ d.row = w.row /\ d.crossed = w.crossed
      BY <1>5 DEF Works
<1> HIDE DEF d
<1>8. CASE n <= Len(tags)
  <2>1. HasInHand(d, items', Aisles, m, n - 1)
        BY <1>2, <1>6, <1>7, <1>8 DEF HasInHand
  <2>2. d.plan = ToAttach
        BY <1>2, <1>7, <1>8
  <2>3. Doing(d, items', Aisles, m, n)
        BY <1>2, <1>7, <1>8, <2>1, <2>2 DEF Doing, FilingIn
  <2>4. QED BY <1>1, <1>6, <1>7, <2>2, <2>3, ImportPlans, TurnsTo
<1>9. CASE ~(n <= Len(tags))
  <2>1. HasInHand(d, items', Aisles, m, Len(tags)) /\ d.crossed
        BY <1>2, <1>6, <1>7, <1>9 DEF HasInHand, Ticking
  <2>2. d.plan = ToTick
        BY <1>2, <1>7, <1>9
  <2>3. Doing(d, items', Aisles, m, n)
        BY <1>2, <1>7, <1>9, <2>1, <2>2 DEF Doing, Ticking
  <2>4. QED BY <1>1, <1>6, <1>7, <2>2, <2>3, ImportPlans, TurnsTo
<1>10. QED BY <1>8, <1>9

LEMMA AttachBrings ==
    ASSUME ShoppingInv, NEW c \in Callers, NEW m \in Nat, NEW n \in Nat,
           BringsAt(work[c], items, Aisles, m, n), Attach(c)
    PROVE  TurnsOut(c)
<1> DEFINE w == work[c]
           cache == w.asked.cache
           i == work[c].row
           t == cache[m].tags[n]
           row == RowUnder(items[i], items[i].tags \cup {t})
           d == [w EXCEPT !.plan = Rest(c)]
<1>1. At(c, "attach") /\ Doing(w, items, Aisles, m, n) /\ Busy(c) /\ Asking(w, m, n)
      BY DEF Attach, BringsAt, At
<1>2. n # 0 /\ n <= Len(cache[m].tags) /\ Rest(c) = AfterFiling
      /\ HasInHand(w, items, Aisles, m, n - 1)
      BY <1>1, FilingAt
<1>3. w.asked.deed = "file" /\ Ask(c).tag = t
      BY <1>1, <1>2 DEF Asking, AsksFor, Ask
<1>4. /\ w \in Works({w.walk}) /\ cache \in Seq(Incoming) /\ m \in 1..Len(cache)
      /\ n \in Nat /\ cache[m].tags \in Seq(TagIds) /\ items = [j \in RowIds |-> items[j]]
      /\ \A j \in There(items) : j \in RowIds /\ Present(j) /\ items[j] \in Rows
      BY <1>1, Importing
<1>5. n \in 1..Len(cache[m].tags) /\ t \in TagIds
      BY <1>2, <1>4
<1>6. /\ i \in There(items) /\ items[i] = InHandAs(cache, m, n - 1, Aisles)
      /\ HeldFor(items, Aisles, cache, m, {i})
      BY <1>2 DEF HasInHand
<1>7. Present(i) /\ i \in RowIds /\ items[i] \in Rows
      BY <1>4, <1>6
<1>8. /\ t \in Aisles => row = InHandAs(cache, m, n, Aisles)
      /\ t \in items[i].tags \/ t \notin Aisles => items[i] = InHandAs(cache, m, n, Aisles)
  <2> DEFINE old == items[i]
             aisles == Aisles
             kept == cache
  <2>1. /\ old = InHandAs(kept, m, n - 1, aisles) /\ kept \in Seq(Incoming)
        /\ m \in 1..Len(kept) /\ n \in 1..Len(kept[m].tags)
        BY <1>4, <1>5, <1>6
  <2>2. t = kept[m].tags[n]
        BY DEF kept
  <2>3. old \in Rows /\ row = RowUnder(old, old.tags \cup {t})
        BY <1>7
  <2> HIDE DEF w, cache, d, row, t, old, aisles, kept
  <2>4. InHandAs(kept, m, n, aisles) = RowUnder(old, old.tags \cup ({t} \cap aisles))
        BY <2>1, <2>2, HandFiled
  <2>5. ASSUME t \in aisles PROVE row = InHandAs(kept, m, n, aisles)
    <3>1. {t} \cap aisles = {t}
          BY <2>5
    <3>2. QED BY <2>3, <2>4, <3>1
  <2>6. ASSUME t \in old.tags \/ t \notin aisles PROVE old = InHandAs(kept, m, n, aisles)
    <3>1. old.tags \cup ({t} \cap aisles) = old.tags
          BY <2>6
    <3>2. RowUnder(old, old.tags) = old
          BY <2>3 DEF Rows, RowUnder
    <3>3. QED BY <2>4, <3>1, <3>2
  <2>7. QED BY <2>5, <2>6 DEF old, aisles, kept
<1>9. UNCHANGED shelf
      BY DEF Attach
<1>10. CASE MayAttach(i, t)
  <2>1. t \in Aisles
        BY <1>5, <1>10 DEF MayAttach, Aisles
  <2>2. items' = [items EXCEPT ![i] = row] /\ Becomes(c, d)
        BY <1>3, <1>4, <1>6, <1>7, <1>10 DEF Attach, WithTag, Continue, RowUnder
  <2>3. row # None /\ row.name = items[i].name /\ row.unit = items[i].unit
    <3>1. row.name = items[i].name /\ row.unit = items[i].unit /\ row \in Rows
          BY <1>5, <1>7 DEF Rows, RowUnder
    <3>2. QED BY <3>1, ShoppingAssumption DEF ShoppingAssumption
  <2>4. row = InHandAs(cache, m, n, Aisles)
        BY <1>8, <2>1
  <2> HIDE DEF row
  <2>5. HeldFor(items', Aisles, cache, m, {i}) /\ i \in There(items') /\ items'[i] = row
    <3> DEFINE after == items'
               rows == items
               r == i
    <3>1. after = [rows EXCEPT ![r] = row] /\ rows = [j \in RowIds |-> rows[j]]
          BY <1>4, <2>2
    <3>2. /\ HeldFor(rows, Aisles, cache, m, {r}) /\ r \in There(rows)
          /\ row.name = rows[r].name /\ row.unit = rows[r].unit
          BY <1>6, <2>3
    <3> HIDE DEF after, rows, r
    <3>3. HeldFor(after, Aisles, cache, m, {r}) /\ r \in There(after) /\ after[r] = row
          BY <2>3, <3>1, <3>2, HeldMeanwhile
    <3>4. QED BY <3>3 DEF after, r
  <2>6. /\ d.plan = AfterFiling /\ d.asked = w.asked /\ d.next = w.next
        /\ d.later = w.later /\ d.row = i
        BY <1>2, <1>4 DEF Works
  <2> HIDE DEF d
  <2>7. HasInHand(d, items', Aisles, m, n)
        BY <2>4, <2>5, <2>6 DEF HasInHand
  <2>8. Doing(d, items', Aisles, m, n)
        BY <1>2, <2>6, <2>7 DEF Doing, FilingIn
  <2>9. QED BY <1>1, <1>9, <2>2, <2>6, <2>8, ImportPlans, TurnsTo
<1>11. CASE ~MayAttach(i, t)
  <2>1. items' = items /\ Finish(c)
        BY <1>3, <1>11 DEF Attach, GiveUp, AfterAnError, Finish
  <2>2. t \in items[i].tags \/ t \notin Aisles
        BY <1>7, <1>11 DEF MayAttach, Aisles
  <2>3. HasInHand(w, items', Aisles, m, n)
        BY <1>6, <1>8, <2>1, <2>2 DEF HasInHand
  <2>4. DoneWith(w, items', Aisles, m, n)
        BY <1>2, <2>3 DEF DoneWith
  <2>5. QED BY <1>1, <1>9, <2>1, <2>4, TurnsOver
<1>12. QED BY <1>10, <1>11

LEMMA HeldBrings ==
    ASSUME ShoppingInv, NEW c \in Callers, NEW m, NEW n,
           BringsAt(work[c], items, Aisles, m, n), Held(c)
    PROVE  TurnsOut(c)
<1> DEFINE w == work[c]
           d == [w EXCEPT !.left = HeldByTheRow(c), !.plan = Rest(c)]
<1>1. At(c, "held") /\ Doing(w, items, Aisles, m, n) /\ Busy(c) /\ Asking(w, m, n)
      BY DEF Held, BringsAt, At
<1>2. /\ n # 0 /\ n <= Len(w.asked.cache[m].tags) /\ Rest(c) = ToRemember
      /\ HasInHand(w, items, Aisles, m, n)
      BY <1>1, FilingAt
<1>3. w \in Works({w.walk})
      BY <1>1, Importing
<1>4. Becomes(c, d) /\ UNCHANGED shelf /\ items' = items
      BY DEF Held, Only, tables
<1>5. /\ d.plan = ToRemember /\ d.asked = w.asked /\ d.next = w.next
      /\ d.later = w.later /\ d.row = w.row
      BY <1>2, <1>3 DEF Works
<1> HIDE DEF d
<1>6. HasInHand(d, items', Aisles, m, n)
      BY <1>2, <1>4, <1>5 DEF HasInHand
<1>7. Doing(d, items', Aisles, m, n)
      BY <1>2, <1>5, <1>6 DEF Doing, FilingIn
<1>8. QED BY <1>1, <1>4, <1>5, <1>7, ImportPlans, TurnsTo

LEMMA RememberBrings ==
    ASSUME ShoppingInv, NEW c \in Callers, NEW m, NEW n,
           BringsAt(work[c], items, Aisles, m, n), Remember(c)
    PROVE  TurnsOut(c)
<1> DEFINE w == work[c]
<1>1. At(c, "remember") /\ Doing(w, items, Aisles, m, n) /\ Busy(c) /\ Asking(w, m, n)
      BY DEF Remember, BringsAt, At
<1>2. n <= Len(w.asked.cache[m].tags) /\ HasInHand(w, items, Aisles, m, n)
      BY <1>1, FilingAt
<1>3. Finish(c) /\ UNCHANGED shelf /\ items' = items
      BY DEF Remember
<1>4. DoneWith(w, items', Aisles, m, n)
      BY <1>2, <1>3 DEF DoneWith
<1>5. QED BY <1>1, <1>3, <1>4, TurnsOver

LEMMA CrossOffBrings ==
    ASSUME ShoppingInv, NEW c \in Callers, NEW m, NEW n,
           BringsAt(work[c], items, Aisles, m, n), CrossOff(c)
    PROVE  TurnsOut(c)
<1> DEFINE w == work[c]
           cache == w.asked.cache
           tags == cache[m].tags
           i == work[c].row
           row == RowDone(items[i], cache[m].done)
<1>1. At(c, "tick") /\ Doing(w, items, Aisles, m, n) /\ Busy(c) /\ Asking(w, m, n)
      BY DEF CrossOff, BringsAt, At
<1>2. ~(n <= Len(tags)) /\ w.crossed /\ HasInHand(w, items, Aisles, m, Len(tags))
      BY <1>1, FilingAt
<1>3. /\ w \in Works({w.walk}) /\ cache \in Seq(Incoming) /\ m \in 1..Len(cache)
      /\ m \in Nat \ {0} /\ cache[m] \in Incoming /\ cache[m].done \in BOOLEAN
      /\ tags \in Seq(TagIds) /\ items = [j \in RowIds |-> items[j]]
      /\ \A j \in There(items) : j \in RowIds /\ Present(j) /\ items[j] \in Rows
      BY <1>1, Importing
<1>4. /\ i \in There(items) /\ items[i] = InHandAs(cache, m, Len(tags), Aisles)
      /\ HeldFor(items, Aisles, cache, m, {i})
      BY <1>2 DEF HasInHand
<1>5. Present(i) /\ i \in RowIds /\ items[i] \in Rows
      BY <1>3, <1>4
<1>6. cache[m].done
  <2>1. n \in 0..AsksOf(cache[m])
        BY <1>1 DEF Asking
  <2>2. ~cache[m].done => AsksOf(cache[m]) = Len(tags)
        BY <1>3, AsksAre
  <2>3. QED BY <1>2, <1>3, <2>1, <2>2
<1>7. w.crossed = cache[m].done
      BY <1>2, <1>3, <1>6 DEF Works
<1>8. items' = [items EXCEPT ![i] = row] /\ Finish(c) /\ UNCHANGED shelf
  <2>1. items' = [items EXCEPT ![i].done = w.crossed] /\ Finish(c) /\ UNCHANGED shelf
        BY <1>5 DEF CrossOff
  <2>2. QED BY <1>3, <1>5, <1>7, <2>1 DEF RowDone
<1>9. row = BroughtAs(cache, m, m, Aisles)
  <2> DEFINE old == items[i]
             aisles == Aisles
  <2>1. old = InHandAs(cache, m, Len(cache[m].tags), aisles)
        BY <1>4
  <2> HIDE DEF old, aisles, cache
  <2>2. RowDone(old, cache[m].done) = BroughtAs(cache, m, m, aisles)
        BY <1>3, <2>1, HandDone
  <2>3. QED BY <2>2 DEF old, aisles
<1>10. row # None /\ row.name = items[i].name /\ row.unit = items[i].unit
  <2>1. row.name = items[i].name /\ row.unit = items[i].unit /\ row \in Rows
        BY <1>3, <1>5 DEF Rows, RowDone
  <2>2. QED BY <2>1, ShoppingAssumption DEF ShoppingAssumption
<1>11. SaysIt(row, cache[m])
  <2>1. SaysIt(items[i], cache[m])
        BY <1>3, <1>4, HandSays
  <2>2. QED BY <1>10, <2>1 DEF SaysIt
<1> HIDE DEF row
<1>12. HeldFor(items', Aisles, cache, m, {})
  <2> DEFINE after == items'
             rows == items
             r == i
  <2>1. after = [rows EXCEPT ![r] = row] /\ rows = [j \in RowIds |-> rows[j]]
        BY <1>3, <1>8
  <2>2. /\ HeldFor(rows, Aisles, cache, m, {r}) /\ r \in There(rows)
        /\ row.name = rows[r].name /\ row.unit = rows[r].unit
        BY <1>4, <1>10
  <2> HIDE DEF after, rows, r
  <2>3. HeldFor(after, Aisles, cache, m, {r}) /\ r \in There(after) /\ after[r] = row
        BY <1>10, <2>1, <2>2, HeldMeanwhile
  <2>4. SaysIt(after[r], cache[m]) /\ after[r] = BroughtAs(cache, m, m, Aisles)
        BY <1>9, <1>11, <2>3
  <2>5. HeldFor(after, Aisles, cache, m, {})
    <3> DEFINE aisles == Aisles
               kept == cache
    <3>1. /\ HeldFor(after, aisles, kept, m, {r}) /\ r \in There(after)
          /\ SaysIt(after[r], kept[m]) /\ after[r] = BroughtAs(kept, m, m, aisles)
          BY <2>3, <2>4
    <3> HIDE DEF aisles, kept
    <3>2. HeldFor(after, aisles, kept, m, {})
          BY <1>3, <3>1, HeldDone
    <3>3. QED BY <3>2 DEF aisles, kept
  <2>6. QED BY <2>5 DEF after
<1>13. DoneWith(w, items', Aisles, m, n)
      BY <1>2, <1>12 DEF DoneWith
<1>14. QED BY <1>1, <1>8, <1>13, TurnsOver

(* Each statement of an import leads to the next, or to the end of it.     *)
LEMMA ImportTurns ==
    ASSUME ShoppingInv, NEW c \in Callers, Busy(c), Step(c), BringsOn(work[c], items, Aisles)
    PROVE  TurnsOut(c)
<1>1. PICK m, n : BringsAt(work[c], items, Aisles, m, n)
      BY DEF BringsOn
<1>2. Doing(work[c], items, Aisles, m, n)
      BY <1>1 DEF BringsAt
<1>3. \/ At(c, "seek") \/ At(c, "insert") \/ At(c, "put_back") \/ At(c, "record")
      \/ At(c, "prune") \/ At(c, "look") \/ At(c, "attach") \/ At(c, "held")
      \/ At(c, "remember") \/ At(c, "tick")
  <2>1. \A s : Head(work[c].plan) = s => At(c, s)
        BY DEF At
  <2>2. CASE n = 0
    <3>1. Adding(work[c], items, Aisles, m)
          BY <1>2, <2>2 DEF Doing
    <3>2. QED BY <2>1, <3>1, ImportPlans DEF Adding
  <2>3. CASE n # 0
    <3>1. work[c].plan \in {FilePlan, ToAttach, AfterFiling, ToRemember, TickPlan, ToTick}
          BY <1>2, <2>3 DEF Doing, FilingIn, Ticking
    <3>2. QED BY <2>1, <3>1, ImportPlans, FiledPlans
  <2>4. QED BY <2>2, <2>3
<1>4. /\ Seek(c) => TurnsOut(c)
      /\ Insert(c) => TurnsOut(c)
      /\ PutBack(c) => TurnsOut(c)
      /\ Record(c) => TurnsOut(c)
      /\ Prune(c) => TurnsOut(c)
      BY <1>1, SeekBrings, InsertBrings, PutBackBrings, RecordBrings, PruneBrings
<1>5. m \in Nat /\ n \in Nat
      BY <1>1, Importing DEF BringsAt
<1>6. /\ Look(c) => TurnsOut(c)
      /\ Attach(c) => TurnsOut(c)
      /\ Held(c) => TurnsOut(c)
      /\ Remember(c) => TurnsOut(c)
      /\ CrossOff(c) => TurnsOut(c)
      BY <1>1, <1>5, LookBrings, AttachBrings, HeldBrings, RememberBrings, CrossOffBrings
<1>7. QED BY <1>3, <1>4, <1>6, ImportStepAt

(* Whether an import has had its list to itself.                           *)
LEMMA MadeAlone ==
    ASSUME NEW c \in Callers, RememberShopping
    PROVE  /\ Arrives(c) /\ made'[c] => Ask(c)'.cache # <<>> /\ Listed = {}
           /\ ~Arrives(c) /\ made'[c] => made[c]
           /\ ~Arrives(c) /\ Busy(c)' /\ alone'[c] => alone[c] /\ (tables' = tables \/ Acts(c))
<1>1. made'[c] = IF Arrives(c) THEN Ask(c)'.cache # <<>> /\ Listed = {}
                 ELSE Busy(c)' /\ made[c]
      BY DEF RememberShopping
<1>2. alone'[c] = (Arrives(c) \/ ~Busy(c)' \/ (alone[c] /\ (tables' = tables \/ Acts(c))))
      BY DEF RememberShopping
<1>3. QED BY <1>1, <1>2

LEMMA BringStands ==
    ASSUME NEW c \in Callers, work'[c] = work[c], RememberShopping, BringShape(c)
    PROVE  BringShape(c)'
<1>1. /\ Busy(c)' = Busy(c) /\ ~Arrives(c) /\ ~Acts(c)
      BY DEF Busy, Arrives, Acts
<1>2. ASSUME Busy(c)', alone'[c], made'[c]
      PROVE  BringsOn(work'[c], items', Aisles')
  <2>1. alone[c] /\ made[c] /\ tables' = tables
        BY <1>1, <1>2, MadeAlone
  <2>2. BringsOn(work[c], items, Aisles)
        BY <1>1, <1>2, <2>1 DEF BringShape
  <2>3. items' = items /\ Aisles' = Aisles
        BY <2>1 DEF tables, Aisles
  <2>4. QED BY <2>2, <2>3
<1>3. QED BY <1>2 DEF BringShape

LEMMA BringEnds ==
    ASSUME NEW c \in Callers, work'[c] = NoWork
    PROVE  BringShape(c)'
<1>1. ~Busy(c)'
      BY NothingInHand DEF Busy
<1>2. QED BY <1>1 DEF BringShape

(* A request that begins is no import, or has all its rows before it.      *)
LEMMA BringBegins ==
    ASSUME ShoppingInv, NEW c \in Callers, Arrive(c), RememberShopping
    PROVE  BringShape(c)'
<1>1. PICK a \in Requests : work'[c] = Starts(a)
      BY DEF Arrive, Becomes, ShoppingInv
<1>2. ~Busy(c) /\ UNCHANGED items
      BY DEF Arrive, tables
<1>3. a \in Asked /\ (a.cache # <<>> => a.deed = "import")
      BY ShoppingAssumption DEF ShoppingAssumption
<1>4. ASSUME Busy(c)', made'[c]
      PROVE  BringsOn(work'[c], items', Aisles')
  <2>1. Arrives(c)
        BY <1>2, <1>4 DEF Arrives, Busy
  <2>2. Ask(c)'.cache # <<>> /\ Listed = {}
        BY <1>4, <2>1, MadeAlone
  <2>3. a.deed = "import"
    <3>1. SUFFICES ASSUME a.deed # "import" PROVE FALSE
          OBVIOUS
    <3>2. work'[c] = Begin(a, <<>>, <<>>)
          BY <1>1, <3>1 DEF Starts
    <3>3. Ask(c)' = a
          BY <3>2, BegunIs DEF Ask
    <3>4. QED BY <1>3, <2>2, <3>1, <3>3
  <2>4. work'[c] = BringNext(a, a.cache)
        BY <1>1, <2>3 DEF Starts
  <2> DEFINE cache == a.cache
             w == work'[c]
             rows == items'
             aisles == Aisles'
  <2>5. cache \in Seq(Incoming)
        BY <1>3, AskedIs
  <2>6. There(rows) = {}
        BY <1>2, <2>2 DEF There, Listed, Present
  <2> HIDE DEF rows, aisles
  <2>7. HeldFor(rows, aisles, cache, 0, {})
        BY <2>6 DEF HeldFor
  <2>8. 0 + 1 = 1 /\ 0 \in 0..Len(cache) /\ SubSeq(cache, 1, Len(cache)) = cache
        BY <2>5, SubSeqFull
  <2>9. w = BringNext(a, SubSeq(a.cache, 0 + 1, Len(a.cache)))
        BY <2>4, <2>8
  <2>10. w.plan # <<>>
        BY <1>4 DEF Busy
  <2> HIDE DEF w, cache
  <2>11. /\ 0 = Len(a.cache) => w = NoWork
         /\ 0 # Len(a.cache) =>
              w.plan # <<>> /\ w.asked.cache = a.cache /\ BringsAt(w, rows, aisles, 0 + 1, 0)
    <3>1. a \in Asked /\ 0 \in 0..Len(a.cache) /\ HeldFor(rows, aisles, a.cache, 0, {})
          BY <1>3, <2>7, <2>8 DEF cache
    <3>2. QED BY <2>9, <3>1, NextBrought
  <2>12. BringsAt(w, rows, aisles, 1, 0)
        BY <2>8, <2>10, <2>11, NothingInHand
  <2>13. 1 \in 1..Len(w.asked.cache) /\ 0 \in 0..AsksOf(w.asked.cache[1])
        BY <2>12 DEF BringsAt, Asking
  <2>14. BringsOn(w, rows, aisles)
        BY <2>12, <2>13 DEF BringsOn
  <2>15. QED BY <2>14 DEF w, rows, aisles
<1>5. QED BY <1>4 DEF BringShape

LEMMA BringGoesOn ==
    ASSUME ShoppingInv, NEW c \in Callers, Step(c), RememberShopping, BringShape(c)
    PROVE  BringShape(c)'
<1>1. Busy(c) /\ ~Arrives(c)
      BY StepAt DEF At, Arrives
<1>2. ASSUME Busy(c)', alone'[c], made'[c]
      PROVE  BringsOn(work'[c], items', Aisles')
  <2>1. alone[c] /\ made[c]
        BY <1>1, <1>2, MadeAlone
  <2>2. BringsOn(work[c], items, Aisles)
        BY <1>1, <2>1 DEF BringShape
  <2>3. TurnsOut(c)
        BY <1>1, <2>2, ImportTurns
  <2>4. work'[c] # NoWork
        BY <1>2, NothingInHand DEF Busy
  <2>5. BringsOn(work'[c], items', Aisles) /\ Aisles' = Aisles
        BY <2>3, <2>4 DEF TurnsOut
  <2>6. QED BY <2>5
<1>3. QED BY <1>2 DEF BringShape

LEMMA BringKept ==
    BringInv /\ [Next /\ RememberShopping]_<<vars, shopHistory>> => BringInv'
<1> SUFFICES ASSUME BringInv, [Next /\ RememberShopping]_<<vars, shopHistory>>
             PROVE  BringInv'
    OBVIOUS
<1>1. ShoppingInv /\ ShoppingInv'
      BY NextKeepsInv DEF BringInv
<1>2. ASSUME Next /\ RememberShopping, NEW c \in Callers
      PROVE  BringShape(c)'
  <2>1. BringShape(c)
        BY DEF BringInv
  <2>2. work'[c] = work[c] \/ Arrive(c) \/ Step(c) \/ Cut(c)
    <3>1. ASSUME NEW e \in Callers, Arrive(e) \/ Step(e) \/ Cut(e)
          PROVE  work'[c] = work[c] \/ Arrive(c) \/ Step(c) \/ Cut(c)
          BY <1>1, <3>1, OthersWait
    <3>2. QED BY <1>2, <3>1 DEF Next, Tick
  <2>3. CASE work'[c] = work[c]
        BY <1>2, <2>1, <2>3, BringStands
  <2>4. CASE Arrive(c)
        BY <1>1, <1>2, <2>4, BringBegins
  <2>5. CASE Cut(c)
    <3>1. work'[c] = NoWork
          BY <1>1, <2>5 DEF Cut, Only, Becomes, ShoppingInv
    <3>2. QED BY <3>1, BringEnds
  <2>6. CASE Step(c)
        BY <1>1, <1>2, <2>1, <2>6, BringGoesOn
  <2>7. QED BY <2>2, <2>3, <2>4, <2>5, <2>6
<1>3. CASE Next /\ RememberShopping
      BY <1>1, <1>2, <1>3 DEF BringInv
<1>4. CASE UNCHANGED <<vars, shopHistory>>
  <2>1. UNCHANGED <<items, shelf, work, alone, made>>
        BY <1>4 DEF vars, tables, shopHistory
  <2>2. ASSUME NEW c \in Callers PROVE BringShape(c)'
    <3>1. BringShape(c) /\ Aisles' = Aisles
          BY <2>1 DEF BringInv, Aisles
    <3>2. QED BY <2>1, <3>1 DEF BringShape, Busy
  <2>3. QED BY <1>1, <2>2 DEF BringInv
<1>5. QED BY <1>3, <1>4

LEMMA NothingBroughtYet == ShoppingHistoryInit => BringInv
<1> SUFFICES ASSUME ShoppingHistoryInit PROVE BringInv
    OBVIOUS
<1>1. ShoppingInv
      BY InitHolds DEF ShoppingHistoryInit
<1>2. \A c \in Callers : ~Busy(c)
      BY NothingInHand DEF ShoppingHistoryInit, Init, Busy
<1>3. QED BY <1>1, <1>2 DEF BringInv, BringShape

(* When all the rows are what they have become, they are what was brought. *)
LEMMA AllIsBrought ==
    ASSUME NEW rows, NEW aisles, NEW cache, NEW n, HeldFor(rows, aisles, cache, n, {})
    PROVE  {rows[i] : i \in There(rows)} = {BroughtAs(cache, k, n, aisles) : k \in 1..n}
<1>1. ASSUME NEW i \in There(rows) PROVE \E k \in 1..n : rows[i] = BroughtAs(cache, k, n, aisles)
      BY DEF HeldFor
<1>2. ASSUME NEW k \in 1..n PROVE \E i \in There(rows) : rows[i] = BroughtAs(cache, k, n, aisles)
      BY DEF HeldFor
<1>3. QED BY <1>1, <1>2

(* What a device held before it had a server of its own is all there after *)
(* it is brought over (embedded Local::import) into the list made for it,  *)
(* and nothing else is: each row once, with its amount, filed under those  *)
(* of its aisles there are, and crossed off if it was; those that say the  *)
(* same in the same unit as one.                                           *)
THEOREM ImportBringsEverything == ShoppingHistorySpec => ImportKeepsEverything
<1>1. ASSUME BringInv, NEW c \in Callers, Completes(c), alone[c], made[c]
      PROVE  LET cache == Ask(c).cache
                 n == Len(cache)
             IN /\ {items'[i] : i \in Listed'} = {BroughtAs(cache, k, n, Aisles) : k \in 1..n}
                /\ \A i, j \in Listed' :
                      Key(items'[i].name) = Key(items'[j].name) /\ items'[i].unit = items'[j].unit
                         => i = j
  <2>1. ShoppingInv /\ Busy(c) /\ Step(c) /\ BringsOn(work[c], items, Aisles)
        BY <1>1 DEF BringInv, BringShape, Completes
  <2>2. TurnsOut(c) /\ ~Busy(c)'
        BY <1>1, <2>1, ImportTurns DEF Completes
  <2> DEFINE cache == Ask(c).cache
             n == Len(cache)
             rows == items'
             aisles == Aisles
  <2>3. HeldFor(rows, aisles, cache, n, {})
        BY <2>2 DEF TurnsOut
  <2>4. Listed' = There(rows)
        BY DEF Listed, Present, There
  <2> HIDE DEF cache, n, rows, aisles
  <2>5. {rows[i] : i \in There(rows)} = {BroughtAs(cache, k, n, aisles) : k \in 1..n}
        BY <2>3, AllIsBrought
  <2>6. \A i, j \in There(rows) :
           Key(rows[i].name) = Key(rows[j].name) /\ rows[i].unit = rows[j].unit => i = j
        BY <2>3 DEF HeldFor
  <2>7. QED BY <2>4, <2>5, <2>6 DEF cache, n, rows, aisles
<1>2. BringInv /\ [Next /\ RememberShopping]_<<vars, shopHistory>> =>
        [\A c \in Callers : Completes(c) /\ alone[c] /\ made[c] =>
            LET cache == Ask(c).cache
                n == Len(cache)
            IN /\ {items'[i] : i \in Listed'} = {BroughtAs(cache, k, n, Aisles) : k \in 1..n}
               /\ \A i, j \in Listed' :
                     Key(items'[i].name) = Key(items'[j].name) /\ items'[i].unit = items'[j].unit
                        => i = j]_<<vars, shopHistory>>
      BY <1>1
<1>3. QED BY <1>2, NothingBroughtYet, BringKept, PTL DEF ShoppingHistorySpec, ImportKeepsEverything

----------------------------------------------------------------------------
(* What is offered, whatever has become of the memory (Suggesting).        *)

(* A statement remembers one more name at most.                            *)
LEMMA OneMoreRemembered ==
    ASSUME NEW c \in Callers, Step(c)
    PROVE  \E k : DOMAIN history' \subseteq DOMAIN history \cup {k}
<1>1. CASE UNCHANGED history
      BY <1>1
<1>2. ASSUME NEW w, Only(c, w) PROVE UNCHANGED history
      BY <1>2 DEF Only, tables
<1>3. CASE RecallEntry(c) \/ Seek(c) \/ FiledBefore(c) \/ Look(c) \/ Turn(c) \/
           Held(c) \/ OwnOrder(c) \/ Inherit(c) \/ AllAisles(c) \/ Check(c) \/
           ReadRows(c) \/ ReadFiled(c) \/ Show(c)
  <2>1. CASE RecallEntry(c)
        BY <1>1, <1>2, <2>1 DEF RecallEntry
  <2>2. CASE Seek(c)
        BY <1>1, <1>2, <2>2 DEF Seek
  <2>3. CASE FiledBefore(c)
        BY <1>1, <1>2, <2>3 DEF FiledBefore
  <2>4. CASE Look(c)
        BY <1>1, <1>2, <2>4 DEF Look
  <2>5. CASE Turn(c)
        BY <1>1, <1>2, <2>5 DEF Turn
  <2>6. CASE Held(c)
        BY <1>1, <1>2, <2>6 DEF Held
  <2>7. CASE OwnOrder(c)
        BY <1>1, <1>2, <2>7 DEF OwnOrder
  <2>8. CASE Inherit(c)
        BY <1>1, <1>2, <2>8 DEF Inherit
  <2>9. CASE AllAisles(c)
        BY <1>1, <1>2, <2>9 DEF AllAisles
  <2>10. CASE Check(c)
        BY <1>1, <1>2, <2>10 DEF Check
  <2>11. CASE ReadRows(c)
        BY <1>1, <1>2, <2>11 DEF ReadRows
  <2>12. CASE ReadFiled(c)
        BY <1>1, <1>2, <2>12 DEF ReadFiled
  <2>13. CASE Show(c)
        BY <1>1, <1>2, <2>13 DEF Show, tables
  <2>14. QED BY <1>3, <2>1, <2>2, <2>3, <2>4, <2>5, <2>6, <2>7, <2>8, <2>9, <2>10, <2>11, <2>12, <2>13
<1>4. CASE Insert(c) \/ PutBack(c) \/ FileOne(c) \/ Rewrite(c) \/ CrossOff(c) \/
           Drop(c) \/ Sweep(c) \/ Clear(c) \/ Attach(c) \/ Detach(c) \/ Shelve(c)
           \/ Lay(c)
  <2>1. CASE Insert(c)
        BY <1>1, <2>1 DEF Insert
  <2>2. CASE PutBack(c)
        BY <1>1, <2>2 DEF PutBack
  <2>3. CASE FileOne(c)
        BY <1>1, <2>3 DEF FileOne
  <2>4. CASE Rewrite(c)
        BY <1>1, <2>4 DEF Rewrite
  <2>5. CASE CrossOff(c)
        BY <1>1, <2>5 DEF CrossOff
  <2>6. CASE Drop(c)
        BY <1>1, <2>6 DEF Drop
  <2>7. CASE Sweep(c)
        BY <1>1, <2>7 DEF Sweep
  <2>8. CASE Clear(c)
        BY <1>1, <2>8 DEF Clear
  <2>9. CASE Attach(c)
        BY <1>1, <2>9 DEF Attach
  <2>10. CASE Detach(c)
        BY <1>1, <2>10 DEF Detach
  <2>11. CASE Shelve(c)
        BY <1>1, <2>11 DEF Shelve
  <2>12. CASE Lay(c)
        BY <1>1, <2>12 DEF Lay
  <2>13. QED BY <1>4, <2>1, <2>2, <2>3, <2>4, <2>5, <2>6, <2>7, <2>8, <2>9, <2>10, <2>11, <2>12
<1>5. CASE Record(c)
  <2>1. DOMAIN history' = DOMAIN history \cup {Key(work[c].name)}
        BY <1>5 DEF Record
  <2>2. QED BY <2>1
<1>6. CASE Prune(c)
  <2>1. PICK kept \in SUBSET DOMAIN history : history' = [k \in kept |-> history[k]]
        BY <1>6 DEF Prune
  <2>2. DOMAIN history' = kept
        BY <2>1
  <2>3. QED BY <2>1, <2>2
<1>7. CASE Forget(c)
  <2>1. DOMAIN history' = DOMAIN history \ {Key(Ask(c).line)}
        BY <1>7 DEF Forget
  <2>2. QED BY <2>1
<1>8. CASE Remember(c)
  <2>1. DOMAIN history' = DOMAIN history
        BY <1>8 DEF Remember
  <2>2. QED BY <2>1
<1>9. CASE Raze(c)
  <2>1. DOMAIN history' = DOMAIN history
        BY <1>9 DEF Raze, RazeAisle
  <2>2. QED BY <2>1
<1>10. QED BY <1>3, <1>4, <1>5, <1>6, <1>7, <1>8, <1>9 DEF Step

SuggestingInv == ShoppingInv /\ IsFiniteSet(DOMAIN history)

LEMMA SuggestingKept ==
    SuggestingInv /\ [SuggestingNext]_<<vars, shopHistory, query>> => SuggestingInv'
<1> SUFFICES ASSUME SuggestingInv, [SuggestingNext]_<<vars, shopHistory, query>>
             PROVE  SuggestingInv'
    OBVIOUS
<1>1. [Next]_vars
      BY DEF SuggestingNext
<1>2. ShoppingInv'
      BY <1>1, NextKeepsInv DEF SuggestingInv
<1>3. \E k : DOMAIN history' \subseteq DOMAIN history \cup {k}
  <2>1. CASE UNCHANGED history
        BY <2>1
  <2>2. ASSUME NEW c \in Callers, Arrive(c) \/ Cut(c) PROVE UNCHANGED history
        BY <2>2 DEF Arrive, Cut, Only, tables
  <2>3. ASSUME Tick \/ UNCHANGED vars PROVE UNCHANGED history
        BY <2>3 DEF Tick, vars, tables
  <2>4. QED BY <1>1, <2>1, <2>2, <2>3, OneMoreRemembered DEF Next
<1>4. IsFiniteSet(DOMAIN history)'
  <2>1. PICK k : DOMAIN history' \subseteq DOMAIN history \cup {k}
        BY <1>3
  <2>2. IsFiniteSet(DOMAIN history \cup {k})
        BY FS_AddElement DEF SuggestingInv
  <2>3. IsFiniteSet(DOMAIN history')
        BY <2>1, <2>2, FS_Subset
  <2>4. QED BY <2>3
<1>5. QED BY <1>2, <1>4 DEF SuggestingInv

LEMMA SuggestingBegins == SuggestingInit => SuggestingInv
<1> SUFFICES ASSUME SuggestingInit PROVE SuggestingInv
    OBVIOUS
<1>1. Init
      BY DEF SuggestingInit, ShoppingHistoryInit
<1>2. PICK db \in Stored : history = db.history
      BY <1>1 DEF Init
<1>3. IsFiniteSet(DOMAIN history)
      BY <1>2, ShoppingAssumption DEF ShoppingAssumption, StoredWell
<1>4. QED BY <1>1, <1>3, InitHolds DEF SuggestingInv

(* The names read from the memory can be put in order.                     *)
LEMMA CandidatesAreRated ==
    ASSUME SuggestingInv, NEW read \in SUBSET DOMAIN history
    PROVE  /\ Rated({Candidate(k) : k \in read}, now)
           /\ \A k \in read : Key(Candidate(k).name) = k
<1> DEFINE S == {Candidate(k) : k \in read}
<1>1. \A k \in read :
         /\ Candidate(k).name = history[k].display /\ Candidate(k).uses = history[k].uses
         /\ Candidate(k).last = history[k].last /\ k \in DOMAIN history
      BY DEF Candidate
<1>2. \A k \in read : /\ Candidate(k).name \in Names /\ Key(Candidate(k).name) = k
                      /\ Candidate(k).uses \in Nat /\ Candidate(k).last \in Moments
  <2> TAKE k \in read
  <2>1. /\ history[k].display \in Names /\ Key(history[k].display) = k
        /\ history[k].uses \in Nat /\ history[k] \in Entries
        BY <1>1, EntryIs DEF SuggestingInv
  <2>2. history[k].last \in Moments
        BY <2>1 DEF Entries
  <2>3. QED BY <1>1, <2>1, <2>2
<1>3. IsFiniteSet(S)
  <2>1. IsFiniteSet(read)
        BY FS_Subset DEF SuggestingInv
  <2> DEFINE g == [k \in read |-> Candidate(k)]
  <2>2. g \in Surjection(read, S)
        BY DEF Surjection
  <2>3. QED BY <2>1, <2>2, FS_Surjection
<1>4. ASSUME NEW k \in read PROVE Weight(Candidate(k), now) \in Int
  <2> DEFINE age == Age(Candidate(k), now)
             uses == Candidate(k).uses
             worth == Worth[age]
  <2>1. now \in 0..MaxTime /\ Candidate(k).last \in 0..MaxTime /\ MaxTime \in Nat
        BY <1>2, ShoppingAssumption
           DEF SuggestingInv, ShoppingInv, StoreOK, Moments, ShoppingAssumption
  <2>2. age \in 0..MaxTime
        BY <2>1 DEF Age
  <2> HIDE DEF age
  <2>3. age \in DOMAIN Worth
        BY <2>2, ShoppingAssumption DEF ShoppingAssumption
  <2>4. worth \in Nat
        BY <2>3, ReadingAssumption DEF ReadingAssumption
  <2>5. uses \in Nat
        BY <1>2
  <2>6. Weight(Candidate(k), now) = uses * worth
        BY DEF Weight, age
  <2> HIDE DEF uses, worth
  <2>7. QED BY <2>4, <2>5, <2>6
<1>5. \A k \in read : Candidate(k).last \in Int
      BY <1>2, ShoppingAssumption DEF Moments, ShoppingAssumption
<1>6. \A b, c \in S : b.name = c.name => b = c
      BY <1>2
<1>7. QED BY <1>2, <1>3, <1>4, <1>5, <1>6 DEF Rated

LEMMA LeastOfTwo ==
    ASSUME NEW m \in Nat, NEW n \in Nat
    PROVE  Min({m, n}) = IF n < m THEN n ELSE m
<1>1. Min({m, n}) \in {m, n} /\ \A y \in {m, n} : Min({m, n}) <= y
  <2>1. \E x \in {m, n} : \A y \in {m, n} : x <= y
        BY LeastThere
  <2>2. QED BY <2>1 DEF Min
<1>2. QED BY <1>1

(* What is offered of the names read: the best, the best first.            *)
LEMMA OfferOfThose ==
    ASSUME SuggestingInv, query # None, NEW read \in SUBSET DOMAIN history
    PROVE  LET offer == Offer(query, {Candidate(k) : k \in read}, now)
               places == DOMAIN offer
               fit == {k \in read : MayBeOffered(k)}
               shown == {Key(offer[i]) : i \in places}
           IN /\ Len(offer) = Min({Limit, Cardinality(fit)})
              /\ \A i \in places : Key(offer[i]) \in fit
                                   /\ offer[i] = history[Key(offer[i])].display
              /\ \A i, j \in places : i < j => Better(Key(offer[i]), Key(offer[j]))
              /\ \A k \in shown, m \in fit \ shown : Better(k, m)
<1> DEFINE S == {Candidate(k) : k \in read}
           offer == Offer(query, S, now)
           places == DOMAIN offer
           fit == {k \in read : MayBeOffered(k)}
           shown == {Key(offer[i]) : i \in places}
           F == FitFor(query, S)
           n == Cardinality(F)
           top == IF n < Limit THEN n ELSE Limit
<1>1. /\ Rated(S, now)
      /\ \A k \in read : Key(Candidate(k).name) = k
      /\ \A k \in read : Candidate(k).name = history[k].display
      BY CandidatesAreRated DEF Candidate
<1>2. \A k \in read : Candidate(k) \in F <=> k \in fit
      BY DEF FitFor, MayBeOffered, Candidate
<1>3. \A c \in F : \E k \in fit : c = Candidate(k)
      BY <1>2 DEF FitFor
<1>4. \A k, m \in read :
         Beats(query, now, Candidate(k), Candidate(m)) => Better(k, m)
      BY <1>1 DEF Beats, Better, ScoreOf, Matched
<1>5. IsFiniteSet(F) /\ n \in Nat /\ Limit \in Nat
      BY <1>1, OfferIs, ReadingAssumption DEF ReadingAssumption
<1>6. PICK f : /\ BestFirst(f, query, S, now)
               /\ offer = [i \in 1..top |-> f[i].name]
  <2> HIDE DEF S
  <2>1. Rated(S, now)
        BY <1>1
  <2>2. \E f : /\ BestFirst(f, query, S, now)
               /\ Offer(query, S, now) =
                     NamesOf(f, IF Cardinality(FitFor(query, S)) < Limit
                                THEN Cardinality(FitFor(query, S)) ELSE Limit)
        BY ONLY <2>1, OfferIs
  <2>3. QED BY ONLY <2>2 DEF offer, top, n, F, NamesOf
<1>7. /\ f \in [1..n -> F] /\ \A c \in F : \E i \in 1..n : f[i] = c
      /\ \A i, j \in 1..n : i < j => Beats(query, now, f[i], f[j])
      BY <1>6 DEF BestFirst
<1>8. fit \subseteq read
      OBVIOUS
<1> HIDE DEF S, offer, fit, F
<1>9. Cardinality(fit) = n
  <2> DEFINE g == [c \in F |-> Key(c.name)]
  <2>1. \A c \in F : g[c] \in fit /\ Candidate(g[c]) = c
        BY <1>1, <1>3, <1>8
  <2>2. \A k \in fit : Candidate(k) \in F /\ g[Candidate(k)] = k
        BY <1>1, <1>2, <1>8
  <2>3. g \in [F -> fit]
        BY <2>1
  <2> HIDE DEF g
  <2>4. g \in Bijection(F, fit)
        BY <2>1, <2>2, <2>3 DEF Bijection, Injection, Surjection, IsInjective
  <2>5. QED BY <1>5, <2>4, FS_Bijection DEF ExistsBijection
<1> HIDE DEF n
<1>10. top \in Nat /\ top <= n /\ places = 1..top /\ Len(offer) = top
       BY <1>5, <1>6
<1>11. Len(offer) = Min({Limit, Cardinality(fit)})
       BY <1>5, <1>9, <1>10, LeastOfTwo
<1> HIDE DEF top
<1>12. ASSUME NEW i \in 1..top
       PROVE  /\ i \in 1..n /\ Key(offer[i]) \in fit /\ f[i] = Candidate(Key(offer[i]))
              /\ offer[i] = history[Key(offer[i])].display
  <2>1. i \in 1..n /\ offer[i] = f[i].name /\ f[i] \in F
        BY <1>5, <1>6, <1>7, <1>10
  <2>2. PICK k \in fit : f[i] = Candidate(k)
        BY <1>3, <2>1
  <2>3. Key(offer[i]) = k /\ offer[i] = history[k].display
        BY <1>1, <1>8, <2>1, <2>2
  <2>4. QED BY <2>1, <2>2, <2>3
<1>13. ASSUME NEW i \in 1..top, NEW j \in 1..top, i < j
       PROVE  Better(Key(offer[i]), Key(offer[j]))
  <2>1. Beats(query, now, f[i], f[j])
        BY <1>7, <1>12, <1>13
  <2>2. QED BY <1>4, <1>8, <1>12, <2>1
<1>14. ASSUME NEW k \in shown, NEW m \in fit \ shown
       PROVE  Better(k, m)
  <2>1. PICK i \in 1..top : k = Key(offer[i])
        BY <1>10
  <2>2. Candidate(m) \in F
        BY <1>2, <1>8
  <2>3. PICK j \in 1..n : f[j] = Candidate(m)
        BY <1>7, <2>2
  <2>4. j \notin 1..top
    <3>1. ASSUME j \in 1..top PROVE m \in shown
      <4>1. offer[j] = f[j].name /\ Key(f[j].name) = m
            BY <1>1, <1>6, <1>8, <2>3, <3>1
      <4>2. QED BY <1>10, <3>1, <4>1
    <3>2. QED BY <3>1
  <2>5. i < j /\ i \in 1..n
        BY <1>5, <1>10, <1>12, <2>4
  <2>6. Beats(query, now, Candidate(k), Candidate(m))
        BY <1>7, <1>12, <2>1, <2>3, <2>5
  <2>7. k \in read /\ m \in read
        BY <1>8, <1>12, <2>1
  <2>8. QED BY <1>4, <2>6, <2>7
<1>15. QED BY <1>10, <1>11, <1>12, <1>13, <1>14 DEF S, offer, fit

(* What is offered while somebody types is the best there is of what the   *)
(* list remembers, however it came to remember it: as many names as fit    *)
(* and no more, the better match first and of equals what is bought more   *)
(* and of late, none typed in full, and nothing better left out            *)
(* (suggest::offer behind service::items::suggestions).                    *)
THEOREM OffersAreTheBest == SuggestingSpec => []OfferIsBest
<1>1. SuggestingInv => OfferIsBest
  <2> SUFFICES ASSUME SuggestingInv, query # None, NEW read \in Recent(Pool)
               PROVE  LET offer == Offer(query, {Candidate(k) : k \in read}, now)
                          places == DOMAIN offer
                          fit == {k \in read : MayBeOffered(k)}
                          shown == {Key(offer[i]) : i \in places}
                      IN /\ Len(offer) = Min({Limit, Cardinality(fit)})
                         /\ \A i \in places : Key(offer[i]) \in fit
                                              /\ offer[i] = history[Key(offer[i])].display
                         /\ \A i, j \in places : i < j => Better(Key(offer[i]), Key(offer[j]))
                         /\ \A k \in shown, m \in fit \ shown : Better(k, m)
      BY DEF OfferIsBest
  <2>1. read \in SUBSET DOMAIN history
        BY DEF Recent
  <2>2. QED BY <2>1, OfferOfThose
<1>2. QED BY <1>1, SuggestingBegins, SuggestingKept, PTL DEF SuggestingSpec

=============================================================================
