------------------------------ MODULE AddField ------------------------------
(***************************************************************************)
(* The field of the screen a line is typed in (ItemsModel.line), and what  *)
(* its reader promises of any line that may stand there.                   *)
(***************************************************************************)
EXTENDS Reading

CONSTANTS
    Typeable,  \* the words somebody types
    MaxWords,  \* bound on the words in the field
    Offered    \* names that may be suggested

AddFieldAssumption ==
    /\ Typeable \subseteq Words /\ MaxWords \in Nat
    /\ \A name \in Offered : name \in Seq(Words)
    /\ None \notin [name : Seq(Words), amount : Nat, stated : BOOLEAN, unit : Known]
ASSUME AddFieldAssumption

VARIABLE typed  \* ItemsModel.line

FieldInit == typed = <<>>

Write(word) == Len(typed) < MaxWords /\ typed' = Append(typed, word)

(* A suggestion that is chosen fills the field; it is not added yet.       *)
Choose(name) == typed' = name

(* ItemsModel.add: nothing is done for an empty line, and the field is     *)
(* cleared before the request is made.                                     *)
Add == typed # <<>> /\ typed' = <<>>

FieldNext == Add \/ (\E word \in Typeable : Write(word)) \/ (\E name \in Offered : Choose(name))

FieldSpec == FieldInit /\ [][FieldNext]_typed

----------------------------------------------------------------------------
Digits(number) == [number |-> number, text |-> NoText]
Letter(text) == [number |-> NoNumber, text |-> text]
Spelt(unit) == IF unit = None THEN <<>> ELSE [i \in DOMAIN unit |-> Letter(unit[i])]

(* A line as it stands, or with one word whose number and text are glued   *)
(* taken apart.                                                            *)
Apart(line, i) ==
    SubSeq(line, 1, i - 1) \o <<Digits(line[i].number), Letter(line[i].text)>>
        \o SubSeq(line, i + 1, Len(line))
IsGlued(word) == word.number # NoNumber /\ word.text # NoText
TakenApart(line) == {line} \cup {Apart(line, i) : i \in {j \in DOMAIN line : IsGlued(line[j])}}

(* Nothing that is typed is lost and nothing made up: the name, the amount *)
(* and the unit read off a line are its words, each once, in one of the    *)
(* forms quick_add::parse lists, and no item is called nothing.            *)
NothingTypedIsLost ==
    typed # <<>> =>
        LET reading == Parse(typed)
            name == Key(reading.name)
            amount == IF reading.stated THEN <<Digits(reading.amount)>> ELSE <<>>
            unit == Spelt(reading.unit)
        IN /\ name # <<>>
           /\ ~reading.stated => reading.amount = 1
           /\ \E line \in TakenApart(typed) :
                 Key(line) \in {amount \o unit \o name, name \o amount \o unit,
                                name \o unit \o amount}

(* "People type all of these and mean the same thing" (quick_add::parse): a *)
(* quantity before a name reads like one behind it, number first or unit   *)
(* first, with a space or without.                                         *)
Plain(name) == \A i \in DOMAIN name :
    name[i].number = NoNumber /\ \A u \in Known : Lowered(name[i]).text \notin ToSet(u)

Glued(number, unit) ==
    <<[number |-> number, text |-> Head(unit)]>> \o Tail(Spelt(unit))

SameEitherWayRound ==
    typed # <<>> /\ Plain(typed) =>
        \A u \in Known, n \in {m \in Numbers : m > 0} :
            \A line \in {<<Digits(n)>> \o Spelt(u) \o typed, typed \o <<Digits(n)>> \o Spelt(u),
                         typed \o Spelt(u) \o <<Digits(n)>>, Glued(n, u) \o typed,
                         typed \o Glued(n, u)} :
                Parse(line) = Stated(typed, n, u)

=============================================================================
