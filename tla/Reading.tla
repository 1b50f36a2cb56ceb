------------------------------ MODULE Reading -------------------------------
(***************************************************************************)
(* What a typed line means and what is offered while it is typed: the pure *)
(* rules of web/parsing/src that the server and every client call.         *)
(*                                                                         *)
(*   quick_add.rs   the name, amount and unit a line spells                *)
(*   add.rs         the row it lands on or makes                           *)
(*   suggest.rs, history_rank.rs, fuzzy.rs   what is offered, best first   *)
(*                                                                         *)
(* A line is a sequence of words, a word a number, a text or a text glued  *)
(* to a number before it (1.5kg).  A unit is identified by its name, a     *)
(* sequence of texts in lower case (fl oz).  Left out: spaces within a     *)
(* line, how decimals are written, byte offsets, and words in which digits *)
(* come after letters, which are texts like any other.                     *)
(***************************************************************************)
EXTENDS Integers, Sequences, FiniteSets, SequencesExt, Sorting

CONSTANTS
    Numbers,   \* digits as they may be typed; 0 stands for any that are no
               \* quantity: zero, 1.2.3, a lone point
    Texts,     \* words without digits in front
    Fold,      \* a text in lower case
    Capital,   \* a text as the first word of a stored name
    Spelled,   \* the letters of a text, as numbers in the order of the alphabet,
               \* after 0, the space, and n + 1 for the digits n
    Known,     \* the units table
    Bare,      \* those that may stand without a number (units.bare)
    Counted,   \* the unit called `unit`, if it is there
    Limit,     \* suggest::LIMIT
    Worth,     \* what a use counts for, after so many half-lives
    None

NoNumber == -1
NoText == "no text"

Words == {w \in [number: Numbers \cup {NoNumber}, text: Texts \cup {NoText}] :
             w.number # NoNumber \/ w.text # NoText}
Names == Seq(Words) \ {<<>>}
Maybe(S) == S \cup {None}

ReadingAssumption ==
    /\ Numbers \subseteq Nat /\ NoText \notin Texts
    /\ Fold \in [Texts -> Texts] /\ Capital \in [Texts -> Texts]
    /\ \A t \in Texts : Fold[Fold[t]] = Fold[t] /\ Fold[Capital[t]] = Fold[t]
    /\ Spelled \in [Texts -> Seq(Nat \ {0}) \ {<<>>}]
    /\ \A t \in Texts : Head(Spelled[t]) - 1 \notin Numbers
    /\ \A s, t \in Texts : Spelled[s] = Spelled[t] => s = t
    /\ \A u \in Known : u \in Seq({Fold[t] : t \in Texts}) /\ u # <<>>
    /\ Bare \subseteq Known /\ Counted \in Known \cup {None} /\ None \notin Known
    /\ Limit \in Nat
    /\ Worth \in [DOMAIN Worth -> Nat \ {0}] /\ DOMAIN Worth \subseteq Nat
    /\ \A n \in DOMAIN Worth \ {0} : n - 1 \in DOMAIN Worth /\ Worth[n - 1] = 2 * Worth[n]
ASSUME ReadingAssumption

----------------------------------------------------------------------------
(* Reading a line (quick_add.rs).                                          *)

Lowered(word) == IF word.text = NoText THEN word ELSE [word EXCEPT !.text = Fold[@]]
IsText(word, t) == Lowered(word) = [number |-> NoNumber, text |-> t]
IsNumber(word) == word.number > 0 /\ word.text = NoText

Stated(name, amount, unit) ==
    [name |-> name, amount |-> amount, stated |-> TRUE, unit |-> unit]
Unstated(name, unit) ==
    [name |-> name, amount |-> 1, stated |-> FALSE, unit |-> unit]

(* best_unit: the longest that matches.                                    *)
Longest(units) == CHOOSE u \in units : \A v \in units : Len(v) <= Len(u)

Begins(line, u) == Len(u) <= Len(line) /\ \A i \in DOMAIN u : IsText(line[i], u[i])
After(line, u) == SubSeq(line, Len(u) + 1, Len(line))

(* A digit is as good as a space before a unit at the end: 1.5kg.          *)
Ends(line, u) ==
    LET from == Len(line) - Len(u) IN
    /\ from >= 0
    /\ \A i \in DOMAIN u :
          \/ IsText(line[from + i], u[i])
          \/ i = 1 /\ Lowered(line[from + i]).text = u[i]
Before(line, u) ==
    LET from == Len(line) - Len(u)
        digits == line[from + 1].number
    IN SubSeq(line, 1, from)
       \o (IF digits = NoNumber THEN <<>> ELSE <<[number |-> digits, text |-> NoText]>>)

(* leading_number: the first word is a quantity, or begins with one.       *)
LeadingNumber(line) == line # <<>> /\ Head(line).number > 0
AfterNumber(line) ==
    IF IsNumber(Head(line)) THEN Tail(line)
    ELSE <<[Head(line) EXCEPT !.number = NoNumber]>> \o Tail(line)

(* trailing_number: only a word of its own, so that omega-3 is one thing.  *)
TrailingNumber(line) == line # <<>> /\ IsNumber(Last(line))

(* `2 kg apples`.  A unit with nothing after it is the name.               *)
LeadingNamedByWhatIsLeft(line) ==
    LET rest == AfterNumber(line)
        units == {u \in Known : Begins(rest, u)}
    IN IF ~LeadingNumber(line) \/ rest = <<>> THEN None
       ELSE IF units = {} THEN Stated(rest, Head(line).number, None)
       ELSE Stated(After(rest, Longest(units)), Head(line).number, Longest(units))

Leading(line) ==
    LET rest == AfterNumber(line)
        units == {u \in Known : Begins(rest, u)}
        named == units # {} /\ After(rest, Longest(units)) # <<>>
    IN IF ~LeadingNumber(line) \/ rest = <<>> THEN None
       ELSE IF named
       THEN Stated(After(rest, Longest(units)), Head(line).number, Longest(units))
       ELSE Stated(rest, Head(line).number, None)

(* `apples 2 kg`.                                                          *)
UnitLast(line) ==
    LET units == {u \in Known : Ends(line, u)}
        head == Before(line, Longest(units))
    IN IF units # {} /\ TrailingNumber(head) /\ Len(head) > 1
       THEN Stated(Front(head), Last(head).number, Longest(units))
       ELSE None

(* `apples kg 2`, and `apples 2`.                                          *)
NumberLast(line) ==
    LET head == Front(line)
        units == {u \in Known : Ends(head, u)}
        named == units # {} /\ Before(head, Longest(units)) # <<>>
    IN IF ~TrailingNumber(line) \/ head = <<>> THEN None
       ELSE IF named
       THEN Stated(Before(head, Longest(units)), Last(line).number, Longest(units))
       ELSE Stated(head, Last(line).number, None)

(* `pint milk`, where a number is nowhere.                                 *)
BareUnit(line) ==
    LET units == {u \in Bare : Begins(line, u) /\ After(line, u) # <<>>}
    IN IF units = {} THEN None ELSE Unstated(After(line, Longest(units)), Longest(units))

(* parse_with: the first form that fits, or all of it a name.              *)
OrElse(reading, other) == IF reading # None THEN reading ELSE other

Parse(line) ==
    OrElse(Leading(line),
    OrElse(UnitLast(line),
    OrElse(NumberLast(line),
    OrElse(BareUnit(line), Unstated(line, None)))))

----------------------------------------------------------------------------
(* What to do about it (add.rs).                                           *)

(* fold, the key a name is remembered under and matched by.                *)
Key(name) == [i \in DOMAIN name |-> Lowered(name[i])]

Capitalised(name) ==
    [i \in DOMAIN name |->
        IF i = 1 /\ name[i].number = NoNumber THEN [name[i] EXCEPT !.text = Capital[@]]
        ELSE name[i]]

(* What the line spelled, what the name was last bought in, or `unit`.     *)
UnitFor(reading, entry) ==
    IF reading.unit # None THEN reading.unit
    ELSE IF entry # None /\ entry.unit # None THEN entry.unit
    ELSE Counted

AmountFor(reading, entry) ==
    IF ~reading.stated /\ entry # None /\ entry.amount # None THEN entry.amount
    ELSE reading.amount

(* The rows, by their ids, that say the same thing in the same unit; the   *)
(* one still wanted before one crossed off, the older before the newer.    *)
AlikeAsSpelled(rows, name, unit) ==
    {i \in DOMAIN rows : rows[i].name = name /\ rows[i].unit = unit}

Alike(rows, name, unit) ==
    {i \in DOMAIN rows : Key(rows[i].name) = Key(name) /\ rows[i].unit = unit}

Pick(rows, like) ==
    CHOOSE i \in like : \A j \in like :
        \/ ~rows[i].done /\ rows[j].done
        \/ rows[i].done = rows[j].done /\ i <= j

(* resolve, as a client without a server calls it: the row it lands on, or *)
(* what to make.  `history` is by key.                                     *)
Recall(history, line) ==
    IF Key(Parse(line).name) \in DOMAIN history THEN history[Key(Parse(line).name)]
    ELSE None

Resolve(line, rows, history) ==
    LET reading == Parse(line)
        entry == Recall(history, line)
        unit == UnitFor(reading, entry)
        like == Alike(rows, reading.name, unit)
    IN IF like # {}
       THEN [row |-> Pick(rows, like), put_back |-> rows[Pick(rows, like)].done]
       ELSE [name |-> Capitalised(reading.name), amount |-> AmountFor(reading, entry),
             unit |-> unit, done |-> FALSE,
             tags |-> IF entry = None THEN {} ELSE entry.tags]

----------------------------------------------------------------------------
(* What to offer (suggest.rs).                                             *)

(* A candidate is a remembered name, how often and when it was last used,  *)
(* in half-lives of history_rank.  A space sorts before digits, and they   *)
(* before letters.                                                         *)
Letters(word) == (IF word.number = NoNumber THEN <<>> ELSE <<word.number + 1>>)
                 \o (IF word.text = NoText THEN <<>> ELSE Spelled[word.text])
Spelling(name) ==
    FlattenSeq([i \in DOMAIN name |-> (IF i = 1 THEN <<>> ELSE <<0>>) \o Letters(name[i])])

Sooner(a, b) ==
    \E k \in 0..Len(b) - 1 :
        /\ k <= Len(a) /\ \A i \in 1..k : a[i] = b[i]
        /\ k = Len(a) \/ (k < Len(a) /\ a[k + 1] < b[k + 1])

(* score: uses, halved for every half-life since; a date to come is today. *)
Age(c, now) == IF c.last > now THEN 0 ELSE now - c.last
Weight(c, now) == c.uses * Worth[Age(c, now)]
Heavier(a, b, now) == Weight(a, now) > Weight(b, now)

Ranks(a, b, now) ==
    \/ Heavier(a, b, now)
    \/ ~Heavier(b, a, now) /\ a.last > b.last
    \/ ~Heavier(b, a, now) /\ a.last = b.last /\ Sooner(Spelling(a.name), Spelling(b.name))

Ranked(candidates, now) ==
    InTurn(candidates, {p \in candidates \X candidates : Ranks(p[1], p[2], now)})

(* fuzzy::score, 0 where it does not match at all: the name begins with    *)
(* what was typed, a word of it does, it is somewhere inside, or its       *)
(* letters are there in order; the shorter the better within each.         *)
Inside(typed, s) == \E i \in 0..Len(s) - Len(typed) : IsPrefix(typed, SubSeq(s, i + 1, Len(s)))

Scattered(typed, s) ==
    \E at \in [DOMAIN typed -> DOMAIN s] :
        /\ \A i \in DOMAIN typed : s[at[i]] = typed[i]
        /\ \A i, j \in DOMAIN typed : i < j => at[i] < at[j]

Brevity(s) == IF Len(s) > 199 THEN 199 ELSE Len(s)

Score(typed, name) ==
    LET key == Key(name)
        s == Spelling(key)
        starts == \E i \in DOMAIN key : IsPrefix(typed, Letters(key[i]))
        tiers == {t \in {1000, 800, 600, 400} :
                     \/ t = 1000 /\ IsPrefix(typed, s)
                     \/ t = 800 /\ starts
                     \/ t = 600 /\ Inside(typed, s)
                     \/ t = 400 /\ Scattered(typed, s)}
    IN IF tiers = {} THEN 0 ELSE Max(tiers) - Brevity(s)

(* offer: how well a name matches decides, how it ranks breaks the ties,   *)
(* and what has been typed in full is not offered.                         *)
Few(names) == SubSeq(names, 1, IF Len(names) < Limit THEN Len(names) ELSE Limit)

Matches(typed, name) == Score(typed, name) > 0 /\ Spelling(Key(name)) # typed

Matching(typed, ranked) ==
    LET score(i) == Score(typed, ranked[i].name)
        places == {i \in DOMAIN ranked : Matches(typed, ranked[i].name)}
    IN InTurn(places, {p \in places \X places :
                  score(p[1]) > score(p[2]) \/ (score(p[1]) = score(p[2]) /\ p[1] < p[2])})

OfferAmongTheFirst(typed, candidates, now) ==
    LET ranked == Few(Ranked(candidates, now))
        best == Matching(typed, ranked)
    IN IF typed = <<>> THEN [i \in DOMAIN ranked |-> ranked[i].name]
       ELSE [i \in DOMAIN best |-> ranked[best[i]].name]

Offer(typed, candidates, now) ==
    LET ranked == Ranked(candidates, now)
        best == Few(Matching(typed, ranked))
        top == Few(ranked)
    IN IF typed = <<>> THEN [i \in DOMAIN top |-> top[i].name]
       ELSE [i \in DOMAIN best |-> ranked[best[i]].name]

=============================================================================
