-------------------------- MODULE Shopping_proofs ---------------------------
(***************************************************************************)
(* Proofs about Reading and AddField, for any words, units and spellings:  *)
(* what a line is read as can be put on a list; a line is read in full,    *)
(* and means the same either way round; names that differ are spelled      *)
(* differently; and what is offered of any candidates is the best of them. *)
(* And about Shopping: the types of its tables through every deletion, and *)
(* that an order is set as a whole or not at all.                          *)
(***************************************************************************)
EXTENDS Shopping, AddField, Sorting_proofs, SequenceTheorems, WellFoundedInduction, TLAPS

----------------------------------------------------------------------------
(* Least and greatest numbers.                                             *)

LEMMA LeastThere ==
    ASSUME NEW S, S \subseteq Nat, S # {}
    PROVE  \E x \in S : \A y \in S : x <= y
<1>1. PICK m \in S : \A y \in S : ~(<<y, m>> \in OpToRel(<, Nat))
      BY NatLessThanWellFounded, WFMin
<1>2. \A y \in S : y \in Nat /\ m \in Nat /\ ~(y < m)
      BY <1>1 DEF OpToRel
<1>3. \A y \in S : m <= y
      BY <1>2
<1>4. QED BY <1>3

(* FiniteSetsExt's Min, of numbers.                                        *)
LEMMA MinIsThere ==
    ASSUME NEW S, S \subseteq Nat, S # {}
    PROVE  Min(S) \in S
BY LeastThere DEF Min

(* Of units no longer than n words there is a longest.                     *)
LEMMA LongestThere ==
    ASSUME NEW U, U # {}, NEW n \in Nat, \A u \in U : Len(u) \in 0..n
    PROVE  Longest(U) \in U
<1> DEFINE S == {n - Len(u) : u \in U}
<1>1. S \subseteq Nat /\ S # {}
      OBVIOUS
<1>2. PICK x \in S : \A y \in S : x <= y
      BY <1>1, LeastThere
<1>3. PICK u \in U : x = n - Len(u)
      BY <1>2
<1>4. \A v \in U : n - Len(u) <= n - Len(v)
      BY <1>2, <1>3
<1>5. \A v \in U : Len(v) <= Len(u)
      BY <1>4
<1>6. QED BY <1>5 DEF Longest

----------------------------------------------------------------------------
(* What a line means (Reading).                                            *)

LEMMA NumberIs ==
    ASSUME NEW n, n \in Nat \cup {-1}
    PROVE  n \in Int /\ (n > 0 => n \in Nat \ {0})
OBVIOUS

LEMMA WordIs ==
    ASSUME NEW w \in Words
    PROVE  /\ w.number \in Numbers \cup {NoNumber} /\ w.text \in Texts \cup {NoText}
           /\ w.number \in Int
           /\ w.number > 0 => w.number \in Nat \ {0}
           /\ w.number = NoNumber => w.text \in Texts
           /\ w.text = NoText => w.number \in Numbers
           /\ w = [number |-> w.number, text |-> w.text]
<1>1. w \in [number : Numbers \cup {NoNumber}, text : Texts \cup {NoText}]
      BY DEF Words
<1>2. w.number # NoNumber \/ w.text # NoText
      BY DEF Words
<1>3. Numbers \subseteq Nat /\ NoNumber = -1
      BY ReadingAssumption DEF ReadingAssumption, NoNumber
<1>4. w.number \in Numbers \cup {NoNumber} /\ w.text \in Texts \cup {NoText}
      BY <1>1
<1>5. w.number \in Int /\ (w.number > 0 => w.number \in Nat \ {0})
  <2>1. w.number \in Nat \cup {-1}
        BY <1>3, <1>4
  <2>2. QED BY <2>1, NumberIs
<1>6. w = [number |-> w.number, text |-> w.text]
      BY <1>1
<1>7. QED BY <1>2, <1>4, <1>5, <1>6

LEMMA UnitIs ==
    ASSUME NEW u \in Known
    PROVE  u \in Seq(Texts) /\ u # <<>> /\ Len(u) \in Nat \ {0}
<1>1. u \in Seq({Fold[t] : t \in Texts}) /\ u # <<>> /\ {Fold[t] : t \in Texts} \subseteq Texts
      BY ReadingAssumption DEF ReadingAssumption
<1>2. Len(u) \in Nat \ {0}
      BY <1>1
<1>3. u \in Seq(Texts)
      BY <1>1
<1>4. QED BY <1>1, <1>2, <1>3

LEMMA NameIs ==
    ASSUME NEW name \in Names
    PROVE  /\ name \in Seq(Words) /\ Len(name) \in Nat \ {0}
           /\ DOMAIN name = 1..Len(name) /\ \A i \in 1..Len(name) : name[i] \in Words
           /\ Head(name) = name[1] /\ name[1] \in Words /\ Tail(name) \in Seq(Words)
           /\ Last(name) \in Words /\ Front(name) \in Seq(Words)
           /\ Len(Front(name)) = Len(name) - 1
<1>1. name \in Seq(Words) /\ Len(name) \in Nat \ {0}
      BY DEF Names
<1>2. \A i \in 1..Len(name) : name[i] \in Words
      BY <1>1
<1>3. Front(name) \in Seq(Words) /\ Len(Front(name)) = Len(name) - 1
  <2> DEFINE n == Len(name) - 1
  <2>1. n \in Int /\ n >= 0 /\ \A i \in 1..n : name[i] \in Words
        BY <1>1, <1>2
  <2> HIDE DEF n
  <2>2. SubSeq(name, 1, n) \in Seq(Words) /\ Len(SubSeq(name, 1, n)) = IF 1 <= n THEN n - 1 + 1 ELSE 0
        BY <2>1, SubSeqProperties
  <2>3. (IF 1 <= n THEN n - 1 + 1 ELSE 0) = n
        BY <2>1
  <2>4. QED BY <2>2, <2>3 DEF Front, n
<1>4. Last(name) \in Words
      BY <1>1, <1>2 DEF Last
<1>5. DOMAIN name = 1..Len(name) /\ Head(name) = name[1] /\ Tail(name) \in Seq(Words)
      BY <1>1
<1>6. QED BY <1>1, <1>2, <1>3, <1>4, <1>5

LEMMA NamedBy ==
    ASSUME NEW s \in Seq(Words), s # <<>>
    PROVE  s \in Names
BY DEF Names

(* A name as it is stored is a name.                                       *)
LEMMA CapitalisedIsAName ==
    ASSUME NEW name \in Names
    PROVE  Capitalised(name) \in Names
<1> DEFINE Up(i) == IF i = 1 /\ name[i].number = NoNumber
                    THEN [name[i] EXCEPT !.text = Capital[@]] ELSE name[i]
<1>1. Capitalised(name) = [i \in 1..Len(name) |-> Up(i)] /\ Len(name) \in Nat \ {0}
      BY NameIs DEF Capitalised
<1>2. ASSUME NEW i \in 1..Len(name)
      PROVE  Up(i) \in Words
  <2>1. name[i] \in Words
        BY NameIs
  <2>2. CASE name[i].number = NoNumber
    <3>1. name[i].text \in Texts
          BY <2>1, <2>2, WordIs
    <3>2. Capital[name[i].text] \in Texts /\ NoText \notin Texts
          BY <3>1, ReadingAssumption DEF ReadingAssumption
    <3>3. [name[i] EXCEPT !.text = Capital[@]] \in Words
          BY <2>1, <3>2 DEF Words
    <3>4. QED BY <2>1, <3>3
  <2>3. QED BY <2>1, <2>2
<1> HIDE DEF Up
<1>3. [i \in 1..Len(name) |-> Up(i)] \in Seq(Words)
      BY <1>1, <1>2, IsASeq
<1>4. Len([i \in 1..Len(name) |-> Up(i)]) = Len(name)
      BY <1>1, <1>2
<1>5. QED BY <1>1, <1>3, <1>4, NamedBy

(* What is left of a line is a line, or nothing.                           *)
LEMMA AfterIs ==
    ASSUME NEW s \in Seq(Words), NEW u \in Known
    PROVE  After(s, u) \in Seq(Words)
<1> DEFINE m == Len(u) + 1
           n == Len(s)
<1>1. m \in Int /\ m >= 1 /\ n \in Int /\ \A i \in m..n : s[i] \in Words
      BY UnitIs
<1> HIDE DEF m, n
<1>2. SubSeq(s, m, n) \in Seq(Words)
      BY <1>1, SubSeqProperties
<1>3. QED BY <1>2 DEF After, m, n

LEMMA BeforeIs ==
    ASSUME NEW s \in Seq(Words), NEW u \in Known, Len(s) - Len(u) >= 0
    PROVE  Before(s, u) \in Seq(Words)
<1> DEFINE from == Len(s) - Len(u)
           digits == s[from + 1].number
           kept == SubSeq(s, 1, from)
           more == IF digits = NoNumber THEN <<>> ELSE <<[number |-> digits, text |-> NoText]>>
<1>1. from \in Nat /\ from + 1 \in 1..Len(s)
      BY UnitIs
<1>2. s[from + 1] \in Words
      BY <1>1, ElementOfSeq
<1>3. digits \in Numbers \cup {NoNumber}
      BY <1>2, WordIs
<1>4. kept \in Seq(Words)
  <2>1. from \in Int /\ \A i \in 1..from : s[i] \in Words
        BY <1>1
  <2> HIDE DEF from
  <2>2. QED BY <2>1, SubSeqProperties
<1> HIDE DEF digits
<1>5. more \in Seq(Words)
  <2>1. CASE digits = NoNumber
        BY <2>1
  <2>2. CASE digits # NoNumber
    <3>1. [number |-> digits, text |-> NoText] \in Words
          BY <1>3, <2>2 DEF Words
    <3>2. QED BY <2>2, <3>1
  <2>3. QED BY <2>1, <2>2
<1> HIDE DEF kept, more
<1>6. kept \o more \in Seq(Words)
      BY <1>4, <1>5, ConcatProperties
<1>7. QED BY <1>6 DEF Before, from, digits, kept, more

LEMMA AfterNumberIs ==
    ASSUME NEW line \in Names, LeadingNumber(line)
    PROVE  /\ AfterNumber(line) \in Seq(Words)
           /\ Head(line).number \in Nat \ {0}
<1>1. Head(line) \in Words /\ Head(line).number > 0 /\ Tail(line) \in Seq(Words)
      BY NameIs DEF LeadingNumber
<1>2. Head(line).number \in Nat \ {0}
      BY <1>1, WordIs
<1>3. CASE IsNumber(Head(line))
      BY <1>1, <1>2, <1>3 DEF AfterNumber
<1>4. CASE ~IsNumber(Head(line))
  <2> DEFINE word == [Head(line) EXCEPT !.number = NoNumber]
  <2>1. Head(line).text # NoText /\ Head(line).text \in Texts
        BY <1>1, <1>4, WordIs DEF IsNumber
  <2>2. word \in Words
        BY <1>1, <2>1 DEF Words
  <2> HIDE DEF word
  <2>3. <<word>> \in Seq(Words)
        BY <2>2
  <2>4. <<word>> \o Tail(line) \in Seq(Words)
        BY <1>1, <2>3, ConcatProperties
  <2>5. QED BY <1>2, <1>4, <2>4 DEF AfterNumber, word
<1>5. QED BY <1>3, <1>4

(* The longest unit there, where there is one.                             *)
LEMMA LongestBegins ==
    ASSUME NEW s \in Seq(Words), {u \in Known : Begins(s, u)} # {}
    PROVE  Longest({u \in Known : Begins(s, u)}) \in Known
<1> DEFINE U == {u \in Known : Begins(s, u)}
<1>1. \A u \in U : Len(u) \in 0..Len(s)
      BY UnitIs DEF Begins
<1>2. Len(s) \in Nat
      OBVIOUS
<1>3. Longest(U) \in U
  <2>1. U # {}
        OBVIOUS
  <2> HIDE DEF U
  <2>2. QED BY <1>1, <1>2, <2>1, LongestThere
<1>4. QED BY <1>3

LEMMA LongestEnds ==
    ASSUME NEW s \in Seq(Words), {u \in Known : Ends(s, u)} # {}
    PROVE  /\ Longest({u \in Known : Ends(s, u)}) \in Known
           /\ Len(s) - Len(Longest({u \in Known : Ends(s, u)})) >= 0
<1> DEFINE U == {u \in Known : Ends(s, u)}
<1>1. \A u \in U : Len(u) \in 0..Len(s) /\ Len(s) - Len(u) >= 0
      BY UnitIs DEF Ends
<1>2. Len(s) \in Nat
      OBVIOUS
<1>3. Longest(U) \in U
  <2>1. U # {}
        OBVIOUS
  <2> HIDE DEF U
  <2>2. QED BY <1>1, <1>2, <2>1, LongestThere
<1>4. QED BY <1>1, <1>3

LEMMA LongestBare ==
    ASSUME NEW s \in Seq(Words),
           {u \in Bare : Begins(s, u) /\ After(s, u) # <<>>} # {}
    PROVE  Longest({u \in Bare : Begins(s, u) /\ After(s, u) # <<>>})
               \in {u \in Bare : Begins(s, u) /\ After(s, u) # <<>>}
<1> DEFINE U == {u \in Bare : Begins(s, u) /\ After(s, u) # <<>>}
<1>1. Bare \subseteq Known
      BY ReadingAssumption DEF ReadingAssumption
<1>2. \A u \in U : Len(u) \in 0..Len(s)
      BY <1>1, UnitIs DEF Begins
<1>3. Len(s) \in Nat
      OBVIOUS
<1>4. U # {}
      OBVIOUS
<1> HIDE DEF U
<1>5. Longest(U) \in U
      BY <1>2, <1>3, <1>4, LongestThere
<1>6. QED BY <1>5 DEF U

(* What a line is read as: a name that is not empty, a quantity, a unit    *)
(* there is.                                                               *)
Fits(r) == r.name \in Names /\ r.amount \in Nat \ {0} /\ r.unit \in Maybe(Known)

LEMMA StatedFits ==
    ASSUME NEW s \in Seq(Words), s # <<>>, NEW n \in Nat \ {0}, NEW u \in Maybe(Known)
    PROVE  Fits(Stated(s, n, u)) /\ Fits(Unstated(s, u))
BY NamedBy DEF Fits, Stated, Unstated

LEMMA NoUnitFits == None \in Maybe(Known) /\ \A u \in Known : u \in Maybe(Known)
BY DEF Maybe

LEMMA LeadingFits ==
    ASSUME NEW line \in Names, Leading(line) # None
    PROVE  Fits(Leading(line))
<1> DEFINE rest == AfterNumber(line)
           units == {u \in Known : Begins(rest, u)}
           named == units # {} /\ After(rest, Longest(units)) # <<>>
<1>1. LeadingNumber(line) /\ rest # <<>>
      BY DEF Leading
<1>2. rest \in Seq(Words) /\ Head(line).number \in Nat \ {0}
      BY <1>1, AfterNumberIs
<1> HIDE DEF rest
<1>3. CASE named
  <2>1. Longest(units) \in Known
        BY <1>2, <1>3, LongestBegins
  <2> HIDE DEF units
  <2>2. After(rest, Longest(units)) \in Seq(Words)
        BY <1>2, <2>1, AfterIs
  <2>3. Fits(Stated(After(rest, Longest(units)), Head(line).number, Longest(units)))
        BY <1>2, <1>3, <2>1, <2>2, StatedFits, NoUnitFits
  <2>4. QED BY <1>1, <1>3, <2>3 DEF Leading, rest, units
<1>4. CASE ~named
  <2>1. Fits(Stated(rest, Head(line).number, None))
        BY <1>1, <1>2, StatedFits, NoUnitFits
  <2>2. QED BY <1>1, <1>4, <2>1 DEF Leading, rest
<1>5. QED BY <1>3, <1>4

LEMMA TrailingIs ==
    ASSUME NEW s \in Seq(Words), TrailingNumber(s)
    PROVE  /\ Last(s).number \in Nat \ {0} /\ Front(s) \in Seq(Words)
           /\ Len(s) > 1 => Front(s) # <<>>
<1>1. s \in Names
      BY NamedBy DEF TrailingNumber
<1>2. Last(s) \in Words /\ Front(s) \in Seq(Words) /\ Len(Front(s)) = Len(s) - 1
      BY <1>1, NameIs
<1>3. Last(s).number \in Nat \ {0}
      BY <1>2, WordIs DEF TrailingNumber, IsNumber
<1>4. Len(s) > 1 => Front(s) # <<>>
      BY <1>2
<1>5. QED BY <1>2, <1>3, <1>4

LEMMA UnitLastFits ==
    ASSUME NEW line \in Names, UnitLast(line) # None
    PROVE  Fits(UnitLast(line))
<1> DEFINE units == {u \in Known : Ends(line, u)}
           head == Before(line, Longest(units))
<1>1. units # {} /\ TrailingNumber(head) /\ Len(head) > 1
      BY DEF UnitLast
<1>2. Longest(units) \in Known /\ Len(line) - Len(Longest(units)) >= 0
      BY <1>1, NameIs, LongestEnds
<1>3. UnitLast(line) = Stated(Front(head), Last(head).number, Longest(units))
      BY <1>1 DEF UnitLast
<1> HIDE DEF units
<1>4. head \in Seq(Words)
      BY <1>2, NameIs, BeforeIs
<1> HIDE DEF head
<1>5. Last(head).number \in Nat \ {0} /\ Front(head) \in Seq(Words) /\ Front(head) # <<>>
      BY <1>1, <1>4, TrailingIs
<1>6. QED BY <1>2, <1>3, <1>5, StatedFits, NoUnitFits

LEMMA NumberLastFits ==
    ASSUME NEW line \in Names, NumberLast(line) # None
    PROVE  Fits(NumberLast(line))
<1> DEFINE head == Front(line)
           units == {u \in Known : Ends(head, u)}
           named == units # {} /\ Before(head, Longest(units)) # <<>>
<1>1. TrailingNumber(line) /\ head # <<>>
      BY DEF NumberLast
<1>2. Last(line).number \in Nat \ {0} /\ head \in Seq(Words)
      BY <1>1, NameIs, TrailingIs
<1>3. NumberLast(line) =
         IF named THEN Stated(Before(head, Longest(units)), Last(line).number, Longest(units))
         ELSE Stated(head, Last(line).number, None)
      BY <1>1 DEF NumberLast
<1> HIDE DEF head
<1>4. CASE named
  <2>1. Longest(units) \in Known /\ Len(head) - Len(Longest(units)) >= 0
        BY <1>2, <1>4, LongestEnds
  <2> HIDE DEF units
  <2>2. Before(head, Longest(units)) \in Seq(Words)
        BY <1>2, <2>1, BeforeIs
  <2>3. QED BY <1>2, <1>3, <1>4, <2>1, <2>2, StatedFits, NoUnitFits
<1>5. CASE ~named
      BY <1>1, <1>2, <1>3, <1>5, StatedFits, NoUnitFits
<1>6. QED BY <1>4, <1>5

LEMMA BareUnitFits ==
    ASSUME NEW line \in Names, BareUnit(line) # None
    PROVE  Fits(BareUnit(line))
<1> DEFINE units == {u \in Bare : Begins(line, u) /\ After(line, u) # <<>>}
           u0 == Longest(units)
<1>1. units # {} /\ BareUnit(line) = Unstated(After(line, u0), u0)
      BY DEF BareUnit
<1>2. u0 \in units
      BY <1>1, NameIs, LongestBare
<1> HIDE DEF u0
<1>3. u0 \in Known /\ After(line, u0) # <<>>
      BY <1>2, ReadingAssumption DEF ReadingAssumption
<1>4. After(line, u0) \in Seq(Words)
      BY <1>3, NameIs, AfterIs
<1>5. 1 \in Nat \ {0}
      OBVIOUS
<1>6. QED BY <1>1, <1>3, <1>4, <1>5, StatedFits, NoUnitFits

(* Every line is read as something that can be put on a list.              *)
LEMMA ParseFits ==
    ASSUME NEW line \in Names
    PROVE  Fits(Parse(line))
<1>1. Fits(Unstated(line, None))
  <2>1. line \in Seq(Words) /\ line # <<>> /\ 1 \in Nat \ {0}
        BY DEF Names
  <2>2. QED BY <2>1, StatedFits, NoUnitFits
<1>2. QED BY <1>1, LeadingFits, UnitLastFits, NumberLastFits, BareUnitFits DEF Parse, OrElse

----------------------------------------------------------------------------
(* The field a line is typed in (AddField).  A line is cut into its words. *)

LEMMA LoweredIs ==
    ASSUME NEW w \in Words
    PROVE  /\ Lowered(w) \in Words /\ Lowered(w).number = w.number
           /\ w.text = NoText => Lowered(w) = w
           /\ w.text # NoText => w.text \in Texts /\ Lowered(w).text = Fold[w.text]
<1>1. w.text \in Texts \cup {NoText} /\ w = [number |-> w.number, text |-> w.text]
      BY WordIs
<1>2. CASE w.text = NoText
      BY <1>2 DEF Lowered
<1>3. CASE w.text # NoText
  <2>1. Fold[w.text] \in Texts /\ NoText \notin Texts
        BY <1>1, <1>3, ReadingAssumption DEF ReadingAssumption
  <2>2. Lowered(w) = [w EXCEPT !.text = Fold[w.text]]
        BY <1>3 DEF Lowered
  <2>3. Lowered(w) = [number |-> w.number, text |-> Fold[w.text]]
        BY <1>1, <2>2
  <2>4. Lowered(w) \in Words
    <3>1. w.number \in Numbers \cup {NoNumber}
          BY WordIs
    <3>2. QED BY <2>1, <2>3, <3>1 DEF Words
  <2>5. QED BY <1>1, <1>3, <2>3, <2>4
<1>4. QED BY <1>2, <1>3

(* The texts of a unit are in lower case.                                  *)
LEMMA TextIs ==
    ASSUME NEW u \in Known, NEW i \in 1..Len(u)
    PROVE  u[i] \in Texts /\ Fold[u[i]] = u[i] /\ u[i] # NoText
<1>1. u \in Seq({Fold[t] : t \in Texts})
      BY ReadingAssumption DEF ReadingAssumption
<1>2. u[i] \in {Fold[t] : t \in Texts}
      BY <1>1, ElementOfSeq
<1>3. PICK t \in Texts : u[i] = Fold[t]
      BY <1>2
<1>4. Fold[t] \in Texts /\ Fold[Fold[t]] = Fold[t] /\ NoText \notin Texts
      BY <1>3, ReadingAssumption DEF ReadingAssumption
<1>5. QED BY <1>3, <1>4

LEMMA LetterIs ==
    ASSUME NEW u \in Known, NEW i \in 1..Len(u)
    PROVE  /\ Letter(u[i]) \in Words /\ Lowered(Letter(u[i])) = Letter(u[i])
           /\ IsText(Letter(u[i]), u[i])
<1> DEFINE t == u[i]
<1>1. t \in Texts /\ Fold[t] = t /\ t # NoText
      BY TextIs
<1> HIDE DEF t
<1>2. Letter(t) \in Words
      BY <1>1 DEF Letter, Words
<1>3. Lowered(Letter(t)) = [Letter(t) EXCEPT !.text = Fold[t]]
      BY <1>1 DEF Letter, Lowered
<1>4. Lowered(Letter(t)) = Letter(t)
      BY <1>1, <1>3 DEF Letter
<1>5. QED BY <1>2, <1>4 DEF IsText, Letter, t

LEMMA DigitsIs ==
    ASSUME NEW n \in Numbers
    PROVE  /\ Digits(n) \in Words /\ Lowered(Digits(n)) = Digits(n)
           /\ n > 0 => IsNumber(Digits(n))
           /\ \A t \in Texts : ~IsText(Digits(n), t)
<1>1. n \in Nat /\ n # NoNumber /\ NoText \notin Texts
      BY ReadingAssumption DEF ReadingAssumption, NoNumber
<1>2. Digits(n) \in Words
      BY <1>1 DEF Digits, Words
<1>3. Lowered(Digits(n)) = Digits(n)
      BY DEF Digits, Lowered
<1>4. QED BY <1>1, <1>2, <1>3 DEF Digits, IsNumber, IsText

(* A word that is a quantity is its digits.                                *)
LEMMA NumberIsDigits ==
    ASSUME NEW w \in Words, IsNumber(w)
    PROVE  w = Digits(w.number) /\ w.number \in Numbers
<1>1. w.text = NoText /\ w = [number |-> w.number, text |-> w.text] /\ w.number \in Numbers
      BY WordIs DEF IsNumber
<1>2. QED BY <1>1 DEF Digits

LEMMA TextIsLetter ==
    ASSUME NEW w \in Words, NEW t, IsText(w, t)
    PROVE  Lowered(w) = Letter(t) /\ w.number = NoNumber /\ w.text # NoText
<1>1. Lowered(w) = Letter(t) /\ Lowered(w).number = NoNumber
      BY DEF IsText, Letter
<1>2. w.number = NoNumber
      BY <1>1, LoweredIs
<1>3. w.text # NoText
      BY <1>2 DEF Words
<1>4. QED BY <1>1, <1>2, <1>3

LEMMA SpeltIs ==
    ASSUME NEW u \in Known
    PROVE  /\ Spelt(u) \in Seq(Words) /\ Len(Spelt(u)) = Len(u)
           /\ \A i \in 1..Len(u) : Spelt(u)[i] = Letter(u[i])
<1>1. u # None /\ u \in Seq(Texts) /\ DOMAIN u = 1..Len(u) /\ Len(u) \in Nat
      BY UnitIs, ReadingAssumption DEF ReadingAssumption
<1>2. Spelt(u) = [i \in 1..Len(u) |-> Letter(u[i])]
      BY <1>1 DEF Spelt
<1>3. \A i \in 1..Len(u) : Letter(u[i]) \in Words
      BY LetterIs
<1> DEFINE e(i) == Letter(u[i])
<1>4. \A i \in 1..Len(u) : e(i) \in Words
      BY <1>3
<1> HIDE DEF e
<1>5. [i \in 1..Len(u) |-> e(i)] \in Seq(Words)
      BY <1>1, <1>4, IsASeq
<1>6. Len([i \in 1..Len(u) |-> e(i)]) = Len(u)
      BY <1>1
<1>7. QED BY <1>2, <1>5, <1>6 DEF e

(* What a line is matched by, word for word.                               *)
LEMMA KeyIs ==
    ASSUME NEW s \in Seq(Words)
    PROVE  /\ Key(s) \in Seq(Words) /\ Len(Key(s)) = Len(s)
           /\ \A i \in 1..Len(s) : Key(s)[i] = Lowered(s[i])
<1> DEFINE e(i) == Lowered(s[i])
<1>1. Len(s) \in Nat /\ DOMAIN s = 1..Len(s) /\ \A i \in 1..Len(s) : s[i] \in Words
      OBVIOUS
<1>2. \A i \in 1..Len(s) : e(i) \in Words
      BY <1>1, LoweredIs
<1>3. Key(s) = [i \in 1..Len(s) |-> e(i)]
      BY <1>1 DEF Key
<1> HIDE DEF e
<1>4. [i \in 1..Len(s) |-> e(i)] \in Seq(Words)
      BY <1>1, <1>2, IsASeq
<1>5. Len([i \in 1..Len(s) |-> e(i)]) = Len(s)
      BY <1>1
<1>6. QED BY <1>3, <1>4, <1>5 DEF e

LEMMA KeyOfBoth ==
    ASSUME NEW s \in Seq(Words), NEW t \in Seq(Words)
    PROVE  Key(s \o t) = Key(s) \o Key(t)
<1> DEFINE a == s \o t
           b == Key(s) \o Key(t)
<1>1. /\ a \in Seq(Words) /\ Len(a) = Len(s) + Len(t)
      /\ \A i \in 1..Len(s) + Len(t) : a[i] = IF i <= Len(s) THEN s[i] ELSE t[i - Len(s)]
      BY ConcatProperties
<1>2. /\ b \in Seq(Words) /\ Len(b) = Len(s) + Len(t)
      /\ \A i \in 1..Len(s) + Len(t) :
            b[i] = IF i <= Len(s) THEN Key(s)[i] ELSE Key(t)[i - Len(s)]
  <2> DEFINE ks == Key(s)
             kt == Key(t)
  <2>1. ks \in Seq(Words) /\ kt \in Seq(Words) /\ Len(ks) = Len(s) /\ Len(kt) = Len(t)
        BY KeyIs
  <2> HIDE DEF ks, kt
  <2>2. /\ ks \o kt \in Seq(Words) /\ Len(ks \o kt) = Len(ks) + Len(kt)
        /\ \A i \in 1..Len(ks) + Len(kt) :
              (ks \o kt)[i] = IF i <= Len(ks) THEN ks[i] ELSE kt[i - Len(ks)]
        BY <2>1, ConcatProperties
  <2>3. QED BY <2>1, <2>2 DEF ks, kt
<1> HIDE DEF a, b
<1>3. Key(a) \in Seq(Words) /\ Len(Key(a)) = Len(b)
      BY <1>1, <1>2, KeyIs
<1>4. ASSUME NEW i \in 1..Len(s) + Len(t)
      PROVE  Key(a)[i] = b[i]
  <2>1. Key(a)[i] = Lowered(a[i])
        BY <1>1, KeyIs
  <2>2. Len(s) \in Nat /\ Len(t) \in Nat
        OBVIOUS
  <2>3. CASE i <= Len(s)
        BY <1>1, <1>2, <2>1, <2>2, <2>3, KeyIs
  <2>4. CASE ~(i <= Len(s))
    <3>1. i - Len(s) \in 1..Len(t)
          BY <2>2, <2>4
    <3>2. QED BY <1>1, <1>2, <2>1, <2>4, <3>1, KeyIs
  <2>5. QED BY <2>3, <2>4
<1>5. Key(a) = b
      BY <1>1, <1>2, <1>3, <1>4, SeqEqual
<1>6. QED BY <1>5 DEF a, b

LEMMA KeyOfOne ==
    ASSUME NEW w \in Words
    PROVE  Key(<<w>>) = <<Lowered(w)>> /\ <<w>> \in Seq(Words) /\ <<Lowered(w)>> \in Seq(Words)
BY LoweredIs DEF Key

(* A line cut in two.                                                      *)
LEMMA CutIs ==
    ASSUME NEW s \in Seq(Words), NEW k \in 0..Len(s)
    PROVE  /\ SubSeq(s, 1, k) \in Seq(Words) /\ Len(SubSeq(s, 1, k)) = k
           /\ \A i \in 1..k : SubSeq(s, 1, k)[i] = s[i]
           /\ SubSeq(s, k + 1, Len(s)) \in Seq(Words)
           /\ Len(SubSeq(s, k + 1, Len(s))) = Len(s) - k
           /\ \A i \in 1..Len(s) - k : SubSeq(s, k + 1, Len(s))[i] = s[k + i]
           /\ s = SubSeq(s, 1, k) \o SubSeq(s, k + 1, Len(s))
<1> DEFINE n == Len(s)
           m == k + 1
<1>1. n \in Nat /\ k \in Int /\ m \in Int /\ \A i \in 1..n : s[i] \in Words
      OBVIOUS
<1>2. /\ SubSeq(s, 1, k) \in Seq(Words)
      /\ Len(SubSeq(s, 1, k)) = IF 1 <= k THEN k - 1 + 1 ELSE 0
      /\ \A i \in 1..k - 1 + 1 : SubSeq(s, 1, k)[i] = s[1 + i - 1]
  <2>1. \A i \in 1..k : s[i] \in Words
        BY <1>1
  <2>2. QED BY <1>1, <2>1, SubSeqProperties
<1>3. /\ SubSeq(s, m, n) \in Seq(Words)
      /\ Len(SubSeq(s, m, n)) = IF m <= n THEN n - m + 1 ELSE 0
      /\ \A i \in 1..n - m + 1 : SubSeq(s, m, n)[i] = s[m + i - 1]
  <2>1. \A i \in m..n : s[i] \in Words
        BY <1>1
  <2> HIDE DEF m, n
  <2>2. QED BY <1>1, <2>1, SubSeqProperties
<1>4. Len(SubSeq(s, 1, k)) = k /\ \A i \in 1..k : SubSeq(s, 1, k)[i] = s[i]
      BY <1>1, <1>2
<1>5. Len(SubSeq(s, m, n)) = n - k /\ \A i \in 1..n - k : SubSeq(s, m, n)[i] = s[k + i]
      BY <1>1, <1>3
<1>6. s = SubSeq(s, 1, k) \o SubSeq(s, m, n)
  <2>1. SubSeq(s, 1, k) \o SubSeq(s, k + 1, Len(s)) = SubSeq(s, 1, Len(s))
    <3>1. 1 \in 1..Len(s) + 1 /\ k \in 1 - 1..Len(s) /\ Len(s) \in k..Len(s)
          BY <1>1
    <3>2. QED BY <3>1, ConcatAdjacentSubSeq
  <2>2. QED BY <2>1, SubSeqFull DEF m, n
<1>7. QED BY <1>2, <1>3, <1>4, <1>5, <1>6

LEMMA FrontAndLast ==
    ASSUME NEW s \in Names
    PROVE  s = Front(s) \o <<Last(s)>>
<1> DEFINE k == Len(s) - 1
<1>1. Len(s) \in Nat \ {0} /\ k \in 0..Len(s) /\ s \in Seq(Words) /\ s[Len(s)] \in Words
      BY NameIs
<1>2. s = SubSeq(s, 1, k) \o SubSeq(s, k + 1, Len(s))
      BY <1>1, CutIs
<1>3. SubSeq(s, k + 1, Len(s)) = <<s[Len(s)]>>
  <2>1. /\ SubSeq(s, k + 1, Len(s)) \in Seq(Words) /\ Len(SubSeq(s, k + 1, Len(s))) = 1
        /\ SubSeq(s, k + 1, Len(s))[1] = s[k + 1]
        BY <1>1, CutIs
  <2>2. k + 1 = Len(s)
        BY <1>1
  <2> DEFINE t == SubSeq(s, k + 1, Len(s))
  <2> HIDE DEF t, k
  <2>3. t \in Seq(Words) /\ Len(t) = 1 /\ t[1] = s[Len(s)]
        BY <2>1, <2>2 DEF t
  <2>4. t = <<s[Len(s)]>>
        BY <2>3, <1>1
  <2>5. QED BY <2>4 DEF t
<1>4. QED BY <1>2, <1>3 DEF Front, Last

LEMMA HeadAndTail ==
    ASSUME NEW s \in Names
    PROVE  s = <<s[1]>> \o Tail(s)
<1>1. s \in Seq(Words) /\ s # <<>> /\ Len(s) \in Nat \ {0}
      BY NameIs DEF Names
<1>2. /\ Tail(s) \in Seq(Words) /\ Len(Tail(s)) = Len(s) - 1 /\ s[1] \in Words
      /\ \A i \in 1..Len(s) - 1 : Tail(s)[i] = s[i + 1]
      BY <1>1, HeadTailProperties
<1> DEFINE w == <<s[1]>>
           t == Tail(s)
<1>3. w \in Seq(Words) /\ Len(w) = 1 /\ w[1] = s[1]
      BY <1>2
<1> HIDE DEF w, t
<1>4. /\ w \o t \in Seq(Words) /\ Len(w \o t) = 1 + (Len(s) - 1)
      /\ \A i \in 1..1 + (Len(s) - 1) : (w \o t)[i] = IF i <= 1 THEN w[i] ELSE t[i - 1]
  <2>1. w \in Seq(Words) /\ t \in Seq(Words)
        BY <1>2, <1>3 DEF t
  <2>2. /\ w \o t \in Seq(Words) /\ Len(w \o t) = Len(w) + Len(t)
        /\ \A i \in 1..Len(w) + Len(t) :
              (w \o t)[i] = IF i <= Len(w) THEN w[i] ELSE t[i - Len(w)]
        BY ONLY <2>1, ConcatProperties, ZenonT(60)
  <2>3. Len(t) = Len(s) - 1
        BY <1>2 DEF t
  <2>4. QED BY <1>1, <1>3, <2>2, <2>3
<1>5. \A i \in 1..Len(s) : (w \o t)[i] = s[i]
  <2>1. TAKE i \in 1..Len(s)
  <2>2. CASE i = 1
        BY <1>1, <1>3, <1>4, <2>2
  <2>3. CASE i # 1
    <3>1. i - 1 \in 1..Len(s) - 1 /\ (i - 1) + 1 = i /\ ~(i <= 1) /\ i \in 1..1 + (Len(s) - 1)
          BY <1>1, <2>3
    <3>2. t[i - 1] = s[i]
          BY <1>2, <3>1 DEF t
    <3>3. QED BY <1>4, <3>1, <3>2
  <2>4. QED BY <2>2, <2>3
<1>6. Len(w \o t) = Len(s)
      BY <1>1, <1>4
<1>7. w \o t = s
      BY <1>1, <1>4, <1>5, <1>6, SeqEqual
<1>8. QED BY <1>7 DEF w, t

(* Two words apart.                                                        *)
LEMMA GluedIs ==
    ASSUME NEW w \in Words, IsGlued(w)
    PROVE  /\ w.number \in Numbers /\ w.text \in Texts
           /\ Digits(w.number) \in Words /\ Letter(w.text) \in Words
           /\ Lowered(Letter(w.text)) = Letter(Fold[w.text])
           /\ Lowered(w).text = Fold[w.text]
<1>1. /\ w.number \in Numbers /\ w.text \in Texts /\ w.text # NoText
      /\ NoNumber \notin Numbers /\ NoText \notin Texts
      BY WordIs, ReadingAssumption DEF ReadingAssumption, IsGlued, NoNumber
<1> DEFINE t == w.text
<1>2. Digits(w.number) \in Words
      BY <1>1, DigitsIs
<1>3. Letter(t) \in Words
      BY <1>1 DEF Letter, Words
<1>4. Lowered(w).text = Fold[t]
      BY <1>1, LoweredIs
<1>5. Lowered(Letter(t)) = Letter(Fold[t])
  <2> HIDE DEF t
  <2>1. t # NoText
        BY <1>1 DEF t
  <2>2. Letter(t).text = t
        BY DEF Letter
  <2>3. Lowered(Letter(t)) = [Letter(t) EXCEPT !.text = Fold[t]]
        BY <2>1, <2>2 DEF Lowered
  <2>4. QED BY <2>3 DEF Letter
<1>6. QED BY <1>1, <1>2, <1>3, <1>4, <1>5

LEMMA Linked ==
    \A x, y, z \in Seq(Words) : (x \o y) \o z = x \o (y \o z)
BY ConcatAssociative

LEMMA TwoWords ==
    ASSUME NEW v \in Words, NEW w \in Words
    PROVE  <<v, w>> = <<v>> \o <<w>>
<1>1. <<v>> \in Seq(Words) /\ <<w>> \in Seq(Words) /\ <<v, w>> \in Seq(Words)
      OBVIOUS
<1> DEFINE a == <<v>> \o <<w>>
           b == <<v, w>>
<1>2. a = Append(<<v>>, w)
      BY <1>1, AppendIsConcat
<1>3. a \in Seq(Words) /\ Len(a) = 2 /\ a[1] = v /\ a[2] = w
      BY <1>1, <1>2, AppendProperties
<1>4. b \in Seq(Words) /\ Len(b) = 2 /\ b[1] = v /\ b[2] = w
      BY <1>1
<1> HIDE DEF a, b
<1>5. \A i \in 1..Len(a) : a[i] = b[i]
      BY <1>3, <1>4
<1>6. a = b
      BY <1>3, <1>4, <1>5, SeqEqual
<1>7. QED BY <1>6 DEF a, b

LEMMA ApartIs ==
    ASSUME NEW s \in Seq(Words), NEW i \in 1..Len(s), IsGlued(s[i])
    PROVE  /\ Apart(s, i) \in Seq(Words) /\ Apart(s, i) \in TakenApart(s)
           /\ Apart(s, i) = (SubSeq(s, 1, i - 1) \o <<Digits(s[i].number)>>)
                             \o (<<Letter(s[i].text)>> \o SubSeq(s, i + 1, Len(s)))
<1> DEFINE a == SubSeq(s, 1, i - 1)
           b == SubSeq(s, i + 1, Len(s))
           d == Digits(s[i].number)
           l == Letter(s[i].text)
<1>1. s[i] \in Words /\ Len(s) \in Nat /\ i - 1 \in 0..Len(s) /\ i \in 0..Len(s)
      OBVIOUS
<1>2. a \in Seq(Words) /\ b \in Seq(Words)
      BY <1>1, CutIs
<1>3. d \in Words /\ l \in Words
      BY <1>1, GluedIs
<1>4. Apart(s, i) = (a \o <<d, l>>) \o b
      BY DEF Apart
<1>5. Apart(s, i) \in TakenApart(s)
      BY DEF TakenApart
<1> HIDE DEF a, b, d, l
<1>6. <<d>> \in Seq(Words) /\ <<l>> \in Seq(Words) /\ <<d, l>> \in Seq(Words)
      BY <1>3
<1>7. <<d, l>> = <<d>> \o <<l>>
      BY <1>3, TwoWords
<1>8. a \o <<d, l>> = (a \o <<d>>) \o <<l>> /\ a \o <<d>> \in Seq(Words)
      BY <1>2, <1>6, <1>7, ConcatAssociative, ConcatProperties
<1>9. ((a \o <<d>>) \o <<l>>) \o b = (a \o <<d>>) \o (<<l>> \o b)
  <2>2. a \o <<d>> \in Seq(Words) /\ <<l>> \in Seq(Words) /\ b \in Seq(Words)
        BY <1>2, <1>6, <1>8
  <2>3. QED BY <2>2, Linked, SMTT(60)
<1>10. <<l>> \o b \in Seq(Words)
      BY <1>2, <1>6, ConcatProperties
<1>11. (a \o <<d>>) \o (<<l>> \o b) \in Seq(Words)
      BY <1>8, <1>10, ConcatProperties
<1>12. QED BY <1>4, <1>5, <1>8, <1>9, <1>11 DEF a, b, d, l

(* A number in front.                                                      *)
LEMMA LeadingIs ==
    ASSUME NEW line \in Names, LeadingNumber(line)
    PROVE  LET n == Head(line).number
           IN /\ n \in Numbers /\ n > 0 /\ AfterNumber(line) \in Seq(Words)
              /\ <<Digits(n)>> \o AfterNumber(line) \in TakenApart(line)
<1> DEFINE w == line[1]
<1>1. /\ line \in Seq(Words) /\ Head(line) = w /\ w \in Words /\ w.number > 0
      /\ Tail(line) \in Seq(Words) /\ Len(line) \in Nat \ {0}
      BY NameIs DEF LeadingNumber
<1>2. w.number # NoNumber /\ w.number \in Numbers
      BY <1>1, WordIs DEF NoNumber
<1>3. AfterNumber(line) \in Seq(Words)
      BY AfterNumberIs
<1>4. <<Digits(w.number)>> \o AfterNumber(line) \in TakenApart(line)
  <2>1. CASE IsNumber(w)
    <3>1. w = Digits(w.number) /\ AfterNumber(line) = Tail(line)
          BY <1>1, <2>1, NumberIsDigits DEF AfterNumber
    <3>2. QED BY <3>1, HeadAndTail DEF TakenApart
  <2>2. CASE ~IsNumber(w)
    <3>1. w.text # NoText /\ w = [number |-> w.number, text |-> w.text]
          BY <1>1, <2>2, WordIs DEF IsNumber
    <3>2. IsGlued(line[1])
          BY <1>2, <3>1 DEF IsGlued
    <3>3. [w EXCEPT !.number = NoNumber] = Letter(w.text)
          BY <3>1 DEF Letter
    <3>4. AfterNumber(line) = <<Letter(w.text)>> \o Tail(line)
          BY <1>1, <2>2, <3>3 DEF AfterNumber
    <3>5. /\ Apart(line, 1) \in TakenApart(line)
          /\ Apart(line, 1) = (SubSeq(line, 1, 1 - 1) \o <<Digits(w.number)>>)
                              \o (<<Letter(w.text)>> \o SubSeq(line, 1 + 1, Len(line)))
      <4>1. 1 \in 1..Len(line)
            BY <1>1
      <4>2. QED BY <1>1, <3>2, <4>1, ApartIs
    <3>6. SubSeq(line, 1, 1 - 1) = <<>> /\ SubSeq(line, 1 + 1, Len(line)) = Tail(line)
      <4>1. line # <<>> /\ SubSeq(line, 2, Len(line)) = Tail(line)
            BY <1>1, TailIsSubSeq DEF Names
      <4>2. SubSeq(line, 1, 0) = <<>>
            BY SubSeqEmpty
      <4>3. QED BY <4>1, <4>2
    <3>7. <<>> \o <<Digits(w.number)>> = <<Digits(w.number)>>
      <4>1. <<Digits(w.number)>> \in Seq(Words)
            BY <1>2, DigitsIs, KeyOfOne
      <4>2. QED BY <4>1, ConcatEmptySeq
    <3>8. QED BY <3>4, <3>5, <3>6, <3>7
  <2>3. QED BY <2>1, <2>2
<1>5. QED BY <1>1, <1>2, <1>3, <1>4

(* Words that spell a unit.                                                *)
LEMMA SpellsIt ==
    ASSUME NEW s \in Seq(Words), NEW u \in Known, Len(s) = Len(u),
           \A i \in 1..Len(u) : Lowered(s[i]) = Letter(u[i])
    PROVE  Key(s) = Spelt(u)
<1> DEFINE k == Key(s)
           v == Spelt(u)
<1>1. k \in Seq(Words) /\ Len(k) = Len(s) /\ \A i \in 1..Len(s) : k[i] = Lowered(s[i])
      BY KeyIs
<1>2. v \in Seq(Words) /\ Len(v) = Len(u) /\ \A i \in 1..Len(u) : v[i] = Letter(u[i])
      BY SpeltIs
<1> HIDE DEF k, v
<1>3. k = v
  <2>1. Len(k) = Len(v) /\ \A i \in 1..Len(k) : k[i] = v[i]
        BY <1>1, <1>2
  <2>2. QED BY <1>1, <1>2, <2>1, SeqEqual
<1>4. QED BY <1>3 DEF k, v

LEMMA BeginsIs ==
    ASSUME NEW s \in Seq(Words), NEW u \in Known, Begins(s, u)
    PROVE  After(s, u) \in Seq(Words) /\ Key(s) = Spelt(u) \o Key(After(s, u))
<1> DEFINE m == Len(u)
           a == SubSeq(s, 1, m)
           b == SubSeq(s, m + 1, Len(s))
<1>1. m \in 0..Len(s) /\ \A i \in 1..m : IsText(s[i], u[i])
      BY UnitIs DEF Begins
<1>2. /\ a \in Seq(Words) /\ Len(a) = m /\ \A i \in 1..m : a[i] = s[i]
      /\ b \in Seq(Words) /\ s = a \o b
      BY <1>1, CutIs
<1>3. \A i \in 1..m : Lowered(a[i]) = Letter(u[i])
  <2>1. TAKE i \in 1..m
  <2>2. a[i] \in Words /\ IsText(a[i], u[i])
    <3>1. i \in 1..Len(s) /\ a[i] = s[i]
          BY <1>1, <1>2
    <3>2. s[i] \in Words
          BY <3>1
    <3> HIDE DEF a
    <3>3. QED BY <1>1, <3>1, <3>2
  <2>3. QED BY <2>2, TextIsLetter
<1>4. After(s, u) = b
      BY DEF After
<1> HIDE DEF a, b
<1>5. Key(a) = Spelt(u)
      BY <1>2, <1>3, SpellsIt
<1>6. Key(s) = Key(a) \o Key(b)
      BY <1>2, KeyOfBoth
<1>7. QED BY <1>2, <1>4, <1>5, <1>6

(* A unit at the end of a line, glued to a number or not.                  *)
LEMMA EndsIs ==
    ASSUME NEW s \in Seq(Words), NEW u \in Known, Ends(s, u)
    PROVE  /\ Before(s, u) \in Seq(Words)
           /\ \E line \in TakenApart(s) :
                 line \in Seq(Words) /\ Key(line) = Key(Before(s, u)) \o Spelt(u)
<1> DEFINE m == Len(s) - Len(u)
           w == s[m + 1]
           a == SubSeq(s, 1, m)
           b == SubSeq(s, m + 1, Len(s))
           c == SubSeq(s, (m + 1) + 1, Len(s))
<1>1. /\ m \in 0..Len(s) /\ m + 1 \in 0..Len(s) /\ m + 1 \in 1..Len(s)
      /\ Len(u) \in Nat \ {0} /\ Len(s) - m = Len(u) /\ Len(s) - (m + 1) = Len(u) - 1
      /\ (m + 1) - 1 = m
  <2>1. Len(u) \in Nat \ {0} /\ Len(s) \in Nat /\ m >= 0
        BY UnitIs DEF Ends
  <2>2. QED BY <2>1
<1>2. \A i \in 1..Len(u) : \/ IsText(s[m + i], u[i])
                           \/ i = 1 /\ Lowered(s[m + i]).text = u[i]
      BY UnitIs DEF Ends
<1>3. Before(s, u) \in Seq(Words)
      BY <1>1, BeforeIs
<1>4. w \in Words
      BY <1>1
<1>5. Before(s, u) = a \o (IF w.number = NoNumber THEN <<>>
                           ELSE <<[number |-> w.number, text |-> NoText]>>)
      BY DEF Before
<1>6. /\ a \in Seq(Words) /\ b \in Seq(Words) /\ Len(b) = Len(u) /\ s = a \o b
      /\ \A i \in 1..Len(u) : b[i] = s[m + i]
  <2>1. /\ a \in Seq(Words) /\ b \in Seq(Words) /\ Len(b) = Len(s) - m /\ s = a \o b
        /\ \A i \in 1..Len(s) - m : b[i] = s[m + i]
    <3>1. m \in 0..Len(s)
          BY <1>1
    <3> HIDE DEF m
    <3>2. QED BY <3>1, CutIs
  <2>2. Len(s) - m = Len(u)
        BY <1>1
  <2> HIDE DEF a, b, m
  <2>3. QED BY <2>1, <2>2
<1>7. /\ c \in Seq(Words) /\ Len(c) = Len(u) - 1
      /\ \A i \in 1..Len(u) - 1 : c[i] = s[(m + 1) + i]
      BY <1>1, CutIs
<1>8. \A i \in 2..Len(u) : Lowered(s[m + i]) = Letter(u[i])
  <2>1. TAKE i \in 2..Len(u)
  <2>2. m + i \in 1..Len(s) /\ i \in 1..Len(u) /\ i # 1
        BY <1>1
  <2>3. s[m + i] \in Words /\ IsText(s[m + i], u[i])
        BY <1>2, <2>2
  <2>4. QED BY <2>3, TextIsLetter
<1>9. 1 \in 1..Len(u)
      BY <1>1
<1>10. Lowered(w).text = u[1]
  <2>1. IsText(w, u[1]) => Lowered(w).text = u[1]
        BY DEF IsText
  <2>2. QED BY <1>2, <1>9, <2>1
<1>11. CASE w.number = NoNumber
  <2> HIDE DEF m, w, a, b
  <2>1. Before(s, u) = a
        BY <1>5, <1>6, <1>11, ConcatEmptySeq
  <2>2. Lowered(w) = Letter(u[1])
    <3>1. w.text # NoText /\ w.text \in Texts
          BY <1>4, <1>11, WordIs DEF Words
    <3>2. Lowered(w) = [number |-> Lowered(w).number, text |-> Lowered(w).text]
          BY <1>4, LoweredIs, WordIs
    <3>3. Lowered(w).number = NoNumber
          BY <1>4, <1>11, LoweredIs
    <3>4. QED BY <1>10, <3>2, <3>3 DEF Letter
  <2>3. \A i \in 1..Len(u) : Lowered(b[i]) = Letter(u[i])
    <3>1. TAKE i \in 1..Len(u)
    <3>2. CASE i = 1
          BY <1>6, <2>2, <3>2 DEF w
    <3>3. CASE i # 1
      <4>1. i \in 2..Len(u)
            BY <1>1, <3>3
      <4>2. QED BY <1>6, <1>8, <4>1
    <3>4. QED BY <3>2, <3>3
  <2>4. Key(b) = Spelt(u)
        BY <1>6, <2>3, SpellsIt
  <2>5. Key(s) = Key(a) \o Key(b)
        BY <1>6, KeyOfBoth
  <2>6. s \in TakenApart(s)
        BY DEF TakenApart
  <2>7. QED BY <1>3, <2>1, <2>4, <2>5, <2>6
<1>12. CASE w.number # NoNumber
  <2> DEFINE l == Letter(w.text)
             d == Digits(w.number)
             p == Apart(s, m + 1)
             q == <<l>> \o c
  <2>1. w.text # NoText
    <3>1. w.text = NoText => Lowered(w).text = NoText
          BY DEF Lowered
    <3>2. u[1] # NoText
          BY <1>9, TextIs
    <3>3. QED BY <1>10, <3>1, <3>2
  <2>2. IsGlued(s[m + 1])
        BY <1>12, <2>1 DEF IsGlued
  <2>3. /\ d \in Words /\ l \in Words /\ Lowered(l) = Letter(u[1])
    <3>1. w \in Words /\ IsGlued(w)
          BY <1>4, <2>2
    <3> HIDE DEF w
    <3>2. QED BY <1>10, <3>1, GluedIs
  <2>4. p \in Seq(Words) /\ p \in TakenApart(s) /\ p = (a \o <<d>>) \o q
    <3>1. /\ p \in Seq(Words) /\ p \in TakenApart(s)
          /\ p = (SubSeq(s, 1, (m + 1) - 1) \o <<d>>) \o q
          BY <1>1, <2>2, ApartIs
    <3>2. (m + 1) - 1 = m
          BY <1>1
    <3>3. QED BY <3>1, <3>2
  <2>5. Before(s, u) = a \o <<d>>
        BY <1>5, <1>12 DEF Digits
  <2> HIDE DEF m, w, a, b, c, d, l, p, q
  <2>6. <<l>> \in Seq(Words) /\ Len(<<l>>) = 1 /\ <<l>>[1] = l
        BY <2>3
  <2>7. /\ q \in Seq(Words) /\ Len(q) = Len(u) /\ q[1] = l
        /\ \A i \in 2..Len(u) : q[i] = s[m + i]
    <3> DEFINE o == <<l>>
    <3>1. o \in Seq(Words) /\ Len(o) = 1 /\ o[1] = l /\ q = o \o c
          BY <2>6 DEF q
    <3> HIDE DEF o
    <3>2. /\ q \in Seq(Words) /\ Len(q) = 1 + (Len(u) - 1)
          /\ \A i \in 1..1 + (Len(u) - 1) : q[i] = IF i <= 1 THEN o[i] ELSE c[i - 1]
      <4>1. /\ q \in Seq(Words) /\ Len(q) = Len(o) + Len(c)
            /\ \A i \in 1..Len(o) + Len(c) :
                  q[i] = IF i <= Len(o) THEN o[i] ELSE c[i - Len(o)]
            BY <1>7, <3>1, ConcatProperties
      <4>2. QED BY <1>7, <3>1, <4>1
    <3>3. Len(q) = Len(u) /\ q[1] = l
          BY <1>1, <3>1, <3>2
    <3>4. \A i \in 2..Len(u) : q[i] = s[m + i]
      <4>1. TAKE i \in 2..Len(u)
      <4>2. i \in 1..1 + (Len(u) - 1) /\ ~(i <= 1) /\ i - 1 \in 1..Len(u) - 1
            BY <1>1
      <4>3. (m + 1) + (i - 1) = m + i
            BY <1>1
      <4>4. c[i - 1] = s[m + i]
            BY <1>7, <4>2, <4>3
      <4>5. QED BY <3>2, <4>2, <4>4
    <3>5. QED BY <3>2, <3>3, <3>4
  <2>8. \A i \in 1..Len(u) : Lowered(q[i]) = Letter(u[i])
    <3>1. TAKE i \in 1..Len(u)
    <3>2. CASE i = 1
          BY <2>3, <2>7, <3>2
    <3>3. CASE i # 1
      <4>1. i \in 2..Len(u)
            BY <1>1, <3>3
      <4>2. QED BY <1>8, <2>7, <4>1
    <3>4. QED BY <3>2, <3>3
  <2>9. Key(q) = Spelt(u)
        BY <2>7, <2>8, SpellsIt
  <2>10. Key(p) = Key(a \o <<d>>) \o Key(q)
    <3>1. a \o <<d>> \in Seq(Words)
          BY <1>3, <2>5
    <3> DEFINE ad == a \o <<d>>
    <3>2. ad \in Seq(Words) /\ p = ad \o q
          BY <2>4, <3>1
    <3> HIDE DEF ad
    <3>3. Key(p) = Key(ad) \o Key(q)
          BY <2>7, <3>2, KeyOfBoth
    <3>4. QED BY <3>3 DEF ad
  <2>11. QED BY <1>3, <2>4, <2>5, <2>9, <2>10
<1>13. QED BY <1>11, <1>12

(* A word more at the end is in nobody's way.                              *)
LEMMA CutBeforeTheLast ==
    ASSUME NEW s \in Seq(Words), NEW w \in Words, NEW k \in 0..Len(s)
    PROVE  /\ SubSeq(s \o <<w>>, 1, k) = SubSeq(s, 1, k)
           /\ SubSeq(s \o <<w>>, k + 1, Len(s \o <<w>>)) = SubSeq(s, k + 1, Len(s)) \o <<w>>
<1> DEFINE o == <<w>>
           t == s \o o
<1>1. o \in Seq(Words) /\ Len(o) = 1 /\ o[1] = w
      OBVIOUS
<1> HIDE DEF o
<1>2. /\ t \in Seq(Words) /\ Len(t) = Len(s) + 1
      /\ \A i \in 1..Len(s) + 1 : t[i] = IF i <= Len(s) THEN s[i] ELSE o[i - Len(s)]
  <2>1. /\ t \in Seq(Words) /\ Len(t) = Len(s) + Len(o)
        /\ \A i \in 1..Len(s) + Len(o) : t[i] = IF i <= Len(s) THEN s[i] ELSE o[i - Len(s)]
        BY <1>1, ConcatProperties
  <2>2. QED BY <1>1, <2>1
<1>3. Len(s) \in Nat /\ k \in 0..Len(t) /\ k \in Nat /\ k <= Len(s)
      BY <1>2
<1> HIDE DEF t
<1> DEFINE a == SubSeq(s, 1, k)
           b == SubSeq(s, k + 1, Len(s))
           c == SubSeq(t, 1, k)
           d == SubSeq(t, k + 1, Len(t))
<1>4. /\ a \in Seq(Words) /\ Len(a) = k /\ \A i \in 1..k : a[i] = s[i]
      /\ b \in Seq(Words) /\ Len(b) = Len(s) - k
      /\ \A i \in 1..Len(s) - k : b[i] = s[k + i]
      BY CutIs
<1>5. /\ c \in Seq(Words) /\ Len(c) = k /\ \A i \in 1..k : c[i] = t[i]
      /\ d \in Seq(Words) /\ Len(d) = Len(t) - k
      /\ \A i \in 1..Len(t) - k : d[i] = t[k + i]
      BY <1>2, <1>3, CutIs
<1> HIDE DEF a, b, c, d
<1>6. c = a
  <2>1. \A i \in 1..Len(c) : c[i] = a[i]
        BY <1>2, <1>3, <1>4, <1>5
  <2>2. QED BY <1>4, <1>5, <2>1, SeqEqual
<1>7. /\ b \o o \in Seq(Words) /\ Len(b \o o) = (Len(s) - k) + 1
      /\ \A i \in 1..(Len(s) - k) + 1 :
            (b \o o)[i] = IF i <= Len(s) - k THEN b[i] ELSE o[i - (Len(s) - k)]
  <2>1. /\ b \o o \in Seq(Words) /\ Len(b \o o) = Len(b) + Len(o)
        /\ \A i \in 1..Len(b) + Len(o) :
              (b \o o)[i] = IF i <= Len(b) THEN b[i] ELSE o[i - Len(b)]
        BY <1>1, <1>4, ConcatProperties, ZenonT(60)
  <2>2. QED BY <1>1, <1>4, <2>1
<1>8. Len(d) = Len(b \o o)
      BY <1>2, <1>3, <1>5, <1>7
<1>9. ASSUME NEW i \in 1..Len(d)
      PROVE  d[i] = (b \o o)[i]
  <2>1. i \in 1..(Len(s) - k) + 1 /\ i \in 1..Len(t) - k /\ k + i \in 1..Len(s) + 1
        BY <1>2, <1>3, <1>5
  <2>2. d[i] = IF k + i <= Len(s) THEN s[k + i] ELSE o[(k + i) - Len(s)]
        BY <1>2, <1>5, <2>1
  <2>3. CASE k + i <= Len(s)
    <3>1. i <= Len(s) - k /\ i \in 1..Len(s) - k
          BY <1>3, <2>1, <2>3
    <3>2. QED BY <1>4, <1>7, <2>1, <2>2, <2>3, <3>1
  <2>4. CASE ~(k + i <= Len(s))
    <3>1. ~(i <= Len(s) - k) /\ (k + i) - Len(s) = i - (Len(s) - k)
          BY <1>3, <2>1, <2>4
    <3>2. QED BY <1>7, <2>1, <2>2, <2>4, <3>1
  <2>5. QED BY <2>3, <2>4
<1>10. d = b \o o
      BY <1>5, <1>7, <1>8, <1>9, SeqEqual
<1>11. QED BY <1>6, <1>10 DEF a, b, c, d, t, o

LEMMA ApartOfFront ==
    ASSUME NEW s \in Seq(Words), NEW w \in Words, NEW l \in TakenApart(s)
    PROVE  l \o <<w>> \in TakenApart(s \o <<w>>)
<1>1. CASE l = s
      BY <1>1 DEF TakenApart
<1>2. CASE l # s
  <2>1. PICK i \in DOMAIN s : IsGlued(s[i]) /\ l = Apart(s, i)
        BY <1>2 DEF TakenApart
  <2>2. i \in 1..Len(s) /\ i \in 0..Len(s) /\ i - 1 \in 0..Len(s) /\ (i - 1) + 1 = i
        OBVIOUS
  <2> DEFINE o == <<w>>
             t == s \o o
             a == SubSeq(s, 1, i - 1)
             b == SubSeq(s, i + 1, Len(s))
             d == <<Digits(s[i].number)>>
             e == <<Letter(s[i].text)>>
  <2>3. t \in Seq(Words) /\ i \in 1..Len(t) /\ t[i] = s[i]
    <3>1. o \in Seq(Words) /\ Len(o) = 1
          OBVIOUS
    <3> HIDE DEF o
    <3>2. /\ t \in Seq(Words) /\ Len(t) = Len(s) + Len(o)
          /\ \A j \in 1..Len(s) + Len(o) : t[j] = IF j <= Len(s) THEN s[j] ELSE o[j - Len(s)]
          BY <3>1, ConcatProperties
    <3>3. Len(s) \in Nat /\ i \in 1..Len(s) + Len(o) /\ i <= Len(s)
          BY <2>2, <3>1
    <3>4. QED BY <3>2, <3>3
  <2>4. SubSeq(t, 1, i - 1) = a /\ SubSeq(t, i + 1, Len(t)) = b \o o
        BY <2>2, CutBeforeTheLast
  <2>5. l = (a \o d) \o (e \o b)
        BY <2>1, <2>2, ApartIs
  <2>6. /\ Apart(t, i) \in TakenApart(t)
        /\ Apart(t, i) = (SubSeq(t, 1, i - 1) \o d) \o (e \o SubSeq(t, i + 1, Len(t)))
    <3> HIDE DEF t
    <3>1. QED BY <2>1, <2>3, ApartIs
  <2>7. a \in Seq(Words) /\ b \in Seq(Words) /\ o \in Seq(Words)
    <3>1. a \in Seq(Words)
          BY <2>2, CutIs
    <3>2. b \in Seq(Words)
          BY <2>2, CutIs
    <3>3. QED BY <3>1, <3>2
  <2>8. d \in Seq(Words) /\ e \in Seq(Words)
    <3>1. s[i] \in Words
          BY <2>2
    <3>2. Digits(s[i].number) \in Words /\ Letter(s[i].text) \in Words
          BY <2>1, <3>1, GluedIs
    <3>3. QED BY <3>2
  <2> HIDE DEF a, b, d, e, o
  <2>9. a \o d \in Seq(Words) /\ e \o b \in Seq(Words)
        BY <2>7, <2>8, ConcatProperties
  <2>10. ((a \o d) \o (e \o b)) \o o = (a \o d) \o ((e \o b) \o o)
    <3> DEFINE x == a \o d
               y == e \o b
    <3>1. x \in Seq(Words) /\ y \in Seq(Words) /\ o \in Seq(Words)
          BY <2>7, <2>9
    <3> HIDE DEF x, y, t
    <3>2. (x \o y) \o o = x \o (y \o o)
          BY ONLY <3>1, Linked, ZenonT(60)
    <3>3. QED BY <3>2 DEF x, y
  <2>11. (e \o b) \o o = e \o (b \o o)
    <3>1. e \in Seq(Words) /\ b \in Seq(Words) /\ o \in Seq(Words)
          BY <2>7, <2>8
    <3> HIDE DEF t
    <3>2. QED BY ONLY <3>1, Linked, ZenonT(60)
  <2>12. l \o o = Apart(t, i)
        BY <2>4, <2>5, <2>6, <2>10, <2>11
  <2>13. QED BY <2>6, <2>12 DEF o
<1>3. QED BY <1>1, <1>2

(* What a line is read as accounts for all of it.                          *)
SaysAll(line, reading) ==
    LET name == Key(reading.name)
        amount == IF reading.stated THEN <<Digits(reading.amount)>> ELSE <<>>
        unit == Spelt(reading.unit)
    IN /\ name # <<>>
       /\ ~reading.stated => reading.amount = 1
       /\ \E l \in TakenApart(line) :
             Key(l) \in {amount \o unit \o name, name \o amount \o unit,
                         name \o unit \o amount}

LEMMA KeyIsNotEmpty ==
    ASSUME NEW name \in Names
    PROVE  name \in Seq(Words) /\ Key(name) \in Seq(Words) /\ Key(name) # <<>>
<1>1. name \in Seq(Words) /\ Len(name) \in Nat \ {0}
      BY NameIs
<1>2. Key(name) \in Seq(Words) /\ Len(Key(name)) = Len(name)
      BY <1>1, KeyIs
<1>3. QED BY <1>1, <1>2

LEMMA StatedSays ==
    ASSUME NEW line, NEW name \in Names, NEW n, NEW u, NEW l \in TakenApart(line),
           Key(l) \in {<<Digits(n)>> \o Spelt(u) \o Key(name),
                       Key(name) \o <<Digits(n)>> \o Spelt(u),
                       Key(name) \o Spelt(u) \o <<Digits(n)>>}
    PROVE  SaysAll(line, Stated(name, n, u))
<1> DEFINE r == Stated(name, n, u)
<1>1. r.name = name /\ r.stated = TRUE /\ r.amount = n /\ r.unit = u
      BY DEF Stated
<1> HIDE DEF r
<1>2. Key(name) # <<>>
      BY KeyIsNotEmpty
<1>3. SaysAll(line, r)
      BY <1>1, <1>2 DEF SaysAll
<1>4. QED BY <1>3 DEF r

LEMMA UnstatedSays ==
    ASSUME NEW line, NEW name \in Names, NEW u, NEW l \in TakenApart(line),
           Key(l) = <<>> \o Spelt(u) \o Key(name)
    PROVE  SaysAll(line, Unstated(name, u))
<1> DEFINE r == Unstated(name, u)
<1>1. r.name = name /\ r.stated = FALSE /\ r.amount = 1 /\ r.unit = u
      BY DEF Unstated
<1> HIDE DEF r
<1>2. Key(name) # <<>>
      BY KeyIsNotEmpty
<1>3. SaysAll(line, r)
      BY <1>1, <1>2 DEF SaysAll
<1>4. QED BY <1>3 DEF r

LEMMA NoUnitSpelt == Spelt(None) = <<>>
BY DEF Spelt

LEMMA OneDigits ==
    ASSUME NEW n \in Numbers
    PROVE  <<Digits(n)>> \in Seq(Words) /\ Key(<<Digits(n)>>) = <<Digits(n)>>
<1> DEFINE d == Digits(n)
<1>1. d \in Words /\ Lowered(d) = d
      BY DigitsIs
<1> HIDE DEF d
<1>2. <<d>> \in Seq(Words) /\ Key(<<d>>) = <<d>>
      BY <1>1, KeyOfOne
<1>3. QED BY <1>2 DEF d

(* The unit that begins, or ends, what is matched begins, or ends, it.     *)
LEMMA LongestBeginsIt ==
    ASSUME NEW s \in Seq(Words), {u \in Known : Begins(s, u)} # {}
    PROVE  Longest({u \in Known : Begins(s, u)}) \in {u \in Known : Begins(s, u)}
<1> DEFINE U == {u \in Known : Begins(s, u)}
<1>1. \A u \in U : Len(u) \in 0..Len(s)
      BY UnitIs DEF Begins
<1>2. Len(s) \in Nat
      OBVIOUS
<1>3. U # {}
      OBVIOUS
<1> HIDE DEF U
<1>4. Longest(U) \in U
      BY <1>1, <1>2, <1>3, LongestThere
<1>5. QED BY <1>4 DEF U

LEMMA LongestEndsIt ==
    ASSUME NEW s \in Seq(Words), {u \in Known : Ends(s, u)} # {}
    PROVE  Longest({u \in Known : Ends(s, u)}) \in {u \in Known : Ends(s, u)}
<1> DEFINE U == {u \in Known : Ends(s, u)}
<1>1. \A u \in U : Len(u) \in 0..Len(s)
      BY UnitIs DEF Ends
<1>2. Len(s) \in Nat
      OBVIOUS
<1>3. U # {}
      OBVIOUS
<1> HIDE DEF U
<1>4. Longest(U) \in U
      BY <1>1, <1>2, <1>3, LongestThere
<1>5. QED BY <1>4 DEF U

LEMMA LeadingSays ==
    ASSUME NEW line \in Names, Leading(line) # None
    PROVE  SaysAll(line, Leading(line))
<1> DEFINE n == Head(line).number
           rest == AfterNumber(line)
           units == {u \in Known : Begins(rest, u)}
           u0 == Longest(units)
           named == units # {} /\ After(rest, u0) # <<>>
           l == <<Digits(n)>> \o rest
<1>1. LeadingNumber(line) /\ rest # <<>>
      BY DEF Leading
<1>2. n \in Numbers /\ rest \in Seq(Words) /\ l \in TakenApart(line)
      BY <1>1, LeadingIs
<1>3. Leading(line) = IF named THEN Stated(After(rest, u0), n, u0) ELSE Stated(rest, n, None)
      BY <1>1 DEF Leading
<1> HIDE DEF n, rest
<1>4. <<Digits(n)>> \in Seq(Words) /\ Key(<<Digits(n)>>) = <<Digits(n)>>
      BY <1>2, OneDigits
<1> DEFINE d == <<Digits(n)>>
<1> HIDE DEF d
<1>5. Key(l) = d \o Key(rest)
  <2>1. d \in Seq(Words) /\ Key(d) = d /\ l = d \o rest
        BY <1>4 DEF d
  <2> HIDE DEF l
  <2>2. QED BY <1>2, <2>1, KeyOfBoth
<1>6. Key(rest) \in Seq(Words)
      BY <1>2, KeyIs
<1> HIDE DEF l
<1>7. CASE named
  <2>1. u0 \in Known /\ Begins(rest, u0)
        BY <1>2, <1>7, LongestBeginsIt
  <2> HIDE DEF u0
  <2> DEFINE name == After(rest, u0)
  <2>2. name \in Names /\ Key(rest) = Spelt(u0) \o Key(name)
        BY <1>2, <1>7, <2>1, BeginsIs, NamedBy
  <2> HIDE DEF name
  <2>3. Spelt(u0) \in Seq(Words) /\ Key(name) \in Seq(Words) /\ d \in Seq(Words)
        BY <1>4, <2>1, <2>2, SpeltIs, KeyIsNotEmpty DEF d
  <2>4. Key(l) = (d \o Spelt(u0)) \o Key(name)
        BY <1>5, <2>2, <2>3, Linked, SMTT(60)
  <2>5. SaysAll(line, Stated(name, n, u0))
        BY <1>2, <2>2, <2>4, StatedSays DEF d
  <2>6. QED BY <1>3, <1>7, <2>5 DEF name
<1>8. CASE ~named
  <2> HIDE DEF named
  <2>1. rest \in Names
        BY <1>1, <1>2, NamedBy DEF rest
  <2>2. Key(l) = (d \o Spelt(None)) \o Key(rest)
        BY <1>4, <1>5, NoUnitSpelt, ConcatEmptySeq DEF d
  <2>3. SaysAll(line, Stated(rest, n, None))
        BY <1>2, <2>1, <2>2, StatedSays DEF d
  <2>4. QED BY <1>3, <1>8, <2>3
<1>9. QED BY <1>7, <1>8

(* A number of its own at the end.                                         *)
LEMMA TrailingIsIt ==
    ASSUME NEW s \in Seq(Words), TrailingNumber(s)
    PROVE  /\ s \in Names /\ Last(s).number \in Numbers /\ Front(s) \in Seq(Words)
           /\ s = Front(s) \o <<Digits(Last(s).number)>>
           /\ Key(s) = Key(Front(s)) \o <<Digits(Last(s).number)>>
<1>1. s \in Names
      BY NamedBy DEF TrailingNumber
<1>2. Last(s) \in Words /\ Front(s) \in Seq(Words) /\ IsNumber(Last(s))
      BY <1>1, NameIs DEF TrailingNumber
<1> DEFINE n == Last(s).number
           a == Front(s)
<1>3. Last(s) = Digits(n) /\ n \in Numbers
      BY <1>2, NumberIsDigits
<1>4. s = a \o <<Digits(n)>>
      BY <1>1, <1>3, FrontAndLast
<1> HIDE DEF n, a
<1>5. a \in Seq(Words)
      BY <1>2 DEF a
<1>6. <<Digits(n)>> \in Seq(Words) /\ Key(<<Digits(n)>>) = <<Digits(n)>>
      BY <1>3, OneDigits
<1>7. Key(a \o <<Digits(n)>>) = Key(a) \o Key(<<Digits(n)>>)
      BY <1>5, <1>6, KeyOfBoth
<1>8. QED BY <1>1, <1>3, <1>4, <1>5, <1>6, <1>7 DEF n, a

LEMMA UnitLastSays ==
    ASSUME NEW line \in Names, UnitLast(line) # None
    PROVE  SaysAll(line, UnitLast(line))
<1> DEFINE units == {u \in Known : Ends(line, u)}
           u0 == Longest(units)
           head == Before(line, u0)
           n == Last(head).number
           name == Front(head)
<1>1. /\ units # {} /\ TrailingNumber(head) /\ Len(head) > 1
      /\ UnitLast(line) = Stated(name, n, u0)
      BY DEF UnitLast
<1>2. line \in Seq(Words)
      BY NameIs
<1>3. u0 \in Known /\ Ends(line, u0)
      BY <1>1, <1>2, LongestEndsIt
<1> HIDE DEF units, u0
<1>4. head \in Seq(Words)
      BY <1>2, <1>3, EndsIs
<1>5. PICK l \in TakenApart(line) : l \in Seq(Words) /\ Key(l) = Key(head) \o Spelt(u0)
      BY <1>2, <1>3, EndsIs
<1> HIDE DEF head
<1>6. Key(head) = Key(name) \o <<Digits(n)>>
      BY <1>1, <1>4, TrailingIsIt
<1>7. name \in Names
  <2>1. name \in Seq(Words) /\ name # <<>>
        BY <1>1, <1>4, TrailingIs
  <2>2. QED BY <2>1, NamedBy
<1> HIDE DEF name, n
<1>8. SaysAll(line, Stated(name, n, u0))
      BY <1>5, <1>6, <1>7, StatedSays
<1>9. QED BY <1>1, <1>8

LEMMA NumberLastSays ==
    ASSUME NEW line \in Names, NumberLast(line) # None
    PROVE  SaysAll(line, NumberLast(line))
<1> DEFINE head == Front(line)
           units == {u \in Known : Ends(head, u)}
           u0 == Longest(units)
           n == Last(line).number
           named == units # {} /\ Before(head, u0) # <<>>
<1>1. TrailingNumber(line) /\ head # <<>>
      BY DEF NumberLast
<1>2. NumberLast(line) = IF named THEN Stated(Before(head, u0), n, u0) ELSE Stated(head, n, None)
      BY <1>1 DEF NumberLast
<1>3. line \in Seq(Words)
      BY NameIs
<1>4. /\ n \in Numbers /\ head \in Seq(Words) /\ line = head \o <<Digits(n)>>
      /\ Key(line) = Key(head) \o <<Digits(n)>>
      BY <1>1, <1>3, TrailingIsIt
<1> HIDE DEF head, n
<1>5. <<Digits(n)>> \in Seq(Words) /\ Key(<<Digits(n)>>) = <<Digits(n)>> /\ Digits(n) \in Words
      BY <1>4, OneDigits, DigitsIs
<1>6. CASE named
  <2>1. u0 \in Known /\ Ends(head, u0)
        BY <1>4, <1>6, LongestEndsIt
  <2> HIDE DEF u0
  <2> DEFINE name == Before(head, u0)
  <2>2. name \in Names
    <3>1. name \in Seq(Words)
          BY <1>4, <2>1, EndsIs
    <3>2. QED BY <1>6, <3>1, NamedBy
  <2>3. PICK l \in TakenApart(head) : l \in Seq(Words) /\ Key(l) = Key(name) \o Spelt(u0)
        BY <1>4, <2>1, EndsIs
  <2> HIDE DEF name
  <2> DEFINE d == <<Digits(n)>>
             k == l \o d
  <2>4. k \in TakenApart(line)
        BY <1>4, <1>5, <2>3, ApartOfFront
  <2>5. Key(k) = (Key(name) \o Spelt(u0)) \o d
    <3>1. d \in Seq(Words) /\ Key(d) = d
          BY <1>5
    <3> HIDE DEF d
    <3>2. Key(l \o d) = Key(l) \o Key(d)
          BY <2>3, <3>1, KeyOfBoth
    <3>3. QED BY <2>3, <3>1, <3>2
  <2> HIDE DEF k
  <2>6. SaysAll(line, Stated(name, n, u0))
        BY <2>2, <2>4, <2>5, StatedSays
  <2>7. QED BY <1>2, <1>6, <2>6 DEF name
<1>7. CASE ~named
  <2> HIDE DEF named
  <2>1. head \in Names
        BY <1>1, <1>4, NamedBy DEF head
  <2>2. line \in TakenApart(line)
        BY DEF TakenApart
  <2>3. Key(line) = (Key(head) \o Spelt(None)) \o <<Digits(n)>>
        BY <1>4, <2>1, KeyIsNotEmpty, NoUnitSpelt, ConcatEmptySeq
  <2>4. SaysAll(line, Stated(head, n, None))
        BY <2>1, <2>2, <2>3, StatedSays
  <2>5. QED BY <1>2, <1>7, <2>4
<1>8. QED BY <1>6, <1>7

LEMMA BareUnitSays ==
    ASSUME NEW line \in Names, BareUnit(line) # None
    PROVE  SaysAll(line, BareUnit(line))
<1> DEFINE units == {u \in Bare : Begins(line, u) /\ After(line, u) # <<>>}
           u0 == Longest(units)
           name == After(line, u0)
<1>1. units # {} /\ BareUnit(line) = Unstated(name, u0)
      BY DEF BareUnit
<1>2. line \in Seq(Words)
      BY NameIs
<1>3. u0 \in units
      BY <1>1, <1>2, LongestBare
<1>4. u0 \in Known /\ Begins(line, u0) /\ name # <<>>
      BY <1>3, ReadingAssumption DEF ReadingAssumption
<1> HIDE DEF u0
<1>5. name \in Names /\ Key(line) = Spelt(u0) \o Key(name)
      BY <1>2, <1>4, BeginsIs, NamedBy
<1> HIDE DEF name
<1>6. Spelt(u0) \in Seq(Words)
      BY <1>4, SpeltIs
<1>7. <<>> \o Spelt(u0) = Spelt(u0)
      BY <1>6, ConcatEmptySeq
<1>8. Key(line) = <<>> \o Spelt(u0) \o Key(name)
      BY <1>5, <1>7
<1>9. line \in TakenApart(line)
      BY DEF TakenApart
<1>10. SaysAll(line, Unstated(name, u0))
      BY <1>5, <1>8, <1>9, UnstatedSays
<1>11. QED BY <1>1, <1>10

LEMMA AllOfItSays ==
    ASSUME NEW line \in Names
    PROVE  SaysAll(line, Unstated(line, None))
<1>1. line \in TakenApart(line)
      BY DEF TakenApart
<1>2. Key(line) \in Seq(Words)
      BY KeyIsNotEmpty
<1>3. <<>> \o <<>> = <<>>
      BY EmptySeq, ConcatEmptySeq
<1>4. <<>> \o Spelt(None) \o Key(line) = Key(line)
      BY <1>2, <1>3, NoUnitSpelt, ConcatEmptySeq
<1>5. QED BY <1>1, <1>4, UnstatedSays

LEMMA ParseSays ==
    ASSUME NEW line \in Names
    PROVE  SaysAll(line, Parse(line))
BY LeadingSays, UnitLastSays, NumberLastSays, BareUnitSays, AllOfItSays DEF Parse, OrElse

(* What stands in the field is a line.                                     *)
LEMMA FieldIsTyped ==
    FieldSpec => [](typed \in Seq(Words))
<1>1. FieldInit => typed \in Seq(Words)
      BY DEF FieldInit
<1>2. typed \in Seq(Words) /\ [FieldNext]_typed => (typed \in Seq(Words))'
  <2> SUFFICES ASSUME typed \in Seq(Words), [FieldNext]_typed
               PROVE  typed' \in Seq(Words)
      OBVIOUS
  <2>1. CASE Add
        BY <2>1, EmptySeq DEF Add
  <2>2. ASSUME NEW word \in Typeable, Write(word)
        PROVE  typed' \in Seq(Words)
    <3>1. word \in Words
          BY AddFieldAssumption DEF AddFieldAssumption
    <3>2. QED BY <2>2, <3>1, AppendProperties DEF Write
  <2>3. ASSUME NEW name \in Offered, Choose(name)
        PROVE  typed' \in Seq(Words)
        BY <2>3, AddFieldAssumption DEF AddFieldAssumption, Choose
  <2>4. CASE UNCHANGED typed
        BY <2>4
  <2>5. QED BY <2>1, <2>2, <2>3, <2>4 DEF FieldNext
<1>3. QED BY <1>1, <1>2, PTL DEF FieldSpec

(* Of every line that may stand in the field, nothing is lost and nothing  *)
(* made up when it is read.                                                *)
THEOREM EveryLineIsReadInFull ==
    FieldSpec => []NothingTypedIsLost
<1>1. typed \in Seq(Words) => NothingTypedIsLost
      BY NamedBy, ParseSays DEF NothingTypedIsLost, SaysAll
<1>2. QED BY <1>1, FieldIsTyped, PTL

----------------------------------------------------------------------------
(* The same thing said in five ways.                                       *)

LEMMA LongestIs ==
    ASSUME NEW U, NEW u \in U, \A v \in U : Len(v) \in Nat /\ Len(v) <= Len(u),
           \A v \in U : Len(v) = Len(u) => v = u
    PROVE  Longest(U) = u
<1> DEFINE w == Longest(U)
<1>1. w \in U /\ \A v \in U : Len(v) <= Len(w)
      BY DEF Longest
<1> HIDE DEF w
<1>2. Len(u) <= Len(w) /\ Len(w) <= Len(u) /\ Len(u) \in Nat /\ Len(w) \in Nat
      BY <1>1
<1>3. QED BY <1>1, <1>2 DEF w

LEMMA SameTexts ==
    ASSUME NEW u \in Known, NEW v \in Known, Len(v) = Len(u), \A i \in 1..Len(u) : v[i] = u[i]
    PROVE  v = u
BY UnitIs, SeqEqual

(* Two lines put together, cut where they meet.                            *)
LEMMA CutWhereTheyMeet ==
    ASSUME NEW a \in Seq(Words), NEW b \in Seq(Words)
    PROVE  /\ a \o b \in Seq(Words) /\ Len(a \o b) = Len(a) + Len(b)
           /\ SubSeq(a \o b, 1, Len(a)) = a
           /\ SubSeq(a \o b, Len(a) + 1, Len(a \o b)) = b
           /\ \A i \in 1..Len(a) : (a \o b)[i] = a[i]
           /\ \A i \in 1..Len(b) : (a \o b)[Len(a) + i] = b[i]
<1> DEFINE s == a \o b
           k == Len(a)
           m == Len(b)
<1>1. k \in Nat /\ m \in Nat
      OBVIOUS
<1>2. /\ s \in Seq(Words) /\ Len(s) = k + m
      /\ \A i \in 1..k + m : s[i] = IF i <= k THEN a[i] ELSE b[i - k]
      BY ConcatProperties
<1> HIDE DEF s, k, m
<1>3. \A i \in 1..k : s[i] = a[i]
  <2>1. TAKE i \in 1..k
  <2>2. i \in 1..k + m /\ i <= k
        BY <1>1
  <2>3. QED BY <1>2, <2>2
<1>4. \A i \in 1..m : s[k + i] = b[i]
  <2>1. TAKE i \in 1..m
  <2>2. k + i \in 1..k + m /\ ~(k + i <= k) /\ (k + i) - k = i
        BY <1>1
  <2>3. QED BY <1>2, <2>2
<1>5. k \in 0..Len(s) /\ Len(s) - k = m
      BY <1>1, <1>2
<1>6. /\ SubSeq(s, 1, k) \in Seq(Words) /\ Len(SubSeq(s, 1, k)) = k
      /\ \A i \in 1..k : SubSeq(s, 1, k)[i] = s[i]
      /\ SubSeq(s, k + 1, Len(s)) \in Seq(Words)
      /\ Len(SubSeq(s, k + 1, Len(s))) = Len(s) - k
      /\ \A i \in 1..Len(s) - k : SubSeq(s, k + 1, Len(s))[i] = s[k + i]
      BY <1>2, <1>5, CutIs
<1> DEFINE c == SubSeq(s, 1, k)
           d == SubSeq(s, k + 1, Len(s))
<1> HIDE DEF c, d
<1>7. c = a
  <2>1. c \in Seq(Words) /\ Len(c) = Len(a) /\ \A i \in 1..Len(c) : c[i] = a[i]
        BY <1>3, <1>6 DEF c, k
  <2>2. QED BY <2>1, SeqEqual
<1>8. d = b
  <2>1. d \in Seq(Words) /\ Len(d) = Len(b) /\ \A i \in 1..Len(d) : d[i] = b[i]
        BY <1>4, <1>5, <1>6 DEF d, m
  <2>2. QED BY <2>1, SeqEqual
<1>9. QED BY <1>2, <1>3, <1>4, <1>7, <1>8 DEF c, d, s, k, m

LEMMA HeadOfIt ==
    ASSUME NEW w \in Words, NEW t \in Seq(Words)
    PROVE  /\ <<w>> \o t \in Names /\ Head(<<w>> \o t) = w /\ Tail(<<w>> \o t) = t
<1> DEFINE o == <<w>>
           s == o \o t
<1>1. o \in Seq(Words) /\ Len(o) = 1 /\ o[1] = w
      OBVIOUS
<1> HIDE DEF o
<1>2. /\ s \in Seq(Words) /\ Len(s) = Len(o) + Len(t) /\ s[1] = w
      /\ SubSeq(s, Len(o) + 1, Len(s)) = t
      BY <1>1, CutWhereTheyMeet
<1> HIDE DEF s
<1>3. Len(t) \in Nat /\ s # <<>>
      BY <1>1, <1>2, EmptySeq
<1>4. Head(s) = w
      BY <1>2, <1>3
<1>5. Tail(s) = t
  <2>1. Len(o) + 1 = 2
        BY <1>1
  <2>2. Tail(s) = SubSeq(s, 2, Len(s))
        BY <1>2, <1>3, TailIsSubSeq
  <2>3. QED BY <1>2, <2>1, <2>2
<1>6. QED BY <1>2, <1>3, <1>4, <1>5, NamedBy DEF s, o

LEMMA LastOfIt ==
    ASSUME NEW a \in Seq(Words), NEW w \in Words
    PROVE  /\ a \o <<w>> \in Names /\ Len(a \o <<w>>) = Len(a) + 1
           /\ Last(a \o <<w>>) = w /\ Front(a \o <<w>>) = a
<1> DEFINE o == <<w>>
           s == a \o o
<1>1. o \in Seq(Words) /\ Len(o) = 1 /\ o[1] = w
      OBVIOUS
<1> HIDE DEF o
<1>2. /\ s \in Seq(Words) /\ Len(s) = Len(a) + Len(o) /\ SubSeq(s, 1, Len(a)) = a
      /\ \A i \in 1..Len(o) : s[Len(a) + i] = o[i]
      BY <1>1, CutWhereTheyMeet
<1>3. Len(a) \in Nat /\ Len(s) = Len(a) + 1 /\ s[Len(a) + 1] = w /\ Len(s) - 1 = Len(a)
      BY <1>1, <1>2
<1> HIDE DEF s
<1>4. s # <<>>
      BY <1>2, <1>3, EmptySeq
<1>5. Last(s) = w /\ Front(s) = a
      BY <1>2, <1>3 DEF Last, Front
<1>6. QED BY <1>2, <1>3, <1>4, <1>5, NamedBy DEF s, o

(* The words of a plain name are in no unit.                               *)
InNoUnit(w) ==
    \A v \in Known : \A j \in 1..Len(v) : ~IsText(w, v[j]) /\ Lowered(w).text # v[j]

LEMMA PlainIs ==
    ASSUME NEW name \in Names, Plain(name)
    PROVE  \A i \in 1..Len(name) : name[i].number = NoNumber /\ InNoUnit(name[i])
<1>1. TAKE i \in 1..Len(name)
<1>2. i \in DOMAIN name /\ name[i] \in Words
      BY NameIs
<1>3. name[i].number = NoNumber /\ \A v \in Known : Lowered(name[i]).text \notin ToSet(v)
      BY <1>2 DEF Plain
<1>4. ASSUME NEW v \in Known, NEW j \in 1..Len(v)
      PROVE  ~IsText(name[i], v[j]) /\ Lowered(name[i]).text # v[j]
  <2>1. DOMAIN v = 1..Len(v)
        BY UnitIs
  <2>2. v[j] \in ToSet(v)
        BY <2>1 DEF ToSet
  <2>3. Lowered(name[i]).text # v[j]
        BY <1>3, <2>2
  <2>4. IsText(name[i], v[j]) => Lowered(name[i]).text = v[j]
        BY DEF IsText
  <2>5. QED BY <2>3, <2>4
<1>5. QED BY <1>3, <1>4 DEF InNoUnit

LEMMA DigitsInNoUnit ==
    ASSUME NEW n \in Numbers
    PROVE  InNoUnit(Digits(n))
<1>1. Lowered(Digits(n)) = Digits(n) /\ \A t \in Texts : ~IsText(Digits(n), t)
      BY DigitsIs
<1>2. Lowered(Digits(n)).text = NoText
      BY <1>1 DEF Digits
<1>3. QED BY <1>1, <1>2, TextIs DEF InNoUnit

LEMMA LetterMatches ==
    ASSUME NEW u \in Known, NEW i \in 1..Len(u), NEW t, IsText(Letter(u[i]), t)
    PROVE  t = u[i]
<1>1. Lowered(Letter(u[i])) = Letter(u[i])
      BY LetterIs
<1>2. QED BY <1>1 DEF IsText, Letter

(* A unit and then a plain name.                                           *)
LEMMA BeginsOnly ==
    ASSUME NEW name \in Names, Plain(name), NEW u \in Known
    PROVE  LET rest == Spelt(u) \o name
           IN /\ rest \in Seq(Words) /\ rest # <<>> /\ After(rest, u) = name
              /\ u \in {v \in Known : Begins(rest, v)}
              /\ Longest({v \in Known : Begins(rest, v)}) = u
<1> DEFINE b == Spelt(u)
           rest == b \o name
           U == {v \in Known : Begins(rest, v)}
<1>1. b \in Seq(Words) /\ Len(b) = Len(u) /\ \A i \in 1..Len(u) : b[i] = Letter(u[i])
      BY SpeltIs
<1>2. name \in Seq(Words) /\ Len(name) \in Nat \ {0} /\ Len(u) \in Nat \ {0}
      BY NameIs, UnitIs
<1> HIDE DEF b
<1>3. /\ rest \in Seq(Words) /\ Len(rest) = Len(b) + Len(name)
      /\ SubSeq(rest, Len(b) + 1, Len(rest)) = name
      /\ \A i \in 1..Len(b) : rest[i] = b[i]
      /\ \A i \in 1..Len(name) : rest[Len(b) + i] = name[i]
      BY <1>1, <1>2, CutWhereTheyMeet
<1> HIDE DEF rest
<1>4. rest # <<>> /\ After(rest, u) = name
      BY <1>1, <1>2, <1>3, EmptySeq DEF After
<1>5. Len(u) <= Len(rest) /\ Len(u) + 1 \in 1..Len(rest) /\ rest[Len(u) + 1] = name[1]
      BY <1>1, <1>2, <1>3
<1>6. u \in U
  <2>1. DOMAIN u = 1..Len(u)
        BY UnitIs
  <2>2. \A i \in 1..Len(u) : IsText(rest[i], u[i])
        BY <1>1, <1>3, LetterIs
  <2>3. QED BY <1>5, <2>1, <2>2 DEF Begins
<1>7. ASSUME NEW v \in U
      PROVE  /\ Len(v) \in Nat /\ Len(v) <= Len(u)
             /\ Len(v) = Len(u) => v = u
  <2>1. Len(v) \in Nat \ {0} /\ \A i \in 1..Len(v) : IsText(rest[i], v[i])
        BY UnitIs DEF Begins
  <2>2. Len(v) <= Len(u)
    <3>1. SUFFICES ASSUME Len(v) > Len(u)
                   PROVE  FALSE
          BY <1>2, <2>1
    <3>2. Len(u) + 1 \in 1..Len(v)
          BY <1>2, <2>1, <3>1
    <3>3. IsText(name[1], v[Len(u) + 1])
          BY <1>5, <2>1, <3>2
    <3>4. 1 \in 1..Len(name)
          BY <1>2
    <3>5. QED BY <3>2, <3>3, <3>4, PlainIs DEF InNoUnit
  <2>3. ASSUME Len(v) = Len(u)
        PROVE  v = u
    <3>1. ASSUME NEW i \in 1..Len(u)
          PROVE  v[i] = u[i]
      <4>1. IsText(Letter(u[i]), v[i])
            BY <1>1, <1>3, <2>1, <2>3
      <4>2. QED BY <4>1, LetterMatches
    <3>2. QED BY <2>3, <3>1, SameTexts
  <2>4. QED BY <2>1, <2>2, <2>3
<1>8. Longest(U) = u
  <2> HIDE DEF U
  <2>1. QED BY <1>6, <1>7, LongestIs
<1>9. QED BY <1>3, <1>4, <1>6, <1>8 DEF rest, b

(* A word in no unit, and then a unit, glued to a number or not.           *)
LEMMA EndsOnly ==
    ASSUME NEW a \in Names, InNoUnit(a[Len(a)]), NEW u \in Known,
           NEW b \in Seq(Words), Len(b) = Len(u), Lowered(b[1]).text = u[1],
           \A i \in 2..Len(u) : b[i] = Letter(u[i])
    PROVE  LET s == a \o b
           IN /\ s \in Seq(Words) /\ u \in {v \in Known : Ends(s, v)}
              /\ Longest({v \in Known : Ends(s, v)}) = u
              /\ Before(s, u) = a \o (IF b[1].number = NoNumber THEN <<>>
                                      ELSE <<Digits(b[1].number)>>)
<1> DEFINE s == a \o b
           U == {v \in Known : Ends(s, v)}
<1>1. a \in Seq(Words) /\ Len(a) \in Nat \ {0} /\ Len(u) \in Nat \ {0}
      BY NameIs, UnitIs
<1>2. /\ s \in Seq(Words) /\ Len(s) = Len(a) + Len(b)
      /\ SubSeq(s, 1, Len(a)) = a
      /\ \A i \in 1..Len(a) : s[i] = a[i]
      /\ \A i \in 1..Len(b) : s[Len(a) + i] = b[i]
      BY <1>1, CutWhereTheyMeet
<1> HIDE DEF s
<1>3. Len(s) - Len(u) = Len(a) /\ 1 \in 1..Len(u) /\ Len(a) \in 1..Len(a)
      BY <1>1, <1>2
<1>4. Before(s, u) = a \o (IF b[1].number = NoNumber THEN <<>> ELSE <<Digits(b[1].number)>>)
  <2>1. s[Len(a) + 1] = b[1]
        BY <1>2, <1>3
  <2>2. Before(s, u) = SubSeq(s, 1, Len(a))
                       \o (IF s[Len(a) + 1].number = NoNumber THEN <<>>
                           ELSE <<[number |-> s[Len(a) + 1].number, text |-> NoText]>>)
        BY <1>3 DEF Before
  <2>3. QED BY <1>2, <2>1, <2>2 DEF Digits
<1>5. u \in U
  <2>1. DOMAIN u = 1..Len(u) /\ Len(a) >= 0
        BY <1>1, UnitIs
  <2>2. \A i \in 1..Len(u) : \/ IsText(s[Len(a) + i], u[i])
                             \/ i = 1 /\ Lowered(s[Len(a) + i]).text = u[i]
    <3>1. TAKE i \in 1..Len(u)
    <3>2. s[Len(a) + i] = b[i]
          BY <1>2
    <3>3. CASE i = 1
          BY <3>2, <3>3
    <3>4. CASE i # 1
      <4>1. i \in 2..Len(u)
            BY <1>1, <3>4
      <4>2. QED BY <3>2, <4>1, LetterIs
    <3>5. QED BY <3>3, <3>4
  <2>3. QED BY <1>3, <2>1, <2>2 DEF Ends
<1>6. ASSUME NEW v \in U
      PROVE  /\ Len(v) \in Nat /\ Len(v) <= Len(u)
             /\ Len(v) = Len(u) => v = u
  <2> DEFINE m == Len(s) - Len(v)
  <2>1. /\ v \in Known /\ Len(v) \in Nat \ {0} /\ m >= 0
        /\ \A i \in 1..Len(v) : \/ IsText(s[m + i], v[i])
                                \/ i = 1 /\ Lowered(s[m + i]).text = v[i]
    <3>1. v \in Known /\ Ends(s, v)
          OBVIOUS
    <3>2. DOMAIN v = 1..Len(v) /\ Len(v) \in Nat \ {0}
          BY <3>1, UnitIs
    <3> HIDE DEF U
    <3>3. QED BY <3>1, <3>2 DEF Ends
  <2>2. Len(v) <= Len(u)
    <3>1. SUFFICES ASSUME Len(v) > Len(u)
                   PROVE  FALSE
          BY <1>1, <2>1
    <3> DEFINE j == Len(v) - Len(u)
    <3>2. j \in 1..Len(v) /\ m + j = Len(a)
          BY <1>1, <1>2, <2>1, <3>1
    <3> HIDE DEF m, j
    <3>3. s[m + j] = a[Len(a)]
          BY <1>2, <1>3, <3>2
    <3>4. IsText(a[Len(a)], v[j]) \/ Lowered(a[Len(a)]).text = v[j]
          BY <2>1, <3>2, <3>3
    <3>5. QED BY <2>1, <3>2, <3>4 DEF InNoUnit
  <2>3. ASSUME Len(v) = Len(u)
        PROVE  v = u
    <3>1. m = Len(a)
          BY <1>3, <2>3
    <3> HIDE DEF m
    <3>2. ASSUME NEW i \in 1..Len(u)
          PROVE  v[i] = u[i]
      <4>1. /\ s[m + i] = b[i]
            /\ IsText(b[i], v[i]) \/ (i = 1 /\ Lowered(b[i]).text = v[i])
            BY <1>2, <2>1, <2>3, <3>1
      <4>2. IsText(b[i], v[i]) => Lowered(b[i]).text = v[i]
            BY DEF IsText
      <4>3. CASE i = 1
            BY <4>1, <4>2, <4>3
      <4>4. CASE i # 1
        <5>1. i \in 2..Len(u)
              BY <1>1, <4>4
        <5>2. QED BY <4>1, <4>4, <5>1, LetterMatches
      <4>5. QED BY <4>3, <4>4
    <3>3. QED BY <2>1, <2>3, <3>2, SameTexts
  <2>4. QED BY <2>1, <2>2, <2>3
<1>7. Longest(U) = u
  <2> HIDE DEF U
  <2>1. QED BY <1>5, <1>6, LongestIs
<1>8. QED BY <1>2, <1>4, <1>5, <1>7 DEF s

LEMMA AReading ==
    ASSUME NEW name \in Names, NEW n \in Numbers, NEW u \in Known
    PROVE  Stated(name, n, u) # None
<1>1. n \in Nat /\ name \in Seq(Words)
      BY ReadingAssumption DEF ReadingAssumption, Names
<1>2. Stated(name, n, u) \in [name : Seq(Words), amount : Nat, stated : BOOLEAN, unit : Known]
      BY <1>1 DEF Stated
<1>3. QED BY <1>2, AddFieldAssumption DEF AddFieldAssumption

(* A number in front, of its own or glued, of a unit and then a name.      *)
LEMMA SaidInFront ==
    ASSUME NEW name \in Names, Plain(name), NEW u \in Known, NEW n \in Numbers, n > 0,
           NEW line \in Names, Head(line).number = n,
           AfterNumber(line) = Spelt(u) \o name
    PROVE  Parse(line) = Stated(name, n, u)
<1> DEFINE rest == AfterNumber(line)
           U == {v \in Known : Begins(rest, v)}
<1>1. rest # <<>> /\ After(rest, u) = name /\ u \in U /\ Longest(U) = u
      BY BeginsOnly
<1>2. name # <<>> /\ line # <<>>
      BY DEF Names
<1>3. LeadingNumber(line)
      BY <1>2 DEF LeadingNumber
<1>4. Leading(line) = Stated(name, n, u)
  <2>1. U # {} /\ After(rest, Longest(U)) = name
        BY <1>1
  <2>2. Leading(line) = Stated(After(rest, Longest(U)), Head(line).number, Longest(U))
        BY <1>1, <1>2, <1>3, <2>1 DEF Leading
  <2> HIDE DEF U, rest
  <2>3. QED BY <1>1, <2>1, <2>2
<1>5. Stated(name, n, u) # None
      BY AReading
<1>6. QED BY <1>4, <1>5 DEF Parse, OrElse

(* A name, a number and then a unit, glued to it or not.                   *)
LEMMA SaidBehind ==
    ASSUME NEW name \in Names, Plain(name), NEW u \in Known, NEW n \in Numbers, n > 0,
           NEW line \in Names, ~LeadingNumber(line),
           u \in {v \in Known : Ends(line, v)}, Longest({v \in Known : Ends(line, v)}) = u,
           Before(line, u) = name \o <<Digits(n)>>
    PROVE  Parse(line) = Stated(name, n, u)
<1> DEFINE U == {v \in Known : Ends(line, v)}
           head == Before(line, u)
<1>1. Leading(line) = None
      BY DEF Leading
<1>2. Digits(n) \in Words /\ IsNumber(Digits(n)) /\ Digits(n).number = n
      BY DigitsIs DEF Digits
<1>3. name \in Seq(Words) /\ Len(name) \in Nat \ {0}
      BY NameIs
<1>4. /\ head \in Names /\ Len(head) = Len(name) + 1
      /\ Last(head) = Digits(n) /\ Front(head) = name
      BY <1>2, <1>3, LastOfIt
<1>5. U # {} /\ Longest(U) = u
      OBVIOUS
<1> HIDE DEF U, head
<1>6. TrailingNumber(head) /\ Len(head) > 1
      BY <1>2, <1>3, <1>4 DEF TrailingNumber, Names
<1>7. UnitLast(line) = Stated(name, n, u)
  <2>1. UnitLast(line) = Stated(Front(head), Last(head).number, u)
        BY <1>5, <1>6 DEF UnitLast, U, head
  <2>2. QED BY <1>2, <1>4, <2>1
<1>8. Stated(name, n, u) # None
      BY AReading
<1>9. QED BY <1>1, <1>7, <1>8 DEF Parse, OrElse

(* A name, a unit and then a number.                                       *)
LEMMA SaidLast ==
    ASSUME NEW name \in Names, Plain(name), NEW u \in Known, NEW n \in Numbers, n > 0,
           NEW line \in Names, ~LeadingNumber(line), line = (name \o Spelt(u)) \o <<Digits(n)>>
    PROVE  Parse(line) = Stated(name, n, u)
<1> DEFINE b == Spelt(u)
           head == name \o b
           U == {v \in Known : Ends(head, v)}
           d == Digits(n)
<1>1. Leading(line) = None
      BY DEF Leading
<1>2. d \in Words /\ IsNumber(d) /\ d.number = n
      BY DigitsIs DEF Digits
<1>3. name \in Seq(Words) /\ Len(name) \in Nat \ {0} /\ name # <<>>
      BY NameIs DEF Names
<1>4. /\ b \in Seq(Words) /\ Len(b) = Len(u) /\ \A i \in 1..Len(u) : b[i] = Letter(u[i])
      /\ Len(u) \in Nat \ {0}
      BY SpeltIs, UnitIs
<1>5. b[1] = Letter(u[1]) /\ Lowered(b[1]).text = u[1] /\ b[1].number = NoNumber
  <2>1. 1 \in 1..Len(u)
        BY <1>4
  <2>2. b[1] = Letter(u[1]) /\ Lowered(Letter(u[1])) = Letter(u[1])
        BY <1>4, <2>1, LetterIs
  <2> HIDE DEF b
  <2>3. QED BY <2>2 DEF Letter
<1>6. InNoUnit(name[Len(name)])
      BY <1>3, PlainIs
<1>7. \A i \in 2..Len(u) : b[i] = Letter(u[i])
      BY <1>4
<1> HIDE DEF b, d
<1>8. /\ head \in Seq(Words) /\ u \in U /\ Longest(U) = u
      /\ Before(head, u) = name \o (IF b[1].number = NoNumber THEN <<>>
                                    ELSE <<Digits(b[1].number)>>)
      BY <1>4, <1>5, <1>6, <1>7, EndsOnly
<1>9. Before(head, u) = name
      BY <1>3, <1>5, <1>8, ConcatEmptySeq
<1>10. head # <<>>
  <2>1. Len(head) = Len(name) + Len(b)
        BY <1>3, <1>4, CutWhereTheyMeet
  <2> HIDE DEF head
  <2>2. QED BY <1>3, <1>4, <1>8, <2>1, EmptySeq
<1> HIDE DEF head, U
<1>11. /\ Last(line) = d /\ Front(line) = head /\ Len(line) = Len(head) + 1
       /\ line = head \o <<d>>
  <2>1. line = head \o <<d>>
        BY DEF head, b, d
  <2>2. QED BY <1>2, <1>8, <2>1, LastOfIt
<1>12. UnitLast(line) = None
  <2>1. ASSUME NEW v \in Known, Ends(line, v)
        PROVE  FALSE
    <3> DEFINE m == Len(line) - Len(v)
               j == Len(v)
    <3>1. DOMAIN v = 1..Len(v) /\ j \in Nat \ {0} /\ j \in 1..Len(v)
          BY UnitIs
    <3>2. \/ IsText(line[m + j], v[j])
          \/ j = 1 /\ Lowered(line[m + j]).text = v[j]
          BY <2>1, <3>1 DEF Ends
    <3>3. m + j = Len(line)
      <4>1. Len(line) \in Nat
            BY NameIs
      <4>2. QED BY <3>1, <4>1
    <3>4. line[Len(line)] = d
          BY <1>11 DEF Last
    <3> HIDE DEF m
    <3>5. IsText(d, v[j]) \/ Lowered(d).text = v[j]
          BY <3>2, <3>3, <3>4
    <3>6. InNoUnit(d)
          BY DigitsInNoUnit DEF d
    <3> HIDE DEF j
    <3>7. QED BY <3>1, <3>5, <3>6 DEF InNoUnit, j
  <2>2. {v \in Known : Ends(line, v)} = {}
        BY <2>1
  <2>3. QED BY <2>2 DEF UnitLast
<1>13. TrailingNumber(line)
      BY <1>2, <1>11 DEF TrailingNumber, Names
<1>14. NumberLast(line) = Stated(name, n, u)
  <2>1. U # {} /\ Before(head, Longest(U)) = name /\ Longest(U) = u
        BY <1>8, <1>9
  <2>2. NumberLast(line) = Stated(Before(head, Longest(U)), Last(line).number, Longest(U))
        BY <1>3, <1>10, <1>11, <1>13, <2>1 DEF NumberLast, U
  <2>3. QED BY <1>2, <1>11, <2>1, <2>2
<1>15. Stated(name, n, u) # None
      BY AReading
<1>16. QED BY <1>1, <1>12, <1>14, <1>15 DEF Parse, OrElse

(* A line that begins with a plain name begins with no number.             *)
LEMMA NameInFront ==
    ASSUME NEW name \in Names, Plain(name), NEW t \in Seq(Words)
    PROVE  name \o t \in Names /\ ~LeadingNumber(name \o t)
<1> DEFINE s == name \o t
<1>1. name \in Seq(Words) /\ Len(name) \in Nat \ {0} /\ Len(t) \in Nat
      BY NameIs
<1>2. s \in Seq(Words) /\ Len(s) = Len(name) + Len(t) /\ \A i \in 1..Len(name) : s[i] = name[i]
      BY <1>1, CutWhereTheyMeet
<1> HIDE DEF s
<1>3. s # <<>> /\ 1 \in 1..Len(name)
      BY <1>1, <1>2, EmptySeq
<1>4. Head(s) = name[1]
      BY <1>2, <1>3
<1>5. Head(s).number = NoNumber
      BY <1>3, <1>4, PlainIs
<1>6. ~(NoNumber > 0)
      BY DEF NoNumber
<1>7. QED BY <1>2, <1>3, <1>5, <1>6, NamedBy DEF LeadingNumber, s

(* The first word of the unit glued to the number.                         *)
LEMMA GluedWordIs ==
    ASSUME NEW u \in Known, NEW n \in Numbers
    PROVE  LET w == [number |-> n, text |-> Head(u)]
           IN /\ w \in Words /\ w.number = n /\ ~IsNumber(w)
              /\ [w EXCEPT !.number = NoNumber] = Letter(u[1]) /\ Lowered(w).text = u[1]
              /\ Glued(n, u) = <<w>> \o Tail(Spelt(u))
              /\ Spelt(u) = <<Letter(u[1])>> \o Tail(Spelt(u))
              /\ Tail(Spelt(u)) \in Seq(Words) /\ Letter(u[1]) \in Words
              /\ Len(Glued(n, u)) = Len(u) /\ Glued(n, u) \in Seq(Words)
              /\ Glued(n, u)[1] = w /\ \A i \in 2..Len(u) : Glued(n, u)[i] = Letter(u[i])
<1> DEFINE w == [number |-> n, text |-> Head(u)]
           b == Spelt(u)
           t == Tail(b)
           g == <<w>> \o t
           x == u[1]
<1>1. Len(u) \in Nat \ {0} /\ 1 \in 1..Len(u) /\ Head(u) = x
      BY UnitIs
<1>2. x \in Texts /\ Fold[x] = x /\ x # NoText /\ Letter(x) \in Words
      BY <1>1, TextIs, LetterIs
<1>3. n \in Nat /\ n # NoNumber
      BY ReadingAssumption DEF ReadingAssumption, NoNumber
<1>4. w = [number |-> n, text |-> x]
      BY <1>1
<1>5. /\ b \in Seq(Words) /\ Len(b) = Len(u) /\ \A i \in 1..Len(u) : b[i] = Letter(u[i])
      BY SpeltIs
<1>6. Glued(n, u) = g
      BY DEF Glued
<1> HIDE DEF w, b, x
<1>7. w \in Words /\ w.number = n /\ ~IsNumber(w)
      BY <1>2, <1>3, <1>4 DEF Words, IsNumber
<1>8. [w EXCEPT !.number = NoNumber] = Letter(x)
      BY <1>4 DEF Letter
<1>9. Lowered(w).text = x
  <2>1. w.text = x
        BY <1>4
  <2>2. QED BY <1>2, <1>7, <2>1, LoweredIs
<1>10. b \in Names /\ b[1] = Letter(x)
  <2>1. b # <<>>
        BY <1>1, <1>5, EmptySeq
  <2>2. QED BY <1>1, <1>5, <2>1, NamedBy DEF x
<1>11. b = <<Letter(x)>> \o t
      BY <1>10, HeadAndTail
<1>12. /\ t \in Seq(Words) /\ Len(t) = Len(u) - 1
       /\ \A i \in 1..Len(u) - 1 : t[i] = Letter(u[i + 1])
  <2>1. /\ t \in Seq(Words) /\ Len(t) = Len(b) - 1
        /\ \A i \in 1..Len(t) : t[i] = b[i + 1]
        BY <1>5, <1>10, HeadTailProperties DEF Names
  <2>2. \A i \in 1..Len(u) - 1 : i + 1 \in 1..Len(u)
        BY <1>1
  <2> HIDE DEF t
  <2>3. QED BY <1>5, <2>1, <2>2
<1> HIDE DEF t
<1>13. /\ g \in Seq(Words) /\ Len(g) = Len(u) /\ g[1] = w
       /\ \A i \in 2..Len(u) : g[i] = Letter(u[i])
  <2> DEFINE o == <<w>>
  <2>1. o \in Seq(Words) /\ Len(o) = 1 /\ o[1] = w /\ g = o \o t
        BY <1>7
  <2> HIDE DEF o, g
  <2>2. /\ g \in Seq(Words) /\ Len(g) = Len(o) + Len(t)
        /\ \A i \in 1..Len(o) : g[i] = o[i]
        /\ \A i \in 1..Len(t) : g[Len(o) + i] = t[i]
        BY <1>12, <2>1, CutWhereTheyMeet
  <2>3. Len(g) = Len(u) /\ g[1] = w
        BY <1>1, <1>12, <2>1, <2>2
  <2>4. \A i \in 2..Len(u) : g[i] = Letter(u[i])
    <3>1. TAKE i \in 2..Len(u)
    <3>2. i - 1 \in 1..Len(u) - 1 /\ 1 + (i - 1) = i /\ (i - 1) + 1 = i
          BY <1>1
    <3>3. g[1 + (i - 1)] = t[i - 1]
          BY <1>12, <2>1, <2>2, <3>2
    <3>4. t[i - 1] = Letter(u[(i - 1) + 1])
          BY <1>12, <3>2
    <3>5. QED BY <3>2, <3>3, <3>4
  <2>5. QED BY <2>2, <2>3, <2>4
<1> HIDE DEF g
<1>14. QED BY <1>2, <1>6, <1>7, <1>8, <1>9, <1>11, <1>12, <1>13 DEF w, b, t, g, x

LEMMA FiveWays ==
    ASSUME NEW name \in Names, Plain(name), NEW u \in Known, NEW n \in Numbers, n > 0
    PROVE  /\ Parse(<<Digits(n)>> \o Spelt(u) \o name) = Stated(name, n, u)
           /\ Parse(name \o <<Digits(n)>> \o Spelt(u)) = Stated(name, n, u)
           /\ Parse(name \o Spelt(u) \o <<Digits(n)>>) = Stated(name, n, u)
           /\ Parse(Glued(n, u) \o name) = Stated(name, n, u)
           /\ Parse(name \o Glued(n, u)) = Stated(name, n, u)
<1> DEFINE d == Digits(n)
           o == <<d>>
           b == Spelt(u)
           g == Glued(n, u)
           w == [number |-> n, text |-> Head(u)]
           x == Letter(u[1])
           t == Tail(b)
<1>1. d \in Words /\ IsNumber(d) /\ d.number = n /\ o \in Seq(Words)
  <2>1. d \in Words /\ IsNumber(d) /\ d.number = n
        BY DigitsIs DEF Digits
  <2> HIDE DEF d
  <2>2. QED BY <2>1
<1>2. /\ b \in Seq(Words) /\ Len(b) = Len(u) /\ \A i \in 1..Len(u) : b[i] = Letter(u[i])
      /\ Len(u) \in Nat \ {0} /\ 1 \in 1..Len(u)
  <2>1. Len(u) \in Nat \ {0}
        BY UnitIs
  <2>2. b \in Seq(Words) /\ Len(b) = Len(u) /\ \A i \in 1..Len(u) : b[i] = Letter(u[i])
        BY SpeltIs
  <2>3. QED BY <2>1, <2>2
<1>3. name \in Seq(Words) /\ Len(name) \in Nat \ {0}
      BY NameIs
<1>4. /\ w \in Words /\ w.number = n /\ ~IsNumber(w) /\ [w EXCEPT !.number = NoNumber] = x
      /\ Lowered(w).text = u[1] /\ g = <<w>> \o t /\ b = <<x>> \o t
      /\ t \in Seq(Words) /\ x \in Words /\ Len(g) = Len(u) /\ g \in Seq(Words) /\ g[1] = w
      /\ \A i \in 2..Len(u) : g[i] = Letter(u[i])
      BY GluedWordIs
<1>5. b[1].number = NoNumber /\ Lowered(b[1]).text = u[1]
  <2>1. b[1] = x /\ Lowered(x) = x
        BY <1>2, LetterIs
  <2>2. x.number = NoNumber /\ x.text = u[1]
        BY DEF Letter
  <2> HIDE DEF b, x
  <2>3. QED BY <2>1, <2>2
<1>6. \A i \in 2..Len(u) : b[i] = Letter(u[i])
  <2>1. \A i \in 2..Len(u) : i \in 1..Len(u)
        BY <1>2
  <2> HIDE DEF b
  <2>2. QED BY <1>2, <2>1
<1>7. InNoUnit(name[Len(name)])
      BY <1>3, PlainIs
<1> HIDE DEF d, b, g, w, x, t
<1>8. Parse((o \o b) \o name) = Stated(name, n, u)
  <2> DEFINE line == o \o (b \o name)
             rest == b \o name
  <2>1. rest \in Seq(Words)
        BY <1>2, <1>3, ConcatProperties
  <2>2. (o \o b) \o name = line
    <3> HIDE DEF o
    <3>1. QED BY <1>1, <1>2, <1>3, Linked
  <2> HIDE DEF rest
  <2>3. o \o rest \in Names /\ Head(o \o rest) = d /\ Tail(o \o rest) = rest
        BY <1>1, <2>1, HeadOfIt
  <2>4. AfterNumber(o \o rest) = rest
        BY <1>1, <2>3 DEF AfterNumber
  <2>5. Parse(o \o rest) = Stated(name, n, u)
        BY <1>1, <2>3, <2>4, SaidInFront DEF rest, b
  <2>6. QED BY <2>2, <2>5 DEF rest
<1>9. Parse(g \o name) = Stated(name, n, u)
  <2> DEFINE rest == t \o name
             v == <<w>>
             y == <<x>>
  <2>1. rest \in Seq(Words)
        BY <1>3, <1>4, ConcatProperties
  <2>2. v \in Seq(Words) /\ y \in Seq(Words)
        BY <1>4
  <2>3. g \o name = v \o rest /\ b \o name = y \o rest
    <3> HIDE DEF v, y
    <3> HIDE DEF rest
    <3>0. t \in Seq(Words) /\ name \in Seq(Words)
          BY <1>3, <1>4
    <3>1. (v \o t) \o name = v \o (t \o name)
          BY <2>2, <3>0, Linked
    <3>2. (y \o t) \o name = y \o (t \o name)
          BY <2>2, <3>0, Linked
    <3>3. g = v \o t /\ b = y \o t
          BY <1>4 DEF v, y
    <3>4. QED BY <3>1, <3>2, <3>3 DEF rest
  <2> HIDE DEF rest
  <2>4. v \o rest \in Names /\ Head(v \o rest) = w /\ Tail(v \o rest) = rest
        BY <1>4, <2>1, HeadOfIt
  <2>5. AfterNumber(v \o rest) = y \o rest
        BY <1>4, <2>4 DEF AfterNumber
  <2>6. Parse(v \o rest) = Stated(name, n, u)
        BY <1>4, <2>3, <2>4, <2>5, SaidInFront, ZenonT(60) DEF b
  <2>7. QED BY <2>3, <2>6
<1>10. Parse((name \o o) \o b) = Stated(name, n, u)
  <2> DEFINE a == name \o o
             line == a \o b
  <2>1. a \in Names /\ Len(a) = Len(name) + 1 /\ Last(a) = d
        BY <1>1, <1>3, LastOfIt
  <2>2. InNoUnit(a[Len(a)])
    <3>1. InNoUnit(d)
          BY DigitsInNoUnit DEF d
    <3> HIDE DEF a
    <3>2. QED BY <2>1, <3>1 DEF Last
  <2>3. line \in Names /\ ~LeadingNumber(line)
    <3>1. o \o b \in Seq(Words)
          BY <1>1, <1>2, ConcatProperties
    <3>2. (name \o o) \o b = name \o (o \o b)
      <4> HIDE DEF o
      <4>1. QED BY <1>1, <1>2, <1>3, Linked
    <3> DEFINE ob == o \o b
    <3> HIDE DEF ob
    <3>3. name \o ob \in Names /\ ~LeadingNumber(name \o ob)
          BY <3>1, NameInFront DEF ob
    <3>4. QED BY <3>2, <3>3 DEF ob
  <2> HIDE DEF a
  <2>4. /\ u \in {v \in Known : Ends(line, v)} /\ Longest({v \in Known : Ends(line, v)}) = u
        /\ Before(line, u) = a \o (IF b[1].number = NoNumber THEN <<>>
                                   ELSE <<Digits(b[1].number)>>)
        BY <1>2, <1>5, <1>6, <2>1, <2>2, EndsOnly
  <2>5. Before(line, u) = a
    <3>1. a \in Seq(Words)
          BY <2>1, NameIs
    <3> HIDE DEF line
    <3>2. QED BY <1>5, <2>4, <3>1, ConcatEmptySeq
  <2>6. Before(line, u) = name \o <<Digits(n)>>
        BY <2>5 DEF a, d
  <2> HIDE DEF line
  <2>7. Parse(line) = Stated(name, n, u)
        BY <2>3, <2>4, <2>6, SaidBehind
  <2>8. QED BY <2>7 DEF line, a
<1>11. Parse(name \o g) = Stated(name, n, u)
  <2> DEFINE line == name \o g
  <2>1. line \in Names /\ ~LeadingNumber(line)
        BY <1>4, NameInFront
  <2>2. Lowered(g[1]).text = u[1] /\ g[1].number = n /\ n # NoNumber
    <3>1. n # NoNumber
          BY ReadingAssumption DEF ReadingAssumption, NoNumber
    <3>2. QED BY <1>4, <3>1
  <2>3. /\ u \in {v \in Known : Ends(line, v)} /\ Longest({v \in Known : Ends(line, v)}) = u
        /\ Before(line, u) = name \o (IF g[1].number = NoNumber THEN <<>>
                                      ELSE <<Digits(g[1].number)>>)
        BY <1>4, <1>7, <2>2, EndsOnly
  <2> HIDE DEF line
  <2>4. Before(line, u) = name \o <<Digits(n)>>
        BY <2>2, <2>3
  <2>5. Parse(line) = Stated(name, n, u)
        BY <2>1, <2>3, <2>4, SaidBehind
  <2>6. QED BY <2>5 DEF line
<1>12. Parse((name \o b) \o o) = Stated(name, n, u)
  <2> DEFINE line == (name \o b) \o o
  <2>1. line \in Names /\ ~LeadingNumber(line)
    <3>1. b \o o \in Seq(Words)
          BY <1>1, <1>2, ConcatProperties
    <3>2. (name \o b) \o o = name \o (b \o o)
      <4> HIDE DEF o
      <4>1. QED BY <1>1, <1>2, <1>3, Linked
    <3> DEFINE bo == b \o o
    <3> HIDE DEF bo
    <3>3. name \o bo \in Names /\ ~LeadingNumber(name \o bo)
          BY <3>1, NameInFront DEF bo
    <3>4. QED BY <3>2, <3>3 DEF bo
  <2>2. line = (name \o Spelt(u)) \o <<Digits(n)>>
        BY DEF b, d
  <2> HIDE DEF line
  <2>3. Parse(line) = Stated(name, n, u)
        BY <2>1, <2>2, SaidLast
  <2>4. QED BY <2>3 DEF line
<1>13. QED BY <1>8, <1>9, <1>10, <1>11, <1>12 DEF d, b, g

(* Whatever name stands in the field, any quantity in any unit may be said *)
(* before or behind it, number or unit first, glued or not, and means the  *)
(* same.                                                                   *)
THEOREM QuantitiesGoEitherWay ==
    FieldSpec => []SameEitherWayRound
<1>1. typed \in Seq(Words) => SameEitherWayRound
  <2> SUFFICES ASSUME typed \in Seq(Words), typed # <<>>, Plain(typed),
                      NEW u \in Known, NEW n \in {m \in Numbers : m > 0},
                      NEW line \in {<<Digits(n)>> \o Spelt(u) \o typed,
                                    typed \o <<Digits(n)>> \o Spelt(u),
                                    typed \o Spelt(u) \o <<Digits(n)>>,
                                    Glued(n, u) \o typed, typed \o Glued(n, u)}
               PROVE  Parse(line) = Stated(typed, n, u)
      BY DEF SameEitherWayRound
  <2>1. typed \in Names /\ n \in Numbers /\ n > 0
        BY NamedBy
  <2>2. QED BY <2>1, FiveWays
<1>2. QED BY <1>1, FieldIsTyped, PTL

----------------------------------------------------------------------------
(* How names are spelled (Reading).                                        *)

LEMMA PlacedBehind ==
    ASSUME NEW S, NEW p \in Seq(S), NEW q \in Seq(S), NEW k \in 1..Len(q)
    PROVE  (p \o q)[Len(p) + k] = q[k]
OBVIOUS

Appended(s, t) == s \o t

(* f[i]: the first i pieces, one after the other.                          *)
Joins(f, ss, n) ==
    f = [i \in 1..n |-> IF i = 1 THEN ss[i] ELSE Appended(f[i - 1], ss[i])]

LEMMA ThenIs ==
    ASSUME NEW S, NEW s \in Seq(S), NEW t \in Seq(S)
    PROVE  Appended(s, t) \in Seq(S)
BY DEF Appended

LEMMA OneMoreJoins ==
    ASSUME NEW ss, NEW k \in Nat, NEW f, Joins(f, ss, k)
    PROVE  \E g : Joins(g, ss, k + 1)
<1> DEFINE last == IF k = 0 THEN ss[1] ELSE Appended(f[k], ss[k + 1])
           g == [i \in 1..k + 1 |-> IF i = k + 1 THEN last ELSE f[i]]
           e(i) == IF i = 1 THEN ss[i] ELSE Appended(g[i - 1], ss[i])
<1> HIDE DEF last
<1>1. ASSUME NEW i \in 1..k + 1 PROVE g[i] = e(i)
  <2>1. CASE i = k + 1 /\ k = 0
        BY <2>1 DEF last
  <2>2. CASE i = k + 1 /\ k # 0
    <3>1. k \in 1..k + 1 /\ k # k + 1 /\ i - 1 = k /\ i # 1
          BY <2>2
    <3>2. g[i - 1] = f[k] /\ g[i] = last
          BY <2>2, <3>1
    <3>3. QED BY <2>2, <3>1, <3>2 DEF last
  <2>3. CASE i # k + 1 /\ i = 1
        BY <2>3 DEF Joins
  <2>4. CASE i # k + 1 /\ i # 1
    <3>1. i - 1 \in 1..k + 1 /\ i - 1 # k + 1 /\ i \in 1..k
          BY <2>4
    <3>2. g[i - 1] = f[i - 1] /\ g[i] = f[i]
          BY <2>4, <3>1
    <3>3. f[i] = Appended(f[i - 1], ss[i])
          BY <2>4, <3>1 DEF Joins
    <3>4. QED BY <2>4, <3>2, <3>3
  <2>5. QED BY <2>1, <2>2, <2>3, <2>4
<1>2. g = [i \in 1..k + 1 |-> e(i)]
      BY <1>1
<1>3. Joins(g, ss, k + 1)
      BY <1>2 DEF Joins
<1> HIDE DEF g
<1>4. QED BY <1>3

LEMMA JoinedSoFar ==
    ASSUME NEW ss, NEW n \in Nat
    PROVE  \E f : Joins(f, ss, n)
<1> DEFINE Bad == {k \in Nat : ~\E f : Joins(f, ss, k)}
<1>1. SUFFICES ASSUME Bad # {} PROVE FALSE
      OBVIOUS
<1>2. PICK k \in Bad : \A m \in Bad : k <= m
  <2>1. Bad \subseteq Nat
        OBVIOUS
  <2>2. QED BY <1>1, <2>1, LeastThere
<1>3. k \in Nat /\ ~\E f : Joins(f, ss, k)
      BY <1>2
<1>4. CASE k = 0
  <2>1. Joins([i \in 1..0 |-> 0], ss, 0)
        BY DEF Joins
  <2>2. QED BY <1>3, <1>4, <2>1
<1>5. CASE k # 0
  <2>1. k - 1 \in Nat /\ k - 1 \notin Bad /\ (k - 1) + 1 = k
        BY <1>2, <1>3, <1>5
  <2>2. PICK f : Joins(f, ss, k - 1)
        BY <2>1
  <2> DEFINE j == k - 1
  <2>3. j \in Nat /\ Joins(f, ss, j) /\ j + 1 = k
        BY <2>1, <2>2
  <2> HIDE DEF j
  <2>4. \E g : Joins(g, ss, j + 1)
        BY <2>3, OneMoreJoins
  <2>5. QED BY <1>3, <2>3, <2>4
<1>6. QED BY <1>4, <1>5

LEMMA Flattens ==
    ASSUME NEW S, NEW ss \in Seq(Seq(S)), ss # <<>>
    PROVE  \E f \in [1..Len(ss) -> Seq(S)] :
              /\ FlattenSeq(ss) = f[Len(ss)] /\ f[1] = ss[1]
              /\ \A i \in 2..Len(ss) : f[i] = Appended(f[i - 1], ss[i])
<1> DEFINE n == Len(ss)
           h == CHOOSE f : Joins(f, ss, n)
<1>1. n \in Nat \ {0} /\ n \in 1..n /\ n # 0 /\ \A i \in 1..n : ss[i] \in Seq(S)
      OBVIOUS
<1>2. Joins(h, ss, n)
      BY <1>1, JoinedSoFar
<1>3. FlattenSeq(ss) = h[n]
      BY <1>1 DEF FlattenSeq, Joins, Appended
<1> HIDE DEF h, n
<1>4. h = [i \in 1..n |-> IF i = 1 THEN ss[i] ELSE Appended(h[i - 1], ss[i])]
      BY <1>2 DEF Joins
<1>5. \A i \in 1..n : h[i] = IF i = 1 THEN ss[i] ELSE Appended(h[i - 1], ss[i])
      BY <1>4
<1>6. h[1] = ss[1] /\ \A i \in 2..n : h[i] = Appended(h[i - 1], ss[i])
      BY <1>1, <1>5
<1>7. h \in [1..n -> Seq(S)]
  <2> DEFINE Bad == {k \in 1..n : h[k] \notin Seq(S)}
  <2>1. SUFFICES ASSUME Bad # {} PROVE FALSE
        BY <1>4
  <2>2. Bad \subseteq Nat
        BY <1>1
  <2>3. PICK k \in Bad : \A m \in Bad : k <= m
        BY <2>1, <2>2, LeastThere
  <2>4. k \in 1..n /\ h[k] \notin Seq(S)
        BY <2>3
  <2>5. CASE k = 1
        BY <1>1, <1>6, <2>4, <2>5
  <2>6. CASE k # 1
    <3>1. k - 1 \in 1..n /\ k \in 2..n /\ k - 1 \notin Bad
          BY <1>1, <2>2, <2>3, <2>4, <2>6
    <3>2. h[k - 1] \in Seq(S) /\ ss[k] \in Seq(S)
          BY <1>1, <2>4, <3>1
    <3>3. Appended(h[k - 1], ss[k]) \in Seq(S)
          BY <3>2, ThenIs
    <3>4. QED BY <1>6, <2>4, <3>1, <3>3
  <2>7. QED BY <2>5, <2>6
<1>8. QED BY <1>3, <1>6, <1>7 DEF n

(* The letters of a word; no two words have the same.                      *)
LEMMA LettersAre ==
    ASSUME NEW w \in Words
    PROVE  /\ Letters(w) \in Seq(Nat \ {0}) /\ Len(Letters(w)) \in Nat \ {0}
           /\ w.number = NoNumber => Letters(w) = Spelled[w.text]
           /\ w.number # NoNumber => /\ Letters(w)[1] = w.number + 1
                                     /\ Tail(Letters(w)) = IF w.text = NoText THEN <<>>
                                                           ELSE Spelled[w.text]
<1> DEFINE digits == IF w.number = NoNumber THEN <<>> ELSE <<w.number + 1>>
           text == IF w.text = NoText THEN <<>> ELSE Spelled[w.text]
<1>1. /\ w.number \in Numbers \cup {NoNumber} /\ w.text \in Texts \cup {NoText}
      /\ w.number = NoNumber => w.text \in Texts
      /\ Numbers \subseteq Nat /\ NoText \notin Texts
      BY WordIs, ReadingAssumption DEF ReadingAssumption
<1>2. text \in Seq(Nat \ {0}) /\ (w.text \in Texts => text = Spelled[w.text] /\ text # <<>>)
      BY <1>1, ReadingAssumption DEF ReadingAssumption
<1>3. Letters(w) = digits \o text
      BY DEF Letters
<1>4. CASE w.number = NoNumber
  <2>1. text = Spelled[w.text] /\ text # <<>> /\ digits = <<>>
        BY <1>1, <1>2, <1>4
  <2> HIDE DEF text, digits
  <2>2. Letters(w) = text
        BY <1>2, <1>3, <2>1
  <2>3. QED BY <1>2, <1>4, <2>1, <2>2
<1>5. CASE w.number # NoNumber
  <2>1. digits = <<w.number + 1>> /\ w.number + 1 \in Nat \ {0}
    <3>1. w.number \in Nat
          BY <1>1, <1>5
    <3>2. QED BY <1>5, <3>1
  <2> HIDE DEF digits
  <2> HIDE DEF text
  <2>2. Letters(w) = <<w.number + 1>> \o text
        BY <1>3, <2>1
  <2>3. /\ Letters(w) \in Seq(Nat \ {0}) /\ Len(Letters(w)) = Len(text) + 1
        /\ Letters(w)[1] = w.number + 1
        BY <1>2, <2>1, <2>2
  <2>4. Tail(Letters(w)) = text
        BY <1>2, <2>1, <2>2
  <2>5. Len(text) \in Nat
        BY <1>2
  <2>6. QED BY <1>5, <2>3, <2>4, <2>5, SMTT(60) DEF text
<1>6. QED BY <1>4, <1>5

LEMMA LettersTell ==
    ASSUME NEW v \in Words, NEW w \in Words, Letters(v) = Letters(w)
    PROVE  v = w
<1> DEFINE text(u) == IF u.text = NoText THEN <<>> ELSE Spelled[u.text]
<1>1. \A u \in {v, w} :
         /\ u.number \in Numbers \cup {NoNumber} /\ u.text \in Texts \cup {NoText}
         /\ u.number = NoNumber => u.text \in Texts
         /\ u = [number |-> u.number, text |-> u.text]
      BY WordIs
<1>2. Numbers \subseteq Nat /\ NoText \notin Texts /\ NoNumber = -1
      BY ReadingAssumption DEF ReadingAssumption, NoNumber
<1>3. \A u \in {v, w} :
         /\ u.number = NoNumber => Letters(u)[1] - 1 \notin Numbers
         /\ u.number # NoNumber => Letters(u)[1] - 1 = u.number
  <2> TAKE u \in {v, w}
  <2>1. CASE u.number = NoNumber
    <3>1. u.text \in Texts /\ Letters(u) = Spelled[u.text]
          BY <1>1, <2>1, LettersAre
    <3>2. Head(Spelled[u.text]) - 1 \notin Numbers /\ Spelled[u.text] \in Seq(Nat \ {0})
          BY <3>1, ReadingAssumption DEF ReadingAssumption
    <3>3. Head(Spelled[u.text]) = Spelled[u.text][1]
          BY <3>2
    <3>4. QED BY <2>1, <3>1, <3>2, <3>3
  <2>2. CASE u.number # NoNumber
    <3>1. Letters(u)[1] = u.number + 1 /\ u.number \in Int
          BY <1>1, <1>2, <2>2, LettersAre
    <3>2. QED BY <2>2, <3>1
  <2>3. QED BY <2>1, <2>2
<1>4. v.number = w.number
      BY <1>1, <1>3
<1>5. text(v) = text(w)
  <2>1. CASE v.number = NoNumber
    <3>1. v.text \in Texts /\ w.text \in Texts
          BY <1>1, <1>4, <2>1
    <3>2. QED BY <1>2, <1>4, <2>1, <3>1, LettersAre
  <2>2. CASE v.number # NoNumber
    <3>1. Tail(Letters(v)) = text(v) /\ Tail(Letters(w)) = text(w)
          BY <1>4, <2>2, LettersAre
    <3>2. QED BY <3>1
  <2>3. QED BY <2>1, <2>2
<1>6. v.text = w.text
  <2>1. /\ \A t \in Texts : Spelled[t] # <<>>
        /\ \A s, t \in Texts : Spelled[s] = Spelled[t] => s = t
        BY ReadingAssumption DEF ReadingAssumption
  <2>2. QED BY <1>1, <1>2, <1>5, <2>1
<1>7. QED BY <1>1, <1>4, <1>6

(* A sequence begins another.                                              *)
Leads(s, t) == Len(s) <= Len(t) /\ \A j \in 1..Len(s) : t[j] = s[j]

LEMMA LeadsOn ==
    ASSUME NEW S, NEW s \in Seq(S), NEW t \in Seq(S), NEW u \in Seq(S), Leads(s, t)
    PROVE  Leads(s, Appended(t, u))
BY DEF Leads, Appended

(* Where the i-th word of a name begins, e saying where each ends.         *)
From(e, i) == IF i = 1 THEN 0 ELSE e[i - 1] + 1

(* A word stands at a place: its letters, and a space or nothing more.     *)
StandsAt(letters, s, m) ==
    /\ m + Len(letters) <= Len(s)
    /\ \A j \in 1..Len(letters) : s[m + j] = letters[j]
    /\ m + Len(letters) = Len(s) \/ s[m + Len(letters) + 1] = 0

LEMMA OneStandsAt ==
    ASSUME NEW u \in Seq(Nat \ {0}), NEW v \in Seq(Nat \ {0}), NEW s \in Seq(Nat),
           NEW m \in Nat, StandsAt(u, s, m), StandsAt(v, s, m)
    PROVE  u = v
<1>1. Len(u) \in Nat /\ Len(v) \in Nat /\ Len(s) \in Nat
      OBVIOUS
<1>2. ASSUME NEW a \in Seq(Nat \ {0}), NEW b \in Seq(Nat \ {0}), StandsAt(a, s, m),
             StandsAt(b, s, m), Len(a) < Len(b)
      PROVE  FALSE
  <2>1. Len(a) \in Nat /\ Len(b) \in Nat /\ Len(a) + 1 \in 1..Len(b)
        BY <1>2
  <2>2. b[Len(a) + 1] # 0
        BY <2>1
  <2>3. s[m + (Len(a) + 1)] = b[Len(a) + 1] /\ m + (Len(a) + 1) = m + Len(a) + 1
        BY <1>2, <2>1 DEF StandsAt
  <2>4. m + Len(a) # Len(s)
        BY <1>1, <1>2, <2>1 DEF StandsAt
  <2>5. QED BY <1>2, <2>2, <2>3, <2>4 DEF StandsAt
<1>3. Len(u) = Len(v)
      BY <1>1, <1>2
<1>4. \A j \in 1..Len(u) : u[j] = v[j]
      BY <1>3 DEF StandsAt
<1>5. QED BY <1>3, <1>4, SeqEqual

LEMMA SpellingIs ==
    ASSUME NEW s \in Names
    PROVE  /\ Spelling(s) \in Seq(Nat)
           /\ \E e \in [1..Len(s) -> Nat] :
                 /\ e[Len(s)] = Len(Spelling(s))
                 /\ \A i \in 1..Len(s) :
                       /\ e[i] = From(e, i) + Len(Letters(s[i]))
                       /\ StandsAt(Letters(s[i]), Spelling(s), From(e, i))
                       /\ i < Len(s) => e[i] < Len(Spelling(s))
<1> DEFINE n == Len(s)
           L(i) == Letters(s[i])
           P(i) == (IF i = 1 THEN <<>> ELSE <<0>>) \o L(i)
           ss == [i \in 1..n |-> P(i)]
<1>1. n \in Nat \ {0} /\ DOMAIN s = 1..n /\ n \in 1..n /\ \A i \in 1..n : s[i] \in Words
      BY NameIs
<1> HIDE DEF n
<1>2. \A i \in 1..n : L(i) \in Seq(Nat \ {0}) /\ L(i) \in Seq(Nat) /\ Len(L(i)) \in Nat \ {0}
  <2> TAKE i \in 1..n
  <2>1. s[i] \in Words
        BY <1>1
  <2>2. L(i) \in Seq(Nat \ {0}) /\ Len(L(i)) \in Nat \ {0}
        BY <2>1, LettersAre
  <2> HIDE DEF L
  <2>3. QED BY <2>2
<1> HIDE DEF L
<1>3. P(1) = L(1)
      BY <1>1, <1>2
<1>4. ASSUME NEW i \in 2..n
      PROVE  /\ P(i) \in Seq(Nat) /\ Len(P(i)) = 1 + Len(L(i)) /\ P(i)[1] = 0
             /\ \A j \in 1..Len(L(i)) : P(i)[1 + j] = L(i)[j]
  <2>1. L(i) \in Seq(Nat) /\ Len(L(i)) \in Nat /\ i # 1
        BY <1>1, <1>2, <1>4
  <2>4. P(i) = <<0>> \o L(i)
        BY <2>1
  <2> HIDE DEF P
  <2>2. <<0>> \in Seq(Nat) /\ Len(<<0>>) = 1 /\ <<0>>[1] = 0
        OBVIOUS
  <2>3. QED BY <2>1, <2>2, <2>4
<1> HIDE DEF P
<1>5. \A i \in 1..n : P(i) \in Seq(Nat)
      BY <1>1, <1>2, <1>3, <1>4
<1>6. ss \in Seq(Seq(Nat)) /\ Len(ss) = n /\ ss # <<>> /\ \A i \in 1..n : ss[i] = P(i)
  <2>1. ss \in Seq(Seq(Nat))
        BY <1>1, <1>5, IsASeq
  <2>2. Len(ss) = n /\ \A i \in 1..n : ss[i] = P(i)
        BY <1>1
  <2> HIDE DEF ss
  <2>3. ss # <<>>
        BY <1>1, <2>1, <2>2
  <2>4. QED BY <2>1, <2>2, <2>3
<1>7. Spelling(s) = FlattenSeq(ss)
      BY <1>1 DEF Spelling, P, L
<1> HIDE DEF ss
<1>8. PICK f \in [1..n -> Seq(Nat)] :
         /\ Spelling(s) = f[n] /\ f[1] = L(1)
         /\ \A i \in 2..n : f[i] = Appended(f[i - 1], P(i))
  <2>1. \E f \in [1..Len(ss) -> Seq(Nat)] :
           /\ FlattenSeq(ss) = f[Len(ss)] /\ f[1] = ss[1]
           /\ \A i \in 2..Len(ss) : f[i] = Appended(f[i - 1], ss[i])
        BY <1>6, Flattens
  <2>2. PICK f \in [1..n -> Seq(Nat)] :
           /\ FlattenSeq(ss) = f[n] /\ f[1] = ss[1]
           /\ \A i \in 2..n : f[i] = Appended(f[i - 1], ss[i])
        BY <1>6, <2>1
  <2>3. ss[1] = L(1) /\ \A i \in 2..n : ss[i] = P(i)
        BY <1>1, <1>3, <1>6
  <2>4. QED BY <1>7, <2>2, <2>3
<1> DEFINE e == [i \in 1..n |-> Len(f[i])]
<1>9. ASSUME NEW i \in 1..n
      PROVE  /\ f[i] \in Seq(Nat) /\ e[i] = Len(f[i]) /\ e[i] \in Nat
             /\ From(e, i) \in Nat /\ e[i] = From(e, i) + Len(L(i))
             /\ \A j \in 1..Len(L(i)) : f[i][From(e, i) + j] = L(i)[j]
  <2>1. f[i] \in Seq(Nat) /\ e[i] = Len(f[i]) /\ e[i] \in Nat
        OBVIOUS
  <2>2. CASE i = 1
    <3> HIDE DEF e
    <3>1. From(e, i) = 0 /\ f[i] = L(i) /\ Len(L(i)) \in Nat
          BY <1>2, <1>8, <2>2 DEF From
    <3>2. \A j \in 1..Len(L(i)) : 0 + j = j
          BY <3>1
    <3>3. QED BY <2>1, <3>1, <3>2
  <2>3. CASE i # 1
    <3> DEFINE p == f[i - 1]
               q == P(i)
    <3>1. i \in 2..n /\ i - 1 \in 1..n /\ p \in Seq(Nat) /\ e[i - 1] = Len(p)
          BY <1>1, <1>9, <2>3
    <3>2. q \in Seq(Nat) /\ Len(q) = 1 + Len(L(i)) /\ \A j \in 1..Len(L(i)) : q[1 + j] = L(i)[j]
          BY <1>4, <3>1
    <3>3. f[i] = p \o q /\ From(e, i) = Len(p) + 1
          BY <1>8, <2>3, <3>1 DEF Appended, From
    <3>4. Len(p) \in Nat /\ Len(L(i)) \in Nat
          BY <1>2, <3>1
    <3> HIDE DEF p, q, e
    <3>5. Len(f[i]) = From(e, i) + Len(L(i)) /\ From(e, i) \in Nat
      <4>1. p \in Seq(Nat) /\ q \in Seq(Nat)
            BY <3>1, <3>2
      <4>2. Len(p \o q) = Len(p) + Len(q)
            BY ONLY <4>1
      <4>3. QED BY <3>2, <3>3, <3>4, <4>2
    <3>6. ASSUME NEW j \in 1..Len(L(i)) PROVE f[i][From(e, i) + j] = L(i)[j]
      <4>1. From(e, i) + j = Len(p) + (1 + j) /\ 1 + j \in 1..Len(q)
        <5>1. From(e, i) = Len(p) + 1
              BY <3>3
        <5>2. Len(q) = 1 + Len(L(i))
              BY <3>2
        <5>3. j \in 1..Len(L(i))
              OBVIOUS
        <5>4. QED BY ONLY <3>4, <5>1, <5>2, <5>3
      <4>2. (p \o q)[Len(p) + (1 + j)] = q[1 + j]
            BY <3>1, <3>2, <4>1, PlacedBehind
      <4>3. QED BY <3>2, <3>3, <4>1, <4>2
    <3>7. QED BY <2>1, <3>5, <3>6
  <2>4. QED BY <2>2, <2>3
<1> HIDE DEF e
<1>10. ASSUME NEW i \in 1..n, NEW k \in i..n PROVE Leads(f[i], f[k])
  <2> DEFINE Bad == {m \in i..n : ~Leads(f[i], f[m])}
  <2>1. SUFFICES ASSUME Bad # {} PROVE FALSE
        OBVIOUS
  <2>2. Bad \subseteq Nat
        BY <1>1
  <2>3. PICK m \in Bad : \A l \in Bad : m <= l
        BY <2>1, <2>2, LeastThere
  <2>4. m \in i..n /\ ~Leads(f[i], f[m])
        BY <2>3
  <2>5. CASE m = i
        BY <2>4, <2>5, <1>9 DEF Leads
  <2>6. CASE m # i
    <3>1. m - 1 \in i..n /\ m - 1 \in 1..n /\ m \in 2..n /\ m - 1 \notin Bad
          BY <1>1, <2>2, <2>3, <2>4, <2>6
    <3>2. Leads(f[i], f[m - 1])
          BY <3>1
    <3>3. f[i] \in Seq(Nat) /\ f[m - 1] \in Seq(Nat) /\ P(m) \in Seq(Nat)
          BY <1>4, <1>9, <3>1
    <3>4. Leads(f[i], Appended(f[m - 1], P(m)))
          BY <3>2, <3>3, LeadsOn
    <3>5. QED BY <1>8, <2>4, <3>1, <3>4
  <2>7. QED BY <2>5, <2>6
<1> DEFINE S == Spelling(s)
<1>11. S \in Seq(Nat) /\ S = f[n] /\ e[n] = Len(S) /\ Len(S) \in Nat
       BY <1>1, <1>8, <1>9
<1> HIDE DEF S
<1>12. ASSUME NEW i \in 1..n, i < n
       PROVE  e[i] + 1 <= Len(S) /\ S[e[i] + 1] = 0
  <2> DEFINE p == f[i]
             q == P(i + 1)
             m == i + 1
  <2>1. m \in 2..n /\ m \in 1..n /\ m - 1 = i /\ m \in m..n /\ n \in m..n
        BY <1>1, <1>12
  <2>2. p \in Seq(Nat) /\ e[i] = Len(p) /\ Len(p) \in Nat
        BY <1>9
  <2>3. f[m] = Appended(p, q)
        BY <1>8, <2>1
  <2>4. q \in Seq(Nat) /\ q[1] = 0 /\ Len(q) \in Nat \ {0}
    <3>1. P(m) \in Seq(Nat) /\ P(m)[1] = 0 /\ Len(P(m)) = 1 + Len(L(m)) /\ Len(L(m)) \in Nat
          BY <1>2, <1>4, <2>1
    <3>2. QED BY <3>1
  <2> HIDE DEF p, q
  <2>5. f[m][Len(p) + 1] = 0 /\ Len(p) + 1 \in 1..Len(f[m])
        BY <2>2, <2>3, <2>4 DEF Appended
  <2>6. Leads(f[m], S)
        BY <1>10, <1>11, <2>1
  <2>7. f[m] \in Seq(Nat) /\ Len(f[m]) \in Nat
        BY <1>9, <2>1
  <2>8. S[Len(p) + 1] = f[m][Len(p) + 1] /\ Len(p) + 1 <= Len(f[m]) /\ Len(f[m]) <= Len(S)
        BY <2>5, <2>6 DEF Leads
  <2> HIDE DEF m
  <2>9. Len(p) + 1 <= Len(S)
        BY <1>11, <2>2, <2>7, <2>8
  <2>10. QED BY <2>2, <2>5, <2>8, <2>9
<1>13. ASSUME NEW i \in 1..n
       PROVE  StandsAt(L(i), S, From(e, i))
  <2> DEFINE m == From(e, i)
  <2>1. f[i] \in Seq(Nat) /\ Len(f[i]) = m + Len(L(i)) /\ m \in Nat /\ Len(L(i)) \in Nat
        BY <1>2, <1>9
  <2>8. Leads(f[i], S)
    <3>1. n \in i..n
          BY <1>1
    <3>2. QED BY <1>10, <1>11, <3>1
  <2>2. \A j \in 1..Len(L(i)) : f[i][m + j] = L(i)[j]
        BY <1>9
  <2>3. e[i] = m + Len(L(i))
        BY <1>9
  <2> HIDE DEF m
  <2>4. \A j \in 1..Len(L(i)) : m + j \in 1..Len(f[i])
        BY <2>1
  <2>5. m + Len(L(i)) <= Len(S) /\ \A j \in 1..Len(L(i)) : S[m + j] = L(i)[j]
        BY <1>11, <2>1, <2>2, <2>4, <2>8 DEF Leads
  <2>6. m + Len(L(i)) = Len(S) \/ S[m + Len(L(i)) + 1] = 0
    <3>1. CASE i = n
          BY <1>11, <2>3, <3>1
    <3>2. CASE i # n
      <4>1. i < n
            BY <1>1, <3>2
      <4>2. QED BY <1>12, <2>3, <4>1
    <3>3. QED BY <3>1, <3>2
  <2>7. QED BY <2>5, <2>6 DEF StandsAt, m
<1>14. e \in [1..n -> Nat]
      BY <1>9 DEF e
<1>15. \A i \in 1..n :
         /\ e[i] = From(e, i) + Len(L(i)) /\ StandsAt(L(i), S, From(e, i))
         /\ i < n => e[i] < Len(S)
      BY <1>9, <1>11, <1>12, <1>13, SMTT(60)
<1>16. QED BY <1>11, <1>14, <1>15 DEF S, L, n

(* Names that differ are spelled differently.                              *)
LEMMA NamesAreApart ==
    ASSUME NEW a \in Names, NEW b \in Names, Spelling(a) = Spelling(b)
    PROVE  a = b
<1>1. ASSUME NEW s \in Names, NEW t \in Names, Spelling(s) = Spelling(t)
      PROVE  \A i \in 1..Len(s) : i \in 1..Len(t) /\ s[i] = t[i]
  <2> DEFINE S == Spelling(s)
             m == Len(s)
             n == Len(t)
  <2>1. PICK d \in [1..m -> Nat] :
           /\ d[m] = Len(S)
           /\ \A i \in 1..m : /\ d[i] = From(d, i) + Len(Letters(s[i]))
                              /\ StandsAt(Letters(s[i]), S, From(d, i))
                              /\ i < m => d[i] < Len(S)
        BY SpellingIs
  <2>2. PICK e \in [1..n -> Nat] :
           /\ e[n] = Len(S)
           /\ \A i \in 1..n : /\ e[i] = From(e, i) + Len(Letters(t[i]))
                              /\ StandsAt(Letters(t[i]), S, From(e, i))
                              /\ i < n => e[i] < Len(S)
        BY <1>1, SpellingIs
  <2>3. /\ m \in Nat \ {0} /\ n \in Nat \ {0} /\ S \in Seq(Nat)
        /\ \A i \in 1..m : s[i] \in Words /\ Letters(s[i]) \in Seq(Nat \ {0})
        /\ \A i \in 1..n : t[i] \in Words /\ Letters(t[i]) \in Seq(Nat \ {0})
        BY NameIs, SpellingIs, LettersAre
  <2> HIDE DEF S, m, n
  <2> DEFINE Bad == {i \in 1..m : ~(i \in 1..n /\ s[i] = t[i] /\ d[i] = e[i])}
  <2>4. ASSUME Bad # {} PROVE FALSE
    <3>1. Bad \subseteq Nat
          BY <2>3
    <3>2. PICK i \in Bad : \A k \in Bad : i <= k
          BY <2>4, <3>1, LeastThere
    <3>3. i \in 1..m /\ ~(i \in 1..n /\ s[i] = t[i] /\ d[i] = e[i])
          BY <3>2
    <3>4. i \in 1..n /\ From(d, i) = From(e, i) /\ From(d, i) \in Nat
      <4>1. CASE i = 1
            BY <2>3, <4>1 DEF From
      <4>2. CASE i # 1
        <5>1. i - 1 \in 1..m /\ i - 1 < m /\ i - 1 \notin Bad
              BY <2>3, <3>1, <3>2, <3>3, <4>2
        <5>2. i - 1 \in 1..n /\ d[i - 1] = e[i - 1]
              BY <5>1
        <5>3. d[i - 1] < Len(S)
              BY <2>1, <5>1
        <5>4. i - 1 # n
              BY <2>2, <2>3, <5>2, <5>3, SMTT(60)
        <5>5. i \in 1..n
              BY <2>3, <3>3, <5>2, <5>4
        <5>6. From(d, i) = d[i - 1] + 1 /\ From(e, i) = e[i - 1] + 1
              BY <4>2 DEF From
        <5>7. d[i - 1] \in Nat
              BY <5>1
        <5>8. QED BY <5>2, <5>5, <5>6, <5>7
      <4>3. QED BY <4>1, <4>2
    <3>5. Letters(s[i]) = Letters(t[i])
          BY <2>1, <2>2, <2>3, <3>3, <3>4, OneStandsAt
    <3>6. s[i] = t[i]
          BY <2>3, <3>3, <3>4, <3>5, LettersTell
    <3>7. d[i] = e[i]
          BY <2>1, <2>2, <3>3, <3>4, <3>5
    <3>8. QED BY <3>3, <3>4, <3>6, <3>7
  <2>5. QED BY <2>4 DEF m, n
<1>2. (\A i \in 1..Len(a) : i \in 1..Len(b) /\ a[i] = b[i])
      /\ \A i \in 1..Len(b) : i \in 1..Len(a) /\ b[i] = a[i]
      BY <1>1
<1>3. a \in Seq(Words) /\ b \in Seq(Words) /\ Len(a) \in Nat \ {0} /\ Len(b) \in Nat \ {0}
      BY NameIs
<1>4. Len(a) = Len(b)
  <2>1. Len(a) \in 1..Len(a) /\ Len(b) \in 1..Len(b)
        BY <1>3
  <2>2. Len(a) \in 1..Len(b) /\ Len(b) \in 1..Len(a)
        BY <1>2, <2>1
  <2>3. QED BY <1>3, <2>2
<1>5. QED BY <1>2, <1>3, <1>4, SeqEqual

(* What is spelled differently comes one before the other.                 *)
LEMMA SoonerIs ==
    /\ \A a \in Seq(Nat) : ~Sooner(a, a)
    /\ \A a, b \in Seq(Nat) : a # b => Sooner(a, b) \/ Sooner(b, a)
    /\ \A a, b, c \in Seq(Nat) : Sooner(a, b) /\ Sooner(b, c) => Sooner(a, c)
<1>1. ASSUME NEW a \in Seq(Nat) PROVE ~Sooner(a, a)
      BY DEF Sooner
<1>2. ASSUME NEW a \in Seq(Nat), NEW b \in Seq(Nat), a # b
      PROVE  Sooner(a, b) \/ Sooner(b, a)
  <2> DEFINE m == IF Len(a) < Len(b) THEN Len(a) ELSE Len(b)
             Odd == {j \in 1..m : a[j] # b[j]}
  <2>1. Len(a) \in Nat /\ Len(b) \in Nat /\ m \in Nat /\ m <= Len(a) /\ m <= Len(b)
        OBVIOUS
  <2>2. CASE Odd = {}
    <3>1. \A j \in 1..m : a[j] = b[j]
          BY <2>2
    <3>2. Len(a) # Len(b)
      <4>1. ASSUME Len(a) = Len(b) PROVE FALSE
        <5>1. m = Len(a)
              BY <4>1
        <5>2. a = b
              BY <3>1, <4>1, <5>1, SeqEqual
        <5>3. QED BY <1>2, <5>2
      <4>2. QED BY <4>1
    <3>3. CASE Len(a) < Len(b)
      <4>1. m = Len(a) /\ m \in 0..Len(b) - 1
            BY <2>1, <3>3
      <4> HIDE DEF m
      <4>2. QED BY <2>1, <3>1, <4>1 DEF Sooner
    <3>4. CASE Len(b) < Len(a)
      <4>1. m = Len(b) /\ m \in 0..Len(a) - 1
            BY <2>1, <3>4
      <4> HIDE DEF m
      <4>2. QED BY <2>1, <3>1, <4>1 DEF Sooner
    <3>5. QED BY <2>1, <3>2, <3>3, <3>4
  <2>3. CASE Odd # {}
    <3>1. Odd \subseteq Nat
          BY <2>1
    <3>2. PICK j \in Odd : \A i \in Odd : j <= i
          BY <2>3, <3>1, LeastThere
    <3> DEFINE k == j - 1
    <3>3. /\ k \in 0..Len(b) - 1 /\ k \in 0..Len(a) - 1 /\ k < Len(a) /\ k < Len(b)
          /\ k + 1 = j /\ a[j] # b[j]
          BY <2>1, <3>2
    <3>4. ASSUME NEW i \in 1..k PROVE a[i] = b[i]
      <4>1. j \in 1..m /\ i \in 1..m /\ ~(j <= i)
            BY <2>1, <3>2, SMTT(60)
      <4>2. i \notin Odd
            BY <3>2, <4>1
      <4>3. QED BY <4>1, <4>2
    <3>5. a[j] \in Nat /\ b[j] \in Nat
      <4>1. j \in 1..Len(a) /\ j \in 1..Len(b)
            BY <2>1, <3>2
      <4>2. QED BY <4>1
    <3> HIDE DEF k, m, Odd
    <3>6. a[k + 1] < b[k + 1] \/ b[k + 1] < a[k + 1]
          BY <3>3, <3>5
    <3>7. k <= Len(a) /\ k <= Len(b)
          BY <2>1, <3>3
    <3>8. QED BY <3>3, <3>4, <3>6, <3>7 DEF Sooner
  <2>4. QED BY <2>2, <2>3
<1>3. ASSUME NEW a \in Seq(Nat), NEW b \in Seq(Nat), NEW c \in Seq(Nat),
             Sooner(a, b), Sooner(b, c)
      PROVE  Sooner(a, c)
  <2>1. PICK j \in 0..Len(b) - 1 :
           /\ j <= Len(a) /\ \A i \in 1..j : a[i] = b[i]
           /\ j = Len(a) \/ (j < Len(a) /\ a[j + 1] < b[j + 1])
        BY <1>3 DEF Sooner
  <2>2. PICK k \in 0..Len(c) - 1 :
           /\ k <= Len(b) /\ \A i \in 1..k : b[i] = c[i]
           /\ k = Len(b) \/ (k < Len(b) /\ b[k + 1] < c[k + 1])
        BY <1>3 DEF Sooner
  <2>3. Len(a) \in Nat /\ Len(b) \in Nat /\ Len(c) \in Nat
        OBVIOUS
  <2>4. CASE j < k
    <3>1. j \in 0..Len(c) - 1 /\ j + 1 \in 1..k
          BY <2>1, <2>2, <2>3, <2>4
    <3>2. \A i \in 1..j : a[i] = c[i]
          BY <2>1, <2>2, <2>3, <2>4
    <3>3. b[j + 1] = c[j + 1]
          BY <2>2, <3>1
    <3>4. QED BY <2>1, <3>1, <3>2, <3>3 DEF Sooner
  <2>5. CASE j = k
    <3>1. j \in 0..Len(c) - 1 /\ k < Len(b) /\ b[j + 1] < c[j + 1]
          BY <2>1, <2>2, <2>3, <2>5
    <3>2. \A i \in 1..j : a[i] = c[i]
          BY <2>1, <2>2, <2>5
    <3>3. j < Len(a) => a[j + 1] \in Nat /\ b[j + 1] \in Nat /\ c[j + 1] \in Nat
      <4>1. ASSUME j < Len(a)
            PROVE  j + 1 \in 1..Len(a) /\ j + 1 \in 1..Len(b) /\ j + 1 \in 1..Len(c)
            BY <2>1, <2>3, <3>1, <4>1
      <4>2. QED BY <4>1
    <3>4. j < Len(a) => a[j + 1] < c[j + 1]
      <4>1. ASSUME j < Len(a) PROVE a[j + 1] < c[j + 1]
        <5>1. a[j + 1] < b[j + 1]
              BY <2>1, <2>3, <4>1
        <5>2. QED BY <3>1, <3>3, <4>1, <5>1
      <4>2. QED BY <4>1
    <3>5. QED BY <2>1, <3>1, <3>2, <3>4 DEF Sooner
  <2>6. CASE k < j
    <3>1. k < Len(b) /\ k < Len(a) /\ k <= Len(a) /\ k + 1 \in 1..j /\ k # Len(b)
      <4>1. j \in Nat /\ k \in Nat /\ j <= Len(b) - 1 /\ j <= Len(a)
            BY <2>1, <2>2
      <4>2. QED BY <2>3, <2>6, <4>1, SMTT(60)
    <3>2. \A i \in 1..k : a[i] = c[i]
          BY <2>1, <2>2, <2>3, <2>6
    <3>3. a[k + 1] = b[k + 1] /\ b[k + 1] < c[k + 1]
          BY <2>1, <2>2, <3>1
    <3>4. QED BY <2>2, <3>1, <3>2, <3>3 DEF Sooner
  <2>7. QED BY <2>1, <2>2, <2>3, <2>4, <2>5, <2>6
<1>4. QED BY <1>1, <1>2, <1>3

----------------------------------------------------------------------------
(* What is offered (Reading).                                              *)

(* Candidates that can be put in order, t half-lives on.                   *)
Rated(S, t) ==
    /\ IsFiniteSet(S)
    /\ \A c \in S : c.name \in Names /\ Weight(c, t) \in Int /\ c.last \in Int
    /\ \A b, c \in S : b.name = c.name => b = c

LEMMA RanksCompare ==
    ASSUME NEW S, NEW t, Rated(S, t)
    PROVE  Compares(S, {p \in S \X S : Ranks(p[1], p[2], t)})
<1> DEFINE R == {p \in S \X S : Ranks(p[1], p[2], t)}
           W(c) == Weight(c, t)
           L(c) == c.last
           N(c) == Spelling(c.name)
           Ahead(a, b) == W(a) > W(b)
                           \/ (~(W(b) > W(a)) /\ L(a) > L(b))
                           \/ (~(W(b) > W(a)) /\ L(a) = L(b) /\ Sooner(N(a), N(b)))
<1>1. \A a, b \in S : <<a, b>> \in R <=> Ahead(a, b)
      BY DEF Ranks, Heavier
<1>2. \A c \in S : W(c) \in Int /\ L(c) \in Int /\ N(c) \in Seq(Nat)
      BY SpellingIs DEF Rated
<1>3. \A b, c \in S : N(b) = N(c) => b = c
      BY NamesAreApart DEF Rated
<1> HIDE DEF R, W, L, N
<1>4. \A a \in S : <<a, a>> \notin R
      BY <1>1, <1>2, SoonerIs
<1>5. \A a, b \in S : a # b => <<a, b>> \in R \/ <<b, a>> \in R
  <2> TAKE a, b \in S
  <2>1. a # b => Sooner(N(a), N(b)) \/ Sooner(N(b), N(a))
        BY <1>2, <1>3, SoonerIs
  <2>2. a # b => Ahead(a, b) \/ Ahead(b, a)
        BY <1>2, <2>1
  <2>3. QED BY <1>1, <2>2
<1>6. \A a, b, c \in S : <<a, b>> \in R /\ <<b, c>> \in R => <<a, c>> \in R
  <2> TAKE a, b, c \in S
  <2>1. Sooner(N(a), N(b)) /\ Sooner(N(b), N(c)) => Sooner(N(a), N(c))
        BY <1>2, SoonerIs
  <2>2. W(a) \in Int /\ W(b) \in Int /\ W(c) \in Int /\ L(a) \in Int /\ L(b) \in Int /\ L(c) \in Int
        BY <1>2
  <2>3. Ahead(a, b) /\ Ahead(b, c) => Ahead(a, c)
        BY <2>1, <2>2
  <2>4. QED BY <1>1, <2>3
<1>7. QED BY <1>4, <1>5, <1>6 DEF Compares, R

LEMMA FewIs ==
    ASSUME NEW T, NEW n \in Nat, NEW s \in [1..n -> T]
    PROVE  Few(s) = [i \in 1..(IF n < Limit THEN n ELSE Limit) |-> s[i]]
<1> DEFINE m == IF n < Limit THEN n ELSE Limit
<1>1. Limit \in Nat /\ m \in Nat /\ m <= n
      BY ReadingAssumption DEF ReadingAssumption
<1>2. s \in Seq(T) /\ Len(s) = n
      OBVIOUS
<1>3. Few(s) = SubSeq(s, 1, m)
      BY <1>2 DEF Few
<1> HIDE DEF m
<1>4. SubSeq(s, 1, m) = [i \in 1..m |-> s[i]]
  <2>1. SubSeq(s, 1, m) = [i \in 1..m - 1 + 1 |-> s[i + 1 - 1]]
        BY <1>1, <1>2
  <2>2. m - 1 + 1 = m /\ \A i \in 1..m : i + 1 - 1 = i
        BY <1>1
  <2>3. QED BY <2>1, <2>2
<1>5. QED BY <1>3, <1>4 DEF m

(* Of candidates, those that may be offered, and which is the better.      *)
ScoreOf(q, c) == IF q = <<>> THEN 0 ELSE Score(q, c.name)
FitFor(q, S) == {c \in S : q = <<>> \/ Matches(q, c.name)}
Beats(q, t, a, b) ==
    \/ ScoreOf(q, a) > ScoreOf(q, b)
    \/ ScoreOf(q, a) = ScoreOf(q, b) /\ Ranks(a, b, t)

(* Every one of them once, the better before the less.                     *)
BestFirst(f, q, S, t) ==
    LET fit == FitFor(q, S)
        n == Cardinality(fit)
    IN /\ f \in [1..n -> fit] /\ \A c \in fit : \E i \in 1..n : f[i] = c
       /\ \A i, j \in 1..n : i < j => Beats(q, t, f[i], f[j])

LEMMA ScoreIs ==
    ASSUME NEW s, NEW name \in Names
    PROVE  Score(s, name) \in Int
<1> DEFINE tiers == {t \in {1000, 800, 600, 400} :
                        \/ t = 1000 /\ IsPrefix(s, Spelling(Key(name)))
                        \/ t = 800 /\ \E i \in DOMAIN Key(name) : IsPrefix(s, Letters(Key(name)[i]))
                        \/ t = 600 /\ Inside(s, Spelling(Key(name)))
                        \/ t = 400 /\ Scattered(s, Spelling(Key(name)))}
           brief == Brevity(Spelling(Key(name)))
<1>1. Score(s, name) = IF tiers = {} THEN 0 ELSE Max(tiers) - brief
      BY DEF Score
<1>2. \A x \in tiers : x \in Nat /\ x <= 1000
      OBVIOUS
<1> HIDE DEF tiers
<1>3. tiers # {} => Max(tiers) \in Int
  <2> SUFFICES ASSUME tiers # {} PROVE Max(tiers) \in Int
      OBVIOUS
  <2> DEFINE below == {1000 - x : x \in tiers}
  <2>1. below \subseteq Nat /\ below # {}
        BY <1>2
  <2>2. PICK y \in below : \A z \in below : y <= z
        BY <2>1, LeastThere
  <2>3. PICK x \in tiers : y = 1000 - x
        BY <2>2
  <2>4. ASSUME NEW z \in tiers PROVE x >= z
    <3>1. 1000 - x <= 1000 - z
          BY <2>2, <2>3
    <3>2. QED BY <1>2, <2>3, <3>1
  <2>5. Max(tiers) \in tiers
        BY <2>4 DEF Max
  <2>6. QED BY <1>2, <2>5
<1>4. brief \in Int
  <2>1. Len(Spelling(Key(name))) \in Int
    <3>1. Key(name) \in Names
          BY KeyIs, KeyIsNotEmpty DEF Names
    <3>2. Spelling(Key(name)) \in Seq(Nat)
          BY <3>1, SpellingIs
    <3>3. QED BY <3>2
  <2>2. QED BY <2>1 DEF Brevity
<1>5. QED BY <1>1, <1>3, <1>4

(* The names of the first m.                                               *)
NamesOf(f, m) == [i \in 1..m |-> f[i].name]

LEMMA RankedIs ==
    ASSUME NEW S, NEW t, Rated(S, t)
    PROVE  LET ranked == Ranked(S, t)
               n == Cardinality(S)
           IN /\ n \in Nat /\ ranked \in [1..n -> S]
              /\ \A c \in S : \E i \in 1..n : ranked[i] = c
              /\ \A i, j \in 1..n : ranked[i] = ranked[j] => i = j
              /\ \A i, j \in 1..n : i < j => Ranks(ranked[i], ranked[j], t)
<1> DEFINE n == Cardinality(S)
           R == {p \in S \X S : Ranks(p[1], p[2], t)}
           ranked == InTurn(S, R)
<1>1. IsFiniteSet(S) /\ n \in Nat
      BY FS_CardinalityType DEF Rated
<1>2. \A a, b \in S : <<a, b>> \in R => Ranks(a, b, t)
      OBVIOUS
<1>3. Compares(S, R)
      BY RanksCompare
<1>4. Ranked(S, t) = ranked
      BY DEF Ranked
<1> HIDE DEF R
<1>5. /\ ranked \in [1..n -> S]
      /\ \A k \in 1..n : Rank(S, R, ranked[k]) = k - 1
      /\ \A c \in S : \E k \in 1..n : ranked[k] = c
      /\ \A j, k \in 1..n : <<ranked[j], ranked[k]>> \in R <=> j < k
      BY <1>1, <1>3, Sorted, SMTT(60)
<1> HIDE DEF ranked, n
<1>6. \A i, j \in 1..n : ranked[i] = ranked[j] => i = j
  <2> TAKE i, j \in 1..n
  <2>1. ranked[i] = ranked[j] => i - 1 = j - 1
        BY <1>5
  <2>2. QED BY <1>1, <2>1
<1>7. \A i, j \in 1..n : i < j => Ranks(ranked[i], ranked[j], t)
      BY <1>2, <1>5
<1>8. QED BY <1>1, <1>4, <1>5, <1>6, <1>7 DEF n

(* What is offered is the first few of what fits, the best first.          *)
LEMMA OfferIs ==
    ASSUME NEW q, NEW S, NEW t, Rated(S, t)
    PROVE  LET n == Cardinality(FitFor(q, S)) IN
           /\ IsFiniteSet(FitFor(q, S)) /\ n \in Nat
           /\ \E f : /\ BestFirst(f, q, S, t)
                     /\ Offer(q, S, t) = NamesOf(f, IF n < Limit THEN n ELSE Limit)
<1> DEFINE N == Cardinality(S)
           ranked == Ranked(S, t)
           fit == FitFor(q, S)
           n == Cardinality(fit)
           m == IF n < Limit THEN n ELSE Limit
<1>1. /\ N \in Nat /\ ranked \in [1..N -> S]
      /\ \A c \in S : \E i \in 1..N : ranked[i] = c
      /\ \A i, j \in 1..N : ranked[i] = ranked[j] => i = j
      /\ \A i, j \in 1..N : i < j => Ranks(ranked[i], ranked[j], t)
      BY RankedIs
<1>2. IsFiniteSet(fit) /\ n \in Nat /\ fit \subseteq S
  <2>1. fit \subseteq S
        BY DEF FitFor
  <2>2. QED BY <2>1, FS_Subset, FS_CardinalityType DEF Rated
<1>3. Limit \in Nat /\ m \in Nat /\ 1..m \subseteq 1..n /\ m <= n
      BY <1>2, ReadingAssumption DEF ReadingAssumption
<1>4. CASE q = <<>>
  <2>1. fit = S
        BY <1>4 DEF FitFor
  <2>2. n = N
        BY <2>1
  <2> HIDE DEF ranked, fit, n, N
  <2>3. BestFirst(ranked, q, S, t)
    <3>1. \A a, b : Ranks(a, b, t) => Beats(q, t, a, b)
          BY <1>4 DEF Beats, ScoreOf
    <3>2. QED BY <1>1, <2>1, <2>2, <3>1 DEF BestFirst, fit, n
  <2> DEFINE top == Few(ranked)
  <2>4. top = [i \in 1..m |-> ranked[i]]
    <3>1. ranked \in [1..n -> S] /\ n \in Nat
          BY <1>1, <2>2
    <3>2. QED BY ONLY <3>1, FewIs
  <2>5. Offer(q, S, t) = [i \in DOMAIN top |-> top[i].name]
        BY <1>4 DEF Offer, ranked
  <2> HIDE DEF top, m
  <2>6. Offer(q, S, t) = [i \in 1..m |-> ranked[i].name]
        BY <2>4, <2>5
  <2>7. Offer(q, S, t) = NamesOf(ranked, m)
        BY <2>6 DEF NamesOf
  <2>8. QED BY <1>2, <2>3, <2>7 DEF m, n, fit
<1>5. CASE q # <<>>
  <2> DEFINE score(i) == Score(q, ranked[i].name)
             places == {i \in DOMAIN ranked : Matches(q, ranked[i].name)}
             before == {p \in places \X places :
                  score(p[1]) > score(p[2]) \/ (score(p[1]) = score(p[2]) /\ p[1] < p[2])}
             at == InTurn(places, before)
             P == Cardinality(places)
             best == Few(at)
             f == [i \in 1..n |-> ranked[at[i]]]
  <2>1. at = Matching(q, ranked)
        BY DEF Matching
  <2>2. Offer(q, S, t) = [i \in DOMAIN best |-> ranked[best[i]].name]
        BY <1>5, <2>1 DEF Offer
  <2>3. fit = {c \in S : Matches(q, c.name)}
        BY <1>5 DEF FitFor
  <2>4. \A i, j \in places : <<i, j>> \in before <=>
            score(i) > score(j) \/ (score(i) = score(j) /\ i < j)
        OBVIOUS
  <2> HIDE DEF ranked, N
  <2>5. /\ places \subseteq 1..N /\ \A i \in places : i \in Nat
        /\ \A i \in 1..N : i \in places <=> ranked[i] \in fit
        BY <1>1, <2>3
  <2>6. IsFiniteSet(places) /\ P \in Nat
    <3>1. IsFiniteSet(1..N)
          BY <1>1, FS_Interval
    <3>2. QED BY <2>5, <3>1, FS_Subset, FS_CardinalityType
  <2>7. \A i \in places : score(i) \in Int
    <3>1. \A i \in places : ranked[i].name \in Names
          BY <1>1, <2>5 DEF Rated
    <3>2. QED BY <3>1, ScoreIs
  <2> HIDE DEF places, score
  <2>8. Compares(places, before)
    <3> HIDE DEF before
    <3>1. \A i \in places : <<i, i>> \notin before
          BY <2>4, <2>5, <2>7
    <3>2. \A i, j \in places : i # j => <<i, j>> \in before \/ <<j, i>> \in before
          BY <2>4, <2>5, <2>7
    <3>3. \A i, j, k \in places : <<i, j>> \in before /\ <<j, k>> \in before => <<i, k>> \in before
          BY <2>4, <2>5, <2>7
    <3>4. QED BY <3>1, <3>2, <3>3 DEF Compares
  <2> HIDE DEF before
  <2>9. /\ at \in [1..P -> places]
        /\ \A i \in places : \E k \in 1..P : at[k] = i
        /\ \A j, k \in 1..P : <<at[j], at[k]>> \in before <=> j < k
        BY <2>6, <2>8, Sorted
  <2> HIDE DEF at
  <2>10. P = n
    <3> DEFINE g == [i \in places |-> ranked[i]]
    <3>1. g \in [places -> fit] /\ \A i \in places : g[i] = ranked[i]
          BY <1>1, <2>5
    <3> HIDE DEF g, fit
    <3>2. \A i, j \in places : g[i] = g[j] => i = j
          BY <1>1, <2>5, <3>1
    <3>3. \A c \in fit : \E i \in places : g[i] = c
      <4> TAKE c \in fit
      <4>1. PICK i \in 1..N : ranked[i] = c
            BY <1>1, <1>2
      <4>2. QED BY <2>5, <3>1, <4>1
    <3>4. g \in Bijection(places, fit)
          BY <3>1, <3>2, <3>3 DEF Bijection, Injection, Surjection, IsInjective
    <3>5. QED BY <2>6, <3>4, FS_Bijection DEF ExistsBijection
  <2> HIDE DEF P, n
  <2>11. \A i \in 1..n : at[i] \in places /\ f[i] = ranked[at[i]] /\ f[i] \in fit
    <3> TAKE i \in 1..n
    <3>1. at[i] \in places
          BY <2>9, <2>10
    <3>2. ranked[at[i]] \in fit
          BY <2>5, <3>1
    <3>3. QED BY <3>1, <3>2
  <2> HIDE DEF fit
  <2>12. f \in [1..n -> fit]
         BY <2>11
  <2> HIDE DEF f
  <2>13. \A c \in fit : \E i \in 1..n : f[i] = c
    <3> TAKE c \in fit
    <3>1. PICK i \in 1..N : ranked[i] = c
          BY <1>1, <1>2
    <3>2. i \in places
          BY <2>5, <3>1
    <3>3. PICK k \in 1..n : at[k] = i
          BY <2>9, <2>10, <3>2
    <3>4. QED BY <2>11, <3>1, <3>3
  <2>14. ASSUME NEW i \in 1..n, NEW j \in 1..n, i < j
         PROVE  Beats(q, t, f[i], f[j])
    <3>1. at[i] \in places /\ at[j] \in places /\ <<at[i], at[j]>> \in before
          BY <2>9, <2>10, <2>14
    <3>2. score(at[i]) > score(at[j]) \/ (score(at[i]) = score(at[j]) /\ at[i] < at[j])
          BY <2>4, <3>1
    <3>3. at[i] < at[j] => Ranks(f[i], f[j], t)
          BY <1>1, <2>5, <2>11, <3>1, ZenonT(60)
    <3>4. ScoreOf(q, f[i]) = score(at[i]) /\ ScoreOf(q, f[j]) = score(at[j])
          BY <1>5, <2>11 DEF ScoreOf, score
    <3>5. QED BY <3>2, <3>3, <3>4 DEF Beats
  <2>15. BestFirst(f, q, S, t)
         BY <2>12, <2>13, <2>14 DEF BestFirst, n, fit
  <2>16. best = [i \in 1..m |-> at[i]]
    <3>1. at \in [1..n -> places] /\ n \in Nat
          BY <1>2, <2>9, <2>10
    <3> HIDE DEF before, score
    <3>2. QED BY ONLY <3>1, FewIs, ZenonT(60) DEF m, best
  <2> HIDE DEF best, m
  <2>17. Offer(q, S, t) = [i \in 1..m |-> ranked[at[i]].name]
         BY <2>2, <2>16
  <2>18. \A i \in 1..m : f[i] = ranked[at[i]]
         BY <1>3, <2>11
  <2>19. Offer(q, S, t) = [i \in 1..m |-> f[i].name]
         BY <2>17, <2>18
  <2>20. Offer(q, S, t) = NamesOf(f, m)
         BY <2>19 DEF NamesOf
  <2>21. QED BY <1>2, <2>15, <2>20 DEF m, n, fit
<1>6. QED BY <1>4, <1>5

----------------------------------------------------------------------------
(* The inductive invariant.                                                *)

Filings == UNION {[S -> SUBSET TagIds] : S \in SUBSET RowIds}
Parts == {a \in Asked : a.deed # "import"}

(* What an import asks.                                                    *)
Brought == {a \in Asked : a.deed \in {"add", "file", "tick"}}

(* A request, the order of aisles it has in hand being one of V.           *)
Works(V) ==
    [asked : Maybe(Asked), plan : Seq(Steps), row : Maybe(RowIds), name : Maybe(Names),
     amount : Nat \ {0}, unit : Maybe(Known), crossed : BOOLEAN, left : SUBSET TagIds,
     walk : V, checked : Nat, page : SUBSET RowIds, filed : Filings, next : Seq(Brought),
     later : Seq(Incoming)]

(* An aisle is filed under only when there is one left to file under, or   *)
(* the statement before it finds those there are.                          *)
FiledInTurn(p, left) ==
    \A k \in 1..Len(p) : p[k] = "file_one" =>
        IF k = 1 THEN left # {} ELSE p[k - 1] = "filed_before"

WorkOK(w) ==
    /\ w \in Works({w.walk})
    /\ w.plan # <<>> => w.asked \in Asked /\ w.row \in RowIds /\ w.name \in Names
    /\ FiledInTurn(w.plan, w.left)

RowOK(row) == row \in Maybe(Rows) /\ (row # None => row.tags \subseteq Aisles)
ItemsOK == items = [i \in RowIds |-> items[i]] /\ \A i \in RowIds : RowOK(items[i])
EntryOK(k, entry) ==
    entry \in Entries /\ entry.tags \subseteq Aisles /\ k = Key(entry.display)
HistoryOK ==
    /\ history = [k \in DOMAIN history |-> history[k]]
    /\ \A k \in DOMAIN history : EntryOK(k, history[k])
ShelfOK == shelf \in [TagIds -> Maybe(Nat)]
OrderOK(order) == order \in Orders /\ Writable(order.tags)
OrdersOK == orders = [p \in People |-> orders[p]] /\ \A p \in People : OrderOK(orders[p])

StoreOK == ItemsOK /\ HistoryOK /\ ShelfOK /\ OrdersOK /\ now \in Moments

ShoppingInv ==
    /\ StoreOK
    /\ work = [c \in Callers |-> work[c]]
    /\ \A c \in Callers : WorkOK(work[c])

----------------------------------------------------------------------------
(* Plans.                                                                  *)

LEMMA TailOf ==
    ASSUME NEW p \in Seq(Steps), p # <<>>
    PROVE  /\ Tail(p) \in Seq(Steps) /\ Head(p) = p[1] /\ Len(Tail(p)) = Len(p) - 1
           /\ Len(p) \in Nat \ {0}
           /\ \A k \in 1..Len(p) - 1 : Tail(p)[k] = p[k + 1]
BY HeadTailProperties

LEMMA FiledAfter ==
    ASSUME NEW p \in Seq(Steps), p # <<>>, NEW l, FiledInTurn(p, l), NEW m,
           Head(p) # "filed_before" \/ m # {}
    PROVE  FiledInTurn(Tail(p), m)
<1> DEFINE q == Tail(p)
<1>1. /\ Len(q) = Len(p) - 1 /\ Len(p) \in Nat \ {0} /\ Head(p) = p[1]
      /\ \A k \in 1..Len(p) - 1 : q[k] = p[k + 1]
      BY TailOf
<1> HIDE DEF q
<1> SUFFICES ASSUME NEW k \in 1..Len(q), q[k] = "file_one"
             PROVE  IF k = 1 THEN m # {} ELSE q[k - 1] = "filed_before"
    BY DEF FiledInTurn, q
<1>2. k + 1 \in 1..Len(p) /\ p[k + 1] = "file_one" /\ k + 1 # 1 /\ (k + 1) - 1 = k
      BY <1>1
<1>3. p[k] = "filed_before"
      BY <1>2 DEF FiledInTurn
<1>4. CASE k = 1
      BY <1>1, <1>3, <1>4
<1>5. CASE k # 1
  <2>1. k - 1 \in 1..Len(p) - 1 /\ (k - 1) + 1 = k
        BY <1>1, <1>5
  <2>2. QED BY <1>1, <1>3, <1>5, <2>1
<1>6. QED BY <1>4, <1>5

(* A statement put in front of what is left.                               *)
LEMMA FiledBehind ==
    ASSUME NEW s \in Steps, s # "file_one", NEW q \in Seq(Steps), FiledInTurn(q, {}), NEW m
    PROVE  <<s>> \o q \in Seq(Steps) /\ <<s>> \o q # <<>> /\ FiledInTurn(<<s>> \o q, m)
<1> DEFINE p == <<s>> \o q
<1>1. <<s>> \in Seq(Steps) /\ Len(<<s>>) = 1 /\ <<s>>[1] = s /\ Len(q) \in Nat
      OBVIOUS
<1>2. /\ p \in Seq(Steps) /\ Len(p) = 1 + Len(q)
      /\ \A k \in 1..(1 + Len(q)) : p[k] = IF k <= 1 THEN <<s>>[k] ELSE q[k - 1]
      BY <1>1, ConcatProperties
<1> HIDE DEF p
<1>3. p # <<>>
      BY <1>1, <1>2
<1>4. ASSUME NEW k \in 1..Len(p), p[k] = "file_one"
      PROVE  IF k = 1 THEN m # {} ELSE p[k - 1] = "filed_before"
  <2>1. k # 1
        BY <1>1, <1>2, <1>4
  <2>2. k - 1 \in 1..Len(q) /\ q[k - 1] = "file_one"
        BY <1>1, <1>2, <1>4, <2>1
  <2>3. k - 1 # 1 /\ q[(k - 1) - 1] = "filed_before"
        BY <2>2 DEF FiledInTurn
  <2>4. k - 1 \in 1..(1 + Len(q)) /\ ~(k - 1 <= 1)
        BY <1>1, <2>2, <2>3
  <2>5. p[k - 1] = q[(k - 1) - 1]
        BY <1>2, <2>4
  <2>6. QED BY <2>1, <2>3, <2>5
<1>5. QED BY <1>2, <1>3, <1>4 DEF FiledInTurn, p

(* Every request has statements, in an order in which they can be done; an *)
(* order of aisles is checked before it is written.                        *)
PlanFits(p) == p \in Seq(Steps) /\ p # <<>> /\ FiledInTurn(p, {}) /\ Head(p) # "lay"

LEMMA SayPlanFits == PlanFits(SayPlan)
BY DEF SayPlan, PlanFits, FiledInTurn, Steps

LEMMA BoardPlanFits == PlanFits(BoardPlan)
BY DEF BoardPlan, PlanFits, FiledInTurn, Steps

LEMMA PlanOfFits ==
    ASSUME NEW deed \in Deeds, deed # "import"
    PROVE  PlanFits(PlanOf(deed))
<1>1. PlanOf("say") = SayPlan /\ PlanOf("board") = BoardPlan
      BY DEF PlanOf
<1>2. /\ PlanOf("add") = <<"seek", "record", "prune">>
      /\ PlanOf("edit") = <<"look", "rewrite", "record">>
      /\ PlanOf("tick") = <<"look", "tick">>
      /\ PlanOf("toggle") = <<"look", "turn", "tick">>
      /\ PlanOf("drop") = <<"look", "drop">>
      BY DEF PlanOf, CreatePlan, EditPlan, TickPlan, TogglePlan, DropPlan
<1>3. /\ PlanOf("sweep") = <<"sweep">> /\ PlanOf("clear") = <<"clear">>
      /\ PlanOf("forget") = <<"forget">>
      /\ PlanOf("shelve") = <<"shelve">> /\ PlanOf("raze") = <<"raze">>
      BY DEF PlanOf, SweepPlan, ClearPlan, ForgetPlan, ShelvePlan, RazePlan
<1>4. /\ PlanOf("file") = <<"look", "attach", "held", "remember">>
      /\ PlanOf("unfile") = <<"look", "detach", "held", "remember">>
      BY DEF PlanOf, FilePlan, UnfilePlan
<1>5. /\ PlanOf("set_order") = <<"check", "lay">>
      /\ PlanOf("move") = <<"own", "all", "check", "lay">>
      /\ PlanOf("aisles") = <<"own", "all", "show">>
      /\ PlanOf("list") = <<"rows", "filed", "show">>
      BY DEF PlanOf, SetOrderPlan, MovePlan, AislesPlan, ListPlan
<1>6. /\ PlanFits(<<"seek", "record", "prune">>) /\ PlanFits(<<"look", "rewrite", "record">>)
      /\ PlanFits(<<"look", "tick">>) /\ PlanFits(<<"look", "turn", "tick">>)
      /\ PlanFits(<<"look", "drop">>)
      BY DEF PlanFits, FiledInTurn, Steps
<1>7. /\ PlanFits(<<"sweep">>) /\ PlanFits(<<"clear">>) /\ PlanFits(<<"forget">>)
      /\ PlanFits(<<"shelve">>) /\ PlanFits(<<"raze">>)
      BY DEF PlanFits, FiledInTurn, Steps
<1>8. /\ PlanFits(<<"look", "attach", "held", "remember">>)
      /\ PlanFits(<<"look", "detach", "held", "remember">>)
      BY DEF PlanFits, FiledInTurn, Steps
<1>9. /\ PlanFits(<<"check", "lay">>) /\ PlanFits(<<"own", "all", "check", "lay">>)
      /\ PlanFits(<<"own", "all", "show">>) /\ PlanFits(<<"rows", "filed", "show">>)
      BY DEF PlanFits, FiledInTurn, Steps
<1>10. /\ deed = "say" => PlanFits(PlanOf(deed))
       /\ deed = "board" => PlanFits(PlanOf(deed))
      BY <1>1, SayPlanFits, BoardPlanFits
<1>11. /\ deed = "add" => PlanFits(PlanOf(deed))
       /\ deed = "edit" => PlanFits(PlanOf(deed))
       /\ deed = "tick" => PlanFits(PlanOf(deed))
       /\ deed = "toggle" => PlanFits(PlanOf(deed))
       /\ deed = "drop" => PlanFits(PlanOf(deed))
      BY <1>2, <1>6
<1>12. /\ deed = "sweep" => PlanFits(PlanOf(deed))
       /\ deed = "clear" => PlanFits(PlanOf(deed))
       /\ deed = "forget" => PlanFits(PlanOf(deed))
       /\ deed = "shelve" => PlanFits(PlanOf(deed))
       /\ deed = "raze" => PlanFits(PlanOf(deed))
      BY <1>3, <1>7
<1>13. /\ deed = "file" => PlanFits(PlanOf(deed))
       /\ deed = "unfile" => PlanFits(PlanOf(deed))
      BY <1>4, <1>8
<1>14. /\ deed = "set_order" => PlanFits(PlanOf(deed))
       /\ deed = "move" => PlanFits(PlanOf(deed))
       /\ deed = "aisles" => PlanFits(PlanOf(deed))
       /\ deed = "list" => PlanFits(PlanOf(deed))
      BY <1>5, <1>9
<1>15. QED BY <1>10, <1>11, <1>12, <1>13, <1>14
           DEF Deeds, PageDeeds, ApiDeeds, AppRowDeeds, AppAisleDeeds

----------------------------------------------------------------------------
(* Requests.                                                               *)

LEMMA NothingInHand ==
    /\ NoWork \in Works({<<>>}) /\ NoWork.plan = <<>> /\ NoWork.walk = <<>>
    /\ WorkOK(NoWork)
<1>1. <<>> \in Filings
  <2>1. <<>> \in [{} -> SUBSET TagIds]
        OBVIOUS
  <2>2. QED BY <2>1 DEF Filings
<1>2. /\ None \in Maybe(Asked) /\ None \in Maybe(RowIds) /\ None \in Maybe(Names)
      /\ None \in Maybe(Known) /\ {} \in SUBSET TagIds /\ {} \in SUBSET RowIds
      /\ 1 \in Nat \ {0} /\ 0 \in Nat /\ FALSE \in BOOLEAN
      BY DEF Maybe
<1>3. <<>> \in Seq(Steps) /\ <<>> \in Seq(Brought) /\ <<>> \in Seq(Incoming)
      OBVIOUS
<1>4. NoWork \in Works({<<>>})
      BY <1>1, <1>2, <1>3 DEF NoWork, Works
<1>5. NoWork.plan = <<>> /\ NoWork.walk = <<>>
      BY DEF NoWork
<1>6. FiledInTurn(NoWork.plan, NoWork.left)
      BY <1>5 DEF FiledInTurn
<1>7. QED BY <1>4, <1>5, <1>6 DEF WorkOK

(* A request that has only just begun, or has ended.                       *)
Fresh(w) ==
    w.plan # <<>> => /\ w.plan = PlanOf(w.asked.deed) /\ w.row = w.asked.row
                     /\ Head(w.plan) # "lay"

(* Nor is one a line that is said, or a page.                              *)
Unsaid(w) == w.plan # <<>> => w.asked.deed \notin {"say", "board"}

LEMMA BroughtIs ==
    \A a \in Brought : a \in Parts /\ a \in Asked /\ a.deed \notin {"say", "board"}
BY DEF Brought, Parts

LEMMA CountedIsAUnit == \A unit \in Maybe(Known) : MeasuredOrCounted(unit) \in Maybe(Known)
BY ReadingAssumption DEF ReadingAssumption, MeasuredOrCounted, Maybe

LEMMA AskedIs ==
    ASSUME NEW a \in Asked
    PROVE  /\ a.by \in People /\ a.deed \in Deeds /\ a.line \in Names /\ a.amount \in Nat \ {0}
           /\ a.unit \in Maybe(Known) /\ a.row \in RowIds /\ a.done \in BOOLEAN
           /\ a.tag \in TagIds /\ a.cache \in Seq(Incoming) /\ a.walk \in Seq(TagIds)
BY DEF Asked

(* A request that begins can go on to its end.                             *)
LEMMA BegunOK ==
    ASSUME NEW a \in Parts, NEW next \in Seq(Brought), NEW later \in Seq(Incoming)
    PROVE  /\ WorkOK(Begin(a, next, later)) /\ Fresh(Begin(a, next, later))
           /\ Begin(a, next, later).asked = a
<1> DEFINE b == Begin(a, next, later)
           unit == MeasuredOrCounted(a.unit)
           plan == PlanOf(a.deed)
<1>1. a \in Asked /\ a.deed \in Deeds /\ a.deed # "import"
      BY AskedIs DEF Parts
<1>2. plan \in Seq(Steps) /\ plan # <<>> /\ FiledInTurn(plan, {}) /\ Head(plan) # "lay"
      BY <1>1, PlanOfFits DEF PlanFits
<1>3. unit \in Maybe(Known)
      BY <1>1, AskedIs, CountedIsAUnit
<1> HIDE DEF unit, plan
<1>4. /\ b.asked = a /\ b.plan = plan /\ b.row = a.row /\ b.name = a.line /\ b.amount = a.amount
      /\ b.unit = unit /\ b.crossed = a.done /\ b.left = {} /\ b.walk = a.walk
      BY DEF Begin, NoWork, unit, plan
<1>5. b \in Works({a.walk})
  <2>1. NoWork \in Works({<<>>})
        BY NothingInHand
  <2>2. /\ a \in Maybe(Asked) /\ a.row \in Maybe(RowIds) /\ a.line \in Maybe(Names)
        /\ a.amount \in Nat \ {0} /\ a.done \in BOOLEAN
        BY <1>1, AskedIs DEF Maybe
  <2>3. QED BY <1>2, <1>3, <2>1, <2>2 DEF Begin, Works, unit, plan
<1>6. b.row \in RowIds /\ b.name \in Names /\ b.asked \in Asked
      BY <1>1, <1>4, AskedIs
<1> HIDE DEF b
<1>7. WorkOK(b) /\ Fresh(b)
      BY <1>2, <1>4, <1>5, <1>6 DEF WorkOK, Fresh, plan
<1>8. QED BY <1>4, <1>7 DEF b

(* What an import asks of one of its rows.                                 *)
LEMMA BringingIs ==
    ASSUME NEW a \in Asked, NEW row \in Incoming
    PROVE  Bringing(a, row) \in Seq(Brought) /\ Bringing(a, row) # <<>>
<1> DEFINE add == [a EXCEPT !.deed = "add", !.line = row.name, !.amount = row.amount,
                       !.unit = row.unit]
           file(t) == [a EXCEPT !.deed = "file", !.tag = t]
           tick == [a EXCEPT !.deed = "tick", !.done = TRUE]
           files == [k \in DOMAIN row.tags |-> file(row.tags[k])]
           ticks == IF row.done THEN <<tick>> ELSE <<>>
<1>1. /\ row.name \in Names /\ row.amount \in Nat \ {0} /\ row.unit \in Maybe(Known)
      /\ row.tags \in Seq(TagIds)
      BY DEF Incoming
<1>2. "add" \in Deeds /\ "file" \in Deeds /\ "tick" \in Deeds
      BY DEF Deeds, ApiDeeds
<1>3. add \in Brought
      BY <1>1, <1>2 DEF Brought, Asked
<1>4. \A t \in TagIds : file(t) \in Brought
      BY <1>2 DEF Brought, Asked
<1>5. tick \in Brought
      BY <1>2 DEF Brought, Asked
<1> HIDE DEF add, file, tick
<1>6. files \in Seq(Brought)
  <2>1. /\ DOMAIN row.tags = 1..Len(row.tags) /\ Len(row.tags) \in Nat
        /\ \A k \in DOMAIN row.tags : row.tags[k] \in TagIds
        BY <1>1
  <2>2. \A k \in 1..Len(row.tags) : file(row.tags[k]) \in Brought
        BY <1>4, <2>1
  <2>3. [k \in 1..Len(row.tags) |-> file(row.tags[k])] \in Seq(Brought)
        BY <2>1, <2>2, IsASeq
  <2>4. QED BY <2>1, <2>3
<1>7. ticks \in Seq(Brought) /\ <<add>> \in Seq(Brought) /\ Len(<<add>>) = 1
      BY <1>3, <1>5
<1> HIDE DEF files, ticks
<1>8. <<add>> \o files \in Seq(Brought) /\ Len(<<add>> \o files) = 1 + Len(files)
      BY <1>6, <1>7, ConcatProperties
<1>9. Len(files) \in Nat /\ Len(ticks) \in Nat
      BY <1>6, <1>7
<1>10. (<<add>> \o files) \o ticks \in Seq(Brought)
       /\ Len((<<add>> \o files) \o ticks) = Len(<<add>> \o files) + Len(ticks)
      BY <1>7, <1>8, ConcatProperties
<1>11. (<<add>> \o files) \o ticks # <<>>
      BY <1>8, <1>9, <1>10
<1>12. QED BY <1>10, <1>11 DEF Bringing, add, file, tick, files, ticks

LEMMA BringNextOK ==
    ASSUME NEW a \in Asked, NEW rows \in Seq(Incoming)
    PROVE  WorkOK(BringNext(a, rows)) /\ Fresh(BringNext(a, rows)) /\ Unsaid(BringNext(a, rows))
<1>1. CASE rows = <<>>
      BY <1>1, NothingInHand DEF BringNext, Fresh, Unsaid
<1>2. CASE rows # <<>>
  <2> DEFINE asks == Bringing(a, Head(rows))
  <2>1. Head(rows) \in Incoming /\ Tail(rows) \in Seq(Incoming)
        BY <1>2
  <2>2. asks \in Seq(Brought) /\ asks # <<>>
        BY <2>1, BringingIs
  <2> HIDE DEF asks
  <2>3. Head(asks) \in Brought /\ Tail(asks) \in Seq(Brought)
        BY <2>2
  <2> DEFINE next == Begin(Head(asks), Tail(asks), Tail(rows))
  <2>4. WorkOK(next) /\ Fresh(next) /\ next.asked = Head(asks)
        BY <2>1, <2>3, BroughtIs, BegunOK
  <2>5. Unsaid(next)
        BY <2>3, <2>4, BroughtIs DEF Unsaid
  <2>6. QED BY <1>2, <2>4, <2>5 DEF BringNext, asks
<1>3. QED BY <1>1, <1>2

LEMMA StartsOK ==
    ASSUME NEW a \in Asked
    PROVE  WorkOK(Starts(a)) /\ Fresh(Starts(a))
<1>1. CASE a.deed = "import"
      BY <1>1, AskedIs, BringNextOK DEF Starts
<1>2. CASE a.deed # "import"
  <2>1. a \in Parts /\ <<>> \in Seq(Brought) /\ <<>> \in Seq(Incoming)
        BY <1>2 DEF Parts
  <2>2. QED BY <1>2, <2>1, BegunOK DEF Starts
<1>3. QED BY <1>1, <1>2

(* A request under way.                                                    *)
LEMMA UnderWay ==
    ASSUME NEW w, WorkOK(w), w.plan # <<>>
    PROVE  /\ w \in Works({w.walk}) /\ w.asked \in Asked /\ w.row \in RowIds /\ w.name \in Names
           /\ w.plan \in Seq(Steps) /\ Tail(w.plan) \in Seq(Steps) /\ FiledInTurn(w.plan, w.left)
           /\ w.amount \in Nat \ {0} /\ w.unit \in Maybe(Known) /\ w.left \in SUBSET TagIds
           /\ w.next \in Seq(Brought) /\ w.later \in Seq(Incoming) /\ w.crossed \in BOOLEAN
           /\ w.checked \in Nat
<1>1. w \in Works({w.walk}) /\ w.asked \in Asked /\ w.row \in RowIds /\ w.name \in Names
      /\ FiledInTurn(w.plan, w.left)
      BY DEF WorkOK
<1>2. /\ w.plan \in Seq(Steps) /\ w.amount \in Nat \ {0} /\ w.unit \in Maybe(Known)
      /\ w.left \in SUBSET TagIds /\ w.next \in Seq(Brought) /\ w.later \in Seq(Incoming)
      /\ w.crossed \in BOOLEAN /\ w.checked \in Nat
      BY <1>1 DEF Works
<1>3. Tail(w.plan) \in Seq(Steps)
      BY <1>2
<1>4. QED BY <1>1, <1>2, <1>3

LEMMA OnwardOK ==
    ASSUME NEW w, WorkOK(w), w.plan # <<>>
    PROVE  /\ WorkOK(Onward(w)) /\ Fresh(Onward(w)) /\ Unsaid(Onward(w))
           /\ WorkOK(AfterAnError(w)) /\ Fresh(AfterAnError(w)) /\ Unsaid(AfterAnError(w))
<1>1. /\ w.asked \in Asked /\ w.row \in RowIds
      /\ w.next \in Seq(Brought) /\ w.later \in Seq(Incoming)
      BY UnderWay
<1>2. CASE w.next = <<>>
      BY <1>1, <1>2, BringNextOK, NothingInHand DEF Onward, AfterAnError, Fresh, Unsaid
<1>3. CASE w.next # <<>>
  <2> DEFINE a == [Head(w.next) EXCEPT !.row = w.row]
             next == Begin(a, Tail(w.next), w.later)
  <2>1. Head(w.next) \in Brought /\ Tail(w.next) \in Seq(Brought)
        BY <1>1, <1>3
  <2>2. a \in Brought
        BY <1>1, <2>1 DEF Brought, Asked
  <2> HIDE DEF a
  <2>3. WorkOK(next) /\ Fresh(next) /\ next.asked = a
        BY <1>1, <2>1, <2>2, BroughtIs, BegunOK
  <2>4. Unsaid(next)
        BY <2>2, <2>3, BroughtIs DEF Unsaid
  <2>5. Onward(w) = next
        BY <1>3 DEF Onward, a
  <2>6. QED BY <2>3, <2>4, <2>5, NothingInHand DEF AfterAnError, Fresh, Unsaid
<1>4. QED BY <1>2, <1>3

(* A statement that is done, with whatever it changed of the request.      *)
LEMMA GoesOn ==
    ASSUME NEW w, WorkOK(w), w.plan # <<>>, Head(w.plan) # "filed_before",
           NEW d, d \in Works({d.walk}), d.plan = Tail(w.plan),
           d.asked \in Asked, d.row \in RowIds, d.name \in Names
    PROVE  WorkOK(d)
<1>1. w.plan \in Seq(Steps) /\ FiledInTurn(w.plan, w.left)
      BY UnderWay
<1>2. FiledInTurn(d.plan, d.left)
      BY <1>1, FiledAfter
<1>3. QED BY <1>2 DEF WorkOK

(* One that calls for another before the rest.                             *)
LEMMA GoesOnBy ==
    ASSUME NEW w, WorkOK(w), w.plan # <<>>, Head(w.plan) # "filed_before",
           NEW s \in Steps, s # "file_one",
           NEW d, d \in Works({d.walk}), d.plan = <<s>> \o Tail(w.plan),
           d.asked \in Asked, d.row \in RowIds, d.name \in Names
    PROVE  WorkOK(d)
<1>1. w.plan \in Seq(Steps) /\ FiledInTurn(w.plan, w.left) /\ Tail(w.plan) \in Seq(Steps)
      BY UnderWay
<1>2. FiledInTurn(Tail(w.plan), {})
      BY <1>1, FiledAfter
<1>3. FiledInTurn(d.plan, d.left)
      BY <1>1, <1>2, FiledBehind
<1>4. QED BY <1>3 DEF WorkOK

----------------------------------------------------------------------------
(* What a statement leaves alone keeps its type.                           *)

LEMMA Untouched ==
    ASSUME StoreOK, UNCHANGED shelf
    PROVE  /\ ShelfOK' /\ Aisles' = Aisles
           /\ UNCHANGED items => ItemsOK'
           /\ UNCHANGED history => HistoryOK'
           /\ UNCHANGED orders => OrdersOK'
           /\ UNCHANGED now => now' \in Moments
<1>1. ShelfOK' /\ Aisles' = Aisles
      BY DEF StoreOK, ShelfOK, Aisles
<1>2. ASSUME UNCHANGED items PROVE ItemsOK'
      BY <1>1, <1>2 DEF StoreOK, ItemsOK, RowOK
<1>3. ASSUME UNCHANGED history PROVE HistoryOK'
      BY <1>1, <1>3 DEF StoreOK, HistoryOK, EntryOK
<1>4. ASSUME UNCHANGED orders PROVE OrdersOK'
      BY <1>1, <1>4 DEF StoreOK, OrdersOK, OrderOK, Writable
<1>5. QED BY <1>1, <1>2, <1>3, <1>4 DEF StoreOK

LEMMA OneCaller ==
    ASSUME ShoppingInv, NEW c \in Callers, NEW w, WorkOK(w), Becomes(c, w), StoreOK'
    PROVE  ShoppingInv'
<1>1. work' = [work EXCEPT ![c] = w] /\ work = [e \in Callers |-> work[e]]
      BY DEF ShoppingInv, Becomes
<1>2. work' = [e \in Callers |-> work'[e]]
      BY <1>1
<1>3. ASSUME NEW e \in Callers PROVE WorkOK(work'[e])
  <2>1. WorkOK(work[e]) /\ work'[e] = IF e = c THEN w ELSE work[e]
        BY <1>1 DEF ShoppingInv
  <2>2. QED BY <2>1
<1>4. QED BY <1>2, <1>3 DEF ShoppingInv

LEMMA OnlyTheRequest ==
    ASSUME ShoppingInv, NEW c \in Callers, NEW w, WorkOK(w), Only(c, w)
    PROVE  ShoppingInv'
<1>1. StoreOK /\ Becomes(c, w) /\ UNCHANGED <<items, history, shelf, orders, now>>
      BY DEF ShoppingInv, Only, tables
<1>2. StoreOK'
      BY <1>1, Untouched DEF StoreOK
<1>3. QED BY <1>1, <1>2, OneCaller

(* A statement that writes rows and nothing else.                          *)
LEMMA RowsWritten ==
    ASSUME ShoppingInv, NEW c \in Callers, NEW w, WorkOK(w), Becomes(c, w), ItemsOK',
           UNCHANGED <<history, shelf, orders, now>>
    PROVE  ShoppingInv'
<1>1. StoreOK
      BY DEF ShoppingInv
<1>2. StoreOK'
      BY <1>1, Untouched DEF StoreOK
<1>3. QED BY <1>2, OneCaller

LEMMA OneRow ==
    ASSUME StoreOK, UNCHANGED shelf, NEW i \in RowIds, NEW row, RowOK(row),
           items' = [items EXCEPT ![i] = row]
    PROVE  ItemsOK'
<1>1. items = [j \in RowIds |-> items[j]] /\ \A j \in RowIds : RowOK(items[j])
      BY DEF StoreOK, ItemsOK
<1>2. items' = [j \in RowIds |-> items'[j]]
      BY <1>1
<1>3. Aisles' = Aisles
      BY Untouched
<1>4. ASSUME NEW j \in RowIds PROVE RowOK(items[j])'
  <2>1. RowOK(items[j]) /\ items'[j] = IF j = i THEN row ELSE items[j]
        BY <1>1
  <2>2. QED BY <1>3, <2>1 DEF RowOK
<1>5. QED BY <1>2, <1>4 DEF ItemsOK

LEMMA SomeStruck ==
    ASSUME StoreOK, UNCHANGED shelf, NEW S, items' = Strike(S)
    PROVE  ItemsOK'
<1>1. items' = [i \in RowIds |-> IF i \in S THEN None ELSE items[i]]
      BY DEF Strike
<1>2. Aisles' = Aisles /\ \A i \in RowIds : RowOK(items[i])
      BY Untouched DEF StoreOK, ItemsOK
<1>3. RowOK(None)
      BY DEF RowOK, Maybe
<1>4. ASSUME NEW i \in RowIds PROVE RowOK(items[i])'
      BY <1>1, <1>2, <1>3 DEF RowOK
<1>5. QED BY <1>1, <1>4 DEF ItemsOK

(* And one that writes memory and nothing else.                            *)
LEMMA MemoryWritten ==
    ASSUME ShoppingInv, NEW c \in Callers, NEW w, WorkOK(w), Becomes(c, w), HistoryOK',
           UNCHANGED <<items, shelf, orders, now>>
    PROVE  ShoppingInv'
<1>1. StoreOK
      BY DEF ShoppingInv
<1>2. StoreOK'
      BY <1>1, Untouched DEF StoreOK
<1>3. QED BY <1>2, OneCaller

(* A row there is, and a request at a statement.                           *)
LEMMA RowIs ==
    ASSUME ShoppingInv, NEW i \in RowIds, Present(i)
    PROVE  /\ items[i] \in Rows /\ items[i].name \in Names /\ items[i].amount \in Nat \ {0}
           /\ items[i].unit \in Maybe(Known) /\ items[i].done \in BOOLEAN
           /\ items[i].tags \subseteq Aisles /\ items[i].tags \subseteq TagIds
<1>1. RowOK(items[i]) /\ items[i] # None
      BY DEF ShoppingInv, StoreOK, ItemsOK, Present
<1>2. items[i] \in Rows /\ items[i].tags \subseteq Aisles
      BY <1>1 DEF RowOK, Maybe
<1>3. QED BY <1>2 DEF Rows

LEMMA EntryIs ==
    ASSUME ShoppingInv, NEW k \in DOMAIN history
    PROVE  /\ history[k] \in Entries /\ history[k].unit \in Maybe(Known)
           /\ history[k].amount \in Maybe(Nat \ {0}) /\ history[k].uses \in Nat \ {0}
           /\ history[k].tags \subseteq Aisles /\ history[k].tags \subseteq TagIds
           /\ k = Key(history[k].display) /\ history[k].display \in Names
<1>1. EntryOK(k, history[k])
      BY DEF ShoppingInv, StoreOK, HistoryOK
<1>2. QED BY <1>1 DEF EntryOK, Entries

LEMMA Going ==
    ASSUME ShoppingInv, NEW c \in Callers, NEW s \in Steps, At(c, s)
    PROVE  /\ WorkOK(work[c]) /\ work[c].plan # <<>> /\ Head(work[c].plan) = s
           /\ work[c] \in Works({work[c].walk})
           /\ work[c].asked \in Asked /\ work[c].row \in RowIds /\ work[c].name \in Names
           /\ Rest(c) \in Seq(Steps) /\ Rest(c) = Tail(work[c].plan)
           /\ WorkOK(Onward(work[c])) /\ WorkOK(AfterAnError(work[c]))
           /\ Fresh(Onward(work[c])) /\ Fresh(AfterAnError(work[c]))
<1>1. WorkOK(work[c]) /\ work[c].plan # <<>> /\ Head(work[c].plan) = s
      BY DEF ShoppingInv, At, Busy
<1>2. QED BY <1>1, UnderWay, OnwardOK DEF Rest

LEMMA Continued ==
    ASSUME ShoppingInv, NEW c \in Callers, NEW s \in Steps, At(c, s), s # "filed_before"
    PROVE  WorkOK([work[c] EXCEPT !.plan = Rest(c)])
<1> DEFINE w == work[c]
           d == [w EXCEPT !.plan = Rest(c)]
<1>1. /\ WorkOK(w) /\ w.plan # <<>> /\ Head(w.plan) = s /\ w \in Works({w.walk})
      /\ w.asked \in Asked /\ w.row \in RowIds /\ w.name \in Names
      /\ Rest(c) \in Seq(Steps) /\ Rest(c) = Tail(w.plan)
      BY Going
<1> HIDE DEF w
<1>2. d \in Works({d.walk}) /\ d.plan = Tail(w.plan)
      BY <1>1 DEF Works
<1>3. d.asked = w.asked /\ d.row = w.row /\ d.name = w.name
      BY <1>1 DEF Works
<1> HIDE DEF d
<1>4. WorkOK(d)
      BY <1>1, <1>2, <1>3, GoesOn
<1>5. QED BY <1>4 DEF d, w

----------------------------------------------------------------------------
(* Adding.                                                                 *)

LEMMA EntryOfIs ==
    ASSUME ShoppingInv, NEW line, EntryOf(line) # None
    PROVE  /\ EntryOf(line).unit \in Maybe(Known) /\ EntryOf(line).amount \in Maybe(Nat \ {0})
           /\ EntryOf(line).tags \subseteq Aisles /\ EntryOf(line).tags \subseteq TagIds
<1> DEFINE k == Key(Parse(line).name)
<1>1. k \in DOMAIN history /\ EntryOf(line) = history[k]
      BY DEF EntryOf
<1> HIDE DEF k
<1>2. QED BY <1>1, EntryIs

LEMMA RecalledIs ==
    ASSUME ShoppingInv, NEW line \in Names
    PROVE  /\ Parse(line).name \in Names
           /\ AmountFor(Parse(line), EntryOf(line)) \in Nat \ {0}
           /\ UnitFor(Parse(line), EntryOf(line)) \in Maybe(Known)
<1> DEFINE reading == Parse(line)
           entry == EntryOf(line)
<1>1. reading.name \in Names /\ reading.amount \in Nat \ {0} /\ reading.unit \in Maybe(Known)
      BY ParseFits DEF Fits
<1>2. entry # None => entry.unit \in Maybe(Known) /\ entry.amount \in Maybe(Nat \ {0})
      BY EntryOfIs
<1>3. Counted \in Maybe(Known)
      BY ReadingAssumption DEF ReadingAssumption, Maybe
<1> HIDE DEF reading, entry
<1>4. AmountFor(reading, entry) \in Nat \ {0}
      BY <1>1, <1>2 DEF AmountFor, Maybe
<1>5. UnitFor(reading, entry) \in Maybe(Known)
      BY <1>1, <1>2, <1>3 DEF UnitFor
<1>6. QED BY <1>1, <1>4, <1>5 DEF reading, entry

LEMMA RecallEntryKeeps ==
    ASSUME ShoppingInv, NEW c \in Callers, RecallEntry(c)
    PROVE  ShoppingInv'
<1> DEFINE w == work[c]
           reading == Parse(Ask(c).line)
           amount == AmountFor(reading, EntryOf(Ask(c).line))
           unit == UnitFor(reading, EntryOf(Ask(c).line))
           d == [w EXCEPT !.plan = Rest(c), !.name = reading.name, !.amount = amount,
                     !.unit = unit]
<1>1. At(c, "recall") /\ Only(c, d)
      BY DEF RecallEntry
<1>2. /\ WorkOK(w) /\ w.plan # <<>> /\ Head(w.plan) # "filed_before" /\ w \in Works({w.walk})
      /\ w.asked \in Asked /\ w.row \in RowIds /\ Rest(c) \in Seq(Steps)
      /\ Rest(c) = Tail(w.plan)
      BY <1>1, Going DEF Steps
<1>3. reading.name \in Names /\ amount \in Nat \ {0} /\ unit \in Maybe(Known)
      BY <1>2, AskedIs, RecalledIs DEF Ask
<1> HIDE DEF w, reading, amount, unit
<1>4. /\ d \in Works({d.walk}) /\ d.plan = Tail(w.plan)
      /\ d.asked = w.asked /\ d.row = w.row /\ d.name = reading.name
      BY <1>2, <1>3 DEF Works, Maybe
<1> HIDE DEF d
<1>5. WorkOK(d)
      BY <1>2, <1>3, <1>4, GoesOn
<1>6. QED BY <1>1, <1>5, OnlyTheRequest

LEMMA PickIs ==
    ASSUME NEW rows, NEW like, like \subseteq Nat, like # {},
           \A i \in like : rows[i].done \in BOOLEAN
    PROVE  /\ Pick(rows, like) \in like
           /\ \A j \in like : LET i == Pick(rows, like) IN
                 \/ ~rows[i].done /\ rows[j].done
                 \/ rows[i].done = rows[j].done /\ i <= j
<1> DEFINE wanted == {i \in like : ~rows[i].done}
           First(i) == \A j \in like : \/ ~rows[i].done /\ rows[j].done
                                       \/ rows[i].done = rows[j].done /\ i <= j
<1>1. CASE wanted # {}
  <2>1. PICK i \in wanted : \A j \in wanted : i <= j
        BY <1>1, LeastThere
  <2>2. First(i)
        BY <2>1
  <2>3. QED BY <2>1, <2>2 DEF Pick
<1>2. CASE wanted = {}
  <2>1. PICK i \in like : \A j \in like : i <= j
        BY LeastThere
  <2>2. First(i)
        BY <1>2, <2>1
  <2>3. QED BY <2>1, <2>2 DEF Pick
<1>3. QED BY <1>1, <1>2

LEMMA SeekKeeps ==
    ASSUME ShoppingInv, NEW c \in Callers, Seek(c)
    PROVE  ShoppingInv'
<1> DEFINE w == work[c]
           like == Alike(RowsNow, work[c].name, work[c].unit)
           i == Pick(RowsNow, like)
           d1 == [w EXCEPT !.plan = <<"insert">> \o Rest(c)]
           d2 == [w EXCEPT !.row = i, !.plan = <<"put_back">> \o Rest(c)]
           d3 == [w EXCEPT !.row = i, !.name = items[i].name, !.amount = items[i].amount,
                     !.plan = Rest(c)]
<1>1. /\ At(c, "seek")
      /\ IF like = {} THEN Only(c, d1) ELSE IF items[i].done THEN Only(c, d2) ELSE Only(c, d3)
      BY DEF Seek
<1>2. /\ WorkOK(w) /\ w.plan # <<>> /\ Head(w.plan) # "filed_before" /\ w \in Works({w.walk})
      /\ w.asked \in Asked /\ w.row \in RowIds /\ w.name \in Names /\ Rest(c) \in Seq(Steps)
      /\ Rest(c) = Tail(w.plan)
      BY <1>1, Going, ZenonT(60) DEF Steps
<1>3. like \subseteq Listed /\ \A j \in Listed : RowsNow[j] = items[j]
      BY DEF Alike, RowsNow
<1>4. like # {} => i \in RowIds /\ Present(i)
  <2>1. like \subseteq Nat /\ \A j \in like : RowsNow[j].done \in BOOLEAN
        BY <1>3, RowIs DEF Listed, RowIds
  <2> HIDE DEF like
  <2>2. ASSUME like # {} PROVE i \in like
        BY <2>1, <2>2, PickIs
  <2>3. QED BY <1>3, <2>2 DEF Listed
<1>5. like # {} => items[i].name \in Names /\ items[i].amount \in Nat \ {0}
      BY <1>4, RowIs
<1>6. "insert" \in Steps /\ "put_back" \in Steps
      /\ <<"insert">> \o Rest(c) \in Seq(Steps) /\ <<"put_back">> \o Rest(c) \in Seq(Steps)
  <2>1. "insert" \in Steps /\ "put_back" \in Steps
        BY DEF Steps
  <2>2. <<"insert">> \in Seq(Steps) /\ <<"put_back">> \in Seq(Steps)
        BY <2>1
  <2>3. QED BY <1>2, <2>1, <2>2, ConcatProperties
<1> HIDE DEF like, i, w
<1>7. CASE like = {}
  <2>1. /\ d1 \in Works({d1.walk}) /\ d1.plan = <<"insert">> \o Tail(w.plan)
        /\ d1.asked = w.asked /\ d1.row = w.row /\ d1.name = w.name
        BY <1>2, <1>6 DEF Works
  <2> HIDE DEF d1
  <2>2. WorkOK(d1)
        BY <1>2, <1>6, <2>1, GoesOnBy
  <2>3. QED BY <1>1, <1>7, <2>2, OnlyTheRequest
<1>8. CASE like # {} /\ items[i].done
  <2>1. /\ d2 \in Works({d2.walk}) /\ d2.plan = <<"put_back">> \o Tail(w.plan)
        /\ d2.asked = w.asked /\ d2.row = i /\ d2.name = w.name
        BY <1>2, <1>4, <1>6, <1>8 DEF Works, Maybe
  <2> HIDE DEF d2
  <2>2. WorkOK(d2)
        BY <1>2, <1>4, <1>6, <1>8, <2>1, GoesOnBy
  <2>3. QED BY <1>1, <1>8, <2>2, OnlyTheRequest
<1>9. CASE like # {} /\ ~items[i].done
  <2>1. /\ d3 \in Works({d3.walk}) /\ d3.plan = Tail(w.plan)
        /\ d3.asked = w.asked /\ d3.row = i /\ d3.name = items[i].name
        BY <1>2, <1>4, <1>5, <1>9 DEF Works, Maybe
  <2> HIDE DEF d3
  <2>2. WorkOK(d3)
        BY <1>2, <1>4, <1>5, <1>9, <2>1, GoesOn
  <2>3. QED BY <1>1, <1>9, <2>2, OnlyTheRequest
<1>10. QED BY <1>7, <1>8, <1>9

LEMMA InsertKeeps ==
    ASSUME ShoppingInv, NEW c \in Callers, Insert(c)
    PROVE  ShoppingInv'
<1> DEFINE w == work[c]
           name == Capitalised(w.name)
           row == [name |-> name, amount |-> w.amount, unit |-> w.unit, done |-> FALSE,
                   tags |-> {}]
           d(i) == [w EXCEPT !.row = i, !.name = name, !.plan = Rest(c)]
<1>1. PICK i \in RowIds : items' = [items EXCEPT ![i] = row] /\ Becomes(c, d(i))
      BY DEF Insert
<1>2. At(c, "insert") /\ UNCHANGED <<history, shelf, orders, now>>
      BY DEF Insert
<1>3. /\ WorkOK(w) /\ w.plan # <<>> /\ Head(w.plan) # "filed_before" /\ w \in Works({w.walk})
      /\ w.asked \in Asked /\ w.name \in Names /\ Rest(c) \in Seq(Steps)
      /\ Rest(c) = Tail(w.plan)
      BY <1>2, Going, ZenonT(60) DEF Steps
<1>4. w.amount \in Nat \ {0} /\ w.unit \in Maybe(Known)
      BY <1>3, UnderWay
<1>5. name \in Names
      BY <1>3, CapitalisedIsAName
<1> HIDE DEF w, name
<1>6. RowOK(row)
      BY <1>4, <1>5 DEF RowOK, Rows, Maybe
<1> HIDE DEF row
<1>7. ItemsOK'
      BY <1>1, <1>2, <1>6, OneRow DEF ShoppingInv
<1>8. /\ d(i) \in Works({d(i).walk}) /\ d(i).plan = Tail(w.plan)
      /\ d(i).asked = w.asked /\ d(i).row = i /\ d(i).name = name
      BY <1>1, <1>3, <1>5 DEF Works, Maybe
<1> HIDE DEF d
<1>9. WorkOK(d(i))
      BY <1>1, <1>3, <1>5, <1>8, GoesOn
<1>10. QED BY <1>1, <1>2, <1>7, <1>9, RowsWritten

LEMMA PutBackKeeps ==
    ASSUME ShoppingInv, NEW c \in Callers, PutBack(c)
    PROVE  ShoppingInv'
<1> DEFINE w == work[c]
           i == work[c].row
           row == [items[i] EXCEPT !.done = FALSE]
           d == [w EXCEPT !.name = items[i].name, !.amount = items[i].amount, !.plan = Rest(c)]
<1>1. /\ At(c, "put_back") /\ UNCHANGED <<history, shelf, orders, now>>
      /\ IF Present(i) THEN items' = [items EXCEPT ![i] = row] /\ Becomes(c, d)
         ELSE UNCHANGED items /\ GiveUp(c)
      BY DEF PutBack, BackOnTheList
<1>2. /\ WorkOK(w) /\ w.plan # <<>> /\ Head(w.plan) # "filed_before" /\ w \in Works({w.walk})
      /\ w.asked \in Asked /\ i \in RowIds /\ Rest(c) \in Seq(Steps)
      /\ Rest(c) = Tail(w.plan) /\ WorkOK(AfterAnError(w))
      BY <1>1, Going DEF Steps
<1>3. w.row = i
      OBVIOUS
<1>4. CASE Present(i)
  <2>1. /\ items[i] \in Rows /\ items[i].tags \subseteq Aisles /\ items[i].name \in Names
        /\ items[i].amount \in Nat \ {0}
        BY <1>2, <1>4, RowIs
  <2> HIDE DEF w, i
  <2>2. RowOK(row)
        BY <2>1 DEF RowOK, Rows, Maybe
  <2> HIDE DEF row
  <2>3. ItemsOK'
        BY <1>1, <1>2, <1>4, <2>2, OneRow DEF ShoppingInv
  <2>4. /\ d \in Works({d.walk}) /\ d.plan = Tail(w.plan)
        /\ d.asked = w.asked /\ d.row = i /\ d.name = items[i].name
        BY <1>2, <1>3, <2>1 DEF Works, Maybe
  <2> HIDE DEF d
  <2>5. WorkOK(d)
        BY <1>2, <2>1, <2>4, GoesOn
  <2>6. QED BY <1>1, <1>4, <2>3, <2>5, RowsWritten
<1>5. CASE ~Present(i)
  <2>1. ItemsOK'
        BY <1>1, <1>5, Untouched DEF ShoppingInv
  <2>2. QED BY <1>1, <1>2, <1>5, <2>1, RowsWritten DEF GiveUp
<1>6. QED BY <1>4, <1>5

(* Memory under its keys.                                                  *)
LEMMA MemoryIs ==
    ASSUME UNCHANGED shelf, StoreOK, NEW D, history' = [k \in D |-> history'[k]],
           \A k \in D : EntryOK(k, history'[k])
    PROVE  HistoryOK'
<1>1. Aisles' = Aisles /\ DOMAIN history' = D
      BY Untouched
<1>2. \A k \in D : EntryOK(k, history[k])'
      BY <1>1 DEF EntryOK
<1>3. QED BY <1>1, <1>2 DEF HistoryOK

LEMMA GoesOnOrEnds ==
    ASSUME ShoppingInv, NEW c \in Callers, NEW s \in Steps, At(c, s), s # "filed_before",
           IF Rest(c) = <<>> THEN Finish(c) ELSE Continue(c)
    PROVE  \E w : WorkOK(w) /\ Becomes(c, w)
<1>1. CASE Rest(c) = <<>>
      BY <1>1, Going DEF Finish
<1>2. CASE Rest(c) # <<>>
      BY <1>2, Continued DEF Continue
<1>3. QED BY <1>1, <1>2

LEMMA UsedIs ==
    ASSUME ShoppingInv, NEW w, WorkOK(w), w.plan # <<>>,
           NEW k, k = Key(w.name)
    PROVE  /\ k \in DOMAIN history => EntryOK(k, Used(history[k], w))
           /\ EntryOK(k, FirstUse(w))
<1>1. w.name \in Names /\ w.amount \in Nat \ {0} /\ w.unit \in Maybe(Known)
      BY UnderWay
<1>2. now \in Moments
      BY DEF ShoppingInv, StoreOK
<1>3. w.amount \in Maybe(Nat \ {0})
      BY <1>1 DEF Maybe
<1>4. ASSUME k \in DOMAIN history PROVE EntryOK(k, Used(history[k], w))
  <2> DEFINE old == history[k]
             e == Used(history[k], w)
             unit == IF w.unit = None THEN old.unit ELSE w.unit
  <2>1. /\ old.unit \in Maybe(Known) /\ old.uses \in Nat \ {0} /\ old.tags \subseteq Aisles
        /\ old.tags \subseteq TagIds
        BY <1>4, EntryIs
  <2> HIDE DEF old
  <2>2. unit \in Maybe(Known) /\ old.uses + 1 \in Nat \ {0}
        BY <1>1, <2>1
  <2> HIDE DEF unit
  <2>3. e = [display |-> w.name, unit |-> unit, amount |-> w.amount, uses |-> old.uses + 1,
             last |-> now, tags |-> old.tags]
        BY DEF Used, old, unit
  <2> HIDE DEF e
  <2>4. QED BY <1>1, <1>2, <1>3, <2>1, <2>2, <2>3 DEF EntryOK, Entries, e
<1>5. EntryOK(k, FirstUse(w))
      BY <1>1, <1>2, <1>3 DEF EntryOK, Entries, FirstUse
<1>6. QED BY <1>4, <1>5

LEMMA RecordKeeps ==
    ASSUME ShoppingInv, NEW c \in Callers, Record(c)
    PROVE  ShoppingInv'
<1> DEFINE w == work[c]
           k == Key(w.name)
           D == DOMAIN history \cup {k}
<1>1. /\ At(c, "record") /\ UNCHANGED <<items, shelf, orders, now>>
      /\ history' = [m \in D |->
            IF m # k THEN history[m]
            ELSE IF k \in DOMAIN history THEN Used(history[k], w) ELSE FirstUse(w)]
      /\ IF Rest(c) = <<>> THEN Finish(c) ELSE Continue(c)
      BY DEF Record
<1>2. WorkOK(w) /\ w.plan # <<>>
      BY <1>1, Going DEF Steps
<1>3. "record" \in Steps /\ "record" # "filed_before"
      BY DEF Steps
<1>4. PICK d : WorkOK(d) /\ Becomes(c, d)
      BY <1>1, <1>3, GoesOnOrEnds
<1> HIDE DEF w
<1>5. /\ k \in DOMAIN history => EntryOK(k, Used(history[k], w))
      /\ EntryOK(k, FirstUse(w))
      BY <1>2, UsedIs
<1>6. \A m \in DOMAIN history : EntryOK(m, history[m])
      BY DEF ShoppingInv, StoreOK, HistoryOK
<1> HIDE DEF k
<1>7. history' = [m \in D |-> history'[m]] /\ \A m \in D : EntryOK(m, history'[m])
      BY <1>1, <1>5, <1>6
<1>8. HistoryOK'
      BY <1>1, <1>7, MemoryIs DEF ShoppingInv
<1>9. QED BY <1>1, <1>4, <1>8, MemoryWritten

LEMMA SomeForgotten ==
    ASSUME StoreOK, UNCHANGED shelf, NEW kept \in SUBSET DOMAIN history,
           history' = [k \in kept |-> history[k]]
    PROVE  HistoryOK'
<1>1. \A m \in kept : EntryOK(m, history[m])
      BY DEF StoreOK, HistoryOK
<1>2. history' = [m \in kept |-> history'[m]] /\ \A m \in kept : EntryOK(m, history'[m])
      BY <1>1
<1>3. QED BY <1>2, MemoryIs

LEMMA PruneKeeps ==
    ASSUME ShoppingInv, NEW c \in Callers, Prune(c)
    PROVE  ShoppingInv'
<1>1. /\ At(c, "prune") /\ UNCHANGED <<items, shelf, orders, now>>
      /\ IF Rest(c) = <<>> THEN Finish(c) ELSE Continue(c)
      BY DEF Prune
<1>2. PICK kept \in SUBSET DOMAIN history : history' = [k \in kept |-> history[k]]
      BY DEF Prune
<1>3. "prune" \in Steps /\ "prune" # "filed_before"
      BY DEF Steps
<1>4. PICK d : WorkOK(d) /\ Becomes(c, d)
      BY <1>1, <1>3, GoesOnOrEnds
<1>5. HistoryOK'
      BY <1>1, <1>2, SomeForgotten DEF ShoppingInv
<1>6. QED BY <1>1, <1>4, <1>5, MemoryWritten

LEMMA FiledBeforeKeeps ==
    ASSUME ShoppingInv, NEW c \in Callers, FiledBefore(c)
    PROVE  ShoppingInv'
<1> DEFINE w == work[c]
           entry == EntryOf(Ask(c).line)
           under == IF entry = None THEN {} ELSE entry.tags
           d == [w EXCEPT !.left = under, !.plan = Rest(c)]
<1>1. At(c, "filed_before") /\ Only(c, IF under = {} THEN Onward(w) ELSE d)
      BY DEF FiledBefore
<1>2. /\ WorkOK(w) /\ w.plan # <<>> /\ w \in Works({w.walk})
      /\ w.asked \in Asked /\ w.row \in RowIds /\ w.name \in Names /\ Rest(c) \in Seq(Steps)
      /\ Rest(c) = Tail(w.plan) /\ WorkOK(Onward(w))
      BY <1>1, Going DEF Steps
<1>3. under \in SUBSET TagIds
      BY EntryOfIs
<1> HIDE DEF w, under
<1>4. CASE under = {}
      BY <1>1, <1>2, <1>4, OnlyTheRequest
<1>5. CASE under # {}
  <2>1. /\ d \in Works({d.walk}) /\ d.plan = Tail(w.plan) /\ d.left = under
        /\ d.asked = w.asked /\ d.row = w.row /\ d.name = w.name
        BY <1>2, <1>3 DEF Works
  <2>2. w.plan \in Seq(Steps) /\ FiledInTurn(w.plan, w.left)
        BY <1>2, UnderWay
  <2>3. FiledInTurn(Tail(w.plan), under)
        BY <1>2, <1>5, <2>2, FiledAfter
  <2> HIDE DEF d
  <2>4. WorkOK(d)
        BY <1>2, <2>1, <2>3 DEF WorkOK
  <2>5. QED BY <1>1, <1>5, <2>4, OnlyTheRequest
<1>6. QED BY <1>4, <1>5

(* A row that is filed under an aisle there is.                            *)
LEMMA TagAdded ==
    ASSUME ShoppingInv, NEW i \in RowIds, NEW t \in TagIds, MayAttach(i, t),
           UNCHANGED shelf, items' = WithTag(i, t)
    PROVE  ItemsOK'
<1> DEFINE row == [items[i] EXCEPT !.tags = @ \cup {t}]
<1>1. Present(i) /\ t \in Aisles
      BY DEF MayAttach, Aisles
<1>2. items[i] \in Rows /\ items[i].tags \subseteq Aisles /\ items[i].tags \subseteq TagIds
      BY <1>1, RowIs
<1>3. RowOK(row)
      BY <1>1, <1>2 DEF RowOK, Rows, Maybe
<1>4. items' = [items EXCEPT ![i] = row]
      BY DEF WithTag
<1> HIDE DEF row
<1>5. QED BY <1>3, <1>4, OneRow DEF ShoppingInv

LEMMA FileOneKeeps ==
    ASSUME ShoppingInv, NEW c \in Callers, FileOne(c)
    PROVE  ShoppingInv'
<1> DEFINE w == work[c]
           t == Min(work[c].left)
           i == work[c].row
           d == [w EXCEPT !.left = @ \ {t}]
<1>1. /\ At(c, "file_one") /\ UNCHANGED <<history, shelf, orders, now>>
      /\ items' = IF MayAttach(i, t) THEN WithTag(i, t) ELSE items
      /\ IF w.left = {t} THEN Finish(c) ELSE Becomes(c, d)
      BY DEF FileOne
<1>2. /\ WorkOK(w) /\ w.plan # <<>> /\ w \in Works({w.walk}) /\ Head(w.plan) = "file_one"
      /\ w.asked \in Asked /\ i \in RowIds /\ w.row \in RowIds /\ w.name \in Names
      /\ WorkOK(Onward(w))
      BY <1>1, Going DEF Steps
<1>3. w.plan \in Seq(Steps) /\ FiledInTurn(w.plan, w.left) /\ w.left \in SUBSET TagIds
      BY <1>2, UnderWay
<1>4. w.left # {}
  <2>1. 1 \in 1..Len(w.plan) /\ w.plan[1] = "file_one"
        BY <1>2, <1>3, TailOf
  <2>2. QED BY <1>3, <2>1 DEF FiledInTurn
<1>5. t \in w.left /\ t \in TagIds
  <2>1. w.left \subseteq Nat
        BY <1>3 DEF TagIds
  <2>2. QED BY <1>3, <1>4, <2>1, MinIsThere
<1> HIDE DEF t, i
<1>6. ItemsOK'
  <2>1. CASE MayAttach(i, t)
        BY <1>1, <1>2, <1>5, <2>1, TagAdded
  <2>2. CASE ~MayAttach(i, t)
        BY <1>1, <2>2, Untouched DEF ShoppingInv
  <2>3. QED BY <2>1, <2>2
<1>7. CASE w.left = {t}
  <2>1. Becomes(c, Onward(w))
        BY <1>1, <1>7 DEF Finish
  <2>2. QED BY <1>1, <1>2, <1>6, <2>1, RowsWritten
<1>8. CASE w.left # {t}
  <2>1. w.left \ {t} # {}
        BY <1>5, <1>8
  <2> HIDE DEF w
  <2>2. /\ d \in Works({d.walk}) /\ d.plan = w.plan /\ d.left = w.left \ {t}
        /\ d.asked = w.asked /\ d.row = w.row /\ d.name = w.name
        BY <1>2, <1>3 DEF Works
  <2> HIDE DEF d
  <2>3. FiledInTurn(d.plan, d.left)
        BY <1>3, <2>1, <2>2 DEF FiledInTurn
  <2>4. WorkOK(d)
        BY <1>2, <2>2, <2>3 DEF WorkOK
  <2>5. QED BY <1>1, <1>6, <1>8, <2>4, RowsWritten
<1>9. QED BY <1>7, <1>8

----------------------------------------------------------------------------
(* Changing a row.                                                         *)

LEMMA RequestGoesOn ==
    ASSUME ShoppingInv, NEW c \in Callers, NEW s \in Steps, At(c, s)
    PROVE  /\ Finish(c) => \E w : WorkOK(w) /\ Becomes(c, w)
           /\ GiveUp(c) => \E w : WorkOK(w) /\ Becomes(c, w)
           /\ Continue(c) /\ s # "filed_before" => \E w : WorkOK(w) /\ Becomes(c, w)
<1>1. WorkOK(Onward(work[c])) /\ WorkOK(AfterAnError(work[c]))
      BY Going
<1>2. s # "filed_before" => WorkOK([work[c] EXCEPT !.plan = Rest(c)])
      BY Continued
<1>3. QED BY <1>1, <1>2 DEF Finish, GiveUp, Continue

LEMMA LookKeeps ==
    ASSUME ShoppingInv, NEW c \in Callers, Look(c)
    PROVE  ShoppingInv'
<1> DEFINE w == work[c]
           i == work[c].row
           crossed == IF Ask(c).deed = "toggle" THEN ~items[i].done ELSE w.crossed
           d1 == [w EXCEPT !.plan = Rest(c)]
           d2 == [w EXCEPT !.plan = Rest(c), !.name = items[i].name, !.crossed = crossed]
<1>1. /\ At(c, "look")
      /\ Only(c, IF ~Present(i) THEN AfterAnError(w)
                 ELSE IF Ask(c).deed = "edit" THEN d1 ELSE d2)
      BY DEF Look
<1>2. /\ WorkOK(w) /\ w.plan # <<>> /\ Head(w.plan) # "filed_before" /\ w \in Works({w.walk})
      /\ w.asked \in Asked /\ i \in RowIds /\ w.row \in RowIds /\ w.name \in Names
      /\ Rest(c) \in Seq(Steps) /\ Rest(c) = Tail(w.plan) /\ WorkOK(AfterAnError(w))
      BY <1>1, Going DEF Steps
<1>3. WorkOK(d1)
      BY <1>1, Continued DEF Steps
<1>4. CASE ~Present(i) \/ Ask(c).deed = "edit"
  <2> HIDE DEF d1, w, i
  <2>1. \E x : WorkOK(x) /\ Only(c, x)
        BY <1>1, <1>2, <1>3, <1>4
  <2>2. QED BY <2>1, OnlyTheRequest
<1>5. CASE Present(i) /\ Ask(c).deed # "edit"
  <2>1. items[i].name \in Names /\ crossed \in BOOLEAN
    <3>1. w.crossed \in BOOLEAN
          BY <1>2, UnderWay
    <3>2. QED BY <1>2, <1>5, <3>1, RowIs
  <2> HIDE DEF w, i, crossed
  <2>2. /\ d2 \in Works({d2.walk}) /\ d2.plan = Tail(w.plan)
        /\ d2.asked = w.asked /\ d2.row = w.row /\ d2.name = items[i].name
        BY <1>2, <2>1 DEF Works, Maybe
  <2> HIDE DEF d2
  <2>3. WorkOK(d2)
        BY <1>2, <2>1, <2>2, GoesOn
  <2>4. QED BY <1>1, <1>5, <2>3, OnlyTheRequest
<1>6. QED BY <1>4, <1>5

(* One row's name, quantity and unit.                                      *)
LEMMA RowRewritten ==
    ASSUME ShoppingInv, NEW i \in RowIds, Present(i), UNCHANGED shelf,
           NEW name \in Names, NEW amount \in Nat \ {0}, NEW unit \in Maybe(Known),
           items' = [items EXCEPT ![i].name = name, ![i].amount = amount, ![i].unit = unit]
    PROVE  ItemsOK'
<1> DEFINE row == [items[i] EXCEPT !.name = name, !.amount = amount, !.unit = unit]
<1>1. items[i] \in Rows /\ items[i].tags \subseteq Aisles
      BY RowIs
<1>2. RowOK(row)
      BY <1>1 DEF RowOK, Rows, Maybe
<1>3. items = [j \in RowIds |-> items[j]]
      BY DEF ShoppingInv, StoreOK, ItemsOK
<1>4. items' = [items EXCEPT ![i] = row]
      BY <1>1, <1>3 DEF Rows
<1> HIDE DEF row
<1>5. QED BY <1>2, <1>4, OneRow DEF ShoppingInv

LEMMA RewriteKeeps ==
    ASSUME ShoppingInv, NEW c \in Callers, Rewrite(c)
    PROVE  ShoppingInv'
<1> DEFINE w == work[c]
           name == Capitalised(w.name)
           d == [w EXCEPT !.name = name, !.plan = Rest(c)]
<1>1. /\ At(c, "rewrite") /\ UNCHANGED <<history, shelf, orders, now>>
      /\ IF Present(w.row)
         THEN /\ items' = [items EXCEPT ![w.row].name = name, ![w.row].amount = w.amount,
                              ![w.row].unit = w.unit]
              /\ Becomes(c, d)
         ELSE UNCHANGED items /\ GiveUp(c)
      BY DEF Rewrite
<1>2. /\ WorkOK(w) /\ w.plan # <<>> /\ Head(w.plan) # "filed_before" /\ w \in Works({w.walk})
      /\ w.asked \in Asked /\ w.row \in RowIds /\ w.name \in Names
      /\ Rest(c) \in Seq(Steps) /\ Rest(c) = Tail(w.plan) /\ WorkOK(AfterAnError(w))
      BY <1>1, Going DEF Steps
<1>3. name \in Names
      BY <1>2, CapitalisedIsAName
<1>4. CASE Present(w.row)
  <2>1. w.amount \in Nat \ {0} /\ w.unit \in Maybe(Known)
        BY <1>2, UnderWay
  <2> HIDE DEF w, name
  <2>2. ItemsOK'
        BY <1>1, <1>2, <1>3, <1>4, <2>1, RowRewritten
  <2>3. /\ d \in Works({d.walk}) /\ d.plan = Tail(w.plan)
        /\ d.asked = w.asked /\ d.row = w.row /\ d.name = name
        BY <1>2, <1>3 DEF Works, Maybe
  <2> HIDE DEF d
  <2>4. WorkOK(d)
        BY <1>2, <1>3, <2>3, GoesOn
  <2>5. QED BY <1>1, <1>4, <2>2, <2>4, RowsWritten
<1>5. CASE ~Present(w.row)
  <2>1. ItemsOK'
        BY <1>1, <1>5, Untouched DEF ShoppingInv
  <2>2. QED BY <1>1, <1>2, <1>5, <2>1, RowsWritten DEF GiveUp
<1>6. QED BY <1>4, <1>5

LEMMA CrossOffKeeps ==
    ASSUME ShoppingInv, NEW c \in Callers, CrossOff(c)
    PROVE  ShoppingInv'
<1> DEFINE i == work[c].row
           row == [items[i] EXCEPT !.done = work[c].crossed]
<1>1. /\ At(c, "tick") /\ UNCHANGED <<history, shelf, orders, now>>
      /\ IF Present(i) THEN items' = [items EXCEPT ![i] = row] /\ Finish(c)
         ELSE UNCHANGED items /\ GiveUp(c)
      BY DEF CrossOff
<1>2. PICK d : WorkOK(d) /\ Becomes(c, d)
      BY <1>1, RequestGoesOn DEF Steps
<1>3. i \in RowIds /\ work[c].crossed \in BOOLEAN
  <2>1. WorkOK(work[c]) /\ work[c].plan # <<>>
        BY <1>1, Going DEF Steps
  <2>2. QED BY <2>1, UnderWay
<1>4. CASE Present(i)
  <2>1. items[i] \in Rows /\ items[i].tags \subseteq Aisles
        BY <1>3, <1>4, RowIs
  <2>2. RowOK(row)
        BY <1>3, <2>1 DEF RowOK, Rows, Maybe
  <2> HIDE DEF row, i
  <2>3. ItemsOK'
        BY <1>1, <1>3, <1>4, <2>2, OneRow DEF ShoppingInv
  <2>4. QED BY <1>1, <1>2, <2>3, RowsWritten
<1>5. CASE ~Present(i)
  <2>1. ItemsOK'
        BY <1>1, <1>5, Untouched DEF ShoppingInv
  <2>2. QED BY <1>1, <1>2, <2>1, RowsWritten
<1>6. QED BY <1>4, <1>5

LEMMA TurnKeeps ==
    ASSUME ShoppingInv, NEW c \in Callers, Turn(c)
    PROVE  ShoppingInv'
<1>1. /\ At(c, "turn")
      /\ Only(c, IF Present(work[c].row) THEN [work[c] EXCEPT !.plan = Rest(c)]
                 ELSE AfterAnError(work[c]))
      BY DEF Turn
<1>2. WorkOK([work[c] EXCEPT !.plan = Rest(c)]) /\ WorkOK(AfterAnError(work[c]))
      BY <1>1, Continued, Going DEF Steps
<1>3. \E x : WorkOK(x) /\ Only(c, x)
      BY <1>1, <1>2
<1>4. QED BY <1>3, OnlyTheRequest

LEMMA DropKeeps ==
    ASSUME ShoppingInv, NEW c \in Callers, Drop(c)
    PROVE  ShoppingInv'
<1>1. /\ At(c, "drop") /\ Finish(c) /\ UNCHANGED <<history, shelf, orders, now>>
      /\ items' = Strike({work[c].row})
      BY DEF Drop
<1>2. PICK d : WorkOK(d) /\ Becomes(c, d)
      BY <1>1, RequestGoesOn DEF Steps
<1>3. ItemsOK'
      BY <1>1, SomeStruck DEF ShoppingInv
<1>4. QED BY <1>1, <1>2, <1>3, RowsWritten

LEMMA SweepKeeps ==
    ASSUME ShoppingInv, NEW c \in Callers, Sweep(c)
    PROVE  ShoppingInv'
<1>1. /\ At(c, "sweep") /\ Finish(c) /\ UNCHANGED <<history, shelf, orders, now>>
      /\ items' = Strike(CrossedOff)
      BY DEF Sweep
<1>2. PICK d : WorkOK(d) /\ Becomes(c, d)
      BY <1>1, RequestGoesOn DEF Steps
<1>3. ItemsOK'
      BY <1>1, SomeStruck DEF ShoppingInv
<1>4. QED BY <1>1, <1>2, <1>3, RowsWritten

LEMMA ClearKeeps ==
    ASSUME ShoppingInv, NEW c \in Callers, Clear(c)
    PROVE  ShoppingInv'
<1>1. /\ At(c, "clear") /\ Finish(c) /\ UNCHANGED <<history, shelf, orders, now>>
      /\ items' = Strike(Ask(c).rows \cap CrossedOff)
      BY DEF Clear
<1>2. PICK d : WorkOK(d) /\ Becomes(c, d)
      BY <1>1, RequestGoesOn DEF Steps
<1>3. ItemsOK'
      BY <1>1, SomeStruck DEF ShoppingInv
<1>4. QED BY <1>1, <1>2, <1>3, RowsWritten

LEMMA ForgetKeeps ==
    ASSUME ShoppingInv, NEW c \in Callers, Forget(c)
    PROVE  ShoppingInv'
<1>1. /\ At(c, "forget") /\ Finish(c) /\ UNCHANGED <<items, shelf, orders, now>>
      /\ history' = [k \in DOMAIN history \ {Key(Ask(c).line)} |-> history[k]]
      BY DEF Forget
<1>2. PICK d : WorkOK(d) /\ Becomes(c, d)
      BY <1>1, RequestGoesOn DEF Steps
<1>3. HistoryOK'
      BY <1>1, SomeForgotten DEF ShoppingInv
<1>4. QED BY <1>1, <1>2, <1>3, MemoryWritten

----------------------------------------------------------------------------
(* Filing.                                                                 *)

LEMMA AttachKeeps ==
    ASSUME ShoppingInv, NEW c \in Callers, Attach(c)
    PROVE  ShoppingInv'
<1> DEFINE i == work[c].row
           t == Ask(c).tag
<1>1. /\ At(c, "attach") /\ UNCHANGED <<history, shelf, orders, now>>
      /\ IF MayAttach(i, t) THEN items' = WithTag(i, t) /\ Continue(c)
         ELSE UNCHANGED items /\ GiveUp(c)
      BY DEF Attach
<1>2. "attach" \in Steps /\ "attach" # "filed_before"
      BY DEF Steps
<1>3. PICK d : WorkOK(d) /\ Becomes(c, d)
      BY <1>1, <1>2, RequestGoesOn
<1>4. i \in RowIds /\ t \in TagIds
  <2>1. work[c].asked \in Asked /\ i \in RowIds
        BY <1>1, <1>2, Going
  <2>2. QED BY <2>1, AskedIs DEF Ask
<1> HIDE DEF i, t
<1>5. CASE MayAttach(i, t)
  <2>1. ItemsOK'
        BY <1>1, <1>4, <1>5, TagAdded
  <2>2. QED BY <1>1, <1>3, <2>1, RowsWritten
<1>6. CASE ~MayAttach(i, t)
  <2>1. ItemsOK'
        BY <1>1, <1>6, Untouched DEF ShoppingInv
  <2>2. QED BY <1>1, <1>3, <2>1, RowsWritten
<1>7. QED BY <1>5, <1>6

LEMMA DetachKeeps ==
    ASSUME ShoppingInv, NEW c \in Callers, Detach(c)
    PROVE  ShoppingInv'
<1> DEFINE i == work[c].row
           t == Ask(c).tag
           row == [items[i] EXCEPT !.tags = @ \ {t}]
<1>1. /\ At(c, "detach") /\ UNCHANGED <<history, shelf, orders, now>>
      /\ IF Present(i) /\ t \in items[i].tags
         THEN items' = [items EXCEPT ![i] = row] /\ Continue(c)
         ELSE UNCHANGED items /\ GiveUp(c)
      BY DEF Detach
<1>2. "detach" \in Steps /\ "detach" # "filed_before"
      BY DEF Steps
<1>3. PICK d : WorkOK(d) /\ Becomes(c, d)
      BY <1>1, <1>2, RequestGoesOn
<1>4. i \in RowIds
      BY <1>1, <1>2, Going
<1>5. CASE Present(i) /\ t \in items[i].tags
  <2>1. items[i] \in Rows /\ items[i].tags \subseteq Aisles
        BY <1>4, <1>5, RowIs
  <2> HIDE DEF i, t
  <2>2. RowOK(row)
        BY <2>1 DEF RowOK, Rows, Maybe
  <2> HIDE DEF row
  <2>3. ItemsOK'
        BY <1>1, <1>4, <1>5, <2>2, OneRow DEF ShoppingInv
  <2>4. QED BY <1>1, <1>3, <2>3, RowsWritten
<1>6. CASE ~(Present(i) /\ t \in items[i].tags)
  <2>1. ItemsOK'
        BY <1>1, <1>6, Untouched DEF ShoppingInv
  <2>2. QED BY <1>1, <1>3, <2>1, RowsWritten
<1>7. QED BY <1>5, <1>6

LEMMA HeldKeeps ==
    ASSUME ShoppingInv, NEW c \in Callers, Held(c)
    PROVE  ShoppingInv'
<1> DEFINE w == work[c]
           tags == HeldByTheRow(c)
           d == [w EXCEPT !.left = tags, !.plan = Rest(c)]
<1>1. At(c, "held") /\ Only(c, d)
      BY DEF Held
<1>2. /\ WorkOK(w) /\ w.plan # <<>> /\ Head(w.plan) # "filed_before" /\ w \in Works({w.walk})
      /\ w.asked \in Asked /\ w.row \in RowIds /\ w.name \in Names
      /\ Rest(c) \in Seq(Steps) /\ Rest(c) = Tail(w.plan)
      BY <1>1, Going DEF Steps
<1>3. tags \in SUBSET TagIds
      BY <1>2, RowIs DEF HeldByTheRow
<1> HIDE DEF w, tags
<1>4. /\ d \in Works({d.walk}) /\ d.plan = Tail(w.plan)
      /\ d.asked = w.asked /\ d.row = w.row /\ d.name = w.name
      BY <1>2, <1>3 DEF Works
<1> HIDE DEF d
<1>5. WorkOK(d)
      BY <1>2, <1>4, GoesOn
<1>6. QED BY <1>1, <1>5, OnlyTheRequest

LEMMA RememberKeeps ==
    ASSUME ShoppingInv, NEW c \in Callers, Remember(c)
    PROVE  ShoppingInv'
<1> DEFINE k == Key(work[c].name)
           left == work[c].left
           e == [history[k] EXCEPT !.tags = left]
<1>1. /\ At(c, "remember") /\ Finish(c) /\ UNCHANGED <<items, shelf, orders, now>>
      /\ history' = IF k \in DOMAIN history /\ left \subseteq Aisles
                    THEN [history EXCEPT ![k] = e] ELSE history
      BY DEF Remember
<1>2. PICK d : WorkOK(d) /\ Becomes(c, d)
      BY <1>1, RequestGoesOn DEF Steps
<1>3. left \in SUBSET TagIds
  <2>1. WorkOK(work[c]) /\ work[c].plan # <<>>
        BY <1>1, Going DEF Steps
  <2>2. QED BY <2>1, UnderWay
<1>4. /\ history = [m \in DOMAIN history |-> history[m]]
      /\ \A m \in DOMAIN history : EntryOK(m, history[m])
      BY DEF ShoppingInv, StoreOK, HistoryOK
<1> HIDE DEF k, left
<1>5. CASE k \in DOMAIN history /\ left \subseteq Aisles
  <2>1. EntryOK(k, history[k])
        BY <1>4, <1>5
  <2>2. EntryOK(k, e)
        BY <1>3, <1>5, <2>1 DEF EntryOK, Entries
  <2> HIDE DEF e
  <2>3. /\ history' = [m \in DOMAIN history |-> history'[m]]
        /\ \A m \in DOMAIN history : EntryOK(m, history'[m])
        BY <1>1, <1>4, <1>5, <2>2
  <2>4. HistoryOK'
        BY <1>1, <2>3, MemoryIs DEF ShoppingInv
  <2>5. QED BY <1>1, <1>2, <2>4, MemoryWritten
<1>6. CASE ~(k \in DOMAIN history /\ left \subseteq Aisles)
  <2>1. HistoryOK'
        BY <1>1, <1>6, Untouched DEF ShoppingInv
  <2>2. QED BY <1>1, <1>2, <2>1, MemoryWritten
<1>7. QED BY <1>5, <1>6

----------------------------------------------------------------------------
(* Aisles that come and go.                                                *)

LEMMA ShelveKeeps ==
    ASSUME ShoppingInv, NEW c \in Callers, Shelve(c)
    PROVE  ShoppingInv'
<1>1. At(c, "shelve") /\ Finish(c) /\ UNCHANGED <<items, history, orders, now>>
      BY DEF Shelve
<1>2. PICK t \in TagIds : shelf' = [shelf EXCEPT ![t] = 0]
      BY DEF Shelve
<1>3. PICK d : WorkOK(d) /\ Becomes(c, d)
      BY <1>1, RequestGoesOn DEF Steps
<1>4. StoreOK
      BY DEF ShoppingInv
<1>5. ShelfOK' /\ Aisles \subseteq Aisles'
  <2>1. shelf \in [TagIds -> Maybe(Nat)] /\ 0 \in Maybe(Nat) /\ 0 # None
        BY <1>4, ShoppingAssumption DEF StoreOK, ShelfOK, Maybe, ShoppingAssumption
  <2>2. shelf' \in [TagIds -> Maybe(Nat)]
        BY <1>2, <2>1
  <2>3. \A s \in TagIds : shelf[s] # None => shelf'[s] # None
        BY <1>2, <2>1
  <2>4. QED BY <2>2, <2>3 DEF ShelfOK, Aisles
<1>6. ItemsOK'
      BY <1>1, <1>4, <1>5 DEF StoreOK, ItemsOK, RowOK
<1>7. HistoryOK'
      BY <1>1, <1>4, <1>5 DEF StoreOK, HistoryOK, EntryOK
<1>8. OrdersOK'
  <2>1. \A p \in People : OrderOK(orders[p])'
    <3>1. ASSUME NEW p \in People PROVE orders[p].tags \in Seq(Aisles')
      <4>1. orders[p].tags \in Seq(Aisles)
            BY <1>4 DEF StoreOK, OrdersOK, OrderOK, Writable
      <4>2. QED BY <1>5, <4>1, SeqMonotonic
    <3>2. QED BY <1>1, <1>4, <3>1 DEF StoreOK, OrdersOK, OrderOK, Writable
  <2>2. QED BY <1>1, <1>4, <2>1 DEF StoreOK, OrdersOK
<1>9. StoreOK'
      BY <1>1, <1>4, <1>5, <1>6, <1>7, <1>8 DEF StoreOK
<1>10. QED BY <1>3, <1>9, OneCaller

LEMMA RemovedAt ==
    ASSUME NEW S, NEW s \in Seq(S), NEW k \in 1..Len(s)
    PROVE  /\ RemoveAt(s, k) \in Seq(S) /\ Len(RemoveAt(s, k)) = Len(s) - 1
           /\ \A i \in 1..Len(s) - 1 : RemoveAt(s, k)[i] = IF i < k THEN s[i] ELSE s[i + 1]
<1> DEFINE a == SubSeq(s, 1, k - 1)
           b == SubSeq(s, k + 1, Len(s))
<1>1. a \in Seq(S) /\ Len(a) = k - 1 /\ \A i \in 1..Len(a) : a[i] = s[i]
      OBVIOUS
<1>2. b \in Seq(S) /\ Len(b) = Len(s) - k /\ \A i \in 1..Len(b) : b[i] = s[i + k]
      OBVIOUS
<1>3. RemoveAt(s, k) = a \o b
      BY DEF RemoveAt
<1> HIDE DEF a, b
<1>4. /\ a \o b \in Seq(S) /\ Len(a \o b) = Len(a) + Len(b)
      /\ \A i \in 1..Len(a) + Len(b) : (a \o b)[i] = IF i <= Len(a) THEN a[i] ELSE b[i - Len(a)]
      BY <1>1, <1>2, ConcatProperties
<1>5. Len(a) + Len(b) = Len(s) - 1
      BY <1>1, <1>2
<1>6. ASSUME NEW i \in 1..Len(s) - 1
      PROVE  (a \o b)[i] = IF i < k THEN s[i] ELSE s[i + 1]
  <2>1. CASE i < k
    <3>1. i \in 1..Len(a) /\ i <= Len(a) /\ i \in 1..Len(a) + Len(b)
          BY <1>1, <1>5, <2>1
    <3>2. QED BY <1>1, <1>4, <2>1, <3>1
  <2>2. CASE ~(i < k)
    <3>1. /\ ~(i <= Len(a)) /\ i - Len(a) \in 1..Len(b) /\ i - Len(a) + k = i + 1
          /\ i \in 1..Len(a) + Len(b)
          BY <1>1, <1>2, <1>5, <2>2
    <3>2. (a \o b)[i] = b[i - Len(a)]
          BY <1>4, <3>1
    <3>3. QED BY <1>2, <2>2, <3>1, <3>2
  <2>3. QED BY <2>1, <2>2
<1>7. QED BY <1>3, <1>4, <1>5, <1>6

(* An order without an aisle is one of the others.                         *)
LEMMA WithoutAisleIs ==
    ASSUME NEW S, NEW walk \in Seq(S), IsInjective(walk), NEW t
    PROVE  WithoutAisle(walk, t) \in Seq(S \ {t}) /\ IsInjective(WithoutAisle(walk, t))
<1>1. DOMAIN walk = 1..Len(walk) /\ Len(walk) \in Nat /\ \A i \in 1..Len(walk) : walk[i] \in S
      OBVIOUS
<1>2. CASE t \in ToSet(walk)
  <2> DEFINE k == CHOOSE i \in DOMAIN walk : walk[i] = t
             r == RemoveAt(walk, k)
             at(i) == IF i < k THEN i ELSE i + 1
  <2>1. k \in 1..Len(walk) /\ walk[k] = t
        BY <1>1, <1>2 DEF ToSet
  <2> HIDE DEF k
  <2>2. r \in Seq(S) /\ Len(r) = Len(walk) - 1 /\ \A i \in 1..Len(walk) - 1 : r[i] = walk[at(i)]
        BY <2>1, RemovedAt
  <2> HIDE DEF r
  <2>3. \A i \in 1..Len(r) : r[i] = walk[at(i)] /\ at(i) \in 1..Len(walk) /\ at(i) # k
        BY <1>1, <2>1, <2>2
  <2>4. \A i \in 1..Len(r) : r[i] \in S \ {t}
        BY <1>1, <2>1, <2>3 DEF IsInjective
  <2>5. r \in Seq(S \ {t})
        BY <2>2, <2>4
  <2>6. \A i, j \in 1..Len(r) : at(i) = at(j) => i = j
        BY <2>1, <2>2
  <2>7. DOMAIN r = 1..Len(r)
        BY <2>2
  <2>8. IsInjective(r)
    <3> SUFFICES ASSUME NEW i \in 1..Len(r), NEW j \in 1..Len(r), r[i] = r[j]
                 PROVE  i = j
        BY <2>7 DEF IsInjective
    <3>1. walk[at(i)] = walk[at(j)] /\ at(i) \in DOMAIN walk /\ at(j) \in DOMAIN walk
          BY <1>1, <2>3
    <3> HIDE DEF at
    <3>2. at(i) = at(j)
          BY <3>1 DEF IsInjective
    <3>3. QED BY <2>6, <3>2
  <2>9. QED BY <1>2, <2>5, <2>8 DEF WithoutAisle, r, k
<1>3. CASE t \notin ToSet(walk)
  <2>1. \A i \in 1..Len(walk) : walk[i] \in S \ {t}
        BY <1>1, <1>3 DEF ToSet
  <2>2. QED BY <1>3, <2>1 DEF WithoutAisle
<1>4. QED BY <1>2, <1>3

LEMMA RazeKeeps ==
    ASSUME ShoppingInv, NEW c \in Callers, Raze(c)
    PROVE  ShoppingInv'
<1> DEFINE t == Ask(c).tag
<1>1. At(c, "raze") /\ Finish(c) /\ RazeAisle(t) /\ UNCHANGED now
      BY DEF Raze
<1>2. PICK d : WorkOK(d) /\ Becomes(c, d)
      BY <1>1, RequestGoesOn DEF Steps
<1>3. StoreOK
      BY DEF ShoppingInv
<1> HIDE DEF t
<1>4. ShelfOK' /\ Aisles' = Aisles \ {t}
  <2>1. shelf \in [TagIds -> Maybe(Nat)] /\ None \in Maybe(Nat) /\ shelf' = [shelf EXCEPT ![t] = None]
        BY <1>1, <1>3 DEF StoreOK, ShelfOK, Maybe, RazeAisle
  <2>2. QED BY <2>1 DEF ShelfOK, Aisles
<1>5. ItemsOK'
  <2>1. items' = [i \in RowIds |-> IF Present(i) THEN [items[i] EXCEPT !.tags = @ \ {t}] ELSE None]
        BY <1>1 DEF RazeAisle
  <2>2. ASSUME NEW i \in RowIds PROVE RowOK(items[i])'
    <3>1. CASE Present(i)
      <4> DEFINE row == [items[i] EXCEPT !.tags = @ \ {t}]
      <4>1. items[i] \in Rows /\ items[i].tags \subseteq Aisles
            BY <3>1, RowIs
      <4>2. row \in Rows /\ row.tags \subseteq Aisles'
            BY <1>4, <4>1 DEF Rows
      <4>3. items'[i] = row
            BY <2>1, <3>1
      <4> HIDE DEF row
      <4>4. QED BY <4>2, <4>3 DEF RowOK, Maybe
    <3>2. CASE ~Present(i)
          BY <2>1, <3>2 DEF RowOK, Maybe
    <3>3. QED BY <3>1, <3>2
  <2>3. QED BY <2>1, <2>2 DEF ItemsOK
<1>6. HistoryOK'
  <2>1. history' = [k \in DOMAIN history |-> [history[k] EXCEPT !.tags = @ \ {t}]]
        BY <1>1 DEF RazeAisle
  <2>2. ASSUME NEW k \in DOMAIN history PROVE EntryOK(k, history[k])'
    <3> DEFINE e == [history[k] EXCEPT !.tags = @ \ {t}]
    <3>1. history[k] \in Entries /\ history[k].tags \subseteq Aisles /\ k = Key(history[k].display)
          BY EntryIs
    <3>2. e \in Entries /\ e.tags \subseteq Aisles' /\ e.display = history[k].display
          BY <1>4, <3>1 DEF Entries
    <3>3. history'[k] = e
          BY <2>1
    <3> HIDE DEF e
    <3>4. QED BY <3>1, <3>2, <3>3 DEF EntryOK
  <2>3. DOMAIN history' = DOMAIN history
        BY <2>1
  <2>4. QED BY <2>1, <2>2, <2>3 DEF HistoryOK
<1>7. OrdersOK'
  <2>1. orders' = [p \in People |-> [orders[p] EXCEPT !.tags = WithoutAisle(@, t)]]
        BY <1>1 DEF RazeAisle
  <2>2. ASSUME NEW p \in People PROVE OrderOK(orders[p])'
    <3> DEFINE walk == WithoutAisle(orders[p].tags, t)
    <3>1. orders[p] \in Orders /\ Writable(orders[p].tags)
          BY <1>3 DEF StoreOK, OrdersOK, OrderOK
    <3>2. walk \in Seq(Aisles \ {t}) /\ IsInjective(walk)
          BY <3>1, WithoutAisleIs DEF Writable
    <3> HIDE DEF walk
    <3>3. walk \in Seq(Aisles') /\ walk \in Seq(TagIds)
      <4>1. Aisles \ {t} \subseteq TagIds
            BY DEF Aisles
      <4>2. QED BY <1>4, <3>2, <4>1, SeqMonotonic
    <3>4. orders'[p] = [orders[p] EXCEPT !.tags = walk]
          BY <2>1 DEF walk
    <3>5. orders'[p] \in Orders /\ orders'[p].tags = walk
          BY <3>1, <3>3, <3>4 DEF Orders
    <3>6. QED BY <3>2, <3>3, <3>5 DEF OrderOK, Writable
  <2>3. QED BY <2>1, <2>2 DEF OrdersOK
<1>8. StoreOK'
      BY <1>1, <1>3, <1>4, <1>5, <1>6, <1>7 DEF StoreOK
<1>9. QED BY <1>2, <1>8, OneCaller

----------------------------------------------------------------------------
(* The order of the aisles.                                                *)

LEMMA OwnOrderKeeps ==
    ASSUME ShoppingInv, NEW c \in Callers, OwnOrder(c)
    PROVE  ShoppingInv'
<1> DEFINE w == work[c]
           own == orders[Ask(c).by].tags
           plan == (IF own = <<>> THEN <<"others">> ELSE <<>>) \o Rest(c)
           d == [w EXCEPT !.walk = own, !.plan = plan]
<1>1. At(c, "own") /\ Only(c, d)
      BY DEF OwnOrder
<1>2. /\ WorkOK(w) /\ w.plan # <<>> /\ Head(w.plan) # "filed_before" /\ w \in Works({w.walk})
      /\ w.asked \in Asked /\ w.row \in RowIds /\ w.name \in Names
      /\ Rest(c) \in Seq(Steps) /\ Rest(c) = Tail(w.plan)
      BY <1>1, Going DEF Steps
<1>3. "others" \in Steps /\ "others" # "file_one"
      BY DEF Steps
<1>4. plan \in Seq(Steps)
  <2>1. <<"others">> \o Rest(c) \in Seq(Steps)
    <3>1. <<"others">> \in Seq(Steps)
          BY <1>3
    <3>2. QED BY <1>2, <3>1, ConcatProperties
  <2>2. <<>> \o Rest(c) = Rest(c)
        BY <1>2, ConcatEmptySeq
  <2>3. QED BY <1>2, <2>1, <2>2
<1>5. own # <<>> => plan = Tail(w.plan)
      BY <1>2, ConcatEmptySeq
<1>6. own = <<>> => plan = <<"others">> \o Tail(w.plan)
      BY <1>2
<1> HIDE DEF w, own, plan
<1>7. /\ d \in Works({d.walk}) /\ d.plan = plan
      /\ d.asked = w.asked /\ d.row = w.row /\ d.name = w.name
      BY <1>2, <1>4 DEF Works
<1> HIDE DEF d
<1>8. WorkOK(d)
  <2>1. CASE own = <<>>
        BY <1>2, <1>3, <1>6, <1>7, <2>1, GoesOnBy
  <2>2. CASE own # <<>>
        BY <1>2, <1>5, <1>7, <2>2, GoesOn
  <2>3. QED BY <2>1, <2>2
<1>9. QED BY <1>1, <1>8, OnlyTheRequest

(* Whatever order it has in hand from here on.                             *)
LEMMA Walked ==
    ASSUME ShoppingInv, NEW c \in Callers, NEW s \in Steps, At(c, s), s # "filed_before",
           NEW walk
    PROVE  WorkOK([work[c] EXCEPT !.walk = walk, !.plan = Rest(c)])
<1> DEFINE w == work[c]
           d == [w EXCEPT !.walk = walk, !.plan = Rest(c)]
<1>1. /\ WorkOK(w) /\ w.plan # <<>> /\ Head(w.plan) = s /\ w \in Works({w.walk})
      /\ w.asked \in Asked /\ w.row \in RowIds /\ w.name \in Names
      /\ Rest(c) \in Seq(Steps) /\ Rest(c) = Tail(w.plan)
      BY Going
<1> HIDE DEF w
<1>2. /\ d \in Works({d.walk}) /\ d.plan = Tail(w.plan)
      /\ d.asked = w.asked /\ d.row = w.row /\ d.name = w.name
      BY <1>1 DEF Works
<1> HIDE DEF d
<1>3. WorkOK(d)
      BY <1>1, <1>2, GoesOn
<1>4. QED BY <1>3 DEF d, w

LEMMA InheritKeeps ==
    ASSUME ShoppingInv, NEW c \in Callers, Inherit(c)
    PROVE  ShoppingInv'
<1>1. At(c, "others") /\ Only(c, [work[c] EXCEPT !.walk = Inherited, !.plan = Rest(c)])
      BY DEF Inherit
<1>2. WorkOK([work[c] EXCEPT !.walk = Inherited, !.plan = Rest(c)])
      BY <1>1, Walked DEF Steps
<1>3. QED BY <1>1, <1>2, OnlyTheRequest

LEMMA AllAislesKeeps ==
    ASSUME ShoppingInv, NEW c \in Callers, AllAisles(c)
    PROVE  ShoppingInv'
<1> DEFINE walk == WholeWalk(work[c].walk)
           moved == Swapped(walk, Ask(c).tag, Ask(c).done)
<1>1. /\ At(c, "all")
      /\ Only(c, IF Ask(c).deed # "move" THEN [work[c] EXCEPT !.walk = walk, !.plan = Rest(c)]
                 ELSE IF moved = <<>> THEN Onward(work[c])
                 ELSE [work[c] EXCEPT !.walk = moved, !.plan = Rest(c)])
      BY DEF AllAisles
<1> HIDE DEF walk, moved
<1>2. /\ WorkOK([work[c] EXCEPT !.walk = walk, !.plan = Rest(c)])
      /\ WorkOK([work[c] EXCEPT !.walk = moved, !.plan = Rest(c)])
      /\ WorkOK(Onward(work[c]))
      BY <1>1, Walked, Going DEF Steps
<1>3. \E x : WorkOK(x) /\ Only(c, x)
      BY <1>1, <1>2
<1>4. QED BY <1>3, OnlyTheRequest

LEMMA CheckKeeps ==
    ASSUME ShoppingInv, NEW c \in Callers, Check(c)
    PROVE  ShoppingInv'
<1> DEFINE w == work[c]
           d == [w EXCEPT !.checked = @ + 1]
<1>1. /\ At(c, "check")
      /\ Only(c, IF w.checked = Len(w.walk) THEN [w EXCEPT !.plan = Rest(c)]
                 ELSE IF shelf[w.walk[w.checked + 1]] = None THEN AfterAnError(w) ELSE d)
      BY DEF Check
<1>2. WorkOK([w EXCEPT !.plan = Rest(c)]) /\ WorkOK(AfterAnError(w))
      BY <1>1, Continued, Going DEF Steps
<1>3. WorkOK(d)
  <2>1. /\ WorkOK(w) /\ w.plan # <<>> /\ w \in Works({w.walk})
        /\ w.asked \in Asked /\ w.row \in RowIds /\ w.name \in Names
        BY <1>1, Going DEF Steps
  <2>2. FiledInTurn(w.plan, w.left) /\ w.checked + 1 \in Nat
        BY <2>1, UnderWay
  <2> HIDE DEF w
  <2>3. /\ d \in Works({d.walk}) /\ d.plan = w.plan /\ d.left = w.left
        /\ d.asked = w.asked /\ d.row = w.row /\ d.name = w.name
        BY <2>1, <2>2 DEF Works
  <2> HIDE DEF d
  <2>4. QED BY <2>1, <2>2, <2>3 DEF WorkOK
<1> HIDE DEF w, d
<1>4. \E x : WorkOK(x) /\ Only(c, x)
      BY <1>1, <1>2, <1>3
<1>5. QED BY <1>4, OnlyTheRequest

LEMMA LayKeeps ==
    ASSUME ShoppingInv, NEW c \in Callers, Lay(c)
    PROVE  ShoppingInv'
<1> DEFINE p == Ask(c).by
           walk == work[c].walk
           order == [tags |-> walk, set |-> now]
<1>1. /\ At(c, "lay") /\ Finish(c) /\ UNCHANGED <<items, history, shelf, now>>
      /\ orders' = IF Writable(walk) THEN [orders EXCEPT ![p] = order] ELSE orders
      BY DEF Lay, LayWhole
<1>2. PICK d : WorkOK(d) /\ Becomes(c, d)
      BY <1>1, RequestGoesOn DEF Steps
<1>3. StoreOK
      BY DEF ShoppingInv
<1> HIDE DEF p, walk
<1>4. OrdersOK'
  <2>1. CASE Writable(walk)
    <3>1. walk \in Seq(TagIds)
      <4>1. Aisles \subseteq TagIds /\ walk \in Seq(Aisles)
            BY <2>1 DEF Aisles, Writable
      <4>2. QED BY <4>1, SeqMonotonic
    <3>2. order \in Orders /\ order.tags = walk
          BY <1>3, <3>1 DEF Orders, StoreOK
    <3> HIDE DEF order
    <3>3. Aisles' = Aisles
          BY <1>1, <1>3, Untouched
    <3>4. orders = [q \in People |-> orders[q]] /\ \A q \in People : OrderOK(orders[q])
          BY <1>3 DEF StoreOK, OrdersOK
    <3>5. orders' = [q \in People |-> orders'[q]]
          BY <1>1, <2>1, <3>4
    <3>6. ASSUME NEW q \in People PROVE OrderOK(orders[q])'
      <4>1. orders'[q] = order \/ orders'[q] = orders[q]
            BY <1>1, <2>1, <3>4
      <4>2. QED BY <2>1, <3>2, <3>3, <3>4, <4>1 DEF OrderOK, Writable
    <3>7. QED BY <3>5, <3>6 DEF OrdersOK
  <2>2. CASE ~Writable(walk)
        BY <1>1, <1>3, <2>2, Untouched
  <2>3. QED BY <2>1, <2>2
<1>5. StoreOK'
      BY <1>1, <1>3, <1>4, Untouched DEF StoreOK
<1>6. QED BY <1>2, <1>5, OneCaller

----------------------------------------------------------------------------
(* The page, and requests that begin and break off.                        *)

LEMMA ReadRowsKeeps ==
    ASSUME ShoppingInv, NEW c \in Callers, ReadRows(c)
    PROVE  ShoppingInv'
<1> DEFINE w == work[c]
           wanted == {i \in Listed : ~items[i].done}
           d == [w EXCEPT !.page = wanted, !.plan = Rest(c)]
<1>1. At(c, "rows") /\ Only(c, d)
      BY DEF ReadRows
<1>2. /\ WorkOK(w) /\ w.plan # <<>> /\ Head(w.plan) # "filed_before" /\ w \in Works({w.walk})
      /\ w.asked \in Asked /\ w.row \in RowIds /\ w.name \in Names
      /\ Rest(c) \in Seq(Steps) /\ Rest(c) = Tail(w.plan)
      BY <1>1, Going DEF Steps
<1>3. wanted \in SUBSET RowIds
      BY DEF Listed
<1> HIDE DEF w, wanted
<1>4. /\ d \in Works({d.walk}) /\ d.plan = Tail(w.plan)
      /\ d.asked = w.asked /\ d.row = w.row /\ d.name = w.name
      BY <1>2, <1>3 DEF Works
<1> HIDE DEF d
<1>5. WorkOK(d)
      BY <1>2, <1>4, GoesOn
<1>6. QED BY <1>1, <1>5, OnlyTheRequest

LEMMA ReadFiledKeeps ==
    ASSUME ShoppingInv, NEW c \in Callers, ReadFiled(c)
    PROVE  ShoppingInv'
<1> DEFINE w == work[c]
           filed == [i \in Listed |-> items[i].tags]
           d == [w EXCEPT !.filed = filed, !.plan = Rest(c)]
<1>1. At(c, "filed") /\ Only(c, d)
      BY DEF ReadFiled
<1>2. /\ WorkOK(w) /\ w.plan # <<>> /\ Head(w.plan) # "filed_before" /\ w \in Works({w.walk})
      /\ w.asked \in Asked /\ w.row \in RowIds /\ w.name \in Names
      /\ Rest(c) \in Seq(Steps) /\ Rest(c) = Tail(w.plan)
      BY <1>1, Going DEF Steps
<1>3. filed \in Filings
  <2>1. Listed \in SUBSET RowIds
        BY DEF Listed
  <2>2. filed \in [Listed -> SUBSET TagIds]
        BY RowIs DEF Listed
  <2>3. QED BY <2>1, <2>2 DEF Filings
<1> HIDE DEF w, filed
<1>4. /\ d \in Works({d.walk}) /\ d.plan = Tail(w.plan)
      /\ d.asked = w.asked /\ d.row = w.row /\ d.name = w.name
      BY <1>2, <1>3 DEF Works
<1> HIDE DEF d
<1>5. WorkOK(d)
      BY <1>2, <1>4, GoesOn
<1>6. QED BY <1>1, <1>5, OnlyTheRequest

LEMMA ShowKeeps ==
    ASSUME ShoppingInv, NEW c \in Callers, Show(c)
    PROVE  ShoppingInv'
<1>1. At(c, "show") /\ Only(c, Onward(work[c]))
      BY DEF Show, Finish, Only
<1>2. WorkOK(Onward(work[c]))
      BY <1>1, Going DEF Steps
<1>3. QED BY <1>1, <1>2, OnlyTheRequest

LEMMA StepKeeps ==
    ASSUME ShoppingInv, NEW c \in Callers, Step(c)
    PROVE  ShoppingInv'
BY RecallEntryKeeps, SeekKeeps, InsertKeeps, PutBackKeeps, RecordKeeps, PruneKeeps,
   FiledBeforeKeeps, FileOneKeeps, LookKeeps, RewriteKeeps, CrossOffKeeps, TurnKeeps,
   DropKeeps, SweepKeeps, ClearKeeps, ForgetKeeps, AttachKeeps, DetachKeeps, HeldKeeps,
   RememberKeeps, ShelveKeeps, RazeKeeps, OwnOrderKeeps, InheritKeeps, AllAislesKeeps,
   CheckKeeps, LayKeeps, ReadRowsKeeps, ReadFiledKeeps, ShowKeeps
   DEF Step

LEMMA ArriveKeeps ==
    ASSUME ShoppingInv, NEW c \in Callers, Arrive(c)
    PROVE  ShoppingInv'
<1>1. PICK a \in Requests : Becomes(c, Starts(a))
      BY DEF Arrive
<1>2. Only(c, Starts(a))
      BY <1>1 DEF Arrive, Only
<1>3. a \in Asked
      BY ShoppingAssumption DEF ShoppingAssumption
<1>4. WorkOK(Starts(a))
      BY <1>3, StartsOK
<1>5. QED BY <1>2, <1>4, OnlyTheRequest

LEMMA CutKeeps ==
    ASSUME ShoppingInv, NEW c \in Callers, Cut(c)
    PROVE  ShoppingInv'
BY NothingInHand, OnlyTheRequest DEF Cut

LEMMA ClockKeeps ==
    ASSUME ShoppingInv, UNCHANGED <<tables, work>>, now' \in Moments
    PROVE  ShoppingInv'
<1>1. StoreOK /\ UNCHANGED <<items, history, shelf, orders>>
      BY DEF ShoppingInv, tables
<1>2. StoreOK'
      BY <1>1, Untouched DEF StoreOK
<1>3. QED BY <1>2 DEF ShoppingInv

LEMMA NextKeepsInv == ShoppingInv /\ [Next]_vars => ShoppingInv'
<1> SUFFICES ASSUME ShoppingInv, [Next]_vars PROVE ShoppingInv'
    OBVIOUS
<1>1. now \in Moments /\ MaxTime \in Nat
      BY ShoppingAssumption DEF ShoppingAssumption, ShoppingInv, StoreOK
<1>2. ASSUME NEW c \in Callers, Arrive(c) \/ Step(c) \/ Cut(c) PROVE ShoppingInv'
      BY <1>2, ArriveKeeps, StepKeeps, CutKeeps
<1>3. CASE Tick
  <2>1. now < MaxTime /\ now' = now + 1 /\ UNCHANGED <<tables, work>>
        BY <1>3 DEF Tick
  <2>2. now' \in Moments
        BY <1>1, <2>1 DEF Moments
  <2>3. QED BY <2>1, <2>2, ClockKeeps
<1>4. CASE UNCHANGED vars
  <2>1. UNCHANGED <<tables, work>> /\ now' \in Moments
        BY <1>1, <1>4 DEF vars, tables
  <2>2. QED BY <2>1, ClockKeeps
<1>5. QED BY <1>2, <1>3, <1>4 DEF Next

LEMMA InitHolds == Init => ShoppingInv
<1> SUFFICES ASSUME Init PROVE ShoppingInv
    OBVIOUS
<1>1. PICK db \in Stored :
         items = db.items /\ history = db.history /\ shelf = db.shelf /\ orders = db.orders
      BY DEF Init
<1>2. StoredWell(db)
      BY ShoppingAssumption DEF ShoppingAssumption
<1>3. ShelvedIn(db) = Aisles
      BY <1>1 DEF ShelvedIn, Aisles
<1>4. ItemsOK
  <2>1. items \in [RowIds -> Maybe(Rows)]
        /\ \A i \in RowIds : items[i] # None => items[i].tags \subseteq Aisles
        BY <1>1, <1>2, <1>3 DEF StoredWell
  <2>2. QED BY <2>1 DEF ItemsOK, RowOK
<1>5. HistoryOK
  <2>1. history \in [DOMAIN history -> Entries]
        /\ \A k \in DOMAIN history : k = Key(history[k].display) /\ history[k].tags \subseteq Aisles
        BY <1>1, <1>2, <1>3 DEF StoredWell
  <2>2. QED BY <2>1 DEF HistoryOK, EntryOK
<1>6. OrdersOK
  <2>1. orders \in [People -> Orders]
        /\ \A p \in People : orders[p].tags \in Seq(Aisles) /\ IsInjective(orders[p].tags)
        BY <1>1, <1>2, <1>3 DEF StoredWell
  <2>2. QED BY <2>1 DEF OrdersOK, OrderOK, Writable
<1>7. ShelfOK
      BY <1>1, <1>2 DEF StoredWell, ShelfOK
<1>8. now \in Moments
      BY ShoppingAssumption DEF Init, Moments, ShoppingAssumption
<1>9. work = [c \in Callers |-> work[c]] /\ \A c \in Callers : WorkOK(work[c])
      BY NothingInHand DEF Init
<1>10. QED BY <1>4, <1>5, <1>6, <1>7, <1>8, <1>9 DEF ShoppingInv, StoreOK

LEMMA InvIsTyped == ShoppingInv => ShoppingTypeOK
<1> SUFFICES ASSUME ShoppingInv PROVE ShoppingTypeOK
    OBVIOUS
<1>1. StoreOK
      BY DEF ShoppingInv
<1>2. \A i \in Listed : items[i] \in Rows /\ items[i].tags \subseteq Aisles
      BY RowIs DEF Listed
<1>3. \A k \in DOMAIN history :
         history[k] \in Entries /\ history[k].tags \subseteq Aisles /\ k = Key(history[k].display)
      BY EntryIs
<1>4. shelf \in [TagIds -> Maybe(Nat)] /\ now \in Moments
      BY <1>1 DEF StoreOK, ShelfOK
<1>5. \A p \in People : orders[p] \in Orders /\ Writable(orders[p].tags)
      BY <1>1 DEF StoreOK, OrdersOK, OrderOK
<1>6. ASSUME NEW c \in Callers PROVE ToSet(work[c].plan) \subseteq Steps
  <2>1. work[c].plan \in Seq(Steps)
        BY DEF ShoppingInv, WorkOK, Works
  <2>2. QED BY <2>1 DEF ToSet
<1>7. QED BY <1>2, <1>3, <1>4, <1>5, <1>6 DEF ShoppingTypeOK

(* Whatever is deleted under a request, every row, memory and order stays  *)
(* of its table's type, under its own key, naming only aisles there are    *)
(* and no aisle twice (items.rs, tags.rs, the cascades of init.up.sql).    *)
THEOREM ShoppingIsTyped == Spec => []ShoppingTypeOK
<1>1. QED BY InitHolds, NextKeepsInv, InvIsTyped, PTL DEF Spec

----------------------------------------------------------------------------
(* Orders are set as a whole.                                              *)

SetWhole(p) ==
    \/ \E c \in Callers : /\ work'[c] # work[c] /\ Ask(c).by = p
                         /\ orders'[p].tags = work[c].walk
    \/ \E t \in Aisles \ Aisles' : orders'[p].tags = WithoutAisle(orders[p].tags, t)

LEMMA LaidWhole ==
    ASSUME ShoppingInv, NEW c \in Callers, Lay(c), NEW p \in People, orders'[p] # orders[p]
    PROVE  SetWhole(p)
<1>1. At(c, "lay") /\ Finish(c) /\ LayWhole(Ask(c).by, work[c].walk)
      BY DEF Lay
<1>2. orders = [q \in People |-> orders[q]]
      BY DEF ShoppingInv, StoreOK, OrdersOK
<1>3. Ask(c).by = p /\ orders'[p].tags = work[c].walk
      BY <1>1, <1>2 DEF LayWhole
<1>4. WorkOK(work[c]) /\ work[c].plan # <<>> /\ Head(work[c].plan) = "lay"
      BY <1>1, Going DEF Steps
<1>5. Onward(work[c]) # work[c]
      BY <1>4, OnwardOK DEF Fresh
<1>6. work'[c] = Onward(work[c])
      BY <1>1 DEF ShoppingInv, Finish, Becomes
<1>7. QED BY <1>3, <1>5, <1>6 DEF SetWhole

LEMMA RazedWhole ==
    ASSUME ShoppingInv, NEW c \in Callers, Raze(c), NEW p \in People, orders'[p] # orders[p]
    PROVE  SetWhole(p)
<1> DEFINE t == Ask(c).tag
<1>1. RazeAisle(t)
      BY DEF Raze
<1> HIDE DEF t
<1>2. /\ shelf \in [TagIds -> Maybe(Nat)] /\ shelf' = [shelf EXCEPT ![t] = None]
      /\ orders' = [q \in People |-> [orders[q] EXCEPT !.tags = WithoutAisle(@, t)]]
      BY <1>1 DEF ShoppingInv, StoreOK, ShelfOK, RazeAisle
<1>3. orders[p] \in Orders /\ orders[p].tags \in Seq(Aisles)
      BY DEF ShoppingInv, StoreOK, OrdersOK, OrderOK, Writable
<1>4. orders'[p] = [orders[p] EXCEPT !.tags = WithoutAisle(orders[p].tags, t)]
      BY <1>2
<1>5. t \in Aisles
  <2>1. SUFFICES ASSUME t \notin Aisles PROVE FALSE
        OBVIOUS
  <2>2. t \notin ToSet(orders[p].tags)
        BY <1>3, <2>1 DEF ToSet
  <2>3. WithoutAisle(orders[p].tags, t) = orders[p].tags
        BY <2>2 DEF WithoutAisle
  <2>4. QED BY <1>3, <1>4, <2>3 DEF Orders
<1>6. t \notin Aisles'
      BY <1>2 DEF Aisles
<1>7. orders'[p].tags = WithoutAisle(orders[p].tags, t)
      BY <1>3, <1>4 DEF Orders
<1>8. QED BY <1>5, <1>6, <1>7 DEF SetWhole

LEMMA OrdersUntouched ==
    ASSUME [Next]_vars, \A c \in Callers : ~Lay(c) /\ ~Raze(c)
    PROVE  UNCHANGED orders
<1>1. ASSUME NEW c \in Callers, Step(c) PROVE UNCHANGED orders
      BY <1>1 DEF Step, tables, Only, RecallEntry, Seek, Insert, PutBack, Record, Prune, FiledBefore, FileOne, Look,
            Rewrite, CrossOff, Turn, Drop, Sweep, Clear, Forget, Attach, Detach, Held,
            Remember, Shelve, OwnOrder, Inherit, AllAisles, Check, ReadRows, ReadFiled, Show
<1>2. QED BY <1>1 DEF Next, vars, tables, Only, Arrive, Cut, Tick

(* An order is set as a whole or not at all, by whose it is (Order::set is *)
(* one transaction), and otherwise only loses an aisle that is deleted.    *)
THEOREM OrdersAreWhole == Spec => OrdersAreSetWhole
<1>1. ASSUME ShoppingInv, [Next]_vars, NEW p \in People, orders'[p] # orders[p]
      PROVE  SetWhole(p)
  <2>1. PICK c \in Callers : Lay(c) \/ Raze(c)
        BY <1>1, OrdersUntouched
  <2>2. QED BY <1>1, <2>1, LaidWhole, RazedWhole
<1>2. ShoppingInv /\ [Next]_vars =>
        [\A p \in People : orders'[p] # orders[p] =>
            \/ \E c \in Callers : /\ work'[c] # work[c] /\ Ask(c).by = p
                                 /\ orders'[p].tags = work[c].walk
            \/ \E t \in Aisles \ Aisles' : orders'[p].tags = WithoutAisle(orders[p].tags, t)
        ]_vars
      BY <1>1 DEF SetWhole
<1>3. QED BY <1>2, InitHolds, NextKeepsInv, PTL DEF Spec, OrdersAreSetWhole

=============================================================================
