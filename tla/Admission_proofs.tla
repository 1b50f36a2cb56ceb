-------------------------- MODULE Admission_proofs --------------------------
(***************************************************************************)
(* Proofs about Admission and its history, for any callers, requests,      *)
(* configurations and databases to start from.  What a request and a boot  *)
(* have still to do are sequences of steps: the invariant says which step  *)
(* comes before which in what is left of them (Laid, BootLaid).            *)
(***************************************************************************)
EXTENDS AdmissionHistory, TLAPS

----------------------------------------------------------------------------
(* Sequences of steps.                                                     *)

Has(p, what) == \E i \in 1..Len(p) : p[i] \in what

(* Before each step of `what` there is one of `those`.                     *)
Waits(p, what, those) ==
    \A i \in 1..Len(p) : p[i] \in what => \E j \in 1..(i - 1) : p[j] \in those

(* After a step of `first` there is none of `later`.                       *)
Never(p, first, later) ==
    \A i \in 1..Len(p) : \A j \in 1..Len(p) :
        i < j /\ p[i] \in first => p[j] \notin later

LEMMA Joined ==
    ASSUME NEW S, NEW s \in Seq(S), NEW t \in Seq(S)
    PROVE  /\ s \o t \in Seq(S)
           /\ Len(s \o t) = Len(s) + Len(t)
           /\ \A i \in 1..Len(s) : (s \o t)[i] = s[i]
           /\ \A i \in 1..Len(t) : (s \o t)[Len(s) + i] = t[i]
           /\ \A i \in 1..Len(s \o t) :
                 \/ i \in 1..Len(s) /\ (s \o t)[i] = s[i]
                 \/ i - Len(s) \in 1..Len(t) /\ (s \o t)[i] = t[i - Len(s)]
OBVIOUS

LEMMA HeadAndTail ==
    ASSUME NEW S, NEW s \in Seq(S), s # <<>>
    PROVE  /\ Len(s) > 0 /\ Head(s) = s[1] /\ Head(s) \in S
           /\ Tail(s) \in Seq(S)
           /\ Len(Tail(s)) = Len(s) - 1
           /\ \A i \in 1..Len(Tail(s)) : Tail(s)[i] = s[i + 1] /\ i + 1 \in 1..Len(s)
OBVIOUS

LEMMA HasTail ==
    ASSUME NEW S, NEW p \in Seq(S), p # <<>>, NEW what, ~Has(p, what)
    PROVE  ~Has(Tail(p), what) /\ Head(p) \notin what
BY HeadAndTail DEF Has

LEMMA HasJoined ==
    ASSUME NEW S, NEW s \in Seq(S), NEW t \in Seq(S), NEW what,
           ~Has(s, what), ~Has(t, what)
    PROVE  ~Has(s \o t, what)
BY Joined DEF Has

LEMMA WaitsTail ==
    ASSUME NEW S, NEW p \in Seq(S), p # <<>>, NEW what, NEW those,
           Waits(p, what, those), Head(p) \notin those
    PROVE  Waits(Tail(p), what, those)
<1> SUFFICES ASSUME NEW i \in 1..Len(Tail(p)), Tail(p)[i] \in what
             PROVE  \E j \in 1..(i - 1) : Tail(p)[j] \in those
  BY DEF Waits
<1>1. p[i + 1] \in what /\ i + 1 \in 1..Len(p)
  BY HeadAndTail
<1>2. PICK j \in 1..i : p[j] \in those
  BY <1>1, HeadAndTail DEF Waits
<1>3. j - 1 \in 1..(i - 1) /\ Tail(p)[j - 1] = p[j]
  BY <1>2, HeadAndTail
<1> QED
  BY <1>2, <1>3

LEMMA WaitsJoined ==
    ASSUME NEW S, NEW s \in Seq(S), NEW t \in Seq(S), NEW what, NEW those,
           Waits(s, what, those), Waits(t, what, those) \/ Has(s, those)
    PROVE  Waits(s \o t, what, those)
<1> SUFFICES ASSUME NEW i \in 1..Len(s \o t), (s \o t)[i] \in what
             PROVE  \E j \in 1..(i - 1) : (s \o t)[j] \in those
  BY DEF Waits
<1>1. CASE i \in 1..Len(s)
  BY <1>1, Joined DEF Waits
<1>2. CASE i - Len(s) \in 1..Len(t) /\ Has(s, those)
  BY <1>2, Joined DEF Has
<1>3. CASE i - Len(s) \in 1..Len(t) /\ Waits(t, what, those)
  <2>1. t[i - Len(s)] \in what
    BY <1>3, Joined
  <2>2. PICK j \in 1..(i - Len(s) - 1) : t[j] \in those
    BY <1>3, <2>1 DEF Waits
  <2>3. Len(s) + j \in 1..(i - 1) /\ (s \o t)[Len(s) + j] = t[j]
    BY <1>3, <2>2, Joined, SMTT(60)
  <2> QED
    BY <2>2, <2>3
<1> QED
  BY <1>1, <1>2, <1>3, Joined

LEMMA WaitsStep ==
    ASSUME NEW S, NEW p \in Seq(S), p # <<>>, NEW s \in Seq(S),
           NEW what, NEW those, Waits(p, what, those), Waits(s, what, those),
           Head(p) \in those => Has(s, those)
    PROVE  Waits(s \o Tail(p), what, those)
BY WaitsTail, WaitsJoined, HeadAndTail

LEMMA NeverTail ==
    ASSUME NEW S, NEW p \in Seq(S), p # <<>>, NEW first, NEW later,
           Never(p, first, later)
    PROVE  /\ Never(Tail(p), first, later)
           /\ Head(p) \in first => ~Has(Tail(p), later)
<1>1. ASSUME NEW i \in 1..Len(Tail(p)), NEW j \in 1..Len(Tail(p)),
             i < j, Tail(p)[i] \in first
      PROVE  Tail(p)[j] \notin later
  BY <1>1, HeadAndTail DEF Never
<1>2. ASSUME Head(p) \in first, NEW j \in 1..Len(Tail(p))
      PROVE  Tail(p)[j] \notin later
  <2>1. p[1] \in first /\ j + 1 \in 1..Len(p) /\ Tail(p)[j] = p[j + 1] /\ 1 \in 1..Len(p)
    BY <1>2, HeadAndTail
  <2> QED
    BY <2>1 DEF Never
<1> QED
  BY <1>1, <1>2 DEF Never, Has

LEMMA NeverJoined ==
    ASSUME NEW S, NEW s \in Seq(S), NEW t \in Seq(S), NEW first, NEW later,
           Never(s, first, later), Never(t, first, later),
           ~Has(s, first) \/ ~Has(t, later)
    PROVE  Never(s \o t, first, later)
<1> DEFINE q == s \o t
<1> SUFFICES Never(q, first, later)
  OBVIOUS
<1> HIDE DEF q
<1> SUFFICES ASSUME NEW i \in 1..Len(q), NEW j \in 1..Len(q), i < j, q[i] \in first
             PROVE  q[j] \notin later
  BY DEF Never
<1>0. /\ Len(s) \in Nat /\ Len(t) \in Nat /\ Len(q) \in Nat
      /\ \A k \in 1..Len(q) :
            \/ k \in 1..Len(s) /\ q[k] = s[k]
            \/ k - Len(s) \in 1..Len(t) /\ q[k] = t[k - Len(s)]
  BY Joined DEF q
<1> DEFINE InS(k) == k \in 1..Len(s) /\ q[k] = s[k]
           InT(k) == k - Len(s) \in 1..Len(t) /\ q[k] = t[k - Len(s)]
<1>1. CASE InS(i) /\ InS(j)
  BY <1>1 DEF Never
<1>2. CASE InS(i) /\ InT(j)
  <2>1. Has(s, first)
    BY <1>2 DEF Has
  <2>2. q[j] \in later => Has(t, later)
    BY <1>2 DEF Has
  <2> QED
    BY <2>1, <2>2
<1>3. CASE InT(i) /\ InT(j)
  <2>1. i - Len(s) < j - Len(s)
    BY <1>0
  <2>2. t[i - Len(s)] \in first => t[j - Len(s)] \notin later
    BY <1>3, <2>1 DEF Never
  <2> QED
    BY <1>3, <2>2
<1>4. ~(InT(i) /\ InS(j))
  BY <1>0
<1>5. (InS(i) \/ InT(i)) /\ (InS(j) \/ InT(j))
  BY <1>0
<1> QED
  BY <1>1, <1>2, <1>3, <1>4, <1>5

LEMMA NeverStep ==
    ASSUME NEW S, NEW p \in Seq(S), p # <<>>, NEW s \in Seq(S),
           NEW first, NEW later, Never(p, first, later), Never(s, first, later),
           Head(p) \in first \/ ~Has(s, first)
    PROVE  Never(s \o Tail(p), first, later)
BY NeverTail, NeverJoined, HeadAndTail

(* What a step puts in front of the rest of a plan.                        *)
LEMMA Short ==
    ASSUME NEW S, NEW a \in S, NEW b \in S, NEW d \in S
    PROVE  /\ <<>> \in Seq(S) /\ <<a>> \in Seq(S) /\ <<a, b>> \in Seq(S)
           /\ <<a, b, d>> \in Seq(S)
           /\ Len(<<>>) = 0
           /\ Len(<<a>>) = 1 /\ <<a>>[1] = a
           /\ Len(<<a, b>>) = 2 /\ <<a, b>>[1] = a /\ <<a, b>>[2] = b
           /\ Len(<<a, b, d>>) = 3 /\ <<a, b, d>>[1] = a /\ <<a, b, d>>[2] = b
           /\ <<a, b, d>>[3] = d
OBVIOUS

LEMMA NothingPutInFront ==
    ASSUME NEW S, NEW t \in Seq(S)
    PROVE  <<>> \o t = t
OBVIOUS

----------------------------------------------------------------------------
(* What is left of a request's plan.                                       *)

(* The steps that say who is asking, those a request may take before that, *)
(* those that look for a person, and those only of a newcomer.             *)
Finding == {"identify", "newcomer", "invited", "recognise", "resume", "create"}
Anonymous == Finding \cup {"end", "may_claim"}
Looking == {"identify", "newcomer", "invited", "recognise", "resume",
            "vet", "bound", "stored", "listed"}
Opening == {"identify", "newcomer", "invited", "recognise", "create"}

(* The steps that speak of an address read before.                         *)
Tying == {"listed", "bind"}

(* Whoever wins a claim without an address gets no further than that.      *)
TieMakers(email) == IF email = None THEN {"win"} ELSE {"create"}

(* It is known who asks, whom an address is to be tied to, whose standing  *)
(* is to change and which address is seeded, or a step that finds it out   *)
(* comes first; and nothing is tied by what was known before a look.       *)
Laid(asked, plan, who, subject, tie) ==
    /\ who \in UserIds \/ Waits(plan, Steps \ Anonymous, Finding)
    /\ tie \in Ties \/ Waits(plan, Tying, TieMakers(asked.email))
    /\ tie = None \/ ~Has(plan, Opening)
    /\ asked.email \in Addresses \/ Waits(plan, {"seed"}, {"win"})
    /\ subject \in UserIds \/ Waits(plan, {"set_owner"}, {"may_own"})
    /\ Never(plan, Looking, Tying \cup Opening)
    /\ Never(plan, {"create"}, Opening)

LEMMA NotWaiting ==
    ASSUME NEW S, NEW p \in Seq(S), p # <<>>, NEW what, NEW those, Waits(p, what, those)
    PROVE  Head(p) \notin what
BY HeadAndTail DEF Waits

(* A plan whose head is done and has put the steps s in front of the rest. *)
LEMMA LaidStep ==
    ASSUME NEW asked, NEW p \in Seq(Steps), p # <<>>, NEW s \in Seq(Steps),
           NEW who, NEW subject, NEW tie, NEW who2, NEW subject2, NEW tie2,
           Laid(asked, p, who, subject, tie),
           \/ who2 \in UserIds
           \/ /\ who \notin UserIds /\ Waits(s, Steps \ Anonymous, Finding)
              /\ Head(p) \in Finding => Has(s, Finding),
           \/ tie2 \in Ties
           \/ /\ Waits(s, Tying, TieMakers(asked.email))
              /\ \/ Head(p) \in Looking
                 \/ tie \notin Ties /\ Head(p) \notin TieMakers(asked.email),
           \/ tie2 = None
           \/ Head(p) \in Looking \cup {"create"} /\ ~Has(s, Opening)
           \/ tie = tie2 /\ ~Has(s, Opening),
           \/ asked.email \in Addresses
           \/ Head(p) # "win" /\ ~Has(s, {"seed"}),
           \/ subject2 \in UserIds
           \/ /\ subject \notin UserIds /\ Head(p) # "may_own"
              /\ ~Has(s, {"set_owner"}),
           Never(s, Looking, Tying \cup Opening), Never(s, {"create"}, Opening),
           Head(p) \in Looking \/ ~Has(s, Looking),
           Head(p) = "create" \/ ~Has(s, {"create"}) \/ Head(p) = "recognise"
    PROVE  Laid(asked, s \o Tail(p), who2, subject2, tie2)
<1> DEFINE q == s \o Tail(p)
<1>0. q \in Seq(Steps) /\ Tail(p) \in Seq(Steps)
  BY HeadAndTail, Joined
<1>1. who2 \in UserIds \/ Waits(q, Steps \ Anonymous, Finding)
  <2>1. CASE who2 \notin UserIds
    <3>1. Waits(p, Steps \ Anonymous, Finding)
      BY <2>1 DEF Laid
    <3> QED
      BY <2>1, <3>1, WaitsStep
  <2> QED
    BY <2>1
<1>2. tie2 \in Ties \/ Waits(q, Tying, TieMakers(asked.email))
  <2>1. CASE tie2 \notin Ties /\ Head(p) \in Looking
    <3>1. ~Has(Tail(p), Tying \cup Opening)
      BY <2>1, NeverTail DEF Laid
    <3>2. Waits(Tail(p), Tying, TieMakers(asked.email))
      BY <3>1 DEF Waits, Has
    <3> QED
      BY <2>1, <3>2, <1>0, WaitsJoined
  <2>2. CASE tie2 \notin Ties /\ tie \notin Ties /\ Head(p) \notin TieMakers(asked.email)
    <3>1. Waits(p, Tying, TieMakers(asked.email))
      BY <2>2 DEF Laid
    <3>2. CASE Head(p) \in Looking
      BY <2>1, <2>2, <3>2
    <3>3. CASE Waits(s, Tying, TieMakers(asked.email))
      BY <2>2, <3>1, <3>3, WaitsStep
    <3> QED
      BY <2>2, <3>2, <3>3
  <2> QED
    BY <2>1, <2>2
<1>3. tie2 = None \/ ~Has(q, Opening)
  <2>1. CASE tie2 # None /\ Head(p) \in Looking
    <3>1. ~Has(Tail(p), Tying \cup Opening)
      BY <2>1, NeverTail DEF Laid
    <3>2. ~Has(Tail(p), Opening)
      BY <3>1 DEF Has
    <3> QED
      BY <2>1, <3>2, <1>0, HasJoined
  <2>2. CASE tie2 # None /\ Head(p) = "create"
    <3>1. ~Has(Tail(p), Opening)
      BY <2>2, NeverTail DEF Laid
    <3> QED
      BY <2>2, <3>1, <1>0, HasJoined
  <2>3. CASE tie2 # None /\ tie = tie2 /\ ~Has(s, Opening)
    <3>1. ~Has(p, Opening)
      BY <2>3 DEF Laid
    <3> QED
      BY <2>3, <3>1, <1>0, HasJoined, HasTail
  <2> QED
    BY <2>1, <2>2, <2>3
<1>4. asked.email \in Addresses \/ Waits(q, {"seed"}, {"win"})
  <2>1. CASE asked.email \notin Addresses
    <3>1. Waits(p, {"seed"}, {"win"}) /\ Waits(s, {"seed"}, {"win"})
      BY <2>1 DEF Laid, Waits, Has
    <3> QED
      BY <2>1, <3>1, WaitsStep
  <2> QED
    BY <2>1
<1>5. subject2 \in UserIds \/ Waits(q, {"set_owner"}, {"may_own"})
  <2>1. CASE subject2 \notin UserIds
    <3>1. /\ Waits(p, {"set_owner"}, {"may_own"})
          /\ Waits(s, {"set_owner"}, {"may_own"})
      BY <2>1 DEF Laid, Waits, Has
    <3> QED
      BY <2>1, <3>1, WaitsStep
  <2> QED
    BY <2>1
<1>6. Never(q, Looking, Tying \cup Opening)
  BY NeverStep DEF Laid
<1>7. Never(q, {"create"}, Opening)
  <2>1. CASE Head(p) = "create" \/ ~Has(s, {"create"})
    BY <2>1, NeverStep DEF Laid
  <2>2. CASE Head(p) = "recognise"
    <3>1. ~Has(Tail(p), Tying \cup Opening)
      BY <2>2, NeverTail DEF Laid, Looking
    <3>2. ~Has(Tail(p), Opening) /\ Never(Tail(p), {"create"}, Opening)
      BY <3>1, NeverTail DEF Has, Laid
    <3> QED
      BY <3>2, <1>0, NeverJoined
  <2> QED
    BY <2>1, <2>2
<1> QED
  BY <1>1, <1>2, <1>3, <1>4, <1>5, <1>6, <1>7 DEF Laid

(* What the next step can count on.                                        *)
LEMMA LaidHead ==
    ASSUME NEW asked, NEW p \in Seq(Steps), p # <<>>,
           NEW who, NEW subject, NEW tie, Laid(asked, p, who, subject, tie)
    PROVE  /\ Head(p) \in Steps /\ (Head(p) \notin Anonymous => who \in UserIds)
           /\ Head(p) \in Tying => tie \in Ties
           /\ Head(p) = "seed" => asked.email \in Addresses
           /\ Head(p) = "set_owner" => subject \in UserIds
           /\ Tail(p) \in Seq(Steps)
<1>1. Head(p) \in Steps /\ Tail(p) \in Seq(Steps)
  BY HeadAndTail
<1>2. Head(p) \notin Anonymous => who \in UserIds
  BY <1>1, NotWaiting DEF Laid
<1>3. Head(p) \in Tying => tie \in Ties
  BY NotWaiting DEF Laid
<1>4. Head(p) = "seed" => asked.email \in Addresses
  BY NotWaiting DEF Laid
<1>5. Head(p) = "set_owner" => subject \in UserIds
  BY NotWaiting DEF Laid
<1> QED
  BY <1>1, <1>2, <1>3, <1>4, <1>5

LEMMA NothingWaits ==
    /\ \A what, those : Waits(<<>>, what, those)
    /\ \A what : ~Has(<<>>, what)
    /\ \A first, later : Never(<<>>, first, later)
    /\ <<>> \in Seq(Steps)
BY DEF Waits, Has, Never

(* A step that finds nothing out.                                          *)
LEMMA LaidTail ==
    ASSUME NEW asked, NEW p \in Seq(Steps), p # <<>>,
           NEW who, NEW subject, NEW tie, Laid(asked, p, who, subject, tie),
           Head(p) \notin Finding \cup {"win", "may_own"}
    PROVE  Laid(asked, Tail(p), who, subject, tie)
<1>1. Head(p) \notin TieMakers(asked.email) /\ <<>> \o Tail(p) = Tail(p)
  BY HeadAndTail, NothingPutInFront DEF TieMakers, Finding
<1>2. Head(p) \notin Finding /\ Head(p) # "win" /\ Head(p) # "may_own"
  OBVIOUS
<1> HIDE DEF Looking, Finding, Anonymous, Opening
<1> QED
  BY <1>1, <1>2, NothingWaits, LaidStep

LEMMA NotYetTied ==
    ASSUME NEW asked, NEW p \in Seq(Steps), p # <<>>,
           NEW who, NEW subject, NEW tie, Laid(asked, p, who, subject, tie),
           Head(p) \in Opening
    PROVE  tie = None
<1>1. tie = None \/ ~Has(p, Opening)
  BY DEF Laid
<1>2. Has(p, Opening)
  BY HeadAndTail DEF Has
<1> QED
  BY <1>1, <1>2

(* A look that leads to another one, or to what was looked for.            *)
Aheads == {"newcomer", "invited", "recognise", "bound", "stored", "listed", "bind"}

LEMMA AheadsAre ==
    ASSUME NEW t \in Aheads
    PROVE  /\ <<t>> \in Seq(Steps) /\ Len(<<t>>) = 1 /\ <<t>>[1] = t
           /\ \A what : Has(<<t>>, what) <=> t \in what
           /\ \A what, those : Waits(<<t>>, what, those) <=> t \notin what
           /\ \A first, later : Never(<<t>>, first, later)
           /\ t \notin {"seed", "create", "set_owner"}
<1>1. t \in Steps /\ t \notin {"seed", "create", "set_owner"}
  BY DEF Aheads, Steps
<1> QED
  BY <1>1 DEF Has, Waits, Never

LEMMA LaidAhead ==
    ASSUME NEW asked, NEW p \in Seq(Steps), p # <<>>,
           NEW who, NEW subject, NEW tie, Laid(asked, p, who, subject, tie),
           Head(p) \in Looking, NEW t \in Aheads, NEW tie2,
           who \in UserIds \/ t \in Finding,
           tie2 \in Ties \/ t \notin Tying,
           tie2 = None \/ t \notin Opening
    PROVE  Laid(asked, <<t>> \o Tail(p), who, subject, tie2)
<1> DEFINE s == <<t>>
<1>1. /\ s \in Seq(Steps)
      /\ ~Has(s, {"seed"}) /\ ~Has(s, {"create"}) /\ ~Has(s, {"set_owner"})
      /\ Never(s, Looking, Tying \cup Opening) /\ Never(s, {"create"}, Opening)
  BY AheadsAre
<1>2. /\ t \in Finding => Has(s, Finding) /\ Waits(s, Steps \ Anonymous, Finding)
      /\ t \notin Tying => Waits(s, Tying, TieMakers(asked.email))
      /\ t \notin Opening => ~Has(s, Opening)
  BY AheadsAre DEF Anonymous
<1>3. Head(p) # "win" /\ Head(p) # "may_own"
  BY DEF Looking
<1> HIDE DEF s, Looking, Finding, Anonymous, Opening, Tying
<1>4. Laid(asked, s \o Tail(p), who, subject, tie2)
  BY <1>1, <1>2, <1>3, LaidStep
<1> QED
  BY <1>4 DEF s

(* User::by_identity: somebody known.                                      *)
LEMMA LaidIdentified ==
    ASSUME NEW asked, NEW p \in Seq(Steps), p # <<>>,
           NEW who, NEW subject, NEW tie, Laid(asked, p, who, subject, tie),
           Head(p) = "identify", NEW u \in UserIds,
           NEW s \in {<<"vet", "refresh">>, <<"vet">>}
    PROVE  Laid(asked, s \o Tail(p), u, subject, tie)
<1>1. tie = None /\ Head(p) \in Looking /\ Head(p) \in Finding
  BY NotYetTied DEF Opening, Looking, Finding
<1>2. /\ s \in Seq(Steps)
      /\ ~Has(s, Opening) /\ Waits(s, Tying, TieMakers(asked.email))
      /\ ~Has(s, {"seed"}) /\ ~Has(s, {"create"})
      /\ ~Has(s, {"set_owner"})
      /\ Never(s, Looking, Tying \cup Opening)
      /\ Never(s, {"create"}, Opening)
  <2>1. CASE s = <<"vet">>
    BY <2>1 DEF Has, Waits, Never, Opening, Looking, Tying, Steps
  <2>2. CASE s = <<"vet", "refresh">>
    BY <2>2 DEF Has, Waits, Never, Opening, Looking, Tying, Steps
  <2> QED
    BY <2>1, <2>2
<1>3. subject \in UserIds \/ subject \notin UserIds
  OBVIOUS
<1> QED
  BY <1>1, <1>2, <1>3, LaidStep

(* Somebody new: the person who has the address, or a row of their own.    *)
LEMMA LaidNew ==
    ASSUME NEW asked, NEW p \in Seq(Steps), p # <<>>,
           NEW who, NEW subject, NEW tie, Laid(asked, p, who, subject, tie),
           Head(p) = "recognise"
    PROVE  /\ \A u \in UserIds : \A t \in Ties :
                 Laid(asked, <<"attach", "refresh", "bind">> \o Tail(p), u, subject, t)
           /\ asked.email = None =>
                 Laid(asked, <<"create", "attach">> \o Tail(p), who, subject, tie)
           /\ asked.email # None =>
                 Laid(asked, <<"create", "attach", "bind">> \o Tail(p), who, subject, tie)
<1>1. Head(p) \in Opening /\ Head(p) \in Looking /\ Head(p) \in Finding
  BY DEF Opening, Looking, Finding
<1>2. tie = None /\ Head(p) # "win" /\ Head(p) # "may_own"
  BY <1>1, NotYetTied
<1>3. who \in UserIds \/ who \notin UserIds
  OBVIOUS
<1>4. subject \in UserIds \/ subject \notin UserIds
  OBVIOUS
<1>5. ASSUME NEW u \in UserIds, NEW t \in Ties
      PROVE  Laid(asked, <<"attach", "refresh", "bind">> \o Tail(p), u, subject, t)
  <2> DEFINE s == <<"attach", "refresh", "bind">>
  <2>1. /\ s \in Seq(Steps) /\ ~Has(s, Opening)
        /\ ~Has(s, {"seed"}) /\ ~Has(s, {"create"})
        /\ ~Has(s, {"set_owner"})
        /\ Never(s, Looking, Tying \cup Opening)
        /\ Never(s, {"create"}, Opening)
    BY DEF Has, Waits, Never, Opening, Looking, Tying, Steps
  <2> HIDE DEF s
  <2>2. Laid(asked, s \o Tail(p), u, subject, t)
    BY <1>1, <1>2, <1>4, <2>1, LaidStep
  <2> QED
    BY <2>2 DEF s
<1>6. ASSUME asked.email = None
      PROVE  Laid(asked, <<"create", "attach">> \o Tail(p), who, subject, tie)
  <2> DEFINE s == <<"create", "attach">>
  <2>1. /\ s \in Seq(Steps) /\ Has(s, Finding) /\ Waits(s, Tying, TieMakers(asked.email))
        /\ Waits(s, Steps \ Anonymous, Finding)
        /\ ~Has(s, {"seed"})
        /\ ~Has(s, {"set_owner"})
        /\ Never(s, Looking, Tying \cup Opening)
        /\ Never(s, {"create"}, Opening)
    BY DEF Has, Waits, Never, Opening, Looking, Tying, Steps, Finding, Anonymous
  <2> HIDE DEF s
  <2>2. Laid(asked, s \o Tail(p), who, subject, tie)
    BY <1>1, <1>2, <1>3, <1>4, <2>1, LaidStep
  <2> QED
    BY <2>2 DEF s
<1>7. ASSUME asked.email # None
      PROVE  Laid(asked, <<"create", "attach", "bind">> \o Tail(p), who, subject, tie)
  <2> DEFINE s == <<"create", "attach", "bind">>
  <2>1. /\ s \in Seq(Steps) /\ Has(s, Finding)
        /\ Waits(s, Steps \ Anonymous, Finding)
        /\ ~Has(s, {"seed"})
        /\ ~Has(s, {"set_owner"})
        /\ Never(s, Looking, Tying \cup Opening)
        /\ Never(s, {"create"}, Opening)
    BY DEF Has, Waits, Never, Opening, Looking, Tying, Steps, Finding, Anonymous
  <2>2. Waits(s, Tying, TieMakers(asked.email))
    <3>1. TieMakers(asked.email) = {"create"}
      BY <1>7 DEF TieMakers
    <3> QED
      BY <3>1 DEF Waits, Tying
  <2> HIDE DEF s
  <2>3. Laid(asked, s \o Tail(p), who, subject, tie)
    BY <1>1, <1>2, <1>3, <1>4, <2>1, <2>2, LaidStep
  <2> QED
    BY <2>3 DEF s
<1> QED
  BY <1>5, <1>6, <1>7

(* User::find_or_create: whoever came with an address is tied to it next.  *)
LEMMA LaidCreated ==
    ASSUME NEW asked, NEW p \in Seq(Steps), p # <<>>,
           NEW who, NEW subject, NEW tie, Laid(asked, p, who, subject, tie),
           Head(p) = "create", NEW u \in UserIds, NEW t \in Maybe(Ties),
           asked.email # None => t \in Ties, None \notin Ties
    PROVE  Laid(asked, Tail(p), u, subject, t)
<1>1. tie = None /\ <<>> \o Tail(p) = Tail(p)
  BY NotYetTied, HeadAndTail, NothingPutInFront DEF Opening
<1>2. Head(p) # "win" /\ Head(p) # "may_own"
  OBVIOUS
<1>3. t \in Ties \/ (tie \notin Ties /\ Head(p) \notin TieMakers(asked.email))
  BY <1>1 DEF TieMakers
<1>4. subject \in UserIds \/ subject \notin UserIds
  OBVIOUS
<1>5. Head(p) \in Looking \cup {"create"}
  OBVIOUS
<1> QED
  BY <1>1, <1>2, <1>3, <1>4, <1>5, NothingWaits, LaidStep

(* sessions::resolve.                                                      *)
LEMMA LaidResumed ==
    ASSUME NEW asked, NEW p \in Seq(Steps), p # <<>>,
           NEW who, NEW subject, NEW tie, Laid(asked, p, who, subject, tie),
           Head(p) = "resume", NEW u \in UserIds
    PROVE  Laid(asked, Tail(p), u, subject, tie)
<1>1. <<>> \o Tail(p) = Tail(p) /\ Head(p) \in Looking
  BY HeadAndTail, NothingPutInFront DEF Looking
<1>2. Head(p) # "win" /\ Head(p) # "may_own"
  OBVIOUS
<1>3. subject \in UserIds \/ subject \notin UserIds
  OBVIOUS
<1> QED
  BY <1>1, <1>2, <1>3, NothingWaits, LaidStep

(* The subject of a change of ownership.                                   *)
LEMMA LaidSubject ==
    ASSUME NEW asked, NEW p \in Seq(Steps), p # <<>>,
           NEW who, NEW subject, NEW tie, Laid(asked, p, who, subject, tie),
           Head(p) = "may_own", NEW u \in UserIds
    PROVE  Laid(asked, Tail(p), who, u, tie)
<1>1. <<>> \o Tail(p) = Tail(p)
  BY HeadAndTail, NothingPutInFront
<1>2. Head(p) # "win" /\ Head(p) \notin TieMakers(asked.email) /\ Head(p) \notin Finding
  BY DEF TieMakers, Finding
<1>3. who \in UserIds \/ who \notin UserIds
  OBVIOUS
<1>4. tie \in Ties \/ tie \notin Ties
  OBVIOUS
<1> QED
  BY <1>1, <1>2, <1>3, <1>4, NothingWaits, LaidStep, ZenonT(60)

(* Server::claim_for, won by somebody with an address.                     *)
LEMMA LaidWon ==
    ASSUME NEW asked, NEW p \in Seq(Steps), p # <<>>,
           NEW who, NEW subject, NEW tie, Laid(asked, p, who, subject, tie),
           Head(p) = "win", asked.email \in Addresses, asked.email # None
    PROVE  Laid(asked, Tail(p), who, subject, tie)
<1>1. <<>> \o Tail(p) = Tail(p)
  BY HeadAndTail, NothingPutInFront
<1>2. Head(p) # "may_own" /\ Head(p) \notin TieMakers(asked.email) /\ Head(p) \notin Finding
  BY DEF TieMakers, Finding
<1>3. who \in UserIds \/ who \notin UserIds
  OBVIOUS
<1>4. tie \in Ties \/ tie \notin Ties
  OBVIOUS
<1>5. subject \in UserIds \/ subject \notin UserIds
  OBVIOUS
<1> QED
  BY <1>1, <1>2, <1>3, <1>4, <1>5, NothingWaits, LaidStep, ZenonT(60)

----------------------------------------------------------------------------
(* The plan a request arrives with.                                        *)

Identified == Tying \cup Finding \cup {"seed", "bound", "stored"}

(* A deed's own steps, and what is said of a sequence of them.             *)
DeedLaid(d) ==
    /\ d \in Seq(Steps) /\ d # <<>>
    /\ ~Has(d, Identified)
    /\ Waits(d, {"set_owner"}, {"may_own"})

LEMMA DeedPlans ==
    ASSUME NEW asked
    PROVE  DeedPlan(asked) \in
               {<<"issue">>, <<"use">>, <<"may_admit", "admit">>,
                <<"may_withdraw", "withdraw">>, <<"may_own", "set_owner">>,
                <<"may_own", "vet", "set_owner">>, <<"may_open", "set_open">>,
                <<"may_close", "forget", "delete">>}
<1>1. CASE asked.deed = "sign_in"
  BY <1>1 DEF DeedPlan
<1>2. CASE asked.deed = "admit"
  BY <1>2 DEF DeedPlan
<1>3. CASE asked.deed = "withdraw"
  BY <1>3 DEF DeedPlan
<1>4. CASE asked.deed = "own"
  BY <1>4 DEF DeedPlan
<1>5. CASE asked.deed = "set_open"
  BY <1>5 DEF DeedPlan
<1>6. CASE asked.deed = "close"
  BY <1>6 DEF DeedPlan
<1>7. CASE asked.deed \notin {"sign_in", "admit", "withdraw", "own", "set_open", "close"}
  BY <1>7 DEF DeedPlan
<1> QED
  BY <1>1, <1>2, <1>3, <1>4, <1>5, <1>6, <1>7

LEMMA DeedsAreLaid ==
    ASSUME NEW asked
    PROVE  DeedLaid(DeedPlan(asked))
<1> DEFINE d == DeedPlan(asked)
<1> SUFFICES DeedLaid(d)
  OBVIOUS
<1> HIDE DEF d
<1>1. CASE d = <<"issue">>
  BY <1>1 DEF DeedLaid, Has, Waits, Identified, Tying, Finding, Steps
<1>2. CASE d = <<"use">>
  BY <1>2 DEF DeedLaid, Has, Waits, Identified, Tying, Finding, Steps
<1>3. CASE d = <<"may_admit", "admit">>
  BY <1>3 DEF DeedLaid, Has, Waits, Identified, Tying, Finding, Steps
<1>4. CASE d = <<"may_withdraw", "withdraw">>
  BY <1>4 DEF DeedLaid, Has, Waits, Identified, Tying, Finding, Steps
<1>5. CASE d = <<"may_own", "set_owner">>
  BY <1>5 DEF DeedLaid, Has, Waits, Identified, Tying, Finding, Steps
<1>6. CASE d = <<"may_own", "vet", "set_owner">>
  BY <1>6 DEF DeedLaid, Has, Waits, Identified, Tying, Finding, Steps
<1>7. CASE d = <<"may_open", "set_open">>
  BY <1>7 DEF DeedLaid, Has, Waits, Identified, Tying, Finding, Steps
<1>8. CASE d = <<"may_close", "forget", "delete">>
  BY <1>8 DEF DeedLaid, Has, Waits, Identified, Tying, Finding, Steps
<1> QED
  BY <1>1, <1>2, <1>3, <1>4, <1>5, <1>6, <1>7, <1>8, DeedPlans DEF d

(* Whoever asks is found out before anything else.                         *)
LEMMA FoundOutFirst ==
    ASSUME NEW asked, NEW d, DeedLaid(d), NEW s \in {<<"identify">>, <<"resume", "there", "vet">>}
    PROVE  /\ s \o d \in Seq(Steps) /\ Laid(asked, s \o d, Unbound, Unbound, None)
           /\ Waits(s \o d, {"seed"}, {"win"})
<1>1. /\ s \in Seq(Steps) /\ Has(s, Finding) /\ ~Has(s, Tying) /\ ~Has(s, {"create"})
      /\ Waits(s, Steps \ Anonymous, Finding) /\ ~Has(s, {"seed"})
      /\ ~Has(s, {"set_owner"})
      /\ Never(s, Looking, Tying \cup Opening) /\ Never(s, {"create"}, Opening)
  <2>1. CASE s = <<"identify">>
    BY <2>1 DEF Has, Waits, Never, Finding, Looking, Opening, Tying, Anonymous, Steps
  <2>2. CASE s = <<"resume", "there", "vet">>
    BY <2>2 DEF Has, Waits, Never, Finding, Looking, Opening, Tying, Anonymous, Steps
  <2> QED
    BY <2>1, <2>2
<1>2. /\ d \in Seq(Steps) /\ ~Has(d, Tying) /\ ~Has(d, {"create"}) /\ ~Has(d, {"seed"})
      /\ ~Has(d, Tying \cup Opening) /\ ~Has(d, Opening)
      /\ Waits(d, {"set_owner"}, {"may_own"})
  BY DEF DeedLaid, Has, Identified, Finding, Opening
<1> DEFINE q == s \o d
<1>3. Waits(q, Steps \ Anonymous, Finding)
  BY <1>1, <1>2, WaitsJoined
<1>4. ~Has(q, Tying) /\ ~Has(q, {"seed"})
  BY <1>1, <1>2, HasJoined
<1>5. Waits(q, Tying, TieMakers(asked.email)) /\ Waits(q, {"seed"}, {"win"})
  BY <1>4 DEF Waits, Has
<1>6. Waits(s, {"set_owner"}, {"may_own"})
  BY <1>1 DEF Waits, Has
<1>7. Waits(q, {"set_owner"}, {"may_own"})
  BY <1>1, <1>2, <1>6, WaitsJoined
<1>8. Never(d, Looking, Tying \cup Opening) /\ Never(d, {"create"}, Opening)
  BY <1>2 DEF Never, Has
<1>9. Never(q, Looking, Tying \cup Opening) /\ Never(q, {"create"}, Opening)
  BY <1>1, <1>2, <1>8, NeverJoined
<1> QED
  BY <1>1, <1>2, <1>3, <1>5, <1>7, <1>9, Joined DEF Laid

LEMMA ClaimIsLaid ==
    ASSUME NEW asked
    PROVE  /\ ClaimPlan \in Seq(Steps) /\ Laid(asked, ClaimPlan, Unbound, Unbound, None)
           /\ Waits(ClaimPlan, {"seed"}, {"win"}) /\ ~Has(ClaimPlan, {"listed", "invited"})
<1> DEFINE p == ClaimPlan
<1>1. /\ p \in Seq(Steps) /\ Len(p) = 7
      /\ p[1] = "may_claim" /\ p[2] = "create" /\ p[3] = "attach" /\ p[4] = "win"
      /\ p[5] = "seed" /\ p[6] = "bind" /\ p[7] = "issue"
  BY DEF ClaimPlan, Steps
<1> HIDE DEF p
<1>2. Waits(p, Steps \ Anonymous, Finding)
  BY <1>1 DEF Waits, Anonymous, Finding
<1>3. Waits(p, Tying, TieMakers(asked.email))
  <2>1. TieMakers(asked.email) = {"win"} \/ TieMakers(asked.email) = {"create"}
    BY DEF TieMakers
  <2> QED
    BY <1>1, <2>1 DEF Waits, Tying
<1>4. Waits(p, {"seed"}, {"win"}) /\ Waits(p, {"set_owner"}, {"may_own"})
  BY <1>1 DEF Waits
<1>5. Never(p, Looking, Tying \cup Opening) /\ Never(p, {"create"}, Opening)
  BY <1>1 DEF Never, Looking, Opening, Tying
<1>6. ~Has(p, {"listed", "invited"})
  BY <1>1 DEF Has
<1> QED
  BY <1>1, <1>2, <1>3, <1>4, <1>5, <1>6 DEF Laid, p

LEMMA EndIsLaid ==
    ASSUME NEW asked
    PROVE  /\ <<"end">> \in Seq(Steps) /\ Laid(asked, <<"end">>, Unbound, Unbound, None)
           /\ Waits(<<"end">>, {"seed"}, {"win"})
BY DEF Laid, Waits, Never, Has, Steps, Anonymous, Finding, Looking, Opening, Tying

LEMMA OpeningIsLaid ==
    ASSUME NEW asked
    PROVE  /\ OpeningPlan(asked) \in Seq(Steps)
           /\ Laid(asked, OpeningPlan(asked), Unbound, Unbound, None)
           /\ Waits(OpeningPlan(asked), {"seed"}, {"win"})
<1>1. CASE asked.deed = "claim"
  <2>1. OpeningPlan(asked) = ClaimPlan
    BY <1>1 DEF OpeningPlan
  <2> QED
    BY <2>1, ClaimIsLaid
<1>2. CASE asked.deed = "end"
  <2>1. OpeningPlan(asked) = <<"end">>
    BY <1>2 DEF OpeningPlan
  <2> QED
    BY <2>1, EndIsLaid
<1>3. CASE asked.deed \notin {"claim", "end"} /\ asked.via = "session"
  <2>1. OpeningPlan(asked) = <<"resume", "there", "vet">> \o DeedPlan(asked)
    BY <1>3 DEF OpeningPlan
  <2> QED
    BY <2>1, DeedsAreLaid, FoundOutFirst
<1>4. CASE asked.deed \notin {"claim", "end"} /\ asked.via # "session"
  <2>1. OpeningPlan(asked) = <<"identify">> \o DeedPlan(asked)
    BY <1>4 DEF OpeningPlan
  <2> QED
    BY <2>1, DeedsAreLaid, FoundOutFirst
<1> QED
  BY <1>1, <1>2, <1>3, <1>4

----------------------------------------------------------------------------
(* The invariant.                                                          *)

Workings == [asked: Maybe(Requests), plan: Seq(Steps), who: UserIds \cup {Unbound},
             subject: UserIds \cup {Unbound}, tie: Maybe(Ties)]

RowsOK ==
    /\ users \in [UserIds -> Maybe(Users)]
    /\ identity \in [Identities -> Maybe(UserIds)]
    /\ admitted \in [Addresses -> Maybe(UserIds \cup {Unbound})]
    /\ sessions \in [Tokens -> Maybe(Sessions)]
    /\ issued \in 0..MaxTokens
    /\ open \in BOOLEAN /\ claimed \in BOOLEAN
    /\ now \in 0..MaxTime
    /\ \A i \in Identities : identity[i] # None => Present(identity[i])
    /\ \A a \in Addresses : admitted[a] \in UserIds => Present(admitted[a])
    /\ \A t \in Tokens : sessions[t] # None => Present(sessions[t].user)

PlanOK(w) ==
    w.plan # <<>> =>
        w.asked \in Requests /\ Laid(w.asked, w.plan, w.who, w.subject, w.tie)

WorkOK ==
    /\ work \in [Callers -> Workings]
    /\ \A c \in Callers : PlanOK(work[c])

(* Nothing is served during a boot, and the boot's claim of the server     *)
(* comes with an owner, or after one.                                      *)
BootLaid(steps) ==
    /\ \A i \in 1..Len(steps) : steps[i].do = "offer" => i = Len(steps)
    /\ \A i \in 1..Len(steps) : steps[i].do = "claim" =>
           Owners # {} \/ \E j \in 1..(i - 1) : steps[j].do = "own"

BootOK ==
    /\ boot \in Seq(BootSteps)
    /\ boots \in 0..MaxBoots /\ code \in 0..boots /\ up \in BOOLEAN
    /\ boot # <<>> => ~up
    /\ ~up => \A c \in Callers : ~Busy(c)
    /\ BootLaid(boot)

Inv == RowsOK /\ WorkOK /\ BootOK

LEMMA InvIsTyped == Inv => AdmissionTypeOK
BY DEF Inv, RowsOK, WorkOK, BootOK, AdmissionTypeOK, Workings

(* What a request under way can count on.                                  *)
LEMMA UnderWay ==
    ASSUME Inv, NEW c \in Callers, Busy(c)
    PROVE  /\ work[c] \in Workings /\ work[c].plan \in Seq(Steps) /\ work[c].plan # <<>>
           /\ Rest(c) \in Seq(Steps)
           /\ Ask(c) \in Requests /\ Ask(c) \in Asked
           /\ Laid(Ask(c), work[c].plan, Who(c), work[c].subject, work[c].tie)
           /\ up /\ boot = <<>>
<1>1. /\ work[c] \in Workings /\ PlanOK(work[c]) /\ work[c].plan # <<>>
      /\ up /\ boot = <<>>
  BY DEF Inv, WorkOK, BootOK, Busy
<1>2. work[c].plan \in Seq(Steps)
  BY <1>1 DEF Workings
<1>3. Rest(c) \in Seq(Steps)
  BY <1>1, <1>2, HeadAndTail DEF Rest
<1> QED
  BY <1>1, <1>2, <1>3, AdmissionAssumption DEF PlanOK, Ask, Who, AdmissionAssumption

LEMMA AskedIs ==
    ASSUME NEW a \in Asked
    PROVE  /\ a.identity \in Identities /\ a.email \in Maybe(Addresses)
           /\ a.token \in Tokens /\ a.address \in Addresses /\ a.yes \in BOOLEAN
           /\ a.email = None \/ a.email \in Addresses
BY DEF Asked, Maybe

LEMMA WorkingIs ==
    ASSUME NEW w \in Workings
    PROVE  /\ w.asked \in Maybe(Requests) /\ w.plan \in Seq(Steps)
           /\ w.who \in UserIds \cup {Unbound} /\ w.subject \in UserIds \cup {Unbound}
           /\ w.tie \in Maybe(Ties)
BY DEF Workings

(* A request under way with some of what it knows replaced.                *)
SameBut(w2, w, who, subject, tie, plan) ==
    /\ w2 \in Workings
    /\ w2.asked = w.asked /\ w2.who = who /\ w2.subject = subject
    /\ w2.tie = tie /\ w2.plan = plan

LEMMA Redone ==
    ASSUME NEW w \in Workings, NEW q \in Seq(Steps), NEW u \in UserIds \cup {Unbound},
           NEW t \in Maybe(Ties)
    PROVE  /\ SameBut([w EXCEPT !.plan = q], w, w.who, w.subject, w.tie, q)
           /\ SameBut([w EXCEPT !.who = u, !.plan = q], w, u, w.subject, w.tie, q)
           /\ SameBut([w EXCEPT !.subject = u, !.plan = q], w, w.who, u, w.tie, q)
           /\ SameBut([w EXCEPT !.tie = t, !.plan = q], w, w.who, w.subject, t, q)
           /\ SameBut([w EXCEPT !.who = u, !.tie = t, !.plan = q], w, u, w.subject, t, q)
<1>1. SameBut([w EXCEPT !.plan = q], w, w.who, w.subject, w.tie, q)
  BY DEF SameBut, Workings
<1>2. SameBut([w EXCEPT !.who = u, !.plan = q], w, u, w.subject, w.tie, q)
  BY DEF SameBut, Workings
<1>3. SameBut([w EXCEPT !.subject = u, !.plan = q], w, w.who, u, w.tie, q)
  BY DEF SameBut, Workings
<1>4. SameBut([w EXCEPT !.tie = t, !.plan = q], w, w.who, w.subject, t, q)
  BY DEF SameBut, Workings
<1>5. SameBut([w EXCEPT !.who = u, !.tie = t, !.plan = q], w, u, w.subject, t, q)
  BY DEF SameBut, Workings
<1> QED
  BY <1>1, <1>2, <1>3, <1>4, <1>5

LEMMA Relaid ==
    ASSUME NEW w, NEW w2, NEW who, NEW subject, NEW tie, NEW q,
           SameBut(w2, w, who, subject, tie, q),
           w.asked \in Requests, Laid(w.asked, q, who, subject, tie)
    PROVE  PlanOK(w2)
BY DEF SameBut, PlanOK

LEMMA NothingPlanned == NoPlan \in Workings /\ PlanOK(NoPlan) /\ NoPlan.plan = <<>>
BY DEF NoPlan, Workings, PlanOK, Maybe

LEMMA Turning ==
    ASSUME Inv, NEW c \in Callers, NEW w \in Workings, PlanOK(w), Becomes(c, w)
    PROVE  /\ WorkOK'
           /\ work'[c] = w /\ \A d \in Callers \ {c} : work'[d] = work[d]
<1>1. work' \in [Callers -> Workings]
  BY DEF Inv, WorkOK, Becomes
<1>2. work'[c] = w /\ \A d \in Callers \ {c} : work'[d] = work[d]
  BY DEF Inv, WorkOK, Becomes
<1>3. ASSUME NEW d \in Callers PROVE PlanOK(work'[d])
  BY <1>2 DEF Inv, WorkOK
<1> QED
  BY <1>1, <1>2, <1>3 DEF WorkOK, PlanOK

LEMMA Refusing ==
    ASSUME Inv, NEW c \in Callers, Refuse(c)
    PROVE  WorkOK' /\ work'[c] = NoPlan /\ \A d \in Callers \ {c} : work'[d] = work[d]
BY NothingPlanned, Turning DEF Refuse

LEMMA Continuing ==
    ASSUME Inv, NEW c \in Callers, Busy(c), Continue(c),
           \/ Head(work[c].plan) \notin Finding \cup {"win", "may_own"}
           \/ Head(work[c].plan) = "win" /\ Ask(c).email # None
    PROVE  /\ WorkOK'
           /\ work'[c] = [work[c] EXCEPT !.plan = Rest(c)]
           /\ \A d \in Callers \ {c} : work'[d] = work[d]
<1> DEFINE w == work[c]
<1>1. /\ w \in Workings /\ w.plan \in Seq(Steps) /\ w.plan # <<>> /\ Rest(c) \in Seq(Steps)
      /\ Ask(c) \in Requests /\ Ask(c) \in Asked
      /\ Laid(Ask(c), w.plan, Who(c), w.subject, w.tie)
  BY UnderWay
<1>2. Laid(Ask(c), Tail(w.plan), Who(c), w.subject, w.tie)
  <2>1. CASE Head(w.plan) \notin Finding \cup {"win", "may_own"}
    BY <1>1, <2>1, LaidTail
  <2>2. CASE Head(w.plan) = "win" /\ Ask(c).email # None
    BY <1>1, <2>2, LaidWon, AskedIs
  <2> QED
    BY <2>1, <2>2
<1>3. [w EXCEPT !.plan = Rest(c)] \in Workings /\ PlanOK([w EXCEPT !.plan = Rest(c)])
  <2>1. SameBut([w EXCEPT !.plan = Rest(c)], w, w.who, w.subject, w.tie, Rest(c))
    BY <1>1, Redone, WorkingIs
  <2> QED
    BY <1>1, <1>2, <2>1, Relaid DEF Rest, Ask, Who, SameBut
<1> QED
  BY <1>3, Turning DEF Continue

(* A request goes on with the steps s in front of what is left.            *)
Went(c, s) ==
    /\ work'[c].asked = Ask(c) /\ work'[c].who = Who(c)
    /\ work'[c].subject = work[c].subject /\ work'[c].tie = work[c].tie
    /\ work'[c].plan = s \o Rest(c)

LEMMA PassingKeepsWork ==
    ASSUME Inv, NEW c \in Callers, Busy(c), Continue(c),
           \/ Head(work[c].plan) \notin Finding \cup {"win", "may_own"}
           \/ Head(work[c].plan) = "win" /\ Ask(c).email # None
    PROVE  WorkOK' /\ Went(c, <<>>) /\ \A d \in Callers \ {c} : work'[d] = work[d]
<1>1. /\ WorkOK' /\ work'[c] = [work[c] EXCEPT !.plan = Rest(c)]
      /\ \A d \in Callers \ {c} : work'[d] = work[d]
  BY Continuing
<1>2. work[c] \in Workings /\ Rest(c) \in Seq(Steps) /\ <<>> \o Rest(c) = Rest(c)
  BY UnderWay, NothingPutInFront
<1>3. SameBut(work'[c], work[c], Who(c), work[c].subject, work[c].tie, Rest(c))
  BY <1>1, <1>2, Redone, WorkingIs DEF Who
<1> QED
  BY <1>1, <1>2, <1>3 DEF SameBut, Went, Ask

LEMMA GoingToKeepsWork ==
    ASSUME Inv, NEW c \in Callers, Busy(c), Head(work[c].plan) \in Looking,
           NEW t \in Aheads, GoTo(c, t),
           Who(c) \in UserIds \/ t \in Finding,
           work[c].tie \in Ties \/ t \notin Tying,
           work[c].tie = None \/ t \notin Opening
    PROVE  WorkOK' /\ Went(c, <<t>>) /\ \A d \in Callers \ {c} : work'[d] = work[d]
<1> DEFINE w == work[c]
           q == <<t>> \o Rest(c)
           w2 == [w EXCEPT !.plan = q]
<1>1. /\ w \in Workings /\ w.plan \in Seq(Steps) /\ w.plan # <<>> /\ Rest(c) \in Seq(Steps)
      /\ w.asked \in Requests /\ w.asked = Ask(c) /\ w.who = Who(c)
      /\ Laid(w.asked, w.plan, w.who, w.subject, w.tie)
  BY UnderWay DEF Ask, Who
<1>2. Laid(w.asked, q, w.who, w.subject, w.tie)
  BY <1>1, LaidAhead DEF Rest
<1>3. q \in Seq(Steps)
  BY <1>1, AheadsAre, Joined
<1>4. Becomes(c, w2)
  BY DEF GoTo
<1> HIDE DEF q
<1>5. SameBut(w2, w, w.who, w.subject, w.tie, q)
  BY <1>1, <1>3, Redone, WorkingIs
<1>6. PlanOK(w2) /\ w2 \in Workings
  BY <1>1, <1>2, <1>5, Relaid DEF SameBut
<1> HIDE DEF w2
<1>7. WorkOK' /\ work'[c] = w2 /\ \A d \in Callers \ {c} : work'[d] = work[d]
  BY <1>4, <1>6, Turning
<1> QED
  BY <1>1, <1>5, <1>7 DEF SameBut, Went, q

----------------------------------------------------------------------------
(* Every step leaves the rest of its plan laid.                            *)

LEMMA ArrivalIsLaid ==
    ASSUME Inv, NEW c \in Callers, Arrive(c)
    PROVE  /\ WorkOK'
           /\ \A d \in Callers \ {c} : work'[d] = work[d]
           /\ \E asked \in Requests :
                 /\ work'[c].asked = asked /\ work'[c].plan = OpeningPlan(asked)
                 /\ work'[c].who = Unbound /\ work'[c].subject = Unbound
<1>1. PICK asked \in Requests :
          Becomes(c, [NoPlan EXCEPT !.asked = asked, !.plan = OpeningPlan(asked)])
  BY DEF Arrive
<1> DEFINE q == OpeningPlan(asked)
           w == [NoPlan EXCEPT !.asked = asked, !.plan = q]
<1>2. q \in Seq(Steps) /\ Laid(asked, q, Unbound, Unbound, None)
  BY OpeningIsLaid
<1> HIDE DEF q
<1>3. /\ w \in Workings /\ w.asked = asked /\ w.plan = q /\ w.who = Unbound
      /\ w.subject = Unbound /\ w.tie = None
  BY <1>2 DEF NoPlan, Workings, Maybe
<1>4. Becomes(c, w)
  BY <1>1 DEF q
<1> HIDE DEF w
<1>5. PlanOK(w)
  BY <1>2, <1>3 DEF PlanOK
<1>6. WorkOK' /\ work'[c] = w /\ \A d \in Callers \ {c} : work'[d] = work[d]
  BY <1>3, <1>4, <1>5, Turning
<1> QED
  BY <1>3, <1>6 DEF q

LEMMA IdentifyKeepsWork ==
    ASSUME Inv, NEW c \in Callers, Identify(c)
    PROVE  /\ WorkOK' /\ \A d \in Callers \ {c} : work'[d] = work[d]
           /\ work'[c].asked = Ask(c) /\ work'[c].subject = work[c].subject
           /\ work'[c].plan \in {<<"newcomer">> \o Rest(c), <<"vet", "refresh">> \o Rest(c),
                                 <<"vet">> \o Rest(c)}
<1> DEFINE w == work[c]
           u == identity[Ask(c).identity]
<1>1. /\ w \in Workings /\ w.plan \in Seq(Steps) /\ w.plan # <<>> /\ Rest(c) \in Seq(Steps)
      /\ Ask(c) \in Requests /\ Ask(c) \in Asked /\ Head(w.plan) = "identify"
      /\ Laid(w.asked, w.plan, w.who, w.subject, w.tie)
  BY UnderWay DEF Identify, At, Ask, Who
<1>2. CASE u = None
  <2> DEFINE q == <<"newcomer">> \o Rest(c)
             w2 == [w EXCEPT !.plan = q]
  <2>1. "newcomer" \in Aheads /\ "newcomer" \in Finding /\ "newcomer" \notin Tying
    BY DEF Aheads, Finding, Tying
  <2>2. Head(w.plan) \in Looking /\ w.tie = None
    BY <1>1, NotYetTied DEF Looking, Opening
  <2>3. GoTo(c, "newcomer")
    BY <1>2 DEF Identify, GoTo
  <2> QED
    BY <1>1, <2>1, <2>2, <2>3, GoingToKeepsWork DEF Identify, At, Went
<1>3. CASE u # None
  <2>1. u \in UserIds
    BY <1>1, <1>3, AskedIs DEF Inv, RowsOK, Maybe
  <2>2. PICK more \in {<<"vet", "refresh">>, <<"vet">>} :
            Becomes(c, [w EXCEPT !.who = u, !.plan = more \o Rest(c)])
    BY <1>3 DEF Identify
  <2> DEFINE q == more \o Rest(c)
             w2 == [w EXCEPT !.who = u, !.plan = q]
  <2>3. q \in Seq(Steps) /\ Laid(w.asked, q, u, w.subject, w.tie)
    <3>1. more \in Seq(Steps)
      <4>1. <<"vet">> \in Seq(Steps) /\ <<"vet", "refresh">> \in Seq(Steps)
        BY DEF Steps
      <4> QED
        BY <4>1
    <3> QED
      BY <1>1, <2>1, <3>1, LaidIdentified, Joined DEF Rest
  <2>4. Becomes(c, w2)
    BY <2>2
  <2>5. q \in {<<"vet", "refresh">> \o Rest(c), <<"vet">> \o Rest(c)}
    OBVIOUS
  <2> HIDE DEF q, u
  <2>6. SameBut(w2, w, u, w.subject, w.tie, q)
    BY <1>1, <2>1, <2>3, Redone, WorkingIs
  <2>7. PlanOK(w2) /\ w2 \in Workings
    BY <1>1, <2>3, <2>6, Relaid DEF SameBut, Ask
  <2> HIDE DEF w2
  <2>8. WorkOK' /\ work'[c] = w2 /\ \A d \in Callers \ {c} : work'[d] = work[d]
    BY <2>4, <2>7, Turning
  <2> QED
    BY <2>5, <2>6, <2>8 DEF SameBut, Ask
<1> QED
  BY <1>2, <1>3

(* admits_user, a statement at a time, of who asks and of who is promoted. *)
LEMMA VettedIsSomebody ==
    ASSUME Inv, NEW c \in Callers, Busy(c), Who(c) \in UserIds
    PROVE  Vetted(c) \in UserIds
BY DEF Vetted, Inv, WorkOK, Workings

LEMMA VetKeepsWork ==
    ASSUME Inv, NEW c \in Callers, Vet(c)
    PROVE  /\ WorkOK' /\ \A d \in Callers \ {c} : work'[d] = work[d]
           /\ \/ open /\ Went(c, <<>>)
              \/ Went(c, <<"bound">>)
<1>1. Busy(c) /\ Head(work[c].plan) = "vet" /\ Who(c) \in UserIds
  BY UnderWay, LaidHead DEF Vet, At, Anonymous, Finding
<1>2. CASE open /\ Continue(c)
  BY <1>1, <1>2, PassingKeepsWork DEF Finding
<1>3. CASE GoTo(c, "bound")
  <2>1. "bound" \in Aheads /\ "bound" \notin Tying /\ "bound" \notin Opening
    BY DEF Aheads, Tying, Opening
  <2>2. Head(work[c].plan) \in Looking
    BY <1>1 DEF Looking
  <2> QED
    BY <1>1, <1>3, <2>1, <2>2, GoingToKeepsWork
<1> QED
  BY <1>2, <1>3 DEF Vet

LEMMA LookForBindingKeepsWork ==
    ASSUME Inv, NEW c \in Callers, LookForBinding(c)
    PROVE  /\ WorkOK' /\ \A d \in Callers \ {c} : work'[d] = work[d]
           /\ \/ BoundTo(Vetted(c)) # {} /\ Went(c, <<>>)
              \/ Went(c, <<"stored">>)
<1>1. Busy(c) /\ Head(work[c].plan) = "bound" /\ Who(c) \in UserIds
  BY UnderWay, LaidHead DEF LookForBinding, At, Anonymous, Finding
<1>2. CASE BoundTo(Vetted(c)) # {} /\ Continue(c)
  BY <1>1, <1>2, PassingKeepsWork DEF Finding
<1>3. CASE GoTo(c, "stored")
  <2>1. "stored" \in Aheads /\ "stored" \notin Tying /\ "stored" \notin Opening
    BY DEF Aheads, Tying, Opening
  <2>2. Head(work[c].plan) \in Looking
    BY <1>1 DEF Looking
  <2> QED
    BY <1>1, <1>3, <2>1, <2>2, GoingToKeepsWork
<1> QED
  BY <1>2, <1>3 DEF LookForBinding

LEMMA ReadStoredKeepsWork ==
    ASSUME Inv, NEW c \in Callers, ReadStored(c)
    PROVE  /\ WorkOK' /\ \A d \in Callers \ {c} : work'[d] = work[d]
           /\ \/ work'[c] = NoPlan
              \/ /\ Present(Vetted(c)) /\ users[Vetted(c)].email # None
                 /\ work'[c].tie.address = users[Vetted(c)].email
                 /\ work'[c].asked = Ask(c) /\ work'[c].who = Who(c)
                 /\ work'[c].subject = work[c].subject
                 /\ work'[c].plan = <<"listed">> \o Rest(c)
<1> DEFINE w == work[c]
           u == Vetted(c)
           q == <<"listed">> \o Rest(c)
           tie == [address |-> users[u].email, user |-> u]
           w2 == [w EXCEPT !.tie = tie, !.plan = q]
<1>1. /\ w \in Workings /\ w.plan \in Seq(Steps) /\ w.plan # <<>> /\ Rest(c) \in Seq(Steps)
      /\ w.asked \in Requests /\ w.asked = Ask(c) /\ w.who = Who(c)
      /\ Laid(w.asked, w.plan, w.who, w.subject, w.tie)
      /\ Busy(c) /\ Head(w.plan) = "stored"
  BY UnderWay DEF Ask, Who, ReadStored, At
<1>2. Who(c) \in UserIds /\ u \in UserIds
  BY <1>1, LaidHead, VettedIsSomebody DEF Anonymous, Finding
<1> HIDE DEF u
<1>3. CASE Refuse(c)
  BY <1>3, Refusing
<1>4. CASE Present(u) /\ users[u].email # None /\ Becomes(c, w2)
  <2>1. tie \in Ties /\ tie.address = users[u].email
    <3>1. users[u] \in Users
      BY <1>2, <1>4 DEF Inv, RowsOK, Present, Maybe
    <3>2. users[u].email \in Addresses
      BY <1>4, <3>1 DEF Users, Maybe
    <3> QED
      BY <1>2, <3>2 DEF Ties
  <2> HIDE DEF tie
  <2>2. /\ "listed" \in Aheads /\ "listed" \notin Opening
        /\ Head(w.plan) \in Looking
    BY <1>1 DEF Aheads, Opening, Looking
  <2>3. Laid(w.asked, q, w.who, w.subject, tie)
    BY <1>1, <1>2, <2>1, <2>2, LaidAhead DEF Rest
  <2>4. q \in Seq(Steps)
    BY <1>1, <2>2, AheadsAre, Joined
  <2> HIDE DEF q
  <2>5. SameBut(w2, w, w.who, w.subject, tie, q)
    BY <1>1, <2>1, <2>4, Redone, WorkingIs DEF Maybe
  <2>6. PlanOK(w2) /\ w2 \in Workings
    BY <1>1, <2>3, <2>5, Relaid DEF SameBut
  <2>7. Becomes(c, w2)
    BY <1>4
  <2> HIDE DEF w2
  <2>8. WorkOK' /\ work'[c] = w2 /\ \A d \in Callers \ {c} : work'[d] = work[d]
    BY <2>6, <2>7, Turning
  <2> QED
    BY <1>1, <1>4, <2>1, <2>5, <2>8 DEF SameBut, q, u
<1> QED
  BY <1>3, <1>4 DEF ReadStored, u

LEMMA LookForListingKeepsWork ==
    ASSUME Inv, NEW c \in Callers, LookForListing(c)
    PROVE  /\ WorkOK' /\ \A d \in Callers \ {c} : work'[d] = work[d]
           /\ \/ work'[c] = NoPlan
              \/ admitted[work[c].tie.address] # None /\ Went(c, <<"bind">>)
<1>1. Busy(c) /\ Head(work[c].plan) = "listed" /\ Who(c) \in UserIds /\ work[c].tie \in Ties
  BY UnderWay, LaidHead DEF LookForListing, At, Anonymous, Finding, Tying
<1>2. CASE Refuse(c)
  BY <1>2, Refusing
<1>3. CASE admitted[work[c].tie.address] # None /\ GoTo(c, "bind")
  <2>1. "bind" \in Aheads /\ "bind" \notin Opening
    BY DEF Aheads, Opening
  <2>2. Head(work[c].plan) \in Looking
    BY <1>1 DEF Looking
  <2> QED
    BY <1>1, <1>3, <2>1, <2>2, GoingToKeepsWork
<1> QED
  BY <1>2, <1>3 DEF LookForListing

LEMMA NewcomerKeepsWork ==
    ASSUME Inv, NEW c \in Callers, Newcomer(c)
    PROVE  /\ WorkOK' /\ \A d \in Callers \ {c} : work'[d] = work[d]
           /\ \/ work'[c] = NoPlan
              \/ open /\ Went(c, <<"recognise">>)
              \/ Ask(c).email # None /\ Went(c, <<"invited">>)
<1>1. Busy(c) /\ Head(work[c].plan) = "newcomer" /\ work[c].tie = None
  BY UnderWay, NotYetTied DEF Newcomer, At, Opening
<1>2. /\ {"recognise", "invited"} \subseteq Aheads
      /\ {"recognise", "invited"} \subseteq Finding
      /\ "recognise" \notin Tying /\ "invited" \notin Tying
      /\ Head(work[c].plan) \in Looking
  BY <1>1 DEF Aheads, Finding, Tying, Looking
<1>3. CASE Refuse(c)
  BY <1>3, Refusing
<1>4. CASE open /\ GoTo(c, "recognise")
  BY <1>1, <1>2, <1>4, GoingToKeepsWork
<1>5. CASE Ask(c).email # None /\ GoTo(c, "invited")
  BY <1>1, <1>2, <1>5, GoingToKeepsWork
<1> QED
  BY <1>3, <1>4, <1>5 DEF Newcomer

LEMMA LookForInvitationKeepsWork ==
    ASSUME Inv, NEW c \in Callers, LookForInvitation(c)
    PROVE  /\ WorkOK' /\ \A d \in Callers \ {c} : work'[d] = work[d]
           /\ \/ work'[c] = NoPlan
              \/ admitted[Ask(c).email] # None /\ Went(c, <<"recognise">>)
<1>1. Busy(c) /\ Head(work[c].plan) = "invited" /\ work[c].tie = None
  BY UnderWay, NotYetTied DEF LookForInvitation, At, Opening
<1>2. /\ "recognise" \in Aheads /\ "recognise" \in Finding /\ "recognise" \notin Tying
      /\ Head(work[c].plan) \in Looking
  BY <1>1 DEF Aheads, Finding, Tying, Looking
<1>3. CASE Refuse(c)
  BY <1>3, Refusing
<1>4. CASE admitted[Ask(c).email] # None /\ GoTo(c, "recognise")
  BY <1>1, <1>2, <1>4, GoingToKeepsWork
<1> QED
  BY <1>3, <1>4 DEF LookForInvitation

LEMMA RecogniseKeepsWork ==
    ASSUME Inv, NEW c \in Callers, Recognise(c)
    PROVE  /\ WorkOK' /\ \A d \in Callers \ {c} : work'[d] = work[d]
           /\ work'[c].asked = Ask(c) /\ work'[c].subject = work[c].subject
           /\ work'[c].plan \in
                {<<"attach", "refresh", "bind">> \o Rest(c),
                 <<"create", "attach">> \o Rest(c),
                 <<"create", "attach", "bind">> \o Rest(c)}
<1> DEFINE w == work[c]
           email == Ask(c).email
<1>1. /\ w \in Workings /\ w.plan \in Seq(Steps) /\ w.plan # <<>> /\ Rest(c) \in Seq(Steps)
      /\ w.asked \in Requests /\ w.asked \in Asked /\ w.asked = Ask(c)
      /\ Laid(w.asked, w.plan, w.who, w.subject, w.tie)
      /\ Head(w.plan) = "recognise"
  BY UnderWay DEF Ask, Who, Recognise, At
<1>0. /\ <<"attach", "refresh", "bind">> \in Seq(Steps)
      /\ <<"create", "attach">> \in Seq(Steps)
      /\ <<"create", "attach", "bind">> \in Seq(Steps)
  BY DEF Steps
<1>3. CASE \E u \in WithEmail(email) :
            /\ email # None
            /\ Becomes(c, [w EXCEPT !.who = u, !.tie = [address |-> email, user |-> u],
                                    !.plan = <<"attach", "refresh", "bind">> \o Rest(c)])
  <2> DEFINE q == <<"attach", "refresh", "bind">> \o Rest(c)
  <2>1. PICK u \in WithEmail(email) :
            Becomes(c, [w EXCEPT !.who = u, !.tie = [address |-> email, user |-> u],
                                 !.plan = q])
    BY <1>3
  <2>2. u \in UserIds /\ Present(u)
    BY DEF WithEmail
  <2> DEFINE tie == [address |-> email, user |-> u]
             w2 == [w EXCEPT !.who = u, !.tie = tie, !.plan = q]
  <2>3. tie \in Ties
    BY <1>1, <1>3, <2>2, AskedIs DEF Ties
  <2>4. Becomes(c, w2)
    BY <2>1
  <2> HIDE DEF tie
  <2>5. q \in Seq(Steps) /\ Laid(w.asked, q, u, w.subject, tie)
    BY <1>0, <1>1, <2>2, <2>3, LaidNew, Joined DEF Rest
  <2> HIDE DEF q
  <2>6. SameBut(w2, w, u, w.subject, tie, q)
    BY <1>1, <2>2, <2>3, <2>5, Redone, WorkingIs DEF Maybe
  <2>7. PlanOK(w2) /\ w2 \in Workings
    BY <1>1, <2>5, <2>6, Relaid DEF SameBut
  <2> HIDE DEF w2
  <2>8. WorkOK' /\ work'[c] = w2 /\ \A d \in Callers \ {c} : work'[d] = work[d]
    BY <2>4, <2>7, Turning
  <2> QED
    BY <1>1, <1>3, <2>2, <2>6, <2>8 DEF SameBut, q
<1>4. CASE Becomes(c, [w EXCEPT !.plan =
                 (IF email = None THEN <<"create", "attach">>
                  ELSE <<"create", "attach", "bind">>) \o Rest(c)])
  <2> DEFINE q == (IF email = None THEN <<"create", "attach">>
                   ELSE <<"create", "attach", "bind">>) \o Rest(c)
             w2 == [w EXCEPT !.plan = q]
  <2>1. Becomes(c, w2)
    BY <1>4
  <2>2. q = IF email = None THEN <<"create", "attach">> \o Rest(c)
            ELSE <<"create", "attach", "bind">> \o Rest(c)
    OBVIOUS
  <2> HIDE DEF q
  <2>3. q \in Seq(Steps) /\ Laid(w.asked, q, w.who, w.subject, w.tie)
    BY <1>0, <1>1, <2>2, LaidNew, Joined DEF Rest
  <2>4. SameBut(w2, w, w.who, w.subject, w.tie, q)
    BY <1>1, <2>3, Redone, WorkingIs
  <2>5. PlanOK(w2) /\ w2 \in Workings
    BY <1>1, <2>3, <2>4, Relaid DEF SameBut
  <2> HIDE DEF w2
  <2>6. WorkOK' /\ work'[c] = w2 /\ \A d \in Callers \ {c} : work'[d] = work[d]
    BY <2>1, <2>5, Turning
  <2>7. work'[c].plan = q /\ work'[c].asked = Ask(c) /\ work'[c].subject = w.subject
    BY <1>1, <2>4, <2>6 DEF SameBut
  <2> QED
    BY <2>2, <2>6, <2>7
<1> QED
  BY <1>3, <1>4 DEF Recognise

LEMMA CreateKeepsWork ==
    ASSUME Inv, NEW c \in Callers, Create(c)
    PROVE  /\ WorkOK' /\ \A d \in Callers \ {c} : work'[d] = work[d]
           /\ work'[c].asked = Ask(c) /\ work'[c].plan = Rest(c)
           /\ work'[c].who \in UserIds /\ work'[c].subject = work[c].subject
<1> DEFINE w == work[c]
           email == Ask(c).email
           t(u) == IF email = None THEN None ELSE [address |-> email, user |-> u]
<1>1. /\ w \in Workings /\ w.plan \in Seq(Steps) /\ w.plan # <<>> /\ Rest(c) \in Seq(Steps)
      /\ w.asked \in Requests /\ w.asked \in Asked /\ w.asked = Ask(c)
      /\ Laid(w.asked, w.plan, w.who, w.subject, w.tie)
      /\ Head(w.plan) = "create"
  BY UnderWay DEF Ask, Who, Create, At
<1>2. PICK u \in UserIds : Becomes(c, [w EXCEPT !.who = u, !.tie = t(u), !.plan = Rest(c)])
  BY DEF Create
<1> DEFINE tie == t(u)
           w2 == [w EXCEPT !.who = u, !.tie = tie, !.plan = Rest(c)]
<1>3. tie \in Maybe(Ties) /\ (email # None => tie \in Ties)
  <2>1. CASE email = None
    BY <2>1 DEF Maybe
  <2>2. CASE email # None
    BY <1>1, <2>2, AskedIs DEF Ties, Maybe
  <2> QED
    BY <2>1, <2>2
<1>4. Becomes(c, w2)
  BY <1>2
<1> HIDE DEF tie
<1>5. None \notin Ties
  BY AdmissionAssumption DEF AdmissionAssumption
<1>6. Laid(w.asked, Rest(c), u, w.subject, tie)
  BY <1>1, <1>3, <1>5, LaidCreated DEF Rest
<1>7. SameBut(w2, w, u, w.subject, tie, Rest(c))
  BY <1>1, <1>3, Redone, WorkingIs
<1>8. PlanOK(w2) /\ w2 \in Workings
  BY <1>1, <1>6, <1>7, Relaid DEF SameBut
<1> HIDE DEF w2
<1>9. WorkOK' /\ work'[c] = w2 /\ \A d \in Callers \ {c} : work'[d] = work[d]
  BY <1>4, <1>8, Turning
<1> QED
  BY <1>1, <1>7, <1>9 DEF SameBut

LEMMA ResumeKeepsWork ==
    ASSUME Inv, NEW c \in Callers, Resume(c)
    PROVE  /\ WorkOK' /\ \A d \in Callers \ {c} : work'[d] = work[d]
           /\ \/ work'[c] = NoPlan
              \/ /\ work'[c].asked = Ask(c) /\ work'[c].plan = Rest(c)
                 /\ work'[c].who = sessions[Ask(c).token].user
                 /\ sessions[Ask(c).token] # None /\ work'[c].who \in UserIds
                 /\ work'[c].subject = work[c].subject
<1> DEFINE w == work[c]
           s == Ask(c).token
           u == sessions[s].user
           w2 == [w EXCEPT !.who = u, !.plan = Rest(c)]
<1>1. /\ w \in Workings /\ w.plan \in Seq(Steps) /\ w.plan # <<>> /\ Rest(c) \in Seq(Steps)
      /\ w.asked \in Requests /\ w.asked \in Asked /\ w.asked = Ask(c)
      /\ Laid(w.asked, w.plan, w.who, w.subject, w.tie)
      /\ Head(w.plan) = "resume"
  BY UnderWay DEF Ask, Who, Resume, At
<1>2. CASE ~Live(s)
  BY <1>2, Refusing DEF Resume
<1>3. CASE Live(s)
  <2>1. s \in Tokens /\ sessions[s] # None /\ u \in UserIds
    <3>1. s \in Tokens /\ sessions[s] # None
      BY <1>1, <1>3, AskedIs DEF Live
    <3>2. sessions[s] \in Sessions
      BY <3>1 DEF Inv, RowsOK, Maybe
    <3> QED
      BY <3>1, <3>2 DEF Sessions
  <2>2. Becomes(c, w2)
    BY <1>3 DEF Resume
  <2> HIDE DEF u
  <2>3. Laid(w.asked, Rest(c), u, w.subject, w.tie)
    BY <1>1, <2>1, LaidResumed DEF Rest
  <2>4. SameBut(w2, w, u, w.subject, w.tie, Rest(c))
    BY <1>1, <2>1, Redone, WorkingIs
  <2>5. PlanOK(w2) /\ w2 \in Workings
    BY <1>1, <2>3, <2>4, Relaid DEF SameBut
  <2> HIDE DEF w2
  <2>6. WorkOK' /\ work'[c] = w2 /\ \A d \in Callers \ {c} : work'[d] = work[d]
    BY <2>2, <2>5, Turning
  <2> QED
    BY <1>1, <2>1, <2>4, <2>6 DEF SameBut, u
<1> QED
  BY <1>2, <1>3

LEMMA MayOwnKeepsWork ==
    ASSUME Inv, NEW c \in Callers, MayOwn(c)
    PROVE  /\ WorkOK' /\ \A d \in Callers \ {c} : work'[d] = work[d]
           /\ \/ work'[c] = NoPlan
              \/ /\ work'[c].asked = Ask(c) /\ work'[c].plan = Rest(c)
                 /\ work'[c].who = Who(c)
<1> DEFINE w == work[c]
           u == admitted[Ask(c).address]
           w2 == [w EXCEPT !.subject = u, !.plan = Rest(c)]
<1>1. /\ w \in Workings /\ w.plan \in Seq(Steps) /\ w.plan # <<>> /\ Rest(c) \in Seq(Steps)
      /\ w.asked \in Requests /\ w.asked = Ask(c) /\ w.who = Who(c)
      /\ Laid(w.asked, w.plan, w.who, w.subject, w.tie)
      /\ Head(w.plan) = "may_own"
  BY UnderWay DEF Ask, Who, MayOwn, At
<1>2. CASE Refuse(c)
  BY <1>2, Refusing
<1>3. CASE u \in UserIds /\ Becomes(c, w2)
  <2> HIDE DEF u
  <2>1. Laid(w.asked, Rest(c), w.who, u, w.tie)
    BY <1>1, <1>3, LaidSubject DEF Rest
  <2>2. SameBut(w2, w, w.who, u, w.tie, Rest(c))
    BY <1>1, <1>3, Redone, WorkingIs
  <2>3. PlanOK(w2) /\ w2 \in Workings
    BY <1>1, <2>1, <2>2, Relaid DEF SameBut
  <2> HIDE DEF w2
  <2>4. WorkOK' /\ work'[c] = w2 /\ \A d \in Callers \ {c} : work'[d] = work[d]
    BY <1>3, <2>3, Turning
  <2> QED
    BY <1>1, <2>2, <2>4 DEF SameBut
<1> QED
  BY <1>2, <1>3 DEF MayOwn

(* The steps that end a request, and those that end it or go on.           *)
Ends(c) ==
    \/ Use(c) \/ Issue(c) \/ End(c) \/ Admit(c) \/ Withdraw(c) \/ SetOwner(c)
    \/ SetOpen(c) \/ Delete(c) \/ Cut(c)

GoesOn(c) ==
    \/ Attach(c) \/ Refresh(c) \/ Bind(c) \/ MayAdmit(c) \/ MayWithdraw(c) \/ MayOpen(c)
    \/ MayClose(c) \/ Forget(c) \/ MayClaim(c) \/ Win(c) \/ Seed(c) \/ StillThere(c)

LEMMA EndingKeepsWork ==
    ASSUME Inv, NEW c \in Callers, Ends(c)
    PROVE  /\ WorkOK' /\ \A d \in Callers \ {c} : work'[d] = work[d]
           /\ work'[c] = NoPlan
<1>1. Refuse(c)
  BY DEF Ends, Use, Issue, End, Admit, Withdraw, SetOwner, SetOpen, Delete, Cut
<1> QED
  BY <1>1, Refusing

LEMMA GoingOnKeepsWork ==
    ASSUME Inv, NEW c \in Callers, GoesOn(c)
    PROVE  /\ WorkOK' /\ \A d \in Callers \ {c} : work'[d] = work[d]
           /\ \/ work'[c] = NoPlan
              \/ Went(c, <<>>)
<1>1. /\ Busy(c) /\ (Refuse(c) \/ Continue(c))
      /\ Head(work[c].plan) \in {"attach", "refresh", "bind", "may_admit", "may_withdraw",
             "may_open", "may_close", "forget", "may_claim", "win", "seed", "there"}
      /\ Head(work[c].plan) = "win" => Refuse(c) \/ Ask(c).email # None
  <2>1. CASE Attach(c) \/ Refresh(c) \/ Bind(c) \/ Forget(c) \/ Seed(c)
    BY <2>1 DEF Attach, Refresh, Bind, Forget, Seed, At
  <2>2. CASE MayAdmit(c) \/ MayWithdraw(c) \/ MayOpen(c) \/ MayClose(c) \/ MayClaim(c)
             \/ StillThere(c)
    BY <2>2 DEF MayAdmit, MayWithdraw, MayOpen, MayClose, MayClaim, StillThere, May, At
  <2>3. CASE Win(c)
    BY <2>3 DEF Win, At
  <2> QED
    BY <2>1, <2>2, <2>3 DEF GoesOn
<1>2. CASE Refuse(c)
  BY <1>2, Refusing
<1>3. CASE Continue(c) /\ ~Refuse(c)
  <2>1. \/ Head(work[c].plan) \notin Finding \cup {"win", "may_own"}
        \/ Head(work[c].plan) = "win" /\ Ask(c).email # None
    BY <1>1, <1>3 DEF Finding
  <2> QED
    BY <1>1, <1>3, <2>1, PassingKeepsWork
<1> QED
  BY <1>1, <1>2, <1>3

LEMMA StepKinds ==
    ASSUME NEW c, Step(c) \/ Cut(c)
    PROVE  \/ Identify(c) \/ Vet(c) \/ LookForBinding(c) \/ ReadStored(c)
           \/ LookForListing(c) \/ Newcomer(c) \/ LookForInvitation(c) \/ Recognise(c)
           \/ Create(c) \/ Resume(c) \/ MayOwn(c) \/ Ends(c) \/ GoesOn(c)
BY DEF Step, Ends, GoesOn

LEMMA StepKeepsWork ==
    ASSUME Inv, NEW c \in Callers, Step(c) \/ Cut(c)
    PROVE  WorkOK' /\ Busy(c) /\ \A d \in Callers \ {c} : work'[d] = work[d]
<1>1. WorkOK' /\ \A d \in Callers \ {c} : work'[d] = work[d]
  BY StepKinds, IdentifyKeepsWork, VetKeepsWork, LookForBindingKeepsWork,
     ReadStoredKeepsWork, LookForListingKeepsWork, NewcomerKeepsWork,
     LookForInvitationKeepsWork, RecogniseKeepsWork, CreateKeepsWork, ResumeKeepsWork,
     MayOwnKeepsWork, EndingKeepsWork, GoingOnKeepsWork
<1>2. Busy(c)
  BY DEF Step, Cut, Identify, Vet, LookForBinding, ReadStored, LookForListing, Newcomer,
         LookForInvitation, Recognise, Create, Attach, Refresh, Bind, Resume, StillThere, Use,
         Issue, End, MayAdmit, Admit, MayWithdraw, Withdraw, MayOwn, SetOwner,
         MayOpen, SetOpen, MayClose, Forget, Delete, MayClaim, Win, Seed, May, At
<1> QED
  BY <1>1, <1>2

----------------------------------------------------------------------------
(* The tables: an id in one of them names a row of another.                *)

LEMMA RowsStay ==
    ASSUME Inv, UNCHANGED <<users, identity, admitted, sessions, issued>>,
           open' \in BOOLEAN, claimed' \in BOOLEAN, now' \in 0..MaxTime
    PROVE  RowsOK'
BY DEF Inv, RowsOK, Present

LEMMA RowsByUsers ==
    ASSUME Inv, users' \in [UserIds -> Maybe(Users)],
           \A u \in UserIds : users[u] # None => users'[u] # None,
           UNCHANGED <<identity, admitted, sessions, issued, open, now>>,
           claimed' \in BOOLEAN
    PROVE  RowsOK'
<1>1. \A i \in Identities : identity'[i] # None => users'[identity'[i]] # None
  BY DEF Inv, RowsOK, Present, Maybe
<1>2. \A a \in Addresses : admitted'[a] \in UserIds => users'[admitted'[a]] # None
  BY DEF Inv, RowsOK, Present
<1>3. ASSUME NEW t \in Tokens, sessions'[t] # None PROVE users'[sessions'[t].user] # None
  <2>1. sessions[t] \in Sessions /\ Present(sessions[t].user)
    BY <1>3 DEF Inv, RowsOK, Maybe
  <2>2. sessions[t].user \in UserIds
    BY <2>1 DEF Sessions
  <2> QED
    BY <2>1, <2>2 DEF Present
<1> QED
  BY <1>1, <1>2, <1>3 DEF Inv, RowsOK, Present

LEMMA RowsByAdmitted ==
    ASSUME Inv, admitted' \in [Addresses -> Maybe(UserIds \cup {Unbound})],
           \A a \in Addresses : admitted'[a] \in UserIds => Present(admitted'[a]),
           UNCHANGED <<users, identity, sessions, issued, open, claimed, now>>
    PROVE  RowsOK'
BY DEF Inv, RowsOK, Present

LEMMA RowsBySessions ==
    ASSUME Inv, sessions' \in [Tokens -> Maybe(Sessions)],
           \A t \in Tokens : sessions'[t] # None => Present(sessions'[t].user),
           issued' \in 0..MaxTokens,
           UNCHANGED <<users, identity, admitted, open, claimed, now>>
    PROVE  RowsOK'
BY DEF Inv, RowsOK, Present

LEMMA NoneIsNobody ==
    /\ None \notin UserIds /\ None # Unbound /\ Unbound \notin UserIds
    /\ None \notin Users /\ None \notin Sessions /\ None \notin Addresses
    /\ None \notin Identities /\ UserIds \subseteq Nat
BY AdmissionAssumption DEF AdmissionAssumption, UserIds, Unbound

(* Admitted::bind and Admitted::seed.                                      *)
LEMMA BoundIsTyped ==
    ASSUME Inv, NEW tie \in Ties, CanBind(tie)
    PROVE  /\ Bound(tie) \in [Addresses -> Maybe(UserIds \cup {Unbound})]
           /\ \A a \in Addresses : Bound(tie)[a] \in UserIds => Present(Bound(tie)[a])
           /\ \A a \in Addresses : admitted[a] # Unbound => Bound(tie)[a] = admitted[a]
           /\ \A a \in Addresses : admitted[a] = Unbound =>
                 Bound(tie)[a] \in UserIds \cup {Unbound}
<1>1. tie.address \in Addresses /\ tie.user \in UserIds
  BY DEF Ties
<1>2. CASE admitted[tie.address] # Unbound
  BY <1>2 DEF Inv, RowsOK, Bound
<1>3. CASE admitted[tie.address] = Unbound
  <2>1. Bound(tie) = [admitted EXCEPT ![tie.address] = tie.user] /\ Present(tie.user)
    BY <1>3 DEF Bound, CanBind
  <2>2. Bound(tie) \in [Addresses -> Maybe(UserIds \cup {Unbound})]
    BY <1>1, <2>1 DEF Inv, RowsOK, Maybe
  <2>3. \A a \in Addresses :
           Bound(tie)[a] = IF a = tie.address THEN tie.user ELSE admitted[a]
    BY <1>1, <2>1 DEF Inv, RowsOK
  <2> QED
    BY <1>1, <1>3, <2>1, <2>2, <2>3 DEF Inv, RowsOK
<1> QED
  BY <1>2, <1>3

LEMMA SeededIsTyped ==
    ASSUME Inv, NEW b
    PROVE  /\ Seeded(b) \in [Addresses -> Maybe(UserIds \cup {Unbound})]
           /\ \A a \in Addresses : Seeded(b)[a] \in UserIds => Present(Seeded(b)[a])
           /\ \A a \in Addresses : admitted[a] # None => Seeded(b)[a] = admitted[a]
           /\ \A a \in Addresses : Seeded(b)[a] # None => admitted[a] # None \/ a = b
<1>1. \A a \in Addresses : Seeded(b)[a] =
          IF a = b /\ admitted[a] = None THEN Unbound ELSE admitted[a]
  BY DEF Inv, RowsOK, Seeded
<1>2. Seeded(b) \in [Addresses -> Maybe(UserIds \cup {Unbound})]
  BY DEF Inv, RowsOK, Seeded, Maybe
<1> QED
  BY <1>1, <1>2, NoneIsNobody DEF Inv, RowsOK

LEMMA UserIs ==
    ASSUME Inv, NEW u \in UserIds, Present(u)
    PROVE  users[u] \in Users
BY DEF Inv, RowsOK, Present, Maybe

LEMMA CreateKeepsRows ==
    ASSUME Inv, NEW c \in Callers, Create(c)
    PROVE  /\ RowsOK'
           /\ \A v \in UserIds : users[v] # None =>
                 users'[v] # None /\ users'[v].owner = users[v].owner
<1>1. Ask(c) \in Asked
  BY UnderWay DEF Create, At
<1>2. PICK u \in UserIds :
          \/ /\ Present(u)
             /\ users' = [users EXCEPT ![u] =
                    [users[u] EXCEPT !.email = Coalesce(Ask(c).email, users[u].email)]]
          \/ /\ NextUser(u)
             /\ users' = [users EXCEPT ![u] =
                    [sub |-> Ask(c).identity, email |-> Ask(c).email, owner |-> FALSE]]
  BY DEF Create
<1>3. UNCHANGED <<identity, admitted, sessions, issued, open, claimed, now>>
  BY DEF Create
<1>4. CASE /\ Present(u)
           /\ users' = [users EXCEPT ![u] =
                  [users[u] EXCEPT !.email = Coalesce(Ask(c).email, users[u].email)]]
  <2> DEFINE row == [users[u] EXCEPT !.email = Coalesce(Ask(c).email, users[u].email)]
  <2>1. users[u] \in Users
    BY <1>4, UserIs
  <2>2. row \in Users /\ row.owner = users[u].owner
    <3>1. Coalesce(Ask(c).email, users[u].email) \in Maybe(Addresses)
      BY <1>1, <2>1, AskedIs DEF Coalesce, Users, Maybe
    <3> QED
      BY <2>1, <3>1 DEF Users
  <2>3. users' = [users EXCEPT ![u] = row]
    BY <1>4
  <2> HIDE DEF row
  <2>4. /\ users' \in [UserIds -> Maybe(Users)]
        /\ \A v \in UserIds : users[v] # None =>
              users'[v] # None /\ users'[v].owner = users[v].owner
    BY <2>2, <2>3, NoneIsNobody DEF Inv, RowsOK, Maybe
  <2>5. claimed' \in BOOLEAN
    BY <1>3 DEF Inv, RowsOK
  <2> QED
    BY <1>3, <2>4, <2>5, RowsByUsers
<1>5. CASE /\ NextUser(u)
           /\ users' = [users EXCEPT ![u] =
                  [sub |-> Ask(c).identity, email |-> Ask(c).email, owner |-> FALSE]]
  <2> DEFINE row == [sub |-> Ask(c).identity, email |-> Ask(c).email, owner |-> FALSE]
  <2>1. row \in Users
    BY <1>1, AskedIs DEF Users, Maybe
  <2>2. users' = [users EXCEPT ![u] = row]
    BY <1>5
  <2>3. users[u] = None
    BY <1>5 DEF NextUser, Present, UserIds
  <2> HIDE DEF row
  <2>4. /\ users' \in [UserIds -> Maybe(Users)]
        /\ \A v \in UserIds : users[v] # None =>
              users'[v] # None /\ users'[v].owner = users[v].owner
    BY <2>1, <2>2, <2>3, NoneIsNobody DEF Inv, RowsOK, Maybe
  <2>5. claimed' \in BOOLEAN
    BY <1>3 DEF Inv, RowsOK
  <2> QED
    BY <1>3, <2>4, <2>5, RowsByUsers
<1> QED
  BY <1>2, <1>4, <1>5

LEMMA AttachKeepsRows ==
    ASSUME Inv, NEW c \in Callers, Attach(c)
    PROVE  RowsOK'
<1>1. Ask(c).identity \in Identities /\ Who(c) \in UserIds
  BY UnderWay, LaidHead, AskedIs DEF Attach, At, Anonymous, Finding
<1> DEFINE i == Ask(c).identity
<1>2. UNCHANGED <<users, admitted, sessions, issued, open, claimed, now>>
  BY DEF Attach
<1>3. CASE UNCHANGED identity
  BY <1>2, <1>3, RowsStay DEF Inv, RowsOK
<1>4. CASE /\ identity[i] # None \/ Present(Who(c))
           /\ identity' = [identity EXCEPT ![i] = IF @ = None THEN Who(c) ELSE @]
  <2>1. \A j \in Identities :
           identity'[j] = IF j = i /\ identity[i] = None THEN Who(c) ELSE identity[j]
    BY <1>4 DEF Inv, RowsOK
  <2>2. identity' \in [Identities -> Maybe(UserIds)]
    BY <1>1, <1>4 DEF Inv, RowsOK, Maybe
  <2>3. ASSUME NEW j \in Identities, identity'[j] # None
        PROVE  Present(identity'[j])
    BY <1>4, <2>1, <2>3 DEF Inv, RowsOK
  <2> QED
    BY <1>2, <2>2, <2>3 DEF Inv, RowsOK, Present
<1> QED
  BY <1>3, <1>4 DEF Attach

(* A row of a user rewritten.                                              *)
LEMMA RowRewritten ==
    ASSUME Inv, NEW u \in UserIds, Present(u), NEW row \in Users,
           users' = [users EXCEPT ![u] = row]
    PROVE  /\ users' \in [UserIds -> Maybe(Users)]
           /\ users'[u] = row /\ row # None
           /\ \A v \in UserIds \ {u} : users'[v] = users[v]
           /\ \A v \in UserIds : users[v] # None => users'[v] # None
BY NoneIsNobody DEF Inv, RowsOK, Maybe

LEMMA RefreshKeepsRows ==
    ASSUME Inv, NEW c \in Callers, Refresh(c)
    PROVE  /\ RowsOK'
           /\ \A v \in UserIds : users[v] # None =>
                 users'[v] # None /\ users'[v].owner = users[v].owner
<1> DEFINE u == Who(c)
<1>1. Ask(c).email \in Maybe(Addresses) /\ u \in UserIds
  BY UnderWay, LaidHead, AskedIs DEF Refresh, At, Anonymous, Finding
<1>2. UNCHANGED <<identity, admitted, sessions, issued, open, claimed, now>>
  BY DEF Refresh
<1>3. CASE UNCHANGED users
  BY <1>2, <1>3, RowsStay DEF Inv, RowsOK
<1>4. CASE /\ Present(u)
           /\ users' = [users EXCEPT ![u].email = Coalesce(Ask(c).email, @)]
  <2> DEFINE row == [users[u] EXCEPT !.email = Coalesce(Ask(c).email, users[u].email)]
  <2>1. users[u] \in Users
    BY <1>1, <1>4, UserIs
  <2>2. row \in Users /\ row.owner = users[u].owner
    <3>1. Coalesce(Ask(c).email, users[u].email) \in Maybe(Addresses)
      BY <1>1, <2>1 DEF Coalesce, Users, Maybe
    <3> QED
      BY <2>1, <3>1 DEF Users
  <2>3. users' = [users EXCEPT ![u] = row]
    BY <1>4
  <2> HIDE DEF row, u
  <2>4. /\ users' \in [UserIds -> Maybe(Users)]
        /\ \A v \in UserIds : users[v] # None =>
              users'[v] # None /\ users'[v].owner = users[v].owner
    BY <1>1, <1>4, <2>2, <2>3, RowRewritten
  <2>5. claimed' \in BOOLEAN
    BY <1>2 DEF Inv, RowsOK
  <2> QED
    BY <1>2, <2>4, <2>5, RowsByUsers
<1> QED
  BY <1>3, <1>4 DEF Refresh

LEMMA SetOwnerKeepsRows ==
    ASSUME Inv, NEW c \in Callers, SetOwner(c)
    PROVE  RowsOK'
<1> DEFINE u == work[c].subject
<1>1. Ask(c).yes \in BOOLEAN /\ u \in UserIds
  BY UnderWay, LaidHead, AskedIs DEF SetOwner, At
<1>2. UNCHANGED <<identity, admitted, sessions, issued, open, claimed, now>>
  BY DEF SetOwner
<1>3. CASE UNCHANGED users
  BY <1>2, <1>3, RowsStay DEF Inv, RowsOK
<1>4. CASE Present(u) /\ users' = [users EXCEPT ![u].owner = Ask(c).yes]
  <2> DEFINE row == [users[u] EXCEPT !.owner = Ask(c).yes]
  <2>1. row \in Users
    BY <1>1, <1>4, UserIs DEF Users
  <2>2. users' = [users EXCEPT ![u] = row]
    BY <1>4
  <2> HIDE DEF row, u
  <2>3. /\ users' \in [UserIds -> Maybe(Users)]
        /\ \A v \in UserIds : users[v] # None => users'[v] # None
    BY <1>1, <1>4, <2>1, <2>2, RowRewritten
  <2>4. claimed' \in BOOLEAN
    BY <1>2 DEF Inv, RowsOK
  <2> QED
    BY <1>2, <2>3, <2>4, RowsByUsers
<1> QED
  BY <1>3, <1>4 DEF SetOwner

(* Server::claim_for: whoever wins is an owner, if they are still there.   *)
LEMMA WinKeepsRows ==
    ASSUME Inv, NEW c \in Callers, Win(c)
    PROVE  /\ RowsOK' /\ Who(c) \in UserIds
           /\ FirstToClaim => claimed' /\ (Present(Who(c)) => Who(c) \in Owners')
           /\ ~FirstToClaim => UNCHANGED <<users, claimed>>
           /\ \A v \in UserIds : users[v] # None =>
                 users'[v] # None /\ (users[v].owner => users'[v].owner)
<1> DEFINE u == Who(c)
<1>1. u \in UserIds
  BY UnderWay, LaidHead DEF Win, At, Anonymous, Finding
<1>2. UNCHANGED <<identity, admitted, sessions, issued, open, now>> /\ claimed' \in BOOLEAN
  BY DEF Win, Inv, RowsOK
<1>3. CASE ~FirstToClaim
  <2>1. UNCHANGED <<users, claimed>>
    BY <1>3 DEF Win
  <2> QED
    BY <1>1, <1>2, <1>3, <2>1, RowsStay DEF Inv, RowsOK
<1>4. CASE FirstToClaim /\ ~Present(u)
  <2>1. UNCHANGED users /\ claimed'
    BY <1>4 DEF Win
  <2> QED
    BY <1>1, <1>2, <1>4, <2>1, RowsStay DEF Inv, RowsOK
<1>5. CASE FirstToClaim /\ Present(u)
  <2> DEFINE row == [users[u] EXCEPT !.owner = TRUE]
  <2>1. row \in Users /\ row.owner
    BY <1>1, <1>5, UserIs DEF Users
  <2>2. users' = [users EXCEPT ![u] = row] /\ claimed'
    BY <1>5 DEF Win
  <2> HIDE DEF row, u
  <2>3. /\ users' \in [UserIds -> Maybe(Users)]
        /\ \A v \in UserIds : users[v] # None => users'[v] # None
        /\ \A v \in UserIds \ {u} : users'[v] = users[v]
        /\ users'[u] = row /\ row # None
    BY <1>1, <1>5, <2>1, <2>2, RowRewritten
  <2>4. RowsOK'
    BY <1>2, <2>3, RowsByUsers
  <2>5. u \in Owners'
    BY <1>1, <2>1, <2>3 DEF Owners, Present
  <2>6. \A v \in UserIds : users[v] # None =>
           users'[v] # None /\ (users[v].owner => users'[v].owner)
    BY <2>1, <2>3
  <2> QED
    BY <1>1, <1>5, <2>2, <2>4, <2>5, <2>6 DEF u
<1> QED
  BY <1>3, <1>4, <1>5

LEMMA BindKeepsRows ==
    ASSUME Inv, NEW c \in Callers, Bind(c)
    PROVE  /\ RowsOK'
           /\ \A a \in Addresses : admitted[a] # Unbound => admitted'[a] = admitted[a]
           /\ \A a \in Addresses : admitted[a] # None \/ admitted'[a] = None
<1>1. work[c].tie \in Ties
  BY UnderWay, LaidHead DEF Tying, Bind, At
<1>2. CASE UNCHANGED admitted
  BY <1>2, RowsStay DEF Bind, Inv, RowsOK
<1>3. CASE CanBind(work[c].tie) /\ admitted' = Bound(work[c].tie)
  <2>1. UNCHANGED <<users, identity, sessions, issued, open, claimed, now>>
    BY DEF Bind
  <2>2. \A a \in Addresses : admitted[a] # None \/ admitted'[a] = None
    BY <1>1, <1>3, BoundIsTyped, NoneIsNobody
  <2> QED
    BY <1>1, <1>3, <2>1, <2>2, BoundIsTyped, RowsByAdmitted
<1> QED
  BY <1>2, <1>3 DEF Bind

LEMMA AdmitKeepsRows ==
    ASSUME Inv, NEW c \in Callers, Admit(c)
    PROVE  /\ RowsOK'
           /\ \A a \in Addresses : admitted[a] # None => admitted'[a] = admitted[a]
           /\ \A a \in Addresses : admitted'[a] # None => admitted[a] # None \/ a = Ask(c).address
<1>1. UNCHANGED <<users, identity, sessions, issued, open, claimed, now>>
  BY DEF Admit
<1>2. CASE UNCHANGED admitted
  BY <1>1, <1>2, RowsStay DEF Inv, RowsOK
<1>3. CASE admitted' = Seeded(Ask(c).address)
  BY <1>1, <1>3, SeededIsTyped, RowsByAdmitted
<1> QED
  BY <1>2, <1>3 DEF Admit

LEMMA SeedKeepsRows ==
    ASSUME Inv, NEW c \in Callers, Seed(c)
    PROVE  /\ RowsOK'
           /\ \A a \in Addresses : admitted[a] # None => admitted'[a] = admitted[a]
           /\ \A a \in Addresses : admitted'[a] # None => admitted[a] # None \/ a = Ask(c).email
<1>1. UNCHANGED <<users, identity, sessions, issued, open, claimed, now>>
  BY DEF Seed
<1>2. CASE UNCHANGED admitted
  BY <1>1, <1>2, RowsStay DEF Inv, RowsOK
<1>3. CASE admitted' = Seeded(Ask(c).email)
  BY <1>1, <1>3, SeededIsTyped, RowsByAdmitted
<1> QED
  BY <1>2, <1>3 DEF Seed

LEMMA WithdrawKeepsRows ==
    ASSUME Inv, NEW c \in Callers, Withdraw(c)
    PROVE  /\ RowsOK'
           /\ \A a \in Addresses : admitted'[a] = admitted[a] \/ admitted'[a] = None
<1>1. UNCHANGED <<users, identity, sessions, issued, open, claimed, now>>
  BY DEF Withdraw
<1>2. \A a \in Addresses : admitted'[a] = admitted[a] \/ admitted'[a] = None
  BY DEF Withdraw, Inv, RowsOK
<1>3. admitted' \in [Addresses -> Maybe(UserIds \cup {Unbound})]
  BY DEF Withdraw, Inv, RowsOK, Maybe
<1> QED
  BY <1>1, <1>2, <1>3, NoneIsNobody, RowsByAdmitted DEF Inv, RowsOK

LEMMA ForgetKeepsRows ==
    ASSUME Inv, NEW c \in Callers, Forget(c)
    PROVE  /\ RowsOK'
           /\ \A a \in Addresses : admitted'[a] = admitted[a] \/ admitted'[a] = None
<1>1. UNCHANGED <<users, identity, sessions, issued, open, claimed, now>>
  BY DEF Forget
<1>2. \A a \in Addresses : admitted'[a] = admitted[a] \/ admitted'[a] = None
  BY DEF Forget
<1>3. admitted' \in [Addresses -> Maybe(UserIds \cup {Unbound})]
  BY DEF Forget, Inv, RowsOK, Maybe
<1> QED
  BY <1>1, <1>2, <1>3, NoneIsNobody, RowsByAdmitted DEF Inv, RowsOK

LEMMA SetOpenKeepsRows ==
    ASSUME Inv, NEW c \in Callers, SetOpen(c)
    PROVE  RowsOK'
<1>1. Ask(c).yes \in BOOLEAN
  BY UnderWay, AskedIs DEF SetOpen, At
<1> QED
  BY <1>1, RowsStay DEF SetOpen, Inv, RowsOK

(* Nothing is left that names the account that is closed.                  *)
LEMMA DeleteKeepsRows ==
    ASSUME Inv, NEW c \in Callers, Delete(c)
    PROVE  /\ RowsOK' /\ Who(c) \in UserIds /\ users'[Who(c)] = None
           /\ \A a \in Addresses : admitted'[a] =
                 IF admitted[a] = Who(c) THEN Unbound ELSE admitted[a]
           /\ \A t \in Tokens : sessions'[t] = sessions[t] \/ sessions'[t] = None
<1> DEFINE u == Who(c)
<1>1. u \in UserIds
  BY UnderWay, LaidHead DEF Delete, At, Anonymous, Finding
<1>2. UNCHANGED <<issued, open, claimed, now>>
  BY DEF Delete
<1>3. /\ users' \in [UserIds -> Maybe(Users)] /\ users'[u] = None
      /\ \A v \in UserIds : v # u => users'[v] = users[v]
  BY <1>1 DEF Delete, Inv, RowsOK, Maybe
<1>4. /\ identity' \in [Identities -> Maybe(UserIds)]
      /\ \A i \in Identities : identity'[i] # None => identity'[i] = identity[i] /\ identity[i] # u
  BY DEF Delete, Inv, RowsOK, Maybe
<1>5. /\ sessions' \in [Tokens -> Maybe(Sessions)]
      /\ \A t \in Tokens : sessions'[t] # None =>
            sessions'[t] = sessions[t] /\ sessions[t].user # u
      /\ \A t \in Tokens : sessions'[t] = sessions[t] \/ sessions'[t] = None
  BY DEF Delete, Inv, RowsOK, Maybe
<1>6. /\ admitted' \in [Addresses -> Maybe(UserIds \cup {Unbound})]
      /\ \A a \in Addresses : admitted'[a] = IF admitted[a] = u THEN Unbound ELSE admitted[a]
  BY DEF Delete, Inv, RowsOK, Maybe, BoundTo
<1>7. \A i \in Identities : identity'[i] # None => users'[identity'[i]] # None
  BY <1>3, <1>4, NoneIsNobody DEF Inv, RowsOK, Maybe, Present
<1>8. \A a \in Addresses : admitted'[a] \in UserIds => users'[admitted'[a]] # None
  BY <1>1, <1>3, <1>6, NoneIsNobody DEF Inv, RowsOK, Present
<1>9. ASSUME NEW t \in Tokens, sessions'[t] # None
      PROVE  users'[sessions'[t].user] # None
  <2>1. sessions[t] \in Sessions /\ Present(sessions[t].user) /\ sessions[t].user # u
    BY <1>5, <1>9 DEF Inv, RowsOK, Maybe
  <2>2. sessions[t].user \in UserIds
    BY <2>1 DEF Sessions
  <2> QED
    BY <1>3, <1>5, <1>9, <2>1, <2>2 DEF Present
<1>10. RowsOK'
  BY <1>2, <1>3, <1>4, <1>5, <1>6, <1>7, <1>8, <1>9 DEF Inv, RowsOK, Present
<1> QED
  BY <1>1, <1>3, <1>5, <1>6, <1>10

LEMMA ResumeKeepsRows ==
    ASSUME Inv, NEW c \in Callers, Resume(c)
    PROVE  /\ RowsOK'
           /\ \A t \in Tokens : sessions'[t] = sessions[t] \/ Live(t)
<1> DEFINE s == Ask(c).token
<1>1. UNCHANGED <<users, identity, admitted, issued, open, claimed, now>>
  BY DEF Resume
<1>2. CASE UNCHANGED sessions
  BY <1>1, <1>2, RowsStay DEF Inv, RowsOK
<1>3. CASE Live(s) /\ sessions' = [sessions EXCEPT ![s].used = now]
  <2>1. s \in Tokens /\ sessions[s] \in Sessions /\ Present(sessions[s].user)
    <3>1. s \in Tokens
      BY UnderWay, AskedIs DEF Resume, At
    <3> QED
      BY <1>3, <3>1 DEF Inv, RowsOK, Maybe, Live
  <2> DEFINE row == [sessions[s] EXCEPT !.used = now]
  <2>2. row \in Sessions /\ row.user = sessions[s].user
    BY <2>1 DEF Sessions, Inv, RowsOK
  <2>3. sessions' = [sessions EXCEPT ![s] = row]
    BY <1>3
  <2> HIDE DEF row, s
  <2>4. /\ sessions' \in [Tokens -> Maybe(Sessions)]
        /\ \A t \in Tokens : sessions'[t] = IF t = s THEN row ELSE sessions[t]
    BY <2>1, <2>2, <2>3 DEF Inv, RowsOK, Maybe
  <2>5. \A t \in Tokens : sessions'[t] # None => Present(sessions'[t].user)
    BY <2>1, <2>2, <2>4 DEF Inv, RowsOK
  <2>6. issued' \in 0..MaxTokens
    BY <1>1 DEF Inv, RowsOK
  <2> QED
    BY <1>1, <1>3, <2>4, <2>5, <2>6, RowsBySessions DEF s
<1> QED
  BY <1>2, <1>3 DEF Resume

LEMMA IssueKeepsRows ==
    ASSUME Inv, NEW c \in Callers, Issue(c)
    PROVE  /\ RowsOK'
           /\ \A t \in Tokens : sessions'[t] = sessions[t] \/ t = issued + 1
<1> DEFINE s == issued + 1
           row == [user |-> Who(c), used |-> now]
<1>1. UNCHANGED <<users, identity, admitted, open, claimed, now>>
  BY DEF Issue
<1>2. CASE UNCHANGED <<issued, sessions>>
  BY <1>1, <1>2, RowsStay DEF Inv, RowsOK
<1>3. CASE /\ Present(Who(c)) /\ issued < MaxTokens /\ issued' = s
           /\ sessions' = [sessions EXCEPT ![s] = row]
  <2>1. Who(c) \in UserIds
    BY UnderWay, LaidHead DEF Issue, At, Anonymous, Finding
  <2>2. row \in Sessions /\ row.user = Who(c)
    BY <2>1 DEF Sessions, Inv, RowsOK
  <2>3. s \in Tokens /\ issued' \in 0..MaxTokens
    BY <1>3, AdmissionAssumption DEF Inv, RowsOK, Tokens, AdmissionAssumption
  <2> HIDE DEF row, s
  <2>4. /\ sessions' \in [Tokens -> Maybe(Sessions)]
        /\ \A t \in Tokens : sessions'[t] = IF t = s THEN row ELSE sessions[t]
    BY <1>3, <2>2, <2>3 DEF Inv, RowsOK, Maybe
  <2>5. \A t \in Tokens : sessions'[t] # None => Present(sessions'[t].user)
    BY <1>3, <2>2, <2>4 DEF Inv, RowsOK
  <2> QED
    BY <1>1, <1>3, <2>3, <2>4, <2>5, RowsBySessions DEF s
<1> QED
  BY <1>2, <1>3 DEF Issue

LEMMA EndKeepsRows ==
    ASSUME Inv, NEW c \in Callers, End(c)
    PROVE  /\ RowsOK'
           /\ \A t \in Tokens : sessions'[t] = sessions[t] \/ sessions'[t] = None
<1>1. UNCHANGED <<users, identity, admitted, issued, open, claimed, now>>
  BY DEF End
<1>2. /\ sessions' \in [Tokens -> Maybe(Sessions)]
      /\ \A t \in Tokens : sessions'[t] = sessions[t] \/ sessions'[t] = None
  BY DEF End, Inv, RowsOK, Maybe
<1>3. \A t \in Tokens : sessions'[t] # None => Present(sessions'[t].user)
  BY <1>2 DEF Inv, RowsOK
<1>4. issued' \in 0..MaxTokens
  BY <1>1 DEF Inv, RowsOK
<1> QED
  BY <1>1, <1>2, <1>3, <1>4, RowsBySessions

LEMMA SweepKeepsRows ==
    ASSUME Inv, Sweep
    PROVE  /\ RowsOK'
           /\ \A t \in Tokens : sessions'[t] = sessions[t] \/ sessions'[t] = None
<1>1. UNCHANGED <<users, identity, admitted, issued, open, claimed, now>>
  BY DEF Sweep
<1>2. /\ sessions' \in [Tokens -> Maybe(Sessions)]
      /\ \A t \in Tokens : sessions'[t] = sessions[t] \/ sessions'[t] = None
  BY DEF Sweep, Inv, RowsOK, Maybe
<1>3. \A t \in Tokens : sessions'[t] # None => Present(sessions'[t].user)
  BY <1>2 DEF Inv, RowsOK
<1>4. issued' \in 0..MaxTokens
  BY <1>1 DEF Inv, RowsOK
<1> QED
  BY <1>1, <1>2, <1>3, <1>4, RowsBySessions

(* The steps that only look.                                               *)
Looks(c) ==
    \/ Arrive(c) \/ Identify(c) \/ StillThere(c) \/ Vet(c) \/ LookForBinding(c)
    \/ ReadStored(c) \/ LookForListing(c) \/ Newcomer(c) \/ LookForInvitation(c)
    \/ Recognise(c) \/ Use(c) \/ MayAdmit(c) \/ MayWithdraw(c) \/ MayOwn(c) \/ MayOpen(c)
    \/ MayClose(c) \/ MayClaim(c) \/ Cut(c)

Writes(c) ==
    \/ Create(c) \/ Attach(c) \/ Refresh(c) \/ Bind(c) \/ Resume(c) \/ Issue(c) \/ End(c)
    \/ Admit(c) \/ Withdraw(c) \/ SetOwner(c) \/ SetOpen(c) \/ Forget(c) \/ Delete(c)
    \/ Win(c) \/ Seed(c)

LEMMA LookingChangesNothing ==
    ASSUME NEW c, Looks(c)
    PROVE  UNCHANGED <<users, identity, admitted, sessions, issued, open, claimed, now,
                       boots, boot, up, code>>
BY DEF Looks, Arrive, Identify, StillThere, Vet, LookForBinding, ReadStored, LookForListing,
       Newcomer, LookForInvitation, Recognise, Use, MayAdmit, MayWithdraw, MayOwn,
       MayOpen, MayClose, MayClaim, Cut, May, tables, process

LEMMA StepsLookOrWrite ==
    ASSUME NEW c, Step(c) \/ Cut(c)
    PROVE  Looks(c) \/ Writes(c)
BY DEF Step, Looks, Writes

LEMMA StepKeepsRows ==
    ASSUME Inv, NEW c \in Callers, Arrive(c) \/ Step(c) \/ Cut(c)
    PROVE  RowsOK' /\ UNCHANGED <<now, boots, boot, up, code>>
<1>1. CASE Looks(c)
  <2>1. UNCHANGED <<users, identity, admitted, sessions, issued, open, claimed, now,
                    boots, boot, up, code>>
    BY <1>1, LookingChangesNothing
  <2> QED
    BY <2>1, RowsStay DEF Inv, RowsOK
<1>2. CASE Writes(c)
  <2>1. RowsOK'
    BY <1>2, CreateKeepsRows, AttachKeepsRows, RefreshKeepsRows, BindKeepsRows,
       ResumeKeepsRows, IssueKeepsRows, EndKeepsRows, AdmitKeepsRows, WithdrawKeepsRows,
       SetOwnerKeepsRows, SetOpenKeepsRows, ForgetKeepsRows, DeleteKeepsRows,
       WinKeepsRows, SeedKeepsRows DEF Writes
  <2>2. UNCHANGED <<now, boots, boot, up, code>>
    BY <1>2 DEF Writes, Create, Attach, Refresh, Bind, Resume, Issue, End, Admit, Withdraw,
         SetOwner, SetOpen, Forget, Delete, Win, Seed, process
  <2> QED
    BY <2>1, <2>2
<1> QED
  BY <1>1, <1>2, StepsLookOrWrite DEF Looks

----------------------------------------------------------------------------
(* The boot.                                                               *)

(* Requests come and go while the server is up.                            *)
LEMMA ServingKeepsBoot ==
    ASSUME Inv, up, UNCHANGED <<boots, boot, up, code>>
    PROVE  BootOK'
<1>1. boot' = <<>>
  BY DEF Inv, BootOK
<1> QED
  BY <1>1 DEF Inv, BootOK, BootLaid

LEMMA HeadStep ==
    ASSUME Inv, NEW do, Booting(do)
    PROVE  /\ Head(boot).do = do /\ Head(boot) = boot[1] /\ Head(boot) \in BootSteps
           /\ boot # <<>> /\ Len(boot) > 0 /\ ~up /\ \A c \in Callers : ~Busy(c)
           /\ Tail(boot) \in Seq(BootSteps) /\ Len(Tail(boot)) = Len(boot) - 1
           /\ \A i \in 1..Len(Tail(boot)) :
                 Tail(boot)[i] = boot[i + 1] /\ i + 1 \in 1..Len(boot)
BY HeadAndTail DEF Inv, BootOK, Booting

LEMMA BootGoesOn ==
    ASSUME Inv, NEW do, Booting(do), do # "offer", boot' = Tail(boot),
           UNCHANGED <<boots, up, code, work>>,
           do = "own" => Owners' # {},
           Owners # {} => Owners' # {}
    PROVE  BootOK' /\ WorkOK'
<1> DEFINE p == Tail(boot)
<1>1. WorkOK'
  BY DEF Inv, WorkOK, PlanOK
<1>2. ASSUME NEW i \in 1..Len(p), p[i].do = "offer" PROVE i = Len(p)
  BY <1>2, HeadStep DEF Inv, BootOK, BootLaid
<1>3. ASSUME NEW i \in 1..Len(p), p[i].do = "claim", Owners' = {}
      PROVE  \E j \in 1..(i - 1) : p[j].do = "own"
  <2>1. Owners = {} /\ do # "own"
    BY <1>3
  <2>2. boot[i + 1].do = "claim" /\ i + 1 \in 1..Len(boot)
    BY <1>3, HeadStep
  <2>3. PICK j \in 1..i : boot[j].do = "own"
    BY <2>1, <2>2 DEF Inv, BootOK, BootLaid
  <2>4. j # 1
    BY <2>1, <2>3, HeadStep
  <2>5. j - 1 \in 1..(i - 1) /\ p[j - 1] = boot[j]
    BY <2>3, <2>4, HeadStep
  <2> QED
    BY <2>3, <2>5
<1>4. /\ boot' \in Seq(BootSteps) /\ boots' \in 0..MaxBoots /\ code' \in 0..boots'
      /\ up' = FALSE /\ \A c \in Callers : ~Busy(c)'
  BY HeadStep DEF Inv, BootOK, Busy
<1>5. BootLaid(boot)'
  BY <1>2, <1>3 DEF BootLaid
<1> QED
  BY <1>1, <1>4, <1>5 DEF BootOK

LEMMA BootStepsKeep ==
    ASSUME Inv, Boot
    PROVE  Inv'
<1>1. CASE BootOpen
  <2>1. RowsOK'
    BY <1>1, RowsStay DEF BootOpen, Inv, RowsOK
  <2>2. Owners' = Owners
    BY <1>1 DEF BootOpen, Owners, Present
  <2> QED
    BY <1>1, <2>1, <2>2, BootGoesOn DEF BootOpen, Inv
<1>2. CASE BootSeed
  <2>1. RowsOK'
    <3>1. UNCHANGED <<users, identity, sessions, issued, open, claimed, now>>
      BY <1>2 DEF BootSeed
    <3>2. admitted' = Seeded(Head(boot).address)
      BY <1>2 DEF BootSeed
    <3> QED
      BY <3>1, <3>2, SeededIsTyped, RowsByAdmitted
  <2>2. Owners' = Owners
    BY <1>2 DEF BootSeed, Owners, Present
  <2> QED
    BY <1>2, <2>1, <2>2, BootGoesOn DEF BootSeed, Inv
<1>3. CASE BootTie
  <2>1. RowsOK'
    <3> DEFINE a == Head(boot).address
    <3>1. UNCHANGED <<users, identity, sessions, issued, open, claimed, now>>
      BY <1>3 DEF BootTie
    <3>2. CASE UNCHANGED admitted
      BY <3>1, <3>2, RowsStay DEF Inv, RowsOK
    <3>3. CASE \E u \in WithEmail(a) : admitted' = Bound([address |-> a, user |-> u])
      <4>1. PICK u \in WithEmail(a) : admitted' = Bound([address |-> a, user |-> u])
        BY <3>3
      <4>2. u \in UserIds /\ Present(u) /\ users[u].email = a
        BY DEF WithEmail
      <4>3. CASE a \in Addresses
        <5> DEFINE tie == [address |-> a, user |-> u]
        <5>1. tie \in Ties /\ tie.user = u
          BY <4>2, <4>3 DEF Ties
        <5>2. CanBind(tie)
          BY <4>2, <5>1 DEF CanBind
        <5>3. admitted' = Bound(tie)
          BY <4>1
        <5> HIDE DEF tie
        <5> QED
          BY <3>1, <5>1, <5>2, <5>3, BoundIsTyped, RowsByAdmitted
      <4>4. CASE a \notin Addresses
        <5>1. UNCHANGED admitted
          BY <4>1, <4>4 DEF Bound, Inv, RowsOK
        <5> QED
          BY <3>2, <5>1
      <4> QED
        BY <4>3, <4>4
    <3> QED
      BY <1>3, <3>2, <3>3 DEF BootTie
  <2>2. Owners' = Owners
    BY <1>3 DEF BootTie, Owners, Present
  <2> QED
    BY <1>3, <2>1, <2>2, BootGoesOn DEF BootTie, Inv
<1>4. CASE BootOwn
  <2>1. PICK u \in UserIds : Earliest(u) /\ users' = [users EXCEPT ![u].owner = TRUE]
    BY <1>4 DEF BootOwn
  <2> DEFINE row == [users[u] EXCEPT !.owner = TRUE]
  <2>2. Present(u) /\ row \in Users /\ row.owner
    BY <2>1, UserIs DEF Users, Earliest
  <2>3. users' = [users EXCEPT ![u] = row]
    BY <2>1
  <2> HIDE DEF row
  <2>4. /\ users' \in [UserIds -> Maybe(Users)]
        /\ \A v \in UserIds : users[v] # None => users'[v] # None
        /\ users'[u] = row /\ row # None
    BY <2>2, <2>3, RowRewritten
  <2>5. RowsOK'
    <3>1. UNCHANGED <<identity, admitted, sessions, issued, open, now>> /\ claimed' \in BOOLEAN
      BY <1>4 DEF BootOwn, Inv, RowsOK
    <3> QED
      BY <2>4, <3>1, RowsByUsers
  <2>6. u \in Owners'
    BY <2>2, <2>4 DEF Owners, Present
  <2>7. Owners' # {}
    BY <2>6
  <2> QED
    BY <1>4, <2>5, <2>7, BootGoesOn DEF BootOwn, Inv
<1>5. CASE BootClaim
  <2>1. RowsOK'
    BY <1>5, RowsStay DEF BootClaim, Inv, RowsOK
  <2>2. Owners' = Owners
    BY <1>5 DEF BootClaim, Owners, Present
  <2> QED
    BY <1>5, <2>1, <2>2, BootGoesOn DEF BootClaim, Inv
<1>6. CASE OfferClaim
  <2>1. UNCHANGED <<users, identity, admitted, sessions, issued, open, claimed, now>>
    BY <1>6 DEF OfferClaim, tables
  <2>2. RowsOK'
    BY <2>1, RowsStay DEF Inv, RowsOK
  <2>3. Booting("offer")
    BY <1>6 DEF OfferClaim
  <2>4. Len(Tail(boot)) = 0
    <3>1. 1 \in 1..Len(boot) /\ boot[1].do = "offer"
      BY <2>3, HeadStep
    <3>2. Len(boot) = 1
      BY <3>1 DEF Inv, BootOK, BootLaid
    <3> QED
      BY <2>3, <3>2, HeadStep
  <2>5. boot' = <<>>
    BY <1>6, <2>3, <2>4, HeadStep DEF OfferClaim
  <2>6. up' = TRUE /\ boots' \in 0..MaxBoots /\ code' \in 0..boots'
    <3>1. boots' = boots /\ (code' = NoCode \/ code' = boots) /\ up' = TRUE
      BY <1>6 DEF OfferClaim
    <3> QED
      BY <3>1, AdmissionAssumption DEF NoCode, Inv, BootOK, AdmissionAssumption
  <2>7. BootOK'
    BY <2>5, <2>6 DEF BootOK, BootLaid
  <2>8. WorkOK'
    BY <1>6 DEF OfferClaim, Inv, WorkOK, PlanOK
  <2> QED
    BY <2>2, <2>7, <2>8 DEF Inv
<1> QED
  BY <1>1, <1>2, <1>3, <1>4, <1>5, <1>6 DEF Boot

(* What a boot has to do: nothing before the seed's own rows claims.       *)
Does(steps, what) == \E i \in 1..Len(steps) : steps[i].do = what

LEMMA SeedRowsAre ==
    ASSUME NEW these \in Seq(Addresses)
    PROVE  /\ SeedRows(these) \in Seq(BootSteps)
           /\ ~Does(SeedRows(these), "offer") /\ ~Does(SeedRows(these), "claim")
<1> DEFINE n == Len(these)
           p == SeedRows(these)
<1>1. n \in Nat /\ \A k \in 1..(2 * n) : (k + 1) \div 2 \in 1..n
  OBVIOUS
<1>2. \A k \in 1..(2 * n) :
         [do |-> IF k % 2 = 1 THEN "seed" ELSE "tie", address |-> these[(k + 1) \div 2]]
             \in BootSteps
  BY <1>1 DEF BootSteps, Maybe
<1>3. p \in [1..(2 * n) -> BootSteps]
  BY <1>2 DEF SeedRows
<1>4. p \in Seq(BootSteps) /\ Len(p) = 2 * n
  <2>1. 2 * n \in Nat
    BY <1>1
  <2> HIDE DEF p, n
  <2> QED
    BY <1>3, <2>1
<1>5. \A k \in 1..(2 * n) : p[k].do \in {"seed", "tie"}
  BY DEF SeedRows
<1> QED
  BY <1>4, <1>5 DEF Does

LEMMA InheritanceIs ==
    ASSUME NEW somebody \in BOOLEAN
    PROVE  /\ Inherit(somebody) \in Seq(BootSteps)
           /\ ~Does(Inherit(somebody), "offer")
           /\ \A i \in 1..Len(Inherit(somebody)) : Inherit(somebody)[i].do = "claim" =>
                 \E j \in 1..(i - 1) : Inherit(somebody)[j].do = "own"
<1>1. Plain("own") \in BootSteps /\ Plain("claim") \in BootSteps
  BY DEF Plain, BootSteps, Maybe
<1>2. Plain("own").do = "own" /\ Plain("claim").do = "claim"
  BY DEF Plain
<1>3. CASE somebody
  <2>1. Inherit(somebody) = <<Plain("own"), Plain("claim")>>
    BY <1>3 DEF Inherit
  <2> DEFINE a == Plain("own")
             b == Plain("claim")
  <2> HIDE DEF a, b
  <2>2. Inherit(somebody) = <<a, b>> /\ a \in BootSteps /\ b \in BootSteps
        /\ a.do = "own" /\ b.do = "claim"
    BY <1>1, <1>2, <2>1 DEF a, b
  <2> QED
    BY <2>2 DEF Does
<1>4. CASE ~somebody
  BY <1>4 DEF Inherit, Does
<1> QED
  BY <1>3, <1>4

(* Claims come after owners when two stretches of a boot are put together. *)
LEMMA BootJoined ==
    ASSUME NEW s \in Seq(BootSteps), NEW t \in Seq(BootSteps), ~Does(s, "offer"),
           BootLaid(s), BootLaid(t)
    PROVE  BootLaid(s \o t)
<1> DEFINE q == s \o t
<1>1. ASSUME NEW i \in 1..Len(q), q[i].do = "offer" PROVE i = Len(q)
  <2>1. CASE i \in 1..Len(s)
    BY <1>1, <2>1, Joined DEF Does
  <2>2. CASE i - Len(s) \in 1..Len(t) /\ q[i] = t[i - Len(s)]
    <3>1. i - Len(s) = Len(t)
      BY <1>1, <2>2 DEF BootLaid
    <3>2. Len(q) = Len(s) + Len(t)
      BY Joined
    <3> QED
      BY <3>1, <3>2
  <2> QED
    BY <2>1, <2>2, Joined
<1>2. ASSUME NEW i \in 1..Len(q), q[i].do = "claim", Owners = {}
      PROVE  \E j \in 1..(i - 1) : q[j].do = "own"
  <2>1. CASE i \in 1..Len(s)
    <3>1. s[i].do = "claim"
      BY <1>2, <2>1, Joined
    <3>2. PICK j \in 1..(i - 1) : s[j].do = "own"
      BY <1>2, <2>1, <3>1 DEF BootLaid
    <3> QED
      BY <2>1, <3>2, Joined
  <2>2. CASE i - Len(s) \in 1..Len(t) /\ q[i] = t[i - Len(s)]
    <3>1. PICK j \in 1..(i - Len(s) - 1) : t[j].do = "own"
      BY <1>2, <2>2 DEF BootLaid
    <3>2. Len(s) + j \in 1..(i - 1) /\ q[Len(s) + j] = t[j]
      BY <2>2, <3>1, Joined
    <3> QED
      BY <3>1, <3>2
  <2> QED
    BY <2>1, <2>2, Joined
<1> QED
  BY <1>1, <1>2 DEF BootLaid

LEMMA BootPlanIsLaid ==
    ASSUME NEW config \in Configs
    PROVE  BootPlan(config) \in Seq(BootSteps) /\ BootLaid(BootPlan(config))
<1> DEFINE first == IF config.anyone THEN <<Plain("open")>> ELSE SeedRows(config.these)
           heir == Inherit(\E u \in UserIds : Present(u))
           seed == first \o heir
           last == <<Plain("offer")>>
<1>1. config.anyone \in BOOLEAN /\ config.these \in Seq(Addresses)
  BY AdmissionAssumption DEF AdmissionAssumption
<1>2. first \in Seq(BootSteps) /\ ~Does(first, "offer") /\ ~Does(first, "claim")
  <2>1. CASE config.anyone
    <3>1. Plain("open") \in BootSteps /\ Plain("open").do = "open"
      BY DEF Plain, BootSteps, Maybe
    <3> DEFINE a == Plain("open")
    <3>2. first = <<a>>
      BY <2>1
    <3> HIDE DEF a, first
    <3>3. a \in BootSteps /\ a.do = "open"
      BY <3>1 DEF a
    <3> QED
      BY <3>2, <3>3 DEF Does
  <2>2. CASE ~config.anyone
    BY <1>1, <2>2, SeedRowsAre
  <2> QED
    BY <2>1, <2>2
<1>3. /\ heir \in Seq(BootSteps) /\ ~Does(heir, "offer")
      /\ \A i \in 1..Len(heir) : heir[i].do = "claim" =>
            \E j \in 1..(i - 1) : heir[j].do = "own"
  <2> DEFINE somebody == \E u \in UserIds : Present(u)
  <2>1. somebody \in BOOLEAN /\ heir = Inherit(somebody)
    OBVIOUS
  <2> HIDE DEF somebody, heir
  <2> QED
    BY <2>1, InheritanceIs
<1>4. last \in Seq(BootSteps) /\ BootLaid(last) /\ last # <<>>
  <2>1. Plain("offer") \in BootSteps /\ Plain("offer").do = "offer"
    BY DEF Plain, BootSteps, Maybe
  <2> QED
    BY <2>1 DEF BootLaid
<1> HIDE DEF first, heir, last
<1>5. BootLaid(first) /\ BootLaid(heir)
  BY <1>2, <1>3 DEF BootLaid, Does
<1>6. BootLaid(seed) /\ seed \in Seq(BootSteps) /\ ~Does(seed, "offer")
  <2>1. BootLaid(seed)
    BY <1>2, <1>3, <1>5, BootJoined
  <2>2. ~Does(seed, "offer")
    BY <1>2, <1>3, Joined DEF Does
  <2> QED
    BY <1>2, <1>3, <2>1, <2>2, Joined
<1>7. BootLaid(<<>>) /\ <<>> \in Seq(BootSteps) /\ ~Does(<<>>, "offer")
  BY DEF BootLaid, Does
<1> HIDE DEF seed
<1> DEFINE start == IF (config.anyone \/ config.these # <<>>) /\ ~SomethingStored
                    THEN seed ELSE <<>>
<1>8. BootLaid(start) /\ start \in Seq(BootSteps) /\ ~Does(start, "offer")
  BY <1>6, <1>7
<1> HIDE DEF start
<1>9. BootPlan(config) = start \o last
  BY DEF BootPlan, start, last, seed, first, heir
<1> QED
  BY <1>4, <1>8, <1>9, BootJoined, Joined

----------------------------------------------------------------------------
(* The invariant holds at the start and is kept by every step.             *)

LEMMA NothingToBoot ==
    ASSUME NEW b, b = <<>>
    PROVE  b \in Seq(BootSteps) /\ BootLaid(b)
BY DEF BootLaid

LEMMA InvAtTheStart == Init => Inv
<1> SUFFICES ASSUME Init PROVE Inv
  OBVIOUS
<1>1. PICK db \in Stored :
          /\ users = db.users /\ identity = db.identity /\ admitted = db.admitted
          /\ open = db.open /\ claimed = db.claimed
  BY DEF Init
<1>2. /\ sessions = [t \in Tokens |-> None] /\ issued = 0 /\ now = 0 /\ boots = 0
      /\ boot = <<>> /\ up = FALSE /\ code = NoCode /\ work = [c \in Callers |-> NoPlan]
  BY DEF Init
<1>3. /\ db.users \in [UserIds -> Maybe(Users)]
      /\ db.identity \in [Identities -> Maybe(UserIds)]
      /\ db.admitted \in [Addresses -> Maybe(UserIds \cup {Unbound})]
      /\ db.open \in BOOLEAN /\ db.claimed \in BOOLEAN
      /\ \A i \in Identities : db.identity[i] # None => db.users[db.identity[i]] # None
      /\ \A a \in Addresses : db.admitted[a] \in UserIds => db.users[db.admitted[a]] # None
      /\ MaxTokens \in Nat /\ MaxBoots \in Nat /\ MaxTime \in Nat
  BY AdmissionAssumption DEF AdmissionAssumption
<1>4. /\ sessions \in [Tokens -> Maybe(Sessions)]
      /\ \A t \in Tokens : sessions[t] = None
  BY <1>2 DEF Maybe
<1>5. RowsOK
  <2>1. /\ users \in [UserIds -> Maybe(Users)]
        /\ identity \in [Identities -> Maybe(UserIds)]
        /\ admitted \in [Addresses -> Maybe(UserIds \cup {Unbound})]
        /\ open \in BOOLEAN /\ claimed \in BOOLEAN
        /\ \A i \in Identities : identity[i] # None => users[identity[i]] # None
        /\ \A a \in Addresses : admitted[a] \in UserIds => users[admitted[a]] # None
    BY <1>1, <1>3
  <2>2. issued \in 0..MaxTokens /\ now \in 0..MaxTime
    BY <1>2, <1>3
  <2> QED
    BY <1>4, <2>1, <2>2 DEF RowsOK, Present
<1>6. WorkOK
  BY <1>2, NothingPlanned DEF WorkOK
<1>7. BootOK
  <2>1. \A c \in Callers : ~Busy(c)
    BY <1>2, NothingPlanned DEF Busy
  <2>2. boot \in Seq(BootSteps) /\ BootLaid(boot)
    BY <1>2, NothingToBoot
  <2>3. boots \in 0..MaxBoots /\ code \in 0..boots /\ up \in BOOLEAN
    <3>1. boots = 0 /\ code = 0 /\ MaxBoots \in Nat
      BY <1>2, <1>3 DEF NoCode
    <3>2. up \in BOOLEAN
      <4>1. up = FALSE
        BY <1>2
      <4> QED
        BY <4>1, Zenon
    <3>3. boots \in 0..MaxBoots /\ code \in 0..boots
      BY <3>1
    <3> QED
      BY <3>2, <3>3
  <2> QED
    BY <1>2, <2>1, <2>2, <2>3 DEF BootOK
<1> QED
  BY <1>5, <1>6, <1>7 DEF Inv

LEMMA RequestKeepsInv ==
    ASSUME Inv, NEW c \in Callers, Arrive(c) \/ Step(c) \/ Cut(c)
    PROVE  Inv'
<1>1. RowsOK' /\ UNCHANGED <<now, boots, boot, up, code>>
  BY StepKeepsRows
<1>2. WorkOK' /\ up
  <2>1. CASE Arrive(c)
    BY <2>1, ArrivalIsLaid DEF Arrive
  <2>2. CASE Step(c) \/ Cut(c)
    BY <2>2, StepKeepsWork, UnderWay
  <2> QED
    BY <2>1, <2>2
<1> QED
  BY <1>1, <1>2, ServingKeepsBoot DEF Inv

LEMMA StartKeepsInv ==
    ASSUME Inv, Start
    PROVE  Inv'
<1>1. RowsOK'
  BY RowsStay DEF Start, tables, Inv, RowsOK
<1>2. WorkOK'
  BY DEF Start, Inv, WorkOK, PlanOK
<1>3. BootOK'
  <2>1. PICK config \in Configs : boot' = BootPlan(config)
    BY DEF Start
  <2>2. boot' \in Seq(BootSteps) /\ BootLaid(boot')
    BY <2>1, BootPlanIsLaid
  <2>3. Owners' = Owners
    BY DEF Start, tables, Owners, Present
  <2>4. BootLaid(boot)'
    BY <2>2, <2>3 DEF BootLaid
  <2>5. /\ boots' = boots + 1 /\ boots < MaxBoots /\ ~up /\ UNCHANGED <<up, code, work>>
    BY DEF Start
  <2>6. boots' \in 0..MaxBoots /\ code' \in 0..boots' /\ up' = FALSE
    BY <2>5, AdmissionAssumption DEF Inv, BootOK, AdmissionAssumption
  <2>7. \A c \in Callers : ~Busy(c)'
    BY <2>5 DEF Inv, BootOK, Busy
  <2> QED
    BY <2>2, <2>4, <2>6, <2>7 DEF BootOK
<1> QED
  BY <1>1, <1>2, <1>3 DEF Inv

LEMMA CrashKeepsInv ==
    ASSUME Inv, Crash
    PROVE  Inv'
<1>1. RowsOK'
  BY RowsStay DEF Crash, tables, Inv, RowsOK
<1>2. WorkOK' /\ \A c \in Callers : ~Busy(c)'
  BY NothingPlanned DEF Crash, WorkOK, PlanOK, Busy
<1>3. BootOK'
  <2>1. up' = FALSE /\ boot' = <<>> /\ code' = 0 /\ boots' = boots
    BY DEF Crash, NoCode
  <2>2. boots' \in 0..MaxBoots /\ code' \in 0..boots'
    BY <2>1, AdmissionAssumption DEF Inv, BootOK, AdmissionAssumption
  <2>3. (boot \in Seq(BootSteps))' /\ BootLaid(boot)'
    BY <2>1 DEF BootLaid
  <2> QED
    BY <1>2, <2>1, <2>2, <2>3 DEF BootOK
<1> QED
  BY <1>1, <1>2, <1>3 DEF Inv

LEMMA QuietStepsKeepInv ==
    ASSUME Inv, Tick \/ Sweep \/ UNCHANGED vars
    PROVE  Inv'
<1>1. UNCHANGED <<boots, boot, up, code, work, users>>
  BY DEF Tick, Sweep, vars, tables, process
<1>2. RowsOK'
  <2>1. CASE Tick
    <3>1. now' \in 0..MaxTime
      BY <2>1, AdmissionAssumption DEF Tick, Inv, RowsOK, AdmissionAssumption
    <3> QED
      BY <2>1, <3>1, RowsStay DEF Tick, tables, Inv, RowsOK
  <2>2. CASE UNCHANGED vars
    BY <2>2, RowsStay DEF vars, Inv, RowsOK
  <2> QED
    BY <2>1, <2>2, SweepKeepsRows
<1>3. WorkOK'
  BY <1>1 DEF Inv, WorkOK, PlanOK
<1>4. BootOK'
  <2>1. Owners' = Owners
    BY <1>1 DEF Owners, Present
  <2>2. BootLaid(boot)'
    BY <1>1, <2>1 DEF Inv, BootOK, BootLaid
  <2> QED
    BY <1>1, <2>2 DEF Inv, BootOK, Busy
<1> QED
  BY <1>2, <1>3, <1>4 DEF Inv

LEMMA InvKept == Inv /\ [Next]_vars => Inv'
<1> SUFFICES ASSUME Inv, [Next]_vars PROVE Inv'
  OBVIOUS
<1>1. CASE \E c \in Callers : Arrive(c) \/ Step(c) \/ Cut(c)
  BY <1>1, RequestKeepsInv
<1>2. CASE Start
  BY <1>2, StartKeepsInv
<1>3. CASE Boot
  BY <1>3, BootStepsKeep
<1>4. CASE Crash
  BY <1>4, CrashKeepsInv
<1>5. CASE Tick \/ Sweep \/ UNCHANGED vars
  BY <1>5, QuietStepsKeepInv
<1> QED
  BY <1>1, <1>2, <1>3, <1>4, <1>5 DEF Next

LEMMA InvHolds == Spec => []Inv
<1>1. Inv /\ [Next]_vars => Inv'
  BY InvKept
<1> QED
  BY InvAtTheStart, <1>1, PTL DEF Spec

(* The tables hold rows, an id in one names a row of another whatever      *)
(* accounts are closed meanwhile, and a request under way is a plan of     *)
(* steps the handlers really take.                                         *)
THEOREM AdmissionIsTyped == Spec => []AdmissionTypeOK
BY InvHolds, InvIsTyped, PTL

----------------------------------------------------------------------------
(* What no step does.                                                      *)

(* A step that leaves the claim of the server alone, or the owners.        *)
LEMMA ClaimsAreWon ==
    ASSUME Inv, NEW c \in Callers, Arrive(c) \/ Step(c) \/ Cut(c), claimed' # claimed
    PROVE  Win(c)
<1>1. CASE Looks(c)
  BY <1>1, LookingChangesNothing
<1>2. CASE Writes(c)
  BY <1>2 DEF Writes, Create, Attach, Refresh, Bind, Resume, Issue, End, Admit, Withdraw,
       SetOwner, SetOpen, Forget, Delete, Seed
<1> QED
  BY <1>1, <1>2, StepsLookOrWrite DEF Looks

LEMMA ClaimStep ==
    ASSUME Inv, [Next]_vars, claimed', ~claimed
    PROVE  Owners' # {} \/ \E c \in Callers : At(c, "win") /\ ~Present(Who(c))
<1>1. CASE \E c \in Callers : Arrive(c) \/ Step(c) \/ Cut(c)
  <2>1. PICK c \in Callers : Win(c)
    BY <1>1, ClaimsAreWon
  <2>2. FirstToClaim /\ At(c, "win") /\ c \in Callers
    BY <2>1 DEF FirstToClaim, Win
  <2> QED
    BY <2>1, <2>2, WinKeepsRows
<1>2. CASE Boot
  <2>1. BootClaim
    BY <1>2 DEF Boot, BootOpen, BootSeed, BootTie, BootOwn, OfferClaim, tables
  <2>2. Owners # {}
    <3>1. 1 \in 1..Len(boot) /\ boot[1].do = "claim"
      BY <2>1, HeadStep DEF BootClaim
    <3>2. BootLaid(boot)
      BY DEF Inv, BootOK
    <3> QED
      BY <3>1, <3>2 DEF BootLaid
  <2>3. Owners' = Owners
    BY <2>1 DEF BootClaim, Owners, Present
  <2> QED
    BY <2>2, <2>3
<1>3. CASE Start \/ Crash \/ Tick \/ Sweep \/ UNCHANGED vars
  BY <1>3 DEF Start, Crash, Tick, Sweep, vars, tables
<1> QED
  BY <1>1, <1>2, <1>3 DEF Next

(* A server is marked claimed only along with somebody owning it, whatever *)
(* races for the claim and wherever a boot is interrupted; but for a       *)
(* claimant whose own account another of their devices closes meanwhile.   *)
THEOREM ClaimsComeWithAnOwner == Spec => ClaimedWithAnOwner
<1>1. Inv /\ [Next]_vars =>
        [claimed' /\ ~claimed =>
           Owners' # {} \/ \E c \in Callers : At(c, "win") /\ ~Present(Who(c))]_vars
  BY ClaimStep
<1> QED
  BY <1>1, InvHolds, PTL DEF Spec, ClaimedWithAnOwner

(* Who is behind an address, after a step of a request.                    *)
LEMMA RequestKeepsBindings ==
    ASSUME Inv, NEW c \in Callers, Arrive(c) \/ Step(c) \/ Cut(c),
           NEW a \in Addresses, admitted[a] \in UserIds
    PROVE  \/ admitted'[a] = admitted[a] \/ admitted'[a] = None
           \/ users'[admitted[a]] = None
<1>1. admitted[a] # None /\ admitted[a] # Unbound
  BY NoneIsNobody
<1>2. CASE Looks(c)
  BY <1>2, LookingChangesNothing
<1>3. CASE Bind(c)
  BY <1>1, <1>3, BindKeepsRows
<1>4. CASE Admit(c) \/ Seed(c)
  BY <1>1, <1>4, AdmitKeepsRows, SeedKeepsRows
<1>5. CASE Withdraw(c) \/ Forget(c)
  BY <1>5, WithdrawKeepsRows, ForgetKeepsRows
<1>6. CASE Delete(c)
  BY <1>6, DeleteKeepsRows
<1>7. CASE \/ Create(c) \/ Attach(c) \/ Refresh(c) \/ Resume(c) \/ Issue(c) \/ End(c)
           \/ SetOwner(c) \/ SetOpen(c) \/ Win(c)
  BY <1>7 DEF Create, Attach, Refresh, Resume, Issue, End, SetOwner, SetOpen, Win
<1> QED
  BY <1>2, <1>3, <1>4, <1>5, <1>6, <1>7, StepsLookOrWrite DEF Looks, Writes

LEMMA BindingStep ==
    ASSUME Inv, [Next]_vars, NEW a \in Addresses,
           admitted[a] \in UserIds, admitted'[a] \in UserIds \cup {Unbound}
    PROVE  admitted'[a] = admitted[a] \/ users'[admitted[a]] = None
<1>1. admitted[a] # None /\ admitted[a] # Unbound /\ admitted'[a] # None
  BY NoneIsNobody
<1>2. CASE \E c \in Callers : Arrive(c) \/ Step(c) \/ Cut(c)
  BY <1>1, <1>2, RequestKeepsBindings
<1>3. CASE BootSeed
  BY <1>1, <1>3, SeededIsTyped DEF BootSeed
<1>4. CASE BootTie
  <2>1. CASE UNCHANGED admitted
    BY <2>1
  <2>2. CASE \E tie : admitted' = Bound(tie)
    <3>1. PICK tie : admitted' = Bound(tie)
      BY <2>2
    <3>2. CASE admitted[tie.address] # Unbound
      BY <3>1, <3>2 DEF Bound
    <3>3. CASE admitted[tie.address] = Unbound
      <4>1. a # tie.address
        BY <1>1, <3>3
      <4>2. admitted' = [admitted EXCEPT ![tie.address] = tie.user]
        BY <3>1, <3>3 DEF Bound
      <4> QED
        BY <4>1, <4>2 DEF Inv, RowsOK
    <3> QED
      BY <3>2, <3>3
  <2> QED
    BY <1>4, <2>1, <2>2 DEF BootTie
<1>5. CASE \/ BootOpen \/ BootOwn \/ BootClaim \/ OfferClaim
           \/ Start \/ Crash \/ Tick \/ Sweep \/ UNCHANGED vars
  BY <1>5 DEF BootOpen, BootOwn, BootClaim, OfferClaim, Start, Crash, Tick, Sweep,
       vars, tables
<1> QED
  BY <1>2, <1>3, <1>4, <1>5 DEF Next, Boot

(* An address stays with the person it was bound to as long as it is       *)
(* admitted and they are there, whoever signs in with it at the same time  *)
(* and through a boot.                                                     *)
THEOREM BindingsStay == Spec => BindingStays
<1>1. Inv /\ [Next]_vars =>
        [\A a \in Addresses :
           admitted[a] \in UserIds /\ admitted'[a] \in UserIds \cup {Unbound}
             => admitted'[a] = admitted[a] \/ users'[admitted[a]] = None]_vars
  BY BindingStep
<1> QED
  BY <1>1, InvHolds, PTL DEF Spec, BindingStays

(* A session that is over stays over.                                      *)
LEMMA RequestRevivesNothing ==
    ASSUME Inv, NEW c \in Callers, Arrive(c) \/ Step(c) \/ Cut(c),
           NEW t \in Tokens, t <= issued
    PROVE  sessions'[t] = sessions[t] \/ sessions'[t] = None \/ Live(t)
<1>1. CASE Looks(c)
  BY <1>1, LookingChangesNothing
<1>2. CASE Resume(c)
  BY <1>2, ResumeKeepsRows
<1>3. CASE Issue(c)
  <2>1. issued \in 0..MaxTokens
    BY DEF Inv, RowsOK
  <2>2. t # issued + 1
    BY <2>1 DEF Tokens
  <2> QED
    BY <1>3, <2>2, IssueKeepsRows
<1>4. CASE End(c) \/ Delete(c)
  BY <1>4, EndKeepsRows, DeleteKeepsRows
<1>5. CASE \/ Create(c) \/ Attach(c) \/ Refresh(c) \/ Bind(c) \/ Admit(c) \/ Withdraw(c)
           \/ SetOwner(c) \/ SetOpen(c) \/ Forget(c) \/ Win(c) \/ Seed(c)
  BY <1>5 DEF Create, Attach, Refresh, Bind, Admit, Withdraw, SetOwner, SetOpen, Forget,
       Win, Seed
<1> QED
  BY <1>1, <1>2, <1>3, <1>4, <1>5, StepsLookOrWrite DEF Looks, Writes

LEMMA OverStep ==
    ASSUME Inv, [Next]_vars, NEW t \in 1..issued, Over(t)
    PROVE  Over(t)'
<1>1. t \in Tokens /\ t <= issued
  BY AdmissionAssumption DEF Inv, RowsOK, Tokens, AdmissionAssumption
<1>2. now' = now \/ now' = now + 1
  <2>1. CASE \E c \in Callers : Arrive(c) \/ Step(c) \/ Cut(c)
    BY <2>1, StepKeepsRows
  <2>2. CASE \/ Start \/ Boot \/ Crash \/ Tick \/ Sweep \/ UNCHANGED vars
    BY <2>2 DEF Start, Boot, BootOpen, BootSeed, BootTie, BootOwn, BootClaim, OfferClaim,
         Crash, Tick, Sweep, vars, tables
  <2> QED
    BY <2>1, <2>2 DEF Next
<1>3. sessions'[t] = sessions[t] \/ sessions'[t] = None \/ Live(t)
  <2>1. CASE \E c \in Callers : Arrive(c) \/ Step(c) \/ Cut(c)
    BY <1>1, <2>1, RequestRevivesNothing
  <2>2. CASE Sweep
    BY <1>1, <2>2, SweepKeepsRows
  <2>3. CASE \/ Start \/ Boot \/ Crash \/ Tick \/ UNCHANGED vars
    BY <2>3 DEF Start, Boot, BootOpen, BootSeed, BootTie, BootOwn, BootClaim, OfferClaim,
         Crash, Tick, vars, tables
  <2> QED
    BY <2>1, <2>2, <2>3 DEF Next
<1>4. sessions[t] = None \/ sessions[t] \in Sessions
  BY <1>1 DEF Inv, RowsOK, Maybe
<1>5. now \in Nat /\ Idle \in Nat /\ MaxTime \in Nat
  BY AdmissionAssumption DEF Inv, RowsOK, AdmissionAssumption
<1>6. CASE sessions[t] = None
  BY <1>3, <1>6 DEF Over, Live
<1>7. CASE sessions[t] \in Sessions /\ now - sessions[t].used >= Idle
  <2>1. sessions[t].used \in Nat
    BY <1>5, <1>7 DEF Sessions
  <2>2. ~Live(t)
    BY <1>5, <1>7, <2>1 DEF Live
  <2>3. now' - sessions[t].used >= Idle
    BY <1>2, <1>5, <1>7, <2>1
  <2> QED
    BY <1>3, <2>2, <2>3 DEF Over
<1> QED
  BY <1>4, <1>6, <1>7 DEF Over

(* A session that is over, signed out, idle too long or gone with its      *)
(* account, never lets anybody in again: a request that arrives late       *)
(* cannot renew what has lapsed.                                           *)
THEOREM EndedSessionsStayEnded == Spec => EndedStaysEnded
<1>1. Inv /\ [Next]_vars => [\A t \in 1..issued : Over(t) => Over(t)']_vars
  BY OverStep
<1> QED
  BY <1>1, InvHolds, PTL DEF Spec, EndedStaysEnded

----------------------------------------------------------------------------
(* What a step puts in front of the rest of the plan.                      *)

Puts == {<<>>, <<"vet">>, <<"vet", "refresh">>, <<"attach", "refresh", "bind">>,
         <<"create", "attach">>, <<"create", "attach", "bind">>}
        \cup {<<t>> : t \in Aheads}

(* The steps that settle whether a request is let in.                      *)
Vetters == {"identify", "newcomer", "invited", "vet", "bound", "stored", "listed"}

LEMMA PutsAre ==
    ASSUME NEW s \in Puts
    PROVE  /\ s \in Seq(Steps)
           /\ ~Has(s, {"seed"}) /\ ~Has(s, DeedSteps)
           /\ \A i \in 2..Len(s) : s[i] \notin {"listed", "invited"}
<1>1. CASE s = <<>>
  BY <1>1 DEF Has
<1>2. CASE s \in {<<t>> : t \in Aheads}
  <2>1. PICK t \in Aheads : s = <<t>>
    BY <1>2
  <2>2. t \notin {"seed"} \cup DeedSteps
    BY DEF Aheads, DeedSteps
  <2> QED
    BY <2>1, <2>2, AheadsAre
<1>3. CASE s = <<"vet">>
  BY <1>3 DEF Has, Steps, DeedSteps
<1>4. CASE s = <<"vet", "refresh">>
  BY <1>4 DEF Has, Steps, DeedSteps
<1>6. CASE s = <<"attach", "refresh", "bind">>
  BY <1>6 DEF Has, Steps, DeedSteps
<1>7. CASE s = <<"create", "attach">>
  BY <1>7 DEF Has, Steps, DeedSteps
<1>8. CASE s = <<"create", "attach", "bind">>
  BY <1>8 DEF Has, Steps, DeedSteps
<1> QED
  BY <1>1, <1>2, <1>3, <1>4, <1>6, <1>7, <1>8 DEF Puts

(* What becomes of a request by a step of its own: whom it is about is     *)
(* settled once, and where it looks for an address it has just read it.    *)
LEMMA PlanAfter ==
    ASSUME Inv, NEW c \in Callers, Step(c) \/ Cut(c), work'[c] # NoPlan
    PROVE  /\ work'[c].asked = Ask(c)
           /\ \E s \in Puts :
                 /\ work'[c].plan = s \o Rest(c)
                 /\ s = <<"listed">> => ReadStored(c)
                 /\ s = <<"invited">> => Newcomer(c)
           /\ work'[c].subject = work[c].subject \/ MayOwn(c)
           /\ At(c, "win") => Win(c)
<1>0. Rest(c) \in Seq(Steps) /\ <<>> \o Rest(c) = Rest(c)
  BY StepKeepsWork, UnderWay, NothingPutInFront
<1>1. /\ {<<>>, <<"vet">>, <<"vet", "refresh">>, <<"attach", "refresh", "bind">>,
           <<"create", "attach">>, <<"create", "attach", "bind">>} \subseteq Puts
      /\ \A t \in Aheads : <<t>> \in Puts
  BY DEF Puts
<1>2. {"newcomer", "invited", "recognise", "bound", "stored", "listed", "bind"} \subseteq Aheads
  BY DEF Aheads
<1>3. ASSUME NEW s \in {<<>>, <<"vet">>, <<"vet", "refresh">>, <<"attach", "refresh", "bind">>,
                        <<"create", "attach">>, <<"create", "attach", "bind">>, <<"newcomer">>,
                        <<"recognise">>, <<"bound">>, <<"stored">>, <<"bind">>}
      PROVE  s \in Puts /\ s # <<"listed">> /\ s # <<"invited">>
  BY <1>1, <1>2, <1>3
<1> HIDE DEF Steps, Puts
<1> DEFINE Fine ==
             /\ work'[c].asked = Ask(c)
             /\ \E s \in Puts :
                   /\ work'[c].plan = s \o Rest(c)
                   /\ s = <<"listed">> => ReadStored(c)
                   /\ s = <<"invited">> => Newcomer(c)
             /\ work'[c].subject = work[c].subject \/ MayOwn(c)
<1>4. Fine
  <2>1. ASSUME NEW s \in {<<>>, <<"recognise">>, <<"bound">>, <<"stored">>, <<"bind">>}, Went(c, s)
        PROVE  Fine
    BY <1>3, <2>1 DEF Went
  <2>2. CASE Identify(c)
    BY <1>3, <2>2, IdentifyKeepsWork
  <2>3. CASE Vet(c)
    BY <2>1, <2>3, VetKeepsWork
  <2>4. CASE LookForBinding(c)
    BY <2>1, <2>4, LookForBindingKeepsWork
  <2>5. CASE ReadStored(c)
    <3>1. <<"listed">> \in Puts /\ <<"listed">> # <<"invited">>
      BY <1>1, <1>2
    <3> QED
      BY <2>5, <3>1, ReadStoredKeepsWork
  <2>6. CASE LookForListing(c)
    BY <2>1, <2>6, LookForListingKeepsWork
  <2>7. CASE Newcomer(c)
    <3>1. <<"invited">> \in Puts /\ <<"listed">> # <<"invited">>
      BY <1>1, <1>2
    <3>2. Went(c, <<"invited">>) => Fine
      BY <2>7, <3>1 DEF Went
    <3> QED
      BY <2>1, <2>7, <3>2, NewcomerKeepsWork
  <2>8. CASE LookForInvitation(c)
    BY <2>1, <2>8, LookForInvitationKeepsWork
  <2>9. CASE Recognise(c)
    BY <1>3, <2>9, RecogniseKeepsWork
  <2>10. CASE Create(c) \/ Resume(c) \/ MayOwn(c)
    BY <1>0, <1>3, <2>10, CreateKeepsWork, ResumeKeepsWork, MayOwnKeepsWork
  <2>11. CASE Ends(c)
    BY <2>11, EndingKeepsWork
  <2>12. CASE GoesOn(c)
    BY <2>1, <2>12, GoingOnKeepsWork
  <2> QED
    BY <2>2, <2>3, <2>4, <2>5, <2>6, <2>7, <2>8, <2>9, <2>10, <2>11, <2>12, StepKinds
<1>5. At(c, "win") => Win(c)
  <2> SUFFICES ASSUME At(c, "win") PROVE Win(c)
    OBVIOUS
  <2>1. ~Cut(c)
    BY EndingKeepsWork DEF Ends
  <2> QED
    BY <2>1 DEF Step, At, Identify, Vet, LookForBinding, ReadStored, LookForListing, Newcomer,
         LookForInvitation, Recognise, Create, Attach, Refresh, Bind, Resume, StillThere, Use,
         Issue, End, MayAdmit, Admit, MayWithdraw, Withdraw, MayOwn, SetOwner,
         MayOpen, SetOpen, MayClose, Forget, Delete, MayClaim, Seed, May
<1> QED
  BY <1>4, <1>5


----------------------------------------------------------------------------
(* What has happened meanwhile.  The history holds no step up, so what     *)
(* holds of Spec holds with it.                                            *)

LEMMA HistoryFollows ==
    /\ HistoryInit => Init
    /\ [HistoryNext]_<<vars, history>> => [Next]_vars
BY DEF HistoryInit, HistoryNext

LEMMA HistoryIsSpec == HistorySpec => Spec
BY HistoryFollows, PTL DEF HistorySpec, Spec

(* What a step is to a request.                                            *)
LEMMA WhoseStep ==
    ASSUME Inv, Next, NEW d \in Callers
    PROVE  \/ Arrive(d) \/ Step(d) \/ Cut(d)
           \/ work'[d] = NoPlan
           \/ work'[d] = work[d]
<1>1. CASE \E c \in Callers : Arrive(c) \/ Step(c) \/ Cut(c)
  <2>1. PICK c \in Callers : Arrive(c) \/ Step(c) \/ Cut(c)
    BY <1>1
  <2>2. \A e \in Callers \ {c} : work'[e] = work[e]
    BY <2>1, ArrivalIsLaid, StepKeepsWork
  <2> QED
    BY <2>1, <2>2
<1>2. CASE Crash
  BY <1>2 DEF Crash
<1>3. CASE Start \/ Boot \/ Tick \/ Sweep
  BY <1>3 DEF Start, Boot, BootOpen, BootSeed, BootTie, BootOwn, BootClaim, OfferClaim,
       Tick, Sweep
<1> QED
  BY <1>1, <1>2, <1>3 DEF Next

----------------------------------------------------------------------------
(* The claims that got through.                                            *)

ClaimInv == won \in {0, 1} /\ (won = 1 => claimed)

LEMMA ClaimingIsWinning ==
    ASSUME Inv, Next, NEW c \in Callers, Claims(c), users' # users
    PROVE  ~claimed /\ claimed'
<1>1. Busy(c) /\ At(c, "win") /\ work'[c] # work[c]
  BY DEF Claims, At
<1>2. ~Arrive(c)
  BY <1>1 DEF Arrive
<1>3. CASE Step(c) \/ Cut(c)
  <2>1. ~Cut(c)
    BY DEF Cut, tables
  <2>2. Win(c)
    BY <1>1, <1>3, <2>1 DEF Step, At, Identify, Vet, LookForBinding, ReadStored,
         LookForListing, Newcomer, LookForInvitation, Recognise, Create, Attach, Refresh, Bind,
         Resume, StillThere, Use, Issue, End, MayAdmit, Admit, MayWithdraw, Withdraw, MayOwn,
         SetOwner, MayOpen, SetOpen, MayClose, Forget, Delete, MayClaim, Seed, May
  <2> QED
    BY <2>2, WinKeepsRows DEF FirstToClaim
<1>4. CASE ~Step(c) /\ ~Cut(c)
  <2>1. ~(\E d \in Callers : Arrive(d) \/ Step(d) \/ Cut(d))
    <3> SUFFICES ASSUME NEW d \in Callers, Arrive(d) \/ Step(d) \/ Cut(d) PROVE FALSE
      OBVIOUS
    <3>1. d # c
      BY <1>2, <1>4
    <3>2. work'[c] = work[c]
      BY <3>1, ArrivalIsLaid, StepKeepsWork
    <3> QED
      BY <1>1, <3>2
  <2>2. CASE Boot
    <3>1. boot # <<>>
      BY <2>2 DEF Boot, BootOpen, BootSeed, BootTie, BootOwn, BootClaim, OfferClaim, Booting
    <3>2. up
      BY <1>1, UnderWay
    <3> QED
      BY <3>1, <3>2 DEF Inv, BootOK
  <2>3. CASE Start \/ Crash \/ Tick \/ Sweep
    BY <2>3 DEF Start, Crash, Tick, Sweep, tables
  <2> QED
    BY <2>1, <2>2, <2>3 DEF Next
<1> QED
  BY <1>3, <1>4

LEMMA ClaimStays ==
    ASSUME Inv, [Next]_vars, claimed
    PROVE  claimed'
<1>1. CASE \E c \in Callers : Arrive(c) \/ Step(c) \/ Cut(c)
  <2>1. PICK c \in Callers : Arrive(c) \/ Step(c) \/ Cut(c)
    BY <1>1
  <2>2. CASE claimed' = claimed
    BY <2>2
  <2>3. CASE claimed' # claimed
    <3>1. Win(c)
      BY <2>1, <2>3, ClaimsAreWon
    <3> QED
      BY <3>1 DEF Win, FirstToClaim
  <2> QED
    BY <2>2, <2>3
<1>2. CASE Boot \/ Start \/ Crash \/ Tick \/ Sweep \/ UNCHANGED vars
  BY <1>2 DEF Boot, BootOpen, BootSeed, BootTie, BootOwn, BootClaim, OfferClaim,
       Start, Crash, Tick, Sweep, vars, tables
<1> QED
  BY <1>1, <1>2 DEF Next

LEMMA ClaimInvKept ==
    ASSUME Inv, ClaimInv, [HistoryNext]_<<vars, history>>
    PROVE  ClaimInv'
<1>1. claimed => claimed'
  BY ClaimStays, HistoryFollows
<1>2. CASE UNCHANGED <<vars, history>>
  BY <1>2 DEF ClaimInv, history, vars
<1>3. CASE HistoryNext
  <2>1. CASE users' # users /\ \E c \in Callers : Claims(c)
    <3>1. ~claimed /\ claimed'
      BY <1>3, <2>1, ClaimingIsWinning DEF HistoryNext
    <3>2. won = 0
      BY <3>1 DEF ClaimInv
    <3>3. won' = 1
      BY <1>3, <2>1, <3>2 DEF HistoryNext, Remember
    <3> QED
      BY <3>1, <3>3 DEF ClaimInv
  <2>2. CASE ~(users' # users /\ \E c \in Callers : Claims(c))
    <3>1. won' = won
      BY <1>3, <2>2 DEF HistoryNext, Remember, ClaimInv
    <3> QED
      BY <1>1, <3>1 DEF ClaimInv
  <2> QED
    BY <2>1, <2>2
<1> QED
  BY <1>2, <1>3

(* Of the claims that race for a server, across restarts, at most one gets *)
(* through.                                                                *)
THEOREM ClaimsAreWonOnce == HistorySpec => []OneClaimWins
<1>1. HistoryInit => ClaimInv
  BY DEF HistoryInit, ClaimInv
<1>2. Inv /\ ClaimInv /\ [HistoryNext]_<<vars, history>> => ClaimInv'
  BY ClaimInvKept
<1>3. ClaimInv => OneClaimWins
  BY DEF ClaimInv, OneClaimWins
<1> QED
  BY <1>1, <1>2, <1>3, HistoryIsSpec, InvHolds, PTL DEF HistorySpec

----------------------------------------------------------------------------
(* Who stood behind an address.                                            *)

(* Whoever seeds an address has won the claim with it, or has that ahead.  *)
SeedWaits(c) ==
    Busy(c) => Ask(c).email \in vouched \/ Waits(work[c].plan, {"seed"}, {"win"})

VouchInv ==
    /\ EveryAddressWasVouchedFor
    /\ \A c \in Callers : SeedWaits(c)

LEMMA VouchedStays ==
    ASSUME Remember
    PROVE  /\ \A a : a \in vouched => a \in vouched'
           /\ \A c \in Callers : At(c, "admit") => Ask(c).address \in vouched'
           /\ \A c \in Callers : Claims(c) /\ claimed' # claimed => Ask(c).email \in vouched'
           /\ \A k \in DOMAIN boot : boot[k].address \in vouched'
BY DEF Remember

LEMMA AdmittingIsVouching ==
    ASSUME Inv, VouchInv, Next, Remember, NEW a \in Addresses,
           admitted[a] = None, admitted'[a] # None
    PROVE  a \in vouched'
<1>1. CASE \E c \in Callers : Arrive(c) \/ Step(c) \/ Cut(c)
  <2>1. PICK c \in Callers : Arrive(c) \/ Step(c) \/ Cut(c)
    BY <1>1
  <2>2. CASE Admit(c)
    <3>1. a = Ask(c).address /\ At(c, "admit")
      BY <2>2, AdmitKeepsRows DEF Admit
    <3> QED
      BY <3>1, VouchedStays
  <2>3. CASE Seed(c)
    <3>1. a = Ask(c).email /\ Busy(c) /\ Head(work[c].plan) = "seed"
      BY <2>3, SeedKeepsRows DEF Seed, At
    <3>2. ~Waits(work[c].plan, {"seed"}, {"win"})
      <4>1. work[c].plan \in Seq(Steps) /\ work[c].plan # <<>>
        BY <3>1, UnderWay
      <4> QED
        BY <3>1, <4>1, NotWaiting
    <3> QED
      BY <3>1, <3>2, VouchedStays DEF VouchInv, SeedWaits
  <2>4. CASE Bind(c) \/ Withdraw(c) \/ Forget(c) \/ Delete(c)
    BY <2>4, BindKeepsRows, WithdrawKeepsRows, ForgetKeepsRows, DeleteKeepsRows, NoneIsNobody
  <2>5. CASE admitted' = admitted
    BY <2>5
  <2>6. CASE Looks(c)
    BY <2>5, <2>6, LookingChangesNothing
  <2>7. CASE \/ Create(c) \/ Attach(c) \/ Refresh(c) \/ Resume(c) \/ Issue(c) \/ End(c)
             \/ SetOwner(c) \/ SetOpen(c) \/ Win(c)
    BY <2>5, <2>7 DEF Create, Attach, Refresh, Resume, Issue, End, SetOwner, SetOpen, Win
  <2> QED
    BY <2>1, <2>2, <2>3, <2>4, <2>6, <2>7, StepsLookOrWrite DEF Looks, Writes
<1>2. CASE BootSeed
  <2>1. a = Head(boot).address
    BY <1>2, SeededIsTyped DEF BootSeed
  <2>2. Head(boot) = boot[1] /\ 1 \in DOMAIN boot
    <3>1. Booting("seed") /\ boot \in Seq(BootSteps)
      BY <1>2 DEF BootSeed, Inv, BootOK
    <3> QED
      BY <3>1, HeadStep
  <2> QED
    BY <2>1, <2>2, VouchedStays
<1>3. CASE BootTie
  <2>1. ASSUME NEW tie, admitted' = Bound(tie) PROVE admitted'[a] = None
    <3>1. CASE admitted[tie.address] # Unbound
      BY <2>1, <3>1 DEF Bound
    <3>2. CASE admitted[tie.address] = Unbound
      <4>1. a # tie.address
        BY <3>2, NoneIsNobody
      <4>2. admitted' = [admitted EXCEPT ![tie.address] = tie.user]
        BY <2>1, <3>2 DEF Bound
      <4> QED
        BY <4>1, <4>2 DEF Inv, RowsOK
    <3> QED
      BY <3>1, <3>2
  <2> QED
    BY <1>3, <2>1 DEF BootTie
<1>4. CASE \/ BootOpen \/ BootOwn \/ BootClaim \/ OfferClaim
           \/ Start \/ Crash \/ Tick \/ Sweep
  BY <1>4 DEF BootOpen, BootOwn, BootClaim, OfferClaim, Start, Crash, Tick, Sweep, tables
<1> QED
  BY <1>1, <1>2, <1>3, <1>4 DEF Next, Boot

LEMMA SeedStillWaits ==
    ASSUME Inv, VouchInv, Next, Remember, NEW c \in Callers
    PROVE  SeedWaits(c)'
<1> SUFFICES ASSUME Busy(c)'
             PROVE  \/ work'[c].asked.email \in vouched'
                    \/ Waits(work'[c].plan, {"seed"}, {"win"})
  BY DEF SeedWaits, Ask
<1>0. work'[c] # NoPlan
  BY DEF Busy, NoPlan
<1>1. CASE work'[c] = work[c]
  <2>1. Busy(c)
    BY <1>1 DEF Busy
  <2> QED
    BY <1>1, <2>1, VouchedStays DEF VouchInv, SeedWaits, Ask
<1>2. CASE Arrive(c)
  <2>1. PICK asked \in Requests : work'[c].plan = OpeningPlan(asked)
    BY <1>2, ArrivalIsLaid
  <2> QED
    BY <2>1, OpeningIsLaid
<1>3. CASE Step(c) \/ Cut(c)
  <2>1. Busy(c) /\ work[c].plan \in Seq(Steps) /\ work[c].plan # <<>>
    BY <1>3, StepKeepsWork, UnderWay
  <2>2. PICK s \in Puts : work'[c].plan = s \o Rest(c)
    BY <1>0, <1>3, PlanAfter
  <2>3. work'[c].asked = Ask(c)
    BY <1>0, <1>3, PlanAfter
  <2>4. CASE Ask(c).email \in vouched
    BY <2>3, <2>4, VouchedStays
  <2>5. CASE At(c, "win")
    <3>1. Win(c)
      BY <1>0, <1>3, <2>5, PlanAfter
    <3>2. FirstToClaim
      BY <1>0, <3>1 DEF Win, Refuse, Becomes, Inv, WorkOK
    <3>3. claimed' # claimed
      BY <3>1, <3>2, WinKeepsRows DEF FirstToClaim
    <3>4. work'[c] # work[c]
      <4>1. Rest(c) \in Seq(Steps)
        BY <2>1, UnderWay
      <4>2. work'[c].plan = Rest(c)
        BY <1>0, <3>1, <4>1, GoingOnKeepsWork, NothingPutInFront DEF GoesOn, Went
      <4>3. Len(Rest(c)) # Len(work[c].plan)
        BY <2>1, HeadAndTail DEF Rest
      <4> QED
        BY <4>2, <4>3
    <3> QED
      BY <2>3, <2>5, <3>3, <3>4, VouchedStays DEF Claims
  <2>6. CASE Waits(work[c].plan, {"seed"}, {"win"}) /\ ~At(c, "win")
    <3>1. s \in Seq(Steps) /\ Waits(s, {"seed"}, {"win"})
      BY PutsAre DEF Has, Waits
    <3>2. Head(work[c].plan) \notin {"win"}
      BY <2>1, <2>6 DEF At
    <3>3. Waits(s \o Tail(work[c].plan), {"seed"}, {"win"})
      BY <2>1, <2>6, <3>1, <3>2, WaitsStep
    <3> QED
      BY <2>2, <3>3 DEF Rest
  <2> QED
    BY <2>1, <2>4, <2>5, <2>6 DEF VouchInv, SeedWaits
<1> QED
  BY <1>0, <1>1, <1>2, <1>3, WhoseStep

LEMMA VouchInvKept ==
    ASSUME Inv, VouchInv, [HistoryNext]_<<vars, history>>
    PROVE  VouchInv'
<1>1. CASE UNCHANGED <<vars, history>>
  BY <1>1 DEF VouchInv, EveryAddressWasVouchedFor, SeedWaits, Busy, Ask, history, vars
<1>2. CASE HistoryNext
  <2>1. Next /\ Remember
    BY <1>2 DEF HistoryNext
  <2>2. ASSUME NEW a \in Addresses, admitted'[a] # None PROVE a \in vouched'
    BY <2>1, <2>2, AdmittingIsVouching, VouchedStays DEF VouchInv, EveryAddressWasVouchedFor
  <2>3. ASSUME NEW c \in Callers PROVE SeedWaits(c)'
    BY <2>1, SeedStillWaits
  <2> QED
    BY <2>2, <2>3 DEF VouchInv, EveryAddressWasVouchedFor
<1> QED
  BY <1>1, <1>2

(* Every admitted address was vouched for: an owner admitted it, the       *)
(* configuration named it, or whoever won the claim brought it.  Somebody  *)
(* who claims and loses admits nobody.                                     *)
THEOREM AddressesAreVouchedFor == HistorySpec => []EveryAddressWasVouchedFor
<1>1. HistoryInit => VouchInv
  BY DEF HistoryInit, Init, VouchInv, EveryAddressWasVouchedFor, SeedWaits, Busy, NoPlan
<1>2. Inv /\ VouchInv /\ [HistoryNext]_<<vars, history>> => VouchInv'
  BY VouchInvKept
<1>3. VouchInv => EveryAddressWasVouchedFor
  BY DEF VouchInv
<1> QED
  BY <1>1, <1>2, <1>3, HistoryIsSpec, InvHolds, PTL DEF HistorySpec

----------------------------------------------------------------------------
(* Whether a request was let in.                                           *)

(* A step that settles whether a request is let in is still ahead of the   *)
(* deed, or it has been seen that it may be; that much is noted as soon as *)
(* it is so.  The address that is looked up next was one of its account's, *)
(* and a newcomer who is looked for came with one.                         *)
ActPart(c) ==
    Busy(c) =>
        /\ \/ Ask(c).deed = "claim"
           \/ could[c]
           \/ work[c].subject = Unbound /\ Waits(work[c].plan, DeedSteps, Vetters)
        /\ Admissible(c) => could[c]
        /\ Address(c) \subseteq had[c]
        /\ \A i \in 2..Len(work[c].plan) : work[c].plan[i] \notin {"listed", "invited"}
        /\ At(c, "listed") /\ work[c].subject = Unbound => work[c].tie.address \in had[c]
        /\ At(c, "invited") => Ask(c).email # None

ActInv == \A c \in Callers : ActPart(c)

LEMMA Remembering ==
    ASSUME Remember, NEW c \in Callers, Busy(c)'
    PROVE  /\ had[c] \subseteq had'[c] /\ Address(c)' \subseteq had'[c]
           /\ could[c] => could'[c]
           /\ Admissible(c)' => could'[c]
<1>1. had'[c] = had[c] \cup Address(c)'
  BY DEF Remember
<1>2. could'[c] = (Busy(c)' /\ (could[c] \/ Admissible(c)'))
  BY DEF Remember
<1> QED
  BY <1>1, <1>2

(* Of what is asked about somebody found out first.                        *)
LEMMA DeedsVetNobody ==
    ASSUME NEW d, DeedLaid(d), NEW s \in {<<"identify">>, <<"resume", "there", "vet">>}
    PROVE  /\ Waits(s \o d, DeedSteps, Vetters)
           /\ ~Has(s \o d, {"listed", "invited"})
<1>1. d \in Seq(Steps) /\ ~Has(d, {"listed", "invited"})
  BY DEF DeedLaid, Has, Identified, Tying, Finding
<1>2. /\ s \in Seq(Steps) /\ Waits(s, DeedSteps, Vetters) /\ Has(s, Vetters)
      /\ ~Has(s, {"listed", "invited"})
  <2>1. CASE s = <<"identify">>
    BY <2>1 DEF Waits, Has, DeedSteps, Vetters, Steps
  <2>2. CASE s = <<"resume", "there", "vet">>
    BY <2>2 DEF Waits, Has, DeedSteps, Vetters, Steps
  <2> QED
    BY <2>1, <2>2
<1> QED
  BY <1>1, <1>2, WaitsJoined, HasJoined

LEMMA EndVetsNobody ==
    Waits(<<"end">>, DeedSteps, Vetters) /\ ~Has(<<"end">>, {"listed", "invited"})
BY DEF Waits, Has, DeedSteps

LEMMA OpeningVets ==
    ASSUME NEW asked
    PROVE  /\ asked.deed # "claim" => Waits(OpeningPlan(asked), DeedSteps, Vetters)
           /\ ~Has(OpeningPlan(asked), {"listed", "invited"})
<1>1. CASE asked.deed = "claim"
  <2>1. OpeningPlan(asked) = ClaimPlan
    BY <1>1 DEF OpeningPlan
  <2> QED
    BY <1>1, <2>1, ClaimIsLaid
<1>2. CASE asked.deed = "end"
  <2>1. OpeningPlan(asked) = <<"end">>
    BY <1>2 DEF OpeningPlan
  <2> QED
    BY <2>1, EndVetsNobody
<1>3. CASE asked.deed # "claim" /\ asked.deed # "end"
  <2> DEFINE s == IF asked.via = "session" THEN <<"resume", "there", "vet">> ELSE <<"identify">>
             d == DeedPlan(asked)
  <2>1. OpeningPlan(asked) = s \o d
    BY <1>3 DEF OpeningPlan
  <2>2. s \in {<<"identify">>, <<"resume", "there", "vet">>} /\ DeedLaid(d)
    BY DeedsAreLaid
  <2> HIDE DEF s, d
  <2> QED
    BY <2>1, <2>2, DeedsVetNobody
<1> QED
  BY <1>1, <1>2, <1>3

(* A look that lets a request in has seen what lets it in; the others lead *)
(* to the next look.                                                       *)
LEMMA LookingVets ==
    ASSUME Inv, NEW c \in Callers, ActPart(c), Step(c) \/ Cut(c), work'[c] # NoPlan,
           Head(work[c].plan) \in Vetters, work[c].subject = Unbound
    PROVE  \/ Admissible(c)
           \/ \E s \in {<<"newcomer">>, <<"vet">>, <<"vet", "refresh">>, <<"bound">>,
                        <<"stored">>, <<"listed">>, <<"invited">>} :
                 work'[c].plan = s \o Rest(c)
<1>1. Busy(c)
  BY StepKeepsWork
<1>2. Head(work[c].plan) \notin Anonymous => Who(c) # Unbound /\ Vetted(c) = Who(c)
  <2>1. Head(work[c].plan) \notin Anonymous => Who(c) \in UserIds
    BY <1>1, UnderWay, LaidHead
  <2> QED
    BY <2>1 DEF Vetted, UserIds, Unbound
<1>3. ~Cut(c)
  BY EndingKeepsWork DEF Ends
<1>4. \/ Identify(c) \/ Newcomer(c) \/ LookForInvitation(c) \/ Vet(c) \/ LookForBinding(c)
      \/ ReadStored(c) \/ LookForListing(c)
  BY <1>3 DEF Step, At, Vetters, Create, Attach, Refresh, Bind, Resume, StillThere, Recognise,
     Use, Issue, End, MayAdmit, Admit, MayWithdraw, Withdraw, MayOwn, SetOwner, MayOpen,
     SetOpen, MayClose, Forget, Delete, MayClaim, Win, Seed, May
<1>5. CASE Identify(c)
  BY <1>5, IdentifyKeepsWork
<1>6. CASE Newcomer(c)
  <2>1. IsNew(c)
    BY <1>6 DEF Newcomer, IsNew
  <2> QED
    BY <1>6, <2>1, NewcomerKeepsWork DEF Went, Admissible
<1>7. CASE LookForInvitation(c)
  <2>1. At(c, "invited") /\ IsNew(c)
    BY <1>7 DEF LookForInvitation, IsNew
  <2>2. Ask(c).email # None
    BY <1>1, <2>1 DEF ActPart
  <2> QED
    BY <1>7, <2>1, <2>2, LookForInvitationKeepsWork DEF Admissible
<1>8. CASE Vet(c)
  <2>1. Who(c) # Unbound
    BY <1>2, <1>8 DEF Vet, At, Anonymous, Finding
  <2> QED
    BY <1>8, <2>1, VetKeepsWork DEF Went, Admissible
<1>9. CASE LookForBinding(c)
  <2>1. Who(c) # Unbound /\ Vetted(c) = Who(c)
    BY <1>2, <1>9 DEF LookForBinding, At, Anonymous, Finding
  <2> QED
    BY <1>9, <2>1, LookForBindingKeepsWork DEF Went, Admissible
<1>10. CASE ReadStored(c)
  BY <1>10, ReadStoredKeepsWork
<1>11. CASE LookForListing(c)
  <2>1. work[c].tie.address \in had[c]
    BY <1>1, <1>11 DEF ActPart, LookForListing
  <2> QED
    BY <1>11, <2>1, LookForListingKeepsWork DEF Admissible
<1> QED
  BY <1>4, <1>5, <1>6, <1>7, <1>8, <1>9, <1>10, <1>11

LEMMA VettingGoesOn ==
    ASSUME Inv, Remember, NEW c \in Callers, ActPart(c), Step(c) \/ Cut(c), Busy(c)'
    PROVE  ActPart(c)'
<1>0. work'[c] # NoPlan
  BY DEF Busy, NoPlan
<1>1. Busy(c) /\ work[c].plan \in Seq(Steps) /\ work[c].plan # <<>> /\ Rest(c) = Tail(work[c].plan)
  BY StepKeepsWork, UnderWay DEF Rest
<1>2. PICK s \in Puts :
        /\ work'[c].plan = s \o Rest(c)
        /\ s = <<"listed">> => ReadStored(c)
        /\ s = <<"invited">> => Newcomer(c)
  BY <1>0, PlanAfter
<1>3. work'[c].asked = Ask(c) /\ (work'[c].subject = work[c].subject \/ MayOwn(c))
  BY <1>0, PlanAfter
<1>4. s \in Seq(Steps) /\ Rest(c) \in Seq(Steps)
  BY <1>1, PutsAre, UnderWay
<1>5. \/ Ask(c).deed = "claim"
      \/ could'[c]
      \/ work'[c].subject = Unbound /\ Waits(work'[c].plan, DeedSteps, Vetters)
  <2> SUFFICES ASSUME Ask(c).deed # "claim", ~could[c]
               PROVE  \/ could'[c]
                      \/ /\ work'[c].subject = Unbound
                         /\ Waits(work'[c].plan, DeedSteps, Vetters)
    BY Remembering
  <2>1. work[c].subject = Unbound /\ Waits(work[c].plan, DeedSteps, Vetters) /\ ~Admissible(c)
    BY <1>1 DEF ActPart
  <2>2. ~MayOwn(c)
    <3>1. Head(work[c].plan) \notin DeedSteps
      BY <1>1, <2>1, NotWaiting
    <3> QED
      BY <3>1 DEF MayOwn, At, DeedSteps
  <2>3. CASE Head(work[c].plan) \notin Vetters
    <3>1. Waits(s, DeedSteps, Vetters)
      BY PutsAre DEF Has, Waits
    <3>2. Waits(s \o Tail(work[c].plan), DeedSteps, Vetters)
      BY <1>1, <1>4, <2>1, <2>3, <3>1, WaitsStep
    <3> QED
      BY <1>1, <1>2, <1>3, <2>1, <2>2, <3>2
  <2>4. CASE Head(work[c].plan) \in Vetters
    <3>1. PICK t \in {<<"newcomer">>, <<"vet">>, <<"vet", "refresh">>, <<"bound">>,
                      <<"stored">>, <<"listed">>, <<"invited">>} :
              work'[c].plan = t \o Rest(c)
      BY <1>0, <2>1, <2>4, LookingVets
    <3>2. t \in Seq(Steps) /\ Waits(t, DeedSteps, Vetters) /\ Has(t, Vetters)
      <4>1. CASE t = <<"vet", "refresh">>
        BY <4>1 DEF Waits, Has, DeedSteps, Vetters, Steps
      <4>2. CASE t # <<"vet", "refresh">>
        <5>1. PICK x \in {"newcomer", "vet", "bound", "stored", "listed", "invited"} : t = <<x>>
          BY <4>2
        <5>2. x \in Steps /\ x \in Vetters /\ x \notin DeedSteps
          BY DEF Steps, Vetters, DeedSteps
        <5> QED
          BY <5>1, <5>2 DEF Waits, Has
      <4> QED
        BY <4>1, <4>2
    <3>3. Waits(t \o Tail(work[c].plan), DeedSteps, Vetters)
      BY <1>1, <2>1, <3>2, WaitsStep
    <3> QED
      BY <1>1, <1>3, <2>1, <2>2, <3>1, <3>3
  <2> QED
    BY <2>3, <2>4
<1>6. ~Has(Rest(c), {"listed", "invited"})
  <2> SUFFICES ASSUME NEW i \in 1..Len(Rest(c)) PROVE Rest(c)[i] \notin {"listed", "invited"}
    BY DEF Has
  <2>1. Rest(c)[i] = work[c].plan[i + 1] /\ i + 1 \in 1..Len(work[c].plan)
    BY <1>1, HeadAndTail
  <2>2. i + 1 \in 2..Len(work[c].plan)
    BY <2>1
  <2> QED
    BY <1>1, <2>1, <2>2 DEF ActPart
<1>7. \A i \in 2..Len(work'[c].plan) : work'[c].plan[i] \notin {"listed", "invited"}
  <2> SUFFICES ASSUME NEW i \in 2..Len(s \o Rest(c))
               PROVE  (s \o Rest(c))[i] \notin {"listed", "invited"}
    BY <1>2
  <2>1. i \in 1..Len(s \o Rest(c))
    OBVIOUS
  <2>2. \/ i \in 1..Len(s) /\ (s \o Rest(c))[i] = s[i]
        \/ i - Len(s) \in 1..Len(Rest(c)) /\ (s \o Rest(c))[i] = Rest(c)[i - Len(s)]
    BY <1>4, <2>1, Joined
  <2>3. i \in 1..Len(s) => i \in 2..Len(s)
    OBVIOUS
  <2> QED
    BY <1>6, <2>2, <2>3, PutsAre DEF Has
<1>8. Head(work'[c].plan) \in {"listed", "invited"} => s = <<Head(work'[c].plan)>>
  <2> SUFFICES ASSUME Head(s \o Rest(c)) \in {"listed", "invited"}, s \o Rest(c) # <<>>
               PROVE  s = <<Head(s \o Rest(c))>>
    BY <1>2 DEF Busy
  <2>1. s \o Rest(c) \in Seq(Steps) /\ Head(s \o Rest(c)) = (s \o Rest(c))[1]
        /\ 1 \in 1..Len(s \o Rest(c))
    BY <1>4, Joined, HeadAndTail
  <2>2. s # <<>> /\ Head(s \o Rest(c)) = s[1]
    <3>1. \/ 1 \in 1..Len(s) /\ (s \o Rest(c))[1] = s[1]
          \/ 1 - Len(s) \in 1..Len(Rest(c)) /\ (s \o Rest(c))[1] = Rest(c)[1 - Len(s)]
      BY <1>4, <2>1, Joined
    <3> QED
      BY <1>6, <2>1, <3>1 DEF Has
  <2>3. s \in {<<t>> : t \in Aheads}
    BY <2>2 DEF Puts
  <2> QED
    BY <2>2, <2>3
<1>9. At(c, "listed")' /\ work'[c].subject = Unbound => work'[c].tie.address \in had'[c]
  <2> SUFFICES ASSUME At(c, "listed")', work'[c].subject = Unbound
               PROVE  work'[c].tie.address \in had'[c]
    OBVIOUS
  <2>1. ReadStored(c)
    BY <1>2, <1>8 DEF At
  <2>2. /\ Present(Vetted(c)) /\ users[Vetted(c)].email # None
        /\ work'[c].tie.address = users[Vetted(c)].email
        /\ work'[c].subject = work[c].subject
    BY <1>0, <2>1, ReadStoredKeepsWork
  <2>3. Vetted(c) = Who(c) /\ Who(c) # Unbound
    <3>1. Who(c) \in UserIds
      BY <1>1, <2>1, UnderWay, LaidHead DEF ReadStored, At, Anonymous, Finding
    <3> QED
      BY <2>2, <3>1 DEF Vetted, UserIds, Unbound
  <2>4. Address(c) = {users[Who(c)].email}
    BY <1>1, <2>2, <2>3 DEF Address
  <2> QED
    BY <1>1, <2>2, <2>3, <2>4, Remembering DEF ActPart
<1>10. At(c, "invited")' => Ask(c).email # None
  <2> SUFFICES ASSUME At(c, "invited")' PROVE Ask(c).email # None
    OBVIOUS
  <2>1. Newcomer(c) /\ s = <<"invited">>
    BY <1>2, <1>8 DEF At
  <2>2. CASE Went(c, <<"recognise">>)
    <3>1. Head(<<"recognise">> \o Rest(c)) = "recognise"
      BY <1>4
    <3> QED
      BY <2>2, <3>1 DEF Went, At
  <2> QED
    BY <1>0, <2>1, <2>2, NewcomerKeepsWork
<1>11. Ask(c)' = Ask(c)
  BY <1>3 DEF Ask
<1> QED
  BY <1>5, <1>7, <1>9, <1>10, <1>11, Remembering DEF ActPart

LEMMA ActInvKept ==
    ASSUME Inv, ActInv, Next, Remember
    PROVE  ActInv'
<1> SUFFICES ASSUME NEW c \in Callers, Busy(c)' PROVE ActPart(c)'
  BY DEF ActInv, ActPart
<1>0. work'[c] # NoPlan
  BY DEF Busy, NoPlan
<1>1. CASE Step(c) \/ Cut(c)
  BY <1>1, VettingGoesOn DEF ActInv
<1>2. CASE Arrive(c)
  <2>1. PICK asked \in Requests :
          work'[c].asked = asked /\ work'[c].plan = OpeningPlan(asked)
    BY <1>2, ArrivalIsLaid
  <2>2. work'[c].subject = Unbound
    BY <1>2, ArrivalIsLaid
  <2>3. ~Has(OpeningPlan(asked), {"listed", "invited"}) /\ OpeningPlan(asked) \in Seq(Steps)
    BY OpeningVets, OpeningIsLaid
  <2>4. \A i \in 2..Len(work'[c].plan) : work'[c].plan[i] \notin {"listed", "invited"}
    BY <2>1, <2>3 DEF Has
  <2>5. ~At(c, "listed")' /\ ~At(c, "invited")'
    BY <2>1, <2>3, HasTail DEF At, Busy
  <2>6. Ask(c)'.deed = "claim" \/ Waits(work'[c].plan, DeedSteps, Vetters)
    BY <2>1, OpeningVets DEF Ask
  <2> QED
    BY <2>2, <2>4, <2>5, <2>6, Remembering DEF ActPart
<1>3. CASE work'[c] = work[c]
  <2>1. Busy(c) /\ Ask(c)' = Ask(c)
    BY <1>3 DEF Busy, Ask
  <2>2. (At(c, "listed")' <=> At(c, "listed")) /\ (At(c, "invited")' <=> At(c, "invited"))
    BY <1>3 DEF At, Busy
  <2> QED
    BY <1>3, <2>1, <2>2, Remembering DEF ActInv, ActPart
<1> QED
  BY <1>0, <1>1, <1>2, <1>3, WhoseStep

(* A request gets to act only if, since it was found which account it      *)
(* comes from, the server was open, or an address was bound to the         *)
(* account, or one it had had by then was admitted (or, for somebody new,  *)
(* the one they came with), however the statements that look for each fall *)
(* between other people's.                                                 *)
THEOREM OnlyTheAdmittedAct == HistorySpec => []ActsOnlyIfAdmitted
<1>1. HistoryInit => ActInv
  BY DEF HistoryInit, Init, ActInv, ActPart, Busy, NoPlan
<1>2. Inv /\ ActInv /\ [HistoryNext]_<<vars, history>> => ActInv'
  <2>1. CASE UNCHANGED <<vars, history>>
    BY <2>1 DEF ActInv, ActPart, Admissible, Address, IsNew, At, Ask, Who, Present, BoundTo,
         Busy, history, vars
  <2> QED
    BY <2>1, ActInvKept DEF HistoryNext
<1>3. Inv /\ ActInv => ActsOnlyIfAdmitted
  <2> SUFFICES ASSUME Inv, ActInv, NEW c \in Callers, Acting(c)
               PROVE  could[c]
    BY DEF ActsOnlyIfAdmitted
  <2>1. Busy(c) /\ Head(work[c].plan) \in DeedSteps /\ Ask(c).deed # "claim"
    BY DEF Acting
  <2>2. work[c].plan \in Seq(Steps) /\ work[c].plan # <<>>
    BY <2>1, UnderWay
  <2>3. ~Waits(work[c].plan, DeedSteps, Vetters)
    BY <2>1, <2>2, NotWaiting
  <2> QED
    BY <2>1, <2>3 DEF ActInv, ActPart
<1> QED
  BY <1>1, <1>2, <1>3, HistoryIsSpec, InvHolds, PTL DEF HistorySpec
=============================================================================
