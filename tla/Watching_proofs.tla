-------------------------- MODULE Watching_proofs --------------------------
(***************************************************************************)
(* Proofs about Watching: its types, and that a screen which has read      *)
(* since it subscribed, and has nothing more to hear, shows what every     *)
(* finished request announced.                                             *)
(***************************************************************************)
EXTENDS WatchingHistory, FiniteSetTheorems, TLAPS

----------------------------------------------------------------------------
(* The inductive invariant of the types.                                   *)

(* What a request of each kind may have left to do.                        *)
EditShape(a, p) ==
    \/ p = <<Write, Tell(<<a.list>>, <<>>)>>
    \/ p = <<Tell(<<a.list>>, <<>>)>>
CreateShape(a, p) ==
    \/ p = <<Write, Tell(<<>>, <<a.me>>)>>
    \/ p = <<Tell(<<>>, <<a.me>>)>>
RenameShape(a, p) ==
    \/ p = <<Write, Tell(<<a.list>>, <<>>), TellEverybody>>
    \/ p = <<Tell(<<a.list>>, <<>>), TellEverybody>>
    \/ p = <<TellEverybody>>
DeleteShape(a, p) ==
    \/ p = <<Audience, Write, TellThem>>
    \/ p = <<Write, TellThem>>
    \/ p = <<TellThem>>
JoinShape(a, p) ==
    \/ p = <<Write, StillThere>>
    \/ p = <<StillThere>>
    \/ \E x \in Users : p = <<Tell(<<a.list>>, <<a.me, x>>)>>
RemoveShape(a, p) ==
    \E x \in Users :
        \/ p = <<Write, Tell(<<>>, <<a.who, x>>)>>
        \/ p = <<Tell(<<>>, <<a.who, x>>)>>

Shape(a, p) ==
    \/ a.deed = "edit"   /\ EditShape(a, p)
    \/ a.deed = "create" /\ CreateShape(a, p)
    \/ a.deed = "rename" /\ RenameShape(a, p)
    \/ a.deed = "delete" /\ DeleteShape(a, p)
    \/ a.deed = "join"   /\ JoinShape(a, p)
    \/ a.deed = "remove" /\ RemoveShape(a, p)

Announced == [lists : Seq(Lists), people : Seq(Users)]
Steps == [do : {"write", "audience", "still_there", "everybody", "them", "tell"},
          tell : Announced]
Jobs == [asked : Asks \cup {None}, plan : Seq(Steps), audience : SUBSET Users]

JobOK(j) == j = NoWork \/ (j.asked \in Asks /\ Shape(j.asked, j.plan))

StoreTyped ==
    /\ screen \in [Screens -> [subject : Subjects, me : Users, holder : Holders]]
    /\ owner \in [Lists -> Users \cup {None}]
    /\ members \in [Lists -> SUBSET Users]
    /\ version \in [Subjects -> 1..MaxVersion]

WorkTyped ==
    /\ work \in [Requests -> Jobs]
    /\ \A r \in Requests : JobOK(work[r])

ChannelTyped ==
    /\ live \in [Screens -> BOOLEAN]
    /\ pending \in [Screens -> Seq(Subjects)]
    /\ \A w \in Screens : Len(pending[w]) <= Room
    /\ lagged \in [Screens -> BOOLEAN]

DisplayTyped ==
    /\ nudged \in [Screens -> BOOLEAN]
    /\ phase \in [Screens -> Phases] /\ again \in [Screens -> BOOLEAN]
    /\ loads \in [Screens -> [Loads -> 1..MaxVersion \cup {None}]]
    /\ shown \in [Screens -> 0..MaxVersion]

WaitingTyped ==
    /\ thread \in [Screens -> {"none", "check", "poll", "parked", "done", "freed"}]
    /\ stopping \in [Screens -> {"no", "flagged", "notified"}]
    /\ permit \in [Screens -> BOOLEAN]

Typed == StoreTyped /\ WorkTyped /\ ChannelTyped /\ DisplayTyped /\ WaitingTyped

----------------------------------------------------------------------------
(* Plans and announcements.                                                *)

(* What an ask names is a list and two people.                             *)
LEMMA AskParts ==
    ASSUME NEW a \in Asks
    PROVE  a.deed \in Deeds /\ a.list \in Lists /\ a.me \in Users /\ a.who \in Users
BY WatchingAssumption DEF WatchingAssumption, Asked

LEMMA StepTypes ==
    /\ Write \in Steps /\ Audience \in Steps /\ StillThere \in Steps
    /\ TellEverybody \in Steps /\ TellThem \in Steps
    /\ \A x \in Lists, y \in Users, z \in Users :
          /\ Tell(<<x>>, <<>>) \in Steps
          /\ Tell(<<>>, <<y>>) \in Steps
          /\ Tell(<<>>, <<y, z>>) \in Steps
          /\ Tell(<<x>>, <<y, z>>) \in Steps
BY DEF Write, Audience, StillThere, TellEverybody, TellThem, Tell, Said, Silence, Steps, Announced

(* What each step of a plan is.                                            *)
LEMMA StepKinds ==
    /\ Write.do = "write" /\ Audience.do = "audience" /\ StillThere.do = "still_there"
    /\ TellEverybody.do = "everybody" /\ TellThem.do = "them"
    /\ \A x, y : Tell(x, y).do = "tell" /\ Tell(x, y).tell.lists = x
                 /\ Tell(x, y).tell.people = y
BY DEF Write, Audience, StillThere, TellEverybody, TellThem, Tell, Said, Silence

LEMMA OneStep ==
    ASSUME NEW x, NEW p, p = <<x>>
    PROVE  Head(p) = x /\ Len(p) = 1 /\ Tail(p) = <<>> /\ p # <<>>
OBVIOUS

LEMMA TwoSteps ==
    ASSUME NEW x, NEW y, NEW p, p = <<x, y>>
    PROVE  Head(p) = x /\ Len(p) = 2 /\ Tail(p) = <<y>> /\ p # <<>> /\ p[2] = y
OBVIOUS

LEMMA ThreeSteps ==
    ASSUME NEW x, NEW y, NEW z, NEW p, p = <<x, y, z>>
    PROVE  Head(p) = x /\ Len(p) = 3 /\ Tail(p) = <<y, z>> /\ p # <<>>
OBVIOUS

(* A plan that fits what was asked is made of steps.                       *)
LEMMA ShapeTyped ==
    ASSUME NEW a \in Asks, NEW p, Shape(a, p)
    PROVE  p \in Seq(Steps) /\ p # <<>> /\ Len(p) \in 1..3
<1>1. a.list \in Lists /\ a.me \in Users /\ a.who \in Users
  BY AskParts
<1>2. \A s1 \in Steps : <<s1>> \in Seq(Steps) /\ <<s1>> # <<>> /\ Len(<<s1>>) \in 1..3
  OBVIOUS
<1>3. \A s1, s2 \in Steps :
         <<s1, s2>> \in Seq(Steps) /\ <<s1, s2>> # <<>> /\ Len(<<s1, s2>>) \in 1..3
  OBVIOUS
<1>4. \A s1, s2, s3 \in Steps :
         <<s1, s2, s3>> \in Seq(Steps) /\ <<s1, s2, s3>> # <<>> /\ Len(<<s1, s2, s3>>) \in 1..3
  OBVIOUS
<1>5. CASE EditShape(a, p)
  BY <1>1, <1>2, <1>3, <1>5, StepTypes DEF EditShape
<1>6. CASE CreateShape(a, p)
  BY <1>1, <1>2, <1>3, <1>6, StepTypes DEF CreateShape
<1>7. CASE RenameShape(a, p)
  BY <1>1, <1>2, <1>3, <1>4, <1>7, StepTypes DEF RenameShape
<1>8. CASE DeleteShape(a, p)
  BY <1>1, <1>2, <1>3, <1>4, <1>8, StepTypes DEF DeleteShape
<1>9. CASE JoinShape(a, p)
  BY <1>1, <1>2, <1>3, <1>9, StepTypes DEF JoinShape
<1>10. CASE RemoveShape(a, p)
  BY <1>1, <1>2, <1>3, <1>10, StepTypes DEF RemoveShape
<1> QED
  BY <1>5, <1>6, <1>7, <1>8, <1>9, <1>10 DEF Shape

(* With its first step done, a plan still fits what was asked.             *)
LEMMA ShapeTail ==
    ASSUME NEW a \in Asks, NEW p, Shape(a, p), Len(p) # 1
    PROVE  Shape(a, Tail(p))
<1>1. CASE a.deed = "edit" /\ EditShape(a, p)
  <2>1. p = <<Write, Tell(<<a.list>>, <<>>)>>
    BY <1>1, OneStep DEF EditShape
  <2>2. Tail(p) = <<Tell(<<a.list>>, <<>>)>>
    BY <2>1, TwoSteps
  <2> QED
    BY <2>2, <1>1 DEF Shape, EditShape
<1>2. CASE a.deed = "create" /\ CreateShape(a, p)
  <2>1. p = <<Write, Tell(<<>>, <<a.me>>)>>
    BY <1>2, OneStep DEF CreateShape
  <2>2. Tail(p) = <<Tell(<<>>, <<a.me>>)>>
    BY <2>1, TwoSteps
  <2> QED
    BY <2>2, <1>2 DEF Shape, CreateShape
<1>3. CASE a.deed = "rename" /\ RenameShape(a, p)
  <2>1. CASE p = <<Write, Tell(<<a.list>>, <<>>), TellEverybody>>
    <3>1. Tail(p) = <<Tell(<<a.list>>, <<>>), TellEverybody>>
      BY <2>1, ThreeSteps
    <3> QED
      BY <3>1, <1>3 DEF Shape, RenameShape
  <2>2. CASE p = <<Tell(<<a.list>>, <<>>), TellEverybody>>
    <3>1. Tail(p) = <<TellEverybody>>
      BY <2>2, TwoSteps
    <3> QED
      BY <3>1, <1>3 DEF Shape, RenameShape
  <2> QED
    BY <2>1, <2>2, <1>3, OneStep DEF RenameShape
<1>4. CASE a.deed = "delete" /\ DeleteShape(a, p)
  <2>1. CASE p = <<Audience, Write, TellThem>>
    <3>1. Tail(p) = <<Write, TellThem>>
      BY <2>1, ThreeSteps
    <3> QED
      BY <3>1, <1>4 DEF Shape, DeleteShape
  <2>2. CASE p = <<Write, TellThem>>
    <3>1. Tail(p) = <<TellThem>>
      BY <2>2, TwoSteps
    <3> QED
      BY <3>1, <1>4 DEF Shape, DeleteShape
  <2> QED
    BY <2>1, <2>2, <1>4, OneStep DEF DeleteShape
<1>5. CASE a.deed = "join" /\ JoinShape(a, p)
  <2>1. p = <<Write, StillThere>>
    BY <1>5, OneStep DEF JoinShape
  <2>2. Tail(p) = <<StillThere>>
    BY <2>1, TwoSteps
  <2> QED
    BY <2>2, <1>5 DEF Shape, JoinShape
<1>6. CASE a.deed = "remove" /\ RemoveShape(a, p)
  <2>1. PICK x \in Users : p = <<Write, Tell(<<>>, <<a.who, x>>)>>
    BY <1>6, OneStep DEF RemoveShape
  <2>2. Tail(p) = <<Tell(<<>>, <<a.who, x>>)>>
    BY <2>1, TwoSteps
  <2> QED
    BY <2>2, <1>6 DEF Shape, RemoveShape
<1> QED
  BY <1>1, <1>2, <1>3, <1>4, <1>5, <1>6 DEF Shape

(* Which requests can be at which step.                                    *)
LEMMA PlanKinds ==
    ASSUME NEW a \in Asks, NEW p, Shape(a, p)
    PROVE  /\ Head(p).do = "audience" => a.deed = "delete" /\ p = <<Audience, Write, TellThem>>
           /\ Head(p).do = "still_there" => a.deed = "join" /\ p = <<StillThere>>
           /\ Head(p).do = "everybody" => a.deed = "rename" /\ p = <<TellEverybody>>
           /\ Head(p).do = "them" => a.deed = "delete" /\ p = <<TellThem>>
<1>1. CASE a.deed = "edit" /\ EditShape(a, p)
  <2>1. Head(p) = Write \/ \E x, y : Head(p) = Tell(x, y)
    BY <1>1, OneStep, TwoSteps DEF EditShape
  <2> QED
    BY <2>1, StepKinds
<1>2. CASE a.deed = "create" /\ CreateShape(a, p)
  <2>1. Head(p) = Write \/ \E x, y : Head(p) = Tell(x, y)
    BY <1>2, OneStep, TwoSteps DEF CreateShape
  <2> QED
    BY <2>1, StepKinds
<1>3. CASE a.deed = "rename" /\ RenameShape(a, p)
  <2>1. Head(p) = Write \/ (\E x, y : Head(p) = Tell(x, y)) \/ p = <<TellEverybody>>
    BY <1>3, TwoSteps, ThreeSteps DEF RenameShape
  <2>2. p = <<TellEverybody>> => Head(p) = TellEverybody
    BY OneStep
  <2> QED
    BY <1>3, <2>1, <2>2, StepKinds
<1>4. CASE a.deed = "delete" /\ DeleteShape(a, p)
  <2>1. p = <<Audience, Write, TellThem>> => Head(p) = Audience
    BY ThreeSteps
  <2>2. p = <<Write, TellThem>> => Head(p) = Write
    BY TwoSteps
  <2>3. p = <<TellThem>> => Head(p) = TellThem
    BY OneStep
  <2> QED
    BY <1>4, <2>1, <2>2, <2>3, StepKinds DEF DeleteShape
<1>5. CASE a.deed = "join" /\ JoinShape(a, p)
  <2>1. p = <<Write, StillThere>> => Head(p) = Write
    BY TwoSteps
  <2>2. p = <<StillThere>> => Head(p) = StillThere
    BY OneStep
  <2>3. ASSUME NEW x \in Users, p = <<Tell(<<a.list>>, <<a.me, x>>)>>
        PROVE  Head(p).do = "tell"
    <3>1. Head(p) = Tell(<<a.list>>, <<a.me, x>>)
      BY <2>3, OneStep
    <3> QED
      BY <3>1, StepKinds
  <2>4. Head(p).do \in {"write", "tell"} \/ (p = <<StillThere>> /\ Head(p).do = "still_there")
    <3>1. CASE p = <<Write, StillThere>>
      BY <3>1, <2>1, StepKinds
    <3>2. CASE p = <<StillThere>>
      BY <3>2, <2>2, StepKinds
    <3>3. CASE \E x \in Users : p = <<Tell(<<a.list>>, <<a.me, x>>)>>
      BY <3>3, <2>3
    <3> QED
      BY <1>5, <3>1, <3>2, <3>3 DEF JoinShape
  <2> QED
    BY <1>5, <2>4
<1>6. CASE a.deed = "remove" /\ RemoveShape(a, p)
  <2>1. PICK x \in Users : \/ p = <<Write, Tell(<<>>, <<a.who, x>>)>>
                           \/ p = <<Tell(<<>>, <<a.who, x>>)>>
    BY <1>6 DEF RemoveShape
  <2>2. p = <<Write, Tell(<<>>, <<a.who, x>>)>> => Head(p) = Write
    BY TwoSteps
  <2>3. p = <<Tell(<<>>, <<a.who, x>>)>> => Head(p) = Tell(<<>>, <<a.who, x>>)
    BY OneStep
  <2> QED
    BY <2>1, <2>2, <2>3, StepKinds
<1> QED
  BY <1>1, <1>2, <1>3, <1>4, <1>5, <1>6 DEF Shape

(* What is left once the write is done.                                    *)
LEMMA AfterWrite ==
    ASSUME NEW a \in Asks, NEW p, Shape(a, p), Head(p).do = "write"
    PROVE  /\ Len(p) # 1
           /\ a.deed = "edit"   => Tail(p) = <<Tell(<<a.list>>, <<>>)>>
           /\ a.deed = "create" => Tail(p) = <<Tell(<<>>, <<a.me>>)>>
           /\ a.deed = "rename" => Tail(p) = <<Tell(<<a.list>>, <<>>), TellEverybody>>
           /\ a.deed = "delete" => Tail(p) = <<TellThem>>
           /\ a.deed = "join"   => Tail(p) = <<StillThere>>
           /\ a.deed = "remove" => \E x \in Users : /\ p[2] = Tell(<<>>, <<a.who, x>>)
                                                    /\ Tail(p) = <<Tell(<<>>, <<a.who, x>>)>>
<1>1. ASSUME NEW x, NEW y, p = <<Tell(x, y)>> \/ \E z : p = <<Tell(x, y), z>> PROVE FALSE
  <2>1. Head(p) = Tell(x, y)
    BY <1>1, OneStep, TwoSteps
  <2> QED
    BY <2>1, StepKinds
<1>2. p # <<TellEverybody>> /\ p # <<TellThem>> /\ p # <<StillThere>>
  BY OneStep, StepKinds
<1>3. p # <<Audience, Write, TellThem>>
  BY ThreeSteps, StepKinds
<1>4. CASE a.deed = "edit" /\ EditShape(a, p)
  <2>1. p = <<Write, Tell(<<a.list>>, <<>>)>>
    BY <1>1, <1>4 DEF EditShape
  <2> QED
    BY <1>4, <2>1, TwoSteps
<1>5. CASE a.deed = "create" /\ CreateShape(a, p)
  <2>1. p = <<Write, Tell(<<>>, <<a.me>>)>>
    BY <1>1, <1>5 DEF CreateShape
  <2> QED
    BY <1>5, <2>1, TwoSteps
<1>6. CASE a.deed = "rename" /\ RenameShape(a, p)
  <2>1. p = <<Write, Tell(<<a.list>>, <<>>), TellEverybody>>
    BY <1>1, <1>2, <1>6 DEF RenameShape
  <2> QED
    BY <1>6, <2>1, ThreeSteps
<1>7. CASE a.deed = "delete" /\ DeleteShape(a, p)
  <2>1. p = <<Write, TellThem>>
    BY <1>2, <1>3, <1>7 DEF DeleteShape
  <2> QED
    BY <1>7, <2>1, TwoSteps
<1>8. CASE a.deed = "join" /\ JoinShape(a, p)
  <2>1. p = <<Write, StillThere>>
    BY <1>1, <1>2, <1>8 DEF JoinShape
  <2> QED
    BY <1>8, <2>1, TwoSteps
<1>9. CASE a.deed = "remove" /\ RemoveShape(a, p)
  <2>1. PICK x \in Users : p = <<Write, Tell(<<>>, <<a.who, x>>)>>
    BY <1>1, <1>9 DEF RemoveShape
  <2>2. p[2] = Tell(<<>>, <<a.who, x>>) /\ Tail(p) = <<Tell(<<>>, <<a.who, x>>)>> /\ Len(p) = 2
    BY <2>1, TwoSteps
  <2> QED
    BY <1>9, <2>2
<1> QED
  BY <1>4, <1>5, <1>6, <1>7, <1>8, <1>9 DEF Shape

(* Of several announcing steps, only the first of a renaming is not the    *)
(* last.                                                                   *)
LEMMA LastTell ==
    ASSUME NEW a \in Asks, NEW p, Shape(a, p), Head(p).do \in {"tell", "everybody", "them"}
    PROVE  /\ a.deed # "rename" => Len(p) = 1
           /\ a.deed = "rename" =>
                 \/ p = <<Tell(<<a.list>>, <<>>), TellEverybody>>
                 \/ p = <<TellEverybody>> /\ Len(p) = 1
<1>1. ASSUME NEW y, p = <<Write, y>> \/ \E z : p = <<Write, y, z>> PROVE FALSE
  <2>1. Head(p) = Write
    BY <1>1, TwoSteps, ThreeSteps
  <2> QED
    BY <2>1, StepKinds
<1>2. p # <<Audience, Write, TellThem>>
  BY ThreeSteps, StepKinds
<1>3. CASE a.deed = "edit" /\ EditShape(a, p)
  BY <1>1, <1>3, OneStep DEF EditShape
<1>4. CASE a.deed = "create" /\ CreateShape(a, p)
  BY <1>1, <1>4, OneStep DEF CreateShape
<1>5. CASE a.deed = "rename" /\ RenameShape(a, p)
  BY <1>1, <1>5, OneStep DEF RenameShape
<1>6. CASE a.deed = "delete" /\ DeleteShape(a, p)
  BY <1>1, <1>2, <1>6, OneStep DEF DeleteShape
<1>7. CASE a.deed = "join" /\ JoinShape(a, p)
  BY <1>1, <1>7, OneStep DEF JoinShape
<1>8. CASE a.deed = "remove" /\ RemoveShape(a, p)
  BY <1>1, <1>8, OneStep DEF RemoveShape
<1> QED
  BY <1>3, <1>4, <1>5, <1>6, <1>7, <1>8 DEF Shape

----------------------------------------------------------------------------
(* What requests have under way.                                           *)

LEMMA NoWorkFits == NoWork \in Jobs /\ JobOK(NoWork) /\ NoWork.plan = <<>>
BY DEF NoWork, Jobs, JobOK

(* A busy request has been asked something, and its plan fits it.          *)
LEMMA BusyJob ==
    ASSUME WorkTyped, NEW r \in Requests, Busy(r)
    PROVE  /\ Ask(r) \in Asks /\ Shape(Ask(r), work[r].plan)
           /\ work[r].plan \in Seq(Steps) /\ Len(work[r].plan) \in 1..3
           /\ Head(work[r].plan) \in Steps /\ Tail(work[r].plan) \in Seq(Steps)
           /\ work[r] \in Jobs /\ work[r].audience \subseteq Users
<1>1. work[r] \in Jobs /\ JobOK(work[r]) /\ work[r] # NoWork
  BY NoWorkFits DEF WorkTyped, Busy
<1>2. Ask(r) \in Asks /\ Shape(Ask(r), work[r].plan)
  BY <1>1 DEF JobOK, Ask
<1>3. work[r].plan \in Seq(Steps) /\ work[r].plan # <<>> /\ Len(work[r].plan) \in 1..3
  BY <1>2, ShapeTyped
<1>4. Head(work[r].plan) \in Steps /\ Tail(work[r].plan) \in Seq(Steps)
  BY <1>3
<1>5. work[r].audience \subseteq Users
  BY <1>1 DEF Jobs
<1> QED
  BY <1>1, <1>2, <1>3, <1>4, <1>5

LEMMA IdleJob ==
    ASSUME WorkTyped, NEW r \in Requests, ~Busy(r)
    PROVE  work[r] = NoWork
<1>1. JobOK(work[r]) /\ work[r].plan = <<>>
  BY DEF WorkTyped, Busy
<1> QED
  BY <1>1, ShapeTyped DEF JobOK

(* What is left of a request after its first step.                         *)
LEMMA RestFits ==
    ASSUME WorkTyped, NEW r \in Requests, Busy(r)
    PROVE  /\ Rest(r) \in Jobs /\ JobOK(Rest(r))
           /\ Len(work[r].plan) # 1 =>
                 /\ Rest(r).asked = Ask(r) /\ Rest(r).plan = Tail(work[r].plan)
                 /\ Rest(r).audience = work[r].audience
           /\ Len(work[r].plan) = 1 => Rest(r) = NoWork
<1>1. CASE Len(work[r].plan) = 1
  BY <1>1, NoWorkFits DEF Rest
<1>2. CASE Len(work[r].plan) # 1
  <2>1. /\ Ask(r) \in Asks /\ Shape(Ask(r), work[r].plan) /\ work[r] \in Jobs
        /\ Tail(work[r].plan) \in Seq(Steps)
    BY BusyJob
  <2>2. Shape(Ask(r), Tail(work[r].plan))
    BY <2>1, <1>2, ShapeTail
  <2>3. Rest(r) = [work[r] EXCEPT !.plan = Tail(work[r].plan)]
    BY <1>2 DEF Rest
  <2>4. /\ Rest(r) \in Jobs /\ Rest(r).asked = work[r].asked
        /\ Rest(r).plan = Tail(work[r].plan) /\ Rest(r).audience = work[r].audience
    BY <2>1, <2>3 DEF Jobs
  <2> QED
    BY <2>1, <2>2, <2>4, <1>2 DEF JobOK, Ask
<1> QED
  BY <1>1, <1>2

LEMMA JobSet ==
    ASSUME WorkTyped, NEW r \in Requests, NEW j \in Jobs, JobOK(j),
           work' = [work EXCEPT ![r] = j]
    PROVE  WorkTyped' /\ work'[r] = j /\ \A q \in Requests \ {r} : work'[q] = work[q]
<1>1. work' \in [Requests -> Jobs]
  BY DEF WorkTyped
<1>2. work'[r] = j /\ \A q \in Requests \ {r} : work'[q] = work[q]
  BY DEF WorkTyped
<1>3. \A q \in Requests : JobOK(work'[q])
  BY <1>2 DEF WorkTyped
<1> QED
  BY <1>1, <1>2, <1>3 DEF WorkTyped

(* What an ask sets out to do fits it.                                     *)
LEMMA PlanFits ==
    ASSUME StoreTyped, NEW a \in Asks, Allowed(a)
    PROVE  Shape(a, Plan(a))
<1>1. a.deed \in Deeds /\ a.list \in Lists
  BY AskParts
<1>2. CASE a.deed = "remove"
  <2>1. There(a.list)
    BY <1>2 DEF Allowed, PeopleOn
  <2>2. owner[a.list] \in Users
    BY <2>1, <1>1 DEF There, StoreTyped
  <2>3. Plan(a) = <<Write, Tell(<<>>, <<a.who, owner[a.list]>>)>>
    BY <1>2 DEF Plan
  <2> QED
    BY <1>2, <2>2, <2>3 DEF Shape, RemoveShape
<1>3. CASE a.deed # "remove"
  BY <1>1, <1>3 DEF Plan, Deeds, Shape, EditShape, CreateShape, RenameShape, DeleteShape, JoinShape
<1> QED
  BY <1>2, <1>3

----------------------------------------------------------------------------
(* What receivers hold.                                                    *)

LEMMA PeopleTyped ==
    ASSUME StoreTyped, NEW l \in Lists
    PROVE  PeopleOn(l) \subseteq Users
BY DEF StoreTyped, PeopleOn, There

(* However a set of people is put in order, it is a finite list of them.   *)
LEMMA OrderTyped ==
    ASSUME NEW S \in SUBSET Users, NEW q \in InSomeOrder(S)
    PROVE  q \in Seq(Users) /\ \A s \in S : \E k \in 1..Len(q) : q[k] = s
<1>1. IsFiniteSet(S)
  BY WatchingAssumption, FS_Subset DEF WatchingAssumption
<1>2. Cardinality(S) \in Nat
  BY <1>1, FS_CardinalityType
<1>3. q \in [1..Cardinality(S) -> S] /\ \A s \in S : \E k \in DOMAIN q : q[k] = s
  BY DEF InSomeOrder
<1>4. q \in Seq(S) /\ DOMAIN q = 1..Len(q)
  BY <1>2, <1>3
<1>5. q \in Seq(Users)
  BY <1>4
<1> QED
  BY <1>3, <1>4, <1>5

(* A receiver keeps no more than it has room for, the latest of it.        *)
LEMMA KeptTyped ==
    ASSUME NEW q \in Seq(Subjects)
    PROVE  /\ Kept(q) \in Seq(Subjects) /\ Len(Kept(q)) <= Room
           /\ Len(q) <= Room => Kept(q) = q
<1>1. Room \in Nat /\ Room > 0
  BY WatchingAssumption DEF WatchingAssumption
<1>2. CASE Len(q) > Room
  <2> DEFINE i == Len(q) - Room + 1
  <2>1. i \in 1..Len(q) /\ Len(q) \in Nat /\ Len(q) - i + 1 = Room
    BY <1>1, <1>2
  <2>2. Kept(q) = SubSeq(q, i, Len(q))
    BY <1>2 DEF Kept
  <2> HIDE DEF i
  <2>3. SubSeq(q, i, Len(q)) \in Seq(Subjects) /\ Len(SubSeq(q, i, Len(q))) = Len(q) - i + 1
    BY <2>1
  <2> QED
    BY <2>1, <2>2, <2>3, <1>1, <1>2
<1>3. CASE ~(Len(q) > Room)
  BY <1>1, <1>3 DEF Kept
<1> QED
  BY <1>2, <1>3

LEMMA SentTyped ==
    ASSUME StoreTyped, ChannelTyped, NEW said \in Announced, NEW w \in Screens
    PROVE  Sent(w, said) \in Seq(Subjects)
<1>1. pending[w] \in Seq(Subjects) /\ said.lists \in Seq(Subjects) /\ said.people \in Seq(Subjects)
  BY DEF ChannelTyped, Announced, Subjects
<1> QED
  BY <1>1 DEF Sent

LEMMA AnnounceTyped ==
    ASSUME StoreTyped, ChannelTyped, NEW said \in Announced, Announce(said)
    PROVE  ChannelTyped'
<1>1. \A w \in Screens : Sent(w, said) \in Seq(Subjects)
  BY SentTyped
<1>2. pending' = [w \in Screens |-> Kept(Sent(w, said))]
  BY DEF Announce
<1>3. pending' \in [Screens -> Seq(Subjects)] /\ \A w \in Screens : Len(pending'[w]) <= Room
  BY <1>1, <1>2, KeptTyped
<1>4. lagged' \in [Screens -> BOOLEAN]
  BY DEF Announce, ChannelTyped
<1>5. live' \in [Screens -> BOOLEAN]
  BY DEF Announce, ChannelTyped
<1> QED
  BY <1>3, <1>4, <1>5 DEF ChannelTyped

LEMMA ReceiveTyped ==
    ASSUME ChannelTyped, NEW w \in Screens, Receive(w)
    PROVE  ChannelTyped'
<1>1. live' \in [Screens -> BOOLEAN] /\ lagged' \in [Screens -> BOOLEAN]
  BY DEF Receive, ChannelTyped
<1>2. pending[w] \in Seq(Subjects) /\ Len(pending[w]) <= Room
  BY DEF ChannelTyped
<1>3. CASE lagged[w]
  <2>1. pending' = pending
    BY <1>3 DEF Receive, ChannelTyped
  <2> QED
    BY <2>1, <1>1 DEF ChannelTyped
<1>4. CASE ~lagged[w]
  <2>1. pending[w] # <<>>
    BY <1>4 DEF Receive, HasSomething
  <2>2. Tail(pending[w]) \in Seq(Subjects) /\ Len(Tail(pending[w])) = Len(pending[w]) - 1
    BY <2>1, <1>2
  <2>3. Len(Tail(pending[w])) <= Room
    BY <2>2, <1>2, WatchingAssumption DEF WatchingAssumption
  <2>4. pending' = [pending EXCEPT ![w] = Tail(pending[w])]
    BY <1>4 DEF Receive
  <2> QED
    BY <2>2, <2>3, <2>4, <1>1 DEF ChannelTyped
<1> QED
  BY <1>3, <1>4

LEMMA DeafTyped ==
    ASSUME ChannelTyped, NEW gone, Deaf(gone)
    PROVE  ChannelTyped'
<1>1. live' \in [Screens -> BOOLEAN] /\ lagged' \in [Screens -> BOOLEAN]
  BY DEF Deaf, ChannelTyped
<1>2. <<>> \in Seq(Subjects) /\ Len(<<>>) <= Room
  BY WatchingAssumption DEF WatchingAssumption
<1>3. pending' \in [Screens -> Seq(Subjects)] /\ \A w \in Screens : Len(pending'[w]) <= Room
  BY <1>2 DEF Deaf, ChannelTyped
<1> QED
  BY <1>1, <1>3 DEF ChannelTyped

----------------------------------------------------------------------------
(* Every step keeps the types.                                             *)

LEMMA SameTyped ==
    /\ StoreTyped /\ UNCHANGED stored => StoreTyped'
    /\ WorkTyped /\ UNCHANGED work => WorkTyped'
    /\ ChannelTyped /\ UNCHANGED channel => ChannelTyped'
    /\ DisplayTyped /\ UNCHANGED <<nudged, display>> => DisplayTyped'
    /\ WaitingTyped /\ UNCHANGED waiting => WaitingTyped'
<1>1. StoreTyped /\ UNCHANGED stored => StoreTyped'
  BY DEF StoreTyped, stored
<1>2. WorkTyped /\ UNCHANGED work => WorkTyped'
  BY DEF WorkTyped
<1>3. ChannelTyped /\ UNCHANGED channel => ChannelTyped'
  BY DEF ChannelTyped, channel
<1>4. DisplayTyped /\ UNCHANGED <<nudged, display>> => DisplayTyped'
  BY DEF DisplayTyped, display
<1>5. WaitingTyped /\ UNCHANGED waiting => WaitingTyped'
  BY DEF WaitingTyped, waiting
<1> QED
  BY <1>1, <1>2, <1>3, <1>4, <1>5

LEMMA BeginTyped ==
    ASSUME Typed, NEW r \in Requests, Begin(r)
    PROVE  WorkTyped'
<1>1. PICK a \in Asks :
        /\ Allowed(a)
        /\ work' = [work EXCEPT ![r] = [asked |-> a, plan |-> Plan(a), audience |-> {}]]
  BY DEF Begin
<1> DEFINE j == [asked |-> a, plan |-> Plan(a), audience |-> {}]
<1>2. Shape(a, Plan(a))
  BY <1>1, PlanFits DEF Typed
<1>3. Plan(a) \in Seq(Steps)
  BY <1>2, ShapeTyped
<1>4. j \in Jobs /\ JobOK(j)
  BY <1>2, <1>3 DEF Jobs, JobOK
<1> HIDE DEF j
<1>5. work' = [work EXCEPT ![r] = j]
  BY <1>1 DEF j
<1>6. WorkTyped
  BY DEF Typed
<1> QED
  BY <1>4, <1>5, <1>6, JobSet

LEMMA AudienceTyped ==
    ASSUME Typed, NEW r \in Requests, ReadAudience(r)
    PROVE  WorkTyped'
<1> DEFINE on == PeopleOn(Ask(r).list)
           j == [Rest(r) EXCEPT !.audience = on]
<1>1. WorkTyped /\ StoreTyped /\ Busy(r) /\ Head(work[r].plan).do = "audience"
  BY DEF Typed, ReadAudience, At
<1>2. Ask(r) \in Asks /\ Shape(Ask(r), work[r].plan)
  BY <1>1, BusyJob
<1>3. work[r].plan = <<Audience, Write, TellThem>> /\ Ask(r).deed = "delete"
  BY <1>1, <1>2, PlanKinds
<1>4. Len(work[r].plan) # 1
  BY <1>3, ThreeSteps
<1>5. Rest(r) \in Jobs /\ JobOK(Rest(r)) /\ Rest(r).asked = Ask(r)
      /\ Rest(r).plan = Tail(work[r].plan)
  BY <1>1, <1>4, RestFits
<1>6. on \subseteq Users
  BY <1>1, <1>2, AskParts, PeopleTyped
<1> HIDE DEF on
<1>7. j \in Jobs /\ j.asked = Rest(r).asked /\ j.plan = Rest(r).plan
  BY <1>5, <1>6 DEF Jobs
<1>8. Shape(Ask(r), Rest(r).plan)
  BY <1>2, <1>4, <1>5, ShapeTail
<1>9. JobOK(j)
  BY <1>2, <1>5, <1>7, <1>8 DEF JobOK
<1>10. work' = [work EXCEPT ![r] = j]
  BY DEF ReadAudience, on
<1> HIDE DEF j
<1> QED
  BY <1>1, <1>7, <1>9, <1>10, JobSet

LEMMA ContinueTyped ==
    ASSUME WorkTyped, NEW r \in Requests, Busy(r), Continue(r) \/ Finish(r)
    PROVE  WorkTyped'
<1>1. CASE Continue(r)
  BY <1>1, RestFits, JobSet DEF Continue
<1>2. CASE Finish(r)
  BY <1>2, NoWorkFits, JobSet DEF Finish
<1> QED
  BY <1>1, <1>2

(* What is touched exists, when the write lands.                           *)
LEMMA TouchedTyped ==
    ASSUME StoreTyped, NEW a \in Asks, Lands(a)
    PROVE  Touched(a) \subseteq Subjects /\ Touched(a) # {}
<1>1. a.deed \in Deeds /\ a.list \in Lists /\ a.me \in Users /\ a.who \in Users
  BY AskParts
<1>2. a.deed # "create" => owner[a.list] \in Users
  BY <1>1 DEF Lands, There, StoreTyped
<1>3. PeopleOn(a.list) \subseteq Users
  BY <1>1, PeopleTyped
<1> QED
  BY <1>1, <1>2, <1>3 DEF Touched, Subjects, Deeds

LEMMA WriteTyped ==
    ASSUME Typed, NEW r \in Requests, DoWrite(r)
    PROVE  StoreTyped' /\ WorkTyped'
<1> DEFINE a == Ask(r)
<1>1. StoreTyped /\ WorkTyped /\ Busy(r) /\ UNCHANGED screen
  BY DEF Typed, DoWrite, At, stored
<1>2. a \in Asks
  BY <1>1, BusyJob
<1>3. a.deed \in Deeds /\ a.list \in Lists /\ a.me \in Users /\ a.who \in Users
  BY <1>2, AskParts
<1>4. WorkTyped'
  BY <1>1, ContinueTyped DEF DoWrite
<1>5. CASE Lands(a)
  <2>1. /\ owner' = CASE a.deed = "create" -> [owner EXCEPT ![a.list] = a.me]
                      [] a.deed = "delete" -> [owner EXCEPT ![a.list] = None]
                      [] OTHER -> owner
        /\ members' = CASE a.deed = "join" /\ a.me # owner[a.list] ->
                             [members EXCEPT ![a.list] = @ \cup {a.me}]
                        [] a.deed = "remove" -> [members EXCEPT ![a.list] = @ \ {a.who}]
                        [] a.deed = "delete" -> [members EXCEPT ![a.list] = {}]
                        [] OTHER -> members
        /\ version' = [s \in Subjects |-> IF s \in Touched(a) THEN version[s] + 1
                                          ELSE version[s]]
        /\ \A s \in Touched(a) \ {None} : version[s] < MaxVersion
    BY <1>5 DEF DoWrite
  <2>2. Touched(a) \subseteq Subjects
    BY <1>1, <1>2, <1>5, TouchedTyped
  <2> HIDE DEF a
  <2>3. owner' \in [Lists -> Users \cup {None}]
    BY <1>1, <1>3, <2>1 DEF StoreTyped
  <2>4. members' \in [Lists -> SUBSET Users]
    BY <1>1, <1>3, <2>1 DEF StoreTyped
  <2>5. None \notin Subjects
    BY WatchingAssumption DEF WatchingAssumption
  <2>6. MaxVersion \in Nat /\ version \in [Subjects -> 1..MaxVersion]
    BY <1>1, WatchingAssumption DEF StoreTyped, WatchingAssumption
  <2>7. \A s \in Subjects : (IF s \in Touched(a) THEN version[s] + 1 ELSE version[s])
                              \in 1..MaxVersion
    <3> TAKE s \in Subjects
    <3>1. version[s] \in 1..MaxVersion
      BY <2>6
    <3>2. s \in Touched(a) => version[s] < MaxVersion
      BY <2>1, <2>5
    <3> QED
      BY <3>1, <3>2, <2>6
  <2>8. version' \in [Subjects -> 1..MaxVersion]
    BY <2>1, <2>7
  <2> QED
    BY <1>1, <1>4, <2>3, <2>4, <2>8 DEF StoreTyped
<1>6. CASE ~Lands(a)
  <2>1. UNCHANGED stored
    BY <1>1, <1>6 DEF DoWrite, stored
  <2> QED
    BY <1>1, <1>4, <2>1, SameTyped
<1> QED
  BY <1>5, <1>6

LEMMA LookTyped ==
    ASSUME Typed, NEW r \in Requests, LookAgain(r)
    PROVE  WorkTyped'
<1>1. StoreTyped /\ WorkTyped /\ Busy(r) /\ Head(work[r].plan).do = "still_there"
  BY DEF Typed, LookAgain, At
<1>2. Ask(r) \in Asks /\ Shape(Ask(r), work[r].plan) /\ work[r] \in Jobs
  BY <1>1, BusyJob
<1>3. Ask(r).deed = "join"
  BY <1>1, <1>2, PlanKinds
<1>4. CASE There(Ask(r).list)
  <2> DEFINE p == <<Tell(<<Ask(r).list>>, <<Ask(r).me, owner[Ask(r).list]>>)>>
             j == [work[r] EXCEPT !.plan = p]
  <2>1. owner[Ask(r).list] \in Users
    BY <1>1, <1>2, <1>4, AskParts DEF There, StoreTyped
  <2>2. Shape(Ask(r), p)
    BY <1>3, <2>1 DEF Shape, JoinShape
  <2>3. p \in Seq(Steps)
    BY <1>2, <2>2, ShapeTyped
  <2>4. work' = [work EXCEPT ![r] = j]
    BY <1>1, <1>4 DEF LookAgain, WorkTyped
  <2> HIDE DEF p
  <2>5. j \in Jobs /\ j.asked = Ask(r) /\ j.plan = p
    BY <1>2, <2>3 DEF Jobs, Ask
  <2>6. JobOK(j)
    BY <1>2, <2>2, <2>5 DEF JobOK
  <2> HIDE DEF j
  <2> QED
    BY <1>1, <2>4, <2>5, <2>6, JobSet
<1>5. CASE ~There(Ask(r).list)
  BY <1>1, <1>5, ContinueTyped DEF LookAgain
<1> QED
  BY <1>4, <1>5

(* What is said next is made of lists, and of people.                      *)
LEMMA TellTyped ==
    ASSUME Typed, NEW r \in Requests, DoTell(r)
    PROVE  WorkTyped' /\ ChannelTyped'
<1>1. StoreTyped /\ WorkTyped /\ ChannelTyped /\ Busy(r) /\ Continue(r)
  BY DEF Typed, DoTell, At
<1>2. WorkTyped'
  BY <1>1, ContinueTyped
<1>3. Ask(r) \in Asks /\ Head(work[r].plan) \in Steps /\ work[r].audience \in SUBSET Users
  BY <1>1, BusyJob
<1>4. Ask(r).list \in Lists
  BY <1>3, AskParts
<1>5. CASE Announce(Head(work[r].plan).tell)
  <2>1. Head(work[r].plan).tell \in Announced
    BY <1>3 DEF Steps
  <2> QED
    BY <1>1, <1>2, <1>5, <2>1, AnnounceTyped
<1>6. CASE \E people \in InSomeOrder(PeopleOn(Ask(r).list)) : Announce(Said(<<>>, people))
  <2>1. PICK people \in InSomeOrder(PeopleOn(Ask(r).list)) : Announce(Said(<<>>, people))
    BY <1>6
  <2>2. people \in Seq(Users)
    BY <1>1, <1>4, PeopleTyped, OrderTyped
  <2>3. Said(<<>>, people) \in Announced
    BY <2>2 DEF Said, Announced
  <2> QED
    BY <1>1, <1>2, <2>1, <2>3, AnnounceTyped
<1>7. CASE \E people \in InSomeOrder(work[r].audience) :
             Announce(Said(<<Ask(r).list>>, people))
  <2>1. PICK people \in InSomeOrder(work[r].audience) : Announce(Said(<<Ask(r).list>>, people))
    BY <1>7
  <2>2. people \in Seq(Users)
    BY <1>3, OrderTyped
  <2>3. Said(<<Ask(r).list>>, people) \in Announced
    BY <2>2, <1>4 DEF Said, Announced
  <2> QED
    BY <1>1, <1>2, <2>1, <2>3, AnnounceTyped
<1> QED
  BY <1>5, <1>6, <1>7 DEF DoTell

LEMMA RequestTyped ==
    ASSUME Typed, NEW r \in Requests, Request(r) \/ Cut(r)
    PROVE  Typed'
<1>1. CASE Begin(r)
  BY <1>1, BeginTyped, SameTyped DEF Begin, Typed, display
<1>2. CASE ReadAudience(r)
  BY <1>2, AudienceTyped, SameTyped DEF ReadAudience, Typed, display
<1>3. CASE DoWrite(r)
  BY <1>3, WriteTyped, SameTyped DEF DoWrite, Typed, display
<1>4. CASE LookAgain(r)
  BY <1>4, LookTyped, SameTyped DEF LookAgain, Typed, display
<1>5. CASE DoTell(r)
  BY <1>5, TellTyped, SameTyped DEF DoTell, Typed, display
<1>6. CASE Cut(r)
  BY <1>6, ContinueTyped, SameTyped DEF Cut, Typed, display
<1> QED
  BY <1>1, <1>2, <1>3, <1>4, <1>5, <1>6 DEF Request

(* A load answers with the version there is to read.                       *)
LEMMA ReadTyped ==
    ASSUME Typed, NEW w \in Screens, NEW k \in Loads, Read(w, k)
    PROVE  /\ loads' \in [Screens -> [Loads -> 1..MaxVersion \cup {None}]]
           /\ Subject(w) \in Subjects /\ version[Subject(w)] \in 1..MaxVersion
<1>1. Subject(w) \in Subjects /\ version \in [Subjects -> 1..MaxVersion]
  BY DEF Typed, StoreTyped, Subject
<1>2. loads \in [Screens -> [Loads -> 1..MaxVersion \cup {None}]]
  BY DEF Typed, DisplayTyped
<1>3. loads' = [loads EXCEPT ![w][k] = version[Subject(w)]]
  BY DEF Read
<1> QED
  BY <1>1, <1>2, <1>3

LEMMA AnswerTyped ==
    ASSUME Typed, NEW w \in Screens, NEW k \in Loads, NEW arrives \in BOOLEAN,
           AnswerComes(w, k, arrives)
    PROVE  DisplayTyped'
<1>1. loads \in [Screens -> [Loads -> 1..MaxVersion \cup {None}]]
      /\ shown \in [Screens -> 0..MaxVersion] /\ phase \in [Screens -> Phases]
  BY DEF Typed, DisplayTyped
<1>2. MaxVersion \in Nat
  BY WatchingAssumption DEF WatchingAssumption
<1>3. loads[w][k] \in 1..MaxVersion
  BY <1>1 DEF AnswerComes, Loading
<1>4. loads' \in [Screens -> [Loads -> 1..MaxVersion \cup {None}]]
  BY <1>1 DEF AnswerComes
<1>5. shown' \in [Screens -> 0..MaxVersion]
  <2>1. shown' = shown \/ shown' = [shown EXCEPT ![w] = loads[w][k]]
    BY DEF AnswerComes
  <2>2. loads[w][k] \in 0..MaxVersion
    BY <1>2, <1>3
  <2> QED
    BY <2>1, <2>2, <1>1
<1>6. phase' \in [Screens -> Phases]
  BY <1>1 DEF AnswerComes, GoTo, Phases
<1> QED
  BY <1>4, <1>5, <1>6 DEF AnswerComes, DisplayTyped, Typed

LEMMA LoopTyped ==
    ASSUME Typed, NEW w \in Screens,
           Loop(w) \/ Drop(w) \/ \E k \in Loads : AnswerComes(w, k, FALSE)
    PROVE  Typed'
<1>1. CASE LoadFirst(w)
  <2>1. loads' \in [Screens -> [Loads -> 1..MaxVersion \cup {None}]]
    BY <1>1, ReadTyped DEF LoadFirst, Loads
  <2>2. DisplayTyped'
    BY <1>1, <2>1 DEF LoadFirst, Typed, DisplayTyped
  <2> QED
    BY <1>1, <2>2, SameTyped DEF LoadFirst, Typed
<1>2. CASE Reread(w)
  <2>1. loads' \in [Screens -> [Loads -> 1..MaxVersion \cup {None}]]
    BY <1>2, ReadTyped DEF Reread, Loads
  <2>2. DisplayTyped'
    BY <1>2, <2>1 DEF Reread, Typed, DisplayTyped
  <2> QED
    BY <1>2, <2>2, SameTyped DEF Reread, Typed
<1>3. CASE LoadOnItsOwn(w)
  <2>1. loads' \in [Screens -> [Loads -> 1..MaxVersion \cup {None}]]
    BY <1>3, ReadTyped DEF LoadOnItsOwn, Loads
  <2>2. DisplayTyped'
    BY <1>3, <2>1 DEF LoadOnItsOwn, Typed, DisplayTyped
  <2> QED
    BY <1>3, <2>2, SameTyped DEF LoadOnItsOwn, Typed
<1>4. CASE Open(w)
  <2>1. DisplayTyped'
    BY <1>4 DEF Open, GoTo, Typed, DisplayTyped, Phases
  <2>2. ChannelTyped'
    BY <1>4 DEF Open, Typed, ChannelTyped
  <2>3. WaitingTyped'
    BY <1>4 DEF Open, Typed, WaitingTyped
  <2> QED
    BY <1>4, <2>1, <2>2, <2>3, SameTyped DEF Open, Typed
<1>5. CASE \E k \in Loads : AnswerComes(w, k, TRUE) \/ AnswerComes(w, k, FALSE)
  <2>1. PICK k \in Loads : AnswerComes(w, k, TRUE) \/ AnswerComes(w, k, FALSE)
    BY <1>5
  <2>2. DisplayTyped'
    BY <2>1, AnswerTyped
  <2> QED
    BY <2>1, <2>2, SameTyped DEF AnswerComes, Typed
<1>6. CASE Deliver(w)
  <2>1. ChannelTyped'
    BY <1>6, ReceiveTyped DEF Deliver, Typed
  <2>2. DisplayTyped'
    BY <1>6 DEF Deliver, Typed, DisplayTyped, display
  <2> QED
    BY <1>6, <2>1, <2>2, SameTyped DEF Deliver, Typed
<1>7. CASE Notice(w)
  <2>1. DisplayTyped'
    BY <1>7 DEF Notice, GoTo, Typed, DisplayTyped, Phases
  <2> QED
    BY <1>7, <2>1, SameTyped DEF Notice, Typed
<1>8. CASE StartOver(w)
  <2>1. DisplayTyped'
    BY <1>8 DEF StartOver, StartsOver, GoTo, Typed, DisplayTyped, Phases
  <2> QED
    BY <1>8, <2>1, SameTyped DEF StartOver, Typed
<1>9. CASE Close(w)
  <2>1. DisplayTyped'
    BY <1>9 DEF Close, GoTo, Typed, DisplayTyped, Phases
  <2>2. ChannelTyped'
    BY <1>9, DeafTyped, SameTyped DEF Close, Typed
  <2>3. WaitingTyped'
    BY <1>9 DEF Close, Typed, WaitingTyped
  <2> QED
    BY <1>9, <2>1, <2>2, <2>3, SameTyped DEF Close, Typed
<1>10. CASE Drop(w)
  <2>1. ChannelTyped'
    BY <1>10, DeafTyped DEF Drop, Typed
  <2> QED
    BY <1>10, <2>1, SameTyped DEF Drop, Typed, display
<1> QED
  BY <1>1, <1>2, <1>3, <1>4, <1>5, <1>6, <1>7, <1>8, <1>9, <1>10 DEF Loop

LEMMA ThreadTyped ==
    ASSUME Typed, NEW w \in Screens, Thread(w)
    PROVE  Typed'
<1>1. CASE CheckFlag(w) \/ Park(w) \/ HearStop(w) \/ NotifyStop(w)
  <2>1. WaitingTyped'
    BY <1>1 DEF CheckFlag, Park, HearStop, NotifyStop, Permit, Resumes, Typed, WaitingTyped
  <2> QED
    BY <1>1, <2>1, SameTyped DEF CheckFlag, Park, HearStop, NotifyStop, Typed
<1>2. CASE HearOne(w)
  <2>1. WaitingTyped'
    BY <1>2 DEF HearOne, Resumes, Typed, WaitingTyped
  <2>2. ChannelTyped'
    BY <1>2, ReceiveTyped DEF HearOne, Typed
  <2>3. DisplayTyped'
    BY <1>2 DEF HearOne, Typed, DisplayTyped, display
  <2> QED
    BY <1>2, <2>1, <2>2, <2>3, SameTyped DEF HearOne, Typed
<1>3. CASE Free(w)
  <2>1. WaitingTyped'
    BY <1>3 DEF Free, Resumes, Typed, WaitingTyped
  <2>2. ChannelTyped'
    BY <1>3, DeafTyped DEF Free, Typed
  <2> QED
    BY <1>3, <2>1, <2>2, SameTyped DEF Free, Typed, display
<1> QED
  BY <1>1, <1>2, <1>3 DEF Thread

LEMMA RestartTyped ==
    ASSUME Typed, Restart
    PROVE  Typed'
<1>1. ChannelTyped'
  BY DeafTyped DEF Restart, Typed
<1>2. WorkTyped'
  BY NoWorkFits DEF Restart, WorkTyped
<1> QED
  BY <1>1, <1>2, SameTyped DEF Restart, Typed, display

LEMMA InitTyped == Init => Typed
<1> SUFFICES ASSUME Init PROVE Typed
  OBVIOUS
<1>1. MaxVersion \in Nat \ {0} /\ Room \in Nat \ {0}
  BY WatchingAssumption DEF WatchingAssumption
<1>2. StoreTyped
  BY <1>1 DEF Init, StoreTyped
<1>3. WorkTyped
  BY NoWorkFits DEF Init, WorkTyped
<1>4. ChannelTyped
  BY <1>1 DEF Init, ChannelTyped
<1>5. DisplayTyped
  BY <1>1 DEF Init, DisplayTyped, Phases
<1>6. WaitingTyped
  BY DEF Init, WaitingTyped
<1> QED
  BY <1>2, <1>3, <1>4, <1>5, <1>6 DEF Typed

LEMMA NextTyped == Typed /\ [Next]_vars => Typed'
<1> SUFFICES ASSUME Typed, [Next]_vars PROVE Typed'
  OBVIOUS
<1>1. CASE UNCHANGED vars
  BY <1>1, SameTyped DEF vars, Typed, stored, channel, display, waiting
<1>2. CASE Next
  BY <1>2, RequestTyped, LoopTyped, ThreadTyped, RestartTyped DEF Next, Goes, Breaks
<1> QED
  BY <1>1, <1>2

LEMMA TypedIsOK == Typed => WatchingTypeOK
<1> SUFFICES ASSUME Typed PROVE WatchingTypeOK
  OBVIOUS
<1>1. \A r \in Requests : /\ work[r].asked \in Asks \cup {None}
                          /\ work[r].audience \subseteq Users
                          /\ Len(work[r].plan) <= 3
  <2> TAKE r \in Requests
  <2>1. work[r] \in Jobs
    BY DEF Typed, WorkTyped
  <2>2. CASE Busy(r)
    <3>1. Len(work[r].plan) \in 1..3
      BY <2>2, BusyJob DEF Typed
    <3>2. \A n \in 1..3 : n <= 3
      OBVIOUS
    <3>3. Len(work[r].plan) <= 3
      BY <3>1, <3>2
    <3> QED
      BY <2>1, <3>3 DEF Jobs
  <2>3. CASE ~Busy(r)
    <3>1. work[r].plan = <<>>
      BY <2>3 DEF Busy
    <3>2. Len(work[r].plan) = 0
      BY <3>1
    <3> QED
      BY <2>1, <3>2 DEF Jobs
  <2> QED
    BY <2>2, <2>3
<1>2. \A w \in Screens : pending[w] \in UNION {[1..n -> Subjects] : n \in 0..Room}
  <2> TAKE w \in Screens
  <2>1. pending[w] \in Seq(Subjects) /\ Len(pending[w]) <= Room /\ Room \in Nat
    BY WatchingAssumption DEF Typed, ChannelTyped, WatchingAssumption
  <2>2. Len(pending[w]) \in 0..Room /\ pending[w] \in [1..Len(pending[w]) -> Subjects]
    BY <2>1
  <2> QED
    BY <2>2
<1> QED
  BY <1>1, <1>2 DEF WatchingTypeOK, Typed, StoreTyped, ChannelTyped, DisplayTyped, WaitingTyped

(* Requests, channels, screens and watching threads hold what their types   *)
(* say, however many requests and screens there are: a plan never grows     *)
(* past three steps, and a receiver never holds more than it has room for   *)
(* (Changes::new).                                                          *)
THEOREM TypesAreKept == Spec => []WatchingTypeOK
<1>1. Init => Typed
  BY InitTyped
<1>2. Typed /\ [Next]_vars => Typed'
  BY NextTyped
<1>3. Typed => WatchingTypeOK
  BY TypedIsOK
<1> QED
  BY <1>1, <1>2, <1>3, PTL DEF Spec

----------------------------------------------------------------------------
(* The inductive invariant of CaughtUp.                                    *)

In(s, q) == \E k \in 1..Len(q) : q[k] = s

(* What a request owes is not older than what there is to read, is owed    *)
(* only once it was written, and is covered by what it has yet to announce.*)
Announces(r, s) ==
    LET said == Head(work[r].plan).tell IN In(s, said.lists) \/ In(s, said.people)

Covers(r) ==
    \A p \in owes[r] :
        /\ p[2] <= version[p[1]]
        /\ Busy(r) /\ ~At(r, "audience") /\ ~At(r, "write")
        /\ At(r, "tell") /\ Ask(r).deed # "rename" => Announces(r, p[1])
        /\ At(r, "them") => p[1] = Ask(r).list \/ p[1] \in work[r].audience

(* A version a screen ought to come to show: one that was announced, in    *)
(* full or as far as a renaming has got.                                   *)
DueBy(r, w, v) ==
    /\ At(r, "everybody") /\ Subject(w) = Ask(r).list
    /\ <<Subject(w), v>> \in owes[r]

Due(w, v) == <<Subject(w), v>> \in told \/ \E r \in Requests : DueBy(r, w, v)

(* It has got to the receiver, to the loop, into a load or onto the screen.*)
Reached(w, v) ==
    \/ lagged[w] \/ In(Subject(w), pending[w]) \/ nudged[w]
    \/ \E k \in Loads : loads[w][k] # None /\ loads[w][k] >= v
    \/ (\A k \in Loads : loads[w][k] = None) /\ shown[w] >= v

Counts(w) == live[w] /\ synced[w] /\ ~spoilt[w] /\ phase[w] # "closed"

Listening(w) ==
    /\ synced[w] => live[w]
    /\ live[w] => phase[w] \in {"listen", "closed"}
    /\ (\A k \in Loads : loads[w][k] # None) => spoilt[w]

Hears(w) == Counts(w) => \A v \in 1..MaxVersion : Due(w, v) => Reached(w, v)

HistoryTyped ==
    /\ owes \in [Requests -> SUBSET (Subjects \X (1..MaxVersion))]
    /\ told \subseteq Subjects \X (1..MaxVersion)
    /\ \A p \in told : p[2] <= version[p[1]]
    /\ synced \in [Screens -> BOOLEAN] /\ spoilt \in [Screens -> BOOLEAN]

Owing == HistoryTyped /\ \A r \in Requests : Covers(r)

WatchInv == Typed /\ Owing /\ \A w \in Screens : Listening(w) /\ Hears(w)

----------------------------------------------------------------------------
(* What the history makes of a step.                                       *)

LEMMA Remembered ==
    ASSUME Remember, NEW w \in Screens
    PROVE  /\ synced'[w] = (live'[w] /\ (synced[w] \/ \E k \in Loads : ReadsNow(w, k)))
           /\ spoilt'[w] = (\/ \A k \in Loads : loads'[w][k] # None
                            \/ \E k \in Loads : Misses(w, k)
                            \/ spoilt[w] /\ ~ReadsNow(w, "loop"))
BY DEF Remember

LEMMA MarksTyped ==
    ASSUME Remember, ChannelTyped', HistoryTyped
    PROVE  synced' \in [Screens -> BOOLEAN] /\ spoilt' \in [Screens -> BOOLEAN]
<1>1. synced' \in [Screens -> BOOLEAN]
  BY DEF Remember, ChannelTyped, HistoryTyped
<1>2. spoilt' \in [Screens -> BOOLEAN]
  BY DEF Remember, HistoryTyped
<1> QED
  BY <1>1, <1>2

(* A request nobody moved owes what it owed, and ends nothing.             *)
LEMMA OthersOwe ==
    ASSUME Owing, Remember, NEW q \in Requests, work'[q] = work[q]
    PROVE  owes'[q] = owes[q] /\ ~Ends(q)
<1>1. ~Writes(q)
  BY DEF Writes
<1>2. NowOwes(q) = {p \in owes[q] : work'[q] # work[q] => StillOwed(q, p[1])}
  BY <1>1 DEF NowOwes
<1>3. NowOwes(q) = owes[q]
  BY <1>2
<1>4. owes'[q] = IF Busy(q)' THEN NowOwes(q) ELSE {}
  BY DEF Remember
<1>5. Busy(q)' = Busy(q)
  BY DEF Busy
<1>6. ~Busy(q) => owes[q] = {}
  BY DEF Owing, Covers
<1> QED
  BY <1>3, <1>4, <1>5, <1>6 DEF Ends

(* Only a request that ends adds to what was announced.                    *)
LEMMA ToldGrows ==
    ASSUME told' = Latest(told \cup JustTold) \/ UNCHANGED told, NEW p \in told', p \notin told
    PROVE  /\ told' = Latest(told \cup JustTold)
           /\ \E r \in Requests : Ends(r) /\ ~At(r, "still_there") /\ p \in NowOwes(r)
<1>1. told' = Latest(told \cup JustTold)
  OBVIOUS
<1>2. p \in JustTold
  BY <1>1 DEF Latest
<1> QED
  BY <1>1, <1>2 DEF JustTold

(* A step that moves no request announces nothing, and owes the same.      *)
LEMMA NoRequestMoves ==
    ASSUME Owing, Remember, UNCHANGED work,
           told' = Latest(told \cup JustTold) \/ UNCHANGED told
    PROVE  owes' = owes /\ told' \subseteq told
<1>1. \A q \in Requests : owes'[q] = owes[q] /\ ~Ends(q)
  BY OthersOwe
<1>2. owes' = [q \in Requests |-> owes'[q]] /\ owes = [q \in Requests |-> owes[q]]
  BY DEF Remember, Owing, HistoryTyped
<1>3. owes' = owes
  BY <1>1, <1>2
<1>4. told' \subseteq told
  BY <1>1, ToldGrows
<1> QED
  BY <1>3, <1>4

----------------------------------------------------------------------------
(* What requests owe, as they go on.                                       *)

LEMMA OwesBounds ==
    ASSUME Owing, NEW r \in Requests
    PROVE  /\ owes[r] \subseteq Subjects \X (1..MaxVersion)
           /\ \A p \in owes[r] : p[2] <= version[p[1]]
           /\ ~Busy(r) \/ At(r, "audience") \/ At(r, "write") => owes[r] = {}
BY DEF Owing, HistoryTyped, Covers

LEMMA NowOwesLess ==
    ASSUME Owing, NEW r \in Requests, ~At(r, "write") \/ version' = version
    PROVE  NowOwes(r) \subseteq owes[r]
BY DEF NowOwes, Writes

(* One request moves: the others owe what they did.                        *)
LEMMA OwingStep ==
    ASSUME Typed, Typed', Owing, Remember,
           told' = Latest(told \cup JustTold) \/ UNCHANGED told,
           NEW r \in Requests, \A q \in Requests \ {r} : work'[q] = work[q],
           \A s \in Subjects : version[s] <= version'[s],
           NowOwes(r) \subseteq Subjects \X (1..MaxVersion),
           \A p \in NowOwes(r) : p[2] <= version'[p[1]],
           Covers(r)'
    PROVE  Owing'
<1>1. \A q \in Requests \ {r} : owes'[q] = owes[q] /\ ~Ends(q)
  BY OthersOwe
<1>2. \A q \in Requests : owes'[q] \subseteq Subjects \X (1..MaxVersion)
  <2>1. owes'[r] \subseteq NowOwes(r)
    BY DEF Remember
  <2> QED
    BY <1>1, <2>1, OwesBounds
<1>3. owes' \in [Requests -> SUBSET (Subjects \X (1..MaxVersion))]
  <2>1. owes' = [q \in Requests |-> owes'[q]]
    BY DEF Remember
  <2> QED
    BY <1>2, <2>1
<1>4. MaxVersion \in Nat /\ version \in [Subjects -> 1..MaxVersion]
      /\ version' \in [Subjects -> 1..MaxVersion]
  BY WatchingAssumption DEF Typed, StoreTyped, WatchingAssumption
<1>5. ASSUME NEW p \in Subjects \X (1..MaxVersion), p[2] <= version[p[1]]
      PROVE  p[2] <= version'[p[1]]
  <2>1. p[1] \in Subjects /\ p[2] \in 1..MaxVersion
    OBVIOUS
  <2>2. version[p[1]] <= version'[p[1]] /\ version[p[1]] \in 1..MaxVersion
        /\ version'[p[1]] \in 1..MaxVersion
    BY <1>4, <2>1
  <2> QED
    BY <1>4, <1>5, <2>1, <2>2
<1>6. \A p \in told' : p \in Subjects \X (1..MaxVersion) /\ p[2] <= version'[p[1]]
  <2> TAKE p \in told'
  <2>1. CASE p \in told
    BY <1>5, <2>1 DEF Owing, HistoryTyped
  <2>2. CASE p \notin told
    <3>1. PICK q \in Requests : Ends(q) /\ p \in NowOwes(q)
      BY <2>2, ToldGrows
    <3>2. q = r
      BY <1>1, <3>1
    <3> QED
      BY <3>1, <3>2
  <2> QED
    BY <2>1, <2>2
<1>7. \A q \in Requests \ {r} : Covers(q)'
  <2> TAKE q \in Requests \ {r}
  <2>1. work'[q] = work[q] /\ owes'[q] = owes[q]
    BY <1>1
  <2>2. Covers(q) /\ owes[q] \subseteq Subjects \X (1..MaxVersion)
    BY OwesBounds DEF Owing
  <2>3. \A p \in owes[q] : p[2] <= version'[p[1]]
    BY <2>2, <1>5 DEF Covers
  <2> QED
    BY <2>1, <2>2, <2>3 DEF Covers, At, Busy, Ask, Announces
<1>8. synced' \in [Screens -> BOOLEAN] /\ spoilt' \in [Screens -> BOOLEAN]
  BY MarksTyped DEF Typed, Owing
<1>9. HistoryTyped'
  BY <1>3, <1>6, <1>8 DEF HistoryTyped
<1> QED
  BY <1>7, <1>9 DEF Owing

(* A screen comes to expect nothing new when nothing more was announced.   *)
LEMMA DueStep ==
    ASSUME Owing, Remember, UNCHANGED screen, told' \subseteq told,
           NEW r \in Requests, \A q \in Requests \ {r} : work'[q] = work[q],
           owes'[r] = {} \/ ~At(r, "everybody")',
           NEW w \in Screens, NEW v, Due(w, v)'
    PROVE  Due(w, v)
<1>1. Subject(w)' = Subject(w)
  BY DEF Subject
<1>2. CASE <<Subject(w), v>>' \in told'
  BY <1>1, <1>2 DEF Due
<1>3. CASE \E q \in Requests : DueBy(q, w, v)'
  <2>1. PICK q \in Requests : DueBy(q, w, v)'
    BY <1>3
  <2>2. q # r
    BY <2>1 DEF DueBy
  <2>3. work'[q] = work[q] /\ owes'[q] = owes[q]
    BY <2>2, OthersOwe
  <2>4. DueBy(q, w, v)
    BY <1>1, <2>1, <2>3 DEF DueBy, At, Busy, Ask
  <2> QED
    BY <2>4 DEF Due
<1> QED
  BY <1>2, <1>3 DEF Due

(* Asking, reading an audience, and being cut off announce nothing.        *)
LEMMA SettingOut ==
    ASSUME Typed, Typed', Owing, Remember, NEW r \in Requests,
           \/ (Begin(r) \/ ReadAudience(r)) /\ told' = Latest(told \cup JustTold)
           \/ Cut(r) /\ UNCHANGED told
    PROVE  Owing' /\ \A w \in Screens, v \in 1..MaxVersion : Due(w, v)' => Due(w, v)
<1>1. UNCHANGED stored /\ version' = version /\ UNCHANGED screen
  BY DEF Begin, ReadAudience, Cut, stored
<1>2. /\ work \in [Requests -> Jobs]
      /\ \E j : work' = [work EXCEPT ![r] = j]
  BY DEF Begin, ReadAudience, Cut, Finish, Typed, WorkTyped
<1>3. \A q \in Requests \ {r} : work'[q] = work[q]
  BY <1>2
<1>4. NowOwes(r) \subseteq owes[r]
  BY <1>1, NowOwesLess
<1>5. owes'[r] = {} /\ (~(UNCHANGED told) => NowOwes(r) = {})
  <2>1. owes'[r] = IF Busy(r)' THEN NowOwes(r) ELSE {}
    BY DEF Remember
  <2>2. CASE Begin(r) \/ ReadAudience(r)
    <3>1. owes[r] = {}
      BY <2>2, OwesBounds DEF Begin, ReadAudience
    <3> QED
      BY <1>4, <2>1, <3>1
  <2>3. CASE Cut(r) /\ UNCHANGED told
    <3>1. work'[r] = NoWork
      BY <2>3, <1>2 DEF Cut, Finish
    <3>2. ~Busy(r)'
      BY <3>1, NoWorkFits DEF Busy
    <3> QED
      BY <2>1, <2>3, <3>2
  <2> QED
    BY <2>2, <2>3
<1>6. told' \subseteq told
  <2> SUFFICES ASSUME NEW p \in told', p \notin told PROVE FALSE
    OBVIOUS
  <2>1. PICK q \in Requests : Ends(q) /\ p \in NowOwes(q)
    BY ToldGrows
  <2>2. q = r
    BY <1>3, <2>1, OthersOwe
  <2> QED
    BY <1>5, <2>1, <2>2
<1>7. Covers(r)'
  BY <1>5 DEF Covers
<1>8. /\ NowOwes(r) \subseteq Subjects \X (1..MaxVersion)
      /\ \A p \in NowOwes(r) : p[2] <= version'[p[1]]
  BY <1>1, <1>4, OwesBounds
<1>9. \A s \in Subjects : version[s] <= version'[s]
  BY <1>1, WatchingAssumption DEF Typed, StoreTyped, WatchingAssumption
<1>10. Owing'
  BY <1>3, <1>7, <1>8, <1>9, OwingStep
<1> QED
  BY <1>1, <1>3, <1>5, <1>6, <1>10, DueStep

LEMMA InTuples ==
    /\ \A x : In(x, <<x>>)
    /\ \A x, y : In(x, <<x, y>>) /\ In(y, <<x, y>>)
<1>1. ASSUME NEW x PROVE In(x, <<x>>)
  BY DEF In
<1>2. ASSUME NEW x, NEW y PROVE In(x, <<x, y>>) /\ In(y, <<x, y>>)
  <2>1. <<x, y>>[1] = x /\ <<x, y>>[2] = y /\ 1 \in 1..Len(<<x, y>>) /\ 2 \in 1..Len(<<x, y>>)
    OBVIOUS
  <2> QED
    BY <2>1 DEF In
<1> QED
  BY <1>1, <1>2

(* What is next once the write is done covers what it owes.                *)
LEMMA AfterWriteCovers ==
    ASSUME Typed, NEW r \in Requests, At(r, "write"), Lands(Ask(r)),
           NEW t, t = Tail(work[r].plan)
    PROVE  /\ t # <<>> /\ Head(t).do \notin {"audience", "write", "everybody"}
           /\ Owed(r) \subseteq Subjects
           /\ Head(t).do = "tell" /\ Ask(r).deed # "rename" =>
                 \A s \in Owed(r) : In(s, Head(t).tell.lists) \/ In(s, Head(t).tell.people)
           /\ Head(t).do = "them" => Owed(r) \subseteq {Ask(r).list} \cup work[r].audience
<1> DEFINE a == Ask(r)
           p == work[r].plan
<1>1. StoreTyped /\ WorkTyped /\ Busy(r) /\ Head(p).do = "write"
  BY DEF Typed, At
<1>2. a \in Asks /\ Shape(a, p) /\ work[r].audience \subseteq Users
  BY <1>1, BusyJob
<1>3. a.deed \in Deeds /\ a.list \in Lists
  BY <1>2, AskParts
<1>4. Touched(a) \subseteq Subjects
  BY <1>1, <1>2, TouchedTyped
<1>5. Owed(r) \subseteq Subjects
  BY <1>2, <1>3, <1>4 DEF Owed, Subjects
<1> HIDE DEF a, p
<1>6. CASE a.deed = "edit"
  <2>1. t = <<Tell(<<a.list>>, <<>>)>>
    BY <1>1, <1>2, <1>6, AfterWrite DEF p
  <2>2. t # <<>> /\ Head(t) = Tell(<<a.list>>, <<>>)
    BY <2>1, OneStep
  <2>3. Owed(r) = {a.list}
    BY <1>6 DEF Owed, Touched, a
  <2> QED
    BY <1>5, <2>2, <2>3, StepKinds, InTuples
<1>7. CASE a.deed = "create"
  <2>1. t = <<Tell(<<>>, <<a.me>>)>>
    BY <1>1, <1>2, <1>7, AfterWrite DEF p
  <2>2. t # <<>> /\ Head(t) = Tell(<<>>, <<a.me>>)
    BY <2>1, OneStep
  <2>3. Owed(r) = {a.me}
    BY <1>7 DEF Owed, Touched, a
  <2> QED
    BY <1>5, <2>2, <2>3, StepKinds, InTuples
<1>8. CASE a.deed = "rename"
  <2>1. t = <<Tell(<<a.list>>, <<>>), TellEverybody>>
    BY <1>1, <1>2, <1>8, AfterWrite DEF p
  <2>2. t # <<>> /\ Head(t) = Tell(<<a.list>>, <<>>)
    BY <2>1, TwoSteps, ZenonT(60)
  <2> QED
    BY <1>5, <1>8, <2>2, StepKinds DEF a
<1>9. CASE a.deed = "delete"
  <2>1. t = <<TellThem>>
    BY <1>1, <1>2, <1>9, AfterWrite DEF p
  <2>2. t # <<>> /\ Head(t) = TellThem
    BY <2>1, OneStep
  <2>3. Owed(r) \subseteq {a.list} \cup work[r].audience
    BY <1>9 DEF Owed, a
  <2> QED
    BY <1>5, <2>2, <2>3, StepKinds DEF a
<1>10. CASE a.deed = "join"
  <2>1. t = <<StillThere>>
    BY <1>1, <1>2, <1>10, AfterWrite DEF p
  <2>2. t # <<>> /\ Head(t) = StillThere
    BY <2>1, OneStep
  <2> QED
    BY <1>5, <2>2, StepKinds
<1>11. CASE a.deed = "remove"
  <2>1. PICK x \in Users : p[2] = Tell(<<>>, <<a.who, x>>) /\ t = <<Tell(<<>>, <<a.who, x>>)>>
    BY <1>1, <1>2, <1>11, AfterWrite DEF p
  <2>2. t # <<>> /\ Head(t) = Tell(<<>>, <<a.who, x>>)
    BY <2>1, OneStep
  <2>3. p[2].tell.people = <<a.who, x>> /\ <<a.who, x>>[2] = x
    BY <2>1, StepKinds
  <2>4. Owed(r) \subseteq {a.who, p[2].tell.people[2]}
    BY <1>11 DEF Owed, a, p
  <2>5. Owed(r) \subseteq {a.who, x}
    BY <2>3, <2>4
  <2> QED
    BY <1>5, <2>2, <2>5, StepKinds, InTuples
<1> QED
  BY <1>3, <1>6, <1>7, <1>8, <1>9, <1>10, <1>11 DEF Deeds

(* A write is announced later.                                             *)
LEMMA Writing ==
    ASSUME Typed, Typed', Owing, Remember, NEW r \in Requests, DoWrite(r),
           told' = Latest(told \cup JustTold)
    PROVE  Owing' /\ \A w \in Screens, v \in 1..MaxVersion : Due(w, v)' => Due(w, v)
<1> DEFINE a == Ask(r)
           p == work[r].plan
<1>1. StoreTyped /\ WorkTyped /\ Busy(r) /\ At(r, "write") /\ screen' = screen
  BY DEF Typed, DoWrite, At
<1>2. a \in Asks /\ p \in Seq(Steps) /\ Len(p) \in 1..3 /\ Shape(a, p)
  BY <1>1, BusyJob
<1>3. owes[r] = {}
  BY <1>1, OwesBounds
<1>4. \A q \in Requests \ {r} : work'[q] = work[q]
  BY <1>1 DEF DoWrite, Continue, Finish, WorkTyped
<1>5. MaxVersion \in Nat /\ version \in [Subjects -> 1..MaxVersion]
      /\ version' \in [Subjects -> 1..MaxVersion]
  BY WatchingAssumption DEF Typed, StoreTyped, WatchingAssumption
<1>6. CASE Lands(a)
  <2>1. /\ version' = [s \in Subjects |-> IF s \in Touched(a) THEN version[s] + 1
                                          ELSE version[s]]
        /\ work' = [work EXCEPT ![r] = Rest(r)]
    BY <1>6 DEF DoWrite, Continue
  <2>2. Touched(a) \subseteq Subjects /\ Touched(a) # {}
    BY <1>1, <1>2, <1>6, TouchedTyped
  <2>3. \A s \in Subjects : version[s] <= version'[s]
    BY <1>5, <2>1
  <2>4. version' # version
    <3>1. PICK s \in Touched(a) : TRUE
      BY <2>2
    <3>2. version'[s] = version[s] + 1 /\ version[s] \in Nat
      BY <1>5, <2>1, <2>2
    <3> QED
      BY <3>2
  <2>5. Len(p) # 1
    BY <1>1, <1>2, AfterWrite DEF At
  <2>6. work'[r] = Rest(r)
    BY <1>1, <2>1 DEF WorkTyped
  <2>7. work'[r].plan = Tail(p) /\ work'[r].asked = a /\ work'[r].audience = work[r].audience
    BY <1>1, <2>5, <2>6, RestFits
  <2>8. Tail(p) # p
    <3>1. ASSUME NEW q \in Seq(Steps), Len(q) \in 1..3 PROVE Tail(q) # q
      <4>1. q # <<>> /\ Len(q) \in Nat
        BY <3>1
      <4>2. Len(Tail(q)) = Len(q) - 1
        BY <4>1
      <4>3. \A n \in Nat : n # n - 1
        OBVIOUS
      <4>4. Len(Tail(q)) # Len(q)
        BY <4>1, <4>2, <4>3
      <4> QED
        BY <4>4, Zenon
    <3> QED
      BY <1>2, <3>1
  <2>9. Writes(r)
    BY <1>1, <2>4, <2>7, <2>8 DEF Writes
  <2>10. NowOwes(r) = {<<s, version'[s]>> : s \in Owed(r)}
    BY <2>9 DEF NowOwes
  <2> DEFINE t == Tail(p)
  <2>11. /\ t # <<>> /\ Head(t).do \notin {"audience", "write", "everybody"}
         /\ Owed(r) \subseteq Subjects
         /\ Head(t).do = "tell" /\ a.deed # "rename" =>
               \A s \in Owed(r) : In(s, Head(t).tell.lists) \/ In(s, Head(t).tell.people)
         /\ Head(t).do = "them" => Owed(r) \subseteq {a.list} \cup work[r].audience
    BY <1>1, <1>6, AfterWriteCovers
  <2>12. NowOwes(r) \subseteq Subjects \X (1..MaxVersion)
    BY <1>5, <2>10, <2>11
  <2>13. \A q \in NowOwes(r) : q[1] \in Owed(r) /\ q[2] <= version'[q[1]]
    <3> TAKE q \in NowOwes(r)
    <3>1. PICK s \in Owed(r) : q = <<s, version'[s]>>
      BY <2>10
    <3>2. version'[s] \in Nat
      BY <1>5, <2>11
    <3> QED
      BY <3>1, <3>2
  <2>14. owes'[r] \subseteq NowOwes(r)
    BY DEF Remember
  <2> HIDE DEF t, p, a
  <2>15. Covers(r)'
    BY <2>7, <2>11, <2>13, <2>14 DEF Covers, At, Busy, Ask, Announces, a, t
  <2>16. ~Ends(r) /\ ~At(r, "everybody")'
    BY <2>7, <2>11 DEF Ends, Busy, At, t
  <2>17. told' \subseteq told
    BY <1>4, <2>16, ToldGrows, OthersOwe
  <2>18. Owing'
    BY <1>4, <2>3, <2>12, <2>13, <2>15, OwingStep
  <2> QED
    BY <1>1, <1>4, <2>16, <2>17, <2>18, DueStep
<1>7. CASE ~Lands(a)
  <2>1. version' = version /\ work' = [work EXCEPT ![r] = NoWork]
    BY <1>7 DEF DoWrite, Finish
  <2>2. NowOwes(r) = {}
    BY <1>3, <2>1, NowOwesLess
  <2>3. owes'[r] = {}
    BY <2>2 DEF Remember
  <2>4. Covers(r)'
    BY <2>3 DEF Covers
  <2>5. told' \subseteq told
    BY <1>4, <2>2, ToldGrows, OthersOwe
  <2>6. \A s \in Subjects : version[s] <= version'[s]
    BY <1>5, <2>1
  <2>7. Owing'
    BY <1>4, <2>2, <2>4, <2>6, OwingStep
  <2> QED
    BY <1>1, <1>4, <2>3, <2>5, <2>7, DueStep
<1> QED
  BY <1>6, <1>7

(* A joining that looks again is about to tell whom it still owes.         *)
LEMMA Looking ==
    ASSUME Typed, Typed', Owing, Remember, NEW r \in Requests, LookAgain(r),
           told' = Latest(told \cup JustTold)
    PROVE  Owing' /\ \A w \in Screens, v \in 1..MaxVersion : Due(w, v)' => Due(w, v)
<1> DEFINE a == Ask(r)
<1>1. /\ StoreTyped /\ WorkTyped /\ Busy(r) /\ At(r, "still_there")
      /\ screen' = screen /\ version' = version
  BY DEF Typed, LookAgain, At, stored
<1>2. a \in Asks /\ work[r] \in Jobs /\ Shape(a, work[r].plan)
  BY <1>1, BusyJob
<1>3. a.deed = "join" /\ work[r].plan = <<StillThere>>
  BY <1>1, <1>2, PlanKinds DEF At
<1>4. \A q \in Requests \ {r} : work'[q] = work[q]
  BY <1>1 DEF LookAgain, Finish, WorkTyped
<1>5. NowOwes(r) \subseteq owes[r]
  BY <1>1, NowOwesLess
<1>6. /\ NowOwes(r) \subseteq Subjects \X (1..MaxVersion)
      /\ \A p \in NowOwes(r) : p[2] <= version'[p[1]]
  BY <1>1, <1>5, OwesBounds
<1>7. \A s \in Subjects : version[s] <= version'[s]
  BY <1>1, WatchingAssumption DEF Typed, StoreTyped, WatchingAssumption
<1>8. told' \subseteq told
  BY <1>1, <1>4, ToldGrows, OthersOwe
<1>9. Covers(r)' /\ (owes'[r] = {} \/ ~At(r, "everybody")')
  <2>1. CASE There(a.list)
    <3> DEFINE h == Tell(<<a.list>>, <<a.me, owner[a.list]>>)
    <3>1. work' = [work EXCEPT ![r].plan = <<h>>]
      BY <2>1 DEF LookAgain
    <3>2. work'[r].plan = <<h>> /\ work'[r].asked = a
      BY <1>1, <1>2, <3>1 DEF WorkTyped, Jobs, Ask
    <3>3. Head(<<h>>) = h /\ <<h>> # <<>>
      BY OneStep
    <3>4. h.do = "tell" /\ h.tell.lists = <<a.list>> /\ h.tell.people = <<a.me, owner[a.list]>>
      BY StepKinds
    <3>5. work'[r] # work[r]
      <4>1. Head(<<StillThere>>).do = "still_there"
        BY OneStep, StepKinds
      <4> QED
        BY <1>3, <3>2, <3>3, <3>4, <4>1
    <3>6. \A p \in NowOwes(r) : p[1] \in {a.list, a.me, owner[a.list]}
      BY <1>1, <3>5 DEF NowOwes, Writes, StillOwed
    <3> HIDE DEF h
    <3>7. \A p \in owes'[r] : In(p[1], h.tell.lists) \/ In(p[1], h.tell.people)
      BY <3>4, <3>6, InTuples DEF Remember
    <3> HIDE DEF a
    <3>8. \A p \in owes'[r] : p[2] <= version'[p[1]]
      BY <1>6 DEF Remember
    <3> QED
      BY <3>2, <3>3, <3>4, <3>7, <3>8 DEF Covers, At, Busy, Ask, Announces
  <2>2. CASE ~There(a.list)
    <3>1. work'[r] = NoWork
      BY <1>1, <2>2 DEF LookAgain, Finish, WorkTyped
    <3>2. owes'[r] = {}
      BY <3>1, NoWorkFits DEF Remember, Busy
    <3> QED
      BY <3>2 DEF Covers
  <2> QED
    BY <2>1, <2>2
<1>10. Owing'
  BY <1>4, <1>6, <1>7, <1>9, OwingStep
<1> QED
  BY <1>1, <1>4, <1>8, <1>9, <1>10, DueStep

(* An announcement gets to whoever listens, or makes them lag.             *)
LEMMA AnnounceReaches ==
    ASSUME StoreTyped, ChannelTyped, NEW said \in Announced, Announce(said),
           NEW w \in Screens, live[w],
           \/ lagged[w] \/ In(Subject(w), pending[w])
           \/ In(Subject(w), said.lists) \/ In(Subject(w), said.people)
    PROVE  lagged'[w] \/ In(Subject(w), pending'[w])
<1> DEFINE s == Subject(w)
           c == IF s \in Lists THEN said.lists ELSE said.people
           q == pending[w]
<1>1. q \in Seq(Subjects) /\ said.lists \in Seq(Lists) /\ said.people \in Seq(Users)
      /\ s \in Subjects
  BY DEF ChannelTyped, Announced, StoreTyped, Subject
<1>2. c \in Seq(Subjects)
  BY <1>1 DEF Subjects
<1>3. Sent(w, said) = q \o c
  BY DEF Sent
<1>4. In(s, said.lists) => s \in Lists
  BY <1>1 DEF In
<1>5. In(s, said.people) => s \in Users /\ s \notin Lists
  <2>1. In(s, said.people) => s \in Users
    BY <1>1 DEF In
  <2> QED
    BY <2>1, WatchingAssumption DEF WatchingAssumption
<1>6. lagged[w] \/ In(s, q) \/ In(s, c)
  BY <1>4, <1>5
<1>7. lagged'[w] = (lagged[w] \/ Len(Sent(w, said)) > Room)
      /\ pending'[w] = Kept(Sent(w, said))
  BY DEF Announce
<1> HIDE DEF q, c, s
<1>8. q \o c \in Seq(Subjects) /\ Len(q \o c) = Len(q) + Len(c)
      /\ Len(q) \in Nat /\ Len(c) \in Nat
  BY <1>1, <1>2
<1>9. CASE Len(q \o c) > Room
  BY <1>3, <1>7, <1>9
<1>10. CASE ~(Len(q \o c) > Room)
  <2>1. Len(q \o c) <= Room
    BY <1>8, <1>10, WatchingAssumption DEF WatchingAssumption
  <2>2. pending'[w] = q \o c
    BY <1>3, <1>7, <1>8, <2>1, KeptTyped
  <2>3. In(s, q) => In(s, q \o c)
    <3> SUFFICES ASSUME NEW k \in 1..Len(q), q[k] = s PROVE In(s, q \o c)
      BY DEF In
    <3>1. k \in 1..Len(q \o c) /\ (q \o c)[k] = q[k]
      BY <1>1, <1>2, <1>8
    <3> QED
      BY <3>1 DEF In
  <2>4. In(s, c) => In(s, q \o c)
    <3> SUFFICES ASSUME NEW k \in 1..Len(c), c[k] = s PROVE In(s, q \o c)
      BY DEF In
    <3>1. Len(q) + k \in 1..Len(q \o c) /\ (q \o c)[Len(q) + k] = c[k]
      BY <1>1, <1>2, <1>8
    <3> QED
      BY <3>1 DEF In
  <2> QED
    BY <1>6, <1>7, <2>2, <2>3, <2>4 DEF s
<1> QED
  BY <1>9, <1>10

(* What a request that ends still owed, it has just announced -- or, at the *)
(* end of a renaming, announced a step ago.                                 *)
LEMMA Telling ==
    ASSUME Typed, Typed', Owing, Remember, NEW r \in Requests, DoTell(r),
           told' = Latest(told \cup JustTold)
    PROVE  /\ Owing'
           /\ \E said \in Announced :
                 /\ Announce(said)
                 /\ \A w \in Screens, v \in 1..MaxVersion : Due(w, v)' =>
                       Due(w, v) \/ In(Subject(w), said.lists) \/ In(Subject(w), said.people)
<1> DEFINE a == Ask(r)
           p == work[r].plan
<1>1. /\ StoreTyped /\ WorkTyped /\ Busy(r) /\ Continue(r)
      /\ Head(p).do \in {"tell", "everybody", "them"}
      /\ screen' = screen /\ version' = version
  BY DEF Typed, DoTell, At, stored
<1>2. a \in Asks /\ Shape(a, p) /\ Head(p) \in Steps /\ work[r].audience \in SUBSET Users
  BY <1>1, BusyJob
<1>3. a.list \in Lists
  BY <1>2, AskParts
<1>4. /\ a.deed # "rename" => Len(p) = 1
      /\ a.deed = "rename" => \/ p = <<Tell(<<a.list>>, <<>>), TellEverybody>>
                              \/ p = <<TellEverybody>> /\ Len(p) = 1
  BY <1>1, <1>2, LastTell
<1>5. PICK said \in Announced :
        /\ Announce(said)
        /\ At(r, "tell") => said = Head(p).tell
        /\ At(r, "everybody") => \A s \in PeopleOn(a.list) : In(s, said.people)
        /\ At(r, "them") => In(a.list, said.lists) /\ \A s \in work[r].audience : In(s, said.people)
  <2>1. CASE At(r, "tell") /\ Announce(Head(p).tell)
    <3>1. Head(p).tell \in Announced
      BY <1>2 DEF Steps
    <3> QED
      BY <2>1, <3>1 DEF At
  <2>2. CASE /\ At(r, "everybody")
             /\ \E people \in InSomeOrder(PeopleOn(a.list)) : Announce(Said(<<>>, people))
    <3>1. PICK people \in InSomeOrder(PeopleOn(a.list)) : Announce(Said(<<>>, people))
      BY <2>2
    <3>2. people \in Seq(Users) /\ \A s \in PeopleOn(a.list) : In(s, people)
      BY <1>1, <1>3, PeopleTyped, OrderTyped DEF In
    <3>3. Said(<<>>, people) \in Announced /\ Said(<<>>, people).people = people
      BY <3>2 DEF Said, Announced
    <3> QED
      BY <2>2, <3>1, <3>2, <3>3 DEF At
  <2>3. CASE /\ At(r, "them")
             /\ \E people \in InSomeOrder(work[r].audience) : Announce(Said(<<a.list>>, people))
    <3>1. PICK people \in InSomeOrder(work[r].audience) : Announce(Said(<<a.list>>, people))
      BY <2>3
    <3>2. people \in Seq(Users) /\ \A s \in work[r].audience : In(s, people)
      BY <1>2, OrderTyped DEF In
    <3>3. /\ Said(<<a.list>>, people) \in Announced /\ Said(<<a.list>>, people).people = people
          /\ Said(<<a.list>>, people).lists = <<a.list>>
      BY <1>3, <3>2 DEF Said, Announced
    <3> QED
      BY <2>3, <3>1, <3>2, <3>3, InTuples DEF At
  <2> QED
    BY <2>1, <2>2, <2>3 DEF DoTell
<1>6. work' = [work EXCEPT ![r] = Rest(r)] /\ work'[r] = Rest(r)
  BY <1>1 DEF Continue, WorkTyped
<1>7. \A q \in Requests \ {r} : work'[q] = work[q]
  BY <1>6
<1>8. CASE Len(p) = 1
  <2>1. work'[r] = NoWork
    BY <1>1, <1>6, <1>8, RestFits
  <2>2. ~Busy(r)' /\ work'[r] # work[r]
    BY <1>1, <2>1, NoWorkFits DEF Busy
  <2>3. owes'[r] = {} /\ Covers(r)'
    BY <2>2 DEF Remember, Covers
  <2>4. NowOwes(r) \subseteq owes[r]
        /\ \A q \in NowOwes(r) : StillOwed(r, q[1])
    BY <1>1, <2>2 DEF NowOwes, Writes
  <2>5. ASSUME NEW q \in NowOwes(r)
        PROVE  \/ In(q[1], said.lists) \/ In(q[1], said.people)
               \/ At(r, "everybody") /\ q[1] = a.list
    <3>1. q \in owes[r] /\ StillOwed(r, q[1])
      BY <2>4
    <3>2. CASE At(r, "tell")
      <4>1. a.deed # "rename"
        <5> SUFFICES ASSUME a.deed = "rename" PROVE FALSE
          OBVIOUS
        <5>1. CASE p = <<Tell(<<a.list>>, <<>>), TellEverybody>>
          BY <1>8, <5>1, TwoSteps
        <5>2. CASE p = <<TellEverybody>>
          <6>1. Head(p) = TellEverybody
            BY <5>2, OneStep
          <6> QED
            BY <3>2, <6>1, StepKinds DEF At
        <5> QED
          BY <1>4, <5>1, <5>2
      <4>2. Announces(r, q[1])
        BY <3>1, <3>2, <4>1 DEF Owing, Covers
      <4> QED
        BY <1>5, <3>2, <4>2 DEF Announces
    <3>3. CASE At(r, "everybody")
      BY <1>5, <3>1, <3>3 DEF StillOwed
    <3>4. CASE At(r, "them")
      BY <1>5, <3>1, <3>4 DEF Owing, Covers
    <3> QED
      BY <1>1, <3>2, <3>3, <3>4 DEF At
  <2>6. /\ NowOwes(r) \subseteq Subjects \X (1..MaxVersion)
        /\ \A q \in NowOwes(r) : q[2] <= version'[q[1]]
    BY <1>1, <2>4, OwesBounds
  <2>7. \A s \in Subjects : version[s] <= version'[s]
    BY <1>1, WatchingAssumption DEF Typed, StoreTyped, WatchingAssumption
  <2>8. Owing'
    BY <1>7, <2>3, <2>6, <2>7, OwingStep
  <2>9. ASSUME NEW w \in Screens, NEW v \in 1..MaxVersion, Due(w, v)'
        PROVE  Due(w, v) \/ In(Subject(w), said.lists) \/ In(Subject(w), said.people)
    <3>1. Subject(w)' = Subject(w)
      BY <1>1 DEF Subject
    <3>2. CASE <<Subject(w), v>> \in told' /\ <<Subject(w), v>> \notin told
      <4>1. PICK q \in Requests : Ends(q) /\ <<Subject(w), v>> \in NowOwes(q)
        BY <3>2, ToldGrows
      <4>2. q = r
        BY <1>7, <4>1, OthersOwe
      <4>3. <<Subject(w), v>>[1] = Subject(w)
        OBVIOUS
      <4>4. \/ In(Subject(w), said.lists) \/ In(Subject(w), said.people)
            \/ At(r, "everybody") /\ Subject(w) = a.list
        BY <2>5, <4>1, <4>2, <4>3
      <4>5. At(r, "everybody") /\ Subject(w) = a.list => Due(w, v)
        BY <2>4, <4>1, <4>2 DEF Due, DueBy
      <4> QED
        BY <4>4, <4>5
    <3>3. CASE <<Subject(w), v>> \in told
      BY <3>3 DEF Due
    <3>4. CASE \E q \in Requests : DueBy(q, w, v)'
      <4>1. PICK q \in Requests : DueBy(q, w, v)'
        BY <3>4
      <4>2. q # r
        BY <2>3, <4>1 DEF DueBy
      <4>3. work'[q] = work[q] /\ owes'[q] = owes[q]
        BY <1>7, <4>2, OthersOwe
      <4>4. DueBy(q, w, v)
        BY <3>1, <4>1, <4>3 DEF DueBy, At, Busy, Ask
      <4> QED
        BY <4>4 DEF Due
    <3> QED
      BY <2>9, <3>1, <3>2, <3>3, <3>4 DEF Due
  <2> QED
    BY <1>5, <2>8, <2>9
<1>9. CASE Len(p) # 1
  <2>1. a.deed = "rename" /\ p = <<Tell(<<a.list>>, <<>>), TellEverybody>>
    BY <1>4, <1>9
  <2>2. Head(p) = Tell(<<a.list>>, <<>>) /\ Tail(p) = <<TellEverybody>>
    BY <2>1, TwoSteps
  <2>3. Head(p).do = "tell" /\ Head(p).tell.lists = <<a.list>>
    BY <2>2, StepKinds
  <2>4. In(a.list, said.lists)
    BY <1>1, <1>5, <2>3, InTuples DEF At
  <2>5. /\ work'[r].plan = <<TellEverybody>> /\ work'[r].asked = a
        /\ work'[r].audience = work[r].audience
    BY <1>1, <1>6, <1>9, <2>2, RestFits
  <2>6. Head(<<TellEverybody>>).do = "everybody" /\ <<TellEverybody>> # <<>>
    BY OneStep, StepKinds
  <2>7. ~Ends(r)
    BY <2>5, <2>6 DEF Ends, Busy
  <2>8. NowOwes(r) \subseteq owes[r] /\ owes'[r] \subseteq NowOwes(r)
    BY <1>1, NowOwesLess DEF Remember
  <2>9. /\ NowOwes(r) \subseteq Subjects \X (1..MaxVersion)
        /\ \A q \in NowOwes(r) : q[2] <= version'[q[1]]
    BY <1>1, <2>8, OwesBounds
  <2>10. \A s \in Subjects : version[s] <= version'[s]
    BY <1>1, WatchingAssumption DEF Typed, StoreTyped, WatchingAssumption
  <2>11. Covers(r)'
    BY <2>5, <2>6, <2>8, <2>9 DEF Covers, At, Busy, Ask
  <2>12. Owing'
    BY <1>7, <2>9, <2>10, <2>11, OwingStep
  <2>13. told' \subseteq told
    BY <1>7, <2>7, ToldGrows, OthersOwe
  <2>14. ASSUME NEW w \in Screens, NEW v \in 1..MaxVersion, Due(w, v)'
         PROVE  Due(w, v) \/ In(Subject(w), said.lists)
    <3>1. Subject(w)' = Subject(w)
      BY <1>1 DEF Subject
    <3>2. CASE <<Subject(w), v>> \in told'
      BY <2>13, <3>2 DEF Due
    <3>3. CASE \E q \in Requests : DueBy(q, w, v)'
      <4>1. PICK q \in Requests : DueBy(q, w, v)'
        BY <3>3
      <4>2. CASE q = r
        <5>1. Subject(w) = a.list
          BY <2>5, <3>1, <4>1, <4>2 DEF DueBy, Ask
        <5> QED
          BY <2>4, <5>1
      <4>3. CASE q # r
        <5>1. work'[q] = work[q] /\ owes'[q] = owes[q]
          BY <1>7, <4>3, OthersOwe
        <5>2. DueBy(q, w, v)
          BY <3>1, <4>1, <5>1 DEF DueBy, At, Busy, Ask
        <5> QED
          BY <5>2 DEF Due
      <4> QED
        BY <4>2, <4>3
    <3> QED
      BY <2>14, <3>1, <3>2, <3>3 DEF Due
  <2> QED
    BY <1>5, <2>12, <2>14
<1> QED
  BY <1>8, <1>9

----------------------------------------------------------------------------
(* What screens hear, and show.                                            *)

(* A step that leaves a screen's loop and loads alone, and takes no news    *)
(* away, leaves what has reached it.                                        *)
LEMMA HearsStep ==
    ASSUME Remember, screen' = screen, NEW w \in Screens, Listening(w), Hears(w),
           live'[w] = live[w], phase'[w] = phase[w], loads'[w] = loads[w],
           shown'[w] = shown[w],
           Counts(w) =>
              (lagged[w] \/ In(Subject(w), pending[w]) \/ nudged[w] =>
                  lagged'[w] \/ In(Subject(w), pending'[w]) \/ nudged'[w]),
           Counts(w) =>
              \A v \in 1..MaxVersion :
                  Due(w, v)' => Due(w, v) \/ lagged'[w] \/ In(Subject(w), pending'[w])
    PROVE  Listening(w)' /\ Hears(w)'
<1>1. \A k \in Loads : ~ReadsNow(w, k) /\ ~Misses(w, k)
  BY DEF ReadsNow, Misses, Loading
<1>2. synced'[w] = (live[w] /\ synced[w])
      /\ spoilt'[w] = ((\A k \in Loads : loads[w][k] # None) \/ spoilt[w])
  BY <1>1, Remembered DEF Loads
<1>3. Listening(w)'
  BY <1>2 DEF Listening
<1>4. Counts(w)' => Counts(w)
  BY <1>2 DEF Counts, Listening
<1>5. Subject(w)' = Subject(w)
  BY DEF Subject
<1>6. ASSUME Counts(w)', NEW v \in 1..MaxVersion, Due(w, v)'
      PROVE  Reached(w, v)'
  <2>1. CASE lagged'[w] \/ In(Subject(w), pending'[w])
    BY <1>5, <2>1 DEF Reached
  <2>2. CASE Due(w, v)
    <3>1. Reached(w, v)
      BY <1>4, <1>6, <2>2 DEF Hears
    <3> QED
      BY <1>4, <1>5, <1>6, <3>1 DEF Reached
  <2> QED
    BY <1>4, <1>6, <2>1, <2>2
<1> QED
  BY <1>3, <1>6 DEF Hears

(* A step of one screen leaves the others as they were.                    *)
LEMMA OtherScreen ==
    ASSUME Remember, screen' = screen, NEW w \in Screens, Listening(w), Hears(w),
           live'[w] = live[w], phase'[w] = phase[w], loads'[w] = loads[w],
           shown'[w] = shown[w], lagged'[w] = lagged[w], pending'[w] = pending[w],
           nudged'[w] = nudged[w],
           \A v \in 1..MaxVersion : Due(w, v)' => Due(w, v)
    PROVE  Listening(w)' /\ Hears(w)'
BY HearsStep

(* What is due is never newer than what there is to read.                  *)
LEMMA DueIsThere ==
    ASSUME Owing, NEW w \in Screens, NEW v, Due(w, v)
    PROVE  v <= version[Subject(w)]
<1>1. <<Subject(w), v>>[1] = Subject(w) /\ <<Subject(w), v>>[2] = v
  OBVIOUS
<1>2. CASE <<Subject(w), v>> \in told
  BY <1>1, <1>2 DEF Owing, HistoryTyped
<1>3. CASE \E r \in Requests : DueBy(r, w, v)
  BY <1>1, <1>3 DEF Owing, Covers, DueBy
<1> QED
  BY <1>2, <1>3 DEF Due

(* A screen that reads has, in the load, all there is.                     *)
LEMMA ReadHears ==
    ASSUME Typed, Owing, Remember, screen' = screen, NEW w \in Screens, NEW k \in Loads,
           Read(w, k), ~Loading(w, k), Listening(w),
           live' = live, phase' = phase, shown' = shown,
           \A v \in 1..MaxVersion : Due(w, v)' => Due(w, v)
    PROVE  Listening(w)' /\ Hears(w)'
<1>1. Subject(w)' = Subject(w) /\ version[Subject(w)] \in 1..MaxVersion
  BY ReadTyped DEF Subject
<1>2. loads \in [Screens -> [Loads -> 1..MaxVersion \cup {None}]]
  BY DEF Typed, DisplayTyped
<1>3. /\ loads'[w][k] = version[Subject(w)]
      /\ \A j \in Loads \ {k} : loads'[w][j] = loads[w][j]
  BY <1>2 DEF Read
<1>4. loads'[w][k] # None
  BY <1>1, <1>3, WatchingAssumption DEF WatchingAssumption
<1>5. synced'[w] = (live'[w] /\ (synced[w] \/ \E j \in Loads : ReadsNow(w, j)))
      /\ ((\A j \in Loads : loads'[w][j] # None) => spoilt'[w])
  BY Remembered
<1>6. Listening(w)'
  BY <1>5 DEF Listening
<1>7. ASSUME NEW v \in 1..MaxVersion, Due(w, v)'
      PROVE  Reached(w, v)'
  <2>1. v <= version[Subject(w)]
    BY <1>7, DueIsThere
  <2>2. loads'[w][k] >= v
    BY <1>1, <1>3, <2>1
  <2> QED
    BY <1>4, <2>2 DEF Reached
<1> QED
  BY <1>6, <1>7 DEF Hears

(* The answer to the one load under way shows what that load had.          *)
LEMMA AnswerHears ==
    ASSUME Typed, Remember, screen' = screen, NEW w \in Screens, NEW k \in Loads,
           NEW arrives \in BOOLEAN, AnswerComes(w, k, arrives), Listening(w), Hears(w),
           \A v \in 1..MaxVersion : Due(w, v)' => Due(w, v)
    PROVE  Listening(w)' /\ Hears(w)'
<1>1. Subject(w)' = Subject(w)
  BY DEF Subject
<1>2. /\ loads \in [Screens -> [Loads -> 1..MaxVersion \cup {None}]]
      /\ shown \in [Screens -> 0..MaxVersion] /\ phase \in [Screens -> Phases]
  BY DEF Typed, DisplayTyped
<1>3. /\ loads'[w][k] = None /\ loads[w][k] # None
      /\ \A j \in Loads \ {k} : loads'[w][j] = loads[w][j]
      /\ live' = live /\ lagged' = lagged /\ pending' = pending /\ nudged' = nudged
  BY <1>2 DEF AnswerComes, Loading, channel
<1>4. \A j \in Loads : ~ReadsNow(w, j)
  BY <1>3 DEF ReadsNow, Loading
<1>5. /\ synced'[w] = (live[w] /\ synced[w])
      /\ Misses(w, k) => spoilt'[w]
      /\ spoilt[w] => spoilt'[w]
  BY <1>3, <1>4, Remembered DEF Loads
<1>6. phase'[w] = phase[w] \/ (phase[w] = "load" /\ phase'[w] = "open")
  BY <1>2 DEF AnswerComes, GoTo
<1>7. Listening(w)'
  BY <1>3, <1>5, <1>6 DEF Listening
<1>8. ASSUME Counts(w)', NEW v \in 1..MaxVersion, Due(w, v)'
      PROVE  Reached(w, v)'
  <2>1. Counts(w)
    BY <1>3, <1>5, <1>6, <1>8 DEF Counts
  <2>2. Reached(w, v)
    BY <1>8, <2>1 DEF Hears
  <2>3. \A j \in Loads \ {k} : loads[w][j] = None
    BY <1>3, <2>1 DEF Listening, Counts, Loads
  <2>4. shown'[w] = loads[w][k]
    BY <1>3, <1>5, <1>8 DEF Misses, Loading, Counts
  <2>5. CASE lagged[w] \/ In(Subject(w), pending[w]) \/ nudged[w]
    BY <1>1, <1>3, <2>5 DEF Reached
  <2>6. CASE \E j \in Loads : loads[w][j] # None /\ loads[w][j] >= v
    <3>1. loads[w][k] >= v
      BY <2>3, <2>6
    <3>2. \A j \in Loads : loads'[w][j] = None
      BY <1>3, <2>3
    <3> QED
      BY <2>4, <3>1, <3>2 DEF Reached
  <2>7. CASE \A j \in Loads : loads[w][j] = None
    BY <1>3, <2>7
  <2> QED
    BY <2>2, <2>5, <2>6, <2>7 DEF Reached
<1> QED
  BY <1>7, <1>8 DEF Hears

(* What a receiver hears becomes a nudge; what it skips is about something *)
(* else.                                                                   *)
LEMMA ReceiveHears ==
    ASSUME Typed, NEW w \in Screens, Receive(w),
           IsNews(w) => nudged'[w], nudged[w] => nudged'[w],
           lagged[w] \/ In(Subject(w), pending[w]) \/ nudged[w]
    PROVE  lagged'[w] \/ In(Subject(w), pending'[w]) \/ nudged'[w]
<1>1. CASE lagged[w] \/ nudged[w]
  BY <1>1 DEF IsNews
<1>2. CASE ~lagged[w] /\ In(Subject(w), pending[w])
  <2> DEFINE q == pending[w]
  <2>1. q \in Seq(Subjects) /\ q # <<>>
    BY <1>2 DEF Typed, ChannelTyped, Receive, HasSomething
  <2>2. pending'[w] = Tail(q)
    BY <1>2 DEF Receive, Typed, ChannelTyped
  <2>3. CASE Head(q) = Subject(w)
    BY <2>3 DEF IsNews
  <2>4. CASE Head(q) # Subject(w)
    <3>1. PICK k \in 1..Len(q) : q[k] = Subject(w)
      BY <1>2 DEF In
    <3> HIDE DEF q
    <3>2. k # 1
      BY <2>1, <2>4, <3>1
    <3>3. k - 1 \in 1..Len(Tail(q)) /\ Tail(q)[k - 1] = q[k]
      BY <2>1, <3>1, <3>2
    <3>4. In(Subject(w), Tail(q))
      BY <3>1, <3>3 DEF In
    <3> QED
      BY <2>2, <3>4
  <2> QED
    BY <2>3, <2>4
<1> QED
  BY <1>1, <1>2

(* A screen whose receiver is gone, or that closes, need hear nothing.     *)
LEMMA DeafHears ==
    ASSUME Remember, NEW w \in Screens, ~live'[w] \/ phase'[w] = "closed",
           Listening(w), loads'[w] = loads[w] \/ \A k \in Loads : loads'[w][k] = None,
           live'[w] => phase'[w] \in {"listen", "closed"}
    PROVE  Listening(w)' /\ Hears(w)'
<1>1. synced'[w] => live'[w]
  BY Remembered
<1>2. (\A k \in Loads : loads'[w][k] # None) => spoilt'[w]
  BY Remembered
<1>3. ~Counts(w)'
  BY <1>1 DEF Counts
<1> QED
  BY <1>1, <1>2, <1>3 DEF Listening, Hears

----------------------------------------------------------------------------
(* Every step keeps the invariant.                                         *)

Screening == \A w \in Screens : Listening(w) /\ Hears(w)

LEMMA RequestWatched ==
    ASSUME WatchInv, Remember, NEW r \in Requests,
           \/ Request(r) /\ told' = Latest(told \cup JustTold)
           \/ Cut(r) /\ UNCHANGED told
    PROVE  Owing' /\ Screening'
<1>1. Typed /\ Owing /\ Typed' /\ screen' = screen
  BY RequestTyped DEF WatchInv, Request, Begin, ReadAudience, DoWrite, LookAgain, DoTell, Cut, stored
<1>2. UNCHANGED <<live, nudged, phase, loads, shown>>
  BY DEF Request, Begin, ReadAudience, DoWrite, LookAgain, DoTell, Cut, Announce, channel, display
<1>3. CASE DoTell(r) /\ told' = Latest(told \cup JustTold)
  <2>1. Owing'
    BY <1>1, <1>3, Telling
  <2>2. PICK said \in Announced :
          /\ Announce(said)
          /\ \A w \in Screens, v \in 1..MaxVersion : Due(w, v)' =>
                Due(w, v) \/ In(Subject(w), said.lists) \/ In(Subject(w), said.people)
    BY <1>1, <1>3, Telling
  <2>3. ASSUME NEW w \in Screens
        PROVE  Listening(w)' /\ Hears(w)'
    <3>1. ASSUME Counts(w), lagged[w] \/ In(Subject(w), pending[w])
          PROVE  lagged'[w] \/ In(Subject(w), pending'[w])
      BY <1>1, <2>2, <3>1, AnnounceReaches DEF Counts, Typed
    <3>2. ASSUME Counts(w), NEW v \in 1..MaxVersion, Due(w, v)'
          PROVE  Due(w, v) \/ lagged'[w] \/ In(Subject(w), pending'[w])
      BY <1>1, <2>2, <3>2, AnnounceReaches DEF Counts, Typed
    <3>3. Listening(w) /\ Hears(w)
      BY DEF WatchInv
    <3> QED
      BY <1>1, <1>2, <3>1, <3>2, <3>3, HearsStep
  <2> QED
    BY <2>1, <2>3 DEF Screening
<1>4. CASE ~DoTell(r)
  <2>1. Owing' /\ \A w \in Screens, v \in 1..MaxVersion : Due(w, v)' => Due(w, v)
    BY <1>1, <1>4, SettingOut, Writing, Looking DEF Request
  <2>2. lagged' = lagged /\ pending' = pending
    BY <1>4 DEF Request, Begin, ReadAudience, DoWrite, LookAgain, Cut, channel
  <2>3. ASSUME NEW w \in Screens
        PROVE  Listening(w)' /\ Hears(w)'
    <3>1. Listening(w) /\ Hears(w)
      BY DEF WatchInv
    <3> QED
      BY <1>1, <1>2, <2>1, <2>2, <3>1, OtherScreen
  <2> QED
    BY <2>1, <2>3 DEF Screening
<1>5. CASE Cut(r) /\ UNCHANGED told
  <2>1. Owing' /\ \A w \in Screens, v \in 1..MaxVersion : Due(w, v)' => Due(w, v)
    BY <1>1, <1>5, SettingOut
  <2>2. lagged' = lagged /\ pending' = pending
    BY <1>5 DEF Cut, channel
  <2>3. ASSUME NEW w \in Screens
        PROVE  Listening(w)' /\ Hears(w)'
    <3>1. Listening(w) /\ Hears(w)
      BY DEF WatchInv
    <3> QED
      BY <1>1, <1>2, <2>1, <2>2, <3>1, OtherScreen
  <2> QED
    BY <2>1, <2>3 DEF Screening
<1> QED
  BY <1>3, <1>4, <1>5

(* A step that moves no request leaves what they owe, and what is due.     *)
LEMMA StoreStands ==
    ASSUME WatchInv, Typed', Remember, UNCHANGED <<stored, work>>,
           told' = Latest(told \cup JustTold) \/ UNCHANGED told
    PROVE  Owing' /\ \A w \in Screens, v \in 1..MaxVersion : Due(w, v)' => Due(w, v)
<1>1. owes' = owes /\ told' \subseteq told /\ version' = version /\ screen' = screen
      /\ work' = work
  BY NoRequestMoves DEF WatchInv, stored
<1>2. synced' \in [Screens -> BOOLEAN] /\ spoilt' \in [Screens -> BOOLEAN]
  BY MarksTyped DEF WatchInv, Typed, Owing
<1>3. HistoryTyped'
  BY <1>1, <1>2 DEF HistoryTyped, WatchInv, Owing
<1>4. \A r \in Requests : Covers(r)'
  BY <1>1 DEF Covers, At, Busy, Ask, Announces, WatchInv, Owing
<1>5. ASSUME NEW w \in Screens, NEW v \in 1..MaxVersion, Due(w, v)'
      PROVE  Due(w, v)
  BY <1>1, <1>5 DEF Due, DueBy, At, Busy, Ask, Subject
<1> QED
  BY <1>3, <1>4, <1>5 DEF Owing

LEMMA ScreenWatched ==
    ASSUME WatchInv, Remember, NEW x \in Screens,
           Loop(x) \/ Thread(x) \/ Drop(x) \/ (\E k \in Loads : AnswerComes(x, k, FALSE)),
           told' = Latest(told \cup JustTold) \/ UNCHANGED told
    PROVE  Owing' /\ Screening'
<1>1. Typed /\ Owing /\ Typed'
  BY LoopTyped, ThreadTyped DEF WatchInv
<1>2. UNCHANGED <<stored, work>>
  BY DEF Loop, Thread, LoadFirst, Reread, LoadOnItsOwn, Open, AnswerComes, Deliver, Notice,
         StartOver, Close, CheckFlag, Park, HearOne, HearStop, NotifyStop, Free, Drop
<1>3. Owing' /\ \A w \in Screens, v \in 1..MaxVersion : Due(w, v)' => Due(w, v)
  BY <1>1, <1>2, StoreStands
<1>4. screen' = screen
  BY <1>2 DEF stored
<1>5. /\ live \in [Screens -> BOOLEAN] /\ lagged \in [Screens -> BOOLEAN]
      /\ pending \in [Screens -> Seq(Subjects)] /\ nudged \in [Screens -> BOOLEAN]
      /\ phase \in [Screens -> Phases]
      /\ loads \in [Screens -> [Loads -> 1..MaxVersion \cup {None}]]
      /\ shown \in [Screens -> 0..MaxVersion]
  BY <1>1 DEF Typed, ChannelTyped, DisplayTyped
<1>6. ASSUME NEW w \in Screens, w # x
      PROVE  Listening(w)' /\ Hears(w)'
  <2>1. /\ live'[w] = live[w] /\ phase'[w] = phase[w] /\ loads'[w] = loads[w]
        /\ shown'[w] = shown[w] /\ lagged'[w] = lagged[w] /\ pending'[w] = pending[w]
        /\ nudged'[w] = nudged[w]
    <3>1. CASE LoadFirst(x) \/ Reread(x) \/ LoadOnItsOwn(x)
      BY <1>5, <1>6, <3>1 DEF LoadFirst, Reread, LoadOnItsOwn, Read, channel
    <3>2. CASE Open(x)
      BY <1>5, <1>6, <3>2 DEF Open, GoTo
    <3>3. CASE \E k \in Loads : AnswerComes(x, k, TRUE) \/ AnswerComes(x, k, FALSE)
      BY <1>5, <1>6, <3>3 DEF AnswerComes, GoTo, channel
    <3>4. CASE Deliver(x) \/ HearOne(x)
      BY <1>5, <1>6, <3>4 DEF Deliver, HearOne, Receive, display
    <3>5. CASE Notice(x) \/ StartOver(x)
      BY <1>5, <1>6, <3>5 DEF Notice, StartOver, GoTo, channel
    <3>6. CASE Close(x)
      BY <1>5, <1>6, <3>6 DEF Close, GoTo, Deaf, channel
    <3>7. CASE CheckFlag(x) \/ Park(x) \/ HearStop(x) \/ NotifyStop(x)
      BY <3>7 DEF CheckFlag, Park, HearStop, NotifyStop, channel, display
    <3>8. CASE Free(x) \/ Drop(x)
      BY <1>5, <1>6, <3>8 DEF Free, Drop, Deaf, display
    <3> QED
      BY <3>1, <3>2, <3>3, <3>4, <3>5, <3>6, <3>7, <3>8 DEF Loop, Thread
  <2>2. Listening(w) /\ Hears(w)
    BY DEF WatchInv
  <2> QED
    BY <1>3, <1>4, <2>1, <2>2, OtherScreen
<1>7. Listening(x) /\ Hears(x)
  BY DEF WatchInv
<1>8. Listening(x)' /\ Hears(x)'
  <2>1. CASE LoadFirst(x)
    BY <1>1, <1>3, <1>4, <1>7, <2>1, ReadHears DEF LoadFirst, channel, Loads
  <2>2. CASE Reread(x)
    BY <1>1, <1>3, <1>4, <1>7, <2>2, ReadHears DEF Reread, channel, Loads
  <2>3. CASE LoadOnItsOwn(x)
    BY <1>1, <1>3, <1>4, <1>7, <2>3, ReadHears DEF LoadOnItsOwn, channel, Loads
  <2>4. CASE Open(x)
    <3>1. ~live[x] /\ ~synced[x] /\ loads' = loads
      BY <1>7, <2>4 DEF Open, Listening
    <3>2. \A k \in Loads : ~ReadsNow(x, k)
      BY <3>1 DEF ReadsNow, Loading
    <3>3. ~synced'[x]
      BY <3>1, <3>2, Remembered
    <3>4. live'[x] => phase'[x] \in {"listen", "closed"}
      BY <1>5, <2>4, <3>1 DEF Open, GoTo
    <3>5. (\A k \in Loads : loads'[x][k] # None) => spoilt'[x]
      BY Remembered
    <3> QED
      BY <3>3, <3>4, <3>5 DEF Listening, Hears, Counts
  <2>5. CASE \E k \in Loads : AnswerComes(x, k, TRUE) \/ AnswerComes(x, k, FALSE)
    BY <1>1, <1>3, <1>4, <1>7, <2>5, AnswerHears
  <2>6. CASE Deliver(x)
    <3>1. Receive(x) /\ (IsNews(x) => nudged'[x]) /\ (nudged[x] => nudged'[x])
      BY <1>5, <2>6 DEF Deliver
    <3>2. lagged[x] \/ In(Subject(x), pending[x]) \/ nudged[x] =>
             lagged'[x] \/ In(Subject(x), pending'[x]) \/ nudged'[x]
      BY <1>1, <3>1, ReceiveHears
    <3>3. live' = live /\ phase' = phase /\ loads' = loads /\ shown' = shown
      BY <2>6 DEF Deliver, Receive, display
    <3> QED
      BY <1>3, <1>4, <1>7, <3>2, <3>3, HearsStep
  <2>7. CASE HearOne(x)
    <3>1. live' = live /\ phase' = phase /\ loads' = loads /\ shown' = shown
      BY <2>7 DEF HearOne, Receive, display
    <3>2. Counts(x) =>
             (lagged[x] \/ In(Subject(x), pending[x]) \/ nudged[x] =>
                 lagged'[x] \/ In(Subject(x), pending'[x]) \/ nudged'[x])
      <4> SUFFICES ASSUME Counts(x) PROVE
             (lagged[x] \/ In(Subject(x), pending[x]) \/ nudged[x] =>
                 lagged'[x] \/ In(Subject(x), pending'[x]) \/ nudged'[x])
        OBVIOUS
      <4>1. Receive(x) /\ (IsNews(x) => nudged'[x]) /\ (nudged[x] => nudged'[x])
        BY <1>5, <2>7 DEF HearOne, Counts
      <4> QED
        BY <1>1, <4>1, ReceiveHears
    <3> QED
      BY <1>3, <1>4, <1>7, <3>1, <3>2, HearsStep
  <2>8. CASE Notice(x) \/ StartOver(x)
    <3>1. ~live'[x] /\ loads' = loads
      BY <1>7, <2>8 DEF Notice, StartOver, Listening, channel
    <3> QED
      BY <1>7, <3>1, DeafHears
  <2>9. CASE Close(x)
    <3>1. phase'[x] = "closed" /\ \A k \in Loads : loads'[x][k] = None
      BY <1>5, <2>9 DEF Close, GoTo
    <3> QED
      BY <1>7, <3>1, DeafHears
  <2>10. CASE CheckFlag(x) \/ Park(x) \/ HearStop(x) \/ NotifyStop(x)
    <3>1. UNCHANGED <<live, pending, lagged, nudged, phase, loads, shown>>
      BY <2>10 DEF CheckFlag, Park, HearStop, NotifyStop, channel, display
    <3> QED
      BY <1>3, <1>4, <1>7, <3>1, OtherScreen
  <2>11. CASE Free(x) \/ Drop(x)
    <3>1. ~live'[x] /\ loads' = loads
      BY <1>5, <2>11 DEF Free, Drop, Deaf, display
    <3> QED
      BY <1>7, <3>1, DeafHears
  <2> QED
    BY <2>1, <2>2, <2>3, <2>4, <2>5, <2>6, <2>7, <2>8, <2>9, <2>10, <2>11 DEF Loop, Thread
<1> QED
  BY <1>3, <1>6, <1>8 DEF Screening

LEMMA RestartWatched ==
    ASSUME WatchInv, Remember, Restart, UNCHANGED told
    PROVE  Owing' /\ Screening'
<1>1. Typed /\ Owing /\ Typed'
  BY RestartTyped DEF WatchInv
<1>2. /\ version' = version /\ loads' = loads
      /\ \A r \in Requests : work'[r] = NoWork
      /\ \A w \in Screens : ~live'[w]
  BY DEF Restart, Deaf, stored, display
<1>3. \A r \in Requests : owes'[r] = {}
  BY <1>2, NoWorkFits DEF Remember, Busy
<1>4. owes' \in [Requests -> SUBSET (Subjects \X (1..MaxVersion))]
  <2>1. owes' = [r \in Requests |-> owes'[r]]
    BY DEF Remember
  <2> QED
    BY <1>3, <2>1
<1>5. synced' \in [Screens -> BOOLEAN] /\ spoilt' \in [Screens -> BOOLEAN]
  BY <1>1, MarksTyped DEF Typed, Owing
<1>6. HistoryTyped'
  BY <1>1, <1>2, <1>4, <1>5 DEF HistoryTyped, Owing
<1>7. Owing'
  BY <1>3, <1>6 DEF Owing, Covers
<1>8. \A w \in Screens : Listening(w)' /\ Hears(w)'
  BY <1>2, DeafHears DEF WatchInv
<1> QED
  BY <1>7, <1>8 DEF Screening

LEMMA WatchInit == HistoryInit => WatchInv
<1> SUFFICES ASSUME HistoryInit PROVE WatchInv
  OBVIOUS
<1>1. Typed
  BY InitTyped DEF HistoryInit
<1>2. Owing
  BY DEF HistoryInit, Owing, HistoryTyped, Covers
<1>3. \A w \in Screens : Listening(w) /\ Hears(w)
  BY DEF HistoryInit, Init, Listening, Hears, Counts, Loads
<1> QED
  BY <1>1, <1>2, <1>3 DEF WatchInv

LEMMA WatchNext == WatchInv /\ [HistoryNext]_<<vars, history>> => WatchInv'
<1> SUFFICES ASSUME WatchInv, [HistoryNext]_<<vars, history>> PROVE WatchInv'
  OBVIOUS
<1>1. CASE UNCHANGED <<vars, history>>
  <2>1. Typed'
    BY <1>1, NextTyped DEF WatchInv
  <2>2. Owing'
    BY <1>1 DEF WatchInv, Owing, HistoryTyped, Covers, At, Busy, Ask, Announces, vars, history
  <2>3. \A w \in Screens : Listening(w)' /\ Hears(w)'
    BY <1>1 DEF WatchInv, Listening, Hears, Counts, Due, DueBy, Reached, At, Busy, Ask, Subject,
                vars, history
  <2> QED
    BY <2>1, <2>2, <2>3 DEF WatchInv
<1>2. CASE HistoryNext
  <2>1. Typed'
    BY <1>2, NextTyped DEF WatchInv, HistoryNext, HistoryGoes, HistoryBreaks, Next
  <2>2. Owing' /\ Screening'
    <3>1. CASE HistoryGoes
      BY <3>1, RequestWatched, ScreenWatched DEF HistoryGoes, Goes
    <3>2. CASE HistoryBreaks
      BY <3>2, RequestWatched, ScreenWatched, RestartWatched DEF HistoryBreaks, Breaks
    <3> QED
      BY <1>2, <3>1, <3>2 DEF HistoryNext
  <2> QED
    BY <2>1, <2>2 DEF WatchInv, Screening
<1> QED
  BY <1>1, <1>2

LEMMA WatchShows == WatchInv => CaughtUp
<1> SUFFICES ASSUME WatchInv, NEW w \in Screens, live[w], synced[w], ~spoilt[w], AtRest(w),
                    NEW p \in told, p[1] = Subject(w)
             PROVE  shown[w] >= p[2]
  BY DEF CaughtUp
<1>1. p \in Subjects \X (1..MaxVersion)
  BY DEF WatchInv, Owing, HistoryTyped
<1>2. p = <<Subject(w), p[2]>> /\ p[2] \in 1..MaxVersion
  BY <1>1
<1>3. Due(w, p[2])
  BY <1>2 DEF Due
<1>4. phase[w] = "listen" /\ ~nudged[w] /\ ~lagged[w] /\ pending[w] = <<>>
      /\ \A k \in Loads : loads[w][k] = None
  BY DEF AtRest, HasSomething, Loading
<1>5. Counts(w)
  BY <1>4 DEF Counts
<1>6. Reached(w, p[2])
  BY <1>2, <1>3, <1>5 DEF WatchInv, Hears
<1>7. ~In(Subject(w), pending[w])
  BY <1>4 DEF In
<1> QED
  BY <1>4, <1>6, <1>7 DEF Reached

(* However many requests, people, lists and screens there are, and however  *)
(* many announcements a receiver has room for: a screen that has read since *)
(* it subscribed and has nothing more to hear shows what every finished     *)
(* request announced (Changes::new: "missing some of them costs nothing").  *)
THEOREM NudgesAreEnough == HistorySpec => []CaughtUp
<1>1. HistoryInit => WatchInv
  BY WatchInit
<1>2. WatchInv /\ [HistoryNext]_<<vars, history>> => WatchInv'
  BY WatchNext
<1>3. WatchInv => CaughtUp
  BY WatchShows
<1> QED
  BY <1>1, <1>2, <1>3, PTL DEF HistorySpec

============================================================================
