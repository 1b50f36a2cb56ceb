-------------------------- MODULE Membership_proofs --------------------------
(***************************************************************************)
(* Proofs about Membership and its history, for any people, requests and   *)
(* databases to start from.  What a request has still to do is a sequence  *)
(* of steps; what the proofs need of one (WellLaid, Follows) holds of the  *)
(* plan a request arrives with, put together from the plans of its parts,  *)
(* and of what is left of it after every step.                             *)
(***************************************************************************)
EXTENDS MembershipHistory, TLAPS, WellFoundedInduction

----------------------------------------------------------------------------
(* Sequences of steps.                                                     *)

Looks == {"find", "owner", "row"}
Acts == {"read", "sheet", "rename", "delete", "invite", "revoke", "remove"}

(* The steps a request may take, by what it asks.                          *)
Suits(deed) ==
    Looks \cup
    (IF deed = "join" THEN {"claim", "decide", "put", "mark"}
     ELSE IF deed = "close" THEN {"owned", "heir", "hand_over", "leave"}
     ELSE IF deed = "index" THEN {"index", "each", "say"}
     ELSE IF deed = "read" THEN {"read", "each", "say"}
     ELSE {"create", "not_owner"} \cup (Acts \ {"read"}))

Only(p, what) == \A i \in 1..Len(p) : p[i].do \in what

Without(p, what) == \A i \in 1..Len(p) : p[i].do # what

(* Whoever is not the owner is looked for among the members next.          *)
Paired(p) ==
    \A i \in 1..Len(p) : p[i].do = "owner" =>
        i < Len(p) /\ p[i + 1].do = "row" /\ p[i + 1].need = p[i].need

(* Somewhere in p the role is asked for, and this one or a higher needed.  *)
Leads(p, need) == \E i \in 1..Len(p) : p[i].do = "row" /\ p[i].need >= need

(* And that is before any of the steps `what`.                             *)
Follows(p, what, need) ==
    \A i \in 1..Len(p) : p[i].do \in what =>
        \E j \in 1..(i - 1) : p[j].do = "row" /\ p[j].need >= need

WellLaid(p, deed) ==
    /\ Only(p, Suits(deed))
    /\ Paired(p)
    /\ \A i \in 1..Len(p) : p[i].do = "each" => i = Len(p)
    /\ \A i \in 1..Len(p) : p[i].do = "claim" => i = 1
    /\ \A i \in 1..Len(p) : p[i].do = "row" /\ deed # "join" => p[i].need >= Viewer

LEMMA Joined ==
    ASSUME NEW S, NEW s \in Seq(S), NEW t \in Seq(S)
    PROVE  /\ s \o t \in Seq(S)
           /\ Len(s \o t) = Len(s) + Len(t)
           /\ \A i \in 1..Len(s) : (s \o t)[i] = s[i]
           /\ \A i \in 1..Len(t) : (s \o t)[Len(s) + i] = t[i]
           /\ \A i \in 1..Len(s \o t) :
                 i <= Len(s) \/ (i - Len(s) \in 1..Len(t) /\ (s \o t)[i] = t[i - Len(s)])
OBVIOUS

LEMMA HeadAndTail ==
    ASSUME NEW S, NEW s \in Seq(S), s # <<>>
    PROVE  /\ Len(s) > 0 /\ Head(s) = s[1] /\ Head(s) \in S
           /\ Tail(s) \in Seq(S)
           /\ Len(Tail(s)) = Len(s) - 1
           /\ \A i \in 1..Len(Tail(s)) : Tail(s)[i] = s[i + 1]
OBVIOUS

LEMMA OnlyJoined ==
    ASSUME NEW s \in Seq(Steps), NEW t \in Seq(Steps), NEW what,
           Only(s, what), Only(t, what)
    PROVE  Only(s \o t, what)
BY Joined DEF Only

LEMMA PairedJoined ==
    ASSUME NEW s \in Seq(Steps), NEW t \in Seq(Steps), Paired(s), Paired(t)
    PROVE  Paired(s \o t)
<1> DEFINE p == s \o t
<1>1. ASSUME NEW i \in 1..Len(p), p[i].do = "owner"
      PROVE  i < Len(p) /\ p[i + 1].do = "row" /\ p[i + 1].need = p[i].need
  <2>1. CASE i \in 1..Len(s)
    BY <1>1, <2>1, Joined DEF Paired
  <2>2. CASE i - Len(s) \in 1..Len(t)
    <3> DEFINE k == i - Len(s)
    <3>1. p[i] = t[k]
      BY <2>2, Joined
    <3>2. k + 1 \in 1..Len(t) /\ t[k + 1].do = "row" /\ t[k + 1].need = t[k].need
      BY <1>1, <2>2, <3>1 DEF Paired
    <3>3. p[i + 1] = t[k + 1]
      BY <3>2, Joined
    <3> QED
      BY <3>1, <3>2, <3>3, Joined
  <2> QED
    BY <2>1, <2>2, Joined
<1> QED
  BY <1>1 DEF Paired

LEMMA LeadsJoined ==
    ASSUME NEW s \in Seq(Steps), NEW t \in Seq(Steps), NEW need,
           Leads(s, need) \/ Leads(t, need)
    PROVE  Leads(s \o t, need)
<1>1. CASE Leads(s, need)
  BY <1>1, Joined DEF Leads
<1>2. CASE Leads(t, need)
  <2>1. PICK i \in 1..Len(t) : t[i].do = "row" /\ t[i].need >= need
    BY <1>2 DEF Leads
  <2>2. Len(s) + i \in 1..Len(s \o t) /\ (s \o t)[Len(s) + i] = t[i]
    BY Joined
  <2> QED
    BY <2>1, <2>2 DEF Leads
<1> QED
  BY <1>1, <1>2

LEMMA FollowsJoined ==
    ASSUME NEW s \in Seq(Steps), NEW t \in Seq(Steps), NEW what, NEW need,
           Follows(s, what, need), Leads(s, need)
    PROVE  Follows(s \o t, what, need)
BY Joined DEF Follows, Leads

LEMMA WellLaidJoined ==
    ASSUME NEW s \in Seq(Steps), NEW t \in Seq(Steps), NEW deed,
           WellLaid(s, deed), WellLaid(t, deed), Without(s, "each"), Without(t, "claim")
    PROVE  WellLaid(s \o t, deed)
<1> DEFINE p == s \o t
<1>1. Only(p, Suits(deed)) /\ Paired(p)
  BY OnlyJoined, PairedJoined DEF WellLaid
<1>2. ASSUME NEW i \in 1..Len(p)
      PROVE  /\ p[i].do = "each" => i = Len(p)
             /\ p[i].do = "claim" => i = 1
             /\ p[i].do = "row" /\ deed # "join" => p[i].need >= Viewer
  <2>1. CASE i \in 1..Len(s)
    BY <2>1, Joined DEF WellLaid, Without
  <2>2. CASE i - Len(s) \in 1..Len(t)
    BY <2>2, Joined DEF WellLaid, Without
  <2> QED
    BY <2>1, <2>2, Joined
<1> QED
  BY <1>1, <1>2 DEF WellLaid

LEMMA WellLaidTail ==
    ASSUME NEW p \in Seq(Steps), p # <<>>, NEW deed, WellLaid(p, deed)
    PROVE  WellLaid(Tail(p), deed) /\ Without(Tail(p), "claim")
<1> DEFINE q == Tail(p)
<1>1. /\ q \in Seq(Steps) /\ Len(p) = Len(q) + 1
      /\ \A i \in 1..Len(q) : q[i] = p[i + 1] /\ i + 1 \in 1..Len(p)
  BY HeadAndTail
<1> HIDE DEF q
<1>2. Only(q, Suits(deed))
  BY <1>1 DEF WellLaid, Only
<1>3. Paired(q)
  <2>1. ASSUME NEW i \in 1..Len(q), q[i].do = "owner"
        PROVE  i < Len(q) /\ q[i + 1].do = "row" /\ q[i + 1].need = q[i].need
    <3>1. i + 1 < Len(p) /\ p[i + 2].do = "row" /\ p[i + 2].need = p[i + 1].need
      BY <1>1, <2>1 DEF WellLaid, Paired
    <3>2. i + 1 \in 1..Len(q)
      BY <3>1, <1>1
    <3> QED
      BY <3>1, <3>2, <1>1
  <2> QED
    BY <2>1 DEF Paired
<1>4. Without(q, "claim")
  BY <1>1 DEF WellLaid, Without
<1>5. \A i \in 1..Len(q) : q[i].do = "each" => i = Len(q)
  BY <1>1 DEF WellLaid
<1>6. \A i \in 1..Len(q) : q[i].do = "row" /\ deed # "join" => q[i].need >= Viewer
  BY <1>1 DEF WellLaid
<1> QED
  BY <1>2, <1>3, <1>4, <1>5, <1>6 DEF WellLaid, Without, q

----------------------------------------------------------------------------
(* The plans requests arrive with.                                         *)

Knocks == Looks \cup {"not_owner"}

(* A plan that only finds out whether who asks has the role.               *)
Opens(p, deed, need) ==
    /\ p \in Seq(Steps) /\ Len(p) > 0
    /\ WellLaid(p, deed) /\ Only(p, Knocks) /\ Leads(p, need)

(* A plan whose acts come after that, and which seats nobody as yet.       *)
Guarded(p, asked) ==
    /\ p \in Seq(Steps) /\ p # <<>>
    /\ WellLaid(p, asked.deed)
    /\ Follows(p, Acts, RoleFor(asked))
    /\ Only(p, {"find", "owner", "row", "not_owner", "create", "index", "each", "claim",
                "decide", "owned", "heir", "leave"} \cup Acts)

LEMMA OneStepPlan ==
    ASSUME NEW deed, NEW do \in Suits(deed) \ {"owner", "row"}
    PROVE  <<Do(do)>> \in Seq(Steps) /\ Len(<<Do(do)>>) = 1
           /\ WellLaid(<<Do(do)>>, deed) /\ Only(<<Do(do)>>, {do})
<1> DEFINE p == <<Do(do)>>
<1>1. Do(do) \in Steps /\ Do(do).do = do
  BY DEF Do, Steps, NoRole, Suits, Looks, Acts
<1>2. p \in Seq(Steps) /\ Len(p) = 1 /\ p[1].do = do
  BY <1>1
<1> HIDE DEF p
<1> QED
  BY <1>2 DEF WellLaid, Only, Paired, p

LEMMA RoleOfIs ==
    ASSUME NEW need \in Roles \cup {NoRole}, NEW deed, need \in Roles \/ deed = "join"
    PROVE  /\ RoleOf(need) \in Seq(Steps) /\ Len(RoleOf(need)) = 2
           /\ WellLaid(RoleOf(need), deed) /\ Only(RoleOf(need), Looks)
           /\ Leads(RoleOf(need), need)
<1> DEFINE p == RoleOf(need)
<1>1. /\ p \in Seq(Steps) /\ Len(p) = 2
      /\ p[1].do = "owner" /\ p[1].need = need
      /\ p[2].do = "row" /\ p[2].need = need
  BY DEF RoleOf, Steps
<1> HIDE DEF p
<1>2. WellLaid(p, deed) /\ Only(p, Looks)
  BY <1>1 DEF WellLaid, Only, Paired, Suits, Looks, Roles, Viewer, Owner
<1>3. Leads(p, need)
  BY <1>1 DEF Leads, Roles, NoRole, Viewer, Owner
<1> QED
  BY <1>1, <1>2, <1>3 DEF p

LEMMA RoleOfOpens ==
    ASSUME NEW need \in Roles, NEW deed
    PROVE  Opens(RoleOf(need), deed, need)
BY RoleOfIs DEF Opens, Only, Knocks

LEMMA OpensJoined ==
    ASSUME NEW deed, NEW n, NEW m, NEW s, NEW t, Opens(s, deed, n), Opens(t, deed, m)
    PROVE  Opens(s \o t, deed, n) /\ Opens(s \o t, deed, m)
<1>1. Without(s, "each") /\ Without(t, "claim")
  BY DEF Opens, Only, Without, Knocks, Looks
<1> QED
  BY <1>1, Joined, WellLaidJoined, OnlyJoined, LeadsJoined DEF Opens

LEMMA DoorOpens ==
    ASSUME NEW need \in Roles, NEW deed
    PROVE  Opens(Door(need), deed, need)
<1> DEFINE s == <<[do |-> "find", need |-> need]>>
<1>1. s \in Seq(Steps) /\ Len(s) = 1 /\ s[1].do = "find"
  BY DEF Steps
<1>2. RoleOf(need) \in Seq(Steps) /\ Opens(RoleOf(need), deed, need)
  BY RoleOfOpens DEF Opens
<1> HIDE DEF s
<1>3. WellLaid(s, deed) /\ Only(s, Knocks) /\ Without(s, "each")
  BY <1>1 DEF WellLaid, Only, Paired, Suits, Looks, Without, Knocks
<1>4. Without(RoleOf(need), "claim")
  BY <1>2 DEF Opens, Only, Without, Knocks, Looks
<1>5. Opens(s \o RoleOf(need), deed, need)
  BY <1>1, <1>2, <1>3, <1>4, Joined, WellLaidJoined, OnlyJoined, LeadsJoined DEF Opens
<1> QED
  BY <1>5 DEF Door, s

LEMMA OpensOntoNotOwner ==
    ASSUME NEW need, NEW s, Opens(s, "remove", need)
    PROVE  Opens(s \o <<Do("not_owner")>>, "remove", need)
<1> DEFINE t == <<Do("not_owner")>>
<1>1. t \in Seq(Steps) /\ WellLaid(t, "remove") /\ Only(t, {"not_owner"})
  BY OneStepPlan DEF Suits
<1> HIDE DEF t
<1>2. Only(t, Knocks) /\ Without(t, "claim") /\ Without(s, "each")
  BY <1>1 DEF Opens, Only, Without, Knocks, Looks
<1>3. Opens(s \o t, "remove", need)
  BY <1>1, <1>2, Joined, WellLaidJoined, OnlyJoined, LeadsJoined DEF Opens
<1> QED
  BY <1>3 DEF t

(* An act behind the door, whatever else comes last.                       *)
LEMMA OpensOntoAct ==
    ASSUME NEW asked, NEW s, Opens(s, asked.deed, RoleFor(asked)),
           NEW t \in Seq(Steps), Len(t) > 0, WellLaid(t, asked.deed),
           Only(t, Acts \cup {"each"})
    PROVE  Guarded(s \o t, asked)
<1>1. Follows(s, Acts, RoleFor(asked))
  BY DEF Opens, Only, Knocks, Looks, Acts, Follows
<1>2. Without(s, "each") /\ Without(t, "claim")
  BY DEF Opens, Only, Without, Knocks, Looks, Acts
<1>3. /\ s \o t \in Seq(Steps) /\ s \o t # <<>>
      /\ WellLaid(s \o t, asked.deed) /\ Follows(s \o t, Acts, RoleFor(asked))
  BY <1>1, <1>2, Joined, WellLaidJoined, FollowsJoined DEF Opens
<1> DEFINE what == {"find", "owner", "row", "not_owner", "create", "index", "each", "claim",
                    "decide", "owned", "heir", "leave"} \cup Acts
<1>4. Only(s, what) /\ Only(t, what)
  BY DEF Opens, Only, Knocks, Looks
<1> QED
  BY <1>3, <1>4, OnlyJoined DEF Guarded, Opens

LEMMA ActPlan ==
    ASSUME NEW asked, NEW s, Opens(s, asked.deed, RoleFor(asked)),
           NEW do \in Acts \cap Suits(asked.deed)
    PROVE  Guarded(s \o <<Do(do)>>, asked)
<1>1. do \in Suits(asked.deed) \ {"owner", "row"}
  BY DEF Acts
<1>2. /\ <<Do(do)>> \in Seq(Steps) /\ Len(<<Do(do)>>) > 0
      /\ WellLaid(<<Do(do)>>, asked.deed) /\ Only(<<Do(do)>>, {do})
  BY <1>1, OneStepPlan
<1>3. Only(<<Do(do)>>, Acts \cup {"each"})
  BY <1>2 DEF Only
<1> QED
  BY <1>2, <1>3, OpensOntoAct

(* The browser's button asks at the door before the plan of an invitation. *)
LEMMA OpensBeforeGuarded ==
    ASSUME NEW asked, NEW need, NEW s, Opens(s, asked.deed, need), NEW t, Guarded(t, asked),
           "claim" \notin Suits(asked.deed)
    PROVE  Guarded(s \o t, asked)
<1> DEFINE p == s \o t
<1>1. /\ s \in Seq(Steps) /\ t \in Seq(Steps) /\ Len(s) > 0
      /\ WellLaid(s, asked.deed) /\ WellLaid(t, asked.deed)
      /\ Without(s, "each") /\ Without(t, "claim")
  BY DEF Opens, Guarded, WellLaid, Only, Without, Knocks, Looks
<1>2. p \in Seq(Steps) /\ p # <<>> /\ WellLaid(p, asked.deed)
  BY <1>1, Joined, WellLaidJoined
<1>3. ASSUME NEW i \in 1..Len(p), p[i].do \in Acts
      PROVE  \E j \in 1..(i - 1) : p[j].do = "row" /\ p[j].need >= RoleFor(asked)
  <2>1. ~(i <= Len(s))
    BY <1>1, <1>3, Joined DEF Opens, Only, Knocks, Looks, Acts
  <2>2. i - Len(s) \in 1..Len(t) /\ t[i - Len(s)] = p[i]
    BY <1>1, <2>1, Joined
  <2>3. PICK j \in 1..(i - Len(s) - 1) : t[j].do = "row" /\ t[j].need >= RoleFor(asked)
    BY <1>3, <2>2 DEF Guarded, Follows
  <2>4. j \in 1..Len(t) /\ Len(s) + j \in 1..(i - 1) /\ p[Len(s) + j] = t[j]
    BY <1>1, <2>2, <2>3, Joined
  <2> QED
    BY <2>3, <2>4
<1>4. ASSUME NEW what, Knocks \subseteq what, Only(t, what)
      PROVE  Only(p, what)
  BY <1>1, <1>4, OnlyJoined DEF Opens, Only
<1> QED
  BY <1>2, <1>3, <1>4 DEF Guarded, Follows, Knocks, Looks

(* A link is claimed first of all, and what it gives decided last.         *)
LEMMA ClaimAndDecide ==
    ASSUME NEW asked,
           NEW s \in Seq(Steps), s # <<>>, WellLaid(s, asked.deed), Only(s, {"claim"}),
           NEW r \in Seq(Steps), WellLaid(r, asked.deed), Only(r, Looks),
           NEW t \in Seq(Steps), WellLaid(t, asked.deed), Only(t, {"decide"})
    PROVE  Guarded((s \o r) \o t, asked)
<1>1. /\ Without(s, "each") /\ Without(r, "each") /\ Without(r, "claim") /\ Without(t, "claim")
      /\ Only(s, Looks \cup {"claim"}) /\ Only(r, Looks \cup {"claim"})
  BY DEF Only, Without, Looks
<1>2. /\ s \o r \in Seq(Steps) /\ Len(s \o r) > 0 /\ WellLaid(s \o r, asked.deed)
      /\ Only(s \o r, Looks \cup {"claim"})
  <2>1. s \o r \in Seq(Steps) /\ Len(s \o r) > 0
    BY Joined
  <2>2. WellLaid(s \o r, asked.deed)
    BY <1>1, WellLaidJoined
  <2>3. Only(s \o r, Looks \cup {"claim"})
    BY <1>1, OnlyJoined
  <2> QED
    BY <2>1, <2>2, <2>3
<1> DEFINE p == s \o r
<1>3. p \in Seq(Steps) /\ Len(p) > 0 /\ WellLaid(p, asked.deed) /\ Only(p, Looks \cup {"claim"})
  BY <1>2
<1> HIDE DEF p
<1>4. /\ Without(p, "each") /\ Only(p, Looks \cup {"claim", "decide"})
      /\ Only(t, Looks \cup {"claim", "decide"})
  BY <1>3 DEF Only, Without, Looks
<1>5. /\ p \o t \in Seq(Steps) /\ p \o t # <<>> /\ WellLaid(p \o t, asked.deed)
      /\ Only(p \o t, Looks \cup {"claim", "decide"})
  BY <1>1, <1>3, <1>4, Joined, WellLaidJoined, OnlyJoined
<1>6. Guarded(p \o t, asked)
  BY <1>5 DEF Guarded, Follows, Only, Acts, Looks
<1> QED
  BY <1>6 DEF p

LEMMA PlansAreGuarded ==
    ASSUME NEW asked \in Asked
    PROVE  Guarded(PlanOf(asked), asked)
<1> DEFINE deed == asked.deed
<1>0. deed \in Deeds
  BY DEF Asked
<1>1. CASE deed = "create"
  <2>1. <<Do("create")>> \in Seq(Steps) /\ Len(<<Do("create")>>) = 1
        /\ WellLaid(<<Do("create")>>, deed) /\ Only(<<Do("create")>>, {"create"})
    BY <1>1, OneStepPlan DEF Suits
  <2>2. Guarded(<<Do("create")>>, asked)
    BY <2>1 DEF Guarded, Follows, Only, Acts
  <2> QED
    BY <2>2, <1>1 DEF PlanOf, CreatePlan
<1>2. CASE deed = "index"
  <2> DEFINE p == <<Do("index"), Do("each")>>
  <2>1. /\ p \in Seq(Steps) /\ Len(p) = 2 /\ p # <<>>
        /\ p[1].do = "index" /\ p[2].do = "each"
    BY DEF Do, Steps, NoRole
  <2> HIDE DEF p
  <2>2. WellLaid(p, deed)
    BY <1>2, <2>1 DEF WellLaid, Only, Paired, Suits
  <2>3. Guarded(p, asked)
    BY <2>1, <2>2 DEF Guarded, Follows, Only, Acts
  <2> QED
    BY <2>3, <1>2 DEF PlanOf, IndexPlan, p
<1>3. CASE deed = "read"
  <2>1. /\ <<Do("read"), Do("each")>> \in Seq(Steps) /\ Len(<<Do("read"), Do("each")>>) > 0
        /\ WellLaid(<<Do("read"), Do("each")>>, deed)
        /\ Only(<<Do("read"), Do("each")>>, Acts \cup {"each"})
    <3> DEFINE t == <<Do("read"), Do("each")>>
    <3>1. /\ t \in Seq(Steps) /\ Len(t) = 2
          /\ t[1].do = "read" /\ t[2].do = "each"
      BY DEF Do, Steps, NoRole
    <3> HIDE DEF t
    <3>2. WellLaid(t, deed) /\ Only(t, Acts \cup {"each"})
      BY <1>3, <3>1 DEF WellLaid, Only, Paired, Suits, Acts
    <3> QED
      BY <3>1, <3>2 DEF t
  <2>2. Opens(Door(Viewer), deed, RoleFor(asked))
    BY <1>3, DoorOpens DEF RoleFor, Roles, Viewer, Owner
  <2>3. Guarded(Door(Viewer) \o <<Do("read"), Do("each")>>, asked)
    BY <2>1, <2>2, OpensOntoAct
  <2> QED
    BY <2>3, <1>3 DEF PlanOf, ReadPlan
<1>4. CASE deed = "sheet"
  <2>1. RoleFor(asked) = Viewer /\ Viewer \in Roles
    BY <1>4 DEF RoleFor, Roles, Viewer, Owner
  <2>2. Opens(Door(Viewer), deed, Viewer) /\ Opens(RoleOf(Viewer), deed, Viewer)
    BY <2>1, DoorOpens, RoleOfOpens
  <2>3. Opens(AskRole, deed, Viewer)
    BY <2>2, OpensJoined DEF AskRole
  <2>4. Opens(Door(Viewer) \o AskRole, deed, Viewer)
    BY <2>2, <2>3, OpensJoined
  <2>5. Opens((Door(Viewer) \o AskRole) \o Door(Viewer), deed, Viewer)
    BY <2>2, <2>4, OpensJoined
  <2>6. "sheet" \in Acts \cap Suits(asked.deed)
    BY <1>4 DEF Acts, Suits
  <2>7. Guarded(((Door(Viewer) \o AskRole) \o Door(Viewer)) \o <<Do("sheet")>>, asked)
    BY <2>1, <2>5, <2>6, ActPlan
  <2> QED
    BY <2>7, <1>4 DEF PlanOf, SheetPlan
<1>5. CASE deed \in {"rename", "delete", "invite", "hand_out", "revoke"}
  <2>1. RoleFor(asked) = Owner /\ Owner \in Roles /\ Viewer \in Roles
    BY <1>5 DEF RoleFor, Roles, Viewer, Owner
  <2>2. Opens(Door(Owner), deed, Owner) /\ Opens(Door(Viewer), deed, Viewer)
    BY <2>1, DoorOpens
  <2>3. ASSUME NEW do \in Acts \cap {"rename", "delete", "invite", "revoke"}
        PROVE  Guarded(Door(Owner) \o <<Do(do)>>, asked)
    BY <1>5, <2>1, <2>2, <2>3, ActPlan DEF Suits, Acts
  <2>4. CASE deed # "hand_out"
    BY <1>5, <2>3, <2>4 DEF PlanOf, RenamePlan, DeletePlan, InvitePlan, RevokePlan, Acts
  <2>5. CASE deed = "hand_out"
    <3>1. Guarded(Door(Owner) \o <<Do("invite")>>, asked)
      BY <2>3 DEF Acts
    <3>2. Guarded(Door(Viewer) \o (Door(Owner) \o <<Do("invite")>>), asked)
      BY <2>2, <2>5, <3>1, OpensBeforeGuarded DEF Suits, Looks, Acts
    <3> QED
      BY <3>2, <2>5 DEF PlanOf, HandOutPlan, InvitePlan
  <2> QED
    BY <2>4, <2>5
<1>6. CASE deed = "remove"
  <2> DEFINE s == Door(Viewer) \o <<Do("not_owner")>>
             t == IF asked.who # asked.by THEN Door(Owner) ELSE <<>>
  <2>1. Opens(s, deed, Viewer)
    BY <1>6, DoorOpens, OpensOntoNotOwner DEF Roles, Viewer, Owner
  <2>2. Opens(s \o t, deed, RoleFor(asked))
    <3>1. CASE asked.who = asked.by
      <4>1. s \in Seq(Steps) /\ t = <<>> /\ RoleFor(asked) = Viewer
        BY <1>6, <3>1, <2>1 DEF RoleFor, Opens
      <4> HIDE DEF s, t
      <4>2. s \o t = s
        BY <4>1
      <4> QED
        BY <4>1, <4>2, <2>1
    <3>2. CASE asked.who # asked.by
      <4>1. RoleFor(asked) = Owner /\ Opens(Door(Owner), deed, Owner)
        BY <1>6, <3>2, DoorOpens DEF RoleFor, Roles, Viewer, Owner
      <4> HIDE DEF s
      <4> QED
        BY <3>2, <4>1, <2>1, OpensJoined
    <3> QED
      BY <3>1, <3>2
  <2>3. "remove" \in Acts \cap Suits(asked.deed)
    BY <1>6 DEF Acts, Suits
  <2>4. Guarded((s \o t) \o <<Do("remove")>>, asked)
    BY <2>2, <2>3, ActPlan
  <2> QED
    BY <2>4, <1>6 DEF PlanOf, RemovalPlan
<1>7. CASE deed = "join"
  <2>1. WellLaid(<<Do("claim")>>, deed) /\ Only(<<Do("claim")>>, {"claim"})
        /\ <<Do("claim")>> \in Seq(Steps) /\ <<Do("claim")>> # <<>>
    BY <1>7, OneStepPlan DEF Suits
  <2>2. WellLaid(<<Do("decide")>>, deed) /\ Only(<<Do("decide")>>, {"decide"})
        /\ <<Do("decide")>> \in Seq(Steps) /\ Len(<<Do("decide")>>) = 1
    BY <1>7, OneStepPlan DEF Suits
  <2>3. /\ RoleOf(NoRole) \in Seq(Steps)
        /\ WellLaid(RoleOf(NoRole), deed) /\ Only(RoleOf(NoRole), Looks)
    BY <1>7, RoleOfIs
  <2>4. Guarded((<<Do("claim")>> \o RoleOf(NoRole)) \o <<Do("decide")>>, asked)
    BY <2>1, <2>2, <2>3, ClaimAndDecide
  <2> QED
    BY <2>4, <1>7 DEF PlanOf, JoinPlan
<1>8. CASE deed = "close"
  <2> DEFINE p == <<Do("owned"), Do("heir"), Do("leave")>>
  <2>1. /\ p \in Seq(Steps) /\ Len(p) = 3 /\ p # <<>>
        /\ p[1].do = "owned" /\ p[2].do = "heir" /\ p[3].do = "leave"
    BY DEF Do, Steps, NoRole
  <2> HIDE DEF p
  <2>2. WellLaid(p, deed)
    BY <1>8, <2>1 DEF WellLaid, Only, Paired, Suits
  <2>3. Guarded(p, asked)
    BY <2>1, <2>2 DEF Guarded, Follows, Only, Acts
  <2> QED
    BY <2>3, <1>8 DEF PlanOf, ClosePlan, p
<1> QED
  BY <1>0, <1>1, <1>2, <1>3, <1>4, <1>5, <1>6, <1>7, <1>8
     DEF Deeds, ListDeeds, SharingDeeds, PageDeeds, AppDeeds

----------------------------------------------------------------------------
(* Who comes first: the least of a set, and the heir of a list.            *)

LEMMA LeastExists ==
    ASSUME NEW S, S \subseteq Nat, S # {}
    PROVE  \E m \in S : \A k \in S : m <= k
<1>1. PICK m \in S : \A k \in S : ~(<<k, m>> \in OpToRel(<, Nat))
  BY NatLessThanWellFounded, WFMin
<1>2. \A k \in S : ~(k < m)
  BY <1>1 DEF OpToRel
<1> QED
  BY <1>2

LEMMA HeirIsAMember ==
    ASSUME MembershipAssumption, members \in [ListIds \X People -> Maybe(Members)],
           NEW l \in ListIds, MembersOf(l) # {}
    PROVE  LongestStanding(l) \in MembersOf(l)
<1> DEFINE Added(u) == members[<<l, u>>].added
<1>1. \A u \in MembersOf(l) : u \in People /\ u \in Nat /\ Added(u) \in Nat
  <2>1. ASSUME NEW u \in MembersOf(l)
        PROVE  u \in People /\ members[<<l, u>>] \in Members
    BY DEF MembersOf, Maybe
  <2> QED
    BY <2>1 DEF Members, MembershipAssumption
<1> HIDE DEF Added
<1> DEFINE times == {Added(u) : u \in MembersOf(l)}
<1>2. PICK t \in times : \A k \in times : t <= k
  <2>1. times \subseteq Nat /\ times # {}
    BY <1>1
  <2> HIDE DEF times
  <2> QED
    BY <2>1, LeastExists
<1> DEFINE first == {u \in MembersOf(l) : Added(u) = t}
<1>3. PICK u \in first : \A v \in first : u <= v
  <2>1. first \subseteq Nat /\ first # {}
    BY <1>1, <1>2
  <2> HIDE DEF first
  <2> QED
    BY <2>1, LeastExists
<1>4. u \in MembersOf(l) /\ \A v \in MembersOf(l) \ {u} :
          Added(u) < Added(v) \/ (Added(u) = Added(v) /\ u < v)
  BY <1>1, <1>2, <1>3
<1> QED
  BY <1>4 DEF LongestStanding, Added

----------------------------------------------------------------------------
(* Type correctness.  The plans of the requests under way are part of what *)
(* is kept, for a step assumes that the steps before it have been taken:   *)
(* a role is decided on and a row put only once a link has been claimed.   *)

Workings ==
    [asked: Maybe(Requests), plan: Seq(Steps), list: ListIds, owner: Maybe(People),
     held: Roles \cup {NoRole}, link: Maybe(Invites), left: SUBSET ListIds,
     heir: Maybe(People), said: [ListIds -> Roles \cup {NoRole}]]

Sound(w) ==
    /\ w \in Workings
    /\ w.plan # <<>> => w.asked \in Requests /\ WellLaid(w.plan, w.asked.deed)
    /\ \A i \in 1..Len(w.plan) : w.plan[i].do \in {"decide", "put"} =>
          w.link # None \/ w.plan[1].do = "claim"
    /\ w.link # None => w.link.role < Owner

LinksOffer == \A t \in Tokens : invites[t] # None => invites[t].role < Owner

Inv ==
    /\ MembershipTypeOK
    /\ \A c \in Callers : Sound(work[c])
    /\ LinksOffer

Others(c) == \A d \in Callers \ {c} : work'[d] = work[d]

LEMMA NoWorkIsSound ==
    ASSUME MembershipAssumption
    PROVE  Sound(NoWork) /\ NoWork.plan = <<>>
<1>1. NoWork \in Workings
  BY DEF NoWork, Workings, Maybe, ListIds, NoRole, MembershipAssumption
<1>2. NoWork.plan = <<>> /\ NoWork.link = None
  BY DEF NoWork
<1> QED
  BY <1>1, <1>2 DEF Sound

LEMMA BecomesMoves ==
    ASSUME Inv, NEW c \in Callers, NEW w, Sound(w), Becomes(c, w)
    PROVE  /\ work' \in [Callers -> Workings]
           /\ work'[c] = w /\ Others(c)
           /\ \A d \in Callers : Sound(work'[d])
<1>1. work \in [Callers -> Workings] /\ \A d \in Callers : Sound(work[d])
  BY DEF Inv, MembershipTypeOK, Workings
<1>2. w \in Workings
  BY DEF Sound
<1>3. work' \in [Callers -> Workings] /\ work'[c] = w /\ Others(c)
  BY <1>1, <1>2 DEF Becomes, Others
<1>4. ASSUME NEW d \in Callers
      PROVE  Sound(work'[d])
  <2>1. CASE d = c
    BY <1>3, <2>1
  <2>2. CASE d # c
    BY <1>1, <1>3, <2>2 DEF Others
  <2> QED
    BY <2>1, <2>2
<1> QED
  BY <1>3, <1>4

(* The next step of a plan, and what is left when it has been taken.       *)
LEMMA AtStep ==
    ASSUME Inv, NEW c \in Callers, Busy(c)
    PROVE  /\ work[c] \in Workings /\ work[c].plan \in Seq(Steps) /\ Len(work[c].plan) > 0
           /\ Head(work[c].plan) = work[c].plan[1]
           /\ Ask(c) \in Requests /\ Ask(c) \in Asked /\ Me(c) \in People
           /\ WellLaid(work[c].plan, Ask(c).deed)
           /\ Rest(c) \in Seq(Steps)
           /\ WellLaid(Rest(c), Ask(c).deed) /\ Without(Rest(c), "claim")
           /\ \A i \in 1..Len(Rest(c)) : Rest(c)[i] = work[c].plan[i + 1]
           /\ Len(Rest(c)) = Len(work[c].plan) - 1
           /\ Head(work[c].plan).do \in Suits(Ask(c).deed)
<1>1. Sound(work[c]) /\ work[c] \in Workings /\ work[c].plan \in Seq(Steps) /\ work[c].plan # <<>>
  BY DEF Inv, Sound, Workings, Busy
<1>2. work[c].asked \in Requests /\ WellLaid(work[c].plan, work[c].asked.deed)
  BY <1>1 DEF Sound
<1>3. Ask(c) \in Requests /\ Ask(c) \in Asked /\ Me(c) \in People
  BY <1>2, MembershipAssumption DEF MembershipAssumption, Ask, Me, Asked
<1>4. /\ Len(work[c].plan) > 0 /\ Head(work[c].plan) = work[c].plan[1]
      /\ Rest(c) \in Seq(Steps)
      /\ \A i \in 1..Len(Rest(c)) : Rest(c)[i] = work[c].plan[i + 1]
      /\ Len(Rest(c)) = Len(work[c].plan) - 1
  BY <1>1, HeadAndTail DEF Rest
<1>5. WellLaid(Rest(c), Ask(c).deed) /\ Without(Rest(c), "claim")
  BY <1>1, <1>2, WellLaidTail DEF Rest, Ask
<1>6. Head(work[c].plan).do \in Suits(Ask(c).deed)
  BY <1>2, <1>4 DEF WellLaid, Only, Ask
<1> QED
  BY <1>1, <1>2, <1>3, <1>4, <1>5, <1>6 DEF Ask

(* A step taken that was not the claiming of a link.                       *)
LEMMA AdvanceIsSound ==
    ASSUME Inv, NEW c \in Callers, Busy(c), Head(work[c].plan).do # "claim",
           NEW w \in Workings,
           w.plan = Rest(c), w.asked = work[c].asked, w.link = work[c].link
    PROVE  Sound(w)
<1>1. WellLaid(w.plan, w.asked.deed) /\ w.asked \in Requests
  BY AtStep DEF Ask
<1>2. Sound(work[c])
  BY DEF Inv
<1>3. ASSUME NEW i \in 1..Len(w.plan), w.plan[i].do \in {"decide", "put"}
      PROVE  w.link # None
  <2>1. /\ \A k \in 1..Len(Rest(c)) : Rest(c)[k] = work[c].plan[k + 1]
        /\ Len(Rest(c)) = Len(work[c].plan) - 1 /\ Len(work[c].plan) \in Nat
        /\ work[c].plan[1].do # "claim"
    BY AtStep
  <2>2. i + 1 \in 1..Len(work[c].plan)
    BY <1>3, <2>1
  <2>3. work[c].plan[i + 1].do \in {"decide", "put"}
    BY <1>3, <2>1
  <2>4. work[c].link # None \/ work[c].plan[1].do = "claim"
    BY <1>2, <2>2, <2>3 DEF Sound
  <2> QED
    BY <2>1, <2>4
<1>4. w.link # None => w.link.role < Owner
  BY <1>2 DEF Sound
<1> QED
  BY <1>1, <1>3, <1>4 DEF Sound

LEMMA ContinueMoves ==
    ASSUME Inv, NEW c \in Callers, Busy(c), Head(work[c].plan).do # "claim", Continue(c)
    PROVE  /\ work' \in [Callers -> Workings] /\ Others(c)
           /\ \A d \in Callers : Sound(work'[d])
           /\ work'[c] = [work[c] EXCEPT !.plan = Rest(c)]
<1> DEFINE w == [work[c] EXCEPT !.plan = Rest(c)]
<1>1. w \in Workings /\ w.plan = Rest(c) /\ w.asked = work[c].asked /\ w.link = work[c].link
  BY AtStep DEF Workings
<1>2. Sound(w)
  BY <1>1, AdvanceIsSound
<1>3. Becomes(c, w)
  BY DEF Continue
<1> QED
  BY <1>2, <1>3, BecomesMoves

LEMMA FinishMoves ==
    ASSUME Inv, NEW c \in Callers, Finish(c)
    PROVE  /\ work' \in [Callers -> Workings] /\ Others(c)
           /\ \A d \in Callers : Sound(work'[d])
           /\ work'[c] = NoWork
BY NoWorkIsSound, BecomesMoves, MembershipAssumption DEF Finish

LEMMA SaysOnAPage ==
    ASSUME Inv, NEW c \in Callers, Busy(c), OnAPage(c)
    PROVE  Ask(c).deed \in {"index", "read"}
<1>1. PICK i \in 1..Len(work[c].plan) : work[c].plan[i].do = "say"
  BY AtStep DEF OnAPage
<1>2. Only(work[c].plan, Suits(Ask(c).deed))
  BY AtStep DEF WellLaid
<1>3. "say" \in Suits(Ask(c).deed)
  BY <1>1, <1>2 DEF Only
<1> QED
  BY <1>3 DEF Suits, Looks, Acts

LEMMA TurnedMoves ==
    ASSUME Inv, NEW c \in Callers, Busy(c), Turned(c)
    PROVE  /\ work' \in [Callers -> Workings] /\ Others(c)
           /\ \A d \in Callers : Sound(work'[d])
           /\ \/ work'[c] = NoWork
              \/ /\ OnAPage(c)
                 /\ work'[c] = [work[c] EXCEPT !.said[work[c].list] = Viewer,
                                               !.plan = <<Do("each")>>]
<1>1. CASE ~OnAPage(c)
  BY <1>1, FinishMoves DEF Turned
<1>2. CASE OnAPage(c)
  <2> DEFINE w == [work[c] EXCEPT !.said[work[c].list] = Viewer, !.plan = <<Do("each")>>]
  <2>1. Ask(c).deed \in {"index", "read"}
    BY <1>2, SaysOnAPage
  <2>2. /\ <<Do("each")>> \in Seq(Steps) /\ Len(<<Do("each")>>) = 1
        /\ WellLaid(<<Do("each")>>, Ask(c).deed) /\ Only(<<Do("each")>>, {"each"})
    BY <2>1, OneStepPlan DEF Suits
  <2>3. /\ w \in Workings /\ w.plan = <<Do("each")>> /\ w.asked = Ask(c)
        /\ w.link = work[c].link
    <3>1. work[c] \in Workings /\ Viewer \in Roles
      BY AtStep DEF Roles, Viewer, Owner
    <3>2. [work[c].said EXCEPT ![work[c].list] = Viewer] \in [ListIds -> Roles \cup {NoRole}]
      BY <3>1 DEF Workings
    <3>3. w = [work[c] EXCEPT !.said = [work[c].said EXCEPT ![work[c].list] = Viewer],
                              !.plan = <<Do("each")>>]
      OBVIOUS
    <3> QED
      BY <2>2, <3>1, <3>2, <3>3 DEF Workings, Ask
  <2>4. Sound(w)
    BY <2>2, <2>3, AtStep DEF Sound, Only, Inv
  <2>5. Becomes(c, w)
    BY <1>2 DEF Turned, SaysOf
  <2> QED
    BY <1>2, <2>4, <2>5, BecomesMoves
<1> QED
  BY <1>1, <1>2

(* What every step does to the requests: it moves one of them, soundly.    *)
Moved(c) == Others(c) /\ work' \in [Callers -> Workings] /\ \A d \in Callers : Sound(work'[d])

LEMMA AdvanceMoves ==
    ASSUME Inv, NEW c \in Callers, Busy(c), Head(work[c].plan).do # "claim",
           NEW w \in Workings, Becomes(c, w),
           w.plan = Rest(c), w.asked = work[c].asked, w.link = work[c].link
    PROVE  Moved(c) /\ work'[c] = w
BY AdvanceIsSound, BecomesMoves DEF Moved

LEMMA ArriveMoves ==
    ASSUME Inv, NEW c \in Callers, Arrive(c)
    PROVE  Moved(c)
<1>1. PICK asked \in Requests :
        Becomes(c, [NoWork EXCEPT !.asked = asked, !.plan = PlanOf(asked), !.list = asked.list])
  BY DEF Arrive
<1> DEFINE w == [NoWork EXCEPT !.asked = asked, !.plan = PlanOf(asked), !.list = asked.list]
<1>2. asked \in Asked /\ asked.list \in ListIds
  BY MembershipAssumption DEF MembershipAssumption, Asked
<1>3. Guarded(PlanOf(asked), asked)
  BY <1>2, PlansAreGuarded
<1>4. PlanOf(asked) \in Seq(Steps) /\ WellLaid(PlanOf(asked), asked.deed)
  BY <1>3 DEF Guarded
<1>5. NoWork \in Workings /\ NoWork.link = None
  BY NoWorkIsSound, MembershipAssumption DEF Sound, NoWork
<1>6. /\ w \in Workings /\ w.plan = PlanOf(asked) /\ w.asked = asked /\ w.link = None
  BY <1>2, <1>4, <1>5 DEF Workings, Maybe
<1>7. ASSUME NEW i \in 1..Len(PlanOf(asked)), PlanOf(asked)[i].do \in {"decide", "put"}
      PROVE  PlanOf(asked)[1].do = "claim"
  <2>1. asked.deed = "join"
    <3>1. PlanOf(asked)[i].do \in Suits(asked.deed)
      BY <1>4 DEF WellLaid, Only
    <3> QED
      BY <3>1, <1>7 DEF Suits, Looks, Acts
  <2>2. PlanOf(asked) = (<<Do("claim")>> \o RoleOf(NoRole)) \o <<Do("decide")>>
    BY <2>1 DEF PlanOf, JoinPlan
  <2>3. /\ <<Do("claim")>> \in Seq(Steps) /\ <<Do("claim")>>[1].do = "claim"
        /\ RoleOf(NoRole) \in Seq(Steps) /\ <<Do("decide")>> \in Seq(Steps)
    BY DEF Do, Steps, NoRole, RoleOf
  <2> DEFINE s == <<Do("claim")>>
             r == RoleOf(NoRole)
             t == <<Do("decide")>>
  <2>4. s \in Seq(Steps) /\ Len(s) = 1 /\ s[1].do = "claim" /\ r \in Seq(Steps) /\ t \in Seq(Steps)
    BY <2>3
  <2> HIDE DEF s, r, t
  <2>5. (s \o r) \in Seq(Steps) /\ 1 \in 1..Len(s \o r) /\ (s \o r)[1] = s[1]
    BY <2>4, Joined
  <2>6. ((s \o r) \o t)[1] = s[1]
    BY <2>4, <2>5, Joined
  <2> QED
    BY <2>2, <2>4, <2>6 DEF s, r, t
<1>8. Sound(w)
  BY <1>4, <1>6, <1>7 DEF Sound
<1> HIDE DEF w
<1>9. Becomes(c, w)
  BY <1>1 DEF w
<1> QED
  BY <1>8, <1>9, BecomesMoves DEF Moved

LEMMA FindMoves ==
    ASSUME Inv, NEW c \in Callers, Find(c)
    PROVE  Moved(c)
<1> DEFINE l == work[c].list
           w == [work[c] EXCEPT !.owner = lists[l].owner, !.plan = Rest(c)]
<1>0. Busy(c) /\ Head(work[c].plan).do = "find"
  BY DEF Find, At
<1>1. CASE There(l)
  <2>1. lists[l].owner \in People
    BY <1>0, <1>1, AtStep DEF Inv, MembershipTypeOK, There, Maybe, Lists, Workings
  <2>2. w \in Workings /\ w.plan = Rest(c) /\ w.asked = work[c].asked /\ w.link = work[c].link
    BY <1>0, <2>1, AtStep DEF Workings, Maybe
  <2>3. Becomes(c, w)
    BY <1>1 DEF Find
  <2> QED
    BY <1>0, <2>2, <2>3, AdvanceMoves
<1>2. CASE ~There(l)
  BY <1>0, <1>2, TurnedMoves DEF Find, Moved
<1> QED
  BY <1>1, <1>2

LEMMA IsOwnerMoves ==
    ASSUME Inv, NEW c \in Callers, IsOwner(c)
    PROVE  Moved(c)
<1> DEFINE l == work[c].list
           w == [work[c] EXCEPT !.held = Owner, !.plan = Tail(Rest(c))]
<1>0. Busy(c) /\ Head(work[c].plan).do = "owner"
  BY DEF IsOwner, At
<1>1. CASE There(l) /\ lists[l].owner = Me(c)
  <2>1. Rest(c) \in Seq(Steps) /\ Rest(c) # <<>> /\ WellLaid(Rest(c), Ask(c).deed)
        /\ Rest(c)[1].do = "row" /\ Rest(c)[1] = work[c].plan[2]
    BY <1>0, AtStep, SMTT(60) DEF WellLaid, Paired
  <2>2. /\ Tail(Rest(c)) \in Seq(Steps) /\ WellLaid(Tail(Rest(c)), Ask(c).deed)
        /\ Len(Tail(Rest(c))) = Len(work[c].plan) - 2
        /\ \A i \in 1..Len(Tail(Rest(c))) : Tail(Rest(c))[i] = work[c].plan[i + 2]
    BY <1>0, <2>1, AtStep, WellLaidTail, HeadAndTail
  <2>3. Owner \in Roles \cup {NoRole}
    BY DEF Roles, Viewer, Owner
  <2>4. /\ w \in Workings /\ w.plan = Tail(Rest(c)) /\ w.asked = Ask(c) /\ w.link = work[c].link
    BY <1>0, <2>2, <2>3, AtStep, ZenonT(60) DEF Workings, Ask
  <2>5. ASSUME NEW i \in 1..Len(w.plan), w.plan[i].do \in {"decide", "put"}
        PROVE  w.link # None
    <3>1. /\ i + 2 \in 1..Len(work[c].plan) /\ work[c].plan[i + 2].do \in {"decide", "put"}
          /\ work[c].plan[1].do # "claim"
      BY <1>0, <2>2, <2>4, <2>5, AtStep, SMTT(60)
    <3> HIDE DEF w
    <3> QED
      BY <3>1, <2>4 DEF Inv, Sound
  <2>6. Sound(w)
    BY <1>0, <2>2, <2>4, <2>5, AtStep DEF Inv, Sound
  <2>7. Becomes(c, w)
    BY <1>1 DEF IsOwner
  <2> QED
    BY <2>6, <2>7, BecomesMoves DEF Moved
<1>2. CASE ~(There(l) /\ lists[l].owner = Me(c))
  BY <1>0, <1>2, ContinueMoves DEF IsOwner, Moved
<1> QED
  BY <1>1, <1>2

LEMMA RowRoleIsARole ==
    ASSUME MembershipTypeOK, NEW l \in ListIds, NEW u \in People
    PROVE  /\ RowRole(l, u) \in Roles \cup {NoRole}
           /\ RowRole(l, u) # NoRole <=> u \in MembersOf(l)
<1>1. members[<<l, u>>] \in Maybe(Members)
  BY DEF MembershipTypeOK
<1>2. CASE members[<<l, u>>] = None
  BY <1>2 DEF RowRole, MembersOf
<1>3. CASE members[<<l, u>>] # None
  <2>1. members[<<l, u>>].role \in Roles
    BY <1>1, <1>3 DEF Maybe, Members
  <2> QED
    BY <1>3, <2>1 DEF RowRole, MembersOf, Roles, Viewer, Owner, NoRole
<1> QED
  BY <1>2, <1>3

LEMMA HasRowMoves ==
    ASSUME Inv, NEW c \in Callers, HasRow(c)
    PROVE  Moved(c)
<1> DEFINE held == RowRole(work[c].list, Me(c))
           w == [work[c] EXCEPT !.held = held, !.plan = Rest(c)]
<1>0. Busy(c) /\ Head(work[c].plan).do = "row"
  BY DEF HasRow, At
<1>1. CASE Enough(c, held)
  <2>1. held \in Roles \cup {NoRole}
    BY <1>0, AtStep, RowRoleIsARole DEF Inv, Workings
  <2> HIDE DEF held
  <2>2. w \in Workings /\ w.plan = Rest(c) /\ w.asked = work[c].asked /\ w.link = work[c].link
    BY <1>0, <2>1, AtStep, ZenonT(60) DEF Workings
  <2>3. Becomes(c, w)
    BY <1>1 DEF HasRow, held
  <2> HIDE DEF w
  <2> QED
    BY <1>0, <2>2, <2>3, AdvanceMoves
<1>2. CASE ~Enough(c, held)
  BY <1>0, <1>2, TurnedMoves DEF HasRow, Moved
<1> QED
  BY <1>1, <1>2

LEMMA IndexMoves ==
    ASSUME Inv, NEW c \in Callers, Index(c)
    PROVE  Moved(c)
<1> DEFINE page == VisibleTo(Me(c))
           said == [l \in ListIds |-> IF l \in page \cap OwnedBy(Me(c)) THEN Owner ELSE NoRole]
           w == [work[c] EXCEPT !.left = page \ OwnedBy(Me(c)), !.plan = Rest(c), !.said = said]
<1>0. Busy(c) /\ Head(work[c].plan).do = "index"
  BY DEF Index, At
<1>1. page \ OwnedBy(Me(c)) \in SUBSET ListIds /\ said \in [ListIds -> Roles \cup {NoRole}]
  BY DEF VisibleTo, Roles, Viewer, Owner
<1>2. Becomes(c, w)
  BY DEF Index, Page
<1> HIDE DEF said, page
<1>3. w \in Workings /\ w.plan = Rest(c) /\ w.asked = work[c].asked /\ w.link = work[c].link
  BY <1>0, <1>1, AtStep, ZenonT(60) DEF Workings
<1> HIDE DEF w
<1> QED
  BY <1>0, <1>2, <1>3, AdvanceMoves

LEMMA ReadMoves ==
    ASSUME Inv, NEW c \in Callers, Read(c)
    PROVE  Moved(c)
<1> DEFINE left == IF work[c].owner = Me(c) THEN {} ELSE {work[c].list}
           said == [work[c].said EXCEPT ![work[c].list] =
                       IF work[c].owner = Me(c) THEN Owner ELSE NoRole]
           w == [work[c] EXCEPT !.plan = Rest(c), !.left = left, !.said = said]
<1>0. Busy(c) /\ Head(work[c].plan).do = "read"
  BY DEF Read, At
<1>1. left \in SUBSET ListIds /\ said \in [ListIds -> Roles \cup {NoRole}]
  BY <1>0, AtStep DEF Workings, Roles, Viewer, Owner
<1>2. Becomes(c, w)
  BY DEF Read
<1> HIDE DEF said, left
<1>3. w \in Workings /\ w.plan = Rest(c) /\ w.asked = work[c].asked /\ w.link = work[c].link
  BY <1>0, <1>1, AtStep, ZenonT(60) DEF Workings
<1> HIDE DEF w
<1> QED
  BY <1>0, <1>2, <1>3, AdvanceMoves

LEMMA SayMoves ==
    ASSUME Inv, NEW c \in Callers, Say(c)
    PROVE  Moved(c)
<1> DEFINE said == [work[c].said EXCEPT ![work[c].list] = work[c].held]
           w == [work[c] EXCEPT !.plan = Rest(c), !.said = said]
<1>0. Busy(c) /\ Head(work[c].plan).do = "say"
  BY DEF Say, At
<1>1. said \in [ListIds -> Roles \cup {NoRole}]
  BY <1>0, AtStep DEF Workings
<1>2. Becomes(c, w)
  BY DEF Say
<1> HIDE DEF said
<1>3. w \in Workings /\ w.plan = Rest(c) /\ w.asked = work[c].asked /\ w.link = work[c].link
  BY <1>0, <1>1, AtStep, ZenonT(60) DEF Workings
<1> HIDE DEF w
<1> QED
  BY <1>0, <1>2, <1>3, AdvanceMoves

LEMMA SuitsAtHead ==
    ASSUME Inv, NEW c \in Callers, Busy(c)
    PROVE  LET do == Head(work[c].plan).do IN
           /\ do \in {"claim", "decide", "put", "mark"} => Ask(c).deed = "join"
           /\ do \in {"owned", "heir", "hand_over", "leave"} => Ask(c).deed = "close"
           /\ do \in {"index", "read"} => Ask(c).deed = do
           /\ do \in {"each", "say"} => Ask(c).deed \in {"index", "read"}
           /\ do \in Acts \cup {"not_owner"} => Ask(c).deed \notin {"index", "join", "close"}
<1>1. Head(work[c].plan).do \in Suits(Ask(c).deed)
  BY AtStep
<1> QED
  BY <1>1 DEF Suits, Looks, Acts

LEMMA EachPlan ==
    ASSUME NEW p \in Seq(Steps), NEW deed \in {"index", "read"}, WellLaid(p, deed),
           Without(p, "claim"), Only(p, {"each"})
    PROVE  LET q == AskRole \o <<Do("say")>> \o p IN
           q \in Seq(Steps) /\ WellLaid(q, deed) /\ Only(q, Looks \cup {"say", "each"})
<1> DEFINE s == AskRole
           t == <<Do("say")>>
<1>1. Opens(s, deed, Viewer)
  BY DoorOpens, RoleOfOpens, OpensJoined DEF AskRole, Roles, Viewer, Owner
<1>2. Only(s, Looks)
  <2>1. Viewer \in Roles
    BY DEF Roles, Viewer, Owner
  <2>2. RoleOf(Viewer) \in Seq(Steps) /\ Only(RoleOf(Viewer), Looks)
    BY <2>1, RoleOfIs
  <2>3. Opens(Door(Viewer), deed, Viewer)
    BY <2>1, DoorOpens
  <2>4. Only(Door(Viewer), Looks) /\ Door(Viewer) \in Seq(Steps)
    <3> DEFINE f == <<[do |-> "find", need |-> Viewer]>>
    <3>1. f \in Seq(Steps) /\ Only(f, Looks)
      BY <2>1 DEF Steps, Only, Looks
    <3> HIDE DEF f
    <3>2. Only(f \o RoleOf(Viewer), Looks) /\ f \o RoleOf(Viewer) \in Seq(Steps)
      BY <3>1, <2>2, OnlyJoined, Joined
    <3> QED
      BY <3>2 DEF Door, f
  <2> QED
    BY <2>2, <2>4, OnlyJoined DEF AskRole
<1>3. t \in Seq(Steps) /\ WellLaid(t, deed) /\ Only(t, {"say"})
  BY OneStepPlan DEF Suits
<1> HIDE DEF s, t
<1>4. /\ Without(s, "each") /\ Without(t, "claim") /\ Without(t, "each")
      /\ Only(s, Looks \cup {"say", "each"}) /\ Only(t, Looks \cup {"say", "each"})
      /\ Only(p, Looks \cup {"say", "each"})
  BY <1>2, <1>3 DEF Only, Without, Looks
<1>5. s \in Seq(Steps) /\ WellLaid(s, deed)
  BY <1>1 DEF Opens
<1>6. /\ s \o t \in Seq(Steps) /\ WellLaid(s \o t, deed)
      /\ Only(s \o t, Looks \cup {"say", "each"})
  BY <1>3, <1>4, <1>5, Joined, WellLaidJoined, OnlyJoined
<1>7. Without(s \o t, "each")
  <2>1. Only(s, Looks \cup {"say"}) /\ Only(t, Looks \cup {"say"})
    BY <1>2, <1>3 DEF Only
  <2>2. Only(s \o t, Looks \cup {"say"})
    BY <2>1, <1>3, <1>5, OnlyJoined
  <2> QED
    BY <2>2 DEF Only, Without, Looks
<1>8. /\ (s \o t) \o p \in Seq(Steps) /\ WellLaid((s \o t) \o p, deed)
      /\ Only((s \o t) \o p, Looks \cup {"say", "each"})
  BY <1>4, <1>6, <1>7, Joined, WellLaidJoined, OnlyJoined
<1> QED
  BY <1>8 DEF s, t

(* "each" is the last step of a plan, so it is all that is left of one.    *)
LEMMA EachIsLast ==
    ASSUME NEW p \in Seq(Steps), Len(p) > 0, p[1].do = "each", NEW deed, WellLaid(p, deed)
    PROVE  Len(p) = 1
<1>1. \A i \in 1..Len(p) : p[i].do = "each" => i = Len(p)
  BY DEF WellLaid
<1>2. 1 \in 1..Len(p)
  OBVIOUS
<1> QED
  BY <1>1, <1>2

LEMMA AtEach ==
    ASSUME Inv, NEW c \in Callers, Each(c)
    PROVE  /\ Busy(c) /\ Len(work[c].plan) = 1 /\ Only(work[c].plan, {"each"})
           /\ Ask(c).deed \in {"index", "read"}
<1>1. Busy(c) /\ Head(work[c].plan).do = "each"
  BY DEF Each, At
<1>2. Len(work[c].plan) = 1 /\ work[c].plan[1].do = "each"
  <2>1. /\ work[c].plan \in Seq(Steps) /\ Len(work[c].plan) > 0
        /\ work[c].plan[1].do = "each" /\ WellLaid(work[c].plan, Ask(c).deed)
    BY <1>1, AtStep
  <2> QED
    BY <2>1, EachIsLast
<1> QED
  BY <1>1, <1>2, SuitsAtHead DEF Only

LEMMA EachMoves ==
    ASSUME Inv, NEW c \in Callers, Each(c)
    PROVE  Moved(c)
<1>0. /\ Busy(c) /\ Only(work[c].plan, {"each"}) /\ Ask(c).deed \in {"index", "read"}
  BY AtEach
<1>1. CASE work[c].left = {}
  BY <1>1, FinishMoves DEF Each, Moved
<1>2. CASE work[c].left # {}
  <2> DEFINE q == AskRole \o <<Do("say")>> \o work[c].plan
  <2>1. PICK l \in work[c].left :
          Becomes(c, [work[c] EXCEPT !.list = l, !.left = @ \ {l}, !.plan = q])
    BY <1>2 DEF Each
  <2>2. q \in Seq(Steps) /\ WellLaid(q, Ask(c).deed) /\ Only(q, Looks \cup {"say", "each"})
    <3>1. Without(work[c].plan, "claim")
      BY <1>0 DEF Only, Without
    <3> QED
      BY <1>0, <3>1, AtStep, EachPlan
  <2> HIDE DEF q
  <2> DEFINE w == [work[c] EXCEPT !.list = l, !.left = @ \ {l}, !.plan = q]
  <2>3. l \in ListIds /\ work[c].left \ {l} \in SUBSET ListIds
    BY <1>0, AtStep DEF Workings
  <2>4. /\ w \in Workings /\ w.plan = q /\ w.asked = Ask(c) /\ w.link = work[c].link
    BY <1>0, <2>2, <2>3, AtStep, ZenonT(60) DEF Workings, Ask
  <2>5. \A i \in 1..Len(q) : q[i].do \notin {"decide", "put"}
    BY <2>2 DEF Only, Looks
  <2>6. Becomes(c, w)
    BY <2>1
  <2> HIDE DEF w
  <2>7. Sound(w)
    BY <1>0, <2>2, <2>4, <2>5, AtStep DEF Sound, Inv
  <2> QED
    BY <2>6, <2>7, BecomesMoves DEF Moved
<1> QED
  BY <1>1, <1>2

LEMMA FinishingMoves ==
    ASSUME Inv, NEW c \in Callers,
           \/ Sheet(c) \/ Create(c) \/ Rename(c) \/ Delete(c) \/ Invite(c) \/ Revoke(c)
           \/ Remove(c) \/ Mark(c) \/ Leave(c) \/ Cut(c)
    PROVE  Moved(c) /\ work'[c] = NoWork
<1>1. Finish(c)
  BY DEF Sheet, Create, Rename, Delete, Invite, Revoke, Remove, Mark, Leave, Cut
<1> QED
  BY <1>1, FinishMoves DEF Moved

LEMMA NotOwnerMoves ==
    ASSUME Inv, NEW c \in Callers, NotOwner(c)
    PROVE  Moved(c)
<1>1. Busy(c) /\ Head(work[c].plan).do # "claim"
  BY DEF NotOwner, At
<1>2. CASE Finish(c)
  BY <1>2, FinishMoves DEF Moved
<1>3. CASE Continue(c)
  BY <1>1, <1>3, ContinueMoves DEF Moved
<1> QED
  BY <1>2, <1>3 DEF NotOwner

LEMMA ClaimMoves ==
    ASSUME Inv, NEW c \in Callers, Claim(c)
    PROVE  Moved(c)
<1> DEFINE t == Ask(c).token
           w == [work[c] EXCEPT !.link = invites[t], !.list = invites[t].list, !.plan = Rest(c)]
<1>0. Busy(c) /\ Head(work[c].plan).do = "claim"
  BY DEF Claim, At
<1>1. CASE Claimable(t)
  <2>1. t \in Tokens
    BY <1>0, AtStep DEF Asked
  <2>2. invites[t] \in Invites /\ invites[t] # None
    BY <1>1, <2>1 DEF Inv, MembershipTypeOK, Maybe, Claimable
  <2>3. invites[t].list \in ListIds /\ invites[t].role < Owner
    BY <2>1, <2>2 DEF Invites, Inv, LinksOffer
  <2>4. Becomes(c, w)
    BY <1>1 DEF Claim
  <2>5. /\ w \in Workings /\ w.plan = Rest(c) /\ w.asked = Ask(c) /\ w.link = invites[t]
    BY <1>0, <2>2, <2>3, AtStep DEF Workings, Maybe, Ask
  <2> HIDE DEF w
  <2>6. Sound(w)
    BY <1>0, <2>2, <2>3, <2>5, AtStep DEF Sound
  <2> QED
    BY <2>4, <2>6, BecomesMoves DEF Moved
<1>2. CASE ~Claimable(t)
  BY <1>2, FinishMoves DEF Claim, Moved
<1> QED
  BY <1>1, <1>2

LEMMA DecidedPlan ==
    ASSUME NEW grants \in BOOLEAN
    PROVE  LET p == (IF grants THEN <<Do("put")>> ELSE <<>>) \o <<Do("mark")>> IN
           /\ p \in Seq(Steps) /\ WellLaid(p, "join") /\ Only(p, {"put", "mark"})
           /\ ~grants => Only(p, {"mark"})
<1> DEFINE s == <<Do("put")>>
           t == <<Do("mark")>>
           e == <<>>
<1>1. /\ s \in Seq(Steps) /\ WellLaid(s, "join") /\ Only(s, {"put"})
      /\ t \in Seq(Steps) /\ WellLaid(t, "join") /\ Only(t, {"mark"})
  BY OneStepPlan DEF Suits
<1>2. e \in Seq(Steps) /\ e = <<>>
  OBVIOUS
<1> HIDE DEF s, t, e
<1>3. CASE grants
  <2>1. Without(s, "each") /\ Without(t, "claim") /\ Only(s, {"put", "mark"}) /\ Only(t, {"put", "mark"})
    BY <1>1 DEF Only, Without
  <2>2. s \o t \in Seq(Steps) /\ WellLaid(s \o t, "join") /\ Only(s \o t, {"put", "mark"})
    BY <1>1, <2>1, Joined, WellLaidJoined, OnlyJoined
  <2> QED
    BY <1>3, <2>2 DEF s, t
<1>4. CASE ~grants
  <2>1. e \o t = t
    BY <1>1, <1>2
  <2>2. Only(t, {"put", "mark"})
    BY <1>1 DEF Only
  <2> QED
    BY <1>1, <1>4, <2>1, <2>2 DEF e, t
<1> QED
  BY <1>3, <1>4

LEMMA DecideMoves ==
    ASSUME Inv, NEW c \in Callers, Decide(c)
    PROVE  Moved(c) /\ work[c].link \in Invites
<1> DEFINE p == (IF Grants(c) THEN <<Do("put")>> ELSE <<>>) \o <<Do("mark")>>
           w == [work[c] EXCEPT !.plan = p]
<1>0. Busy(c) /\ Head(work[c].plan).do = "decide" /\ Ask(c).deed = "join"
  BY SuitsAtHead DEF Decide, At
<1>1. work[c].link # None /\ work[c].link \in Invites
  BY <1>0, AtStep DEF Inv, Sound, Workings, Maybe
<1>2. CASE Finish(c)
  BY <1>1, <1>2, FinishMoves DEF Moved
<1>3. CASE Becomes(c, w)
  <2>1. p \in Seq(Steps) /\ WellLaid(p, "join")
    BY DecidedPlan DEF Grants
  <2> HIDE DEF p
  <2>2. w \in Workings /\ w.plan = p /\ w.asked = Ask(c) /\ w.link = work[c].link
    BY <1>0, <2>1, AtStep DEF Workings, Ask
  <2>3. Becomes(c, w)
    BY <1>3
  <2> HIDE DEF w
  <2>4. Sound(w)
    BY <1>0, <1>1, <2>1, <2>2, AtStep DEF Sound, Inv
  <2> QED
    BY <1>1, <2>3, <2>4, BecomesMoves DEF Moved
<1> QED
  BY <1>2, <1>3 DEF Decide

LEMMA PutOrHandOverMoves ==
    ASSUME Inv, NEW c \in Callers, Put(c) \/ HandOver(c)
    PROVE  Moved(c)
<1>1. Busy(c) /\ Head(work[c].plan).do # "claim"
  BY DEF Put, HandOver, At
<1>2. CASE Finish(c)
  BY <1>2, FinishMoves DEF Moved
<1>3. CASE Continue(c)
  BY <1>1, <1>3, ContinueMoves DEF Moved
<1> QED
  BY <1>2, <1>3 DEF Put, HandOver

LEMMA OwnedMoves ==
    ASSUME Inv, NEW c \in Callers, Owned(c)
    PROVE  Moved(c)
<1> DEFINE w == [work[c] EXCEPT !.left = OwnedBy(Me(c)), !.plan = Rest(c)]
<1>0. Busy(c) /\ Head(work[c].plan).do = "owned" /\ Becomes(c, w)
  BY DEF Owned, At
<1>1. w \in Workings /\ w.plan = Rest(c) /\ w.asked = work[c].asked /\ w.link = work[c].link
  BY <1>0, AtStep DEF Workings, OwnedBy
<1> HIDE DEF w
<1> QED
  BY <1>0, <1>1, AdvanceMoves

(* Of the lists that are left, one with nobody on it is passed over; the   *)
(* heir of another is read.                                                *)
NextOf(c) == CHOOSE m \in work[c].left : \A k \in work[c].left : m <= k

LEMMA HeirDoes ==
    ASSUME Inv, NEW c \in Callers, Heir(c)
    PROVE  /\ Busy(c) /\ Head(work[c].plan).do = "heir" /\ Ask(c).deed = "close"
           /\ \/ work[c].left = {} /\ Continue(c)
              \/ /\ NextOf(c) \in work[c].left /\ MembersOf(NextOf(c)) = {}
                 /\ Becomes(c, [work[c] EXCEPT !.left = work[c].left \ {NextOf(c)}])
              \/ /\ NextOf(c) \in work[c].left
                 /\ LongestStanding(NextOf(c)) \in MembersOf(NextOf(c))
                 /\ Becomes(c, [work[c] EXCEPT !.left = work[c].left \ {NextOf(c)},
                                   !.list = NextOf(c), !.heir = LongestStanding(NextOf(c)),
                                   !.plan = <<Do("hand_over")>> \o work[c].plan])
<1>1. Busy(c) /\ Head(work[c].plan).do = "heir" /\ Ask(c).deed = "close" /\ NextHeir(c)
  BY SuitsAtHead DEF Heir, At
<1>2. CASE work[c].left = {}
  BY <1>1, <1>2 DEF NextHeir
<1>3. CASE work[c].left # {}
  <2>1. work[c].left \subseteq Nat /\ work[c].left \subseteq ListIds
    BY <1>1, AtStep DEF Workings, ListIds
  <2>2. NextOf(c) \in work[c].left
    BY <1>3, <2>1, LeastExists DEF NextOf
  <2>3. MembersOf(NextOf(c)) # {} => LongestStanding(NextOf(c)) \in MembersOf(NextOf(c))
    BY <2>1, <2>2, HeirIsAMember, MembershipAssumption DEF Inv, MembershipTypeOK
  <2> QED
    BY <1>1, <1>3, <2>2, <2>3 DEF NextHeir, NextOf
<1> QED
  BY <1>1, <1>2, <1>3

LEMMA HeirMoves ==
    ASSUME Inv, NEW c \in Callers, Heir(c)
    PROVE  Moved(c)
<1>0. Busy(c) /\ Head(work[c].plan).do = "heir" /\ Ask(c).deed = "close"
  BY HeirDoes
<1>1. CASE Continue(c)
  BY <1>0, <1>1, ContinueMoves DEF Moved
<1> DEFINE l == NextOf(c)
           rest == work[c].left \ {l}
<1>2. CASE Becomes(c, [work[c] EXCEPT !.left = rest])
  <2> DEFINE w == [work[c] EXCEPT !.left = rest]
  <2>1. Sound(work[c]) /\ work[c] \in Workings
    BY <1>0, AtStep DEF Inv
  <2>2. /\ w \in Workings /\ w.plan = work[c].plan /\ w.asked = work[c].asked
        /\ w.link = work[c].link
    BY <2>1 DEF Workings
  <2> HIDE DEF w
  <2>3. Sound(w)
    BY <2>1, <2>2 DEF Sound
  <2> QED
    BY <1>2, <2>3, BecomesMoves DEF Moved, w
<1>3. ASSUME l \in work[c].left, LongestStanding(l) \in MembersOf(l),
             Becomes(c, [work[c] EXCEPT !.left = rest, !.list = l, !.heir = LongestStanding(l),
                                        !.plan = <<Do("hand_over")>> \o work[c].plan])
      PROVE  Moved(c)
  <2> DEFINE s == <<Do("hand_over")>>
             p == work[c].plan
             w == [work[c] EXCEPT !.left = rest, !.list = l, !.heir = LongestStanding(l),
                                  !.plan = s \o p]
  <2>1. s \in Seq(Steps) /\ WellLaid(s, "close") /\ Only(s, {"hand_over"})
    BY OneStepPlan DEF Suits
  <2>2. /\ p \in Seq(Steps) /\ WellLaid(p, "close") /\ work[c] \in Workings
    BY <1>0, AtStep
  <2>3. Becomes(c, w)
    BY <1>3
  <2>4. LongestStanding(l) \in People /\ l \in ListIds
    BY <1>3, <2>2 DEF MembersOf, Workings
  <2> HIDE DEF s, p
  <2>5. Without(s, "each")
    BY <2>1 DEF Only, Without
  <2>6. Without(p, "claim") /\ \A i \in 1..Len(p) : p[i].do \notin {"decide", "put"}
    <3>1. Only(p, Suits("close"))
      BY <2>2 DEF WellLaid
    <3> QED
      BY <3>1 DEF Only, Without, Suits, Looks
  <2>7. s \o p \in Seq(Steps) /\ WellLaid(s \o p, "close")
    BY <2>1, <2>2, <2>5, <2>6, Joined, WellLaidJoined
  <2>8. /\ w \in Workings /\ w.plan = s \o p /\ w.asked = Ask(c) /\ w.link = work[c].link
    BY <2>2, <2>4, <2>7 DEF Workings, Maybe, Ask
  <2>9. \A i \in 1..Len(s \o p) : (s \o p)[i].do \notin {"decide", "put"}
    <3>1. Only(s \o p, Suits("close"))
      BY <2>7 DEF WellLaid
    <3> QED
      BY <3>1 DEF Only, Suits, Looks
  <2> HIDE DEF w
  <2>10. Sound(w)
    BY <1>0, <2>7, <2>8, <2>9, AtStep DEF Sound, Inv
  <2> QED
    BY <2>3, <2>10, BecomesMoves DEF Moved
<1> QED
  BY <1>1, <1>2, <1>3, HeirDoes

LEMMA StepMoves ==
    ASSUME Inv, NEW c \in Callers, Arrive(c) \/ Step(c) \/ Cut(c)
    PROVE  Moved(c)
BY ArriveMoves, FindMoves, IsOwnerMoves, HasRowMoves, IndexMoves, ReadMoves, EachMoves,
   SayMoves, FinishingMoves, NotOwnerMoves, ClaimMoves, DecideMoves, PutOrHandOverMoves,
   OwnedMoves, HeirMoves DEF Step

(* What every step does to the tables.                                     *)
TablesOK ==
    /\ \A l \in ListIds : There(l) => lists[l].owner \in present
    /\ \A l \in ListIds, u \in People :
          members[<<l, u>>] # None => There(l) /\ u \in present /\ RowRole(l, u) < Owner
    /\ \A t \in Tokens :
          invites[t] # None => There(invites[t].list) /\ invites[t].by \in present
    /\ present \in SUBSET People
    /\ lists \in [ListIds -> Maybe(Lists)]
    /\ members \in [ListIds \X People -> Maybe(Members)]
    /\ invites \in [Tokens -> Maybe(Invites)]
    /\ issued \in 0..MaxTokens /\ now \in 0..MaxTime
    /\ LinksOffer

LEMMA CascadeKeepsTables ==
    ASSUME TablesOK, NEW gone \in SUBSET ListIds, NEW who \in SUBSET People,
           Cascade(gone, who), present' = present \ who, UNCHANGED <<issued, now>>,
           \A l \in ListIds : There(l) /\ lists[l].owner \in who => l \in gone
    PROVE  TablesOK'
<1>1. \A l \in ListIds : lists'[l] = IF l \in gone THEN None ELSE lists[l]
  BY DEF Cascade
<1>2. \A l \in ListIds, u \in People :
        members'[<<l, u>>] = IF l \in gone \/ u \in who THEN None ELSE members[<<l, u>>]
  BY DEF Cascade
<1>3. \A t \in Tokens : \/ invites'[t] = None
                        \/ /\ invites'[t] = invites[t]
                           /\ invites[t].list \notin gone /\ invites[t].by \notin who
  BY DEF Cascade
<1>4. lists' \in [ListIds -> Maybe(Lists)]
  BY DEF Cascade, TablesOK, Maybe
<1>5. members' \in [ListIds \X People -> Maybe(Members)]
  BY DEF Cascade, TablesOK, Maybe
<1>6. invites' \in [Tokens -> Maybe(Invites)]
  BY <1>3 DEF Cascade, TablesOK, Maybe
<1>7. \A l \in ListIds : There(l)' => lists'[l].owner \in present'
  BY <1>1 DEF TablesOK, There
<1>8. ASSUME NEW l \in ListIds, NEW u \in People, members'[<<l, u>>] # None
      PROVE  There(l)' /\ u \in present' /\ RowRole(l, u)' < Owner
  BY <1>1, <1>2, <1>8 DEF TablesOK, There, RowRole
<1>9. ASSUME NEW t \in Tokens, invites'[t] # None
      PROVE  /\ lists'[invites'[t].list] # None /\ invites'[t] = invites[t]
             /\ invites[t].by \in present' /\ invites[t].role < Owner
  <2>1. invites'[t] = invites[t] /\ invites[t].list \notin gone /\ invites[t].by \notin who
    BY <1>3, <1>9
  <2>2. invites[t] \in Invites
    BY <1>9, <2>1 DEF TablesOK, Maybe
  <2>3. invites[t].list \in ListIds
    BY <2>2 DEF Invites
  <2> QED
    BY <1>1, <1>9, <2>1, <2>3 DEF TablesOK, There, LinksOffer
<1>10. LinksOffer'
  BY <1>9 DEF LinksOffer
<1>11. present' \in SUBSET People /\ issued' \in 0..MaxTokens /\ now' \in 0..MaxTime
  BY DEF TablesOK
<1>12. (\A t \in Tokens : invites[t] # None => There(invites[t].list) /\ invites[t].by \in present)'
  BY <1>9 DEF There
<1>13. (\A l \in ListIds, u \in People :
           members[<<l, u>>] # None => There(l) /\ u \in present /\ RowRole(l, u) < Owner)'
  BY <1>8
<1> QED
  BY <1>4, <1>5, <1>6, <1>7, <1>10, <1>11, <1>12, <1>13 DEF TablesOK

LEMMA SameTables ==
    ASSUME TablesOK, UNCHANGED tables, now' \in 0..MaxTime
    PROVE  TablesOK'
BY DEF TablesOK, tables, There, RowRole, LinksOffer

(* A change of the links alone, each of which was there or is well made.   *)
LEMMA LinksChange ==
    ASSUME TablesOK, UNCHANGED <<present, lists, members, now>>, issued' \in 0..MaxTokens,
           invites' \in [Tokens -> Maybe(Invites)],
           \A t \in Tokens : invites'[t] # None =>
              /\ invites'[t].list \in ListIds /\ There(invites'[t].list)
              /\ invites'[t].by \in present /\ invites'[t].role < Owner
    PROVE  TablesOK'
<1>1. LinksOffer'
  BY DEF LinksOffer
<1>2. (\A t \in Tokens : invites[t] # None => There(invites[t].list) /\ invites[t].by \in present)'
  BY DEF There
<1>3. (\A l \in ListIds, u \in People :
           members[<<l, u>>] # None => There(l) /\ u \in present /\ RowRole(l, u) < Owner)'
  BY DEF TablesOK, There, RowRole
<1>4. (\A l \in ListIds : There(l) => lists[l].owner \in present)'
  BY DEF TablesOK, There
<1> QED
  BY <1>1, <1>2, <1>3, <1>4 DEF TablesOK

(* A change of the lists and of who is on them, none of which goes.        *)
LEMMA ListsChange ==
    ASSUME TablesOK, UNCHANGED <<present, invites, issued, now>>,
           lists' \in [ListIds -> Maybe(Lists)],
           members' \in [ListIds \X People -> Maybe(Members)],
           \A l \in ListIds : There(l) => lists'[l] # None,
           \A l \in ListIds : lists'[l] # None => lists'[l].owner \in present,
           \A l \in ListIds, u \in People : members'[<<l, u>>] # None =>
              lists'[l] # None /\ u \in present /\ members'[<<l, u>>].role < Owner
    PROVE  TablesOK'
<1>1. LinksOffer'
  BY DEF TablesOK, LinksOffer
<1>2. (\A t \in Tokens : invites[t] # None => There(invites[t].list) /\ invites[t].by \in present)'
  <2>1. ASSUME NEW t \in Tokens, invites[t] # None
        PROVE  lists'[invites[t].list] # None
    <3>1. invites[t] \in Invites /\ There(invites[t].list)
      BY <2>1 DEF TablesOK, Maybe
    <3> QED
      BY <3>1 DEF Invites
  <2> QED
    BY <2>1 DEF TablesOK, There
<1>3. (\A l \in ListIds, u \in People :
           members[<<l, u>>] # None => There(l) /\ u \in present /\ RowRole(l, u) < Owner)'
  BY DEF There, RowRole
<1>4. (\A l \in ListIds : There(l) => lists[l].owner \in present)'
  BY DEF There
<1> QED
  BY <1>1, <1>2, <1>3, <1>4 DEF TablesOK

LEMMA OwnersStepsKeepTables ==
    ASSUME Inv, TablesOK, NEW c \in Callers,
           Create(c) \/ Rename(c) \/ Delete(c) \/ Invite(c) \/ Revoke(c) \/ Remove(c)
    PROVE  TablesOK'
<1>0. Busy(c)
  BY DEF Create, Rename, Delete, Invite, Revoke, Remove, At
<1>1. Ask(c) \in Asked /\ Me(c) \in People /\ work[c].list \in ListIds
  BY <1>0, AtStep DEF Workings
<1>2. \A l \in ListIds, u \in People :
        /\ members[<<l, u>>] \in Maybe(Members)
        /\ members[<<l, u>>] # None =>
              There(l) /\ u \in present /\ members[<<l, u>>].role < Owner
  BY DEF TablesOK, RowRole
<1>3. CASE Create(c)
  <2>1. CASE UNCHANGED lists
    BY <1>3, <2>1, SameTables DEF Create, tables, TablesOK
  <2>2. CASE ~UNCHANGED lists
    <3>1. PICK l \in ListIds : /\ NextList(l) /\ Me(c) \in present
                              /\ lists' = [lists EXCEPT ![l] = [owner |-> Me(c), name |-> Ask(c).name]]
      BY <1>3, <2>2 DEF Create
    <3>2. [owner |-> Me(c), name |-> Ask(c).name] \in Lists
      BY <1>1 DEF Lists, Asked
    <3>3. None \notin Lists
      BY MembershipAssumption DEF MembershipAssumption
    <3>4. lists' \in [ListIds -> Maybe(Lists)]
      BY <3>1, <3>2 DEF TablesOK, Maybe
    <3>5. \A m \in ListIds : There(m) => lists'[m] # None
      BY <3>1, <3>2, <3>3 DEF TablesOK, There
    <3>6. \A m \in ListIds : lists'[m] # None => lists'[m].owner \in present
      BY <3>1 DEF TablesOK, There
    <3> QED
      BY <1>2, <1>3, <3>4, <3>5, <3>6, ListsChange DEF Create, TablesOK
  <2> QED
    BY <2>1, <2>2
<1>4. CASE Rename(c)
  <2> DEFINE l == work[c].list
  <2>1. CASE ~There(l)
    BY <1>4, <2>1, SameTables DEF Rename, tables, TablesOK
  <2>2. CASE There(l)
    <3>1. lists[l] \in Lists /\ Ask(c).name \in Names
      BY <1>1, <2>2 DEF TablesOK, Maybe, There, Asked
    <3>2. [lists[l] EXCEPT !.name = Ask(c).name] \in Lists
          /\ [lists[l] EXCEPT !.name = Ask(c).name].owner = lists[l].owner
      BY <3>1 DEF Lists
    <3>3. lists' = [lists EXCEPT ![l] = [lists[l] EXCEPT !.name = Ask(c).name]]
      BY <1>4, <2>2 DEF Rename
    <3>4. None \notin Lists
      BY MembershipAssumption DEF MembershipAssumption
    <3>5. lists' \in [ListIds -> Maybe(Lists)]
      BY <1>1, <3>2, <3>3 DEF TablesOK, Maybe
    <3>6. \A m \in ListIds : There(m) => lists'[m] # None
      BY <1>1, <3>2, <3>3, <3>4 DEF TablesOK, There
    <3>7. \A m \in ListIds : lists'[m] # None => lists'[m].owner \in present
      BY <1>1, <2>2, <3>2, <3>3 DEF TablesOK, There
    <3> QED
      BY <1>2, <1>4, <3>5, <3>6, <3>7, ListsChange DEF Rename, TablesOK
  <2> QED
    BY <2>1, <2>2
<1>5. CASE Delete(c)
  <2>1. Cascade({work[c].list}, {}) /\ UNCHANGED <<present, issued, now>>
    BY <1>5 DEF Delete
  <2>2. {work[c].list} \in SUBSET ListIds /\ present' = present \ {}
    BY <1>1, <2>1
  <2> QED
    BY <2>1, <2>2, CascadeKeepsTables
<1>6. CASE Invite(c)
  <2> DEFINE l == work[c].list
             link == [list |-> l, role |-> Ask(c).role, by |-> Me(c),
                      expires |-> now + Valid, used |-> FALSE]
  <2>1. CASE UNCHANGED <<issued, invites>>
    BY <1>6, <2>1, SameTables DEF Invite, tables, TablesOK
  <2>2. CASE ~UNCHANGED <<issued, invites>>
    <3>1. /\ Ask(c).role < Owner /\ There(l) /\ Me(c) \in present
          /\ issued < MaxTokens /\ issued' = issued + 1
          /\ invites' = [invites EXCEPT ![issued + 1] = link]
      BY <1>6, <2>2 DEF Invite
    <3>2. Valid \in Nat /\ MaxTime \in Nat /\ MaxTokens \in Nat /\ now \in Nat
      BY MembershipAssumption DEF MembershipAssumption, TablesOK
    <3>3. link \in Invites /\ link.list = l /\ link.by = Me(c) /\ link.role < Owner
      BY <1>1, <3>1, <3>2 DEF Invites, Asked
    <3>4. issued' \in 0..MaxTokens /\ invites' \in [Tokens -> Maybe(Invites)]
      BY <3>1, <3>2, <3>3 DEF TablesOK, Maybe, Tokens
    <3>5. ASSUME NEW t \in Tokens, invites'[t] # None
          PROVE  /\ invites'[t].list \in ListIds /\ There(invites'[t].list)
                 /\ invites'[t].by \in present /\ invites'[t].role < Owner
      <4>1. CASE t = issued + 1
        BY <1>1, <3>1, <3>3, <4>1 DEF TablesOK
      <4>2. CASE t # issued + 1
        <5>1. invites'[t] = invites[t] /\ invites[t] \in Invites
          BY <3>1, <3>5, <4>2 DEF TablesOK, Maybe
        <5> QED
          BY <3>5, <5>1 DEF TablesOK, LinksOffer, Invites
      <4> QED
        BY <4>1, <4>2
    <3> QED
      BY <1>6, <3>4, <3>5, LinksChange DEF Invite
  <2> QED
    BY <2>1, <2>2
<1>7. CASE Revoke(c)
  <2>1. \A t \in Tokens : invites'[t] = None \/ invites'[t] = invites[t]
    BY <1>7 DEF Revoke
  <2>2. invites' \in [Tokens -> Maybe(Invites)] /\ issued' \in 0..MaxTokens
    BY <1>7, <2>1 DEF Revoke, TablesOK, Maybe
  <2>3. ASSUME NEW t \in Tokens, invites'[t] # None
        PROVE  /\ invites'[t].list \in ListIds /\ There(invites'[t].list)
               /\ invites'[t].by \in present /\ invites'[t].role < Owner
    <3>1. invites'[t] = invites[t] /\ invites[t] \in Invites
      BY <2>1, <2>3 DEF TablesOK, Maybe
    <3> QED
      BY <2>3, <3>1 DEF TablesOK, LinksOffer, Invites
  <2> QED
    BY <1>7, <2>2, <2>3, LinksChange DEF Revoke
<1>8. CASE Remove(c)
  <2>1. members' \in [ListIds \X People -> Maybe(Members)]
    BY <1>8 DEF Remove, TablesOK, Maybe
  <2>2. \A l \in ListIds, u \in People :
          members'[<<l, u>>] = None \/ members'[<<l, u>>] = members[<<l, u>>]
    BY <1>8 DEF Remove, TablesOK
  <2> QED
    BY <1>2, <1>8, <2>1, <2>2, ListsChange DEF Remove, TablesOK, There
<1> QED
  BY <1>3, <1>4, <1>5, <1>6, <1>7, <1>8

LEMMA OthersStepsKeepTables ==
    ASSUME Inv, TablesOK, NEW c \in Callers, Put(c) \/ Mark(c) \/ HandOver(c) \/ Leave(c)
    PROVE  TablesOK'
<1>0. Busy(c)
  BY DEF Put, Mark, HandOver, Leave, At
<1>1. Ask(c) \in Asked /\ Me(c) \in People /\ work[c] \in Workings /\ work[c].list \in ListIds
  BY <1>0, AtStep DEF Workings
<1>2. \A l \in ListIds, u \in People :
        /\ members[<<l, u>>] \in Maybe(Members)
        /\ members[<<l, u>>] # None =>
              There(l) /\ u \in present /\ members[<<l, u>>].role < Owner
  BY DEF TablesOK, RowRole
<1>3. CASE Put(c)
  <2> DEFINE l == work[c].list
             u == Me(c)
             row == [role |-> work[c].link.role,
                     added |-> IF members[<<l, u>>] = None THEN now ELSE members[<<l, u>>].added]
  <2>1. CASE UNCHANGED members
    BY <1>3, <2>1, SameTables DEF Put, tables, TablesOK
  <2>2. CASE ~UNCHANGED members
    <3>1. There(l) /\ u \in present /\ members' = [members EXCEPT ![<<l, u>>] = row]
      BY <1>3, <2>2 DEF Put
    <3>2. work[c].link \in Invites /\ work[c].link.role < Owner
      <4>1. /\ Head(work[c].plan).do = "put" /\ work[c].plan[1] = Head(work[c].plan)
            /\ 1 \in 1..Len(work[c].plan)
        BY <1>0, <1>3, AtStep DEF Put, At
      <4>2. work[c].link # None
        BY <4>1 DEF Inv, Sound
      <4> QED
        BY <1>1, <4>2 DEF Inv, Sound, Workings, Maybe
    <3>3. row \in Members /\ row.role < Owner
      <4>1. MaxTime \in Nat /\ now \in Nat
        BY MembershipAssumption DEF MembershipAssumption, TablesOK
      <4>2. members[<<l, u>>] # None => members[<<l, u>>].added \in Nat
        BY <1>1, <1>2 DEF Maybe, Members
      <4> QED
        BY <3>2, <4>1, <4>2 DEF Members, Invites
    <3>4. members' \in [ListIds \X People -> Maybe(Members)]
      BY <1>1, <3>1, <3>3 DEF TablesOK, Maybe
    <3>5. ASSUME NEW m \in ListIds, NEW v \in People, members'[<<m, v>>] # None
          PROVE  There(m) /\ v \in present /\ members'[<<m, v>>].role < Owner
      <4>1. CASE m = l /\ v = u
        BY <1>1, <3>1, <3>3, <4>1 DEF TablesOK
      <4>2. CASE ~(m = l /\ v = u)
        BY <1>1, <1>2, <3>1, <3>5, <4>2 DEF TablesOK
      <4> QED
        BY <4>1, <4>2
    <3> QED
      BY <1>3, <3>4, <3>5, ListsChange DEF Put, TablesOK, There
  <2> QED
    BY <2>1, <2>2
<1>4. CASE Mark(c)
  <2> DEFINE t == Ask(c).token
  <2>0. t \in Tokens
    BY <1>1 DEF Asked
  <2>1. CASE invites[t] = None
    BY <1>4, <2>1, SameTables DEF Mark, tables, TablesOK
  <2>2. CASE invites[t] # None
    <3>1. invites[t] \in Invites /\ invites' = [invites EXCEPT ![t] = [invites[t] EXCEPT !.used = TRUE]]
      BY <1>4, <2>0, <2>2 DEF Mark, TablesOK, Maybe
    <3> DEFINE link == [invites[t] EXCEPT !.used = TRUE]
    <3>2. /\ link \in Invites /\ link.list = invites[t].list /\ link.by = invites[t].by
          /\ link.role = invites[t].role
      BY <3>1 DEF Invites
    <3>3. invites' = [invites EXCEPT ![t] = link]
      BY <3>1
    <3> HIDE DEF link
    <3>4. invites' \in [Tokens -> Maybe(Invites)]
      BY <2>0, <3>2, <3>3 DEF TablesOK, Maybe
    <3>5. ASSUME NEW s \in Tokens, invites'[s] # None
          PROVE  /\ invites'[s].list \in ListIds /\ There(invites'[s].list)
                 /\ invites'[s].by \in present /\ invites'[s].role < Owner
      <4>1. /\ invites[s] \in Invites /\ invites'[s].list = invites[s].list
            /\ invites'[s].by = invites[s].by /\ invites'[s].role = invites[s].role
            /\ invites[s] # None
        <5>1. CASE s = t
          BY <2>0, <2>2, <3>1, <3>2, <3>3, <5>1 DEF TablesOK
        <5>2. CASE s # t
          BY <2>0, <3>3, <3>5, <5>2 DEF TablesOK, Maybe
        <5> QED
          BY <5>1, <5>2
      <4> QED
        BY <4>1 DEF TablesOK, LinksOffer, Invites
    <3> QED
      BY <1>4, <3>4, <3>5, LinksChange DEF Mark, TablesOK
  <2> QED
    BY <2>1, <2>2
<1>5. CASE HandOver(c)
  <2> DEFINE l == work[c].list
             heir == work[c].heir
  <2>1. CASE UNCHANGED <<lists, members>>
    BY <1>5, <2>1, SameTables DEF HandOver, tables, TablesOK
  <2>2. CASE ~UNCHANGED <<lists, members>>
    <3>1. /\ heir \in present \/ ~There(l)
          /\ lists' = IF There(l) THEN [lists EXCEPT ![l].owner = heir] ELSE lists
          /\ members' = [members EXCEPT ![<<l, heir>>] = None]
      BY <1>5, <2>2 DEF HandOver
    <3>2. members' \in [ListIds \X People -> Maybe(Members)]
      BY <3>1 DEF TablesOK, Maybe
    <3>3. \A m \in ListIds, u \in People :
            members'[<<m, u>>] = None \/ members'[<<m, u>>] = members[<<m, u>>]
      BY <3>1 DEF TablesOK
    <3>4. /\ lists' \in [ListIds -> Maybe(Lists)]
          /\ \A m \in ListIds : There(m) => lists'[m] # None
          /\ \A m \in ListIds : lists'[m] # None => lists'[m].owner \in present
      <4>1. CASE ~There(l)
        BY <3>1, <4>1 DEF TablesOK, There
      <4>2. CASE There(l)
        <5> DEFINE list == [lists[l] EXCEPT !.owner = heir]
        <5>1. lists[l] \in Lists /\ heir \in present /\ heir \in People
          BY <1>1, <3>1, <4>2 DEF TablesOK, Maybe, There
        <5>2. list \in Lists /\ list.owner = heir /\ lists' = [lists EXCEPT ![l] = list]
          BY <3>1, <4>2, <5>1 DEF Lists
        <5>3. None \notin Lists
          BY MembershipAssumption DEF MembershipAssumption
        <5> HIDE DEF list
        <5> QED
          BY <1>1, <5>1, <5>2, <5>3 DEF TablesOK, Maybe, There
      <4> QED
        BY <4>1, <4>2
    <3> QED
      BY <1>2, <1>5, <3>2, <3>3, <3>4, ListsChange DEF HandOver, TablesOK, There
  <2> QED
    BY <2>1, <2>2
<1>6. CASE Leave(c)
  <2>1. /\ Cascade(OwnedBy(Me(c)), {Me(c)}) /\ present' = present \ {Me(c)}
        /\ UNCHANGED <<issued, now>>
    BY <1>6 DEF Leave
  <2>2. /\ OwnedBy(Me(c)) \in SUBSET ListIds /\ {Me(c)} \in SUBSET People
        /\ \A l \in ListIds : There(l) /\ lists[l].owner \in {Me(c)} => l \in OwnedBy(Me(c))
    BY <1>1 DEF OwnedBy
  <2> HIDE DEF Leave
  <2> QED
    BY <2>1, <2>2, CascadeKeepsTables
<1> QED
  BY <1>3, <1>4, <1>5, <1>6

LEMMA StepKeepsTables ==
    ASSUME Inv, TablesOK, NEW c \in Callers, Arrive(c) \/ Step(c) \/ Cut(c)
    PROVE  TablesOK'
<1>1. CASE UNCHANGED <<tables, now>>
  BY <1>1, SameTables DEF TablesOK
<1>2. CASE \/ Create(c) \/ Rename(c) \/ Delete(c) \/ Invite(c) \/ Revoke(c) \/ Remove(c)
           \/ Put(c) \/ Mark(c) \/ HandOver(c) \/ Leave(c)
  BY <1>2, OwnersStepsKeepTables, OthersStepsKeepTables
<1>3. CASE \/ Arrive(c) \/ Cut(c) \/ Find(c) \/ IsOwner(c) \/ HasRow(c) \/ Index(c) \/ Read(c)
           \/ Each(c) \/ Say(c) \/ Sheet(c) \/ NotOwner(c) \/ Claim(c) \/ Decide(c) \/ Owned(c)
           \/ Heir(c)
  <2>1. UNCHANGED <<tables, now>>
    BY <1>3 DEF Arrive, Cut, Find, IsOwner, HasRow, Index, Read, Each, Say, Sheet, NotOwner,
                Claim, Decide, Owned, Heir
  <2> QED
    BY <2>1, <1>1
<1> QED
  BY <1>2, <1>3 DEF Step

LEMMA InvIs == Inv <=> /\ TablesOK
                       /\ work \in [Callers -> Workings]
                       /\ \A c \in Callers : Sound(work[c])
BY DEF Inv, MembershipTypeOK, TablesOK, Workings

LEMMA InitIsTyped == Init => Inv
<1> SUFFICES ASSUME Init PROVE Inv
  OBVIOUS
<1>1. PICK db \in Stored : present = db.present /\ lists = db.lists /\ members = db.members
  BY DEF Init
<1>2. /\ db.present \in SUBSET People /\ db.lists \in [ListIds -> Maybe(Lists)]
      /\ db.members \in [ListIds \X People -> Maybe(Members)]
      /\ \A l \in ListIds :
          /\ db.lists[l] # None => db.lists[l].owner \in db.present
          /\ \A u \in People : db.members[<<l, u>>] # None =>
                db.lists[l] # None /\ u \in db.present /\ db.members[<<l, u>>].role < Owner
  BY MembershipAssumption DEF MembershipAssumption
<1>3. /\ invites = [t \in Tokens |-> None] /\ issued = 0 /\ now = 0
      /\ work = [c \in Callers |-> NoWork]
  BY DEF Init
<1>4. TablesOK
  <2>1. MaxTokens \in Nat /\ MaxTime \in Nat
    BY MembershipAssumption DEF MembershipAssumption
  <2>2. invites \in [Tokens -> Maybe(Invites)] /\ \A t \in Tokens : invites[t] = None
    BY <1>3 DEF Maybe
  <2>3. \A l \in ListIds : There(l) => lists[l].owner \in present
    BY <1>1, <1>2 DEF There
  <2>4. \A l \in ListIds, u \in People :
          members[<<l, u>>] # None => There(l) /\ u \in present /\ RowRole(l, u) < Owner
    BY <1>1, <1>2 DEF There, RowRole
  <2> QED
    BY <1>1, <1>2, <1>3, <2>1, <2>2, <2>3, <2>4 DEF TablesOK, LinksOffer
<1>5. work \in [Callers -> Workings] /\ \A c \in Callers : Sound(work[c])
  BY <1>3, NoWorkIsSound, MembershipAssumption DEF Sound
<1> QED
  BY <1>4, <1>5, InvIs

LEMMA NextKeepsInv == Inv /\ [Next]_vars => Inv'
<1> SUFFICES ASSUME Inv, [Next]_vars PROVE Inv'
  OBVIOUS
<1>0. TablesOK /\ work \in [Callers -> Workings] /\ \A c \in Callers : Sound(work[c])
  BY InvIs
<1>9. TablesOK' /\ work' \in [Callers -> Workings] /\ (\A c \in Callers : Sound(work[c]))' => Inv'
  BY DEF Inv, MembershipTypeOK, TablesOK, Workings
<1>1. ASSUME NEW c \in Callers, Arrive(c) \/ Step(c) \/ Cut(c)
      PROVE  Inv'
  <2>1. TablesOK'
    BY <1>0, <1>1, StepKeepsTables
  <2>2. work' \in [Callers -> Workings] /\ \A d \in Callers : Sound(work'[d])
    BY <1>1, StepMoves DEF Moved
  <2> QED
    BY <2>1, <2>2, <1>9
<1>2. CASE Tick
  <2>1. UNCHANGED tables /\ now' \in 0..MaxTime /\ work' = work
    BY <1>0, <1>2, MembershipAssumption DEF Tick, MembershipAssumption, TablesOK
  <2> QED
    BY <1>0, <2>1, <1>9, SameTables
<1>3. CASE UNCHANGED vars
  <2>1. UNCHANGED tables /\ now' \in 0..MaxTime /\ work' = work
    BY <1>0, <1>3 DEF vars, tables, TablesOK
  <2> QED
    BY <1>0, <2>1, <1>9, SameTables
<1> QED
  BY <1>1, <1>2, <1>3 DEF Next

LEMMA SpecKeepsInv == Spec => []Inv
<1> QED
  BY InitIsTyped, NextKeepsInv, PTL DEF Spec

(* Rows, links and requests stay well typed, every row belongs to a list,  *)
(* an owner, a member and a maker who are there, and nobody's row ever     *)
(* makes them an owner, whatever is deleted under a request (the foreign   *)
(* keys of list_members and list_invites, and Invite's role check).        *)
THEOREM MembershipIsTyped == Spec => []MembershipTypeOK
<1>1. Inv => MembershipTypeOK
  BY DEF Inv
<1> QED
  BY <1>1, SpecKeepsInv, PTL

----------------------------------------------------------------------------
(* Acts that were allowed, and roles that are as said.  The seats a person *)
(* has had since they asked only grow, so what a step finds out about them *)
(* stays found out; what is still to be found out comes before the steps   *)
(* that rest on it.                                                        *)

Seated(c, l, need) == \E r \in Roles : r >= need /\ <<l, r>> \in seat[c]

OfOneList(c) == Busy(c) /\ Ask(c).deed \notin {"index", "join", "close"}

AllowedOrAsksFirst(c) ==
    /\ work[c].list = Ask(c).list /\ work[c].left \subseteq {Ask(c).list}
    /\ \/ Seated(c, Ask(c).list, RoleFor(Ask(c)))
       \/ Follows(work[c].plan, Acts, RoleFor(Ask(c)))
    /\ work[c].owner = Me(c) => <<Ask(c).list, Owner>> \in seat[c]

Says(c) == Busy(c) /\ Ask(c).deed \in {"index", "read"}

SaysWhatWasSeen(c) ==
    /\ work[c].plan[Len(work[c].plan)].do = "each"
    /\ \A l \in work[c].left : Seated(c, l, Viewer)
    /\ OnAPage(c) => Seated(c, work[c].list, Viewer)
    /\ \/ work[c].held \in Roles /\ <<work[c].list, work[c].held>> \in seat[c]
       \/ Follows(work[c].plan, {"say"}, Viewer)
    /\ \A l \in ListIds : work[c].said[l] # NoRole =>
          \E r \in Roles : <<l, r>> \in seat[c] /\ work[c].said[l] \in {r, Viewer}

Witnessed(c) ==
    /\ Busy(c) => SeatsOf(c) \subseteq seat[c]
    /\ OfOneList(c) => AllowedOrAsksFirst(c)
    /\ Says(c) => SaysWhatWasSeen(c)
    /\ ~Says(c) => \A l \in ListIds : work[c].said[l] = NoRole

SeatInv == \A c \in Callers : Witnessed(c)

LEMMA BecomesIs ==
    ASSUME Inv, NEW c \in Callers, NEW w, Becomes(c, w)
    PROVE  work'[c] = w /\ Others(c)
BY DEF Inv, MembershipTypeOK, Becomes, Others

LEMMA FollowsTail ==
    ASSUME NEW p \in Seq(Steps), p # <<>>, NEW what, NEW need, Follows(p, what, need),
           ~(p[1].do = "row" /\ p[1].need >= need)
    PROVE  Follows(Tail(p), what, need)
<1> DEFINE q == Tail(p)
<1>1. Len(p) = Len(q) + 1 /\ \A i \in 1..Len(q) : q[i] = p[i + 1]
  BY HeadAndTail
<1> HIDE DEF q
<1>2. Len(q) \in Nat
  BY HeadAndTail DEF q
<1>3. ASSUME NEW i \in 1..Len(q), q[i].do \in what
      PROVE  \E j \in 1..(i - 1) : q[j].do = "row" /\ q[j].need >= need
  <2>1. i + 1 \in 1..Len(p) /\ p[i + 1].do \in what
    BY <1>1, <1>2, <1>3
  <2>2. PICK j \in 1..i : p[j].do = "row" /\ p[j].need >= need
    BY <2>1 DEF Follows
  <2>3. j # 1
    BY <2>2
  <2>4. j - 1 \in 1..(i - 1) /\ q[j - 1] = p[j]
    BY <1>1, <1>2, <2>2, <2>3
  <2> QED
    BY <2>2, <2>4
<1> QED
  BY <1>3 DEF Follows, q

(* A first step has none before it.                                        *)
LEMMA FollowsNothing ==
    ASSUME NEW p \in Seq(Steps), p # <<>>, NEW what, NEW need, Follows(p, what, need)
    PROVE  p[1].do \notin what
<1>1. 1 \in 1..Len(p)
  BY HeadAndTail
<1> QED
  BY <1>1 DEF Follows

LEMMA RoleForIsARole ==
    ASSUME NEW asked
    PROVE  RoleFor(asked) \in {Viewer, Owner}
BY DEF RoleFor

LEMMA SeatOfTheOwner ==
    ASSUME Inv, NEW c \in Callers, Busy(c), NEW l \in ListIds, There(l), lists[l].owner = Me(c)
    PROVE  <<l, Owner>> \in SeatsOf(c)
BY DEF SeatsOf, PeopleOn, Roles, Viewer, Owner

LEMMA SeatOfAMember ==
    ASSUME Inv, NEW c \in Callers, Busy(c), NEW l \in ListIds, RowRole(l, Me(c)) # NoRole
    PROVE  <<l, RowRole(l, Me(c))>> \in SeatsOf(c) /\ RowRole(l, Me(c)) \in Roles
<1>1. Me(c) \in People
  BY AtStep
<1>2. /\ RowRole(l, Me(c)) \in Roles /\ Me(c) \in MembersOf(l)
  BY <1>1, RowRoleIsARole DEF Inv
<1>3. There(l)
  BY <1>1, <1>2 DEF Inv, MembershipTypeOK, MembersOf
<1>4. <<Me(c), RowRole(l, Me(c))>> \in PeopleOn(l)
  BY <1>2 DEF PeopleOn
<1> QED
  BY <1>2, <1>3, <1>4 DEF SeatsOf

LEMMA SeatsGrow ==
    ASSUME Remember, NEW c \in Callers, Busy(c)'
    PROVE  /\ SeatsOf(c)' \subseteq seat'[c]
           /\ Busy(c) => seat[c] \subseteq seat'[c]
<1>1. seat'[c] = IF Arrives(c) \/ ~Busy(c)' THEN SeatsOf(c)' ELSE seat[c] \cup SeatsOf(c)'
  BY DEF Remember
<1>2. Busy(c) => ~Arrives(c)
  BY DEF Arrives
<1> QED
  BY <1>1, <1>2

LEMMA OthersStayWitnessed ==
    ASSUME Remember, NEW c \in Callers, Witnessed(c), work'[c] = work[c]
    PROVE  Witnessed(c)'
<1>1. /\ Busy(c)' = Busy(c) /\ Ask(c)' = Ask(c) /\ Me(c)' = Me(c) /\ OnAPage(c)' = OnAPage(c)
      /\ OfOneList(c)' = OfOneList(c) /\ Says(c)' = Says(c)
  BY DEF Busy, Ask, Me, OnAPage, OfOneList, Says
<1>2. CASE ~Busy(c)
  BY <1>1, <1>2 DEF Witnessed, OfOneList, Says
<1>3. CASE Busy(c)
  <2>1. SeatsOf(c)' \subseteq seat'[c] /\ seat[c] \subseteq seat'[c]
    BY <1>1, <1>3, SeatsGrow
  <2>2. \A l, need : Seated(c, l, need) => Seated(c, l, need)'
    BY <2>1 DEF Seated
  <2>3. OfOneList(c) => AllowedOrAsksFirst(c)'
    BY <1>1, <2>1, <2>2 DEF Witnessed, AllowedOrAsksFirst
  <2>4. Says(c) => SaysWhatWasSeen(c)'
    <3> SUFFICES ASSUME Says(c) PROVE SaysWhatWasSeen(c)'
      OBVIOUS
    <3>1. SaysWhatWasSeen(c)
      BY DEF Witnessed
    <3>2. (\A l \in ListIds : work[c].said[l] # NoRole =>
            \E r \in Roles : <<l, r>> \in seat[c] /\ work[c].said[l] \in {r, Viewer})'
      BY <2>1, <3>1 DEF SaysWhatWasSeen
    <3> QED
      BY <1>1, <2>1, <2>2, <3>1, <3>2 DEF SaysWhatWasSeen
  <2>5. ~Says(c) => (\A l \in ListIds : work[c].said[l] = NoRole)'
    BY DEF Witnessed
  <2> QED
    BY <1>1, <2>1, <2>3, <2>4, <2>5 DEF Witnessed
<1> QED
  BY <1>2, <1>3

(* A request that is over, or is about no role at all.                     *)
LEMMA NothingToWitness ==
    ASSUME Remember, NEW c \in Callers,
           Busy(c)' => Ask(c)'.deed \in {"join", "close"},
           \A l \in ListIds : work'[c].said[l] = NoRole
    PROVE  Witnessed(c)'
<1>1. ~OfOneList(c)' /\ ~Says(c)'
  BY DEF OfOneList, Says
<1>2. Busy(c)' => SeatsOf(c)' \subseteq seat'[c]
  BY SeatsGrow
<1> QED
  BY <1>1, <1>2 DEF Witnessed

LEMMA OverIsWitnessed ==
    ASSUME Remember, NEW c \in Callers, work'[c] = NoWork
    PROVE  Witnessed(c)'
BY NothingToWitness DEF NoWork, Busy

(* A step taken, with what it found out.                                   *)
LEMMA AdvanceWitnessed ==
    ASSUME Inv, Remember, NEW c \in Callers, Busy(c), Witnessed(c),
           work'[c].plan = Rest(c), work'[c].asked = work[c].asked,
           work'[c].list = work[c].list, Head(work[c].plan).do # "each",
           OfOneList(c) =>
              /\ work'[c].left \subseteq {Ask(c).list}
              /\ work'[c].owner = Me(c) => <<Ask(c).list, Owner>> \in seat[c]
              /\ \/ Seated(c, Ask(c).list, RoleFor(Ask(c)))
                 \/ Head(work[c].plan).do # "row" \/ Head(work[c].plan).need < RoleFor(Ask(c)),
           Says(c) =>
              /\ \A l \in work'[c].left : Seated(c, l, Viewer)
              /\ \/ work'[c].held \in Roles /\ <<work[c].list, work'[c].held>> \in seat[c]
                 \/ work'[c].held = work[c].held /\ Head(work[c].plan).do # "row"
              /\ \A l \in ListIds : work'[c].said[l] # NoRole =>
                    \E r \in Roles : <<l, r>> \in seat[c] /\ work'[c].said[l] \in {r, Viewer},
           ~Says(c) => work'[c].said = work[c].said
    PROVE  Witnessed(c)'
<1> DEFINE p == work[c].plan
           q == Rest(c)
<1>0. /\ p \in Seq(Steps) /\ p # <<>> /\ Head(p) = p[1] /\ Len(p) > 0
      /\ q \in Seq(Steps) /\ q = Tail(p) /\ Len(q) = Len(p) - 1
      /\ \A i \in 1..Len(q) : q[i] = p[i + 1]
      /\ Ask(c) \in Asked /\ WellLaid(p, Ask(c).deed)
  BY AtStep DEF Rest, Busy
<1>1. Head(p).need \in Int
  <2>1. Head(p) \in Steps
    BY <1>0, HeadAndTail
  <2> HIDE DEF p
  <2> QED
    BY <2>1 DEF Steps, Roles, Viewer, Owner, NoRole
<1> HIDE DEF p, q
<1>2. /\ Busy(c)' <=> q # <<>>
      /\ Ask(c)' = Ask(c) /\ Me(c)' = Me(c)
      /\ OfOneList(c)' => OfOneList(c)
      /\ Says(c)' => Says(c)
  BY DEF Busy, Ask, Me, OfOneList, Says, q
<1>3. Busy(c)' => SeatsOf(c)' \subseteq seat'[c] /\ seat[c] \subseteq seat'[c]
  BY SeatsGrow
<1>4. ASSUME OfOneList(c)'
      PROVE  AllowedOrAsksFirst(c)'
  <2>1. Busy(c)' /\ OfOneList(c) /\ AllowedOrAsksFirst(c)
    BY <1>2, <1>4 DEF Witnessed, OfOneList
  <2>2. \A need : Seated(c, Ask(c).list, need) => Seated(c, Ask(c).list, need)'
    BY <1>2, <1>3, <2>1 DEF Seated
  <2>3. Seated(c, Ask(c).list, RoleFor(Ask(c))) \/ Follows(q, Acts, RoleFor(Ask(c)))
    <3>1. CASE Follows(p, Acts, RoleFor(Ask(c))) /\ ~(p[1].do = "row" /\ p[1].need >= RoleFor(Ask(c)))
      BY <1>0, <3>1, FollowsTail
    <3>2. RoleFor(Ask(c)) \in Int
      BY RoleForIsARole DEF Viewer, Owner
    <3> QED
      BY <1>0, <1>1, <2>1, <3>1, <3>2 DEF AllowedOrAsksFirst, p
  <2>4. RoleFor(Ask(c))' = RoleFor(Ask(c))
    BY <1>2 DEF RoleFor
  <2> QED
    BY <1>2, <1>3, <2>1, <2>2, <2>3, <2>4 DEF AllowedOrAsksFirst, q
<1>5. ASSUME Says(c)'
      PROVE  SaysWhatWasSeen(c)'
  <2>1. Busy(c)' /\ Says(c) /\ SaysWhatWasSeen(c) /\ seat[c] \subseteq seat'[c]
    BY <1>2, <1>3, <1>5 DEF Witnessed, Says
  <2>2. \A l, need : Seated(c, l, need) => Seated(c, l, need)'
    BY <2>1 DEF Seated
  <2>3. Len(q) > 0 /\ q[Len(q)].do = "each"
    <3>1. Len(q) > 0 /\ Len(q) \in 1..Len(q)
      BY <1>0, <1>2, <2>1
    <3> QED
      BY <1>0, <2>1, <3>1 DEF SaysWhatWasSeen, p
  <2>4. OnAPage(c)' => OnAPage(c)
    <3>1. \A i \in DOMAIN q : i + 1 \in DOMAIN p /\ q[i] = p[i + 1]
      BY <1>0
    <3> QED
      BY <3>1 DEF OnAPage, p, q
  <2>5. \/ work'[c].held \in Roles /\ <<work[c].list, work'[c].held>> \in seat[c]
        \/ Follows(q, {"say"}, Viewer)
    <3>1. CASE Follows(p, {"say"}, Viewer) /\ p[1].do # "row"
      BY <1>0, <3>1, FollowsTail
    <3> QED
      BY <1>0, <2>1, <3>1 DEF SaysWhatWasSeen, p
  <2>6. (\A l \in ListIds : work[c].said[l] # NoRole =>
            \E r \in Roles : <<l, r>> \in seat[c] /\ work[c].said[l] \in {r, Viewer})'
    BY <2>1
  <2>7. (\A l \in work[c].left : Seated(c, l, Viewer))'
    BY <2>1, <2>2
  <2>8. (OnAPage(c) => Seated(c, work[c].list, Viewer))'
    BY <2>1, <2>2, <2>4 DEF SaysWhatWasSeen
  <2>9. (\/ work[c].held \in Roles /\ <<work[c].list, work[c].held>> \in seat[c]
         \/ Follows(work[c].plan, {"say"}, Viewer))'
    BY <2>1, <2>5 DEF q
  <2>10. (work[c].plan[Len(work[c].plan)].do = "each")'
    BY <2>3 DEF q
  <2> QED
    BY <2>6, <2>7, <2>8, <2>9, <2>10 DEF SaysWhatWasSeen
<1>6. ASSUME ~Says(c)'
      PROVE  (\A l \in ListIds : work[c].said[l] = NoRole)'
  <2>1. ~Says(c)
    <3> SUFFICES ASSUME Says(c) PROVE FALSE
      OBVIOUS
    <3>1. p[Len(p)].do = "each" /\ p[1].do # "each"
      BY <1>0 DEF Witnessed, SaysWhatWasSeen, p
    <3>2. q # <<>>
      <4>1. Len(p) # 1
        BY <3>1
      <4>2. Len(p) \in Nat /\ Len(q) # 0
        BY <1>0, <4>1
      <4> QED
        BY <4>2
    <3> QED
      BY <1>2, <1>6, <3>2 DEF Says
  <2> QED
    BY <2>1 DEF Witnessed
<1> QED
  BY <1>3, <1>4, <1>5, <1>6 DEF Witnessed

(* A list that has gone is said to be one they may look at.                *)
LEMMA TurnedWitnessed ==
    ASSUME Inv, Remember, NEW c \in Callers, Busy(c), Witnessed(c), Turned(c)
    PROVE  Witnessed(c)'
<1>1. CASE work'[c] = NoWork
  BY <1>1, OverIsWitnessed
<1>2. CASE /\ OnAPage(c)
           /\ work'[c] = [work[c] EXCEPT !.said[work[c].list] = Viewer,
                                         !.plan = <<Do("each")>>]
  <2>1. work[c] \in Workings /\ Says(c) /\ SaysWhatWasSeen(c)
    BY <1>2, AtStep, SaysOnAPage DEF Says, Witnessed
  <2> DEFINE e == <<Do("each")>>
  <2>2. /\ work'[c].plan = e /\ Ask(c)' = Ask(c) /\ Me(c)' = Me(c)
        /\ work'[c].list = work[c].list /\ work'[c].left = work[c].left
        /\ work'[c].owner = work[c].owner /\ work'[c].held = work[c].held
        /\ \A l \in ListIds : work'[c].said[l] =
              IF l = work[c].list THEN Viewer ELSE work[c].said[l]
    BY <1>2, <2>1 DEF Workings, Ask, Me
  <2>3. e \in Seq(Steps) /\ Len(e) = 1 /\ e[1].do = "each" /\ e # <<>>
    BY DEF Do, Steps, NoRole
  <2> HIDE DEF e
  <2>4. Busy(c)' /\ Says(c)' /\ (OfOneList(c)' => OfOneList(c)) /\ ~OnAPage(c)'
    BY <2>1, <2>2, <2>3 DEF Busy, Says, OfOneList, OnAPage
  <2>5. SeatsOf(c)' \subseteq seat'[c] /\ seat[c] \subseteq seat'[c]
    BY <2>4, SeatsGrow
  <2>6. \A l, need : Seated(c, l, need) => Seated(c, l, need)'
    BY <2>5 DEF Seated
  <2>7. Follows(e, {"say"}, Viewer) /\ \A need : Follows(e, Acts, need)
    BY <2>3 DEF Follows, Acts
  <2>8. OfOneList(c)' => AllowedOrAsksFirst(c)'
    BY <2>2, <2>4, <2>5, <2>7 DEF AllowedOrAsksFirst, Witnessed
  <2>9. Seated(c, work[c].list, Viewer)
    BY <1>2, <2>1 DEF SaysWhatWasSeen
  <2>10. ASSUME NEW l \in ListIds, work'[c].said[l] # NoRole
         PROVE  \E r \in Roles : <<l, r>> \in seat'[c] /\ work'[c].said[l] \in {r, Viewer}
    <3>1. CASE l = work[c].list
      BY <2>2, <2>5, <2>9, <3>1 DEF Seated
    <3>2. CASE l # work[c].list
      BY <2>1, <2>2, <2>5, <2>10, <3>2 DEF SaysWhatWasSeen
    <3> QED
      BY <3>1, <3>2
  <2>11. (\A l \in ListIds : work[c].said[l] # NoRole =>
            \E r \in Roles : <<l, r>> \in seat[c] /\ work[c].said[l] \in {r, Viewer})'
    BY <2>10
  <2>12. SaysWhatWasSeen(c)'
    BY <2>1, <2>2, <2>3, <2>4, <2>6, <2>7, <2>11 DEF SaysWhatWasSeen
  <2> QED
    BY <2>4, <2>5, <2>8, <2>12 DEF Witnessed
<1> QED
  BY <1>1, <1>2, TurnedMoves

LEMMA LastOfJoined ==
    ASSUME NEW s \in Seq(Steps), NEW t \in Seq(Steps), Len(t) > 0
    PROVE  (s \o t)[Len(s \o t)] = t[Len(t)]
<1>1. Len(t) \in 1..Len(t)
  OBVIOUS
<1> QED
  BY <1>1, Joined

LEMMA PlansEndWithEach ==
    ASSUME NEW asked, asked.deed \in {"index", "read"}
    PROVE  PlanOf(asked)[Len(PlanOf(asked))].do = "each"
<1>1. CASE asked.deed = "index"
  <2>1. PlanOf(asked) = <<Do("index"), Do("each")>>
    BY <1>1 DEF PlanOf, IndexPlan
  <2> QED
    BY <2>1 DEF Do
<1>2. CASE asked.deed = "read"
  <2> DEFINE t == <<Do("read"), Do("each")>>
  <2>1. PlanOf(asked) = Door(Viewer) \o t
    BY <1>2 DEF PlanOf, ReadPlan
  <2>2. t \in Seq(Steps) /\ Len(t) = 2 /\ t[2].do = "each"
    BY DEF Do, Steps, NoRole
  <2>3. Door(Viewer) \in Seq(Steps)
    BY DoorOpens DEF Opens, Roles, Viewer, Owner
  <2> HIDE DEF t
  <2>4. Len(t) > 0 /\ t[Len(t)].do = "each"
    BY <2>2
  <2> QED
    BY <2>1, <2>2, <2>3, <2>4, LastOfJoined
<1> QED
  BY <1>1, <1>2

LEMMA ArriveWitnessed ==
    ASSUME Inv, Remember, NEW c \in Callers, Arrive(c)
    PROVE  Witnessed(c)'
<1>1. PICK asked \in Requests :
        Becomes(c, [NoWork EXCEPT !.asked = asked, !.plan = PlanOf(asked), !.list = asked.list])
  BY DEF Arrive
<1> DEFINE p == PlanOf(asked)
<1>2. asked \in Asked
  BY MembershipAssumption DEF MembershipAssumption
<1>3. Guarded(p, asked)
  BY <1>2, PlansAreGuarded
<1>4. asked.deed \in {"index", "read"} => p[Len(p)].do = "each"
  BY PlansEndWithEach
<1> HIDE DEF p
<1>5. work'[c] = [NoWork EXCEPT !.asked = asked, !.plan = p, !.list = asked.list]
  BY <1>1, BecomesIs DEF p
<1>6. /\ work'[c].asked = asked /\ work'[c].plan = p /\ work'[c].list = asked.list
      /\ work'[c].owner = None /\ work'[c].left = {}
      /\ \A l \in ListIds : work'[c].said[l] = NoRole
  BY <1>5 DEF NoWork
<1>7. Busy(c)' /\ Ask(c)' = asked /\ Me(c)' = asked.by /\ asked.by \in People
  BY <1>2, <1>3, <1>6 DEF Busy, Ask, Me, Guarded, Asked
<1>8. Follows(p, Acts, RoleFor(asked)) /\ Follows(p, {"say"}, Viewer) /\ ~OnAPage(c)'
  <2>1. p \in Seq(Steps) /\ Only(p, {"find", "owner", "row", "not_owner", "create", "index", "each",
                            "claim", "decide", "owned", "heir", "leave"} \cup Acts)
    BY <1>3 DEF Guarded
  <2>2. \A i \in 1..Len(p) : p[i].do # "say"
    BY <2>1 DEF Only, Acts
  <2>3. ~OnAPage(c)'
    BY <1>6, <2>1, <2>2 DEF OnAPage
  <2> QED
    BY <1>3, <2>2, <2>3 DEF Guarded, Follows
<1>9. SeatsOf(c)' \subseteq seat'[c]
  BY <1>7, SeatsGrow
<1>10. AllowedOrAsksFirst(c)'
  <2>1. None \notin People
    BY MembershipAssumption DEF MembershipAssumption
  <2> QED
    BY <1>6, <1>7, <1>8, <2>1 DEF AllowedOrAsksFirst
<1>11. Says(c)' => SaysWhatWasSeen(c)'
  BY <1>4, <1>6, <1>7, <1>8 DEF SaysWhatWasSeen, Says
<1>12. (\A l \in ListIds : work[c].said[l] = NoRole)'
  BY <1>6
<1> QED
  BY <1>9, <1>10, <1>11, <1>12 DEF Witnessed

LEMMA FindWitnessed ==
    ASSUME Inv, Remember, NEW c \in Callers, Witnessed(c), Find(c)
    PROVE  Witnessed(c)'
<1> DEFINE l == work[c].list
<1>0. Busy(c) /\ Head(work[c].plan).do = "find" /\ work[c] \in Workings /\ l \in ListIds
  BY AtStep DEF Find, At, Workings
<1>1. CASE ~There(l)
  BY <1>0, <1>1, TurnedWitnessed DEF Find
<1>2. CASE There(l)
  <2>1. work'[c] = [work[c] EXCEPT !.owner = lists[l].owner, !.plan = Rest(c)]
    BY <1>2, BecomesIs DEF Find
  <2>2. /\ work'[c].plan = Rest(c) /\ work'[c].asked = work[c].asked
        /\ work'[c].list = work[c].list /\ work'[c].left = work[c].left
        /\ work'[c].held = work[c].held /\ work'[c].said = work[c].said
        /\ work'[c].owner = lists[l].owner
    BY <1>0, <2>1 DEF Workings
  <2>3. lists[l].owner = Me(c) => <<l, Owner>> \in seat[c]
    BY <1>0, <1>2, SeatOfTheOwner DEF Witnessed
  <2>4. OfOneList(c) => l = Ask(c).list /\ work[c].left \subseteq {Ask(c).list}
    BY DEF Witnessed, AllowedOrAsksFirst
  <2>5. Says(c) => SaysWhatWasSeen(c)
    BY DEF Witnessed
  <2>6. Says(c) =>
          /\ \A m \in work'[c].left : Seated(c, m, Viewer)
          /\ work'[c].held = work[c].held /\ Head(work[c].plan).do # "row"
          /\ \A m \in ListIds : work'[c].said[m] # NoRole =>
                \E r \in Roles : <<m, r>> \in seat[c] /\ work'[c].said[m] \in {r, Viewer}
    BY <1>0, <2>2, <2>5 DEF SaysWhatWasSeen
  <2> QED
    BY <1>0, <2>2, <2>3, <2>4, <2>6, AdvanceWitnessed
<1> QED
  BY <1>1, <1>2

LEMMA IsOwnerWitnessed ==
    ASSUME Inv, Remember, NEW c \in Callers, Witnessed(c), IsOwner(c)
    PROVE  Witnessed(c)'
<1> DEFINE l == work[c].list
<1>0. /\ Busy(c) /\ Head(work[c].plan).do = "owner" /\ work[c] \in Workings /\ l \in ListIds
      /\ Says(c) => SaysWhatWasSeen(c)
      /\ OfOneList(c) => AllowedOrAsksFirst(c)
  BY AtStep DEF IsOwner, At, Workings, Witnessed
<1>1. CASE ~(There(l) /\ lists[l].owner = Me(c))
  <2>1. work'[c] = [work[c] EXCEPT !.plan = Rest(c)]
    BY <1>0, <1>1, ContinueMoves DEF IsOwner
  <2>2. /\ work'[c].plan = Rest(c) /\ work'[c].asked = work[c].asked
        /\ work'[c].list = work[c].list /\ work'[c].left = work[c].left
        /\ work'[c].held = work[c].held /\ work'[c].said = work[c].said
        /\ work'[c].owner = work[c].owner
    BY <1>0, <2>1 DEF Workings
  <2>3. OfOneList(c) => work[c].left \subseteq {Ask(c).list} /\ (work[c].owner = Me(c) => <<Ask(c).list, Owner>> \in seat[c])
    BY <1>0 DEF AllowedOrAsksFirst
  <2>6. Says(c) =>
          /\ \A m \in work'[c].left : Seated(c, m, Viewer)
          /\ work'[c].held = work[c].held /\ Head(work[c].plan).do # "row"
          /\ \A m \in ListIds : work'[c].said[m] # NoRole =>
                \E r \in Roles : <<m, r>> \in seat[c] /\ work'[c].said[m] \in {r, Viewer}
    BY <1>0, <2>2 DEF SaysWhatWasSeen
  <2> QED
    BY <1>0, <2>2, <2>3, <2>6, AdvanceWitnessed
<1>2. CASE There(l) /\ lists[l].owner = Me(c)
  <2> DEFINE p == work[c].plan
             q == Tail(Rest(c))
  <2>1. work'[c] = [work[c] EXCEPT !.held = Owner, !.plan = q]
    BY <1>2, BecomesIs DEF IsOwner
  <2>2. /\ Rest(c) \in Seq(Steps) /\ Rest(c) # <<>> /\ Len(Rest(c)) = Len(p) - 1
        /\ \A i \in 1..Len(Rest(c)) : Rest(c)[i] = p[i + 1]
        /\ p \in Seq(Steps) /\ Len(p) >= 2 /\ p[1].do = "owner" /\ p[2].do = "row"
    BY <1>0, AtStep DEF WellLaid, Paired
  <2>3. /\ q \in Seq(Steps) /\ Len(q) = Len(p) - 2
        /\ \A i \in 1..Len(q) : q[i] = p[i + 2]
    <3> DEFINE r == Rest(c)
    <3>1. r \in Seq(Steps) /\ r # <<>> /\ Len(r) = Len(p) - 1 /\ \A i \in 1..Len(r) : r[i] = p[i + 1]
      BY <2>2
    <3> HIDE DEF r, p
    <3>2. /\ Tail(r) \in Seq(Steps) /\ Len(Tail(r)) = Len(r) - 1
          /\ \A i \in 1..Len(Tail(r)) : Tail(r)[i] = r[i + 1]
      BY <3>1, HeadAndTail
    <3>3. Len(Tail(r)) = Len(p) - 2 /\ \A i \in 1..Len(Tail(r)) : Tail(r)[i] = p[i + 2]
      <4>1. Len(p) \in Nat /\ Len(r) \in Nat
        BY <2>2, <3>1 DEF p
      <4>2. Len(Tail(r)) = Len(p) - 2
        BY <3>1, <3>2, <4>1
      <4>3. ASSUME NEW i \in 1..Len(Tail(r)) PROVE Tail(r)[i] = p[i + 2]
        <5>1. i + 1 \in 1..Len(r) /\ Tail(r)[i] = r[i + 1]
          BY <3>1, <3>2, <4>1
        <5>2. r[i + 1] = p[(i + 1) + 1] /\ (i + 1) + 1 = i + 2
          BY <3>1, <5>1
        <5> QED
          BY <5>1, <5>2
      <4> QED
        BY <4>2, <4>3
    <3> QED
      BY <3>2, <3>3 DEF r
  <2>4. /\ work'[c].plan = q /\ work'[c].asked = work[c].asked
        /\ work'[c].list = work[c].list /\ work'[c].left = work[c].left
        /\ work'[c].held = Owner /\ work'[c].said = work[c].said
        /\ work'[c].owner = work[c].owner
    BY <1>0, <2>1 DEF Workings
  <2> HIDE DEF q, p
  <2>5. <<l, Owner>> \in seat[c] /\ Owner \in Roles
    BY <1>0, <1>2, SeatOfTheOwner DEF Witnessed, Roles, Viewer, Owner
  <2>6. /\ Ask(c)' = Ask(c) /\ Me(c)' = Me(c)
        /\ OfOneList(c)' => OfOneList(c) /\ Busy(c)'
        /\ Says(c)' => Says(c) /\ Busy(c)'
        /\ Busy(c)' <=> q # <<>>
    BY <1>0, <2>4 DEF Ask, Me, OfOneList, Says, Busy
  <2>7. Busy(c)' => SeatsOf(c)' \subseteq seat'[c] /\ seat[c] \subseteq seat'[c]
    BY <1>0, SeatsGrow
  <2>8. OfOneList(c)' => AllowedOrAsksFirst(c)'
    <3> SUFFICES ASSUME OfOneList(c)' PROVE AllowedOrAsksFirst(c)'
      OBVIOUS
    <3>1. AllowedOrAsksFirst(c) /\ seat[c] \subseteq seat'[c]
      BY <1>0, <2>6, <2>7
    <3>2. RoleFor(Ask(c)) <= Owner
      BY RoleForIsARole DEF Viewer, Owner
    <3>3. Seated(c, Ask(c).list, RoleFor(Ask(c)))'
      BY <2>5, <2>6, <3>1, <3>2 DEF Seated, AllowedOrAsksFirst, RoleFor, Owner
    <3> QED
      BY <2>4, <2>6, <3>1, <3>3 DEF AllowedOrAsksFirst
  <2>9. Says(c)' => SaysWhatWasSeen(c)'
    <3> SUFFICES ASSUME Says(c)' PROVE SaysWhatWasSeen(c)'
      OBVIOUS
    <3>1. SaysWhatWasSeen(c) /\ seat[c] \subseteq seat'[c]
      BY <1>0, <2>6, <2>7
    <3>2. OnAPage(c)' => OnAPage(c)
      <4>1. \A i \in DOMAIN q : i + 2 \in DOMAIN p /\ q[i] = p[i + 2]
        BY <2>2, <2>3
      <4> QED
        BY <2>4, <4>1 DEF OnAPage, p
    <3>3. q[Len(q)].do = "each"
      <4>1. Len(q) > 0 /\ Len(q) \in 1..Len(q)
        BY <2>2, <2>3, <2>6
      <4> QED
        BY <2>2, <2>3, <3>1, <4>1, SMTT(60) DEF SaysWhatWasSeen, p
    <3>4. (\A m \in work[c].left : Seated(c, m, Viewer))'
      BY <2>4, <3>1 DEF SaysWhatWasSeen, Seated
    <3>5. (OnAPage(c) => Seated(c, work[c].list, Viewer))'
      BY <2>4, <3>1, <3>2 DEF SaysWhatWasSeen, Seated
    <3>6. (\A m \in ListIds : work[c].said[m] # NoRole =>
            \E r \in Roles : <<m, r>> \in seat[c] /\ work[c].said[m] \in {r, Viewer})'
      BY <2>4, <3>1 DEF SaysWhatWasSeen
    <3> QED
      BY <2>4, <2>5, <3>1, <3>3, <3>4, <3>5, <3>6 DEF SaysWhatWasSeen
  <2>10. ~Says(c)' => (\A m \in ListIds : work[c].said[m] = NoRole)'
    <3> SUFFICES ASSUME ~Says(c)', Says(c) PROVE FALSE
      BY <2>4 DEF Witnessed
    <3>1. p[Len(p)].do = "each"
      BY <1>0 DEF SaysWhatWasSeen, p
    <3>2. Len(p) # 2
      BY <2>2, <3>1
    <3>3. Len(p) \in Nat /\ Len(q) # 0
      BY <2>2, <2>3, <3>2
    <3>4. q # <<>>
      BY <3>3
    <3> QED
      BY <2>4, <2>6, <3>4 DEF Says, Busy, Ask
  <2> QED
    BY <2>7, <2>8, <2>9, <2>10 DEF Witnessed
<1> QED
  BY <1>1, <1>2

LEMMA HasRowWitnessed ==
    ASSUME Inv, Remember, NEW c \in Callers, Witnessed(c), HasRow(c)
    PROVE  Witnessed(c)'
<1> DEFINE l == work[c].list
           held == RowRole(l, Me(c))
<1>0. /\ Busy(c) /\ Head(work[c].plan).do = "row" /\ work[c] \in Workings /\ l \in ListIds
      /\ Me(c) \in People
      /\ Says(c) => SaysWhatWasSeen(c)
      /\ OfOneList(c) => AllowedOrAsksFirst(c)
  BY AtStep DEF HasRow, At, Workings, Witnessed
<1>1. CASE ~Enough(c, held)
  BY <1>0, <1>1, TurnedWitnessed DEF HasRow
<1>2. CASE Enough(c, held)
  <2>1. work'[c] = [work[c] EXCEPT !.held = held, !.plan = Rest(c)]
    BY <1>2, BecomesIs DEF HasRow
  <2>2. /\ work'[c].plan = Rest(c) /\ work'[c].asked = work[c].asked
        /\ work'[c].list = work[c].list /\ work'[c].left = work[c].left
        /\ work'[c].held = held /\ work'[c].said = work[c].said
        /\ work'[c].owner = work[c].owner
    BY <1>0, <2>1 DEF Workings
  <2>3. held >= Need(c) /\ held \in Roles \cup {NoRole}
    BY <1>0, <1>2, RowRoleIsARole DEF Enough, Inv
  <2>4. held # NoRole => held \in Roles /\ <<l, held>> \in seat[c]
    BY <1>0, SeatOfAMember DEF Witnessed
  <2>5. Need(c) \in Int
    <3>1. Head(work[c].plan) \in Steps
      BY <1>0, AtStep, HeadAndTail
    <3> QED
      BY <3>1 DEF Need, Steps, Roles, Viewer, Owner, NoRole
  <2> HIDE DEF held
  <2>6. ASSUME OfOneList(c)
        PROVE  \/ Seated(c, Ask(c).list, RoleFor(Ask(c)))
               \/ Head(work[c].plan).need < RoleFor(Ask(c))
    <3>1. l = Ask(c).list
      BY <1>0, <2>6 DEF AllowedOrAsksFirst
    <3>2. RoleFor(Ask(c)) \in {1, 3}
      BY RoleForIsARole DEF Viewer, Owner
    <3>3. CASE Need(c) >= RoleFor(Ask(c))
      <4>1. held >= RoleFor(Ask(c)) /\ held # NoRole
        BY <2>3, <2>5, <3>2, <3>3 DEF Roles, Viewer, Owner, NoRole
      <4> QED
        BY <2>4, <3>1, <4>1 DEF Seated
    <3> QED
      BY <2>5, <3>2, <3>3 DEF Need
  <2>7. ASSUME Says(c)
        PROVE  held \in Roles /\ <<l, held>> \in seat[c]
    <3>1. Need(c) >= Viewer
      <4>1. /\ work[c].plan[1].do = "row" /\ 1 \in 1..Len(work[c].plan)
            /\ work[c].plan[1] = Head(work[c].plan)
            /\ WellLaid(work[c].plan, Ask(c).deed) /\ Ask(c).deed # "join"
        BY <1>0, <2>7, AtStep DEF Says
      <4> QED
        BY <4>1 DEF WellLaid, Need
    <3>2. held # NoRole
      BY <2>3, <2>5, <3>1 DEF Viewer, NoRole, Roles, Owner
    <3> QED
      BY <2>4, <3>2
  <2>8. OfOneList(c) => /\ work[c].left \subseteq {Ask(c).list}
                        /\ work[c].owner = Me(c) => <<Ask(c).list, Owner>> \in seat[c]
    BY <1>0 DEF AllowedOrAsksFirst
  <2>9. Says(c) =>
          /\ \A m \in work'[c].left : Seated(c, m, Viewer)
          /\ \A m \in ListIds : work'[c].said[m] # NoRole =>
                \E r \in Roles : <<m, r>> \in seat[c] /\ work'[c].said[m] \in {r, Viewer}
    BY <1>0, <2>2 DEF SaysWhatWasSeen
  <2> QED
    BY <1>0, <2>2, <2>6, <2>7, <2>8, <2>9, AdvanceWitnessed
<1> QED
  BY <1>1, <1>2

LEMMA ReadsWitnessed ==
    ASSUME Inv, Remember, NEW c \in Callers, Witnessed(c), Index(c) \/ Read(c) \/ Say(c)
    PROVE  Witnessed(c)'
<1>0. /\ Busy(c) /\ work[c] \in Workings /\ work[c].list \in ListIds /\ Me(c) \in People
      /\ Says(c) => SaysWhatWasSeen(c)
      /\ OfOneList(c) => AllowedOrAsksFirst(c)
      /\ SeatsOf(c) \subseteq seat[c]
  BY AtStep DEF Index, Read, Say, At, Workings, Witnessed
<1>1. CASE Index(c)
  <2> DEFINE page == VisibleTo(Me(c))
             left == page \ OwnedBy(Me(c))
             said == [l \in ListIds |-> IF l \in page \cap OwnedBy(Me(c)) THEN Owner ELSE NoRole]
  <2>1. Head(work[c].plan).do = "index" /\ Ask(c).deed = "index"
    BY <1>0, <1>1, SuitsAtHead DEF Index, At
  <2>2. work'[c] = [work[c] EXCEPT !.left = left, !.plan = Rest(c), !.said = said]
    BY <1>1, BecomesIs DEF Index, Page
  <2>3. ASSUME NEW l \in left
        PROVE  Seated(c, l, Viewer)
    <3>1. l \in ListIds /\ Me(c) \in MembersOf(l)
      BY <2>3 DEF VisibleTo, OwnedBy
    <3>2. RowRole(l, Me(c)) # NoRole
      BY <1>0, <3>1, RowRoleIsARole DEF Inv
    <3>3. <<l, RowRole(l, Me(c))>> \in seat[c] /\ RowRole(l, Me(c)) \in Roles
      BY <1>0, <3>1, <3>2, SeatOfAMember
    <3> QED
      BY <3>3 DEF Seated, Roles, Viewer, Owner
  <2>4. ASSUME NEW l \in ListIds, said[l] # NoRole
        PROVE  said[l] = Owner /\ <<l, Owner>> \in seat[c] /\ Owner \in Roles
    <3>1. There(l) /\ lists[l].owner = Me(c) /\ said[l] = Owner
      BY <2>4 DEF OwnedBy
    <3> QED
      BY <1>0, <3>1, SeatOfTheOwner DEF Roles, Viewer, Owner
  <2> HIDE DEF left, said
  <2>5. /\ work'[c].plan = Rest(c) /\ work'[c].asked = work[c].asked
        /\ work'[c].list = work[c].list /\ work'[c].left = left
        /\ work'[c].held = work[c].held /\ work'[c].said = said
        /\ work'[c].owner = work[c].owner
    BY <1>0, <2>2 DEF Workings
  <2>6. ~OfOneList(c) /\ Says(c)
    BY <1>0, <2>1 DEF OfOneList, Says
  <2> QED
    BY <1>0, <2>1, <2>3, <2>4, <2>5, <2>6, AdvanceWitnessed
<1>2. CASE Read(c)
  <2> DEFINE l == work[c].list
             mine == work[c].owner = Me(c)
             left == IF mine THEN {} ELSE {l}
             said == [work[c].said EXCEPT ![l] = IF mine THEN Owner ELSE NoRole]
  <2>1. Head(work[c].plan).do = "read" /\ Ask(c).deed = "read"
    BY <1>0, <1>2, SuitsAtHead DEF Read, At
  <2>2. work'[c] = [work[c] EXCEPT !.plan = Rest(c), !.left = left, !.said = said]
    BY <1>2, BecomesIs DEF Read
  <2>3. OfOneList(c) /\ AllowedOrAsksFirst(c) /\ Says(c) /\ SaysWhatWasSeen(c)
    BY <1>0, <2>1 DEF OfOneList, Says
  <2>4. l = Ask(c).list /\ Seated(c, l, Viewer) /\ (mine => <<l, Owner>> \in seat[c])
    <3>1. ~Follows(work[c].plan, Acts, RoleFor(Ask(c)))
      BY <1>0, <2>1, AtStep, FollowsNothing DEF Acts, Busy
    <3>2. RoleFor(Ask(c)) = Viewer
      BY <2>1 DEF RoleFor
    <3> QED
      BY <2>3, <3>1, <3>2 DEF AllowedOrAsksFirst
  <2>5. ASSUME NEW m \in ListIds, said[m] # NoRole
        PROVE  \E r \in Roles : <<m, r>> \in seat[c] /\ said[m] \in {r, Viewer}
    <3>1. Owner \in Roles /\ work[c].said \in [ListIds -> Roles \cup {NoRole}]
      BY <1>0 DEF Roles, Viewer, Owner, Workings
    <3>2. CASE m = l
      BY <2>4, <2>5, <3>1, <3>2
    <3>3. CASE m # l
      BY <2>3, <2>5, <3>1, <3>3 DEF SaysWhatWasSeen
    <3> QED
      BY <3>2, <3>3
  <2>6. left \subseteq {l}
    OBVIOUS
  <2> HIDE DEF left, said
  <2>7. /\ work'[c].plan = Rest(c) /\ work'[c].asked = work[c].asked
        /\ work'[c].list = work[c].list /\ work'[c].left = left
        /\ work'[c].held = work[c].held /\ work'[c].said = said
        /\ work'[c].owner = work[c].owner
    BY <1>0, <2>2 DEF Workings
  <2> QED
    BY <1>0, <2>1, <2>3, <2>4, <2>5, <2>6, <2>7, AdvanceWitnessed DEF AllowedOrAsksFirst
<1>3. CASE Say(c)
  <2> DEFINE l == work[c].list
             said == [work[c].said EXCEPT ![l] = work[c].held]
  <2>1. Head(work[c].plan).do = "say" /\ Ask(c).deed \in {"index", "read"}
    BY <1>0, <1>3, SuitsAtHead DEF Say, At
  <2>2. work'[c] = [work[c] EXCEPT !.plan = Rest(c), !.said = said]
    BY <1>3, BecomesIs DEF Say
  <2>3. Says(c) /\ SaysWhatWasSeen(c)
    BY <1>0, <2>1 DEF Says
  <2>4. work[c].held \in Roles /\ <<l, work[c].held>> \in seat[c]
    <3>1. ~Follows(work[c].plan, {"say"}, Viewer)
      BY <1>0, <2>1, AtStep, FollowsNothing DEF Busy
    <3> QED
      BY <2>3, <3>1 DEF SaysWhatWasSeen
  <2>5. ASSUME NEW m \in ListIds, said[m] # NoRole
        PROVE  \E r \in Roles : <<m, r>> \in seat[c] /\ said[m] \in {r, Viewer}
    <3>1. work[c].said \in [ListIds -> Roles \cup {NoRole}]
      BY <1>0 DEF Workings
    <3>2. CASE m = l
      BY <2>4, <2>5, <3>1, <3>2
    <3>3. CASE m # l
      BY <2>3, <2>5, <3>1, <3>3 DEF SaysWhatWasSeen
    <3> QED
      BY <3>2, <3>3
  <2> HIDE DEF said
  <2>6. /\ work'[c].plan = Rest(c) /\ work'[c].asked = work[c].asked
        /\ work'[c].list = work[c].list /\ work'[c].left = work[c].left
        /\ work'[c].held = work[c].held /\ work'[c].said = said
        /\ work'[c].owner = work[c].owner
    BY <1>0, <2>2 DEF Workings
  <2>7. /\ \A m \in work'[c].left : Seated(c, m, Viewer)
        /\ work'[c].held = work[c].held /\ Head(work[c].plan).do # "row"
    BY <2>1, <2>3, <2>6 DEF SaysWhatWasSeen
  <2>8. OfOneList(c) => /\ work'[c].left \subseteq {Ask(c).list}
                        /\ work'[c].owner = Me(c) => <<Ask(c).list, Owner>> \in seat[c]
    BY <1>0, <2>6 DEF AllowedOrAsksFirst
  <2> QED
    BY <1>0, <2>1, <2>3, <2>5, <2>6, <2>7, <2>8, AdvanceWitnessed
<1> QED
  BY <1>1, <1>2, <1>3

LEMMA EachWitnessed ==
    ASSUME Inv, Remember, NEW c \in Callers, Witnessed(c), Each(c)
    PROVE  Witnessed(c)'
<1>0. /\ Busy(c) /\ Only(work[c].plan, {"each"}) /\ Len(work[c].plan) = 1
      /\ Ask(c).deed \in {"index", "read"}
      /\ Says(c) /\ SaysWhatWasSeen(c) /\ work[c] \in Workings
      /\ OfOneList(c) => AllowedOrAsksFirst(c)
  BY AtEach, AtStep DEF Says, Witnessed
<1>1. CASE work[c].left = {}
  <2>1. work'[c] = NoWork
    BY <1>1, FinishMoves DEF Each
  <2> QED
    BY <2>1, OverIsWitnessed
<1>2. CASE work[c].left # {}
  <2> DEFINE p == work[c].plan
             q == AskRole \o <<Do("say")>> \o p
  <2>1. PICK l \in work[c].left :
          Becomes(c, [work[c] EXCEPT !.list = l, !.left = @ \ {l}, !.plan = q])
    BY <1>2 DEF Each
  <2>2. work'[c] = [work[c] EXCEPT !.list = l, !.left = @ \ {l}, !.plan = q]
    BY <2>1, BecomesIs
  <2>3. /\ q \in Seq(Steps) /\ Only(q, Looks \cup {"say", "each"}) /\ Len(q) > 0
        /\ q[Len(q)].do = "each" /\ Follows(q, {"say"}, Viewer)
    <3>1. /\ p \in Seq(Steps) /\ Len(p) > 0 /\ p[Len(p)].do = "each"
          /\ WellLaid(p, Ask(c).deed) /\ Only(p, {"each"}) /\ Without(p, "claim")
      BY <1>0, AtStep DEF SaysWhatWasSeen, Only, Without
    <3> DEFINE s == AskRole
               t == <<Do("say")>>
    <3>2. Opens(s, "index", Viewer)
      BY DoorOpens, RoleOfOpens, OpensJoined DEF AskRole, Roles, Viewer, Owner
    <3>3. t \in Seq(Steps)
      BY DEF Do, Steps, NoRole
    <3>4. Only(q, Looks \cup {"say", "each"}) /\ q \in Seq(Steps)
      BY <1>0, <3>1, EachPlan
    <3> HIDE DEF p, s, t
    <3>5. s \in Seq(Steps) /\ Leads(s, Viewer) /\ Follows(s, {"say"}, Viewer)
      BY <3>2 DEF Opens, Only, Follows, Knocks, Looks
    <3>6. s \o t \in Seq(Steps) /\ Leads(s \o t, Viewer) /\ Follows(s \o t, {"say"}, Viewer)
      BY <3>3, <3>5, Joined, LeadsJoined, FollowsJoined
    <3> DEFINE st == s \o t
    <3>7. st \in Seq(Steps) /\ Leads(st, Viewer) /\ Follows(st, {"say"}, Viewer)
      BY <3>6
    <3> HIDE DEF st
    <3>8. /\ Follows(st \o p, {"say"}, Viewer) /\ Len(st \o p) > 0
          /\ (st \o p)[Len(st \o p)].do = "each"
      BY <3>1, <3>7, Joined, FollowsJoined, LastOfJoined
    <3>9. q = st \o p
      BY DEF st, s, t
    <3> QED
      BY <3>4, <3>8, <3>9
  <2> HIDE DEF q
  <2>4. /\ work'[c].plan = q /\ work'[c].asked = work[c].asked
        /\ work'[c].list = l /\ work'[c].left = work[c].left \ {l}
        /\ work'[c].held = work[c].held /\ work'[c].said = work[c].said
        /\ work'[c].owner = work[c].owner
    BY <1>0, <2>2 DEF Workings
  <2>5. /\ Busy(c)' /\ Says(c)' /\ Ask(c)' = Ask(c) /\ Me(c)' = Me(c)
        /\ OfOneList(c)' => OfOneList(c)
    BY <1>0, <2>3, <2>4 DEF Busy, Says, Ask, Me, OfOneList
  <2>6. SeatsOf(c)' \subseteq seat'[c] /\ seat[c] \subseteq seat'[c]
    BY <1>0, <2>5, SeatsGrow
  <2>7. OfOneList(c)' => AllowedOrAsksFirst(c)'
    <3>1. \A need : Follows(q, Acts, need)
      BY <2>3 DEF Follows, Only, Acts, Looks
    <3> QED
      BY <1>0, <2>1, <2>4, <2>5, <2>6, <3>1 DEF AllowedOrAsksFirst
  <2>8. SaysWhatWasSeen(c)'
    <3>1. Seated(c, l, Viewer)' /\ (\A m \in work[c].left : Seated(c, m, Viewer))'
      BY <1>0, <2>1, <2>4, <2>6 DEF SaysWhatWasSeen, Seated
    <3>2. (\A m \in ListIds : work[c].said[m] # NoRole =>
            \E r \in Roles : <<m, r>> \in seat[c] /\ work[c].said[m] \in {r, Viewer})'
      BY <1>0, <2>4, <2>6 DEF SaysWhatWasSeen
    <3> QED
      BY <2>3, <2>4, <3>1, <3>2 DEF SaysWhatWasSeen
  <2> QED
    BY <2>5, <2>6, <2>7, <2>8 DEF Witnessed
<1> QED
  BY <1>1, <1>2


LEMMA NotOwnerWitnessed ==
    ASSUME Inv, Remember, NEW c \in Callers, Witnessed(c), NotOwner(c)
    PROVE  Witnessed(c)'
<1>0. /\ Busy(c) /\ Head(work[c].plan).do = "not_owner" /\ work[c] \in Workings
      /\ OfOneList(c) /\ ~Says(c) /\ AllowedOrAsksFirst(c)
  <2>1. Busy(c) /\ Head(work[c].plan).do = "not_owner"
    BY DEF NotOwner, At
  <2>2. work[c] \in Workings /\ Ask(c).deed \notin {"index", "join", "close", "read"}
    <3>1. Head(work[c].plan).do \in Suits(Ask(c).deed) /\ work[c] \in Workings
      BY <2>1, AtStep
    <3> QED
      BY <2>1, <3>1 DEF Suits, Looks, Acts
  <2> QED
    BY <2>1, <2>2 DEF Witnessed, OfOneList, Says
<1>1. CASE Finish(c)
  BY <1>1, FinishMoves, OverIsWitnessed
<1>2. CASE Continue(c)
  <2>1. work'[c] = [work[c] EXCEPT !.plan = Rest(c)]
    BY <1>0, <1>2, BecomesIs DEF Continue
  <2>2. /\ work'[c].plan = Rest(c) /\ work'[c].asked = work[c].asked
        /\ work'[c].list = work[c].list /\ work'[c].left = work[c].left
        /\ work'[c].held = work[c].held /\ work'[c].said = work[c].said
        /\ work'[c].owner = work[c].owner
    BY <1>0, <2>1 DEF Workings
  <2> QED
    BY <1>0, <2>2, AdvanceWitnessed DEF AllowedOrAsksFirst
<1> QED
  BY <1>1, <1>2 DEF NotOwner

(* Joining and closing say nothing of any role.                            *)
LEMMA JoinOrCloseWitnessed ==
    ASSUME Inv, Remember, NEW c \in Callers, Witnessed(c),
           Claim(c) \/ Decide(c) \/ Put(c) \/ Owned(c) \/ Heir(c) \/ HandOver(c)
    PROVE  Witnessed(c)'
<1>0. /\ Busy(c) /\ work[c] \in Workings
      /\ Head(work[c].plan).do \in {"claim", "decide", "put", "owned", "heir", "hand_over"}
  BY AtStep DEF Claim, Decide, Put, Owned, Heir, HandOver, At
<1>1. Ask(c).deed \in {"join", "close"} /\ ~Says(c)
  BY <1>0, SuitsAtHead DEF Says
<1>2. CASE work'[c] = NoWork
  BY <1>2, OverIsWitnessed
<1>3. CASE work'[c].asked = work[c].asked /\ work'[c].said = work[c].said
  <2>1. Ask(c)'.deed \in {"join", "close"}
    BY <1>1, <1>3 DEF Ask
  <2>2. \A l \in ListIds : work'[c].said[l] = NoRole
    BY <1>1, <1>3 DEF Witnessed
  <2> QED
    BY <2>1, <2>2, NothingToWitness
<1>4. Finish(c) => work'[c] = NoWork
  BY FinishMoves
<1>5. Continue(c) => work'[c].asked = work[c].asked /\ work'[c].said = work[c].said
  BY <1>0, BecomesIs DEF Continue, Workings
<1>6. ASSUME Claim(c), ~Finish(c)
      PROVE  work'[c].asked = work[c].asked /\ work'[c].said = work[c].said
  <2> DEFINE t == invites[Ask(c).token]
  <2>1. Becomes(c, [work[c] EXCEPT !.link = t, !.list = t.list, !.plan = Rest(c)])
    BY <1>6 DEF Claim
  <2> HIDE DEF t
  <2>2. work'[c] = [work[c] EXCEPT !.link = t, !.list = t.list, !.plan = Rest(c)]
    BY <2>1, BecomesIs
  <2> QED
    BY <1>0, <2>2 DEF Workings
<1>7. ASSUME Decide(c), ~Finish(c)
      PROVE  work'[c].asked = work[c].asked /\ work'[c].said = work[c].said
  <2> DEFINE q == (IF Grants(c) THEN <<Do("put")>> ELSE <<>>) \o <<Do("mark")>>
  <2>1. Becomes(c, [work[c] EXCEPT !.plan = q])
    BY <1>7 DEF Decide
  <2> HIDE DEF q
  <2>2. work'[c] = [work[c] EXCEPT !.plan = q]
    BY <2>1, BecomesIs
  <2> QED
    BY <1>0, <2>2 DEF Workings
<1>8. Put(c) \/ HandOver(c) =>
        work'[c] = NoWork \/ (work'[c].asked = work[c].asked /\ work'[c].said = work[c].said)
  BY <1>4, <1>5 DEF Put, HandOver
<1>9. ASSUME Owned(c)
      PROVE  work'[c].asked = work[c].asked /\ work'[c].said = work[c].said
  <2> DEFINE left == OwnedBy(Me(c))
  <2>1. Becomes(c, [work[c] EXCEPT !.left = left, !.plan = Rest(c)])
    BY <1>9 DEF Owned
  <2> HIDE DEF left
  <2>2. work'[c] = [work[c] EXCEPT !.left = left, !.plan = Rest(c)]
    BY <2>1, BecomesIs
  <2> QED
    BY <1>0, <2>2 DEF Workings
<1>10. ASSUME Heir(c)
       PROVE  work'[c].asked = work[c].asked /\ work'[c].said = work[c].said
  <2>1. CASE Continue(c)
    BY <2>1, <1>5
  <2>2. CASE Becomes(c, [work[c] EXCEPT !.left = work[c].left \ {NextOf(c)}])
    BY <1>0, <2>2, BecomesIs DEF Workings
  <2>3. CASE Becomes(c, [work[c] EXCEPT !.left = work[c].left \ {NextOf(c)},
                                   !.list = NextOf(c), !.heir = LongestStanding(NextOf(c)),
                                   !.plan = <<Do("hand_over")>> \o work[c].plan])
    <3> DEFINE q == <<Do("hand_over")>> \o work[c].plan
    <3>1. work'[c] = [work[c] EXCEPT !.left = work[c].left \ {NextOf(c)},
                                   !.list = NextOf(c), !.heir = LongestStanding(NextOf(c)),
                                   !.plan = q]
      BY <2>3, BecomesIs
    <3> HIDE DEF q
    <3> QED
      BY <1>0, <3>1 DEF Workings
  <2> QED
    BY <1>10, <2>1, <2>2, <2>3, HeirDoes
<1> QED
  BY <1>2, <1>3, <1>4, <1>6, <1>7, <1>8, <1>9, <1>10

LEMMA SeatInit == HistoryInit => SeatInv
<1> SUFFICES ASSUME HistoryInit PROVE SeatInv
  OBVIOUS
<1> SUFFICES ASSUME NEW c \in Callers PROVE Witnessed(c)
  BY DEF SeatInv
<1>1. work[c] = NoWork
  BY DEF HistoryInit, Init
<1>2. ~Busy(c) /\ \A l \in ListIds : work[c].said[l] = NoRole
  BY <1>1 DEF NoWork, Busy
<1> QED
  BY <1>2 DEF Witnessed, OfOneList, Says

LEMMA NextKeepsSeats ==
    ASSUME Inv, SeatInv, HistoryNext
    PROVE  SeatInv'
<1> SUFFICES ASSUME NEW d \in Callers PROVE Witnessed(d)'
  BY DEF SeatInv
<1>0. Remember /\ Witnessed(d)
  BY DEF HistoryNext, SeatInv
<1>1. CASE Tick
  BY <1>0, <1>1, OthersStayWitnessed DEF Tick
<1>2. CASE \E c \in Callers : Arrive(c) \/ Step(c) \/ Cut(c)
  <2>1. PICK c \in Callers : Arrive(c) \/ Step(c) \/ Cut(c)
    BY <1>2
  <2>2. CASE d # c
    <3>1. work'[d] = work[d]
      BY <2>1, <2>2, StepMoves DEF Moved, Others
    <3> QED
      BY <1>0, <3>1, OthersStayWitnessed
  <2>3. CASE d = c
    <3>1. CASE Arrive(c)
      BY <1>0, <2>3, <3>1, ArriveWitnessed
    <3>2. CASE \/ Sheet(c) \/ Create(c) \/ Rename(c) \/ Delete(c) \/ Invite(c) \/ Revoke(c)
               \/ Remove(c) \/ Mark(c) \/ Leave(c) \/ Cut(c)
      BY <1>0, <2>3, <3>2, FinishingMoves, OverIsWitnessed
    <3>3. CASE Find(c)
      BY <1>0, <2>3, <3>3, FindWitnessed
    <3>4. CASE IsOwner(c)
      BY <1>0, <2>3, <3>4, IsOwnerWitnessed
    <3>5. CASE HasRow(c)
      BY <1>0, <2>3, <3>5, HasRowWitnessed
    <3>6. CASE Index(c) \/ Read(c) \/ Say(c)
      BY <1>0, <2>3, <3>6, ReadsWitnessed
    <3>7. CASE Each(c)
      BY <1>0, <2>3, <3>7, EachWitnessed
    <3>8. CASE NotOwner(c)
      BY <1>0, <2>3, <3>8, NotOwnerWitnessed
    <3>9. CASE Claim(c) \/ Decide(c) \/ Put(c) \/ Owned(c) \/ Heir(c) \/ HandOver(c)
      BY <1>0, <2>3, <3>9, JoinOrCloseWitnessed
    <3> QED
      BY <2>1, <3>1, <3>2, <3>3, <3>4, <3>5, <3>6, <3>7, <3>8, <3>9 DEF Step
  <2> QED
    BY <2>2, <2>3
<1> QED
  BY <1>1, <1>2 DEF HistoryNext, Next

LEMMA StutterKeepsSeats ==
    ASSUME SeatInv, UNCHANGED <<vars, history>>
    PROVE  SeatInv'
<1> SUFFICES ASSUME NEW c \in Callers PROVE Witnessed(c)'
  BY DEF SeatInv
<1>1. /\ lists' = lists /\ members' = members /\ work' = work /\ seat' = seat
  BY DEF vars, history
<1>2. /\ Busy(c)' = Busy(c) /\ Ask(c)' = Ask(c) /\ Me(c)' = Me(c) /\ OnAPage(c)' = OnAPage(c)
      /\ OfOneList(c)' = OfOneList(c) /\ Says(c)' = Says(c)
  BY <1>1 DEF Busy, Ask, Me, OnAPage, OfOneList, Says
<1>3. SeatsOf(c)' = SeatsOf(c)
  BY <1>1, <1>2 DEF SeatsOf, PeopleOn, MembersOf, RowRole, There
<1>4. \A l, need : Seated(c, l, need)' = Seated(c, l, need)
  BY <1>1 DEF Seated
<1>5. AllowedOrAsksFirst(c)' = AllowedOrAsksFirst(c)
  BY <1>1, <1>2, <1>4 DEF AllowedOrAsksFirst
<1>6. SaysWhatWasSeen(c)' = SaysWhatWasSeen(c)
  BY <1>1, <1>2, <1>4 DEF SaysWhatWasSeen
<1> QED
  BY <1>1, <1>2, <1>3, <1>5, <1>6 DEF SeatInv, Witnessed

LEMMA SpecKeepsSeats == HistorySpec => [](Inv /\ SeatInv)
<1>1. HistoryInit => Inv /\ SeatInv
  BY InitIsTyped, SeatInit DEF HistoryInit
<1>2. Inv /\ SeatInv /\ [HistoryNext]_<<vars, history>> => (Inv /\ SeatInv)'
  <2> SUFFICES ASSUME Inv, SeatInv, [HistoryNext]_<<vars, history>> PROVE Inv' /\ SeatInv'
    OBVIOUS
  <2>1. Inv'
    BY NextKeepsInv DEF HistoryNext, history
  <2>2. SeatInv'
    BY NextKeepsSeats, StutterKeepsSeats
  <2> QED
    BY <2>1, <2>2
<1> QED
  BY <1>1, <1>2, PTL DEF HistorySpec

(* A list is read, changed, shared or taken from somebody only on behalf of *)
(* a person whom its share sheet has shown, since they asked, in the role   *)
(* it takes (lists::accessible, "the one door").                            *)
THEOREM ActsAreAllowed == HistorySpec => []ActsWereAllowed
<1>1. Inv /\ SeatInv => ActsWereAllowed
  <2> SUFFICES ASSUME Inv, SeatInv, NEW c \in Callers, Acting(c)
               PROVE  \E r \in Roles : <<Ask(c).list, r>> \in seat[c] /\ r >= RoleFor(Ask(c))
    BY DEF ActsWereAllowed
  <2>1. Busy(c) /\ Head(work[c].plan).do \in Acts
    BY DEF Acting, At, Acts
  <2>2. OfOneList(c) /\ AllowedOrAsksFirst(c)
    BY <2>1, SuitsAtHead DEF OfOneList, SeatInv, Witnessed
  <2>3. ~Follows(work[c].plan, Acts, RoleFor(Ask(c)))
    BY <2>1, AtStep, FollowsNothing DEF Busy
  <2> QED
    BY <2>2, <2>3 DEF AllowedOrAsksFirst, Seated
<1> QED
  BY <1>1, SpecKeepsSeats, PTL

(* An index, and a list read by itself, say of each list a role the person  *)
(* has held on it since they asked, or that they may look at one they were  *)
(* on (ListWithRole::of).                                                   *)
THEOREM RolesWereHeld == HistorySpec => []RolesAreAsSaid
<1>1. Inv /\ SeatInv => RolesAreAsSaid
  BY DEF SeatInv, Witnessed, SaysWhatWasSeen, RolesAreAsSaid
<1> QED
  BY <1>1, SpecKeepsSeats, PTL

----------------------------------------------------------------------------
(* A link that has ended stays so, for a token is never minted twice and a *)
(* link is never renewed; and whoever claims it carries it as one that is  *)
(* spent, if there is still one to claim.                                  *)

Over(t) == invites[t] = None \/ invites[t].expires <= now \/ invites[t].used

EndedIsOver(c) ==
    Busy(c) /\ ended[c] =>
        /\ Ask(c).deed = "join" /\ Ask(c).token <= issued /\ Over(Ask(c).token)
        /\ work[c].link # None => work[c].link.used
        /\ Without(work[c].plan, "put")

EndInv == \A c \in Callers : EndedIsOver(c)

LEMMA WithoutTail ==
    ASSUME NEW p \in Seq(Steps), p # <<>>, NEW what, Without(p, what)
    PROVE  Without(Tail(p), what) /\ p[1].do # what
<1>1. /\ Len(p) \in Nat /\ Len(Tail(p)) = Len(p) - 1 /\ Len(p) > 0
      /\ \A i \in 1..Len(Tail(p)) : Tail(p)[i] = p[i + 1]
  BY HeadAndTail
<1>2. \A i \in 1..Len(Tail(p)) : i + 1 \in 1..Len(p)
  BY <1>1
<1> HIDE DEF Without
<1>3. 1 \in 1..Len(p)
  BY <1>1
<1> QED
  BY <1>1, <1>2, <1>3 DEF Without

LEMMA LinksStayOver ==
    ASSUME Inv, NEW t \in Tokens, t <= issued, Over(t), [Next]_vars
    PROVE  Over(t)' /\ t <= issued'
<1>0. /\ invites \in [Tokens -> Maybe(Invites)] /\ issued \in Nat /\ now \in Nat /\ t \in Nat
      /\ MaxTokens \in Nat
  BY MembershipAssumption DEF MembershipAssumption, Inv, MembershipTypeOK, Tokens
<1>1. ASSUME invites' = invites, issued' = issued, now' >= now, now' \in Nat
      PROVE  Over(t)' /\ t <= issued'
  <2>1. invites[t] # None => invites[t].expires \in Nat
    BY <1>0 DEF Maybe, Invites
  <2> QED
    BY <1>0, <1>1, <2>1 DEF Over
<1>2. ASSUME invites'[t] = None \/ invites'[t] = invites[t], issued' = issued, now' = now
      PROVE  Over(t)' /\ t <= issued'
  BY <1>2 DEF Over
<1>3. CASE Tick
  BY <1>0, <1>1, <1>3 DEF Tick, tables
<1>4. CASE UNCHANGED vars
  BY <1>0, <1>1, <1>4 DEF vars
<1>5. ASSUME NEW c \in Callers, Arrive(c) \/ Step(c) \/ Cut(c)
      PROVE  Over(t)' /\ t <= issued'
  <2>1. CASE UNCHANGED <<tables, now>>
    BY <1>0, <1>1, <2>1 DEF tables
  <2>2. CASE Delete(c)
    BY <1>0, <1>2, <2>2 DEF Delete, Cascade
  <2>3. CASE Leave(c)
    BY <1>0, <1>2, <2>3 DEF Leave, Cascade
  <2>4. CASE Revoke(c)
    BY <1>0, <1>2, <2>4 DEF Revoke
  <2>5. CASE Create(c) \/ Rename(c) \/ Remove(c) \/ Put(c) \/ HandOver(c)
    BY <1>0, <1>1, <2>5 DEF Create, Rename, Remove, Put, HandOver
  <2>6. CASE Invite(c)
    <3>1. CASE issued' = issued /\ invites' = invites
      BY <1>0, <1>1, <2>6, <3>1 DEF Invite
    <3>2. CASE issued' # issued \/ invites' # invites
      <4> DEFINE row == [list |-> work[c].list, role |-> Ask(c).role, by |-> Me(c),
                         expires |-> now + Valid, used |-> FALSE]
      <4>1. /\ issued' = issued + 1 /\ now' = now
            /\ invites' = [invites EXCEPT ![issued + 1] = row]
        BY <2>6, <3>2 DEF Invite
      <4> HIDE DEF row
      <4>2. invites'[t] = invites[t]
        BY <1>0, <4>1
      <4> QED
        BY <1>0, <4>1, <4>2 DEF Over
    <3> QED
      BY <3>1, <3>2
  <2>7. CASE Mark(c)
    <3>1. /\ issued' = issued /\ now' = now
          /\ \/ invites' = invites
             \/ invites' = [invites EXCEPT ![Ask(c).token].used = TRUE]
      BY <2>7 DEF Mark
    <3>2. CASE invites' = invites
      BY <1>2, <3>1, <3>2
    <3>3. CASE invites' = [invites EXCEPT ![Ask(c).token].used = TRUE] /\ Ask(c).token = t
      <4>1. invites[t] # None => invites'[t].used
        BY <1>0, <3>3 DEF Maybe, Invites
      <4> QED
        BY <1>0, <3>1, <3>3, <4>1, <2>7 DEF Over, Mark
    <3>4. CASE invites' = [invites EXCEPT ![Ask(c).token].used = TRUE] /\ Ask(c).token # t
      BY <1>0, <1>2, <3>1, <3>4
    <3> QED
      BY <3>1, <3>2, <3>3, <3>4
  <2> QED
    BY <1>5, <2>1, <2>2, <2>3, <2>4, <2>5, <2>6, <2>7
       DEF Arrive, Cut, Step, Find, IsOwner, HasRow, Index, Read, Each, Say, Sheet, NotOwner,
           Claim, Decide, Owned, Heir
<1> QED
  BY <1>3, <1>4, <1>5 DEF Next

(* A request goes on as one whose link has ended.                          *)
LEMMA StaysOver ==
    ASSUME Inv, Remember, [Next]_vars, NEW c \in Callers, EndedIsOver(c), Busy(c),
           work'[c].asked = work[c].asked,
           ended[c] /\ Busy(c)' =>
              /\ work'[c].link # None => work'[c].link.used
              /\ Without(work'[c].plan, "put")
    PROVE  EndedIsOver(c)'
<1> SUFFICES ASSUME Busy(c)', ended'[c] PROVE EndedIsOver(c)'
  BY DEF EndedIsOver
<1>1. ended[c]
  BY DEF Remember, Arrives
<1>2. /\ Ask(c) \in Asked /\ Ask(c)' = Ask(c)
      /\ Ask(c).deed = "join" /\ Ask(c).token <= issued /\ Over(Ask(c).token)
  BY <1>1, AtStep DEF EndedIsOver, Ask
<1>3. Over(Ask(c).token)' /\ Ask(c).token <= issued'
  BY <1>2, LinksStayOver DEF Asked
<1> QED
  BY <1>1, <1>2, <1>3 DEF EndedIsOver, Over

LEMMA ArriveIsOver ==
    ASSUME Inv, Remember, NEW c \in Callers, Arrive(c)
    PROVE  EndedIsOver(c)'
<1> SUFFICES ASSUME Busy(c)', ended'[c] PROVE EndedIsOver(c)'
  BY DEF EndedIsOver
<1>1. PICK asked \in Requests :
        /\ asked.deed = "join" => asked.token <= issued
        /\ Becomes(c, [NoWork EXCEPT !.asked = asked, !.plan = PlanOf(asked),
                                     !.list = asked.list])
  BY DEF Arrive
<1> DEFINE p == PlanOf(asked)
<1>2. p \in Seq(Steps) /\ p # <<>> /\ Without(p, "put")
  <2>1. Guarded(p, asked)
    BY PlansAreGuarded, MembershipAssumption DEF MembershipAssumption
  <2> HIDE DEF p
  <2> QED
    BY <2>1 DEF Guarded, Only, Without, Acts
<1> HIDE DEF p
<1>3. work'[c] = [NoWork EXCEPT !.asked = asked, !.plan = p, !.list = asked.list]
  BY <1>1, BecomesIs DEF p
<1>4. work'[c].asked = asked /\ work'[c].plan = p /\ work'[c].link = None
  BY <1>3 DEF NoWork
<1>5. Ended(asked)
  BY <1>2, <1>4 DEF Remember, Arrives, Arrive
<1>6. UNCHANGED <<invites, issued, now>>
  BY DEF Arrive, tables
<1>7. invites[asked.token] # None => invites[asked.token].expires \in Nat /\ now \in Nat
  <2>1. asked.token \in Tokens
    BY MembershipAssumption DEF MembershipAssumption, Asked
  <2> QED
    BY <2>1, MembershipAssumption DEF MembershipAssumption, Inv, MembershipTypeOK, Maybe, Invites
<1>8. asked.deed = "join" /\ Over(asked.token)
  BY <1>5, <1>7 DEF Ended, Claimable, Over
<1> QED
  BY <1>1, <1>2, <1>4, <1>6, <1>8 DEF EndedIsOver, Over, Ask

LEMMA StepIsOver ==
    ASSUME Inv, Remember, NEW c \in Callers, EndedIsOver(c), Step(c), [Next]_vars
    PROVE  EndedIsOver(c)'
<1> SUFFICES ASSUME Busy(c)', ended'[c] PROVE EndedIsOver(c)'
  BY DEF EndedIsOver
<1>1. Busy(c) /\ ended[c]
  BY DEF Remember, Arrives, Busy, Step, At, Find, IsOwner, HasRow, Index, Read, Each, Say, Sheet,
         NotOwner, Claim, Decide, Owned, Heir, Create, Rename, Delete, Invite, Revoke, Remove,
         Put, Mark, HandOver, Leave
<1>2. /\ Ask(c).deed = "join" /\ work[c] \in Workings
      /\ work[c].link # None => work[c].link.used
      /\ Without(work[c].plan, "put") /\ Without(Rest(c), "put")
      /\ Head(work[c].plan).do # "put"
  BY <1>1, AtStep, WithoutTail DEF EndedIsOver, Busy, Rest
<1>3. Head(work[c].plan).do \notin
        {"owned", "heir", "hand_over", "leave", "index", "read", "each", "say", "not_owner"}
  BY <1>1, <1>2, SuitsAtHead
<1>4. work'[c] # NoWork
  BY DEF Busy, NoWork
<1>5. ASSUME work'[c].asked = work[c].asked, work'[c].link = work[c].link,
             Without(work'[c].plan, "put")
      PROVE  EndedIsOver(c)'
  BY <1>1, <1>2, <1>5, StaysOver
<1>6. Turned(c) => FALSE
  <2> SUFFICES ASSUME Turned(c) PROVE FALSE
    OBVIOUS
  <2>1. OnAPage(c)
    BY <1>1, <1>4, TurnedMoves
  <2> QED
    BY <1>1, <1>2, <2>1, SaysOnAPage
<1>7. CASE Find(c)
  <2> DEFINE owner == lists[work[c].list].owner
  <2>1. Becomes(c, [work[c] EXCEPT !.owner = owner, !.plan = Rest(c)])
    BY <1>6, <1>7 DEF Find
  <2> HIDE DEF owner
  <2>2. work'[c] = [work[c] EXCEPT !.owner = owner, !.plan = Rest(c)]
    BY <2>1, BecomesIs
  <2> QED
    BY <1>2, <1>5, <2>2 DEF Workings
<1>8. CASE IsOwner(c)
  <2>1. CASE Continue(c)
    <3>1. work'[c] = [work[c] EXCEPT !.plan = Rest(c)]
      BY <2>1, BecomesIs DEF Continue
    <3> QED
      BY <1>2, <1>5, <3>1 DEF Workings
  <2>2. CASE Becomes(c, [work[c] EXCEPT !.held = Owner, !.plan = Tail(Rest(c))])
    <3> DEFINE q == Tail(Rest(c))
    <3>1. work'[c] = [work[c] EXCEPT !.held = Owner, !.plan = q]
      BY <2>2, BecomesIs
    <3>2. Without(q, "put")
      <4>1. Rest(c) # <<>>
        <5>1. 1 \in 1..Len(work[c].plan) /\ work[c].plan[1].do = "owner"
          BY <1>1, <1>8, AtStep DEF IsOwner, At
        <5>2. Len(work[c].plan) > 1 /\ Len(Rest(c)) = Len(work[c].plan) - 1
          BY <1>1, <5>1, AtStep DEF WellLaid, Paired
        <5>3. Len(work[c].plan) \in Nat
          BY <1>2 DEF Workings
        <5> QED
          BY <5>2, <5>3
      <4> QED
        BY <1>1, <1>2, <4>1, AtStep, WithoutTail
    <3> HIDE DEF q
    <3> QED
      BY <1>2, <1>5, <3>1, <3>2 DEF Workings
  <2> QED
    BY <1>8, <2>1, <2>2 DEF IsOwner
<1>9. CASE HasRow(c)
  <2> DEFINE held == RowRole(work[c].list, Me(c))
  <2>1. Becomes(c, [work[c] EXCEPT !.held = held, !.plan = Rest(c)])
    BY <1>6, <1>9 DEF HasRow
  <2> HIDE DEF held
  <2>2. work'[c] = [work[c] EXCEPT !.held = held, !.plan = Rest(c)]
    BY <2>1, BecomesIs
  <2> QED
    BY <1>2, <1>5, <2>2 DEF Workings
<1>10. CASE Claim(c)
  <2> DEFINE t == invites[Ask(c).token]
  <2>1. Claimable(Ask(c).token) /\ Becomes(c, [work[c] EXCEPT !.link = t, !.list = t.list, !.plan = Rest(c)])
    BY <1>4, <1>10, FinishMoves DEF Claim
  <2>2. t.used
    <3>1. Ask(c).token \in Tokens /\ Over(Ask(c).token)
      BY <1>1, AtStep DEF EndedIsOver, Asked
    <3>2. t # None => t.expires \in Nat /\ now \in Nat
      BY <3>1, MembershipAssumption DEF MembershipAssumption, Inv, MembershipTypeOK, Maybe, Invites
    <3> QED
      BY <2>1, <3>1, <3>2 DEF Over, Claimable
  <2> HIDE DEF t
  <2>3. work'[c] = [work[c] EXCEPT !.link = t, !.list = t.list, !.plan = Rest(c)]
    BY <2>1, BecomesIs
  <2>4. work'[c].asked = work[c].asked /\ work'[c].link = t /\ work'[c].plan = Rest(c)
    BY <1>2, <2>3 DEF Workings
  <2> QED
    BY <1>1, <1>2, <2>2, <2>4, StaysOver
<1>11. CASE Decide(c)
  <2> DEFINE q == (IF Grants(c) THEN <<Do("put")>> ELSE <<>>) \o <<Do("mark")>>
  <2>1. Becomes(c, [work[c] EXCEPT !.plan = q])
    BY <1>4, <1>11, FinishMoves DEF Decide
  <2>2. Without(q, "put")
    <3>1. work[c].link \in Invites
      BY <1>11, DecideMoves
    <3>2. work[c].link # None
      BY <3>1, MembershipAssumption DEF MembershipAssumption
    <3>3. Grants(c) = FALSE
      BY <1>2, <3>2 DEF Grants
    <3> DEFINE p == (IF FALSE THEN <<Do("put")>> ELSE <<>>) \o <<Do("mark")>>
    <3>4. Only(p, {"mark"})
      BY DecidedPlan
    <3>5. p = q
      BY <3>3
    <3> HIDE DEF p, q
    <3> QED
      BY <3>4, <3>5 DEF Only, Without
  <2> HIDE DEF q
  <2>3. work'[c] = [work[c] EXCEPT !.plan = q]
    BY <2>1, BecomesIs
  <2> QED
    BY <1>2, <1>5, <2>2, <2>3 DEF Workings
<1>12. CASE \/ Sheet(c) \/ Create(c) \/ Rename(c) \/ Delete(c) \/ Invite(c) \/ Revoke(c)
            \/ Remove(c) \/ Mark(c) \/ Leave(c)
  BY <1>4, <1>12, FinishingMoves
<1>13. ~(Index(c) \/ Read(c) \/ Each(c) \/ Say(c) \/ NotOwner(c) \/ Owned(c) \/ Heir(c)
         \/ HandOver(c) \/ Put(c))
  BY <1>2, <1>3 DEF Index, Read, Each, Say, NotOwner, Owned, Heir, HandOver, Put, At
<1> QED
  BY <1>7, <1>8, <1>9, <1>10, <1>11, <1>12, <1>13 DEF Step

LEMMA SpecKeepsEnds == HistorySpec => [](Inv /\ EndInv)
<1>1. HistoryInit => Inv /\ EndInv
  BY InitIsTyped DEF HistoryInit, EndInv, EndedIsOver
<1>2. Inv /\ EndInv /\ [HistoryNext]_<<vars, history>> => (Inv /\ EndInv)'
  <2> SUFFICES ASSUME Inv, EndInv, [HistoryNext]_<<vars, history>> PROVE Inv' /\ EndInv'
    OBVIOUS
  <2>1. Inv'
    BY NextKeepsInv DEF HistoryNext, history
  <2>2. CASE UNCHANGED <<vars, history>>
    <3>1. invites' = invites /\ issued' = issued /\ now' = now /\ work' = work /\ ended' = ended
      BY <2>2 DEF vars, history
    <3>2. ASSUME NEW c \in Callers
          PROVE  EndedIsOver(c)' = EndedIsOver(c)
      BY <3>1 DEF EndedIsOver, Over, Busy, Ask
    <3> QED
      BY <2>1, <3>2 DEF EndInv
  <2>3. CASE HistoryNext
    <3> SUFFICES ASSUME NEW d \in Callers PROVE EndedIsOver(d)'
      BY <2>1 DEF EndInv
    <3>1. Remember /\ [Next]_vars /\ EndedIsOver(d)
      BY <2>3 DEF HistoryNext, EndInv
    <3>2. CASE work'[d] = work[d]
      <4>1. CASE Busy(d)
        BY <3>1, <3>2, <4>1, StaysOver DEF EndedIsOver
      <4>2. CASE ~Busy(d)
        BY <3>2, <4>2 DEF EndedIsOver, Busy
      <4> QED
        BY <4>1, <4>2
    <3>3. CASE Tick
      BY <3>2, <3>3 DEF Tick
    <3>4. ASSUME NEW c \in Callers, Arrive(c) \/ Step(c) \/ Cut(c)
          PROVE  EndedIsOver(d)'
      <4>1. CASE d # c
        BY <3>2, <3>4, <4>1, StepMoves DEF Moved, Others
      <4>2. CASE d = c /\ Arrive(c)
        BY <3>1, <4>2, ArriveIsOver
      <4>3. CASE d = c /\ Step(c)
        BY <3>1, <4>3, StepIsOver
      <4>4. CASE d = c /\ Cut(c)
        <5>1. work'[d] = NoWork
          BY <4>4, FinishingMoves
        <5> QED
          BY <5>1 DEF EndedIsOver, Busy, NoWork
      <4> QED
        BY <3>4, <4>1, <4>2, <4>3, <4>4
    <3> QED
      BY <2>3, <3>3, <3>4 DEF HistoryNext, Next
  <2> QED
    BY <2>1, <2>2, <2>3
<1> QED
  BY <1>1, <1>2, PTL DEF HistorySpec

(* A link that was spent, withdrawn, deleted with its list or out of date  *)
(* when somebody follows it puts nobody on a list and raises nobody, what- *)
(* ever they are on it already (lists::join).                              *)
THEOREM EndedLinksAreDead == HistorySpec => []EndedLinksSeatNobody
<1>1. Inv /\ EndInv => EndedLinksSeatNobody
  <2> SUFFICES ASSUME Inv, EndInv, NEW c \in Callers, At(c, "put"), ended[c] PROVE FALSE
    BY DEF EndedLinksSeatNobody
  <2>1. Busy(c) /\ Without(work[c].plan, "put") /\ Head(work[c].plan).do = "put"
    BY DEF At, EndInv, EndedIsOver
  <2>2. work[c].plan \in Seq(Steps) /\ work[c].plan # <<>> /\ Head(work[c].plan) = work[c].plan[1]
    BY <2>1, AtStep DEF Busy
  <2> QED
    BY <2>1, <2>2, WithoutTail
<1> QED
  BY <1>1, SpecKeepsEnds, PTL

----------------------------------------------------------------------------
(* Closing an account.  With nobody else closing one, a list somebody has  *)
(* shared all the while belongs to whoever leaves until it is handed over, *)
(* and then to another person for good; and it is in one of the places it  *)
(* waits in: not read yet, left to be handed over, or with its heir known. *)

Shaped(p) ==
    \/ Len(p) = 3 /\ p[1].do \in {"owned", "hand_over"} /\ p[2].do = "heir" /\ p[3].do = "leave"
    \/ Len(p) = 2 /\ p[1].do = "heir" /\ p[2].do = "leave"
    \/ Len(p) = 1 /\ p[1].do = "leave"

Pending(c, l) == At(c, "hand_over") /\ work[c].list = l

Kept(c, l) ==
    IF lists[l].owner # Me(c) THEN ~At(c, "owned") /\ l \notin work[c].left /\ ~Pending(c, l)
    ELSE \/ At(c, "owned")
         \/ l \in work[c].left /\ ~Pending(c, l)
         \/ l \notin work[c].left /\ Pending(c, l) /\ work[c].heir # Me(c)

Closes(c) ==
    /\ Shaped(work[c].plan)
    /\ At(c, "leave") => work[c].left = {}
    /\ shared[c] \subseteq Standing
    /\ \A m \in shared[c] : m[2] # Me(c)
    /\ alone[c] => /\ \A d \in Callers \ {c} : ~Closing(d)
                   /\ \A m \in shared[c] : Kept(c, m[1])

HandInv == \A c \in Callers : Closing(c) => Closes(c)

LEMMA StandsOn ==
    ASSUME NEW m \in Standing
    PROVE  /\ m = <<m[1], m[2]>> /\ m[1] \in ListIds /\ m[2] \in People /\ There(m[1])
           /\ lists[m[1]].owner = m[2] \/ m[2] \in MembersOf(m[1])
           /\ lists[m[1]].owner \notin MembersOf(m[1])
BY DEF Standing, VisibleTo

LEMMA ClosesOn ==
    ASSUME Remember, NEW c \in Callers, Closing(c), Closing(c)', Closes(c), Me(c)' = Me(c),
           Shaped(work[c].plan)', At(c, "leave")' => work'[c].left = {},
           alone[c] => \A m \in shared[c] : m \in Standing' => Kept(c, m[1])'
    PROVE  Closes(c)'
<1>1. ~Arrives(c)
  BY DEF Closing, Arrives
<1>2. shared'[c] = shared[c] \cap Standing'
  BY <1>1 DEF Remember
<1>3. alone'[c] => alone[c] /\ \A d \in Callers \ {c} : ~Closing(d)'
  BY DEF Remember
<1> QED
  BY <1>2, <1>3 DEF Closes

(* Nobody who is not closing an account changes whose a list is.           *)
LEMMA OwnersStay ==
    ASSUME Inv, NEW d \in Callers, Arrive(d) \/ Step(d) \/ Cut(d), ~Closing(d),
           NEW l \in ListIds, There(l), There(l)'
    PROVE  lists'[l].owner = lists[l].owner
<1>0. lists \in [ListIds -> Maybe(Lists)] /\ lists[l] \in Lists
  BY DEF Inv, MembershipTypeOK, There, Maybe
<1>1. CASE lists' = lists
  BY <1>1
<1>2. CASE Create(d)
  <2> DEFINE row == [owner |-> Me(d), name |-> Ask(d).name]
  <2>1. CASE lists' # lists
    <3>1. PICK k \in ListIds : NextList(k) /\ lists' = [lists EXCEPT ![k] = row]
      BY <1>2, <2>1 DEF Create
    <3>2. k # l
      BY <3>1, MembershipAssumption DEF NextList, MembershipAssumption, ListIds
    <3> HIDE DEF row
    <3> QED
      BY <1>0, <3>1, <3>2
  <2> QED
    BY <1>1, <2>1
<1>3. CASE Rename(d)
  <2>1. \/ lists' = lists
        \/ lists' = [lists EXCEPT ![work[d].list].name = Ask(d).name]
    BY <1>3 DEF Rename
  <2>2. CASE work[d].list = l /\ lists' # lists
    BY <1>0, <2>1, <2>2 DEF Lists
  <2>3. CASE work[d].list # l /\ lists' # lists
    BY <1>0, <2>1, <2>3
  <2> QED
    BY <1>1, <2>2, <2>3
<1>4. CASE Delete(d)
  BY <1>4 DEF Delete, Cascade, There
<1>5. ~HandOver(d) /\ ~Leave(d)
  <2>1. Busy(d) /\ Head(work[d].plan).do \in {"hand_over", "leave"} => Ask(d).deed = "close"
    BY SuitsAtHead
  <2> QED
    BY <2>1 DEF HandOver, Leave, At, Closing
<1> QED
  BY <1>1, <1>2, <1>3, <1>4, <1>5
     DEF Arrive, Cut, Step, Find, IsOwner, HasRow, Index, Read, Each, Say, Sheet, NotOwner,
         Claim, Decide, Owned, Heir, Invite, Revoke, Remove, Put, Mark, tables

LEMMA OthersLeaveItClosing ==
    ASSUME Inv, HandInv, Remember, NEW c \in Callers, Closing(c)', work'[c] = work[c],
           \/ lists' = lists
           \/ \E d \in Callers \ {c} : Arrive(d) \/ Step(d) \/ Cut(d)
    PROVE  Closes(c)'
<1>1. /\ Closing(c) /\ Me(c)' = Me(c) /\ Closes(c)
      /\ \A what : At(c, what)' = At(c, what)
      /\ \A l : Pending(c, l)' = Pending(c, l)
  BY DEF Closing, Busy, Ask, Me, At, Pending, HandInv
<1>2. ASSUME alone[c], NEW m \in shared[c], m \in Standing'
      PROVE  Kept(c, m[1])'
  <2>1. m \in Standing /\ Kept(c, m[1])
    BY <1>1, <1>2 DEF Closes
  <2>2. m[1] \in ListIds /\ There(m[1])
    BY <2>1, StandsOn
  <2>3. There(m[1])'
    BY <1>2 DEF Standing, VisibleTo
  <2>4. lists'[m[1]].owner = lists[m[1]].owner
    BY <1>1, <1>2, <2>2, <2>3, OwnersStay DEF Closes
  <2> QED
    BY <1>1, <2>1, <2>4 DEF Kept
<1> QED
  BY <1>1, <1>2, ClosesOn DEF Closes

LEMMA ArriveCloses ==
    ASSUME Inv, Remember, NEW c \in Callers, Arrive(c), Closing(c)'
    PROVE  Closes(c)'
<1>1. PICK asked \in Requests :
        Becomes(c, [NoWork EXCEPT !.asked = asked, !.plan = PlanOf(asked), !.list = asked.list])
  BY DEF Arrive
<1> DEFINE p == PlanOf(asked)
<1> HIDE DEF p
<1>2. work'[c] = [NoWork EXCEPT !.asked = asked, !.plan = p, !.list = asked.list]
  BY <1>1, BecomesIs DEF p
<1>3. work'[c].asked = asked /\ work'[c].plan = p
  BY <1>2 DEF NoWork
<1>4. p = <<Do("owned"), Do("heir"), Do("leave")>>
  BY <1>3 DEF Closing, Ask, p, PlanOf, ClosePlan
<1>5. Shaped(p) /\ Len(p) > 0 /\ Head(p).do = "owned" /\ p # <<>>
  BY <1>4 DEF Shaped, Do
<1>6. Arrives(c) /\ Me(c)' = asked.by /\ At(c, "owned")' /\ ~At(c, "leave")'
  BY <1>3, <1>5 DEF Arrives, Arrive, Me, At, Busy
<1>7. shared'[c] = SharedOf(asked.by) \cap Standing'
  BY <1>3, <1>6 DEF Remember
<1>8. alone'[c] => \A d \in Callers \ {c} : ~Closing(d)'
  BY DEF Remember
<1>9. lists' = lists
  BY DEF Arrive, tables
<1>10. \A m \in shared'[c] : m[2] # asked.by /\ lists'[m[1]].owner = asked.by
  BY <1>7, <1>9 DEF SharedOf, OwnedBy
<1> QED
  BY <1>3, <1>5, <1>6, <1>7, <1>8, <1>10 DEF Closes, Kept

(* What a request to close an account may do next.                         *)
LEMMA AtClosing ==
    ASSUME Inv, NEW c \in Callers, Closing(c), Closes(c), Step(c)
    PROVE  /\ Owned(c) \/ Heir(c) \/ HandOver(c) \/ Leave(c)
           /\ ~At(c, "leave") => Shaped(Rest(c))
           /\ At(c, "owned") \/ At(c, "hand_over") => Len(Rest(c)) = 2 /\ Rest(c)[1].do = "heir"
                                                      /\ Rest(c) \in Seq(Steps)
           /\ At(c, "heir") => Len(Rest(c)) = 1 /\ Rest(c)[1].do = "leave"
                               /\ Rest(c) \in Seq(Steps)
<1>1. Busy(c)
  BY DEF Closing
<1> DEFINE p == work[c].plan
           q == Rest(c)
<1>2. /\ Len(p) \in Nat /\ Len(p) > 0 /\ Head(p) = p[1] /\ q \in Seq(Steps)
      /\ Len(q) = Len(p) - 1 /\ \A i \in 1..Len(q) : q[i] = p[i + 1]
  BY <1>1, AtStep
<1>3. Shaped(p)
  BY DEF Closes
<1>4. \A what : At(c, what) <=> p[1].do = what
  BY <1>1, <1>2 DEF At
<1> HIDE DEF p, q
<1>5. /\ p[1].do \in {"owned", "hand_over"} =>
            Len(q) = 2 /\ q[1].do = "heir" /\ q[2].do = "leave"
      /\ p[1].do = "heir" => Len(q) = 1 /\ q[1].do = "leave"
      /\ p[1].do \in {"owned", "hand_over", "heir", "leave"}
  BY <1>2, <1>3 DEF Shaped
<1>6. Owned(c) \/ Heir(c) \/ HandOver(c) \/ Leave(c)
  BY <1>4, <1>5 DEF Step, Find, IsOwner, HasRow, Index, Read, Each, Say, Sheet, Create, Rename, Delete,
         Invite, Revoke, NotOwner, Remove, Claim, Decide, Put, Mark
<1>7. p[1].do # "leave" => Shaped(q)
  BY <1>5 DEF Shaped
<1> QED
  BY <1>2, <1>4, <1>5, <1>6, <1>7 DEF p, q

LEMMA FirstOf ==
    ASSUME NEW p \in Seq(Steps), Len(p) > 0
    PROVE  p # <<>> /\ Head(p) = p[1]
OBVIOUS

LEMMA OwnedCloses ==
    ASSUME Inv, HandInv, Remember, NEW c \in Callers, Owned(c), Closing(c)'
    PROVE  Closes(c)'
<1>0. /\ Busy(c) /\ At(c, "owned") /\ Ask(c).deed = "close" /\ work[c] \in Workings
      /\ lists' = lists
  BY AtStep, SuitsAtHead DEF Owned, At, tables
<1>1. Closing(c) /\ Closes(c)
  BY <1>0 DEF Closing, HandInv
<1> DEFINE left == OwnedBy(Me(c))
           q == Rest(c)
<1>2. Shaped(q) /\ Len(q) = 2 /\ q[1].do = "heir" /\ q \in Seq(Steps)
  <2>1. ~At(c, "leave")
    BY <1>0 DEF At
  <2> QED
    BY <1>0, <1>1, <2>1, AtClosing DEF Step
<1>3. work'[c] = [work[c] EXCEPT !.left = left, !.plan = q]
  BY BecomesIs DEF Owned
<1> HIDE DEF q
<1>4. work'[c].asked = work[c].asked /\ work'[c].plan = q /\ work'[c].left = left
  <2> HIDE DEF left
  <2> QED
    BY <1>0, <1>3 DEF Workings
<1>5. Me(c)' = Me(c) /\ Busy(c)' /\ At(c, "heir")' /\ ~At(c, "leave")' /\ ~At(c, "hand_over")'
  <2> HIDE DEF left
  <2>0. q \in Seq(Steps) /\ Len(q) > 0 /\ q[1].do = "heir"
    BY <1>2
  <2>1. q # <<>> /\ Head(q).do = "heir"
    BY <2>0, FirstOf
  <2> QED
    BY <1>4, <2>1 DEF Me, Busy, At
<1>6. ASSUME alone[c], NEW m \in shared[c]
      PROVE  Kept(c, m[1])'
  <2>1. lists[m[1]].owner = Me(c) /\ There(m[1]) /\ m[1] \in ListIds
    BY <1>0, <1>1, <1>6, StandsOn DEF Closes, Kept
  <2> QED
    BY <1>0, <1>4, <1>5, <2>1 DEF Kept, OwnedBy, Pending
<1> QED
  BY <1>1, <1>2, <1>4, <1>5, <1>6, ClosesOn

LEMMA HeirCloses ==
    ASSUME Inv, HandInv, Remember, NEW c \in Callers, Heir(c), Closing(c)'
    PROVE  Closes(c)'
<1>0. /\ Busy(c) /\ At(c, "heir") /\ Ask(c).deed = "close" /\ work[c] \in Workings
      /\ lists' = lists
  BY AtStep, HeirDoes DEF Heir, At, tables
<1>1. Closing(c) /\ Closes(c) /\ ~At(c, "owned") /\ ~At(c, "leave") /\ ~At(c, "hand_over")
  BY <1>0 DEF Closing, HandInv, At
<1>2. CASE work[c].left = {} /\ Continue(c)
  <2> DEFINE q == Rest(c)
  <2>1. Shaped(q) /\ Len(q) = 1 /\ q[1].do = "leave" /\ q \in Seq(Steps)
    BY <1>0, <1>1, AtClosing DEF Step
  <2>2. work'[c] = [work[c] EXCEPT !.plan = q]
    BY <1>2, BecomesIs DEF Continue
  <2> HIDE DEF q
  <2>3. /\ work'[c].asked = work[c].asked /\ work'[c].plan = q
        /\ work'[c].left = work[c].left
    BY <1>0, <2>2 DEF Workings
  <2>4. Me(c)' = Me(c) /\ ~At(c, "owned")' /\ ~At(c, "hand_over")'
    <3>1. q # <<>> /\ Head(q).do = "leave"
      BY <2>1, FirstOf
    <3> QED
      BY <2>3, <3>1 DEF Me, Busy, At
  <2>5. ASSUME alone[c], NEW m \in shared[c]
        PROVE  Kept(c, m[1])'
    <3>1. lists[m[1]].owner # Me(c)
      BY <1>1, <1>2, <2>5 DEF Closes, Kept, Pending
    <3> QED
      BY <1>0, <1>2, <2>3, <2>4, <3>1 DEF Kept, Pending
  <2> QED
    BY <1>1, <1>2, <2>1, <2>3, <2>4, <2>5, ClosesOn
<1> DEFINE l == NextOf(c)
<1>3. CASE /\ l \in work[c].left /\ MembersOf(l) = {}
           /\ Becomes(c, [work[c] EXCEPT !.left = work[c].left \ {l}])
  <2>1. work'[c] = [work[c] EXCEPT !.left = work[c].left \ {l}]
    BY <1>3, BecomesIs
  <2> HIDE DEF l
  <2>2. /\ work'[c].asked = work[c].asked /\ work'[c].plan = work[c].plan
        /\ work'[c].left = work[c].left \ {l}
    BY <1>0, <2>1 DEF Workings
  <2>3. Me(c)' = Me(c) /\ \A what : At(c, what)' = At(c, what)
    BY <2>2 DEF Me, Busy, At
  <2>4. ASSUME alone[c], NEW m \in shared[c]
        PROVE  Kept(c, m[1])'
    <3>1. Kept(c, m[1]) /\ m \in Standing /\ m[2] # Me(c)
      BY <1>1, <2>4 DEF Closes
    <3>2. lists[m[1]].owner = Me(c) => m[1] # l
      BY <1>3, <3>1, StandsOn
    <3> QED
      BY <1>0, <1>1, <2>2, <2>3, <3>1, <3>2 DEF Kept, Pending
  <2> QED
    BY <1>1, <2>2, <2>3, <2>4, ClosesOn DEF Closes
<1>4. CASE /\ l \in work[c].left /\ LongestStanding(l) \in MembersOf(l)
           /\ Becomes(c, [work[c] EXCEPT !.left = work[c].left \ {l}, !.list = l,
                              !.heir = LongestStanding(l),
                              !.plan = <<Do("hand_over")>> \o work[c].plan])
  <2> DEFINE p == work[c].plan
             q == <<Do("hand_over")>> \o p
             heir == LongestStanding(l)
  <2>1. /\ Shaped(q) /\ q # <<>> /\ Head(q).do = "hand_over"
    <3>1. p \in Seq(Steps) /\ Len(p) = 2 /\ p[1].do = "heir" /\ p[2].do = "leave"
      <4>1. p \in Seq(Steps) /\ Shaped(p) /\ p[1].do = "heir"
        BY <1>0, <1>1, AtStep DEF Closes, At
      <4> HIDE DEF p
      <4> QED
        BY <4>1 DEF Shaped
    <3> DEFINE s == <<Do("hand_over")>>
    <3>2. s \in Seq(Steps) /\ Len(s) = 1 /\ s[1].do = "hand_over"
      BY DEF Do, Steps, NoRole
    <3> HIDE DEF p, s
    <3> DEFINE r == s \o p
    <3>3. /\ r \in Seq(Steps) /\ Len(r) = 3
          /\ r[1].do = "hand_over" /\ r[2].do = "heir" /\ r[3].do = "leave"
      <4>1. Len(r) = Len(s) + Len(p) /\ r[1] = s[1] /\ r[Len(s) + 1] = p[1] /\ r[Len(s) + 2] = p[2]
            /\ r \in Seq(Steps)
        BY <3>1, <3>2, Joined
      <4> QED
        BY <3>1, <3>2, <4>1
    <3>4. r = q
      BY DEF s
    <3> HIDE DEF r, q
    <3>5. r \in Seq(Steps) /\ Len(r) > 0 /\ r[1].do = "hand_over" /\ Shaped(r)
      BY <3>3 DEF Shaped
    <3>6. Shaped(r) /\ r # <<>> /\ Head(r).do = "hand_over"
      BY <3>5, FirstOf
    <3> QED
      BY <3>4, <3>6
  <2>2. work'[c] = [work[c] EXCEPT !.left = work[c].left \ {l}, !.list = l, !.heir = heir, !.plan = q]
    BY <1>4, BecomesIs
  <2> HIDE DEF p, q, heir
  <2>3. /\ work'[c].asked = work[c].asked /\ work'[c].plan = q
        /\ work'[c].left = work[c].left \ {l} /\ work'[c].list = l /\ work'[c].heir = heir
    <3> HIDE DEF l
    <3> QED
      BY <1>0, <2>2 DEF Workings
  <2>4. /\ Me(c)' = Me(c) /\ ~At(c, "owned")' /\ ~At(c, "leave")' /\ At(c, "hand_over")'
        /\ \A k : Pending(c, k)' <=> k = l
    BY <2>1, <2>3 DEF Me, Busy, At, Pending
  <2>5. ASSUME alone[c], NEW m \in shared[c]
        PROVE  Kept(c, m[1])'
    <3>1. Kept(c, m[1]) /\ m \in Standing
      BY <1>1, <2>5 DEF Closes
    <3>2. m[1] = l /\ lists[l].owner = Me(c) => heir # Me(c)
      BY <1>4, <3>1, StandsOn DEF heir
    <3> HIDE DEF l
    <3>3. CASE lists[m[1]].owner # Me(c)
      BY <1>0, <1>4, <2>3, <2>4, <3>1, <3>3 DEF Kept
    <3>4. CASE lists[m[1]].owner = Me(c) /\ m[1] = l
      BY <1>0, <2>3, <2>4, <3>2, <3>4 DEF Kept
    <3>5. CASE lists[m[1]].owner = Me(c) /\ m[1] # l
      BY <1>0, <1>1, <2>3, <2>4, <3>1, <3>5 DEF Kept, Pending
    <3> QED
      BY <3>3, <3>4, <3>5
  <2> QED
    BY <1>1, <2>1, <2>3, <2>4, <2>5, ClosesOn
<1> QED
  BY <1>2, <1>3, <1>4, HeirDoes

LEMMA HandOverCloses ==
    ASSUME Inv, HandInv, Remember, NEW c \in Callers, HandOver(c), Closing(c)'
    PROVE  Closes(c)'
<1>0. /\ Busy(c) /\ At(c, "hand_over") /\ Ask(c).deed = "close" /\ work[c] \in Workings
  BY AtStep, SuitsAtHead DEF HandOver, At
<1>1. Closing(c) /\ Closes(c) /\ ~At(c, "owned") /\ ~At(c, "leave")
  BY <1>0 DEF Closing, HandInv, At
<1> DEFINE q == Rest(c)
<1>2. Shaped(q) /\ Len(q) = 2 /\ q[1].do = "heir" /\ q \in Seq(Steps)
  BY <1>0, <1>1, AtClosing DEF Step
<1>3. ~Finish(c)
  <2> SUFFICES ASSUME Finish(c) PROVE FALSE
    OBVIOUS
  <2>1. work'[c] = NoWork
    BY FinishMoves
  <2> QED
    BY <2>1 DEF Closing, Busy, NoWork
<1>4. /\ Continue(c)
      /\ lists' = IF There(work[c].list) THEN [lists EXCEPT ![work[c].list].owner = work[c].heir]
                  ELSE lists
  BY <1>3 DEF HandOver
<1>5. work'[c] = [work[c] EXCEPT !.plan = q]
  BY <1>4, BecomesIs DEF Continue
<1> HIDE DEF q
<1>6. /\ work'[c].asked = work[c].asked /\ work'[c].plan = q /\ work'[c].left = work[c].left
  BY <1>0, <1>5 DEF Workings
<1>7. Me(c)' = Me(c) /\ ~At(c, "owned")' /\ ~At(c, "leave")' /\ ~At(c, "hand_over")'
  <2>0. q \in Seq(Steps) /\ Len(q) > 0 /\ q[1].do = "heir"
    BY <1>2
  <2>1. q # <<>> /\ Head(q).do = "heir"
    BY <2>0, FirstOf
  <2> QED
    BY <1>6, <2>1 DEF Me, Busy, At
<1>8. ASSUME alone[c], NEW m \in shared[c]
      PROVE  Kept(c, m[1])'
  <2> DEFINE l == m[1]
  <2>1. Kept(c, l) /\ l \in ListIds /\ There(l)
    BY <1>1, <1>8, StandsOn DEF Closes
  <2>2. lists \in [ListIds -> Maybe(Lists)] /\ lists[l] \in Lists
    BY <2>1 DEF Inv, MembershipTypeOK, There, Maybe
  <2> HIDE DEF l
  <2>3. CASE work[c].list = l
    <3>1. lists'[l].owner = work[c].heir
      BY <1>4, <2>1, <2>2, <2>3 DEF Lists
    <3>2. work[c].heir # Me(c) /\ l \notin work[c].left
      BY <1>0, <1>1, <2>1, <2>3 DEF Kept, Pending
    <3> QED
      BY <1>6, <1>7, <3>1, <3>2 DEF Kept, Pending, l
  <2>4. CASE work[c].list # l
    <3>1. lists'[l] = lists[l]
      BY <1>4, <2>1, <2>2, <2>4
    <3> QED
      BY <1>1, <1>6, <1>7, <2>1, <2>4, <3>1 DEF Kept, Pending, l
  <2> QED
    BY <2>3, <2>4
<1> QED
  BY <1>1, <1>2, <1>6, <1>7, <1>8, ClosesOn

LEMMA StepKeepsAsked ==
    ASSUME Inv, NEW c \in Callers, Busy(c), Step(c), work'[c] # NoWork
    PROVE  work'[c].asked = work[c].asked
<1>0. work[c] \in Workings
  BY AtStep
<1>1. ASSUME NEW w, Becomes(c, w), w.asked = work[c].asked
      PROVE  work'[c].asked = work[c].asked
  BY <1>1, BecomesIs
<1>2. ~Finish(c)
  BY FinishMoves
<1>3. Continue(c) => work'[c].asked = work[c].asked
  BY <1>0, <1>1 DEF Continue, Workings
<1>4. Turned(c) => work'[c].asked = work[c].asked
  BY <1>0, <1>1, <1>2 DEF Turned, SaysOf, Workings
<1>5. CASE Find(c)
  BY <1>0, <1>1, <1>4, <1>5 DEF Find, Workings
<1>6. CASE IsOwner(c)
  BY <1>0, <1>1, <1>3, <1>6 DEF IsOwner, Workings
<1>7. CASE HasRow(c)
  BY <1>0, <1>1, <1>4, <1>7 DEF HasRow, Workings
<1>8. CASE Index(c)
  BY <1>0, <1>1, <1>8 DEF Index, Page, Workings
<1>9. CASE Read(c)
  BY <1>0, <1>1, <1>9 DEF Read, Workings
<1>10. CASE Each(c)
  BY <1>0, <1>1, <1>2, <1>10 DEF Each, Workings
<1>11. CASE Say(c)
  BY <1>0, <1>1, <1>11 DEF Say, Workings
<1>12. CASE Claim(c)
  BY <1>0, <1>1, <1>2, <1>12 DEF Claim, Workings
<1>13. CASE Decide(c)
  BY <1>0, <1>1, <1>2, <1>13 DEF Decide, Workings
<1>14. CASE NotOwner(c) \/ Put(c) \/ HandOver(c)
  BY <1>2, <1>3, <1>14 DEF NotOwner, Put, HandOver
<1>15. CASE Owned(c)
  BY <1>0, <1>1, <1>15 DEF Owned, Workings
<1>16. CASE Heir(c)
  BY <1>0, <1>1, <1>3, <1>16, HeirDoes DEF Workings
<1> QED
  BY <1>2, <1>5, <1>6, <1>7, <1>8, <1>9, <1>10, <1>11, <1>12, <1>13, <1>14, <1>15, <1>16
     DEF Step, Sheet, Create, Rename, Delete, Invite, Revoke, Remove, Mark, Leave

LEMMA NextKeepsHands ==
    ASSUME Inv, HandInv, HistoryNext
    PROVE  HandInv'
<1> SUFFICES ASSUME NEW c \in Callers, Closing(c)' PROVE Closes(c)'
  BY DEF HandInv
<1>0. Remember
  BY DEF HistoryNext
<1>1. CASE Tick
  BY <1>0, <1>1, OthersLeaveItClosing DEF Tick, tables
<1>2. ASSUME NEW d \in Callers, Arrive(d) \/ Step(d) \/ Cut(d)
      PROVE  Closes(c)'
  <2>1. CASE d # c
    <3>1. work'[c] = work[c]
      BY <1>2, <2>1, StepMoves DEF Moved, Others
    <3> QED
      BY <1>0, <1>2, <2>1, <3>1, OthersLeaveItClosing
  <2>2. CASE d = c /\ Arrive(c)
    BY <1>0, <2>2, ArriveCloses
  <2>3. CASE d = c /\ Step(c)
    <3>1. Closing(c)
      <4>1. Busy(c)
        BY <2>3 DEF Step, At, Find, IsOwner, HasRow, Index, Read, Each, Say, Sheet, NotOwner, Claim, Decide,
               Owned, Heir, Create, Rename, Delete, Invite, Revoke, Remove, Put, Mark, HandOver, Leave
      <4>2. work'[c] # NoWork
        BY DEF Closing, Busy, NoWork
      <4>3. ~(\/ Sheet(c) \/ Create(c) \/ Rename(c) \/ Delete(c) \/ Invite(c) \/ Revoke(c)
              \/ Remove(c) \/ Mark(c) \/ Leave(c))
        BY <4>2, FinishingMoves
      <4>4. work'[c].asked = work[c].asked
        BY <2>3, <4>1, <4>2, <4>3, StepKeepsAsked
      <4> QED
        BY <4>1, <4>4 DEF Closing, Ask
    <3>2. Owned(c) \/ Heir(c) \/ HandOver(c) \/ Leave(c)
      BY <2>3, <3>1, AtClosing DEF HandInv
    <3>3. ~Leave(c)
      <4> SUFFICES ASSUME Leave(c) PROVE FALSE
        OBVIOUS
      <4>1. work'[c] = NoWork
        BY FinishingMoves
      <4> QED
        BY <4>1 DEF Closing, Busy, NoWork
    <3> QED
      BY <1>0, <3>2, <3>3, OwnedCloses, HeirCloses, HandOverCloses
  <2>4. CASE d = c /\ Cut(c)
    <3>1. work'[c] = NoWork
      BY <2>4, FinishingMoves
    <3> QED
      BY <3>1 DEF Closing, Busy, NoWork
  <2> QED
    BY <1>2, <2>1, <2>2, <2>3, <2>4
<1> QED
  BY <1>1, <1>2 DEF HistoryNext, Next

LEMMA SpecKeepsHands == HistorySpec => [](Inv /\ HandInv)
<1>1. HistoryInit => Inv /\ HandInv
  <2>1. ASSUME HistoryInit, NEW c \in Callers
        PROVE  ~Closing(c)
    <3>1. work[c] = NoWork
      BY <2>1 DEF HistoryInit, Init
    <3> QED
      BY <3>1 DEF Closing, Busy, NoWork
  <2> QED
    BY <2>1, InitIsTyped DEF HistoryInit, HandInv
<1>2. Inv /\ HandInv /\ [HistoryNext]_<<vars, history>> => (Inv /\ HandInv)'
  <2> SUFFICES ASSUME Inv, HandInv, [HistoryNext]_<<vars, history>> PROVE Inv' /\ HandInv'
    OBVIOUS
  <2>1. Inv'
    BY NextKeepsInv DEF HistoryNext, history
  <2>2. CASE UNCHANGED <<vars, history>>
    <3>1. lists' = lists /\ members' = members /\ work' = work /\ shared' = shared /\ alone' = alone
      BY <2>2 DEF vars, history
    <3>2. Standing' = Standing
      BY <3>1 DEF Standing, VisibleTo, MembersOf, There
    <3>3. ASSUME NEW c \in Callers
          PROVE  Closing(c)' = Closing(c) /\ Closes(c)' = Closes(c)
      BY <3>1, <3>2 DEF Closing, Closes, Kept, Pending, At, Busy, Ask, Me
    <3> QED
      BY <2>1, <3>3 DEF HandInv
  <2> QED
    BY <2>1, <2>2, NextKeepsHands
<1> QED
  BY <1>1, <1>2, PTL DEF HistorySpec

(* Closing an account, with no other closing at the time, leaves every     *)
(* list of it that somebody shares from before to after in being, and      *)
(* theirs to see (users::close_account), but for a list whose owner has a  *)
(* row on it as well.                                                      *)
THEOREM SharedListsOutliveAccounts == HistorySpec => HandoverKeepsTheList
<1>1. ASSUME Inv, HandInv, [HistoryNext]_<<vars, history>>,
             NEW c \in Callers, At(c, "leave"), present' # present, alone[c],
             NEW m \in shared[c]
      PROVE  (m[1] \in VisibleTo(m[2]))'
  <2>1. Closing(c) /\ Closes(c)
    <3>1. Ask(c).deed = "close"
      BY <1>1, SuitsAtHead DEF At
    <3> QED
      BY <1>1, <3>1 DEF At, Closing, HandInv
  <2>2. PICK d \in Callers : Leave(d)
    BY <1>1, ZenonT(60) DEF vars, history, HistoryNext, Next, Tick, tables, Arrive, Cut, Step, Find, IsOwner, HasRow,
         Index, Read, Each, Say, Sheet, NotOwner, Claim, Decide, Owned, Heir, Create, Rename, Delete,
         Invite, Revoke, Remove, Put, Mark, HandOver
  <2>3. Leave(c)
    <3>1. Closing(d)
      <4>1. Busy(d) /\ Head(work[d].plan).do = "leave"
        BY <2>2 DEF Leave, At
      <4> QED
        BY <1>1, <4>1, SuitsAtHead DEF Closing
    <3> QED
      BY <1>1, <2>1, <2>2, <3>1 DEF Closes
  <2>4. /\ m = <<m[1], m[2]>> /\ m[1] \in ListIds /\ m[2] \in People /\ There(m[1])
        /\ lists[m[1]].owner = m[2] \/ m[2] \in MembersOf(m[1])
        /\ m[2] # Me(c)
    BY <1>1, <2>1, StandsOn DEF Closes
  <2>5. lists[m[1]].owner # Me(c)
    <3>1. ~At(c, "owned") /\ ~At(c, "hand_over") /\ work[c].left = {} /\ Kept(c, m[1])
      BY <1>1, <2>1 DEF Closes, At
    <3> QED
      BY <3>1 DEF Kept, Pending
  <2>6. lists'[m[1]] = lists[m[1]]
    BY <2>3, <2>4, <2>5 DEF Leave, Cascade, OwnedBy
  <2>7. members'[<<m[1], m[2]>>] = members[<<m[1], m[2]>>]
    <3> DEFINE k == <<m[1], m[2]>>
    <3>1. k \in ListIds \X People /\ k[1] = m[1] /\ k[2] = m[2]
      BY <2>4
    <3>2. k[1] \notin OwnedBy(Me(c)) /\ k[2] \notin {Me(c)}
      BY <2>4, <2>5, <3>1 DEF OwnedBy
    <3> HIDE DEF k
    <3>3. members'[k] = members[k]
      BY <2>3, <3>1, <3>2 DEF Leave, Cascade
    <3> QED
      BY <3>3 DEF k
  <2> QED
    BY <2>4, <2>6, <2>7 DEF VisibleTo, There, MembersOf
<1>2. Inv /\ HandInv /\ [HistoryNext]_<<vars, history>> =>
        [\A c \in Callers :
          At(c, "leave") /\ present' # present /\ Me(c) \notin present' /\ alone[c] =>
             \A m \in shared[c] : (m[1] \in VisibleTo(m[2]))']_<<vars, history>>
  BY <1>1
<1> QED
  BY <1>2, SpecKeepsHands, PTL DEF HistorySpec, HandoverKeepsTheList
=============================================================================
