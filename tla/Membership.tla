----------------------------- MODULE Membership -----------------------------
(***************************************************************************)
(* Whose a list is, who is on it, and how that changes: web/domain/src/    *)
(* service/lists.rs and the half of users.rs that closes an account, over  *)
(* models/list.rs and models/invite.rs, as the routes of web/api/src/      *)
(* routes/lists.rs and sharing.rs call them.                               *)
(*                                                                         *)
(* The one door, lists::accessible, reads the list, then its owner, then   *)
(* the row of whoever asks; what is asked is written after that; and none  *)
(* of it is in a transaction.  So a request is a plan, as in Admission: a  *)
(* sequence of steps, each one statement, with those of other requests in  *)
(* between, and a dropped connection ends it anywhere.                     *)
(*                                                                         *)
(* Modelled: lists with the row ids SQLite gives them (a deleted list's id *)
(* is given again), their owner and name, members with their role and      *)
(* standing, links with their role, maker, use and expiry, accounts and    *)
(* the cascades of closing one.                                            *)
(* Left out: what is on a list (SyncServer), who may sign in and ids of    *)
(* closed accounts given again (Admission), who is told (Watching), paging *)
(* and the order of an index (Paging), and its badges in a browser.        *)
(***************************************************************************)
EXTENDS Integers, Sequences

CONSTANTS
    Callers,    \* requests that may be under way at once
    People,     \* the ids of those who have an account, in row order
    MaxLists,   \* bound on the row ids of lists in use
    MaxTokens,  \* bound on the links ever made
    MaxTime,    \* bound on the clock
    Valid,      \* VALID_FOR_DAYS, in units of the clock
    Names,      \* what a list may be called
    Requests,   \* what callers may ask
    Stored,     \* databases to start from, with no links: foreign keys are enforced,
                \* and put writes no role an invitation cannot have
    None

ListIds == 1..MaxLists
Tokens == 1..MaxTokens
Maybe(S) == S \cup {None}

(* Role, in its order, and the absence of one.                             *)
NoRole == 0
Viewer == 1
Editor == 2
Owner == 3
Roles == Viewer..Owner

(* What each front end can be asked for: of lists and of sharing by the    *)
(* API, by the pages, and by the server inside an app.                     *)
ListDeeds == {"index", "create", "read", "rename", "delete", "close"}
SharingDeeds == {"read", "invite", "revoke", "remove", "join"}
PageDeeds == {"create", "rename", "delete", "sheet", "hand_out", "revoke", "remove", "join"}
AppDeeds == {"index", "create", "rename", "delete"}
Deeds == ListDeeds \cup SharingDeeds \cup PageDeeds \cup AppDeeds

(* What is asked, by whom, and the arguments: a removal names `who`, an    *)
(* invitation a role, a join the token of a link.                          *)
Asked == [by: People, deed: Deeds, list: ListIds, name: Names, who: People,
          role: Roles, token: Tokens]

Lists == [owner: People, name: Names]
Members == [role: Roles, added: Nat]
Invites == [list: ListIds, role: Roles, by: People, expires: Nat, used: BOOLEAN]

VARIABLES
    present,   \* the people whose account is still open
    lists,     \* the lists table; None: no such row
    members,   \* list_members
    invites,   \* list_invites, by the token a row is the hash of
    issued,    \* how many links have been made: no token is minted twice
    now,       \* the clock
    work       \* work[c]: the request c has under way

tables == <<present, lists, members, invites, issued>>
vars == <<present, lists, members, invites, issued, now, work>>

MembershipAssumption ==
    /\ People \subseteq Nat
    /\ Requests \subseteq Asked
    /\ Stored \subseteq
         [present: SUBSET People, lists: [ListIds -> Maybe(Lists)],
          members: [ListIds \X People -> Maybe(Members)]]
    /\ \A db \in Stored, l \in ListIds :
          /\ db.lists[l] # None => db.lists[l].owner \in db.present
          /\ \A u \in People : db.members[<<l, u>>] # None =>
                db.lists[l] # None /\ u \in db.present /\ db.members[<<l, u>>].role < Owner
    /\ MaxLists \in Nat \ {0} /\ MaxTokens \in Nat /\ MaxTime \in Nat
    /\ Valid \in Nat \ {0}
    /\ None \notin Lists /\ None \notin Members /\ None \notin Invites
    /\ None \notin Nat /\ None \notin Requests
ASSUME MembershipAssumption

----------------------------------------------------------------------------
(* Reading the tables.                                                     *)

There(l) == lists[l] # None

(* INTEGER PRIMARY KEY without AUTOINCREMENT: one more than the greatest.  *)
NextList(l) ==
    /\ \A m \in ListIds : m >= l => ~There(m)
    /\ l > 1 => There(l - 1)

RowRole(l, u) == IF members[<<l, u>>] = None THEN NoRole ELSE members[<<l, u>>].role

(* ListMember::for_list: the owner is not among them.                      *)
MembersOf(l) == {u \in People : members[<<l, u>>] # None}

(* List::visible_to: owned, or shared with them.                           *)
VisibleTo(u) == {l \in ListIds : There(l) /\ (lists[l].owner = u \/ u \in MembersOf(l))}

(* lists::people_on: the owner first, as a person, then every member.      *)
PeopleOn(l) == {<<lists[l].owner, Owner>>} \cup {<<u, RowRole(l, u)>> : u \in MembersOf(l)}

(* List::members_by_standing, ORDER BY added_at, user_id: who comes first. *)
LongestStanding(l) ==
    CHOOSE u \in MembersOf(l) :
        \A v \in MembersOf(l) \ {u} :
            \/ members[<<l, u>>].added < members[<<l, v>>].added
            \/ members[<<l, u>>].added = members[<<l, v>>].added /\ u < v

OwnedBy(u) == {l \in ListIds : There(l) /\ lists[l].owner = u}

----------------------------------------------------------------------------
(* Requests.                                                               *)

(* A step, and the role it needs where it is one that looks a person up.   *)
Steps == [do: {"find", "owner", "row", "not_owner", "create", "index", "read",
               "each", "say", "sheet", "rename", "delete", "invite", "revoke",
               "remove", "claim", "decide", "put", "mark", "owned", "heir",
               "hand_over", "leave"},
          need: Roles \cup {NoRole}]

Do(what) == [do |-> what, need |-> NoRole]

NoWork == [asked |-> None, plan |-> <<>>, list |-> 1, owner |-> None,
           held |-> NoRole, link |-> None, left |-> {}, heir |-> None,
           said |-> [l \in ListIds |-> NoRole]]

Busy(c) == work[c].plan # <<>>
Ask(c) == work[c].asked
Me(c) == work[c].asked.by
At(c, what) == Busy(c) /\ Head(work[c].plan).do = what
Need(c) == Head(work[c].plan).need
Rest(c) == Tail(work[c].plan)

(* lists::accessible: List::get, and the two queries of role_of.           *)
RoleOf(need) == <<[do |-> "owner", need |-> need], [do |-> "row", need |-> need]>>
Door(need) == <<[do |-> "find", need |-> need]>> \o RoleOf(need)

(* Taking somebody off a list is the owner's, taking oneself off anybody's. *)
RemovalPlanForAll(asked) == Door(Viewer) \o <<Do("not_owner"), Do("remove")>>

RemovalPlan(asked) ==
    Door(Viewer) \o <<Do("not_owner")>>
    \o (IF asked.who # asked.by THEN Door(Owner) ELSE <<>>) \o <<Do("remove")>>

CreatePlan(asked) == <<Do("create")>>
RenamePlan(asked) == Door(Owner) \o <<Do("rename")>>
DeletePlan(asked) == Door(Owner) \o <<Do("delete")>>
RevokePlan(asked) == Door(Owner) \o <<Do("revoke")>>
InvitePlan(asked) == Door(Owner) \o <<Do("invite")>>

(* The browser's button reads the list first, for the page with the link.  *)
HandOutPlan(asked) == Door(Viewer) \o InvitePlan(asked)

(* One list, or all that are visible; then the role held on each of them.  *)
ReadPlan(asked) == Door(Viewer) \o <<Do("read"), Do("each")>>
IndexPlan(asked) == <<Do("index"), Do("each")>>

(* lists::role: the door, and the role once more, which may be gone.       *)
AskRole == Door(Viewer) \o RoleOf(Viewer)

(* The browser's share sheet: the list, the role, and who is on it.        *)
SheetPlan(asked) == Door(Viewer) \o AskRole \o Door(Viewer) \o <<Do("sheet")>>

JoinPlan(asked) == <<Do("claim")>> \o RoleOf(NoRole) \o <<Do("decide")>>
ClosePlan(asked) == <<Do("owned"), Do("heir"), Do("leave")>>

PlanOf(asked) ==
    CASE asked.deed = "create"   -> CreatePlan(asked)
      [] asked.deed = "index"    -> IndexPlan(asked)
      [] asked.deed = "read"     -> ReadPlan(asked)
      [] asked.deed = "sheet"    -> SheetPlan(asked)
      [] asked.deed = "rename"   -> RenamePlan(asked)
      [] asked.deed = "delete"   -> DeletePlan(asked)
      [] asked.deed = "invite"   -> InvitePlan(asked)
      [] asked.deed = "hand_out" -> HandOutPlan(asked)
      [] asked.deed = "revoke"   -> RevokePlan(asked)
      [] asked.deed = "remove"   -> RemovalPlan(asked)
      [] asked.deed = "join"     -> JoinPlan(asked)
      [] asked.deed = "close"    -> ClosePlan(asked)

Becomes(c, w) == work' = [work EXCEPT ![c] = w]
Continue(c) == Becomes(c, [work[c] EXCEPT !.plan = Rest(c)])
Finish(c) == Becomes(c, NoWork)

(* A list that is not there, or not theirs, ends a request; of one that is *)
(* on a page already, "viewer is the least it can be".                     *)
OnAPage(c) == \E i \in DOMAIN work[c].plan : work[c].plan[i].do = "say"

SaysOf(c, role) ==
    Becomes(c, [work[c] EXCEPT !.said[work[c].list] = role, !.plan = <<Do("each")>>])

TurnedWithTheLast(c) == IF OnAPage(c) THEN SaysOf(c, work[c].held) ELSE Finish(c)

Turned(c) == IF OnAPage(c) THEN SaysOf(c, Viewer) ELSE Finish(c)

(* Who asks was found to have an account before the handler was entered.   *)
Arrive(c) ==
    /\ ~Busy(c)
    /\ \E asked \in Requests :
        /\ asked.by \in present
        /\ asked.deed = "join" => asked.token <= issued
        /\ Becomes(c, [NoWork EXCEPT !.asked = asked, !.plan = PlanOf(asked),
                                     !.list = asked.list])
    /\ UNCHANGED <<tables, now>>

----------------------------------------------------------------------------
(* Who may do what: List::get and ListMember::role_of, one read each.      *)

Find(c) ==
    LET l == work[c].list IN
    /\ At(c, "find")
    /\ IF There(l)
       THEN Becomes(c, [work[c] EXCEPT !.owner = lists[l].owner, !.plan = Rest(c)])
       ELSE Turned(c)
    /\ UNCHANGED <<tables, now>>

(* role_of answers ownership from the list, before any row is asked for.   *)
IsOwner(c) ==
    LET l == work[c].list IN
    /\ At(c, "owner")
    /\ IF There(l) /\ lists[l].owner = Me(c)
       THEN Becomes(c, [work[c] EXCEPT !.held = Owner, !.plan = Tail(Rest(c))])
       ELSE Continue(c)
    /\ UNCHANGED <<tables, now>>

(* "Enough" is a comparison.  Somebody on no list is told it is not there, *)
(* somebody on it with less that they may not; a join goes on either way.  *)
Enough(c, held) == held >= Need(c)

HasRow(c) ==
    LET held == RowRole(work[c].list, Me(c)) IN
    /\ At(c, "row")
    /\ IF Enough(c, held)
       THEN Becomes(c, [work[c] EXCEPT !.held = held, !.plan = Rest(c)])
       ELSE Turned(c)
    /\ UNCHANGED <<tables, now>>

(* A page of lists, as it was read: their own say so themselves.           *)
Page(c, page) ==
    Becomes(c, [work[c] EXCEPT
        !.left = page \ OwnedBy(Me(c)), !.plan = Rest(c),
        !.said = [l \in ListIds |-> IF l \in page \cap OwnedBy(Me(c)) THEN Owner ELSE NoRole]])

Index(c) ==
    /\ At(c, "index") /\ Page(c, VisibleTo(Me(c)))
    /\ UNCHANGED <<tables, now>>

(* The list is as the door read it, its owner with it.                     *)
Read(c) ==
    /\ At(c, "read")
    /\ Becomes(c, [work[c] EXCEPT !.plan = Rest(c),
           !.left = IF work[c].owner = Me(c) THEN {} ELSE {work[c].list},
           !.said[work[c].list] = IF work[c].owner = Me(c) THEN Owner ELSE NoRole])
    /\ UNCHANGED <<tables, now>>

(* ListWithRole::of, for each list of the page that is somebody else's.    *)
Each(c) ==
    /\ At(c, "each")
    /\ IF work[c].left = {} THEN Finish(c)
       ELSE \E l \in work[c].left :
              Becomes(c, [work[c] EXCEPT !.list = l, !.left = @ \ {l},
                                         !.plan = AskRole \o <<Do("say")>> \o @])
    /\ UNCHANGED <<tables, now>>

Say(c) ==
    /\ At(c, "say")
    /\ Becomes(c, [work[c] EXCEPT !.said[work[c].list] = work[c].held, !.plan = Rest(c)])
    /\ UNCHANGED <<tables, now>>

(* The share sheet shows the role it read and who is on the list by now.   *)
Sheet(c) ==
    /\ At(c, "sheet") /\ Finish(c)
    /\ UNCHANGED <<tables, now>>

----------------------------------------------------------------------------
(* What an owner does.                                                     *)

(* lists::create, for somebody whose account is still there.               *)
Create(c) ==
    /\ At(c, "create") /\ Finish(c)
    /\ IF Me(c) \in present
       THEN \E l \in ListIds :
              NextList(l) /\
              lists' = [lists EXCEPT ![l] = [owner |-> Me(c), name |-> Ask(c).name]]
       ELSE UNCHANGED lists
    /\ UNCHANGED <<present, members, invites, issued, now>>

Rename(c) ==
    LET l == work[c].list IN
    /\ At(c, "rename") /\ Finish(c)
    /\ lists' = IF There(l) THEN [lists EXCEPT ![l].name = Ask(c).name] ELSE lists
    /\ UNCHANGED <<present, members, invites, issued, now>>

(* ON DELETE CASCADE: what goes with the lists `gone` and the people `who`: *)
(* the rows and links of those lists, and their own on other people's.     *)
CascadeKeepingLinks(gone, who) ==
    /\ lists' = [l \in ListIds |-> IF l \in gone THEN None ELSE lists[l]]
    /\ members' = [m \in ListIds \X People |->
                      IF m[1] \in gone \/ m[2] \in who THEN None ELSE members[m]]
    /\ invites' = [t \in Tokens |->
                      IF invites[t] # None /\ invites[t].list \in gone THEN None
                      ELSE invites[t]]

Cascade(gone, who) ==
    /\ lists' = [l \in ListIds |-> IF l \in gone THEN None ELSE lists[l]]
    /\ members' = [m \in ListIds \X People |->
                      IF m[1] \in gone \/ m[2] \in who THEN None ELSE members[m]]
    /\ invites' = [t \in Tokens |->
                      IF invites[t] # None /\ (invites[t].list \in gone \/ invites[t].by \in who)
                      THEN None ELSE invites[t]]

Delete(c) ==
    /\ At(c, "delete") /\ Finish(c)
    /\ Cascade({work[c].list}, {})
    /\ UNCHANGED <<present, issued, now>>

(* lists::invite: a link confers anything but ownership.                   *)
Invite(c) ==
    LET l == work[c].list IN
    /\ At(c, "invite") /\ Finish(c)
    /\ IF Ask(c).role < Owner /\ There(l) /\ Me(c) \in present
       THEN /\ issued < MaxTokens
            /\ issued' = issued + 1
            /\ invites' = [invites EXCEPT ![issued + 1] =
                  [list |-> l, role |-> Ask(c).role, by |-> Me(c),
                   expires |-> now + Valid, used |-> FALSE]]
       ELSE UNCHANGED <<issued, invites>>
    /\ UNCHANGED <<present, lists, members, now>>

(* Invite::revoke_all, the used ones too.                                  *)
Revoke(c) ==
    /\ At(c, "revoke") /\ Finish(c)
    /\ invites' = [t \in Tokens |->
                      IF invites[t] # None /\ invites[t].list = work[c].list THEN None
                      ELSE invites[t]]
    /\ UNCHANGED <<present, lists, members, issued, now>>

(* remove_member refuses to take the owner it read off their own list.     *)
NotOwner(c) ==
    /\ At(c, "not_owner")
    /\ IF Ask(c).who = work[c].owner THEN Finish(c) ELSE Continue(c)
    /\ UNCHANGED <<tables, now>>

Remove(c) ==
    /\ At(c, "remove") /\ Finish(c)
    /\ members' = [members EXCEPT ![<<work[c].list, Ask(c).who>>] = None]
    /\ UNCHANGED <<present, lists, invites, issued, now>>

----------------------------------------------------------------------------
(* Following a link (lists::join).                                         *)

(* Invite::claim: one that is known and in date, spent or not.             *)
Claimable(t) == invites[t] # None /\ invites[t].expires > now

Claim(c) ==
    LET t == Ask(c).token IN
    /\ At(c, "claim")
    /\ IF Claimable(t)
       THEN Becomes(c, [work[c] EXCEPT !.link = invites[t], !.list = invites[t].list,
                                       !.plan = Rest(c)])
       ELSE Finish(c)
    /\ UNCHANGED <<tables, now>>

(* A spent link still works for whoever is on the list, and grants nothing *)
(* to anybody.                                                             *)
GrantsWhatIsHigher(c) == work[c].held < work[c].link.role

Grants(c) == ~work[c].link.used /\ work[c].held < work[c].link.role

Decide(c) ==
    LET l == work[c].list
        owns == There(l) /\ lists[l].owner = Me(c)
        stranger == work[c].held = NoRole /\ ~owns
    IN
    /\ At(c, "decide")
    /\ IF work[c].link.used /\ stranger
       THEN Finish(c)
       ELSE Becomes(c, [work[c] EXCEPT
                !.plan = (IF Grants(c) THEN <<Do("put")>> ELSE <<>>) \o <<Do("mark")>>])
    /\ UNCHANGED <<tables, now>>

(* ListMember::put: a new row, or another role on the one there is.        *)
Put(c) ==
    LET l == work[c].list
        u == Me(c)
        row == members[<<l, u>>]
    IN
    /\ At(c, "put")
    /\ IF There(l) /\ u \in present
       THEN /\ members' = [members EXCEPT ![<<l, u>>] =
                  [role |-> work[c].link.role,
                   added |-> IF row = None THEN now ELSE row.added]]
            /\ Continue(c)
       ELSE UNCHANGED members /\ Finish(c)
    /\ UNCHANGED <<present, lists, invites, issued, now>>

Mark(c) ==
    LET t == Ask(c).token IN
    /\ At(c, "mark") /\ Finish(c)
    /\ invites' = IF invites[t] = None THEN invites
                  ELSE [invites EXCEPT ![t].used = TRUE]
    /\ UNCHANGED <<present, lists, members, issued, now>>

----------------------------------------------------------------------------
(* Closing an account (users::close_account).                              *)

Owned(c) ==
    /\ At(c, "owned")
    /\ Becomes(c, [work[c] EXCEPT !.left = OwnedBy(Me(c)), !.plan = Rest(c)])
    /\ UNCHANGED <<tables, now>>

(* The lists in the order of their ids: the heir of one is read, then it   *)
(* changes hands, then the next.  One nobody shares goes with the account. *)
LetThemCascade(c) == Continue(c)

NextHeir(c) ==
    IF work[c].left = {} THEN Continue(c)
    ELSE LET l == CHOOSE m \in work[c].left : \A k \in work[c].left : m <= k
             rest == work[c].left \ {l}
         IN IF MembersOf(l) = {}
            THEN Becomes(c, [work[c] EXCEPT !.left = rest])
            ELSE Becomes(c, [work[c] EXCEPT !.left = rest, !.list = l,
                                !.heir = LongestStanding(l),
                                !.plan = <<Do("hand_over")>> \o work[c].plan])

Heir(c) ==
    /\ At(c, "heir")
    /\ NextHeir(c)
    /\ UNCHANGED <<tables, now>>

(* List::hand_over, one transaction.  Nobody asks whose the list is by now. *)
HandOver(c) ==
    LET l == work[c].list
        heir == work[c].heir
    IN
    /\ At(c, "hand_over")
    /\ IF heir \in present \/ ~There(l)
       THEN /\ lists' = IF There(l) THEN [lists EXCEPT ![l].owner = heir] ELSE lists
            /\ members' = [members EXCEPT ![<<l, heir>>] = None]
            /\ Continue(c)
       ELSE UNCHANGED <<lists, members>> /\ Finish(c)
    /\ UNCHANGED <<present, invites, issued, now>>

(* User::delete, and everything of theirs: the lists they own by then, and *)
(* their rows and links on other people's.                                 *)
Leave(c) ==
    /\ At(c, "leave") /\ Finish(c)
    /\ present' = present \ {Me(c)}
    /\ Cascade(OwnedBy(Me(c)), {Me(c)})
    /\ UNCHANGED <<issued, now>>

----------------------------------------------------------------------------

Cut(c) ==
    /\ Busy(c) /\ Finish(c)
    /\ UNCHANGED <<tables, now>>

Step(c) ==
    \/ Find(c) \/ IsOwner(c) \/ HasRow(c)
    \/ Index(c) \/ Read(c) \/ Each(c) \/ Say(c) \/ Sheet(c)
    \/ Create(c) \/ Rename(c) \/ Delete(c) \/ Invite(c) \/ Revoke(c)
    \/ NotOwner(c) \/ Remove(c)
    \/ Claim(c) \/ Decide(c) \/ Put(c) \/ Mark(c)
    \/ Owned(c) \/ Heir(c) \/ HandOver(c) \/ Leave(c)

Tick ==
    /\ now < MaxTime /\ now' = now + 1
    /\ UNCHANGED <<tables, work>>

Init ==
    /\ \E db \in Stored :
        present = db.present /\ lists = db.lists /\ members = db.members
    /\ invites = [t \in Tokens |-> None]
    /\ issued = 0 /\ now = 0
    /\ work = [c \in Callers |-> NoWork]

Next ==
    \/ \E c \in Callers : Arrive(c) \/ Step(c) \/ Cut(c)
    \/ Tick

Spec == Init /\ [][Next]_vars

----------------------------------------------------------------------------
(* What must hold.                                                         *)

(* Type correctness: every row is of the type its table says, belongs to a *)
(* list, an owner, a member and a maker who are there, and a link never    *)
(* confers ownership, whatever is deleted under a request.                 *)
MembershipTypeOK ==
    /\ \A l \in ListIds : There(l) => lists[l].owner \in present
    /\ \A l \in ListIds, u \in People :
          members[<<l, u>>] # None => There(l) /\ u \in present /\ RowRole(l, u) < Owner
    /\ \A t \in Tokens :
          invites[t] # None => There(invites[t].list) /\ invites[t].by \in present
    /\ present \in SUBSET People
    /\ lists \in [ListIds -> Maybe(Lists)]
    /\ members \in [ListIds \X People -> Maybe(Members)]
    /\ invites \in [Tokens -> Maybe(Invites)]
    /\ issued \in 0..MaxTokens /\ now \in 0..MaxTime
    /\ work \in [Callers ->
          [asked: Maybe(Requests), plan: Seq(Steps), list: ListIds, owner: Maybe(People),
           held: Roles \cup {NoRole}, link: Maybe(Invites), left: SUBSET ListIds,
           heir: Maybe(People), said: [ListIds -> Roles \cup {NoRole}]]]

=============================================================================
