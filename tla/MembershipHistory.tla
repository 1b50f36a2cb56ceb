------------------------- MODULE MembershipHistory -------------------------
(***************************************************************************)
(* Membership with what has happened since each request arrived, which is  *)
(* what its properties speak of: who the share sheets have shown, whether  *)
(* a link had ended already, who has shared the lists of a closing account *)
(* all the while.  The history follows the steps and holds none up.        *)
(***************************************************************************)
EXTENDS Membership

VARIABLES
    seat,    \* seat[c]: the lists whoever asks has been on since the request arrived,
             \* and in what roles, by what a share sheet shows
    ended,   \* ended[c]: the link c follows was already spent, withdrawn or too old
             \* when the request arrived
    shared,  \* shared[c], of an account being closed: who has shared which of its
             \* lists from the moment that was asked until now
    alone    \* alone[c]: no other account has been closing meanwhile

history == <<seat, ended, shared, alone>>

Arrives(c) == ~Busy(c) /\ work'[c].plan # <<>>

SeatsOf(c) == IF Busy(c)
              THEN {m \in ListIds \X Roles : There(m[1]) /\ <<Me(c), m[2]>> \in PeopleOn(m[1])}
              ELSE {}

Ended(asked) == asked.deed = "join" /\ (~Claimable(asked.token) \/ invites[asked.token].used)

(* Who can see which list, those lists left out that have a row for their  *)
(* own owner, as a link followed while the list was being handed over      *)
(* leaves one.                                                             *)
Standing ==
    {m \in ListIds \X People : m[1] \in VisibleTo(m[2])
                               /\ lists[m[1]].owner \notin MembersOf(m[1])}

SharedOf(u) == {m \in Standing : m[1] \in OwnedBy(u) /\ m[2] # u}

Closing(c) == Busy(c) /\ Ask(c).deed = "close"

HistoryInit ==
    /\ Init
    /\ seat = [c \in Callers |-> {}]
    /\ ended = [c \in Callers |-> FALSE]
    /\ shared = [c \in Callers |-> {}]
    /\ alone = [c \in Callers |-> TRUE]

Remember ==
    /\ seat' = [c \in Callers |->
                   IF Arrives(c) \/ ~Busy(c)' THEN SeatsOf(c)'
                   ELSE seat[c] \cup SeatsOf(c)']
    /\ ended' = [c \in Callers |->
                   IF Arrives(c) THEN Ended(work'[c].asked) ELSE Busy(c)' /\ ended[c]]
    /\ shared' = [c \in Callers |->
                   IF ~Closing(c)' THEN {}
                   ELSE (IF Arrives(c) THEN SharedOf(work'[c].asked.by) ELSE shared[c])
                        \cap Standing']
    /\ alone' = [c \in Callers |->
                   Closing(c)' => (\A d \in Callers \ {c} : ~Closing(d)')
                                  /\ (Closing(c) => alone[c])]

HistoryNext == Next /\ Remember

HistorySpec == HistoryInit /\ [][HistoryNext]_<<vars, history>>

----------------------------------------------------------------------------
(* What must hold.                                                         *)

RoleFor(asked) ==
    IF asked.deed \in {"read", "sheet"} \/ (asked.deed = "remove" /\ asked.who = asked.by)
    THEN Viewer ELSE Owner

Acting(c) == At(c, "read") \/ At(c, "sheet") \/ At(c, "rename") \/ At(c, "delete") \/ At(c, "invite")
             \/ At(c, "revoke") \/ At(c, "remove")

(* "The one door" (lists::accessible): a list is read, changed, shared or   *)
(* taken from somebody only on behalf of a person whom its share sheet has  *)
(* shown, since they asked, in the role it takes.                           *)
ActsWereAllowed ==
    \A c \in Callers : Acting(c) => \E r \in Roles : <<Ask(c).list, r>> \in seat[c] /\ r >= RoleFor(Ask(c))

(* An index, and a list read by itself, say of each list a role the person  *)
(* has held on it since they asked, or that they may look at one they were  *)
(* on; never more, whatever is shared, taken away or closed while the roles *)
(* are being read (ListWithRole: a client "offers every control and lets    *)
(* the server refuse them, or hides controls the person is entitled to").   *)
RolesAreAsSaid ==
    \A c \in Callers, l \in ListIds :
        LET said == work[c].said[l] IN
        said # NoRole => \E r \in Roles : <<l, r>> \in seat[c] /\ said \in {r, Viewer}

(* A link that was spent, withdrawn, deleted with its list or out of date   *)
(* when somebody follows it seats nobody and raises nobody, whatever they   *)
(* are on the list already (lists::join: "A spent link grants nothing").    *)
EndedLinksSeatNobody ==
    \A c \in Callers : At(c, "put") => ~ended[c]

(* Closing an account, with no other closing at the time, leaves every list *)
(* of it that somebody shares from before to after in being, and theirs to  *)
(* see (users::close_account: "They did nothing, and they would open the    *)
(* app to find it gone").  Lists on which their owner has a row as well are *)
(* excepted: the longest standing may be the one who leaves, and the list   *)
(* is then handed to them and goes with them.                               *)
HandoverKeepsTheList ==
    [][\A c \in Callers :
          At(c, "leave") /\ present' # present /\ Me(c) \notin present' /\ alone[c] =>
             \A m \in shared[c] : (m[1] \in VisibleTo(m[2]))']_<<vars, history>>

=============================================================================
