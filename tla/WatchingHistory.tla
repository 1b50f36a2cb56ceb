-------------------------- MODULE WatchingHistory --------------------------
(***************************************************************************)
(* Watching with what has happened so far, which is what its properties    *)
(* speak of: what each request changed and has yet to announce, what the   *)
(* finished ones announced, and whether a screen has read since it         *)
(* subscribed.  The history follows the steps and holds none up.           *)
(***************************************************************************)
EXTENDS Watching

VARIABLES
    owes,     \* owes[r]: what r wrote and has to announce, as <<subject, version>>
    told,     \* what finished requests announced, the latest version of each subject
    synced,   \* synced[w]: w has read since it subscribed
    spoilt    \* spoilt[w]: two loads of w crossed, or one failed, since its loop last read

history == <<owes, told, synced, spoilt>>

Writes(r) == At(r, "write") /\ version' # version /\ work'[r] # work[r]
Ends(r) == Busy(r) /\ ~Busy(r)'

(* What each request is to announce, of what it changes.  The audience of a  *)
(* deletion is who was on the list when it looked; a removal does not        *)
(* announce the list, and tells whoever it found to be the owner.            *)
Owed(r) ==
    LET a == Ask(r) IN
    CASE a.deed = "delete" -> {a.list} \cup (work[r].audience \cap PeopleOn(a.list))
      [] a.deed = "remove" -> (Touched(a) \ {a.list}) \cap {a.who, work[r].plan[2].tell.people[2]}
      [] OTHER -> Touched(a)

(* A joining tells whoever it finds to be the owner when it looks again, and *)
(* nobody when the list is gone by then; a renaming tells whoever is still   *)
(* on the list when it comes to that.                                        *)
StillOwed(r, s) ==
    /\ At(r, "still_there") => s \in {Ask(r).list, Ask(r).me, owner[Ask(r).list]}
    /\ At(r, "everybody") => s = Ask(r).list \/ s \in PeopleOn(Ask(r).list)

NowOwes(r) == IF Writes(r) THEN {<<s, version'[s]>> : s \in Owed(r)}
              ELSE {p \in owes[r] : work'[r] # work[r] => StillOwed(r, p[1])}

JustTold == UNION {NowOwes(r) : r \in {x \in Requests : Ends(x) /\ ~At(x, "still_there")}}

Latest(P) == {p \in P : \A q \in P : q[1] = p[1] => q[2] <= p[2]}

ReadsNow(w, k) == ~Loading(w, k) /\ loads'[w][k] # None
Misses(w, k) == Loading(w, k) /\ loads'[w][k] = None /\ shown'[w] # loads[w][k]

HistoryInit ==
    /\ Init
    /\ owes = [r \in Requests |-> {}]
    /\ told = {}
    /\ synced = [w \in Screens |-> FALSE]
    /\ spoilt = [w \in Screens |-> FALSE]

Remember ==
    /\ owes' = [r \in Requests |-> IF Busy(r)' THEN NowOwes(r) ELSE {}]
    /\ synced' = [w \in Screens |-> live'[w] /\ (synced[w] \/ \E k \in Loads : ReadsNow(w, k))]
    /\ spoilt' = [w \in Screens |->
                    \/ \A k \in Loads : loads'[w][k] # None
                    \/ \E k \in Loads : Misses(w, k)
                    \/ spoilt[w] /\ ~ReadsNow(w, "loop")]

HistoryGoes == Goes /\ told' = Latest(told \cup JustTold) /\ Remember
HistoryBreaks == Breaks /\ UNCHANGED told /\ Remember

HistoryNext == HistoryGoes \/ HistoryBreaks

HistorySpec == HistoryInit /\ [][HistoryNext]_<<vars, history>>

----------------------------------------------------------------------------
(* What must hold.                                                         *)

(* Nothing is on its way to w: it listens, and has read for all it was told. *)
AtRest(w) ==
    /\ phase[w] = "listen" /\ ~nudged[w] /\ ~HasSomething(w)
    /\ \A k \in Loads : ~Loading(w, k)

(* Missing some nudges costs nothing (Changes::new), and neither does a lag: *)
(* a screen that has read since it subscribed, and has nothing more to hear, *)
(* shows at least what every finished request announced, however many were   *)
(* sent at once -- unless two of its own loads crossed or one failed.        *)
CaughtUp ==
    \A w \in Screens :
      live[w] /\ synced[w] /\ ~spoilt[w] /\ AtRest(w) =>
        \A p \in told : p[1] = Subject(w) => shown[w] >= p[2]

============================================================================
