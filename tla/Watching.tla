------------------------------ MODULE Watching ------------------------------
(***************************************************************************)
(* How a change on one screen reaches another: the announcements of        *)
(* web/domain/src/service/changes.rs and who makes them (service/items.rs, *)
(* tags.rs, lists.rs), the event streams of web/api and web/web that carry *)
(* them, the Watcher and Stopper of web/embedded for a device without a    *)
(* server, and the loops of the clients' screens that read again.          *)
(*                                                                         *)
(* An announcement says only "read again".  A request writes, and then     *)
(* announces, and may be dropped between the two.  A receiver hears what   *)
(* is announced after it subscribed, has room for Room messages, and is    *)
(* told it lagged when more were sent.  A screen reads, and its answers    *)
(* may arrive in another order than they were read in.                     *)
(*                                                                         *)
(* Modelled: the two channels, every kind of announcement, lag, streams    *)
(* lost without a word, the server restarting, the watching loops, the     *)
(* embedded watcher's thread and the two halves of stopping it.            *)
(* Left out: what a screen shows (a version stands for it), the queue on   *)
(* the way out (module OfflineSync), roles below member (Membership), the  *)
(* browser putting off a refresh while somebody types.                     *)
(***************************************************************************)
EXTENDS Integers, Sequences, FiniteSets

CONSTANTS
    Users,      \* people
    Lists,      \* lists
    Screens,    \* the screens that are open
    Requests,   \* requests that may be under way
    Asks,       \* what a request may ask for
    Room,       \* how many messages a receiver has room for: 64
    MaxVersion, \* bound on the versions of anything
    None

(* What a screen shows, and what an announcement names: a list, with who   *)
(* is on it, or the lists a person can see.                                *)
Subjects == Lists \cup Users

(* What holds a screen: an app straight on a server, one through           *)
(* CachingBackend, the sheet of a list's members, a page in a browser, or  *)
(* an app on the server inside it.                                         *)
Holders == {"app", "cached", "sheet", "page", "local"}

Deeds == {"edit", "create", "rename", "delete", "join", "remove"}

(* `me` asks; `who` is the person removed.                                 *)
Asked == [deed: Deeds, list: Lists, me: Users, who: Users]

VARIABLES
    screen,    \* screen[w]: what w shows, to whom, and what holds it
    owner,     \* whose a list is; None: there is no such list
    members,   \* who else is on it
    version,   \* version[s]: what there is to read about s now
    work,      \* work[r]: the request r has under way
    live,      \* live[w]: w has a receiver at the sender
    pending,   \* what its receiver has not delivered
    lagged,    \* it lost some, and has not been told
    nudged,    \* w has been told to read again, and has not yet
    phase,     \* where the loop of w is
    again,     \* the loop of w has been round once
    loads,     \* loads[w]: the answers on their way to w, None where there is none
    shown,     \* what w shows; 0: nothing yet
    thread,    \* the thread that waits for a local screen
    stopping,  \* how far Stopper::stop has got: "no", "flagged", "notified"
    permit     \* its Notify holds a permit

stored == <<screen, owner, members, version>>
channel == <<live, pending, lagged>>
display == <<phase, again, loads, shown>>
waiting == <<thread, stopping, permit>>
vars == <<screen, owner, members, version, work, live, pending, lagged, nudged,
          phase, again, loads, shown, thread, stopping, permit>>

WatchingAssumption ==
    /\ Asks \subseteq Asked
    /\ Lists \cap Users = {}
    /\ IsFiniteSet(Users)
    /\ Room \in Nat \ {0} /\ MaxVersion \in Nat \ {0}
    /\ None \notin Subjects /\ None \notin Nat
ASSUME WatchingAssumption

----------------------------------------------------------------------------
(* Lists and people.                                                       *)

There(l) == owner[l] # None

(* people_ids: the owner, and every member.                                *)
PeopleOn(l) == IF There(l) THEN {owner[l]} \cup members[l] ELSE {}

Subject(w) == screen[w].subject
Holder(w) == screen[w].holder
IsLocal(w) == Holder(w) = "local"

MaySee(w) == Subject(w) \in Lists => screen[w].me \in PeopleOn(Subject(w))

----------------------------------------------------------------------------
(* Requests: the write, then who is told.                                  *)

(* What is announced: first to last, on the channel for lists and on the   *)
(* channel for people.                                                     *)
Said(lists, people) == [lists |-> lists, people |-> people]
Silence == Said(<<>>, <<>>)

Write == [do |-> "write", tell |-> Silence]
Audience == [do |-> "audience", tell |-> Silence]       \* lists::delete, before the write
StillThere == [do |-> "still_there", tell |-> Silence]  \* join reads the list after its write
TellEverybody == [do |-> "everybody", tell |-> Silence] \* tell_everyone_on
TellThem == [do |-> "them", tell |-> Silence]           \* the audience read before
Tell(lists, people) == [do |-> "tell", tell |-> Said(lists, people)]

Plan(a) ==
    CASE a.deed = "edit"   -> <<Write, Tell(<<a.list>>, <<>>)>>
      [] a.deed = "create" -> <<Write, Tell(<<>>, <<a.me>>)>>
      [] a.deed = "rename" -> <<Write, Tell(<<a.list>>, <<>>), TellEverybody>>
      [] a.deed = "delete" -> <<Audience, Write, TellThem>>
      [] a.deed = "join"   -> <<Write, StillThere>>
      [] a.deed = "remove" -> <<Write, Tell(<<>>, <<a.who, owner[a.list]>>)>>

(* The door of each, as far as who is on the list decides it.  A link lets *)
(* anybody join (module Membership).                                       *)
Allowed(a) ==
    CASE a.deed = "edit"   -> a.me \in PeopleOn(a.list)
      [] a.deed = "create" -> ~There(a.list)
      [] a.deed = "join"   -> There(a.list)
      [] a.deed = "remove" -> /\ a.me \in PeopleOn(a.list)
                              /\ a.who # owner[a.list]
                              /\ a.me \in {a.who, owner[a.list]}
      [] OTHER             -> a.me = owner[a.list]

(* What reads differently once it is done.                                 *)
Touched(a) ==
    CASE a.deed = "edit"   -> {a.list}
      [] a.deed = "create" -> {a.me}
      [] a.deed = "join"   -> {a.list, a.me, owner[a.list]}
      [] a.deed = "remove" -> {a.list, a.who, owner[a.list]}
      [] OTHER             -> {a.list} \cup PeopleOn(a.list)

NoWork == [asked |-> None, plan |-> <<>>, audience |-> {}]
Busy(r) == work[r].plan # <<>>
At(r, step) == Busy(r) /\ Head(work[r].plan).do = step
Ask(r) == work[r].asked
Rest(r) == IF Len(work[r].plan) = 1 THEN NoWork
           ELSE [work[r] EXCEPT !.plan = Tail(@)]
Continue(r) == work' = [work EXCEPT ![r] = Rest(r)]
Finish(r) == work' = [work EXCEPT ![r] = NoWork]

Begin(r) ==
    /\ ~Busy(r)
    /\ \E a \in Asks :
         /\ Allowed(a)
         /\ work' = [work EXCEPT ![r] = [asked |-> a, plan |-> Plan(a), audience |-> {}]]
    /\ UNCHANGED <<stored, channel, nudged, display, waiting>>

ReadAudience(r) ==
    /\ At(r, "audience")
    /\ work' = [work EXCEPT ![r] = [Rest(r) EXCEPT !.audience = PeopleOn(Ask(r).list)]]
    /\ UNCHANGED <<stored, channel, nudged, display, waiting>>

(* A write that finds no row to change tells nobody.                       *)
Lands(a) ==
    /\ There(a.list) = (a.deed # "create")
    /\ a.deed = "remove" => a.who \in members[a.list]

DoWrite(r) ==
    LET a == Ask(r) IN
    /\ At(r, "write")
    /\ \A s \in Touched(a) \ {None} : version[s] < MaxVersion
    /\ IF Lands(a)
       THEN /\ owner' = CASE a.deed = "create" -> [owner EXCEPT ![a.list] = a.me]
                          [] a.deed = "delete" -> [owner EXCEPT ![a.list] = None]
                          [] OTHER -> owner
            /\ members' = CASE a.deed = "join" /\ a.me # owner[a.list] ->
                                 [members EXCEPT ![a.list] = @ \cup {a.me}]
                            [] a.deed = "remove" -> [members EXCEPT ![a.list] = @ \ {a.who}]
                            [] a.deed = "delete" -> [members EXCEPT ![a.list] = {}]
                            [] OTHER -> members
            /\ version' = [s \in Subjects |-> IF s \in Touched(a) THEN version[s] + 1
                                              ELSE version[s]]
            /\ Continue(r)
       ELSE UNCHANGED <<owner, members, version>> /\ Finish(r)
    /\ UNCHANGED <<screen, channel, nudged, display, waiting>>

LookAgain(r) ==
    /\ At(r, "still_there")
    /\ LET a == Ask(r) IN
       IF There(a.list)
       THEN work' = [work EXCEPT ![r].plan = <<Tell(<<a.list>>, <<a.me, owner[a.list]>>)>>]
       ELSE Finish(r)
    /\ UNCHANGED <<stored, channel, nudged, display, waiting>>

----------------------------------------------------------------------------
(* The channels: one for lists and one for people, each with every screen  *)
(* that listens on it as a receiver.                                       *)

(* What a receiver keeps of what it was sent: the last Room messages.      *)
KeptWithoutRoom(q) == q
Kept(q) == IF Len(q) > Room THEN SubSeq(q, Len(q) - Room + 1, Len(q)) ELSE q

Sent(w, said) ==
    IF live[w] THEN pending[w] \o (IF Subject(w) \in Lists THEN said.lists ELSE said.people)
    ELSE <<>>

Announce(said) ==
    /\ pending' = [w \in Screens |-> Kept(Sent(w, said))]
    /\ lagged' = [w \in Screens |-> lagged[w] \/ Len(Sent(w, said)) > Room]
    /\ UNCHANGED live

InSomeOrder(S) == {q \in [1..Cardinality(S) -> S] : \A s \in S : \E k \in DOMAIN q : q[k] = s}

DoTell(r) ==
    /\ \/ At(r, "tell") /\ Announce(Head(work[r].plan).tell)
       \/ /\ At(r, "everybody")
          /\ \E people \in InSomeOrder(PeopleOn(Ask(r).list)) : Announce(Said(<<>>, people))
       \/ /\ At(r, "them")
          /\ \E people \in InSomeOrder(work[r].audience) :
               Announce(Said(<<Ask(r).list>>, people))
    /\ Continue(r)
    /\ UNCHANGED <<stored, nudged, display, waiting>>

(* The connection goes away, and with it whatever the request had not done.*)
Cut(r) ==
    /\ Busy(r)
    /\ Finish(r)
    /\ UNCHANGED <<stored, channel, nudged, display, waiting>>

(* What a receiver makes of what it has: a lag is news like any other, and *)
(* what is about something else is not.                                    *)
SilentWhenLagged(w) == ~lagged[w] /\ Head(pending[w]) = Subject(w)
IsNews(w) == lagged[w] \/ Head(pending[w]) = Subject(w)

HasSomething(w) == live[w] /\ (lagged[w] \/ pending[w] # <<>>)

Receive(w) ==
    /\ HasSomething(w)
    /\ lagged' = [lagged EXCEPT ![w] = FALSE]
    /\ pending' = [pending EXCEPT ![w] = IF lagged[w] THEN @ ELSE Tail(@)]
    /\ UNCHANGED live

(* The server's stream passes an event on: events in routes/lists.rs,      *)
(* routes/me.rs and pages/items.rs.                                        *)
Deliver(w) ==
    /\ ~IsLocal(w)
    /\ Receive(w)
    /\ nudged' = [nudged EXCEPT ![w] = @ \/ IsNews(w)]
    /\ UNCHANGED <<stored, work, display, waiting>>

----------------------------------------------------------------------------
(* A screen's loop: open the stream, listen, read again when nudged; when  *)
(* the stream ends, wait, and start over.  loads[w].loop is the load the   *)
(* loop waits for, loads[w].own any other: the first one, a refresh by     *)
(* hand, coming back to the foreground.                                    *)

Loads == {"loop", "own"}
Phases == {"load", "open", "listen", "asleep", "closed"}

Loading(w, k) == loads[w][k] # None
Read(w, k) == loads' = [loads EXCEPT ![w][k] = version[Subject(w)]]
GoTo(w, p) == phase' = [phase EXCEPT ![w] = p]

(* Where a loop starts over.  An app reads before it opens the stream, a   *)
(* page after; the members' sheet does neither.                            *)
StartsUnread(w) == "open"
StartsOver(w) == IF Holder(w) \in {"app", "cached", "local"} THEN "load" ELSE "open"

LoadFirst(w) ==
    /\ phase[w] = "load" /\ ~Loading(w, "loop")
    /\ Read(w, "loop")
    /\ UNCHANGED <<stored, work, channel, nudged, phase, again, shown, waiting>>

Reread(w) ==
    /\ phase[w] = "listen" /\ nudged[w] /\ ~Loading(w, "loop")
    /\ nudged' = [nudged EXCEPT ![w] = FALSE]
    /\ Read(w, "loop")
    /\ UNCHANGED <<stored, work, channel, phase, again, shown, waiting>>

LoadOnItsOwn(w) ==
    /\ phase[w] # "closed" /\ ~Loading(w, "own")
    /\ Read(w, "own")
    /\ UNCHANGED <<stored, work, channel, nudged, phase, again, shown, waiting>>

(* An answer arrives, or the load fails; the loop goes on either way.      *)
AnswerComes(w, k, arrives) ==
    /\ Loading(w, k)
    /\ loads' = [loads EXCEPT ![w][k] = None]
    /\ shown' = IF arrives THEN [shown EXCEPT ![w] = loads[w][k]] ELSE shown
    /\ IF k = "loop" /\ phase[w] = "load" THEN GoTo(w, "open") ELSE UNCHANGED phase
    /\ UNCHANGED <<stored, work, channel, nudged, again, waiting>>

(* The stream is opened: authorised, and only then subscribed.  A screen   *)
(* that is refused tries again later.                                      *)
Open(w) ==
    /\ phase[w] = "open"
    /\ IF MaySee(w)
       THEN /\ GoTo(w, "listen")
            /\ live' = [live EXCEPT ![w] = TRUE]
            /\ nudged' = [nudged EXCEPT ![w] = @ \/ (Holder(w) = "page" /\ again[w])]
            /\ thread' = [thread EXCEPT ![w] = IF IsLocal(w) THEN "check" ELSE @]
       ELSE /\ GoTo(w, "asleep")
            /\ UNCHANGED <<live, nudged, thread>>
    /\ UNCHANGED <<stored, work, pending, lagged, again, loads, shown, stopping, permit>>

(* A connection is lost; neither end need know at once.                    *)
Deaf(gone) ==
    /\ live' = [w \in Screens |-> live[w] /\ w \notin gone]
    /\ pending' = [w \in Screens |-> IF w \in gone THEN <<>> ELSE pending[w]]
    /\ lagged' = [w \in Screens |-> lagged[w] /\ w \notin gone]

Drop(w) ==
    /\ live[w] /\ ~IsLocal(w)
    /\ Deaf({w})
    /\ UNCHANGED <<stored, work, nudged, display, waiting>>

(* The server stops and starts: what requests had left to do, and every    *)
(* stream, are gone.                                                       *)
Restart ==
    /\ \E w \in Screens : live[w]
    /\ \A w \in Screens : ~IsLocal(w)
    /\ Deaf(Screens)
    /\ work' = [r \in Requests |-> NoWork]
    /\ UNCHANGED <<stored, nudged, display, waiting>>

(* A screen finds its stream ended once it has read for every nudge it was *)
(* given.  CachingBackend joins the server's stream with the cache's, and  *)
(* the cache's does not end.                                               *)
Notice(w) ==
    /\ phase[w] = "listen" /\ ~live[w] /\ ~nudged[w] /\ ~Loading(w, "loop")
    /\ Holder(w) \notin {"cached", "local"}
    /\ GoTo(w, "asleep")
    /\ UNCHANGED <<stored, work, channel, nudged, again, loads, shown, waiting>>

StartOver(w) ==
    /\ phase[w] = "asleep"
    /\ again' = [again EXCEPT ![w] = TRUE]
    /\ GoTo(w, StartsOver(w))
    /\ UNCHANGED <<stored, work, channel, nudged, loads, shown, waiting>>

(* The screen closes.  A local one is stopped: the flag here, the permit   *)
(* in a step of its own.                                                   *)
Close(w) ==
    /\ phase[w] \in {"listen", "asleep"}
    /\ GoTo(w, "closed")
    /\ loads' = [loads EXCEPT ![w] = [k \in Loads |-> None]]
    /\ nudged' = [nudged EXCEPT ![w] = FALSE]
    /\ IF IsLocal(w)
       THEN stopping' = [stopping EXCEPT ![w] = IF live[w] THEN "flagged" ELSE @]
            /\ UNCHANGED channel
       ELSE Deaf({w}) /\ UNCHANGED stopping
    /\ UNCHANGED <<stored, work, again, shown, thread, permit>>

----------------------------------------------------------------------------
(* The thread of a local screen, in Watcher::wait: check the flag, poll,   *)
(* and sleep until a message or a permit is there.                         *)

Resumes(w, p) == thread' = [thread EXCEPT ![w] = p]

CheckFlag(w) ==
    /\ thread[w] = "check"
    /\ IF stopping[w] # "no" THEN Resumes(w, "done") ELSE Resumes(w, "poll")
    /\ UNCHANGED <<stored, work, channel, nudged, display, stopping, permit>>

Park(w) ==
    /\ thread[w] = "poll"
    /\ Resumes(w, "parked")
    /\ UNCHANGED <<stored, work, channel, nudged, display, stopping, permit>>

(* select! takes either of two that are ready.                             *)
HearOne(w) ==
    /\ thread[w] = "parked"
    /\ Receive(w)
    /\ nudged' = [nudged EXCEPT ![w] = @ \/ (IsNews(w) /\ phase[w] # "closed")]
    /\ Resumes(w, "check")
    /\ UNCHANGED <<stored, work, display, stopping, permit>>

HearStop(w) ==
    /\ thread[w] = "parked" /\ permit[w]
    /\ permit' = [permit EXCEPT ![w] = FALSE]
    /\ Resumes(w, "done")
    /\ UNCHANGED <<stored, work, channel, nudged, display, stopping>>

(* notify_one leaves a permit where nobody is parked; notify_waiters wakes *)
(* only who is.                                                            *)
PermitIfParked(w) == permit[w] \/ thread[w] = "parked"
Permit(w) == TRUE

NotifyStop(w) ==
    /\ stopping[w] = "flagged"
    /\ stopping' = [stopping EXCEPT ![w] = "notified"]
    /\ permit' = [permit EXCEPT ![w] = Permit(w)]
    /\ UNCHANGED <<stored, work, channel, nudged, display, thread>>

(* The thread, and nobody else, frees the watcher, after its wait ended.   *)
Free(w) ==
    /\ thread[w] = "done"
    /\ Resumes(w, "freed")
    /\ Deaf({w})
    /\ UNCHANGED <<stored, work, nudged, display, stopping, permit>>

----------------------------------------------------------------------------
Init ==
    /\ screen \in [Screens -> [subject: Subjects, me: Users, holder: Holders]]
    /\ owner \in [Lists -> Users \cup {None}]
    /\ members \in [Lists -> SUBSET Users]
    /\ \A l \in Lists : owner[l] \notin members[l] /\ (~There(l) => members[l] = {})
    /\ version = [s \in Subjects |-> 1]
    /\ work = [r \in Requests |-> NoWork]
    /\ live = [w \in Screens |-> FALSE]
    /\ pending = [w \in Screens |-> <<>>]
    /\ lagged = [w \in Screens |-> FALSE]
    /\ nudged = [w \in Screens |-> FALSE]
    /\ phase = [w \in Screens |-> IF Holder(w) = "page" THEN "load" ELSE "open"]
    /\ again = [w \in Screens |-> FALSE]
    /\ loads = [w \in Screens |-> [k \in Loads |-> None]]
    /\ shown = [w \in Screens |-> 0]
    /\ thread = [w \in Screens |-> "none"]
    /\ stopping = [w \in Screens |-> "no"]
    /\ permit = [w \in Screens |-> FALSE]

Request(r) == Begin(r) \/ ReadAudience(r) \/ DoWrite(r) \/ LookAgain(r) \/ DoTell(r)

Loop(w) ==
    \/ LoadFirst(w) \/ Reread(w) \/ LoadOnItsOwn(w) \/ Open(w)
    \/ \E k \in Loads : AnswerComes(w, k, TRUE)
    \/ Deliver(w) \/ Notice(w) \/ StartOver(w) \/ Close(w)

Thread(w) == CheckFlag(w) \/ Park(w) \/ HearOne(w) \/ HearStop(w) \/ NotifyStop(w) \/ Free(w)

Goes ==
    \/ \E r \in Requests : Request(r)
    \/ \E w \in Screens : Loop(w) \/ Thread(w)

(* What goes wrong: a request or a stream loses its connection, a load     *)
(* fails, the server restarts.                                             *)
Breaks ==
    \/ \E r \in Requests : Cut(r)
    \/ \E w \in Screens : Drop(w)
    \/ \E w \in Screens, k \in Loads : AnswerComes(w, k, FALSE)
    \/ Restart

Next == Goes \/ Breaks

(* The runtime runs what can run, and answers come: every step of a        *)
(* stream, a screen's loop or a watching thread that stays possible is     *)
(* taken.  Nobody has to ask for anything, and nothing has to fail.        *)
Progress(w) ==
    /\ WF_vars(LoadFirst(w)) /\ WF_vars(Reread(w)) /\ WF_vars(Open(w))
    /\ WF_vars(\E k \in Loads : AnswerComes(w, k, TRUE))
    /\ WF_vars(Deliver(w)) /\ WF_vars(Notice(w)) /\ WF_vars(StartOver(w))
    /\ WF_vars(CheckFlag(w)) /\ WF_vars(Park(w)) /\ WF_vars(HearOne(w))
    /\ WF_vars(HearStop(w)) /\ WF_vars(NotifyStop(w)) /\ WF_vars(Free(w))

Fairness == \A w \in Screens : Progress(w)

Spec == Init /\ [][Next]_vars /\ Fairness

----------------------------------------------------------------------------
WatchingTypeOK ==
    /\ screen \in [Screens -> [subject: Subjects, me: Users, holder: Holders]]
    /\ owner \in [Lists -> Users \cup {None}]
    /\ members \in [Lists -> SUBSET Users]
    /\ version \in [Subjects -> 1..MaxVersion]
    /\ \A r \in Requests :
         /\ work[r].asked \in Asks \cup {None}
         /\ work[r].audience \subseteq Users
         /\ Len(work[r].plan) <= 3
    /\ live \in [Screens -> BOOLEAN]
    /\ \A w \in Screens : pending[w] \in UNION {[1..n -> Subjects] : n \in 0..Room}
    /\ lagged \in [Screens -> BOOLEAN] /\ nudged \in [Screens -> BOOLEAN]
    /\ phase \in [Screens -> Phases] /\ again \in [Screens -> BOOLEAN]
    /\ loads \in [Screens -> [Loads -> 1..MaxVersion \cup {None}]]
    /\ shown \in [Screens -> 0..MaxVersion]
    /\ thread \in [Screens -> {"none", "check", "poll", "parked", "done", "freed"}]
    /\ stopping \in [Screens -> {"no", "flagged", "notified"}] /\ permit \in [Screens -> BOOLEAN]

============================================================================
