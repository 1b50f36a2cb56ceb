----------------------------- MODULE OfflineSync ------------------------------
(***************************************************************************)
(* Devices and the server together: each device writes a change down in its *)
(* outbox, sends the whole outbox in one request, and settles the answers   *)
(* one by one (ios Store/Sources/Outbox.swift and CachingBackend.swift),    *)
(* while SyncServer replays what it is sent.                                *)
(*                                                                          *)
(* A device has one drain at a time (CachingBackend.draining) and each of   *)
(* its steps is a transaction of its own on the device's database, so the   *)
(* app may be killed between any two.  The connection may drop with the     *)
(* request on its way, half replayed, or answered: the device cannot tell,  *)
(* keeps everything and sends it again.                                     *)
(*                                                                          *)
(* Left out: the rows the device shows meanwhile, signing out, and handing  *)
(* over lists made without a server.                                        *)
(***************************************************************************)
EXTENDS SyncServer

CONSTANTS
    Scripts,   \* Scripts[d]: the sequences of changes d's person may make
    Callers    \* who drains: "screen", "change", or both

VARIABLES
    todo,      \* todo[d]: the changes the person is still going to make
    queue,     \* queue[d]: the outbox, oldest first
    drain,     \* drain[d]: the drain in progress
    dropped,   \* dropped[d]: changes forgotten because they will never land
    told       \* told[d]: those of them the screen has put in words

device == <<todo, queue, drain, dropped, told>>
allVars == <<vars, device>>

ASSUME OfflineSyncAssumption ==
    /\ Scripts \in [Devices -> SUBSET Seq(Operations)]
    /\ Callers \subseteq {"screen", "change"}

(* Who awaits a drain decides what becomes of its report: ItemsModel.drain  *)
(* (through sync) reads it; a change that drains on its way out and a read  *)
(* of the lists discard it.                                                 *)

AtRest == [pc |-> "rest", caller |-> "change", sent |-> <<>>,
           answers |-> <<>>, lost |-> <<>>]

IdsOf(ops) == [k \in DOMAIN ops |-> ops[k].id]

Queued(d) == {queue[d][k].id : k \in DOMAIN queue[d]}

(* A row that is gone is kept for later too.                                *)
KeepTheGone == {"not_allowed", "gone"}

(* AppliedOperation.keepForLater (SyncWire.swift).                          *)
KeepForLater == {"not_allowed"}

Without(s, k) == SubSeq(s, 1, k - 1) \o SubSeq(s, k + 1, Len(s))

(* Answers come in order: the oldest change is the one answered.            *)
ForgetOldest(d, id) == queue' = [queue EXCEPT ![d] = Without(@, 1)]

(* Outbox.forget: a delete by a unique id takes one row, or none.           *)
Forget(d, id) ==
    \/ id \notin Queued(d) /\ UNCHANGED queue
    \/ \E k \in DOMAIN queue[d] :
          queue[d][k].id = id /\ queue' = [queue EXCEPT ![d] = Without(@, k)]

----------------------------------------------------------------------------

(* Outbox.queue: written down before anything is attempted.                 *)
Change(d) ==
    /\ todo[d] # <<>>
    /\ queue' = [queue EXCEPT ![d] = Append(@, Head(todo[d]))]
    /\ todo' = [todo EXCEPT ![d] = Tail(@)]
    /\ UNCHANGED <<vars, drain, dropped, told>>

(* CachingBackend.drain and the request of Outbox.drain: the whole queue.   *)
Send(d, caller) ==
    /\ drain[d].pc = "rest"
    /\ queue[d] # <<>>
    /\ Arrive(d, queue[d])
    /\ drain' = [drain EXCEPT ![d] = [AtRest EXCEPT !.pc = "waiting",
                                                    !.caller = caller,
                                                    !.sent = IdsOf(queue[d])]]
    /\ UNCHANGED <<todo, queue, dropped, told>>

Serve(d) ==
    /\ Handle(d)
    /\ UNCHANGED device

Fail(d) ==
    /\ Trouble(d)
    /\ UNCHANGED device

Receive(d) ==
    /\ Reply(d)
    /\ drain' = [drain EXCEPT ![d].pc = "settling",
                              ![d].answers = work[d].answers]
    /\ UNCHANGED <<todo, queue, dropped, told>>

(* destination.sync throws: nothing is forgotten and nothing is said.       *)
LoseConnection(d) ==
    /\ Cut(d)
    /\ drain' = [drain EXCEPT ![d] = AtRest]
    /\ UNCHANGED <<todo, queue, dropped, told>>

(* One answer: forgotten if it landed, kept if a role may come back,        *)
(* forgotten and counted as lost otherwise.  DrainReport.lost holds a       *)
(* sentence for each; here it is the change the sentence is about.          *)
Settle(d) ==
    LET answer == Head(drain[d].answers)
        landed == answer.outcome \in Landed
        kept == answer.outcome \in KeepForLater
    IN
    /\ drain[d].pc = "settling" /\ drain[d].answers # <<>>
    /\ IF kept THEN UNCHANGED queue ELSE Forget(d, answer.id)
    /\ dropped' = [dropped EXCEPT ![d] =
                      IF landed \/ kept THEN @ ELSE @ \cup {answer.id}]
    /\ drain' = [drain EXCEPT
                    ![d].answers = Tail(@),
                    ![d].lost = IF landed \/ kept THEN @ ELSE Append(@, answer.id)]
    /\ UNCHANGED <<vars, todo, told>>

(* The report goes to whoever awaited the drain; the screen shows the first *)
(* of what was lost.                                                        *)
Report(d) ==
    /\ drain[d].pc = "settling" /\ drain[d].answers = <<>>
    /\ told' = [told EXCEPT ![d] =
                   IF drain[d].caller = "screen" /\ drain[d].lost # <<>>
                   THEN @ \cup {Head(drain[d].lost)} ELSE @]
    /\ drain' = [drain EXCEPT ![d] = AtRest]
    /\ UNCHANGED <<vars, todo, queue, dropped>>

(* The app is killed while it settles answers; its database stays.          *)
Kill(d) ==
    /\ drain[d].pc = "settling"
    /\ drain' = [drain EXCEPT ![d] = AtRest]
    /\ UNCHANGED <<vars, todo, queue, dropped, told>>

Elsewhere ==
    /\ Live \/ Tick
    /\ UNCHANGED device

----------------------------------------------------------------------------

DeviceInit ==
    /\ todo \in [Devices -> UNION {Scripts[d] : d \in Devices}]
    /\ \A d \in Devices : todo[d] \in Scripts[d]
    /\ queue = [d \in Devices |-> <<>>]
    /\ drain = [d \in Devices |-> AtRest]
    /\ dropped = [d \in Devices |-> {}]
    /\ told = [d \in Devices |-> {}]

OfflineInit == Init /\ DeviceInit

Steady ==
    \E d \in Devices :
        \/ Change(d)
        \/ \E caller \in Callers : Send(d, caller)
        \/ Serve(d) \/ Receive(d) \/ Settle(d) \/ Report(d)

Failure ==
    \E d \in Devices : LoseConnection(d) \/ Fail(d) \/ Kill(d)

OfflineNext == Steady \/ Failure \/ Elsewhere

OfflineSpec == OfflineInit /\ [][OfflineNext]_allVars

(* The device keeps trying: ItemsModel.keepTrying drains every ten seconds  *)
(* while its screen is up, settling answers is a plain loop, and the server *)
(* runs every handler it has started.                                       *)
Fairness ==
    \A d \in Devices :
        /\ WF_allVars(Send(d, "screen"))
        /\ WF_allVars(Serve(d))
        /\ WF_allVars(Receive(d))
        /\ WF_allVars(Settle(d))
        /\ WF_allVars(Report(d))

----------------------------------------------------------------------------
(* What the promise rests on.                                               *)

(* The ids of the changes that may be made on device d.                     *)
Own(d) ==
    {id \in Ids : \E script \in Scripts[d] : \E k \in 1..Len(script) : script[k].id = id}

(* A change's id is minted at random when it is queued (Outbox.queue): no   *)
(* two changes have the same one, on a device or on two.                    *)
EachChangeOnce ==
    /\ \A d \in Devices : \A script \in Scripts[d] : \A j, k \in 1..Len(script) :
          script[j].id = script[k].id => j = k
    /\ \A d, e \in Devices : d # e => Own(d) \cap Own(e) = {}

----------------------------------------------------------------------------
(* Properties.                                                              *)

DeviceTyped ==
    /\ todo \in [Devices -> Seq(Operations)]
    /\ queue \in [Devices -> Seq(Operations)]
    /\ drain \in [Devices ->
          [pc: {"rest", "waiting", "settling"}, caller: {"screen", "change"},
           sent: Seq(Ids), answers: Seq([id: Ids, outcome: Outcomes]),
           lost: Seq(Ids)]]
    /\ dropped \in [Devices -> SUBSET Ids]
    /\ told \in [Devices -> SUBSET Ids]

(* The device's half of the state holds what its type says, and the outbox  *)
(* agrees with what is said of it: a change is in it once, one given up is  *)
(* in it no more, so that no resend can land what somebody was told is      *)
(* lost, and only what was given up is told ("DELETE FROM operations WHERE  *)
(* id", Outbox.forget, one change at a time).                               *)
DeviceTypeOK ==
    /\ DeviceTyped
    /\ \A d \in Devices :
          /\ \A j, k \in DOMAIN queue[d] : queue[d][j].id = queue[d][k].id => j = k
          /\ dropped[d] \cap Queued(d) = {}
          /\ told[d] \subseteq dropped[d]

(* What has become of a change, seen from both sides.                       *)
Fate(id) ==
    LET landed == applied[id] # None
        out == \E d \in Devices : id \in dropped[d]
    IN CASE landed /\ out -> "both"
         [] landed /\ ~out -> "landed"
         [] ~landed /\ out -> "dropped"
         [] ~landed /\ ~out /\ (\E d \in Devices : id \in Queued(d)) -> "waiting"
         [] OTHER -> "unmade"

(* Devices, connections and server together keep the promise about every    *)
(* change: made, then landed or dropped, for good, and never lost between.  *)
Promise == INSTANCE ChangeFate WITH Changes <- Ids, fate <- [id \in Ids |-> Fate(id)]

KeepsThePromise == Promise!Spec

(* A batch is one device's story in order, "and never skipping" (sync.rs,   *)
(* replay): what has been answered and what is still to come are together   *)
(* the start of what was sent, and answers arrive in that order.            *)
StoryInOrder ==
    \A d \in Devices :
        LET story == IdsOf(work[d].answers) \o IdsOf(work[d].batch)
        IN drain[d].pc = "waiting" => story = SubSeq(drain[d].sent, 1, Len(story))

(* The queue drains: again and again nothing is left in it but changes to a *)
(* list that is there and will not have this person, the one refusal a      *)
(* device keeps (SyncWire.swift keepForLater; "a queue that cannot make     *)
(* progress" is what sync.rs, replay is written against).                   *)
KeptOut(d, op) == owner[op.list] # None /\ ~CanEdit(op.list, Who(d))

QueueDrains ==
    \A d \in Devices : []<>(\A k \in DOMAIN queue[d] : KeptOut(d, queue[d][k]))

(* "the person whose work was dropped is told" (docs/offline.md:394-395):   *)
(* once the drain is over, every change it dropped has been on the screen.  *)
EveryLossIsTold ==
    \A d \in Devices : drain[d].pc = "rest" => dropped[d] \subseteq told[d]

===============================================================================
