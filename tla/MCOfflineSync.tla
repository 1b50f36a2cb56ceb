--------------------------- MODULE MCOfflineSync ----------------------------
(* A small instance of OfflineSync: Ann's phone and Bob's tablet, both used  *)
(* offline on Bob's list, where Ann may edit until she is removed; Bob also  *)
(* uses the list online from elsewhere.  At most MaxFailures lost            *)
(* connections, kills and database failures, and MaxElsewhere online         *)
(* requests, in a behaviour.                                                 *)
EXTENDS OfflineSync, TLC

CONSTANTS MaxFailures, MaxElsewhere,
          Scenes,
          c1, c2, c3, c4, ann, bob, phone, tablet, l1, l2, u1, u2, s1, milk, tea, t1

MCHolder == (phone :> ann) @@ (tablet :> bob)
MCOwners == (l1 :> bob) @@ (l2 :> None)
MCMembers == (l1 :> ((ann :> "editor") @@ (bob :> None))) @@
             (l2 :> ((ann :> None) @@ (bob :> None)))
MCWalks == {<<>>}
Blank == [id |-> c1, kind |-> "add", at |-> 0, list |-> l1, item |-> u1,
          items |-> {}, name |-> milk, amount |-> 1, seen |-> None,
          done |-> TRUE, tag |-> t1, walk |-> <<>>]

Add(id, u) == [Blank EXCEPT !.id = id, !.item = u]
SetDone(id, u, done, at) == [Blank EXCEPT !.id = id, !.kind = "set_done",
                                          !.item = u, !.done = done, !.at = at]
Rename(id, u, n) == [Blank EXCEPT !.id = id, !.kind = "update", !.item = u,
                                  !.name = n, !.seen = [name |-> milk, amount |-> 1]]
Delete(id, u) == [Blank EXCEPT !.id = id, !.kind = "delete", !.item = u]
ClearDone(id, us) == [Blank EXCEPT !.id = id, !.kind = "clear_done", !.items = us]
Unfile(id, u) == [Blank EXCEPT !.id = id, !.kind = "tag", !.item = u, !.done = FALSE]
NewList(id, l) == [Blank EXCEPT !.id = id, !.kind = "make_list", !.list = l]
OnList(op, l) == [op EXCEPT !.list = l]

(* What the phone's person does offline, and what the tablet's does.         *)
Pair(a, b) == (phone :> a) @@ (tablet :> b)

MCScenes == {
    Pair(<<Add(c1, u1), SetDone(c2, u1, TRUE, 0)>>, <<ClearDone(c3, {u1})>>),
    Pair(<<NewList(c1, l2), OnList(Add(c2, u1), l2)>>, <<>>),
    Pair(<<Add(c1, u1), Unfile(c2, u1)>>, <<>>),
    Pair(<<Add(c1, u1)>>, <<Add(c3, u2), SetDone(c4, u2, FALSE, 0)>>),
    Pair(<<Add(c1, u1), Rename(c2, u1, tea)>>, <<>>) }

(* The phone ticks off at 1, and the tablet, which did so at 0, gets through *)
(* afterwards.                                                               *)
TickScenes == {
    Pair(<<Add(c1, u1), SetDone(c2, u1, TRUE, 1)>>,
         <<SetDone(c3, u1, TRUE, 0)>>) }

MCScripts == [d \in Devices |-> {scene[d] : scene \in Scenes}]

(* What a device may send: what is left of its script's first changes.      *)
LeftOf(script) ==
    {SelectSeq(script, LAMBDA op : op.id \in left) :
        left \in SUBSET {script[k].id : k \in DOMAIN script}}

MCBatches == [d \in Devices |-> UNION {LeftOf(script) : script \in MCScripts[d]}]

ASSUME MCChangesApart == EachChangeOnce

VARIABLES failures, elsewhere

MCInit == OfflineInit /\ todo \in Scenes /\ failures = 0 /\ elsewhere = 0

MCNext ==
    \/ Steady /\ UNCHANGED <<failures, elsewhere>>
    \/ /\ Failure
       /\ failures < MaxFailures /\ failures' = failures + 1
       /\ UNCHANGED elsewhere
    \/ /\ Elsewhere
       /\ elsewhere < MaxElsewhere /\ elsewhere' = elsewhere + 1
       /\ UNCHANGED failures

MCSpec == MCInit /\ [][MCNext]_<<allVars, failures, elsewhere>> /\ Fairness

============================================================================
