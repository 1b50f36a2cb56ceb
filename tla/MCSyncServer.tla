---------------------------- MODULE MCSyncServer ----------------------------
(* A small instance of SyncServer.  Ann replays from two windows of one Mac *)
(* (overlapping handlers of one queue) while Bob uses the list online.      *)
(* Each behaviour plays one scene: the batches its windows may send, in any *)
(* order and again, within the scene's bounds.                              *)
EXTENDS SyncServerHistory, TLC

CONSTANTS
    ann, bob, w1, w2, l1, l2, u1, u2, s1, milk, tea, t1, t2

MCHolder == (w1 :> ann) @@ (w2 :> ann)
MCOwners == (l1 :> bob) @@ (l2 :> None)
MCMembers == (l1 :> ((ann :> "editor") @@ (bob :> None))) @@
             (l2 :> ((ann :> None) @@ (bob :> None)))
MCWalks == {<<>>, <<t1>>, <<t2>>, <<t1, t1>>}
MCAmounts == {0, 1, 2}

Blank == [id |-> 1, kind |-> "add", at |-> 0, list |-> l1, item |-> u1,
          items |-> {}, name |-> milk, amount |-> 1, seen |-> None,
          done |-> TRUE, tag |-> t1, walk |-> <<>>]

Add(id, u) == [Blank EXCEPT !.id = id, !.item = u]
Line(id, u) == [Add(id, u) EXCEPT !.kind = "line"]
SetDone(id, u, at) == [Blank EXCEPT !.id = id, !.kind = "set_done",
                                    !.item = u, !.at = at]
Update(id, u, n, a, seen) ==
    [Blank EXCEPT !.id = id, !.kind = "update", !.item = u, !.name = n,
                  !.amount = a, !.seen = seen]
Delete(id, u) == [Blank EXCEPT !.id = id, !.kind = "delete", !.item = u]
ClearDone(id, us) == [Blank EXCEPT !.id = id, !.kind = "clear_done", !.items = us]
File1(id, u, t, on) == [Blank EXCEPT !.id = id, !.kind = "tag", !.item = u,
                                     !.tag = t, !.done = on]
SetTagOrder(id, w) == [Blank EXCEPT !.id = id, !.kind = "set_tag_order", !.walk = w]
NewList(id, l) == [Blank EXCEPT !.id = id, !.kind = "make_list", !.list = l]
OnList(op, l) == [op EXCEPT !.list = l]

Saw(n, a) == [name |-> n, amount |-> a]

(* A scene: what each device may send, how many batches may arrive, how     *)
(* many online requests there may be, and whether the clock moves.          *)
Scene(a, b, sends, live, clock) ==
    [may |-> (w1 :> a) @@ (w2 :> b),
     sends |-> sends, live |-> live, clock |-> clock]

Scenes == {
    \* the same queue from both windows, a tick from a clock that is ahead
    Scene({<<Add(1, u1), SetDone(2, u1, 2)>>}, {<<Add(1, u1)>>}, 3, 0, TRUE),
    \* a typed line, and a rename of a copy that has gone stale
    Scene({<<Line(1, u1)>>}, {<<Update(2, u1, tea, 2, Saw(milk, 1))>>}, 3, 1, FALSE),
    Scene({<<Add(1, u1)>>}, {<<Update(2, u1, tea, 0, Saw(milk, 0))>>}, 2, 2, FALSE),
    \* clearing and deleting
    Scene({<<Add(1, u1), SetDone(2, u1, 0)>>}, {<<ClearDone(3, {u1})>>, <<Add(4, u2)>>},
          3, 1, FALSE),
    Scene({<<Add(1, u1)>>}, {<<Delete(2, u1)>>}, 3, 2, FALSE),
    \* filing under a tag there is and one there is not
    Scene({<<Add(1, u1), File1(2, u1, t1, TRUE)>>},
          {<<File1(3, u1, t1, FALSE)>>, <<File1(4, u1, t2, TRUE)>>}, 2, 1, FALSE),
    \* a walking order
    Scene({<<SetTagOrder(1, <<t1>>)>>, <<SetTagOrder(3, <<t1, t1>>)>>},
          {<<SetTagOrder(2, <<t2>>)>>}, 2, 2, FALSE),
    \* a list made offline, a row on it, and the row named with another list
    Scene({<<NewList(1, l2), OnList(Add(2, u1), l2)>>},
          {<<Add(3, u1)>>, <<SetDone(4, u1, 0)>>}, 2, 1, FALSE),
    \* a row on one list, named with another, by somebody who may be removed
    Scene({<<Add(1, u1)>>}, {<<NewList(2, l2), OnList(Delete(3, u1), l2)>>}, 2, 1, FALSE),
    \* the same new list from both windows
    Scene({<<NewList(1, l2)>>}, {<<NewList(1, l2)>>}, 3, 1, FALSE),
    \* a nonsense amount, and a list whose uuid is somebody else's
    Scene({<<[Add(1, u1) EXCEPT !.amount = 0]>>}, {<<NewList(2, l1)>>}, 2, 1, FALSE) }

MCBatches == [d \in Devices |-> UNION {scene.may[d] : scene \in Scenes}]

(* Both windows replay one queue, so only the weaker assumption holds here. *)
ASSUME MCIdsApart == OnePersonPerId

VARIABLES
    scene,   \* the scene this behaviour plays
    sends,   \* how many batches have been sent
    live     \* how many online requests there have been

MCInit ==
    /\ HistoryInit
    /\ scene \in Scenes
    /\ sends = 0 /\ live = 0

MCNext ==
    /\ \/ /\ \E d \in Devices : \E batch \in scene.may[d] : Arrive(d, batch)
          /\ sends < scene.sends /\ sends' = sends + 1
          /\ UNCHANGED live
       \/ /\ live < scene.live /\ live' = live + 1
          /\ Live
          /\ UNCHANGED sends
       \/ /\ \E d \in Devices : Handle(d) \/ Reply(d) \/ Cut(d) \/ Trouble(d)
          /\ UNCHANGED <<sends, live>>
       \/ /\ scene.clock /\ Tick
          /\ UNCHANGED <<sends, live>>
    /\ Remember
    /\ UNCHANGED scene

MCSpec == MCInit /\ [][MCNext]_<<historyVars, scene, sends, live>>

============================================================================
