---------------------------- MODULE MCMembership ----------------------------
(* A small instance of Membership: Ann (1), who owns the first list, Bob (2) *)
(* and Cee (3).  Each behaviour plays one scene: a database and the requests *)
(* that may arrive, two at a time.                                           *)
EXTENDS MembershipHistory, TLC

CONSTANTS Groceries, Food, c1, c2

Ann == 1
Bob == 2
Cee == 3

Blank == [by |-> Ann, deed |-> "read", list |-> 1, name |-> Food, who |-> Ann,
          role |-> Viewer, token |-> 1]
By(u, deed) == [Blank EXCEPT !.by = u, !.deed = deed]
Removes(u, v) == [By(u, "remove") EXCEPT !.who = v]
RemovesFrom(l, u, v) == [Removes(u, v) EXCEPT !.list = l]
Offers(u, r) == [By(u, "invite") EXCEPT !.role = r]
HandsOut(u, r) == [Offers(u, r) EXCEPT !.deed = "hand_out"]
Joins(u, t) == [By(u, "join") EXCEPT !.token = t]

(* Ann's list and the rows on it; a second one of hers, or of Bob's.         *)
Db(rows, second) ==
    [present |-> {Ann, Bob, Cee},
     lists |-> [l \in ListIds |->
                   IF l = 1 THEN [owner |-> Ann, name |-> Groceries]
                   ELSE IF l = 2 /\ second # None THEN [owner |-> second, name |-> Food]
                   ELSE None],
     members |-> [m \in ListIds \X People |->
                   IF m[1] = 1 /\ m[2] \in DOMAIN rows THEN rows[m[2]] ELSE None]]

As(role, added) == [role |-> role, added |-> added]
Alone == Db(<<>>, None)
WithBob == Db(Bob :> As(Viewer, 0), None)
WithBoth == Db(Bob :> As(Editor, 0) @@ Cee :> As(Viewer, 0), None)
Two == Db(Bob :> As(Editor, 1) @@ Cee :> As(Viewer, 0), Ann)
Three == [Db(Bob :> As(Editor, 0), Ann) EXCEPT !.members[<<2, Bob>>] = As(Viewer, 0)]
BobsToo == Db(Bob :> As(Editor, 0), Bob)

Scene(db, asks, budget, clock) ==
    [db |-> db, asks |-> asks, budget |-> budget, clock |-> clock]

Scenes == {
    \* a link, followed twice, forwarded, withdrawn and grown old
    Scene(Alone, {Offers(Ann, Viewer), Joins(Bob, 1), Joins(Cee, 1), By(Ann, "revoke")},
          4, TRUE),
    \* a viewer who gets hold of an editor's link
    Scene(WithBob, {Offers(Ann, Editor), Joins(Cee, 1), Joins(Bob, 1), Removes(Ann, Bob),
                    By(Ann, "delete")}, 4, FALSE),
    \* an owner who makes a link that would give the list away, or follows one
    Scene(WithBob, {Offers(Ann, Owner), HandsOut(Ann, Editor), Joins(Ann, 1)}, 3, FALSE),
    \* what members may do to one another and to the list
    Scene(WithBoth, {Removes(Bob, Cee), Removes(Ann, Bob), Removes(Bob, Ann),
                     Removes(Cee, Cee), By(Cee, "read"), By(Bob, "sheet"), By(Bob, "rename")}, 3, FALSE),
    \* an owner's requests, one upon the other; the id of a list given again
    Scene(BobsToo, {By(Ann, "delete"), By(Ann, "rename"), By(Bob, "create"),
                    By(Bob, "close"), By(Bob, "read")}, 3, FALSE),
    \* an index, read while what it says changes
    Scene(Three, {By(Bob, "index"), Removes(Bob, Bob), RemovesFrom(2, Ann, Bob),
                  By(Ann, "close")}, 3, FALSE),
    \* an owner leaves, and so may the heir
    Scene(Two, {By(Ann, "close"), Removes(Cee, Cee), By(Cee, "close"), By(Bob, "read"),
                Removes(Ann, Bob)}, 3, FALSE),
    \* an owner leaves while somebody arrives
    Scene(WithBob, {Offers(Ann, Editor), By(Ann, "close"), Joins(Cee, 1), By(Bob, "read")},
          3, FALSE),
    \* an heir who is joining when the list becomes theirs, and leaves as well
    Scene(WithBoth, {Offers(Ann, Editor), Joins(Bob, 1), By(Ann, "close"), By(Bob, "close")},
          4, FALSE) }

MCRequests == UNION {scene.asks : scene \in Scenes}
MCStored == {scene.db : scene \in Scenes}

VARIABLES
    scene,   \* the scene this behaviour plays
    asks     \* how many requests have arrived

MCInit ==
    /\ HistoryInit
    /\ scene \in Scenes
    /\ [present |-> present, lists |-> lists, members |-> members] = scene.db
    /\ asks = 0

MCNext ==
    /\ HistoryNext
    /\ UNCHANGED scene
    /\ asks' = asks + (IF \E c \in Callers : Arrives(c) THEN 1 ELSE 0)
    /\ asks' <= scene.budget
    /\ now' # now => scene.clock
    /\ \A c \in Callers : Arrives(c) => work'[c].asked \in scene.asks

MCSpec == MCInit /\ [][MCNext]_<<vars, history, scene, asks>>

=============================================================================
