---------------------------- MODULE MCAdmission ----------------------------
(* A small instance of Admission: Ann, with a Google and an Apple identity, *)
(* and Bob.  Each behaviour plays one scene: a database to start on, what    *)
(* ALLOWED_EMAILS may say, the requests that may arrive, and how many are    *)
(* under way at a time (`crowd`).                                            *)
EXTENDS AdmissionHistory, TLC

CONSTANTS
    gAnn, aAnn, gBob, x, y, z, c1, c2, c3

Blank == [via |-> "claims", identity |-> gAnn, email |-> None, token |-> 1,
          deed |-> "use", address |-> y, yes |-> TRUE, code |-> NoCode]

(* By(i, a, d): the provider of i vouches for address a, and d is asked.     *)
By(i, a, d) == [Blank EXCEPT !.identity = i, !.email = a, !.deed = d]
With(t, d) == [Blank EXCEPT !.via = "session", !.token = t, !.deed = d]
About(asked, a) == [asked EXCEPT !.address = a]
Not(asked) == [asked EXCEPT !.yes = FALSE]
Claim(i, a, n) == [By(i, a, "claim") EXCEPT !.code = n]

Row(i, a, owns) == [sub |-> i, email |-> a, owner |-> owns]

(* A database with the rows given, Ann's identity on the first of them and   *)
(* Bob's on the second.                                                      *)
Db(rows, ax, ay, anyone, taken) ==
    [users |-> [u \in UserIds |-> IF u <= Len(rows) THEN rows[u] ELSE None],
     identity |-> (gAnn :> IF Len(rows) > 0 THEN 1 ELSE None) @@ (aAnn :> None) @@
                  (gBob :> IF Len(rows) > 1 THEN 2 ELSE None),
     admitted |-> (x :> ax) @@ (y :> ay) @@ (z :> None), open |-> anyone, claimed |-> taken]

Fresh == Db(<<>>, None, None, FALSE, FALSE)
Older == Db(<<Row(None, x, FALSE), Row(None, y, FALSE)>>, None, None, FALSE, FALSE)
OneOwner == Db(<<Row(gAnn, x, TRUE)>>, 1, None, FALSE, TRUE)
AnnAndBob == Db(<<Row(gAnn, x, TRUE), Row(gBob, y, FALSE)>>, 1, 2, FALSE, TRUE)
AnnWithoutAddress == Db(<<Row(gAnn, None, TRUE), Row(gBob, y, FALSE)>>, Unbound, 2, FALSE, TRUE)
TwoOwners == Db(<<Row(gAnn, x, TRUE), Row(gBob, y, TRUE)>>, 1, 2, FALSE, TRUE)
OpenToAll == Db(<<Row(gAnn, x, TRUE)>>, 1, None, TRUE, TRUE)

NoConfig == [anyone |-> FALSE, these |-> <<>>]
Everybody == [anyone |-> TRUE, these |-> <<>>]
Both == [anyone |-> FALSE, these |-> <<x, y>>]

Crowded(db, asks, budget, crowd) ==
    [db |-> db, configs |-> {NoConfig}, asks |-> asks, budget |-> budget,
     starts |-> 1, clock |-> FALSE, crowd |-> crowd]

Scene(db, configs, asks, budget, starts, clock) ==
    [Crowded(db, asks, budget, 2) EXCEPT !.configs = configs, !.starts = starts,
                                         !.clock = clock]

(* Two people open the app in a home server's first minute, twice.           *)
FirstMinute ==
    Scene(Fresh, {NoConfig},
          {Claim(gAnn, x, 1), Claim(gBob, y, 1), Claim(gBob, y, 2), Claim(gBob, None, 1),
           By(gBob, y, "use")}, 3, 2, FALSE)

Scenes == {
    FirstMinute,
    \* an older server is upgraded, and its first boot may not get far
    Scene(Older, {NoConfig, Both, Everybody},
          {Claim(gBob, y, 1), Claim(aAnn, x, 2), By(gAnn, x, "use")}, 2, 2, FALSE),
    \* a new server, open from the start, and a claimant with two devices
    Scene(Fresh, {Everybody},
          {Claim(gAnn, x, 1), By(gAnn, x, "close"), By(aAnn, x, "use")}, 3, 1, FALSE),
    \* an address is admitted and withdrawn while two people arrive with it
    Scene(OneOwner, {Both},
          {By(gAnn, x, "admit"), By(gAnn, x, "withdraw"), By(gBob, y, "sign_in"),
           By(aAnn, y, "use")}, 3, 1, FALSE),
    \* the same person for the first time from two devices at once
    Scene(OneOwner, {NoConfig}, {By(aAnn, x, "sign_in"), By(aAnn, x, "use"),
           By(gAnn, None, "close")}, 3, 1, FALSE),
    \* a session, and all the ways it ends
    Scene(AnnAndBob, {NoConfig},
          {By(gBob, y, "sign_in"), With(1, "use"), With(1, "end"), With(1, "close"),
           By(gAnn, x, "withdraw")}, 3, 1, TRUE),
    \* a promotion, while the person promoted is withdrawn or leaves
    Scene(AnnAndBob, {NoConfig},
          {By(gAnn, x, "own"), By(gAnn, x, "withdraw"), By(gBob, y, "close"),
           By(gBob, y, "withdraw")}, 3, 1, FALSE),
    \* an account is closed, and its row id is the next newcomer's
    Scene(AnnWithoutAddress, {NoConfig},
          {By(gBob, y, "close"), By(gBob, y, "use"), By(aAnn, x, "use")}, 3, 1, FALSE),
    \* two owners
    Scene(TwoOwners, {NoConfig},
          {Not(By(gAnn, x, "own")), Not(About(By(gBob, y, "own"), x)),
           By(gAnn, x, "close"), By(gAnn, x, "withdraw")}, 3, 1, FALSE),
    \* an open server is closed, with a stranger at the door
    Scene(OpenToAll, {NoConfig},
          {Not(By(gAnn, x, "set_open")), By(gBob, None, "sign_in"), With(1, "use"),
           By(gBob, y, "use")}, 3, 1, FALSE),
    \* Bob on two devices: his address changes on one and is let in on the other
    Crowded(AnnAndBob,
            {By(gBob, z, "use"), By(gBob, None, "use"), By(gAnn, None, "withdraw"),
             By(gAnn, None, "admit")}, 5, 3) }

MCRequests == UNION {scene.asks : scene \in Scenes}
MCConfigs == UNION {scene.configs : scene \in Scenes}
MCStored == {scene.db : scene \in Scenes}

Alike == Permutations(Callers)

VARIABLES
    scene,    \* the scene this behaviour plays
    asks      \* how many requests have arrived

Arrives(c) == ~Busy(c) /\ work'[c].plan # <<>>

MCInit ==
    /\ HistoryInit
    /\ scene \in Scenes
    /\ [users |-> users, identity |-> identity, admitted |-> admitted,
        open |-> open, claimed |-> claimed] = scene.db
    /\ asks = 0

MCNext ==
    /\ HistoryNext
    /\ UNCHANGED scene
    /\ asks' = asks + (IF \E c \in Callers : Arrives(c) THEN 1 ELSE 0)
    /\ asks' <= scene.budget /\ boots' <= scene.starts
    /\ now' # now => scene.clock
    /\ Cardinality({c \in Callers : work'[c].plan # <<>>}) <= scene.crowd
    /\ \A c \in Callers : Arrives(c) => work'[c].asked \in scene.asks
    /\ boots' # boots => \E config \in scene.configs : boot' = BootPlan(config)

MCSpec == MCInit /\ [][MCNext]_<<vars, history, scene, asks>>

(* Claims and nothing else: a server without an owner, and its first minute. *)
ClaimingSpec ==
    /\ MCInit /\ scene = FirstMinute
    /\ [][MCNext]_<<vars, history, scene, asks>>

=============================================================================
