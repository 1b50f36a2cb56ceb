----------------------------- MODULE MCWatching -----------------------------
(* A small instance of Watching: Ann and Bob, a list they may share and one  *)
(* of Ann's own, and one screen.  Each behaviour plays one scene: what is on *)
(* the screen, what is asked, and what may go wrong.  A receiver has room    *)
(* for one message where the code has room for 64, so that two announcements *)
(* already make it lag.                                                      *)
EXTENDS WatchingHistory, TLC

CONSTANTS ann, bob, l, m, s1, r1, r2

It(subject, me, holder) == [subject |-> subject, me |-> me, holder |-> holder]
Does(deed, list, me) == [deed |-> deed, list |-> list, me |-> me, who |-> me]

Shared == [owner |-> (l :> ann @@ m :> ann), members |-> (l :> {bob} @@ m :> {})]
Alone == [owner |-> (l :> ann @@ m :> None), members |-> (l :> {} @@ m :> {})]

Scene(db, shows, asks, budget, loading, failures, closes) ==
    [db |-> db, screen |-> (s1 :> shows), asks |-> asks, budget |-> budget,
     loading |-> loading, failures |-> failures, closes |-> closes]

Scenes == {
    \* Bob watches, on a phone that talks to the server, or through a cache
    Scene(Shared, It(l, bob, "app"), {Does("edit", l, ann), Does("edit", m, ann)}, 3, 0, 0, FALSE),
    Scene(Shared, It(l, bob, "app"), {Does("edit", l, ann)}, 2, 1, 1, FALSE),
    Scene(Shared, It(l, bob, "cached"), {Does("edit", l, ann)}, 1, 1, 1, TRUE),
    \* Ann has a page, or the sheet of members, open, and somebody joins or leaves
    Scene(Alone, It(l, ann, "page"), {Does("join", l, bob), Does("edit", l, ann)}, 2, 0, 1, FALSE),
    Scene(Alone, It(l, ann, "sheet"), {Does("join", l, bob), Does("remove", l, bob)}, 2, 0, 1, TRUE),
    \* Ann's and Bob's lists: made, named, shared, left and deleted
    Scene(Shared, It(ann, ann, "app"), {Does("remove", l, bob), Does("rename", l, ann),
          Does("delete", m, ann)}, 2, 0, 0, FALSE),
    Scene(Alone, It(bob, bob, "app"), {Does("join", l, bob), Does("rename", l, ann),
          Does("delete", l, ann), Does("create", m, ann)}, 2, 0, 1, FALSE),
    \* a list is deleted under a screen
    Scene(Shared, It(l, bob, "app"), {Does("delete", l, ann), Does("remove", l, bob)}, 2, 0, 0, FALSE),
    \* a device that answers for itself, and its screen closes
    Scene(Alone, It(l, ann, "local"), {Does("rename", l, ann), Does("edit", m, ann)}, 2, 0, 0, TRUE),
    Scene(Alone, It(ann, ann, "local"), {Does("create", m, ann)}, 1, 1, 1, TRUE) }

MCAsks == UNION {play.asks : play \in Scenes}

VARIABLES
    play,     \* the scene this behaviour plays
    asked,    \* how many requests were made
    loaded,   \* how many loads were not the loop's
    failed    \* how many connections, loads and processes were lost

bounds == <<play, asked, loaded, failed>>

MCInit ==
    /\ play \in Scenes
    /\ HistoryInit
    /\ screen = play.screen /\ owner = play.db.owner /\ members = play.db.members
    /\ asked = 0 /\ loaded = 0 /\ failed = 0

Begins(r) == ~Busy(r) /\ Busy(r)'

MCNext ==
    /\ UNCHANGED play
    /\ \/ HistoryGoes /\ UNCHANGED failed
       \/ failed < play.failures /\ HistoryBreaks /\ failed' = failed + 1
    /\ asked' = asked + Cardinality({r \in Requests : Begins(r)})
    /\ asked' <= play.budget
    /\ loaded' = loaded + Cardinality({w \in Screens : ReadsNow(w, "own")})
    /\ loaded' <= play.loading
    /\ \A r \in Requests : Begins(r) => Ask(r)' \in play.asks
    /\ Begins(r2) => Busy(r1)       \* which of two idle ones begins makes no difference
    /\ (\E w \in Screens : phase[w] # "closed" /\ phase'[w] = "closed") => play.closes

MCSpec == MCInit /\ [][MCNext]_<<vars, history, bounds>> /\ Fairness

(* Whatever was announced while a screen was listening reaches it, also when *)
(* its connection is lost, or the server restarts, before the nudge is       *)
(* there: each reconnect reads again (ItemsModel.watch, app.js "open").      *)
KeepsUp ==
    \A w \in Screens, v \in 1..MaxVersion :
      (Holder(w) \in {"app", "page", "local"} /\ live[w] /\ synced[w]
         /\ \E p \in told : p[1] = Subject(w) /\ p[2] >= v)
        ~> (shown[w] >= v \/ phase[w] = "closed" \/ spoilt[w] \/ ~MaySee(w))

(* Stopping a watcher ends its wait whichever order the two happen in, and   *)
(* the watcher is freed (Stopper::stop, "the whole correctness of stopping").*)
StopEndsTheWait ==
    \A w \in Screens : stopping[w] # "no" ~> thread[w] = "freed"

(* A screen that listens and has nothing coming to it is not silently stale  *)
(* (ItemsModel.watch; routes/lists.rs events, "is not lost"): once no        *)
(* request is under way, it shows what there is to read.                     *)
ScreenCatchesUp ==
    \A w \in Screens :
      AtRest(w) /\ (live[w] \/ Holder(w) = "cached") /\ shown[w] > 0 /\ ~spoilt[w]
        /\ (\A r \in Requests : ~Busy(r))
        => shown[w] = version[Subject(w)]

============================================================================
