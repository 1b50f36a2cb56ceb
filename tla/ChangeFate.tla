------------------------------ MODULE ChangeFate ------------------------------
(***************************************************************************)
(* What offline editing promises about one queued change, whatever devices, *)
(* connections and restarts do (docs/offline.md; ios Outbox.swift): once it *)
(* is made it waits until the server remembers it as applied or the device  *)
(* has dropped it on a refusal that will not change, and that is final.  It *)
(* is never forgotten in between, never dropped once it has landed, and     *)
(* never lands after it was dropped.                                        *)
(***************************************************************************)
CONSTANT Changes

VARIABLE fate

Fates == {"unmade", "waiting", "landed", "dropped"}

Init == fate = [c \in Changes |-> "unmade"]

Become(c, from, to) == fate[c] = from /\ fate' = [fate EXCEPT ![c] = to]

Make(c) == Become(c, "unmade", "waiting")

Land(c) == Become(c, "waiting", "landed")

Drop(c) == Become(c, "waiting", "dropped")

Next == \E c \in Changes : Make(c) \/ Land(c) \/ Drop(c)

Spec == Init /\ [][Next]_fate

===============================================================================
