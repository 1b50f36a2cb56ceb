---------------------------- MODULE Suggesting -----------------------------
(***************************************************************************)
(* What is offered under the field while somebody types (Suggestions.swift *)
(* asks, service::items::suggestions answers), whatever has become of the  *)
(* list and its memory meanwhile.                                          *)
(***************************************************************************)
EXTENDS ShoppingHistory

CONSTANT Queries  \* what may have been typed so far, letter by letter; nothing
                  \* at all is a caller's who wants the list in rank order

SuggestingAssumption == Queries \subseteq Seq(Nat) /\ None \notin Queries
ASSUME SuggestingAssumption

VARIABLE query    \* what is being asked about; None: nothing is

SuggestingInit == ShoppingHistoryInit /\ query = None

(* update: whatever was being asked before is given up.                    *)
AskFor(typing) == query' = typing

(* The answer has come, or the field was emptied or sent (clear).          *)
StopAsking == query # None /\ query' = None

SuggestingNext ==
    \/ /\ StopAsking \/ \E typing \in Queries : AskFor(typing)
       /\ UNCHANGED <<vars, shopHistory>>
    \/ Next /\ RememberShopping /\ UNCHANGED query

SuggestingSpec == SuggestingInit /\ [][SuggestingNext]_<<vars, shopHistory, query>>

----------------------------------------------------------------------------

(* How well a remembered name matches, and whether it may be offered.      *)
Matched(k) == IF query = <<>> THEN 0 ELSE Score(query, history[k].display)
MayBeOffered(k) == query = <<>> \/ Matches(query, history[k].display)
Better(k, m) ==
    \/ Matched(k) > Matched(m)
    \/ Matched(k) = Matched(m) /\ Ranks(Candidate(k), Candidate(m), now)

(* What is offered is the best there is (suggest::offer) among the names   *)
(* that were read: each one that was remembered, no more than fit, best    *)
(* first and so none twice, none typed in full, and none left out that     *)
(* matches better, or as well and has been bought more of late.            *)
OfferIsBest ==
    query # None =>
    \A read \in Recent(Pool) :
        LET offer == Offer(query, {Candidate(k) : k \in read}, now)
            places == DOMAIN offer
            fit == {k \in read : MayBeOffered(k)}
            shown == {Key(offer[i]) : i \in places}
        IN /\ Len(offer) = Min({Limit, Cardinality(fit)})
           /\ \A i \in places : Key(offer[i]) \in fit
                                /\ offer[i] = history[Key(offer[i])].display
           /\ \A i, j \in places : i < j => Better(Key(offer[i]), Key(offer[j]))
           /\ \A k \in shown, m \in fit \ shown : Better(k, m)

=============================================================================
