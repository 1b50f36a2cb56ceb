-------------------------- MODULE AdmissionHistory --------------------------
(***************************************************************************)
(* Admission with what has happened meanwhile, which is what some of its   *)
(* properties speak of: which addresses an account has had, whether its    *)
(* request could have been let in, which addresses somebody stood behind,  *)
(* how many claims got through.  The history follows the steps and holds   *)
(* none up.                                                                *)
(***************************************************************************)
EXTENDS Admission

VARIABLES
    had,      \* had[c]: the addresses the account c comes from has had since c
              \* was found to come from it
    could,    \* could[c]: at some moment since then, c was admitted
    vouched,  \* the addresses an owner asked to admit, ALLOWED_EMAILS named, or
              \* whoever won the claim came with
    won       \* how many claims have got through

history == <<had, could, vouched, won>>

(* The address on the row of the account c comes from.                     *)
Address(c) ==
    IF Busy(c) /\ Who(c) # Unbound /\ Present(Who(c)) /\ users[Who(c)].email # None
    THEN {users[Who(c)].email} ELSE {}

(* Found to come from nobody known, c has the address its provider sent.   *)
IsNew(c) == At(c, "newcomer") \/ At(c, "invited")

(* Whether things are so that c may be let in.                             *)
Admissible(c) ==
    \/ open /\ (Who(c) # Unbound \/ IsNew(c))
    \/ Who(c) # Unbound /\ BoundTo(Who(c)) # {}
    \/ \E a \in had[c] : admitted[a] # None
    \/ IsNew(c) /\ Ask(c).email # None /\ admitted[Ask(c).email] # None

Claims(c) == At(c, "win") /\ work'[c] # work[c]

HistoryInit ==
    /\ Init
    /\ had = [c \in Callers |-> {}]
    /\ could = [c \in Callers |-> FALSE]
    /\ vouched = {a \in Addresses : admitted[a] # None}
    /\ won = 0

Remember ==
    /\ had' = [c \in Callers |-> IF Busy(c)' THEN had[c] \cup Address(c)' ELSE {}]
    /\ could' = [c \in Callers |-> Busy(c)' /\ (could[c] \/ Admissible(c)')]
    /\ vouched' = vouched
         \cup {Ask(c).address : c \in {d \in Callers : At(d, "admit")}}
         \cup {Ask(c).email : c \in {d \in Callers : Claims(d) /\ claimed' # claimed}}
         \cup {boot[k].address : k \in DOMAIN boot}
    /\ won' = won + (IF users' # users /\ \E c \in Callers : Claims(c) THEN 1 ELSE 0)

HistoryNext == Next /\ Remember

HistorySpec == HistoryInit /\ [][HistoryNext]_<<vars, history>>

----------------------------------------------------------------------------
(* What must hold.                                                         *)

(* Checking only at sign-in would mean removing an address had no effect   *)
(* (identity::from_session): a request gets to act only if, since it was   *)
(* found which account it comes from, the server was open, or an address   *)
(* was bound to the account, or one it had had by then was admitted; and   *)
(* the request of somebody new, only if the server was open or the address *)
(* it brought was admitted.  Not "admitted at one moment": the address is  *)
(* read in one statement and looked up in a later one (admits_user), with  *)
(* a new one stored in between.  An account here is its row, whoever is    *)
(* given a closed one's id.                                                *)
ActsOnlyIfAdmitted ==
    \A c \in Callers : Acting(c) => could[c]

(* Every admitted address was vouched for: an owner admitted it, the       *)
(* configuration named it, or whoever won the claim brought it.  Somebody  *)
(* who claims and loses admits nobody (admission::claim, "Only now").      *)
EveryAddressWasVouchedFor ==
    \A a \in Addresses : admitted[a] # None => a \in vouched

(* Of the claims that race for a server, across restarts, at most one gets *)
(* through (Server::claim_for).                                            *)
OneClaimWins == won <= 1

=============================================================================
