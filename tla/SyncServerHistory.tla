-------------------------- MODULE SyncServerHistory --------------------------
(***************************************************************************)
(* SyncServer with what has happened meanwhile: the lists the person       *)
(* behind a device could edit at some moment since the operation in hand   *)
(* was looked up, and the operations the memory had held for that person   *)
(* when it was.  The history follows the steps and holds none up.          *)
(***************************************************************************)
EXTENDS SyncServer

VARIABLES
    could,   \* could[d]: the lists d's person could edit at some moment since
             \* the operation in hand was looked up
    memory    \* memory[d]: the operations ever remembered for d's person before
             \* the operation in hand was looked up

historyVars == <<vars, could, memory>>

Editable(p) == {l \in Lists : CanEdit(l, p)}

Held(d) == {id \in Ids : applied[id] = Who(d)}

HistoryInit ==
    /\ Init
    /\ could = [d \in Devices |-> {}]
    /\ memory = [d \in Devices |-> {}]

(* No operation is in hand, or it has not been looked up yet.              *)
BeforeLookUp == {"idle", "recall", "reply"}

(* What could be edited is forgotten whenever a handler turns to another    *)
(* operation; what was remembered never is, and is added to until the      *)
(* handler looks its operation up.                                         *)
Remember ==
    /\ could' = [d \in Devices |->
                    IF work'[d].pc \in BeforeLookUp THEN {}
                    ELSE could[d] \cup Editable(Who(d)) \cup Editable(Who(d))']
    /\ memory' = [d \in Devices |->
                    IF work'[d].pc \in BeforeLookUp THEN memory[d] \cup Held(d)'
                    ELSE memory[d]]

HistoryNext == Next /\ Remember

HistorySpec == HistoryInit /\ [][HistoryNext]_historyVars

----------------------------------------------------------------------------
(* What must hold.                                                         *)

(* Access is decided on arrival (docs/offline.md, 8): an operation gets as  *)
(* far as a write only on a list its sender could edit at some moment since *)
(* the operation was looked up -- the row's own list, whatever list the     *)
(* operation claims, and not a moment longer than the operation in hand.    *)
WritesWereAllowed ==
    \A d \in Devices :
        At(d, "write") => Plan(d).list \in could[d]

(* Nothing is written and nothing refused: "already_applied", or the end.  *)
AnsweredFromMemory(d) ==
    /\ UNCHANGED tables
    /\ \/ work'[d].answers \in {work[d].answers, <<>>}
       \/ work'[d].answers =
             Append(work[d].answers, [id |-> Op(d).id, outcome |-> "already_applied"])

(* "Sending the same batch twice does nothing the second time"              *)
(* (20260826210000_applied_operations.up.sql), however many windows send   *)
(* one outbox and overlap: a handler that looks an operation up after it   *)
(* was once remembered for the person who sends it writes to no table on   *)
(* its account and does not refuse it.  Only a handler that had looked it  *)
(* up before may still write: that window the code has.                    *)
RememberedIsSettled ==
    [][\A d \in Devices :
          work[d].batch # <<>> /\ Op(d).id \in memory[d] /\ work'[d] # work[d]
          => AnsweredFromMemory(d)]_historyVars

============================================================================
