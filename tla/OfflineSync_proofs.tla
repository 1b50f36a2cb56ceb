------------------------- MODULE OfflineSync_proofs -------------------------
(***************************************************************************)
(* Proofs about SyncServer, its history and OfflineSync, for any people,   *)
(* devices, scripts, lists, rows and batches.                              *)
(*                                                                         *)
(* First the replay.  A step of a handler is summed up once, in what it    *)
(* does to the handler (Ways) and to the items (RowChange); every          *)
(* invariant is then proved from the two summaries instead of action by    *)
(* action.                                                                 *)
(*                                                                         *)
(* Then the outbox in front of it: the two halves hold what their types    *)
(* say, a batch is answered in its order, a resend changes nothing, and    *)
(* devices, connections and server together implement ChangeFate.  The     *)
(* invariant follows a change from the script of the device that makes it  *)
(* to its answer: it is in one place at a time, it is applied only while   *)
(* it is queued, and what an answer on its way says of it is so.           *)
(***************************************************************************)
EXTENDS OfflineSync, SyncServerHistory, TLAPS

----------------------------------------------------------------------------
(* How the handler's state moves, one lemma per way of moving it.          *)

WorkOK == work \in [Devices -> Handlers]

Others(d) == \A e \in Devices \ {d} : work'[e] = work[e]

LEMMA NoPlanIsAPlan == NoPlan \in Plans
BY DEF NoPlan, Plans, Deeds

LEMMA HeadAndTail ==
    ASSUME NEW S, NEW s \in Seq(S), Len(s) > 0
    PROVE  /\ Head(s) \in S
           /\ Tail(s) \in Seq(S)
           /\ Len(Tail(s)) = Len(s) - 1
           /\ \A k \in 1..Len(Tail(s)) : Tail(s)[k] = s[k + 1]
OBVIOUS

LEMMA OpIsAnOperation ==
    ASSUME WorkOK, NEW d \in Devices, Len(work[d].batch) > 0
    PROVE  Op(d) \in Operations
<1>1. work[d].batch \in Seq(Operations)
  BY DEF WorkOK, Handlers
<1> QED
  BY <1>1, HeadAndTail DEF Op

LEMMA GotoMoves ==
    ASSUME WorkOK, NEW d \in Devices, NEW pc \in Phases, Goto(d, pc)
    PROVE  /\ WorkOK' /\ Others(d)
           /\ work'[d].pc = pc
           /\ work'[d].batch = work[d].batch
           /\ work'[d].arrived = work[d].arrived
           /\ work'[d].plan = work[d].plan
           /\ work'[d].answers = work[d].answers
BY DEF WorkOK, Goto, Handlers, Others

LEMMA DecideMoves ==
    ASSUME WorkOK, NEW d \in Devices, NEW pc \in Phases, NEW deed \in Deeds,
           NEW rows \in SUBSET RowIds, NEW list \in Lists \cup {None},
           Decide(d, pc, deed, rows, list)
    PROVE  /\ WorkOK' /\ Others(d)
           /\ work'[d].pc = pc
           /\ work'[d].batch = work[d].batch
           /\ work'[d].arrived = work[d].arrived
           /\ work'[d].plan.list = list
           /\ work'[d].plan.rows = rows
           /\ work'[d].plan.from = work[d].plan.from
           /\ work'[d].answers = work[d].answers
BY ZenonT(60) DEF WorkOK, Decide, Handlers, Plans, Others

LEMMA SplitFromMoves ==
    ASSUME WorkOK, NEW d \in Devices, NEW i \in RowIds, items[i].list \in Lists,
           SplitFrom(d, i)
    PROVE  /\ WorkOK' /\ Others(d)
           /\ work'[d].pc = "find"
           /\ work'[d].batch = work[d].batch
           /\ work'[d].arrived = work[d].arrived
           /\ work'[d].plan.list = items[i].list
           /\ work'[d].plan.rows = {}
           /\ work'[d].answers = work[d].answers
<1> DEFINE plan == [NoPlan EXCEPT !.list = items[i].list, !.from = {i}]
<1>1. plan \in Plans /\ plan.list = items[i].list /\ plan.rows = {}
  BY DEF NoPlan, Plans, Deeds
<1>2. "find" \in Phases
  BY DEF Phases
<1>3. work' = [work EXCEPT ![d].pc = "find", ![d].plan = plan]
  BY DEF SplitFrom
<1> HIDE DEF plan
<1>4. /\ WorkOK' /\ Others(d)
      /\ work'[d].pc = "find"
      /\ work'[d].batch = work[d].batch
      /\ work'[d].arrived = work[d].arrived
      /\ work'[d].plan = plan
      /\ work'[d].answers = work[d].answers
  BY <1>1, <1>2, <1>3 DEF WorkOK, Handlers, Others
<1> QED
  BY <1>1, <1>4

LEMMA StopMoves ==
    ASSUME WorkOK, NEW d \in Devices, Stop(d)
    PROVE  /\ WorkOK' /\ Others(d)
           /\ work'[d].pc = "reply"
           /\ work'[d].batch = <<>>
           /\ work'[d].arrived = work[d].arrived
           /\ work'[d].plan = NoPlan
           /\ work'[d].answers = work[d].answers
<1>1. "reply" \in Phases /\ <<>> \in Seq(Operations)
  BY DEF Phases
<1> QED
  BY <1>1, NoPlanIsAPlan DEF WorkOK, Stop, Handlers, Others

LEMMA AnswerMoves ==
    ASSUME WorkOK, NEW d \in Devices, NEW outcome \in Outcomes,
           Len(work[d].batch) > 0, Answer(d, outcome)
    PROVE  /\ WorkOK' /\ Others(d)
           /\ work'[d].pc = IF Len(work'[d].batch) = 0 THEN "reply" ELSE "recall"
           /\ work'[d].batch = Tail(work[d].batch)
           /\ work'[d].arrived = work[d].arrived
           /\ work'[d].plan = NoPlan
           /\ work'[d].answers =
                 Append(work[d].answers, [id |-> Op(d).id, outcome |-> outcome])
<1> DEFINE next == IF Len(work[d].batch) = 1 THEN "reply" ELSE "recall"
           answer == [id |-> Op(d).id, outcome |-> outcome]
<1>1. work[d].batch \in Seq(Operations) /\ work[d].answers \in Seq(Answers)
  BY DEF WorkOK, Handlers
<1>2. /\ Tail(work[d].batch) \in Seq(Operations)
      /\ Len(Tail(work[d].batch)) = 0 <=> Len(work[d].batch) = 1
  BY <1>1, HeadAndTail
<1>3. answer \in Answers
  BY OpIsAnOperation DEF Operations, Answers
<1>4. Append(work[d].answers, answer) \in Seq(Answers)
  BY <1>1, <1>3
<1>5. next \in Phases
  BY DEF Phases
<1>6. work' = [work EXCEPT ![d].pc = next, ![d].batch = Tail(@), ![d].plan = NoPlan,
                           ![d].answers = Append(@, answer)]
  BY DEF Answer
<1> HIDE DEF next, answer
<1>7. WorkOK'
  BY <1>2, <1>4, <1>5, <1>6, NoPlanIsAPlan DEF WorkOK, Handlers
<1>8. /\ Others(d)
      /\ work'[d].pc = next
      /\ work'[d].batch = Tail(work[d].batch)
      /\ work'[d].arrived = work[d].arrived
      /\ work'[d].plan = NoPlan
      /\ work'[d].answers = Append(work[d].answers, answer)
  BY <1>6 DEF WorkOK, Handlers, Others
<1> QED
  BY <1>2, <1>7, <1>8 DEF next, answer

----------------------------------------------------------------------------
(* What a handler knows before each statement.                             *)

(* The phases in which the handler has an operation in hand.               *)
Working == Phases \ {"idle", "reply"}

DeviceSound(d) ==
    /\ ~At(d, "idle") /\ ~At(d, "reply") <=> Len(work[d].batch) > 0
    /\ At(d, "write") \/ Splitting(d) => Plan(d).list \in Lists
    /\ Splitting(d) => Op(d).kind = "update" /\ Op(d).seen # None

PlanSound == \A d \in Devices : DeviceSound(d)

Sound == TypeOK /\ PlanSound

LEMMA OneDeviceMoves ==
    ASSUME PlanSound, NEW d \in Devices, Others(d), DeviceSound(d)'
    PROVE  PlanSound'
<1> SUFFICES ASSUME NEW e \in Devices, e # d PROVE DeviceSound(e)'
  BY DEF PlanSound
<1>1. work'[e] = work[e]
  BY DEF Others
<1> QED
  BY <1>1 DEF PlanSound, DeviceSound, At, Splitting, Plan, Op

LEMMA GotoSound ==
    ASSUME WorkOK, PlanSound, NEW d \in Devices, NEW pc \in Working, Goto(d, pc),
           ~At(d, "idle"), ~At(d, "reply"), pc # "write"
    PROVE  WorkOK' /\ PlanSound'
<1>1. DeviceSound(d)'
  BY GotoMoves DEF Working, PlanSound, DeviceSound, At, Splitting, Plan, Op
<1> QED
  BY <1>1, GotoMoves, OneDeviceMoves DEF Working

LEMMA DecideSound ==
    ASSUME WorkOK, PlanSound, NEW d \in Devices, NEW pc \in Working, NEW deed \in Deeds,
           NEW rows \in SUBSET RowIds, NEW list \in Lists \cup {None},
           Decide(d, pc, deed, rows, list),
           ~At(d, "idle"), ~At(d, "reply"),
           list \in Lists \/ (pc # "write" /\ ~Splitting(d))
    PROVE  WorkOK' /\ PlanSound'
<1>1. DeviceSound(d)'
  BY DecideMoves DEF Working, PlanSound, DeviceSound, At, Splitting, Plan, Op
<1> QED
  BY <1>1, DecideMoves, OneDeviceMoves DEF Working

LEMMA SplitFromSound ==
    ASSUME WorkOK, PlanSound, NEW d \in Devices, NEW i \in RowIds, items[i].list \in Lists,
           SplitFrom(d, i), Op(d).kind = "update", Op(d).seen # None,
           ~At(d, "idle"), ~At(d, "reply")
    PROVE  WorkOK' /\ PlanSound'
<1>1. DeviceSound(d)'
  BY SplitFromMoves DEF PlanSound, DeviceSound, At, Splitting, Plan, Op
<1> QED
  BY <1>1, SplitFromMoves, OneDeviceMoves

LEMMA StopSound ==
    ASSUME WorkOK, PlanSound, NEW d \in Devices, Stop(d)
    PROVE  WorkOK' /\ PlanSound'
<1>1. DeviceSound(d)'
  BY StopMoves DEF DeviceSound, At, Splitting, Plan, NoPlan
<1> QED
  BY <1>1, StopMoves, OneDeviceMoves

LEMMA AnswerSound ==
    ASSUME WorkOK, PlanSound, NEW d \in Devices, NEW outcome \in Outcomes,
           Answer(d, outcome), ~At(d, "idle"), ~At(d, "reply")
    PROVE  WorkOK' /\ PlanSound'
<1>1. Len(work[d].batch) > 0
  BY DEF PlanSound, DeviceSound
<1>2. WorkOK' /\ Others(d)
  BY <1>1, AnswerMoves
<1>3. Len(work'[d].batch) \in Nat
  <2>1. work'[d].batch \in Seq(Operations)
    BY <1>2 DEF WorkOK, Handlers
  <2> QED
    BY <2>1
<1>4. /\ work'[d].pc = IF Len(work'[d].batch) = 0 THEN "reply" ELSE "recall"
      /\ work'[d].plan = NoPlan
  BY <1>1, AnswerMoves
<1>5. DeviceSound(d)'
  BY <1>3, <1>4 DEF DeviceSound, At, Splitting, Plan, NoPlan
<1> QED
  BY <1>2, <1>5, OneDeviceMoves

(* How a step moves the handler of d.                                      *)
Ways(d) ==
    /\ ~At(d, "idle") /\ ~At(d, "reply")
    /\ \/ \E pc \in Working \ {"write"} :
             Goto(d, pc) /\ (At(d, "recall") => applied[Op(d).id] = None)
       \/ \E pc \in Working, deed \in Deeds, rows \in SUBSET RowIds,
            list \in Lists \cup {None} :
             /\ Decide(d, pc, deed, rows, list)
             /\ list \in Lists \/ (pc # "write" /\ ~Splitting(d))
             /\ ~At(d, "recall")
       \/ \E i \in RowIds :
             /\ SplitFrom(d, i) /\ items[i].list \in Lists
             /\ Op(d).kind = "update" /\ Op(d).seen # None
             /\ ~At(d, "recall")
       \/ Stop(d)
       \/ \E o \in Refusals : Answer(d, o)
       \/ Answer(d, "already_applied") /\ applied[Op(d).id] = Who(d)
       \/ Answer(d, "applied") /\ Note(d)

LEMMA WaysSound ==
    ASSUME WorkOK, PlanSound, NEW d \in Devices, Ways(d)
    PROVE  WorkOK' /\ PlanSound'
BY GotoSound, DecideSound, SplitFromSound, StopSound, AnswerSound
   DEF Ways, Outcomes

----------------------------------------------------------------------------
(* What a step may do to the items table.                                  *)

(* A row written over: it keeps its uuid, and its tick is the one it had,  *)
(* or none, or no later than a handler's arrival and the slack.            *)
Rewritten(i, row) ==
    /\ Present(i) /\ row.uuid = items[i].uuid
    /\ \/ row.doneAt \in {None, items[i].doneAt}
       \/ row.doneAt = now
       \/ \E d \in Devices : row.doneAt <= work[d].arrived + Slack
    /\ Put(i, row)

RowChange ==
    \/ UNCHANGED <<items, born>>
    \/ \E i \in RowIds : \E row \in Rows : Rewritten(i, row)
    \/ \E rows : Strike(rows)
    \/ \E i \in RowIds, u \in Uuids, l \in Lists, n \in Names, a \in Amounts :
          /\ u \notin born \/ Named(u) = {}
          /\ Insert(i, u, l, n, a, {})

ItemsOK == items \in [RowIds -> Rows \cup {None}] /\ born \in SUBSET Uuids

LEMMA RowChangeTyped ==
    ASSUME ItemsOK, RowChange
    PROVE  ItemsOK'
<1>1. CASE UNCHANGED <<items, born>>
  BY <1>1 DEF ItemsOK
<1>2. CASE \E i \in RowIds : \E row \in Rows : Rewritten(i, row)
  BY <1>2 DEF ItemsOK, Rewritten, Put
<1>3. CASE \E rows : Strike(rows)
  BY <1>3 DEF ItemsOK, Strike
<1>4. CASE \E i \in RowIds, u \in Uuids, l \in Lists, n \in Names, a \in Amounts :
              Insert(i, u, l, n, a, {})
  BY <1>4 DEF ItemsOK, Insert, Rows
<1> QED
  BY <1>1, <1>2, <1>3, <1>4 DEF RowChange

(* The other tables and the clock.                                         *)
RestOK ==
    /\ owner \in [Lists -> People \cup {None}]
    /\ member \in [Lists -> [People -> {"viewer", "editor", None}]]
    /\ walk \in [Lists -> [People -> Walks]]
    /\ applied \in [Ids -> People \cup {None}]
    /\ now \in 0..MaxTime

LEMMA SoundParts == Sound <=> ItemsOK /\ RestOK /\ WorkOK /\ PlanSound
BY DEF Sound, TypeOK, ItemsOK, RestOK, WorkOK

LEMMA SoundPartsAfter == Sound' <=> ItemsOK' /\ RestOK' /\ WorkOK' /\ PlanSound'
BY DEF Sound, TypeOK, ItemsOK, RestOK, WorkOK

LEMMA RowIsARow ==
    ASSUME ItemsOK, NEW i \in RowIds, Present(i)
    PROVE  items[i] \in Rows
BY DEF ItemsOK, Present

LEMMA PlannedRows ==
    ASSUME WorkOK, NEW d \in Devices
    PROVE  Plan(d).rows \in SUBSET RowIds
BY DEF WorkOK, Handlers, Plans, Plan

LEMMA OpInHand ==
    ASSUME WorkOK, PlanSound, NEW d \in Devices, ~At(d, "idle"), ~At(d, "reply")
    PROVE  Op(d) \in Operations
BY OpIsAnOperation DEF PlanSound, DeviceSound

----------------------------------------------------------------------------
(* Every action of a handler in those terms.                               *)

HandlerStep(d) ==
    /\ Ways(d) /\ RowChange /\ RestOK'
    /\ now' = now
    /\ applied' = applied \/ Note(d)

LEMMA ReadsOnly ==
    ASSUME Sound, UNCHANGED <<tables, applied, now>>
    PROVE  RowChange /\ RestOK' /\ now' = now /\ applied' = applied
BY SoundParts DEF RowChange, RestOK, tables

LEMMA RowsOnly ==
    ASSUME Sound, RowChange, UNCHANGED <<owner, member, walk, applied, now>>
    PROVE  RestOK' /\ now' = now /\ applied' = applied
BY SoundParts DEF RestOK

LEMMA ReadsStep ==
    ASSUME Sound, NEW d \in Devices,
           Recall(d) \/ Look(d) \/ CheckRole(d) \/ MakeList(d) \/ Record(d) \/ Reread(d)
    PROVE  HandlerStep(d)
<1>1. Ways(d)
  BY DEF Recall, Look, CheckRole, MakeList, Record, Reread, Remembered, Ways, At, Working, Phases,
         Refusals
<1>2. UNCHANGED <<tables, applied, now>>
  BY DEF Recall, Look, CheckRole, MakeList, Record, Reread
<1> QED
  BY <1>1, <1>2, ReadsOnly DEF HandlerStep

LEMMA StartListStep ==
    ASSUME Sound, NEW d \in Devices, StartList(d)
    PROVE  HandlerStep(d)
<1>1. Ways(d)
  BY DEF StartList, Ways, At, Working, Phases
<1>2. Who(d) \in People
  BY SyncServerAssumption DEF Who, SyncServerAssumption
<1>3. owner' \in [Lists -> People \cup {None}]
  BY <1>2, SoundParts DEF StartList, RestOK
<1>4. RestOK' /\ RowChange
  BY <1>3, SoundParts DEF StartList, RestOK, RowChange
<1> QED
  BY <1>1, <1>4 DEF StartList, HandlerStep

LEMMA FindAddAmongStep ==
    ASSUME Sound, NEW d \in Devices, NEW known \in SUBSET RowIds, FindAddAmong(d, known)
    PROVE  HandlerStep(d)
<1> DEFINE l == IF Splitting(d) THEN Plan(d).list ELSE Op(d).list
           like == Alike(l, Op(d).name)
<1>1. At(d, "find") /\ ~At(d, "idle") /\ ~At(d, "reply") /\ ~At(d, "recall")
  BY DEF FindAddAmong, At
<1>2. l \in Lists
  BY <1>1, SoundParts, OpInHand DEF Operations, PlanSound, DeviceSound
<1>3. like \subseteq RowIds
  BY DEF Alike, On
<1>4. \/ Answer(d, Refused(l, Who(d)))
      \/ Answer(d, "invalid")
      \/ \E i \in known : \E pc \in {"file", "note"} : Decide(d, pc, "keep", {i}, l)
      \/ Decide(d, "write", "insert", {}, l)
      \/ \E i \in like : \E deed \in {"put_back", "keep"} : Decide(d, "write", deed, {i}, l)
  BY DEF FindAddAmong
<1> HIDE DEF l, like
<1>5. \/ \E o \in Refusals : Answer(d, o)
      \/ \E pc \in Working, deed \in Deeds, rows \in SUBSET RowIds :
            Decide(d, pc, deed, rows, l)
  BY <1>3, <1>4 DEF Refused, Refusals, Working, Phases, Deeds
<1>6. Ways(d)
  BY <1>1, <1>2, <1>5 DEF Ways
<1> QED
  BY <1>6, ReadsOnly DEF FindAddAmong, HandlerStep

LEMMA FindAddStep ==
    ASSUME Sound, NEW d \in Devices, FindAdd(d)
    PROVE  HandlerStep(d)
<1>1. (IF Splitting(d) THEN {} ELSE Named(Op(d).item)) \in SUBSET RowIds
  BY DEF Named
<1> QED
  BY <1>1, FindAddAmongStep DEF FindAdd

LEMMA FindsStep ==
    ASSUME Sound, NEW d \in Devices, FindRow(d) \/ FindMany(d)
    PROVE  HandlerStep(d)
<1>1. ~At(d, "idle") /\ ~At(d, "reply") /\ ~At(d, "recall")
  BY DEF FindRow, FindMany, At
<1>2. \/ Goto(d, "note")
      \/ \E o \in Refusals : Answer(d, o)
      \/ \E rows \in SUBSET RowIds : Decide(d, "check", "none", rows, None) /\ ~Splitting(d)
  <2>1. CASE FindRow(d)
    BY <2>1 DEF FindRow, Refusals, Named
  <2>2. CASE FindMany(d)
    BY <2>2, SoundParts DEF FindMany, Named, Is, PlanSound, DeviceSound
  <2> QED
    BY <2>1, <2>2
<1>3. Ways(d)
  BY <1>1, <1>2 DEF Ways, Working, Phases, Deeds
<1> QED
  BY <1>3, ReadsOnly DEF FindRow, FindMany, HandlerStep

LEMMA CheckRowStep ==
    ASSUME Sound, NEW d \in Devices, CheckRow(d)
    PROVE  HandlerStep(d)
<1>1. ~At(d, "idle") /\ ~At(d, "reply") /\ ~At(d, "recall")
  BY DEF CheckRow, At
<1>2. Plan(d).rows \in SUBSET RowIds
  BY SoundParts, PlannedRows
<1>3. \A i \in RowIds : Present(i) => items[i].list \in Lists
  BY SoundParts, RowIsARow DEF Rows
<1>4. \/ Stop(d)
      \/ \E o \in Refusals : Answer(d, o)
      \/ \E i \in RowIds : /\ Present(i) /\ SplitFrom(d, i)
                           /\ Splits(items[i], Op(d)) /\ Op(d).kind = "update"
      \/ \E i \in RowIds : Present(i) /\ Decide(d, "write", "none", {i}, items[i].list)
  BY <1>2 DEF CheckRow, Refusals
<1>5. Ways(d)
  BY <1>1, <1>3, <1>4 DEF Ways, Splits, Working, Phases, Deeds
<1> QED
  BY <1>5, ReadsOnly DEF CheckRow, HandlerStep

LEMMA CheckManyStep ==
    ASSUME Sound, NEW d \in Devices, CheckMany(d)
    PROVE  HandlerStep(d)
<1>1. ~At(d, "idle") /\ ~At(d, "reply") /\ ~At(d, "recall")
  BY DEF CheckMany, At
<1>2. Plan(d).rows \in SUBSET RowIds /\ Op(d).list \in Lists
  BY <1>1, SoundParts, PlannedRows, OpInHand DEF Operations
<1>3. \/ Stop(d)
      \/ \E o \in Refusals : Answer(d, o)
      \/ \E rows \in SUBSET RowIds : Decide(d, "write", "none", rows, Op(d).list)
  BY <1>2 DEF CheckMany, Refusals
<1>4. Ways(d)
  BY <1>1, <1>2, <1>3 DEF Ways, Working, Phases, Deeds
<1> QED
  BY <1>4, ReadsOnly DEF CheckMany, HandlerStep

LEMMA WriteAddStep ==
    ASSUME Sound, NEW d \in Devices, WriteAdd(d)
    PROVE  HandlerStep(d)
<1> DEFINE uuids == IF Splitting(d) THEN Spare \ born ELSE {Op(d).item}
           amount == IF Splitting(d) THEN Op(d).seen.amount ELSE Op(d).amount
<1>1. At(d, "write") /\ ~At(d, "idle") /\ ~At(d, "reply") /\ ~At(d, "recall")
  BY DEF WriteAdd, At
<1>2. Op(d) \in Operations /\ Plan(d).list \in Lists /\ Plan(d).rows \in SUBSET RowIds
  BY <1>1, SoundParts, OpInHand, PlannedRows DEF PlanSound, DeviceSound
<1>3. uuids \subseteq Uuids
  BY <1>2, SyncServerAssumption DEF Operations, SyncServerAssumption
<1>4. amount \in Amounts /\ Op(d).name \in Names
  BY <1>2, SoundParts DEF Operations, PlanSound, DeviceSound
<1> HIDE DEF uuids, amount
<1>5. UNCHANGED <<owner, member, walk, applied, now>>
  BY DEF WriteAdd
<1>6. CASE Answer(d, "invalid") /\ UNCHANGED <<items, born>>
  BY <1>1, <1>5, <1>6, RowsOnly DEF HandlerStep, Ways, Refusals, RowChange
<1>7. CASE \E i \in RowIds, u \in uuids :
              /\ ~Clashes(u, Plan(d).list)
              /\ Insert(i, u, Plan(d).list, Op(d).name, amount, {})
              /\ Decide(d, "record", "insert", {i}, Plan(d).list)
  <2>1. PICK i \in RowIds, u \in uuids :
              /\ ~Clashes(u, Plan(d).list)
              /\ Insert(i, u, Plan(d).list, Op(d).name, amount, {})
              /\ Decide(d, "record", "insert", {i}, Plan(d).list)
    BY <1>7
  <2>2. RowChange
    BY <1>2, <1>3, <1>4, <2>1 DEF RowChange, Clashes
  <2>3. Ways(d)
    BY <1>1, <1>2, <2>1 DEF Ways, Working, Phases, Deeds
  <2> QED
    BY <1>5, <2>2, <2>3, RowsOnly DEF HandlerStep
<1>8. CASE \E i \in Plan(d).rows :
              IF Present(i)
              THEN Put(i, [items[i] EXCEPT !.doneAt = None]) /\ Goto(d, "record")
              ELSE Answer(d, "gone") /\ UNCHANGED <<items, born>>
  <2>1. PICK i \in RowIds :
              IF Present(i)
              THEN Put(i, [items[i] EXCEPT !.doneAt = None]) /\ Goto(d, "record")
              ELSE Answer(d, "gone") /\ UNCHANGED <<items, born>>
    BY <1>2, <1>8
  <2> DEFINE row == [items[i] EXCEPT !.doneAt = None]
  <2>2. Present(i) => row \in Rows /\ row.uuid = items[i].uuid /\ row.doneAt = None
    BY SoundParts, RowIsARow DEF Rows
  <2> HIDE DEF row
  <2>3. RowChange
    BY <2>1, <2>2 DEF RowChange, Rewritten, row
  <2>4. Ways(d)
    BY <1>1, <2>1 DEF Ways, Working, Phases, Refusals
  <2> QED
    BY <1>5, <2>3, <2>4, RowsOnly DEF HandlerStep
<1>9. CASE Goto(d, "record") /\ UNCHANGED <<items, born>>
  BY <1>1, <1>5, <1>9, RowsOnly DEF HandlerStep, Ways, Working, Phases, RowChange
<1> QED
  BY <1>6, <1>7, <1>8, <1>9 DEF WriteAdd, uuids, amount

LEMMA WriteTickStep ==
    ASSUME Sound, NEW d \in Devices, WriteTick(d)
    PROVE  HandlerStep(d)
<1> DEFINE at == IF Op(d).done THEN Clamp(Op(d).at, work[d].arrived) ELSE None
<1>1. At(d, "write") /\ ~At(d, "idle") /\ ~At(d, "reply") /\ ~At(d, "recall")
  BY DEF WriteTick, At
<1>2. Op(d) \in Operations /\ Plan(d).rows \in SUBSET RowIds
  BY <1>1, SoundParts, OpInHand, PlannedRows
<1>3. at \in Moments \cup {None} /\ (at # None => at <= work[d].arrived + Slack)
  <2>1. work[d].arrived \in 0..MaxTime /\ Op(d).at \in Nat
    BY <1>2, SoundParts DEF WorkOK, Handlers, Operations
  <2> QED
    BY <2>1, SyncServerAssumption DEF Clamp, Moments, SyncServerAssumption
<1> HIDE DEF at
<1>4. PICK i \in RowIds :
          IF Present(i)
          THEN Put(i, [items[i] EXCEPT !.doneAt = at]) /\ Goto(d, "note")
          ELSE Answer(d, "gone") /\ UNCHANGED <<items, born>>
  BY <1>2 DEF WriteTick, at
<1> DEFINE row == [items[i] EXCEPT !.doneAt = at]
<1>5. Present(i) => row \in Rows /\ row.uuid = items[i].uuid /\ row.doneAt = at
  BY <1>3, SoundParts, RowIsARow DEF Rows
<1> HIDE DEF row
<1>6. RowChange
  BY <1>3, <1>4, <1>5 DEF RowChange, Rewritten, row
<1>7. Ways(d)
  BY <1>1, <1>4 DEF Ways, Working, Phases, Refusals
<1> QED
  BY <1>6, <1>7, RowsOnly DEF HandlerStep, WriteTick

LEMMA WriteUpdateStep ==
    ASSUME Sound, NEW d \in Devices, WriteUpdate(d)
    PROVE  HandlerStep(d)
<1>1. At(d, "write") /\ ~At(d, "idle") /\ ~At(d, "reply") /\ ~At(d, "recall")
  BY DEF WriteUpdate, At
<1>2. Op(d) \in Operations /\ Plan(d).rows \in SUBSET RowIds
  BY <1>1, SoundParts, OpInHand, PlannedRows
<1>3. Op(d).name \in Names /\ Op(d).amount \in Amounts
  BY <1>2 DEF Operations
<1>4. PICK i \in RowIds :
          \/ (\E o \in Refusals : Answer(d, o)) /\ UNCHANGED <<items, born>>
          \/ /\ Present(i) /\ Goto(d, "record")
             /\ Put(i, [items[i] EXCEPT !.name = Op(d).name, !.amount = Op(d).amount])
  BY <1>2 DEF WriteUpdate, Refusals
<1> DEFINE row == [items[i] EXCEPT !.name = Op(d).name, !.amount = Op(d).amount]
<1>5. Present(i) => row \in Rows /\ row.uuid = items[i].uuid /\ row.doneAt = items[i].doneAt
  BY <1>3, SoundParts, RowIsARow DEF Rows
<1> HIDE DEF row
<1>6. RowChange
  BY <1>4, <1>5 DEF RowChange, Rewritten, row
<1>7. Ways(d)
  BY <1>1, <1>4 DEF Ways, Working, Phases
<1> QED
  BY <1>6, <1>7, RowsOnly DEF HandlerStep, WriteUpdate

LEMMA StrikesStep ==
    ASSUME Sound, NEW d \in Devices, WriteDelete(d) \/ WriteSweep(d)
    PROVE  HandlerStep(d)
<1>1. ~At(d, "idle") /\ ~At(d, "reply") /\ ~At(d, "recall")
  BY DEF WriteDelete, WriteSweep, At
<1>2. \/ (\E rows : Strike(rows)) /\ Goto(d, "note")
      \/ Answer(d, "gone") /\ UNCHANGED <<items, born>>
  BY DEF WriteDelete, WriteSweep
<1>3. RowChange /\ Ways(d)
  BY <1>1, <1>2 DEF RowChange, Ways, Working, Phases, Refusals
<1> QED
  BY <1>3, RowsOnly DEF HandlerStep, WriteDelete, WriteSweep

LEMMA WriteTagStep ==
    ASSUME Sound, NEW d \in Devices, WriteTag(d)
    PROVE  HandlerStep(d)
<1>1. ~At(d, "idle") /\ ~At(d, "reply") /\ ~At(d, "recall")
  BY DEF WriteTag, At
<1>2. Plan(d).rows \in SUBSET RowIds
  BY SoundParts, PlannedRows
<1>3. PICK i \in RowIds : \E tags :
          \/ Answer(d, "invalid") /\ UNCHANGED <<items, born>>
          \/ /\ Present(i) /\ Goto(d, "reread")
             /\ tags \subseteq Aisles
             /\ Put(i, [items[i] EXCEPT !.tags = tags])
  <2>1. PICK i \in RowIds :
          LET misses == \/ ~Present(i)
                        \/ IF Op(d).done THEN Op(d).tag \notin Aisles
                                         ELSE Op(d).tag \notin items[i].tags
          IN IF misses
             THEN Answer(d, "invalid") /\ UNCHANGED <<items, born>>
             ELSE /\ Put(i, [items[i] EXCEPT !.tags =
                               IF Op(d).done THEN @ \cup {Op(d).tag}
                                             ELSE @ \ {Op(d).tag}])
                  /\ Goto(d, "reread")
    BY <1>2 DEF WriteTag
  <2>2. Present(i) => items[i].tags \subseteq Aisles
    BY SoundParts, RowIsARow DEF Rows
  <2>3. CASE Op(d).done
    BY <2>1, <2>2, <2>3
  <2>4. CASE ~Op(d).done
    BY <2>1, <2>2, <2>4
  <2> QED
    BY <2>3, <2>4
<1>4. PICK tags :
          \/ Answer(d, "invalid") /\ UNCHANGED <<items, born>>
          \/ /\ Present(i) /\ Goto(d, "reread")
             /\ tags \subseteq Aisles
             /\ Put(i, [items[i] EXCEPT !.tags = tags])
  BY <1>3
<1> DEFINE row == [items[i] EXCEPT !.tags = tags]
<1>5. Present(i) /\ tags \subseteq Aisles =>
          row \in Rows /\ row.uuid = items[i].uuid /\ row.doneAt = items[i].doneAt
  BY SoundParts, RowIsARow DEF Rows
<1> HIDE DEF row
<1>6. RowChange
  BY <1>4, <1>5 DEF RowChange, Rewritten, row
<1>7. Ways(d)
  BY <1>1, <1>4 DEF Ways, Working, Phases, Refusals
<1> QED
  BY <1>6, <1>7, RowsOnly DEF HandlerStep, WriteTag

LEMMA NestedUpdate ==
    ASSUME NEW S, NEW T, NEW V, NEW f \in [S -> [T -> V]], NEW a, NEW b, NEW v \in V
    PROVE  [f EXCEPT ![a][b] = v] \in [S -> [T -> V]]
OBVIOUS

LEMMA WriteWalkStep ==
    ASSUME Sound, NEW d \in Devices, WriteWalk(d)
    PROVE  HandlerStep(d)
<1>1. ~At(d, "idle") /\ ~At(d, "reply") /\ ~At(d, "recall")
  BY DEF WriteWalk, At
<1>2. Op(d).walk \in Walks
  BY <1>1, SoundParts, OpInHand DEF Operations
<1>3. walk' \in [Lists -> [People -> Walks]]
  <2>1. walk' = walk \/ walk' = [walk EXCEPT ![Op(d).list][Who(d)] = Op(d).walk]
    BY DEF WriteWalk
  <2>2. walk \in [Lists -> [People -> Walks]]
    BY SoundParts DEF RestOK
  <2>3. CASE walk' = walk
    BY <2>2, <2>3
  <2>4. CASE walk' = [walk EXCEPT ![Op(d).list][Who(d)] = Op(d).walk]
    BY <1>2, <2>2, <2>4, NestedUpdate, Zenon
  <2> QED
    BY <2>1, <2>3, <2>4
<1>4. UNCHANGED <<owner, member, items, born, applied, now>>
  BY DEF WriteWalk
<1>5. RestOK' /\ RowChange
  BY <1>3, <1>4, SoundParts DEF RestOK, RowChange
<1>6. Ways(d)
  BY <1>1 DEF WriteWalk, Ways, Working, Phases, Refusals
<1> QED
  BY <1>4, <1>5, <1>6 DEF HandlerStep

LEMMA FileStep ==
    ASSUME Sound, NEW d \in Devices, File(d)
    PROVE  HandlerStep(d)
<1>1. ~At(d, "idle") /\ ~At(d, "reply") /\ ~At(d, "recall")
  BY DEF File, At
<1>2. Plan(d).rows \in SUBSET RowIds
  BY SoundParts, PlannedRows
<1>3. PICK i \in RowIds, tags \in SUBSET Aisles :
          IF Present(i) THEN Put(i, [items[i] EXCEPT !.tags = @ \cup tags])
                        ELSE UNCHANGED <<items, born>>
  BY <1>2 DEF File
<1> DEFINE row == [items[i] EXCEPT !.tags = @ \cup tags]
<1>4. Present(i) => row \in Rows /\ row.uuid = items[i].uuid /\ row.doneAt = items[i].doneAt
  BY SoundParts, RowIsARow DEF Rows
<1> HIDE DEF row
<1>5. RowChange
  BY <1>3, <1>4 DEF RowChange, Rewritten, row
<1>6. Ways(d)
  BY <1>1 DEF File, Ways, Working, Phases
<1> QED
  BY <1>5, <1>6, RowsOnly DEF HandlerStep, File

LEMMA NoteStep ==
    ASSUME Sound, NEW d \in Devices, Note(d)
    PROVE  HandlerStep(d)
<1>1. Ways(d)
  BY DEF Note, Ways, At
<1>2. Who(d) \in People
  BY SyncServerAssumption DEF Who, SyncServerAssumption
<1>3. applied' \in [Ids -> People \cup {None}]
  BY <1>2, SoundParts DEF Note, RestOK
<1>4. RestOK' /\ RowChange /\ now' = now
  BY <1>3, SoundParts DEF Note, RestOK, tables, RowChange
<1> QED
  BY <1>1, <1>4 DEF HandlerStep

LEMMA TroubleStep ==
    ASSUME Sound, NEW d \in Devices, Trouble(d)
    PROVE  HandlerStep(d)
<1>1. CASE FindAddAmong(d, {})
  BY <1>1, FindAddAmongStep
<1>2. CASE ~FindAddAmong(d, {})
  <2>1. ~At(d, "idle") /\ ~At(d, "reply")
    <3>1. work[d].batch \in Seq(Operations)
      BY SoundParts DEF WorkOK, Handlers
    <3>2. work[d].batch # <<>> => Len(work[d].batch) > 0
      BY <3>1
    <3> QED
      BY <1>2, <3>2, SoundParts DEF PlanSound, DeviceSound, Trouble, Told, At
  <2>2. UNCHANGED <<tables, applied, now>>
    BY DEF Trouble
  <2>3. Ways(d)
    BY <1>2, <2>1 DEF Trouble, Ways, At, Working, Phases, Refusals
  <2> QED
    BY <2>2, <2>3, ReadsOnly DEF HandlerStep
<1> QED
  BY <1>1, <1>2

LEMMA HandleStep ==
    ASSUME Sound, NEW d \in Devices, Handle(d) \/ Trouble(d)
    PROVE  HandlerStep(d)
BY ReadsStep, StartListStep, FindAddStep, FindsStep, CheckRowStep, CheckManyStep,
   WriteAddStep, WriteTickStep, WriteUpdateStep, StrikesStep, WriteTagStep,
   WriteWalkStep, FileStep, NoteStep, TroubleStep
   DEF Handle

----------------------------------------------------------------------------
(* Every other step.                                                       *)

(* A handler begins or ends.                                               *)
Turn(d) ==
    /\ Reply(d) \/ Cut(d) \/ \E batch \in Batches[d] : Arrive(d, batch)
    /\ UNCHANGED <<tables, applied, now>>

LiveStep ==
    /\ RowChange /\ RestOK'
    /\ UNCHANGED <<applied, now, work>>

Move ==
    \/ \E d \in Devices : HandlerStep(d) \/ Turn(d)
    \/ LiveStep
    \/ Tick

LEMMA IdleIsAHandler ==
    /\ Idle \in Handlers
    /\ Idle.pc = "idle" /\ Idle.plan = NoPlan /\ Idle.answers = <<>>
    /\ Idle.batch = <<>> /\ Idle.arrived = 0
<1>1. 0 \in 0..MaxTime
  BY SyncServerAssumption DEF SyncServerAssumption
<1>2. "idle" \in Phases /\ <<>> \in Seq(Operations) /\ <<>> \in Seq(Answers)
  BY DEF Phases
<1> QED
  BY <1>1, <1>2, NoPlanIsAPlan DEF Idle, Handlers

LEMMA EndMoves ==
    ASSUME WorkOK, NEW d \in Devices, Reply(d) \/ Cut(d)
    PROVE  WorkOK' /\ Others(d) /\ work'[d] = Idle
<1>1. work' = [work EXCEPT ![d] = Idle]
  BY DEF Reply, Cut
<1> QED
  BY <1>1, IdleIsAHandler DEF WorkOK, Others

LEMMA ArriveMoves ==
    ASSUME Sound, NEW d \in Devices, NEW batch \in Batches[d], Arrive(d, batch)
    PROVE  /\ WorkOK' /\ Others(d)
           /\ Len(batch) > 0
           /\ work'[d].pc = "recall"
           /\ work'[d].batch = batch
           /\ work'[d].arrived = now
           /\ work'[d].plan = NoPlan
           /\ work'[d].answers = <<>>
<1> DEFINE w == [Idle EXCEPT !.pc = "recall", !.batch = batch, !.arrived = now]
<1>1. batch \in Seq(Operations) /\ batch # <<>>
  BY SyncServerAssumption DEF Arrive, SyncServerAssumption
<1>2. Len(batch) > 0
  BY <1>1
<1>3. "recall" \in Phases /\ now \in 0..MaxTime
  BY SoundParts DEF Phases, RestOK
<1>4. /\ w \in Handlers
      /\ w.pc = "recall" /\ w.batch = batch /\ w.arrived = now
      /\ w.plan = NoPlan /\ w.answers = <<>>
  BY <1>1, <1>3, IdleIsAHandler DEF Handlers
<1>5. work' = [work EXCEPT ![d] = w]
  BY DEF Arrive
<1> HIDE DEF w
<1>6. WorkOK' /\ Others(d) /\ work'[d] = w
  BY <1>4, <1>5, SoundParts DEF WorkOK, Others
<1> QED
  BY <1>2, <1>4, <1>6

LEMMA TurnSound ==
    ASSUME Sound, NEW d \in Devices, Turn(d)
    PROVE  WorkOK' /\ PlanSound'
<1>1. CASE Reply(d) \/ Cut(d)
  <2>1. WorkOK' /\ Others(d) /\ work'[d] = Idle
    BY <1>1, SoundParts, EndMoves
  <2>2. DeviceSound(d)'
    BY <2>1, IdleIsAHandler DEF DeviceSound, At, Splitting, Plan, NoPlan
  <2> QED
    BY <2>1, <2>2, SoundParts, OneDeviceMoves
<1>2. CASE \E batch \in Batches[d] : Arrive(d, batch)
  <2>1. PICK batch \in Batches[d] : Arrive(d, batch)
    BY <1>2
  <2>2. /\ WorkOK' /\ Others(d)
        /\ work'[d].pc = "recall" /\ Len(work'[d].batch) > 0
        /\ work'[d].plan = NoPlan
    BY <2>1, ArriveMoves
  <2>3. DeviceSound(d)'
    BY <2>2 DEF DeviceSound, At, Splitting, Plan, NoPlan
  <2> QED
    BY <2>2, <2>3, SoundParts, OneDeviceMoves
<1> QED
  BY <1>1, <1>2 DEF Turn

LEMMA LiveAddStep ==
    ASSUME Sound, NEW p \in Online, NEW l \in Lists, NEW n \in Names, NEW a \in Amounts,
           LiveAdd(p, l, n, a)
    PROVE  LiveStep
<1>1. UNCHANGED <<owner, member, walk, applied, now, work>>
  BY DEF LiveAdd
<1>2. CASE \E i \in Alike(l, n) : Done(i) /\ Put(i, [items[i] EXCEPT !.doneAt = None])
  <2>1. PICK i \in RowIds : Present(i) /\ Put(i, [items[i] EXCEPT !.doneAt = None])
    BY <1>2 DEF Alike, On
  <2> DEFINE row == [items[i] EXCEPT !.doneAt = None]
  <2>2. row \in Rows /\ row.uuid = items[i].uuid /\ row.doneAt = None
    BY <2>1, SoundParts, RowIsARow DEF Rows
  <2> HIDE DEF row
  <2>3. RowChange
    BY <2>1, <2>2 DEF RowChange, Rewritten, row
  <2> QED
    BY <1>1, <2>3, RowsOnly DEF LiveStep
<1>3. CASE \E i \in RowIds, u \in Spare \ born : Insert(i, u, l, n, a, {})
  <2>1. RowChange
    BY <1>3, SyncServerAssumption DEF RowChange, SyncServerAssumption
  <2> QED
    BY <1>1, <2>1, RowsOnly DEF LiveStep
<1> QED
  BY <1>2, <1>3 DEF LiveAdd

LEMMA LiveTickStep ==
    ASSUME Sound, NEW p \in Online, NEW i \in RowIds, NEW done \in BOOLEAN,
           LiveTick(p, i, done)
    PROVE  LiveStep
<1> DEFINE at == IF done THEN now ELSE None
<1>1. at \in Moments \cup {None} /\ at \in {now, None}
  BY SoundParts, SyncServerAssumption DEF RestOK, Moments, SyncServerAssumption
<1>2. Present(i) /\ Put(i, [items[i] EXCEPT !.doneAt = at])
  BY DEF LiveTick
<1> HIDE DEF at
<1> DEFINE row == [items[i] EXCEPT !.doneAt = at]
<1>3. row \in Rows /\ row.uuid = items[i].uuid /\ row.doneAt = at
  BY <1>1, <1>2, SoundParts, RowIsARow DEF Rows
<1> HIDE DEF row
<1>4. RowChange
  BY <1>1, <1>2, <1>3 DEF RowChange, Rewritten, row
<1> QED
  BY <1>4, RowsOnly DEF LiveTick, LiveStep

LEMMA LiveUpdateStep ==
    ASSUME Sound, NEW p \in Online, NEW i \in RowIds, NEW n \in Names, NEW a \in Amounts,
           LiveUpdate(p, i, n, a)
    PROVE  LiveStep
<1> DEFINE row == [items[i] EXCEPT !.name = n, !.amount = a]
<1>1. Present(i) /\ Put(i, row)
  BY DEF LiveUpdate
<1>2. row \in Rows /\ row.uuid = items[i].uuid /\ row.doneAt = items[i].doneAt
  BY <1>1, SoundParts, RowIsARow DEF Rows
<1> HIDE DEF row
<1>3. RowChange
  BY <1>1, <1>2 DEF RowChange, Rewritten
<1> QED
  BY <1>3, RowsOnly DEF LiveUpdate, LiveStep

LEMMA LiveListsStep ==
    ASSUME Sound, NEW p \in People, NEW l \in Lists,
           \/ DeleteList(p, l) \/ RemoveMember(l, p)
           \/ \E role \in {"viewer", "editor"} : Join(p, l, role)
    PROVE  LiveStep
<1>1. CASE DeleteList(p, l)
  <2>1. /\ owner' \in [Lists -> People \cup {None}]
        /\ member' \in [Lists -> [People -> {"viewer", "editor", None}]]
        /\ walk' \in [Lists -> [People -> Walks]]
    BY <1>1, SoundParts, SyncServerAssumption DEF DeleteList, RestOK, SyncServerAssumption
  <2>2. UNCHANGED <<applied, now, work>> /\ RowChange
    BY <1>1 DEF DeleteList, RowChange
  <2> QED
    BY <2>1, <2>2, SoundParts DEF RestOK, LiveStep
<1>2. CASE ~DeleteList(p, l)
  <2>1. PICK r \in {"viewer", "editor", None} : member' = [member EXCEPT ![l][p] = r]
    BY <1>2 DEF Join, RemoveMember
  <2>2. member' \in [Lists -> [People -> {"viewer", "editor", None}]]
    BY <2>1, SoundParts DEF RestOK
  <2>3. UNCHANGED <<owner, items, born, walk, applied, now, work>>
    BY <1>2 DEF Join, RemoveMember
  <2> QED
    BY <2>2, <2>3, SoundParts DEF RestOK, RowChange, LiveStep
<1> QED
  BY <1>1, <1>2

LEMMA LiveSteps ==
    ASSUME Sound, Live
    PROVE  LiveStep
<1>1. CASE \E p \in Online : \E l \in Lists, n \in Names, a \in Amounts : LiveAdd(p, l, n, a)
  BY <1>1, LiveAddStep
<1>2. CASE \E p \in Online : \E i \in RowIds, done \in BOOLEAN : LiveTick(p, i, done)
  BY <1>2, LiveTickStep
<1>3. CASE \E p \in Online : \E i \in RowIds, n \in Names, a \in Amounts : LiveUpdate(p, i, n, a)
  BY <1>3, LiveUpdateStep
<1>4. CASE \E p \in Online : \/ \E i \in RowIds : LiveDelete(p, i)
                             \/ \E l \in Lists : LiveClear(p, l)
  <2>1. RowChange /\ UNCHANGED <<owner, member, walk, applied, now, work>>
    BY <1>4 DEF LiveDelete, LiveClear, RowChange
  <2> QED
    BY <2>1, RowsOnly DEF LiveStep
<1>5. CASE \E p \in Online : \E l \in Lists : DeleteList(p, l)
  BY <1>5, LiveListsStep, SyncServerAssumption DEF SyncServerAssumption
<1>6. CASE \E l \in Lists, p \in People :
              \/ \E role \in {"viewer", "editor"} : Join(p, l, role)
              \/ RemoveMember(l, p)
  BY <1>6, LiveListsStep
<1> QED
  BY <1>1, <1>2, <1>3, <1>4, <1>5, <1>6 DEF Live

LEMMA NextMoves ==
    ASSUME Sound, Next
    PROVE  Move
<1>1. CASE \E d \in Devices : Handle(d) \/ Trouble(d)
  BY <1>1, HandleStep DEF Move
<1>2. CASE \E d \in Devices :
              Reply(d) \/ Cut(d) \/ \E batch \in Batches[d] : Arrive(d, batch)
  BY <1>2 DEF Reply, Cut, Arrive, Turn, Move
<1>3. CASE Live
  BY <1>3, LiveSteps DEF Move
<1> QED
  BY <1>1, <1>2, <1>3 DEF Next, Move

----------------------------------------------------------------------------
(* The types.                                                              *)

LEMMA WorkSame ==
    ASSUME WorkOK, PlanSound, UNCHANGED work
    PROVE  WorkOK' /\ PlanSound'
BY DEF WorkOK, PlanSound, DeviceSound, At, Splitting, Plan, Op

(* Every move but the clock's is a change to the rows in those terms, and  *)
(* the clock's leaves them alone.                                          *)
LEMMA MoveChangesRows ==
    ASSUME Move
    PROVE  RowChange
BY DEF Move, HandlerStep, Turn, LiveStep, Tick, tables, RowChange

LEMMA MoveSound ==
    ASSUME Sound, Move
    PROVE  Sound'
<1>1. ItemsOK'
  BY SoundParts, MoveChangesRows, RowChangeTyped
<1>2. CASE \E d \in Devices : HandlerStep(d)
  BY <1>1, <1>2, WaysSound, SoundParts, SoundPartsAfter DEF HandlerStep
<1>3. CASE \E d \in Devices : Turn(d)
  BY <1>1, <1>3, TurnSound, SoundParts, SoundPartsAfter DEF Turn, RestOK, tables
<1>4. CASE LiveStep
  BY <1>1, <1>4, WorkSame, SoundParts, SoundPartsAfter DEF LiveStep
<1>5. CASE Tick
  <2>1. now' \in 0..MaxTime
    BY <1>5, SoundParts, SyncServerAssumption DEF Tick, RestOK, SyncServerAssumption
  <2>2. RestOK' /\ UNCHANGED work
    BY <1>5, <2>1, SoundParts DEF Tick, RestOK, tables
  <2> QED
    BY <1>1, <2>2, WorkSame, SoundParts, SoundPartsAfter
<1> QED
  BY <1>2, <1>3, <1>4, <1>5 DEF Move

LEMMA NextSound ==
    ASSUME Sound, [Next]_vars
    PROVE  Sound'
<1>1. CASE UNCHANGED vars
  <2>1. ItemsOK' /\ RestOK' /\ UNCHANGED work
    BY <1>1, SoundParts DEF vars, tables, ItemsOK, RestOK
  <2> QED
    BY <2>1, WorkSame, SoundParts, SoundPartsAfter
<1> QED
  BY <1>1, NextMoves, MoveSound

LEMMA InitSound ==
    ASSUME Init
    PROVE  Sound
<1>1. ItemsOK /\ RestOK
  BY SyncServerAssumption DEF Init, InitTables, ItemsOK, RestOK, SyncServerAssumption
<1>2. WorkOK
  BY IdleIsAHandler DEF Init, WorkOK
<1>3. PlanSound
  BY IdleIsAHandler DEF Init, PlanSound, DeviceSound, At, Splitting, Plan, NoPlan
<1> QED
  BY <1>1, <1>2, <1>3, SoundParts

LEMMA AlwaysSound == Spec => []Sound
<1>1. Init => Sound
  BY InitSound
<1>2. Sound /\ [Next]_vars => Sound'
  BY NextSound
<1> QED
  BY <1>1, <1>2, PTL DEF Spec

(* Every table of the database and every handler keeps to its type,        *)
(* whatever batches arrive and wherever handlers are cut: in particular no *)
(* write of the route names a list, a row or a moment that cannot exist.   *)
THEOREM TypesHold == Spec => []TypeOK
<1>1. Sound => TypeOK
  BY DEF Sound
<1> QED
  BY <1>1, AlwaysSound, PTL

----------------------------------------------------------------------------
(* No uuid names two rows.                                                 *)

(* Inductive: a uuid that was never born names no row, so a uuid the       *)
(* server mints afresh is free, and the check of items::create and the     *)
(* unique index keep the others so.                                        *)
UuidsAreBorn == \A i \in RowIds : Present(i) => items[i].uuid \in born

RowsApart == ItemsOK /\ UuidsAreBorn /\ OneRowPerUuid

LEMMA RowChangeKeepsRowsApart ==
    ASSUME RowsApart, RowChange
    PROVE  RowsApart'
<1>1. ItemsOK'
  BY RowChangeTyped DEF RowsApart
<1>2. CASE UNCHANGED <<items, born>>
  BY <1>1, <1>2 DEF RowsApart, UuidsAreBorn, OneRowPerUuid, Present
<1>3. CASE \E i \in RowIds : \E row \in Rows : Rewritten(i, row)
  BY <1>1, <1>3
     DEF RowsApart, ItemsOK, UuidsAreBorn, OneRowPerUuid, Present, Rewritten, Put
<1>4. CASE \E rows : Strike(rows)
  BY <1>1, <1>4 DEF RowsApart, UuidsAreBorn, OneRowPerUuid, Present, Strike
<1>5. CASE \E i \in RowIds, u \in Uuids, l \in Lists, n \in Names, a \in Amounts :
              /\ u \notin born \/ Named(u) = {}
              /\ Insert(i, u, l, n, a, {})
  <2>1. PICK i \in RowIds, u \in Uuids, l \in Lists, n \in Names, a \in Amounts :
              /\ u \notin born \/ Named(u) = {}
              /\ Insert(i, u, l, n, a, {})
    BY <1>5
  <2>2. \A j \in RowIds : Present(j) => items[j].uuid # u
    BY <2>1 DEF RowsApart, UuidsAreBorn, Named
  <2>3. /\ \A j \in RowIds : j # i => items'[j] = items[j]
        /\ items'[i].uuid = u
        /\ born' = born \cup {u}
    BY <2>1 DEF Insert, RowsApart, ItemsOK
  <2> QED
    BY <1>1, <2>2, <2>3 DEF RowsApart, UuidsAreBorn, OneRowPerUuid, Present
<1> QED
  BY <1>2, <1>3, <1>4, <1>5 DEF RowChange

(* Whatever order inserts, resends, merges, splits and deletes come in, a  *)
(* uuid names at most one row of the items table: sync::find and the       *)
(* devices' caches can treat it as a row's name.                           *)
THEOREM UuidsNameOneRow == Spec => []OneRowPerUuid
<1>1. Init => RowsApart
  BY InitSound, SoundParts
     DEF Init, InitTables, RowsApart, UuidsAreBorn, OneRowPerUuid, Present
<1>2. Sound /\ RowsApart /\ [Next]_vars => RowsApart'
  <2>1. CASE UNCHANGED vars
    BY <2>1 DEF vars, tables, RowsApart, ItemsOK, UuidsAreBorn, OneRowPerUuid, Present
  <2> QED
    BY <2>1, NextMoves, MoveChangesRows, RowChangeKeepsRowsApart
<1>3. RowsApart => OneRowPerUuid
  BY DEF RowsApart
<1> QED
  BY <1>1, <1>2, <1>3, AlwaysSound, PTL DEF Spec

----------------------------------------------------------------------------
(* No tick from the future.                                                *)

(* Inductive: a handler arrived no later than now.                         *)
ArrivedBefore == \A d \in Devices : work[d].arrived <= now

NoFuture == ArrivedBefore /\ NeverFromTheFuture

LEMMA HandlerKeepsArrivals ==
    ASSUME Sound, NEW d \in Devices, HandlerStep(d), ArrivedBefore
    PROVE  ArrivedBefore'
<1>1. Len(work[d].batch) > 0
  BY SoundParts DEF HandlerStep, Ways, PlanSound, DeviceSound
<1>2. Others(d) /\ work'[d].arrived = work[d].arrived
  BY <1>1, SoundParts, GotoMoves, DecideMoves, SplitFromMoves, StopMoves, AnswerMoves
     DEF HandlerStep, Ways, Working, Outcomes
<1> QED
  BY <1>2 DEF HandlerStep, ArrivedBefore, Others

LEMMA TurnKeepsArrivals ==
    ASSUME Sound, NEW d \in Devices, Turn(d), ArrivedBefore
    PROVE  ArrivedBefore'
<1>1. now \in 0..MaxTime /\ now' = now
  BY SoundParts DEF RestOK, Turn
<1>2. Others(d) /\ work'[d].arrived \in {0, now}
  BY SoundParts, EndMoves, ArriveMoves, IdleIsAHandler DEF Turn
<1>3. work'[d].arrived <= now
  BY <1>1, <1>2, SyncServerAssumption DEF SyncServerAssumption
<1> QED
  BY <1>1, <1>2, <1>3 DEF ArrivedBefore, Others

LEMMA MoveKeepsArrivals ==
    ASSUME Sound, Move, ArrivedBefore
    PROVE  ArrivedBefore' /\ now' \in Nat /\ now <= now'
<1>0. now \in Nat /\ \A d \in Devices : work[d].arrived \in Nat
  BY SoundParts, SyncServerAssumption DEF RestOK, WorkOK, Handlers, SyncServerAssumption
<1>1. CASE \E d \in Devices : HandlerStep(d)
  BY <1>0, <1>1, HandlerKeepsArrivals DEF HandlerStep
<1>2. CASE \E d \in Devices : Turn(d)
  BY <1>0, <1>2, TurnKeepsArrivals DEF Turn
<1>3. CASE LiveStep \/ Tick
  BY <1>0, <1>3 DEF LiveStep, Tick, ArrivedBefore
<1> QED
  BY <1>1, <1>2, <1>3 DEF Move

LEMMA RowChangeKeepsNoFuture ==
    ASSUME Sound, NoFuture, RowChange, now' \in Nat, now <= now', ArrivedBefore'
    PROVE  NoFuture'
<1>1. /\ ItemsOK /\ now \in Nat /\ Slack \in Nat
      /\ \A d \in Devices : work[d].arrived \in Nat /\ work[d].arrived <= now
  BY SoundParts, SyncServerAssumption
     DEF RestOK, WorkOK, Handlers, NoFuture, ArrivedBefore, SyncServerAssumption
<1>2. now' \in Int /\ \A i \in RowIds : Present(i) /\ Done(i) => items[i].doneAt <= now' + Slack
  <2>1. \A i \in RowIds : Present(i) /\ Done(i) => items[i].doneAt \in Nat
    BY <1>1, RowIsARow, SyncServerAssumption DEF Rows, Moments, Done, SyncServerAssumption
  <2> QED
    BY <1>1, <2>1 DEF NoFuture, NeverFromTheFuture
<1>3. CASE UNCHANGED <<items, born>>
  BY <1>2, <1>3 DEF NoFuture, NeverFromTheFuture, Present, Done
<1>4. CASE \E i \in RowIds : \E row \in Rows : Rewritten(i, row)
  <2>1. PICK i \in RowIds, row \in Rows : Rewritten(i, row)
    BY <1>4
  <2>2. row.doneAt \in Nat \cup {None}
    BY SyncServerAssumption DEF Rows, Moments, SyncServerAssumption
  <2>3. row.doneAt = None \/ row.doneAt <= now' + Slack
    BY <1>1, <1>2, <2>1, <2>2 DEF Rewritten, Done
  <2>4. items'[i] = row /\ \A j \in RowIds : j # i => items'[j] = items[j]
    BY <1>1, <2>1 DEF Rewritten, Put, ItemsOK
  <2> QED
    BY <1>2, <2>3, <2>4 DEF NoFuture, NeverFromTheFuture, Present, Done
<1>5. CASE \E rows : Strike(rows)
  BY <1>2, <1>5 DEF NoFuture, NeverFromTheFuture, Present, Done, Strike
<1>6. CASE \E i \in RowIds, u \in Uuids, l \in Lists, n \in Names, a \in Amounts :
              Insert(i, u, l, n, a, {})
  <2>1. PICK i \in RowIds : /\ items'[i].doneAt = None
                            /\ \A j \in RowIds : j # i => items'[j] = items[j]
    BY <1>1, <1>6 DEF Insert, ItemsOK
  <2> QED
    BY <1>2, <2>1 DEF NoFuture, NeverFromTheFuture, Present, Done
<1> QED
  BY <1>3, <1>4, <1>5, <1>6 DEF RowChange

(* Whatever a device's clock says, no row is ticked later than the server's *)
(* clock and the slack: an hour late in a batch that started an hour ago,  *)
(* or on a row ticked by somebody else meanwhile, all the same.            *)
THEOREM NoTickFromTheFuture == Spec => []NeverFromTheFuture
<1>1. Init => NoFuture
  <2> SUFFICES ASSUME Init PROVE NoFuture
    OBVIOUS
  <2>1. \A d \in Devices : work[d].arrived = 0
    BY IdleIsAHandler DEF Init
  <2> QED
    BY <2>1 DEF Init, InitTables, NoFuture, ArrivedBefore, NeverFromTheFuture, Present
<1>2. Sound /\ NoFuture /\ [Next]_vars => NoFuture'
  <2>1. CASE UNCHANGED vars
    BY <2>1 DEF vars, tables, NoFuture, ArrivedBefore, NeverFromTheFuture, Present, Done
  <2>2. ASSUME Sound, NoFuture, Next
        PROVE  NoFuture'
    <3>1. Move /\ RowChange
      BY <2>2, NextMoves, MoveChangesRows
    <3>2. ArrivedBefore' /\ now' \in Nat /\ now <= now'
      BY <2>2, <3>1, MoveKeepsArrivals DEF NoFuture
    <3> QED
      BY <2>2, <3>1, <3>2, RowChangeKeepsNoFuture
  <2> QED
    BY <2>1, <2>2
<1>3. NoFuture => NeverFromTheFuture
  BY DEF NoFuture
<1> QED
  BY <1>1, <1>2, <1>3, AlwaysSound, PTL DEF Spec

----------------------------------------------------------------------------
(* What is remembered, for whom.                                           *)

(* A handler works only on what its device sends.                          *)
OwnQueue ==
    \A d \in Devices : \A k \in 1..Len(work[d].batch) : work[d].batch[k].id \in Carries(d)

LEMMA OpIsCarried ==
    ASSUME Sound, OwnQueue, NEW d \in Devices, ~At(d, "idle"), ~At(d, "reply")
    PROVE  Op(d).id \in Carries(d)
<1>1. work[d].batch \in Seq(Operations) /\ Len(work[d].batch) > 0
  BY SoundParts DEF WorkOK, Handlers, PlanSound, DeviceSound
<1>2. Op(d) = work[d].batch[1] /\ 1 \in 1..Len(work[d].batch)
  BY <1>1 DEF Op
<1> QED
  BY <1>2 DEF OwnQueue

(* What a handler's step leaves of its batch and its answers.              *)
LEMMA WaysMove ==
    ASSUME Sound, NEW d \in Devices, Ways(d)
    PROVE  /\ Others(d)
           /\ work'[d].batch \in {work[d].batch, Tail(work[d].batch), <<>>}
           /\ \/ work'[d].answers = work[d].answers
              \/ \E o \in Outcomes :
                    /\ work'[d].answers =
                          Append(work[d].answers, [id |-> Op(d).id, outcome |-> o])
                    /\ \/ o \in Refusals
                       \/ o = "already_applied" /\ applied[Op(d).id] = Who(d)
                       \/ o = "applied" /\ Note(d)
<1>1. Len(work[d].batch) > 0 /\ WorkOK
  BY SoundParts DEF Ways, PlanSound, DeviceSound
<1>2. CASE \E pc \in Working \ {"write"} : Goto(d, pc)
  BY <1>1, <1>2, GotoMoves DEF Working
<1>3. CASE \E pc \in Working, deed \in Deeds, rows \in SUBSET RowIds,
             list \in Lists \cup {None} : Decide(d, pc, deed, rows, list)
  BY <1>1, <1>3, DecideMoves DEF Working
<1>4. CASE \E i \in RowIds : SplitFrom(d, i) /\ items[i].list \in Lists
  BY <1>1, <1>4, SplitFromMoves
<1>5. CASE Stop(d)
  BY <1>1, <1>5, StopMoves
<1>6. CASE \E o \in Outcomes :
              /\ Answer(d, o)
              /\ \/ o \in Refusals
                 \/ o = "already_applied" /\ applied[Op(d).id] = Who(d)
                 \/ o = "applied" /\ Note(d)
  BY <1>1, <1>6, AnswerMoves
<1> QED
  BY <1>2, <1>3, <1>4, <1>5, <1>6 DEF Ways, Outcomes

LEMMA ShorterBatchIsOwn ==
    ASSUME Sound, OwnQueue, NEW d \in Devices, Others(d), Len(work[d].batch) > 0,
           work'[d].batch \in {work[d].batch, Tail(work[d].batch), <<>>}
    PROVE  OwnQueue'
<1>1. work[d].batch \in Seq(Operations)
  BY SoundParts DEF WorkOK, Handlers
<1>2. \A k \in 1..Len(Tail(work[d].batch)) :
          /\ Tail(work[d].batch)[k] = work[d].batch[k + 1]
          /\ k + 1 \in 1..Len(work[d].batch)
  BY <1>1, HeadAndTail
<1>3. \A k \in 1..Len(work'[d].batch) : work'[d].batch[k].id \in Carries(d)
  <2>1. CASE work'[d].batch = work[d].batch
    BY <2>1 DEF OwnQueue
  <2>2. CASE work'[d].batch = Tail(work[d].batch)
    BY <1>2, <2>2 DEF OwnQueue
  <2>3. CASE work'[d].batch = <<>>
    BY <2>3
  <2> QED
    BY <2>1, <2>2, <2>3
<1> QED
  BY <1>3 DEF OwnQueue, Others

LEMMA MoveKeepsOwnQueue ==
    ASSUME Sound, OwnQueue, Move
    PROVE  OwnQueue'
<1>1. ASSUME NEW d \in Devices, HandlerStep(d)
      PROVE  OwnQueue'
  <2>1. Len(work[d].batch) > 0
    BY <1>1, SoundParts DEF HandlerStep, Ways, PlanSound, DeviceSound
  <2> QED
    BY <1>1, <2>1, WaysMove, ShorterBatchIsOwn DEF HandlerStep
<1>2. ASSUME NEW d \in Devices, Reply(d) \/ Cut(d)
      PROVE  OwnQueue'
  BY <1>2, SoundParts, EndMoves, IdleIsAHandler DEF OwnQueue, Others
<1>3. ASSUME NEW d \in Devices, NEW batch \in Batches[d], Arrive(d, batch)
      PROVE  OwnQueue'
  <2>1. Others(d) /\ work'[d].batch = batch
    BY <1>3, ArriveMoves
  <2>2. batch \in Seq(Operations)
    BY SyncServerAssumption DEF SyncServerAssumption
  <2>3. \A k \in 1..Len(batch) : batch[k] \in Operations
    BY <2>2
  <2>4. \A k \in 1..Len(batch) : batch[k].id \in Carries(d)
    BY <2>3 DEF Carries, Operations
  <2> QED
    BY <2>1, <2>4 DEF OwnQueue, Others
<1>4. CASE LiveStep \/ Tick
  BY <1>4 DEF LiveStep, Tick, OwnQueue
<1> QED
  BY <1>1, <1>2, <1>3, <1>4 DEF Move, Turn

LEMMA AlwaysOwnQueue == Spec => []OwnQueue
<1>1. Init => OwnQueue
  BY IdleIsAHandler DEF Init, OwnQueue
<1>2. Sound /\ OwnQueue /\ [Next]_vars => OwnQueue'
  <2>1. CASE UNCHANGED vars
    BY <2>1 DEF vars, OwnQueue
  <2> QED
    BY <2>1, NextMoves, MoveKeepsOwnQueue
<1> QED
  BY <1>1, <1>2, AlwaysSound, PTL DEF Spec

(* Inductive: an operation is remembered for somebody who could send it.   *)
RememberedSender ==
    \A id \in Ids : applied[id] # None =>
        \E d \in Devices : holder[d] = applied[id] /\ id \in Carries(d)

Remembering == RememberedSender /\ AnsweredIsRemembered

(* The memory of an operation is never given up or given to another.       *)
LEMMA NoteRemembers ==
    ASSUME Sound, OwnQueue, OnePersonPerId, RememberedSender,
           NEW d \in Devices, ~At(d, "idle"), ~At(d, "reply"), Note(d)
    PROVE  /\ applied'[Op(d).id] = Who(d)
           /\ \A id \in Ids : id # Op(d).id => applied'[id] = applied[id]
           /\ RememberedSender'
<1>1. Op(d).id \in Ids /\ Op(d).id \in Carries(d)
  BY OpIsCarried DEF Carries
<1>2. applied \in [Ids -> People \cup {None}]
  BY SoundParts DEF RestOK
<1>3. applied[Op(d).id] # None => applied[Op(d).id] = Who(d)
  BY <1>1 DEF RememberedSender, OnePersonPerId, Who
<1>4. /\ applied'[Op(d).id] = Who(d)
      /\ \A id \in Ids : id # Op(d).id => applied'[id] = applied[id]
  BY <1>1, <1>2, <1>3 DEF Note
<1> QED
  BY <1>1, <1>4 DEF RememberedSender, Who

LEMMA AnswersGrow ==
    ASSUME NEW S, NEW s \in Seq(S), NEW x \in S,
           NEW k \in 1..Len(Append(s, x))
    PROVE  Append(s, x)[k] = x \/ (k \in 1..Len(s) /\ Append(s, x)[k] = s[k])
OBVIOUS

LEMMA HandlerRemembers ==
    ASSUME Sound, OwnQueue, OnePersonPerId, Remembering,
           NEW d \in Devices, HandlerStep(d)
    PROVE  Remembering'
<1>1. /\ ~At(d, "idle") /\ ~At(d, "reply") /\ Ways(d)
      /\ applied' = applied \/ Note(d)
  BY DEF HandlerStep, Ways
<1>2. Op(d) \in Operations /\ Others(d)
  BY <1>1, SoundParts, OpInHand, WaysMove
<1>3. RememberedSender'
  BY <1>1, NoteRemembers DEF Remembering, RememberedSender
<1>4. \A id \in Ids : applied[id] # None => applied'[id] = applied[id]
  <2>1. CASE applied' = applied
    BY <2>1
  <2>2. CASE Note(d)
    <3>1. applied \in [Ids -> People \cup {None}]
      BY SoundParts DEF RestOK
    <3> QED
      BY <2>2, <3>1 DEF Note
  <2> QED
    BY <1>1, <2>1, <2>2
<1>5. \A e \in Devices : \A k \in 1..Len(work[e].answers) :
          work[e].answers[k].outcome \in Landed =>
              applied'[work[e].answers[k].id] = Who(e)
  <2> SUFFICES ASSUME NEW e \in Devices, NEW k \in 1..Len(work[e].answers),
                      work[e].answers[k].outcome \in Landed
               PROVE  applied'[work[e].answers[k].id] = Who(e)
    OBVIOUS
  <2>1. work[e].answers \in Seq(Answers)
    BY SoundParts DEF WorkOK, Handlers
  <2>2. work[e].answers[k].id \in Ids
    <3>1. work[e].answers[k] \in Answers
      BY <2>1
    <3> QED
      BY <3>1 DEF Answers
  <2>3. applied[work[e].answers[k].id] = Who(e) /\ Who(e) # None
    BY SyncServerAssumption DEF Remembering, AnsweredIsRemembered, Who, SyncServerAssumption
  <2> QED
    BY <1>4, <2>2, <2>3
<1>6. \A k \in 1..Len(work'[d].answers) :
          work'[d].answers[k].outcome \in Landed =>
              applied'[work'[d].answers[k].id] = Who(d)
  <2>1. CASE work'[d].answers = work[d].answers
    BY <1>5, <2>1
  <2>2. CASE \E o \in Outcomes :
                /\ work'[d].answers =
                      Append(work[d].answers, [id |-> Op(d).id, outcome |-> o])
                /\ \/ o \in Refusals
                   \/ o = "already_applied" /\ applied[Op(d).id] = Who(d)
                   \/ o = "applied" /\ Note(d)
    <3>1. PICK o \in Outcomes :
                /\ work'[d].answers =
                      Append(work[d].answers, [id |-> Op(d).id, outcome |-> o])
                /\ \/ o \in Refusals
                   \/ o = "already_applied" /\ applied[Op(d).id] = Who(d)
                   \/ o = "applied" /\ Note(d)
      BY <2>2
    <3> DEFINE answer == [id |-> Op(d).id, outcome |-> o]
    <3>2. answer \in Answers /\ answer.id = Op(d).id /\ answer.outcome = o
      BY <1>2 DEF Answers, Operations
    <3>3. o \in Landed => applied'[Op(d).id] = Who(d)
      <4>1. o \in Landed => o \notin Refusals
        BY DEF Landed, Refusals
      <4>2. applied[Op(d).id] = Who(d) => applied'[Op(d).id] = Who(d)
        BY <1>2, <1>4, SyncServerAssumption, SMTT(60) DEF Operations, Who, SyncServerAssumption
      <4>3. Note(d) => applied'[Op(d).id] = Who(d)
        BY <1>1, NoteRemembers DEF Remembering
      <4> QED
        BY <3>1, <4>1, <4>2, <4>3
    <3> HIDE DEF answer
    <3>4. work[d].answers \in Seq(Answers) /\ work'[d].answers = Append(work[d].answers, answer)
      BY <3>1, SoundParts DEF WorkOK, Handlers, answer
    <3> QED
      BY <1>5, <3>2, <3>3, <3>4, AnswersGrow
  <2> QED
    BY <1>1, <2>1, <2>2, WaysMove
<1>7. AnsweredIsRemembered'
  BY <1>2, <1>5, <1>6 DEF AnsweredIsRemembered, Others, Who
<1> QED
  BY <1>3, <1>7 DEF Remembering

LEMMA MoveRemembers ==
    ASSUME Sound, OwnQueue, OnePersonPerId, Remembering, Move
    PROVE  Remembering'
<1>1. CASE \E d \in Devices : HandlerStep(d)
  BY <1>1, HandlerRemembers
<1>2. ASSUME NEW d \in Devices, Turn(d)
      PROVE  Remembering'
  <2>1. Others(d) /\ work'[d].answers = <<>> /\ applied' = applied
    BY <1>2, SoundParts, EndMoves, ArriveMoves, IdleIsAHandler DEF Turn
  <2>2. Len(work'[d].answers) = 0
    BY <2>1
  <2> QED
    BY <2>1, <2>2 DEF Remembering, RememberedSender, AnsweredIsRemembered, Others, Who
<1>3. CASE LiveStep \/ Tick
  BY <1>3 DEF LiveStep, Tick, Remembering, RememberedSender, AnsweredIsRemembered, Who
<1> QED
  BY <1>1, <1>2, <1>3 DEF Move

(* Where no two people queue one operation id, an answer that says an      *)
(* operation landed is backed by the server's memory of it at every        *)
(* moment from the answer to the reply: what a lost reply or a cut does    *)
(* to the device is a resend that finds the memory.                        *)
THEOREM AnswersAreRemembered ==
    ASSUME OnePersonPerId
    PROVE  Spec => []AnsweredIsRemembered
<1>1. Init => Remembering
  <2> SUFFICES ASSUME Init PROVE Remembering
    OBVIOUS
  <2>1. /\ \A id \in Ids : applied[id] = None
        /\ \A d \in Devices : work[d].answers = <<>>
    BY IdleIsAHandler DEF Init
  <2>2. Len(<<>>) = 0
    OBVIOUS
  <2> QED
    BY <2>1, <2>2 DEF Remembering, RememberedSender, AnsweredIsRemembered
<1>2. Sound /\ OwnQueue /\ Remembering /\ [Next]_vars => Remembering'
  <2>1. CASE UNCHANGED vars
    BY <2>1 DEF vars, Remembering, RememberedSender, AnsweredIsRemembered, Who
  <2>2. ASSUME Sound, OwnQueue, Remembering, Next
        PROVE  Remembering'
    BY <2>2, OnePersonPerId, NextMoves, MoveRemembers
  <2> QED
    BY <2>1, <2>2
<1>3. Remembering => AnsweredIsRemembered
  BY DEF Remembering
<1> QED
  BY <1>1, <1>2, <1>3, AlwaysSound, AlwaysOwnQueue, PTL DEF Spec

----------------------------------------------------------------------------
(* A resend changes nothing.                                               *)

(* Inductive: what was remembered for somebody still is, and past the      *)
(* memory check the operation in hand is none of it.                       *)
Looked(d) ==
    /\ memory[d] \subseteq Held(d)
    /\ work[d].pc \notin BeforeLookUp => Op(d).id \notin memory[d]

AllLooked == \A d \in Devices : Looked(d)

LEMMA MemoryStays ==
    ASSUME Sound, Move, NEW d \in Devices
    PROVE  Held(d) \subseteq Held(d)'
<1>1. applied' = applied \/ \E e \in Devices : Note(e)
  BY DEF Move, HandlerStep, Turn, LiveStep, Tick
<1>2. CASE applied' = applied
  BY <1>2 DEF Held, Who
<1>3. ASSUME NEW e \in Devices, Note(e)
      PROVE  Held(d) \subseteq Held(d)'
  <2>1. applied \in [Ids -> People \cup {None}] /\ Who(d) # None
    BY SoundParts, SyncServerAssumption DEF RestOK, Who, SyncServerAssumption
  <2>2. \A id \in Ids : applied[id] = Who(d) => applied'[id] = Who(d)
    BY <1>3, <2>1 DEF Note
  <2> QED
    BY <2>2 DEF Held, Who
<1> QED
  BY <1>1, <1>2, <1>3

LEMMA WaitingIsLooked ==
    ASSUME AllLooked, Remember, NEW d \in Devices, Held(d) \subseteq Held(d)',
           work'[d].pc \in BeforeLookUp
    PROVE  Looked(d)'
<1>1. memory'[d] = memory[d] \cup Held(d)'
  BY DEF Remember
<1>2. memory'[d] \subseteq Held(d)'
  BY <1>1 DEF AllLooked, Looked
<1> QED
  BY <1>2 DEF Looked

LEMMA InHandIsLooked ==
    ASSUME AllLooked, Remember, NEW d \in Devices, Held(d) \subseteq Held(d)',
           work'[d].pc \notin BeforeLookUp, work'[d].batch = work[d].batch,
           Op(d).id \notin memory[d]
    PROVE  Looked(d)'
<1>1. memory'[d] = memory[d]
  BY DEF Remember
<1>2. memory'[d] \subseteq Held(d)'
  BY <1>1 DEF AllLooked, Looked
<1>3. Op(d)'.id \notin memory'[d]
  BY <1>1 DEF Op
<1> QED
  BY <1>2, <1>3 DEF Looked

LEMMA RestingIsLooked ==
    ASSUME AllLooked, Remember, NEW d \in Devices, Held(d) \subseteq Held(d)',
           work'[d] = work[d]
    PROVE  Looked(d)'
<1>1. CASE work'[d].pc \in BeforeLookUp
  BY <1>1, WaitingIsLooked
<1>2. CASE work'[d].pc \notin BeforeLookUp
  <2>1. Op(d).id \notin memory[d]
    BY <1>2 DEF AllLooked, Looked
  <2> QED
    BY <1>2, <2>1, InHandIsLooked
<1> QED
  BY <1>1, <1>2

(* A handler gets past the memory check only with what the memory lacks.   *)
LEMMA HandlerIsLooked ==
    ASSUME Sound, AllLooked, Remember, NEW d \in Devices, HandlerStep(d),
           Held(d) \subseteq Held(d)'
    PROVE  Looked(d)'
<1>1. CASE work'[d].pc \in BeforeLookUp
  BY <1>1, WaitingIsLooked
<1>2. CASE work'[d].pc \notin BeforeLookUp
  <2>1. ~At(d, "idle") /\ ~At(d, "reply") /\ Ways(d) /\ WorkOK
    BY SoundParts DEF HandlerStep, Ways
  <2>2. work'[d].pc \notin {"recall", "reply"} /\ Len(work[d].batch) > 0
    BY <1>2, <2>1, SoundParts DEF PlanSound, DeviceSound, BeforeLookUp
  <2>3. /\ work'[d].batch = work[d].batch
        /\ At(d, "recall") => applied[Op(d).id] = None
    <3>1. ASSUME NEW o \in Outcomes, Answer(d, o)
          PROVE  FALSE
      BY <2>1, <2>2, <3>1, AnswerMoves
    <3>2. ~Stop(d)
      BY <2>1, <2>2, StopMoves
    <3> QED
      BY <2>1, <3>1, <3>2, GotoMoves, DecideMoves, SplitFromMoves
         DEF Ways, Working, Outcomes
  <2>4. Op(d).id \notin memory[d]
    <3>1. CASE At(d, "recall")
      <4>1. Who(d) # None
        BY SyncServerAssumption DEF Who, SyncServerAssumption
      <4> QED
        BY <2>3, <3>1, <4>1 DEF AllLooked, Looked, Held
    <3>2. CASE ~At(d, "recall")
      BY <2>1, <3>2 DEF AllLooked, Looked, At, BeforeLookUp
    <3> QED
      BY <3>1, <3>2
  <2> QED
    BY <1>2, <2>3, <2>4, InHandIsLooked
<1> QED
  BY <1>1, <1>2

LEMMA MoveStaysLooked ==
    ASSUME Sound, AllLooked, Move, Remember
    PROVE  AllLooked'
<1>1. ASSUME NEW d \in Devices, HandlerStep(d) \/ Turn(d)
      PROVE  AllLooked'
  <2>1. Others(d)
    BY <1>1, SoundParts, WaysMove, EndMoves, ArriveMoves DEF HandlerStep, Turn
  <2>2. Looked(d)'
    <3>1. CASE HandlerStep(d)
      BY <3>1, MemoryStays, HandlerIsLooked
    <3>2. CASE Turn(d)
      <4>1. work'[d].pc \in BeforeLookUp
        BY <3>2, SoundParts, EndMoves, ArriveMoves, IdleIsAHandler DEF Turn, BeforeLookUp
      <4> QED
        BY <4>1, MemoryStays, WaitingIsLooked
    <3> QED
      BY <1>1, <3>1, <3>2
  <2>3. ASSUME NEW e \in Devices, e # d
        PROVE  Looked(e)'
    BY <2>1, <2>3, MemoryStays, RestingIsLooked DEF Others
  <2> QED
    BY <2>2, <2>3 DEF AllLooked
<1>2. CASE LiveStep \/ Tick
  <2>1. UNCHANGED work
    BY <1>2 DEF LiveStep, Tick
  <2> QED
    BY <2>1, MemoryStays, RestingIsLooked DEF AllLooked
<1> QED
  BY <1>1, <1>2 DEF Move

LEMMA RecallOrStop ==
    ASSUME NEW d \in Devices, Handle(d) \/ Trouble(d), At(d, "recall")
    PROVE  (Recall(d) \/ Stop(d)) /\ UNCHANGED <<tables, applied, now>>
BY DEF At, Handle, Recall, MakeList, StartList, Look, CheckRole, FindAdd, FindAddAmong,
       FindRow, FindMany, CheckRow, CheckMany, WriteAdd, WriteTick, WriteUpdate,
       WriteDelete, WriteSweep, WriteTag, Reread, WriteWalk, Record, File, Note,
       Trouble, Told, Swallowed

LEMMA RecallingAnswers ==
    ASSUME Sound, NEW d \in Devices, At(d, "recall"), applied[Op(d).id] = Who(d),
           Handle(d) \/ Trouble(d)
    PROVE  AnsweredFromMemory(d)
<1>1. WorkOK /\ Len(work[d].batch) > 0
  BY SoundParts DEF PlanSound, DeviceSound, At
<1>2. UNCHANGED tables
  BY RecallOrStop
<1>3. CASE Recall(d)
  <2>1. Who(d) # None /\ "already_applied" \in Outcomes
    BY SyncServerAssumption DEF Who, SyncServerAssumption, Outcomes
  <2>2. Answer(d, "already_applied")
    BY <1>3, <2>1 DEF Recall, Remembered
  <2> QED
    BY <1>1, <1>2, <2>1, <2>2, AnswerMoves DEF AnsweredFromMemory
<1>4. CASE Stop(d)
  BY <1>1, <1>2, <1>4, StopMoves DEF AnsweredFromMemory
<1> QED
  BY <1>3, <1>4, RecallOrStop

(* A resend that is looked up after its operation was remembered writes to *)
(* no table and is not refused, however many windows send one outbox and   *)
(* however their handlers and the other requests are interleaved with its  *)
(* own: only a handler that had looked the operation up before may write.  *)
THEOREM ResendsChangeNothing == HistorySpec => RememberedIsSettled
<1>1. HistoryInit => Sound /\ AllLooked
  <2> SUFFICES ASSUME HistoryInit PROVE Sound /\ AllLooked
    OBVIOUS
  <2>1. Sound
    BY InitSound DEF HistoryInit
  <2>2. \A d \in Devices : work[d].pc = "idle" /\ memory[d] = {}
    BY IdleIsAHandler DEF HistoryInit, Init
  <2> QED
    BY <2>1, <2>2 DEF AllLooked, Looked, BeforeLookUp
<1>2. Sound /\ AllLooked /\ [HistoryNext]_historyVars => Sound' /\ AllLooked'
  <2>1. CASE UNCHANGED historyVars
    <3>1. UNCHANGED vars /\ UNCHANGED memory
      BY <2>1 DEF historyVars
    <3>2. Sound => Sound'
      BY <3>1, NextSound
    <3>3. AllLooked => AllLooked'
      BY <3>1 DEF vars, AllLooked, Looked, Held, Op, Who
    <3> QED
      BY <3>2, <3>3
  <2>2. CASE HistoryNext
    BY <2>2, NextSound, NextMoves, MoveStaysLooked DEF HistoryNext
  <2> QED
    BY <2>1, <2>2
<1>3. Sound /\ AllLooked /\ [HistoryNext]_historyVars =>
          [\A d \in Devices :
              work[d].batch # <<>> /\ Op(d).id \in memory[d] /\ work'[d] # work[d]
              => AnsweredFromMemory(d)]_historyVars
  <2> SUFFICES ASSUME Sound, AllLooked, Next, NEW d \in Devices,
                      Op(d).id \in memory[d], work'[d] # work[d]
               PROVE  AnsweredFromMemory(d)
    BY DEF HistoryNext
  <2>1. ASSUME NEW e \in Devices, Handle(e) \/ Trouble(e)
        PROVE  AnsweredFromMemory(d)
    <3>1. HandlerStep(e)
      BY <2>1, HandleStep
    <3>2. e = d
      BY <3>1, WaysMove DEF HandlerStep, Others
    <3>3. At(d, "recall")
      BY <3>1, <3>2 DEF HandlerStep, Ways, AllLooked, Looked, At, BeforeLookUp
    <3>4. applied[Op(d).id] = Who(d)
      BY DEF AllLooked, Looked, Held
    <3> QED
      BY <2>1, <3>2, <3>3, <3>4, RecallingAnswers
  <2>2. ASSUME NEW e \in Devices,
               Reply(e) \/ Cut(e) \/ \E batch \in Batches[e] : Arrive(e, batch)
        PROVE  AnsweredFromMemory(d)
    <3>1. Others(e) /\ work'[e].answers = <<>> /\ UNCHANGED tables
      BY <2>2, SoundParts, EndMoves, ArriveMoves, IdleIsAHandler DEF Reply, Cut, Arrive
    <3> QED
      BY <3>1 DEF Others, AnsweredFromMemory
  <2>3. CASE Live \/ Tick
    BY <2>3, LiveSteps DEF LiveStep, Tick
  <2> QED
    BY <2>1, <2>2, <2>3 DEF Next
<1> QED
  BY <1>1, <1>2, <1>3, PTL DEF HistorySpec, RememberedIsSettled

----------------------------------------------------------------------------
(* Access is decided on arrival: no write of a replay reaches a list its   *)
(* sender could not edit while the operation was in hand.  A handler gets  *)
(* to its write through the role, the row and the check of the row, and    *)
(* may wait between any two of them; what it is allowed is carried along   *)
(* the way by could.                                                       *)

(* How a handler gets to its write.                                        *)

Onward == {"find", "check", "write"}

(* To the look-up of the row once the role is checked, or again to split   *)
(* the row checked; to the check from the look-up; and to the write of a   *)
(* list that may be edited now, or, a walking order, of the list named.    *)
WayIn(d) ==
    work'[d].pc \in Onward =>
        /\ Others(d) /\ work'[d].batch = work[d].batch
        /\ work'[d].pc = "find" =>
              \/ At(d, "role") /\ Op(d).list \in Editable(Who(d))
              \/ At(d, "check")
        /\ work'[d].pc = "check" => At(d, "find")
        /\ work'[d].pc = "write" =>
              \/ work'[d].plan.list \in Editable(Who(d))
              \/ At(d, "check") /\ work'[d].plan.list = Op(d).list

LEMMA ElsewhereIsNoWayIn ==
    ASSUME Sound, NEW d \in Devices, ~At(d, "idle"), ~At(d, "reply"),
           \/ \E pc \in Phases \ Onward : Goto(d, pc)
           \/ \E o \in Outcomes : Answer(d, o)
           \/ Stop(d)
           \/ \E pc \in Phases \ Onward, deed \in Deeds, rows \in SUBSET RowIds,
                 list \in Lists \cup {None} : Decide(d, pc, deed, rows, list)
    PROVE  work'[d].pc \notin Onward
<1>1. WorkOK /\ Len(work[d].batch) > 0
  BY SoundParts DEF PlanSound, DeviceSound
<1>2. CASE \E pc \in Phases \ Onward : Goto(d, pc)
  BY <1>1, <1>2, GotoMoves
<1>3. CASE \E o \in Outcomes : Answer(d, o)
  BY <1>1, <1>3, AnswerMoves DEF Onward
<1>4. CASE Stop(d)
  BY <1>1, <1>4, StopMoves DEF Onward
<1>5. CASE \E pc \in Phases \ Onward, deed \in Deeds, rows \in SUBSET RowIds,
              list \in Lists \cup {None} : Decide(d, pc, deed, rows, list)
  BY <1>1, <1>5, DecideMoves
<1> QED
  BY <1>2, <1>3, <1>4, <1>5

LEMMA CheckRoleWayIn ==
    ASSUME Sound, NEW d \in Devices, CheckRole(d)
    PROVE  WayIn(d)
<1>1. At(d, "role") /\ ~At(d, "idle") /\ ~At(d, "reply")
  BY DEF CheckRole, At
<1>2. CASE CanEdit(Op(d).list, Who(d)) /\ Goto(d, "find")
  <2>1. WorkOK /\ "find" \in Phases
    BY SoundParts DEF Phases
  <2>2. Others(d) /\ work'[d].batch = work[d].batch /\ work'[d].pc = "find"
    BY <1>2, <2>1, GotoMoves
  <2>3. Op(d).list \in Editable(Who(d))
    BY <1>1, <1>2, SoundParts, OpInHand DEF Operations, Editable
  <2> QED
    BY <1>1, <2>2, <2>3 DEF WayIn
<1>3. CASE Answer(d, "not_allowed")
  BY <1>1, <1>3, ElsewhereIsNoWayIn DEF Outcomes, Refusals, WayIn
<1> QED
  BY <1>2, <1>3 DEF CheckRole

LEMMA DecideWayIn ==
    ASSUME Sound, NEW d \in Devices, NEW deed \in Deeds, NEW rows \in SUBSET RowIds,
           NEW l \in Lists, Decide(d, "write", deed, rows, l),
           \/ CanEdit(l, Who(d))
           \/ At(d, "check") /\ l = Op(d).list
    PROVE  WayIn(d)
<1>1. WorkOK /\ "write" \in Phases
  BY SoundParts DEF Phases
<1>2. /\ Others(d) /\ work'[d].batch = work[d].batch
      /\ work'[d].pc = "write" /\ work'[d].plan.list = l
  BY <1>1, DecideMoves
<1> QED
  BY <1>2 DEF WayIn, Editable

LEMMA FindAddWayIn ==
    ASSUME Sound, NEW d \in Devices, NEW known \in SUBSET RowIds, FindAddAmong(d, known)
    PROVE  WayIn(d)
<1> DEFINE l == IF Splitting(d) THEN Plan(d).list ELSE Op(d).list
           like == Alike(l, Op(d).name)
<1>1. ~At(d, "idle") /\ ~At(d, "reply")
  BY DEF FindAddAmong, At
<1>2. l \in Lists
  BY <1>1, SoundParts, OpInHand DEF Operations, PlanSound, DeviceSound
<1>3. like \subseteq RowIds
  BY DEF Alike, On
<1>4. \/ Answer(d, Refused(l, Who(d)))
      \/ Answer(d, "invalid")
      \/ \E i \in known : \E pc \in {"file", "note"} : Decide(d, pc, "keep", {i}, l)
      \/ CanEdit(l, Who(d)) /\ Decide(d, "write", "insert", {}, l)
      \/ CanEdit(l, Who(d)) /\ \E i \in like : \E deed \in {"put_back", "keep"} :
                                   Decide(d, "write", deed, {i}, l)
  BY DEF FindAddAmong
<1> HIDE DEF l, like
<1>5. CASE Answer(d, Refused(l, Who(d))) \/ Answer(d, "invalid")
  <2>1. \E o \in Outcomes : Answer(d, o)
    BY <1>5 DEF Refused, Outcomes, Refusals
  <2> QED
    BY <1>1, <2>1, ElsewhereIsNoWayIn DEF WayIn
<1>6. CASE \E i \in known : \E pc \in {"file", "note"} : Decide(d, pc, "keep", {i}, l)
  <2>1. \E pc \in Phases \ Onward, deed \in Deeds, rows \in SUBSET RowIds,
           list \in Lists \cup {None} : Decide(d, pc, deed, rows, list)
    BY <1>2, <1>6 DEF Phases, Onward, Deeds
  <2> QED
    BY <1>1, <2>1, ElsewhereIsNoWayIn DEF WayIn
<1>7. CASE \E deed \in Deeds, rows \in SUBSET RowIds :
              CanEdit(l, Who(d)) /\ Decide(d, "write", deed, rows, l)
  BY <1>2, <1>7, DecideWayIn
<1> QED
  BY <1>3, <1>4, <1>5, <1>6, <1>7 DEF Deeds

LEMMA FindsWayIn ==
    ASSUME Sound, NEW d \in Devices, FindRow(d) \/ FindMany(d)
    PROVE  WayIn(d)
<1>1. At(d, "find") /\ ~At(d, "idle") /\ ~At(d, "reply")
  BY DEF FindRow, FindMany, At
<1>2. \/ Goto(d, "note")
      \/ \E o \in Outcomes : Answer(d, o)
      \/ \E rows \in SUBSET RowIds : Decide(d, "check", "none", rows, None)
  BY DEF FindRow, FindMany, Outcomes, Refusals, Named
<1>3. CASE Goto(d, "note") \/ \E o \in Outcomes : Answer(d, o)
  BY <1>1, <1>3, ElsewhereIsNoWayIn DEF Phases, Onward, WayIn
<1>4. CASE \E rows \in SUBSET RowIds : Decide(d, "check", "none", rows, None)
  <2>1. WorkOK /\ "check" \in Phases /\ "none" \in Deeds
    BY SoundParts DEF Phases, Deeds
  <2>2. Others(d) /\ work'[d].batch = work[d].batch /\ work'[d].pc = "check"
    BY <1>4, <2>1, DecideMoves
  <2> QED
    BY <1>1, <2>2 DEF WayIn
<1> QED
  BY <1>2, <1>3, <1>4

LEMMA CheckRowWayIn ==
    ASSUME Sound, NEW d \in Devices, CheckRow(d)
    PROVE  WayIn(d)
<1>1. At(d, "check") /\ ~At(d, "idle") /\ ~At(d, "reply")
  BY DEF CheckRow, At
<1>2. Plan(d).rows \in SUBSET RowIds
  BY SoundParts, PlannedRows
<1>3. \A i \in RowIds : Present(i) => items[i].list \in Lists
  BY SoundParts, RowIsARow DEF Rows
<1>4. \/ Stop(d)
      \/ \E o \in Outcomes : Answer(d, o)
      \/ \E i \in RowIds : Present(i) /\ SplitFrom(d, i)
      \/ \E i \in RowIds : /\ Present(i) /\ CanEdit(items[i].list, Who(d))
                           /\ Decide(d, "write", "none", {i}, items[i].list)
  BY <1>2 DEF CheckRow, MayTouch, Outcomes, Refusals
<1>5. CASE Stop(d) \/ \E o \in Outcomes : Answer(d, o)
  BY <1>1, <1>5, ElsewhereIsNoWayIn DEF WayIn
<1>6. CASE \E i \in RowIds : Present(i) /\ SplitFrom(d, i)
  <2>1. Others(d) /\ work'[d].batch = work[d].batch /\ work'[d].pc = "find"
    BY <1>3, <1>6, SoundParts, SplitFromMoves
  <2> QED
    BY <1>1, <2>1 DEF WayIn
<1>7. ASSUME NEW i \in RowIds, Present(i), CanEdit(items[i].list, Who(d)),
             Decide(d, "write", "none", {i}, items[i].list)
      PROVE  WayIn(d)
  <2>1. PICK l \in Lists : l = items[i].list
    BY <1>3, <1>7
  <2>2. CanEdit(l, Who(d)) /\ Decide(d, "write", "none", {i}, l)
    BY <1>7, <2>1
  <2>3. "none" \in Deeds /\ {i} \in SUBSET RowIds
    BY DEF Deeds
  <2> QED
    BY <2>2, <2>3, DecideWayIn
<1> QED
  BY <1>4, <1>5, <1>6, <1>7

LEMMA CheckManyWayIn ==
    ASSUME Sound, NEW d \in Devices, CheckMany(d)
    PROVE  WayIn(d)
<1>1. At(d, "check") /\ ~At(d, "idle") /\ ~At(d, "reply")
  BY DEF CheckMany, At
<1>2. Plan(d).rows \in SUBSET RowIds /\ Op(d).list \in Lists /\ "none" \in Deeds
  BY <1>1, SoundParts, PlannedRows, OpInHand DEF Operations, Deeds
<1>3. \/ Stop(d)
      \/ \E o \in Outcomes : Answer(d, o)
      \/ \E rows \in SUBSET RowIds : Decide(d, "write", "none", rows, Op(d).list)
  BY <1>2 DEF CheckMany, Outcomes, Refusals
<1>4. CASE Stop(d) \/ \E o \in Outcomes : Answer(d, o)
  BY <1>1, <1>4, ElsewhereIsNoWayIn DEF WayIn
<1>5. CASE \E rows \in SUBSET RowIds : Decide(d, "write", "none", rows, Op(d).list)
  BY <1>1, <1>2, <1>5, DecideWayIn
<1> QED
  BY <1>3, <1>4, <1>5

(* Every other statement leads on past the write, or back.                 *)
LEMMA OthersAreNoWayIn ==
    ASSUME Sound, NEW d \in Devices,
           \/ Recall(d) \/ MakeList(d) \/ StartList(d) \/ Look(d)
           \/ WriteTick(d) \/ WriteUpdate(d) \/ WriteDelete(d) \/ WriteSweep(d)
           \/ WriteTag(d) \/ Reread(d) \/ WriteWalk(d) \/ Record(d) \/ File(d)
           \/ Note(d)
           \/ Trouble(d) /\ ~FindAddAmong(d, {})
    PROVE  WayIn(d)
<1>1. ~At(d, "idle") /\ ~At(d, "reply")
  BY HandleStep DEF Handle, HandlerStep, Ways
<1>2. \/ \E pc \in Phases \ Onward : Goto(d, pc)
      \/ \E o \in Outcomes : Answer(d, o)
      \/ Stop(d)
  <2>1. CASE Recall(d) \/ MakeList(d) \/ StartList(d) \/ Look(d)
    BY <2>1 DEF Recall, MakeList, StartList, Look, Phases, Onward, Outcomes, Refusals
  <2>2. CASE WriteTick(d) \/ WriteUpdate(d)
    BY <2>2 DEF WriteTick, WriteUpdate, Phases, Onward, Outcomes, Refusals
  <2>3. CASE WriteDelete(d) \/ WriteSweep(d) \/ WriteTag(d)
    BY <2>3 DEF WriteDelete, WriteSweep, WriteTag, Phases, Onward, Outcomes, Refusals
  <2>4. CASE Reread(d) \/ WriteWalk(d) \/ Record(d) \/ File(d) \/ Note(d)
    BY <2>4
       DEF Reread, WriteWalk, Record, File, Note, Phases, Onward, Outcomes, Refusals
  <2>5. CASE Trouble(d) /\ ~FindAddAmong(d, {})
    BY <2>5 DEF Trouble, Phases, Onward, Outcomes, Refusals
  <2> QED
    BY <2>1, <2>2, <2>3, <2>4, <2>5
<1> QED
  BY <1>1, <1>2, ElsewhereIsNoWayIn DEF WayIn

LEMMA WriteAddIsNoWayIn ==
    ASSUME Sound, NEW d \in Devices, WriteAdd(d)
    PROVE  WayIn(d)
<1>1. ~At(d, "idle") /\ ~At(d, "reply")
  BY DEF WriteAdd, At
<1>2. Plan(d).list \in Lists
  BY SoundParts DEF WriteAdd, PlanSound, DeviceSound
<1>3. \/ \E pc \in Phases \ Onward : Goto(d, pc)
      \/ \E o \in Outcomes : Answer(d, o)
      \/ \E i \in RowIds : Decide(d, "record", "insert", {i}, Plan(d).list)
  BY DEF WriteAdd, Phases, Onward, Outcomes, Refusals
<1>4. \/ \E pc \in Phases \ Onward : Goto(d, pc)
      \/ \E o \in Outcomes : Answer(d, o)
      \/ \E pc \in Phases \ Onward, deed \in Deeds, rows \in SUBSET RowIds,
           list \in Lists \cup {None} : Decide(d, pc, deed, rows, list)
  BY <1>2, <1>3 DEF Phases, Onward, Deeds
<1> QED
  BY <1>1, <1>4, ElsewhereIsNoWayIn DEF WayIn

LEMMA HandlerWayIn ==
    ASSUME Sound, NEW d \in Devices, Handle(d) \/ Trouble(d)
    PROVE  WayIn(d)
<1>1. CASE FindAdd(d)
  <2>1. (IF Splitting(d) THEN {} ELSE Named(Op(d).item)) \in SUBSET RowIds
    BY DEF Named
  <2> QED
    BY <1>1, <2>1, FindAddWayIn DEF FindAdd
<1>2. CASE Trouble(d) /\ FindAddAmong(d, {})
  BY <1>2, FindAddWayIn
<1> QED
  BY <1>1, <1>2, CheckRoleWayIn, FindsWayIn, CheckRowWayIn, CheckManyWayIn,
     WriteAddIsNoWayIn, OthersAreNoWayIn
     DEF Handle

----------------------------------------------------------------------------
(* What is allowed along the way.                                          *)

(* Inductive: from the check of the role on, the list the operation names  *)
(* was one its sender could edit.                                          *)
Allowed(d) ==
    /\ At(d, "find") \/ At(d, "check") => Op(d).list \in could[d]
    /\ At(d, "write") => Plan(d).list \in could[d]

AllAllowed == \A d \in Devices : Allowed(d)

LEMMA CouldGrows ==
    ASSUME Remember, NEW d \in Devices, work'[d].pc \in Onward
    PROVE  could[d] \cup Editable(Who(d)) \subseteq could'[d]
BY DEF Remember, Onward, BeforeLookUp

LEMMA RestingStaysAllowed ==
    ASSUME AllAllowed, Remember, NEW d \in Devices, work'[d] = work[d]
    PROVE  Allowed(d)'
<1>1. CASE work'[d].pc \in Onward
  BY <1>1, CouldGrows DEF AllAllowed, Allowed, At, Op, Plan
<1>2. CASE work'[d].pc \notin Onward
  BY <1>2 DEF Allowed, At, Onward
<1> QED
  BY <1>1, <1>2

LEMMA WayInIsAllowed ==
    ASSUME AllAllowed, Remember, NEW d \in Devices, WayIn(d)
    PROVE  Allowed(d)'
<1>1. CASE work'[d].pc \in Onward
  <2>1. could[d] \cup Editable(Who(d)) \subseteq could'[d]
    BY <1>1, CouldGrows
  <2>2. Op(d)' = Op(d)
    BY <1>1 DEF WayIn, Op
  <2> QED
    BY <1>1, <2>1, <2>2 DEF WayIn, AllAllowed, Allowed, At, Plan
<1>2. CASE work'[d].pc \notin Onward
  BY <1>2 DEF Allowed, At, Onward
<1> QED
  BY <1>1, <1>2

LEMMA NextStaysAllowed ==
    ASSUME Sound, AllAllowed, Next, Remember
    PROVE  AllAllowed'
<1>1. ASSUME NEW d \in Devices, Handle(d) \/ Trouble(d)
      PROVE  AllAllowed'
  <2>1. Others(d)
    BY <1>1, HandleStep, WaysMove DEF HandlerStep
  <2>2. Allowed(d)'
    BY <1>1, HandlerWayIn, WayInIsAllowed
  <2>3. ASSUME NEW e \in Devices, e # d
        PROVE  Allowed(e)'
    BY <2>1, <2>3, RestingStaysAllowed DEF Others
  <2> QED
    BY <2>2, <2>3 DEF AllAllowed
<1>2. ASSUME NEW d \in Devices,
             Reply(d) \/ Cut(d) \/ \E batch \in Batches[d] : Arrive(d, batch)
      PROVE  AllAllowed'
  <2>1. Others(d) /\ work'[d].pc \in {"idle", "recall"}
    BY <1>2, SoundParts, EndMoves, ArriveMoves, IdleIsAHandler
  <2>2. Allowed(d)'
    BY <2>1 DEF Allowed, At
  <2>3. ASSUME NEW e \in Devices, e # d
        PROVE  Allowed(e)'
    BY <2>1, <2>3, RestingStaysAllowed DEF Others
  <2> QED
    BY <2>2, <2>3 DEF AllAllowed
<1>3. CASE Live \/ Tick
  <2>1. UNCHANGED work
    BY <1>3, LiveSteps DEF LiveStep, Tick
  <2> QED
    BY <2>1, RestingStaysAllowed DEF AllAllowed
<1> QED
  BY <1>1, <1>2, <1>3 DEF Next

(* Whatever a device sends and whoever is removed, demoted or let in while *)
(* its batch is handled, an operation gets as far as a write only on a     *)
(* list its sender could edit while that operation was in hand: no role of *)
(* an earlier operation, and none on the list an operation merely names.   *)
THEOREM AccessIsDecidedOnArrival == HistorySpec => []WritesWereAllowed
<1>1. HistoryInit => Sound /\ AllAllowed
  <2> SUFFICES ASSUME HistoryInit PROVE Sound /\ AllAllowed
    OBVIOUS
  <2>1. Sound
    BY InitSound DEF HistoryInit
  <2>2. \A d \in Devices : work[d].pc = "idle"
    BY IdleIsAHandler DEF HistoryInit, Init
  <2> QED
    BY <2>1, <2>2 DEF AllAllowed, Allowed, At
<1>2. Sound /\ AllAllowed /\ [HistoryNext]_historyVars => Sound' /\ AllAllowed'
  <2>1. CASE UNCHANGED historyVars
    <3>1. UNCHANGED vars /\ UNCHANGED could
      BY <2>1 DEF historyVars
    <3>2. Sound => Sound'
      BY <3>1, NextSound
    <3>3. AllAllowed => AllAllowed'
      BY <3>1 DEF vars, AllAllowed, Allowed, At, Op, Plan
    <3> QED
      BY <3>2, <3>3
  <2>2. CASE HistoryNext
    BY <2>2, NextSound, NextStaysAllowed DEF HistoryNext
  <2> QED
    BY <2>1, <2>2
<1>3. AllAllowed => WritesWereAllowed
  BY DEF AllAllowed, Allowed, WritesWereAllowed
<1> QED
  BY <1>1, <1>2, <1>3, PTL DEF HistorySpec

----------------------------------------------------------------------------
(* The outbox: the invariant.                                              *)

Apart(s) == \A j, k \in 1..Len(s) : s[j].id = s[k].id => j = k

(* Answers under way are about queued changes, each once, and true.        *)
Answered(d, s) ==
    /\ Apart(s)
    /\ \A k \in 1..Len(s) :
          /\ s[k].id \in Queued(d)
          /\ applied[s[k].id] = IF s[k].outcome \in Landed THEN Who(d) ELSE None

(* A change not made yet is nowhere else; one that was dropped is neither  *)
(* queued nor applied; and nobody else's are applied in this one's name.   *)
Making(d) ==
    /\ Apart(todo[d])
    /\ \A k \in 1..Len(todo[d]) :
          /\ todo[d][k].id \in Own(d) \ Queued(d)
          /\ todo[d][k].id \notin dropped[d] /\ applied[todo[d][k].id] = None
    /\ Apart(queue[d]) /\ Queued(d) \subseteq Own(d)
    /\ dropped[d] \subseteq Own(d) \ Queued(d)
    /\ \A id \in dropped[d] : applied[id] = None
    /\ \A id \in Own(d) : applied[id] \in {None, Who(d)}

(* What the handler serving a device still has to do is queued there and   *)
(* not answered yet; past the memory check it is not applied.              *)
Serving(d) ==
    /\ drain[d].pc = "waiting" <=> ~At(d, "idle")
    /\ drain[d].pc # "settling" => drain[d].answers = <<>>
    /\ At(d, "idle") => work[d].answers = <<>>
    /\ Apart(work[d].batch)
    /\ \A k \in 1..Len(work[d].batch) : work[d].batch[k].id \in Queued(d)
    /\ Answered(d, work[d].answers) /\ Answered(d, drain[d].answers)
    /\ \A j \in 1..Len(work[d].batch), k \in 1..Len(work[d].answers) :
          work[d].batch[j].id # work[d].answers[k].id
    /\ \/ At(d, "idle") \/ At(d, "recall") \/ At(d, "reply")
       \/ applied[Op(d).id] = None

(* The batch was sent in this order and is answered in it.                 *)
Story(d) ==
    drain[d].pc = "waiting" =>
        /\ Len(work[d].answers) + Len(work[d].batch) <= Len(drain[d].sent)
        /\ \A k \in 1..Len(work[d].answers) : work[d].answers[k].id = drain[d].sent[k]
        /\ \A k \in 1..Len(work[d].batch) :
              work[d].batch[k].id = drain[d].sent[Len(work[d].answers) + k]

Following(d) == Making(d) /\ Serving(d) /\ Story(d)

Typed == Sound /\ DeviceTyped

OfflineInv == Typed /\ \A d \in Devices : Following(d)

----------------------------------------------------------------------------
(* Types.                                                                  *)

Drains == [pc: {"rest", "waiting", "settling"}, caller: {"screen", "change"},
           sent: Seq(Ids), answers: Seq(Answers), lost: Seq(Ids)]

LEMMA DeviceTypes ==
    /\ DeviceTyped <=>
          /\ todo \in [Devices -> Seq(Operations)]
          /\ queue \in [Devices -> Seq(Operations)]
          /\ drain \in [Devices -> Drains]
          /\ dropped \in [Devices -> SUBSET Ids]
          /\ told \in [Devices -> SUBSET Ids]
    /\ DeviceTyped' <=>
          /\ todo' \in [Devices -> Seq(Operations)]
          /\ queue' \in [Devices -> Seq(Operations)]
          /\ drain' \in [Devices -> Drains]
          /\ dropped' \in [Devices -> SUBSET Ids]
          /\ told' \in [Devices -> SUBSET Ids]
BY DEF DeviceTyped, Drains, Answers

LEMMA AnOperation ==
    ASSUME NEW op \in Operations
    PROVE  op.id \in Ids
BY DEF Operations

LEMMA AnAnswer ==
    ASSUME NEW a \in Answers
    PROVE  a.id \in Ids /\ a.outcome \in Outcomes
BY DEF Answers

LEMMA IdsAre ==
    ASSUME NEW s \in Seq(Operations)
    PROVE  /\ IdsOf(s) \in Seq(Ids) /\ Len(IdsOf(s)) = Len(s)
           /\ \A k \in 1..Len(s) : IdsOf(s)[k] = s[k].id
<1>1. DOMAIN s = 1..Len(s) /\ Len(s) \in Nat /\ \A k \in 1..Len(s) : s[k] \in Operations
  OBVIOUS
<1>2. IdsOf(s) = [k \in 1..Len(s) |-> s[k].id]
  BY <1>1 DEF IdsOf
<1>3. \A k \in 1..Len(s) : s[k].id \in Ids
  BY <1>1, AnOperation
<1> QED
  BY <1>1, <1>2, <1>3

LEMMA ResultsAre ==
    ASSUME NEW s \in Seq(Answers)
    PROVE  /\ IdsOf(s) \in Seq(Ids) /\ Len(IdsOf(s)) = Len(s)
           /\ \A k \in 1..Len(s) : IdsOf(s)[k] = s[k].id
<1>1. DOMAIN s = 1..Len(s) /\ Len(s) \in Nat /\ \A k \in 1..Len(s) : s[k] \in Answers
  OBVIOUS
<1>2. IdsOf(s) = [k \in 1..Len(s) |-> s[k].id]
  BY <1>1 DEF IdsOf
<1>3. \A k \in 1..Len(s) : s[k].id \in Ids
  BY <1>1, AnAnswer
<1> QED
  BY <1>1, <1>2, <1>3

LEMMA QueuedAre ==
    ASSUME NEW d \in Devices, queue[d] \in Seq(Operations)
    PROVE  /\ Queued(d) = {queue[d][k].id : k \in 1..Len(queue[d])}
           /\ Queued(d) \subseteq Ids
<1>1. DOMAIN queue[d] = 1..Len(queue[d])
  OBVIOUS
<1>2. \A k \in 1..Len(queue[d]) : queue[d][k].id \in Ids
  BY AnOperation
<1> QED
  BY <1>1, <1>2 DEF Queued

LEMMA RestingIs ==
    /\ AtRest \in Drains
    /\ AtRest.pc = "rest" /\ AtRest.answers = <<>> /\ AtRest.lost = <<>>
    /\ AtRest.sent = <<>> /\ AtRest.caller = "change"
<1>1. <<>> \in Seq(Ids) /\ <<>> \in Seq(Answers)
  OBVIOUS
<1> QED
  BY <1>1 DEF AtRest, Drains

----------------------------------------------------------------------------
(* What a step of the server's does to the request of a device.            *)

LEMMA ArrivalMoves ==
    ASSUME Sound, NEW d \in Devices, NEW batch \in Seq(Operations), Arrive(d, batch)
    PROVE  /\ Sound' /\ Others(d)
           /\ Len(batch) > 0 /\ UNCHANGED <<tables, applied, now>>
           /\ work'[d].pc = "recall" /\ work'[d].batch = batch
           /\ work'[d].answers = <<>>
<1> DEFINE w == [Idle EXCEPT !.pc = "recall", !.batch = batch, !.arrived = now]
<1>1. batch # <<>> /\ UNCHANGED <<tables, applied, now>>
  BY DEF Arrive
<1>2. Len(batch) > 0
  BY <1>1
<1>3. "recall" \in Phases /\ now \in 0..MaxTime
  BY SoundParts DEF Phases, RestOK
<1>4. /\ w \in Handlers
      /\ w.pc = "recall" /\ w.batch = batch /\ w.plan = NoPlan /\ w.answers = <<>>
  BY <1>3, IdleIsAHandler DEF Handlers
<1>5. work' = [work EXCEPT ![d] = w]
  BY DEF Arrive
<1> HIDE DEF w
<1>6. WorkOK' /\ Others(d) /\ work'[d] = w
  BY <1>4, <1>5, SoundParts DEF WorkOK, Others
<1>7. DeviceSound(d)'
  BY <1>2, <1>4, <1>6 DEF DeviceSound, At, Splitting, Plan, NoPlan
<1>8. PlanSound'
  BY <1>6, <1>7, OneDeviceMoves, SoundParts
<1>9. ItemsOK' /\ RestOK'
  BY <1>1, SoundParts DEF ItemsOK, RestOK, tables
<1> QED
  BY <1>1, <1>2, <1>4, <1>6, <1>8, <1>9, SoundPartsAfter

LEMMA EndingMoves ==
    ASSUME Sound, NEW d \in Devices, Reply(d) \/ Cut(d)
    PROVE  /\ Sound' /\ Others(d) /\ UNCHANGED <<tables, applied, now>>
           /\ ~At(d, "idle") /\ work'[d] = Idle
<1>1. Turn(d)
  BY DEF Turn, Reply, Cut
<1>2. Sound'
  BY <1>1, MoveSound DEF Move
<1> QED
  BY <1>1, <1>2, EndMoves, SoundParts DEF Turn, Reply, Cut, At

(* How a handler goes on with an operation that is not applied, or that it *)
(* is still to look up.                                                    *)
GoesOn(d) ==
    /\ applied' = applied /\ applied[Op(d).id] = None
    /\ work'[d].batch = work[d].batch /\ work'[d].answers = work[d].answers

StopsHere(d) ==
    /\ applied' = applied /\ work'[d].pc = "reply"
    /\ work'[d].batch = <<>> /\ work'[d].answers = work[d].answers

Answers1(d) ==
    /\ work'[d].pc \in {"recall", "reply"}
    /\ work'[d].batch = Tail(work[d].batch)
    /\ \E o \in Outcomes :
          /\ work'[d].answers = Append(work[d].answers, [id |-> Op(d).id, outcome |-> o])
          /\ applied'[Op(d).id] = IF o \in Landed THEN Who(d) ELSE None
    /\ \/ applied' = applied
       \/ /\ applied[Op(d).id] = None
          /\ applied' = [applied EXCEPT ![Op(d).id] = Who(d)]

LEMMA AnsweringMoves ==
    ASSUME Sound, NEW d \in Devices, ~At(d, "idle"), ~At(d, "reply"),
           NEW o \in Outcomes, Answer(d, o)
    PROVE  /\ work'[d].pc \in {"recall", "reply"}
           /\ work'[d].batch = Tail(work[d].batch)
           /\ work'[d].answers = Append(work[d].answers, [id |-> Op(d).id, outcome |-> o])
<1>1. Len(work[d].batch) > 0 /\ WorkOK
  BY SoundParts DEF PlanSound, DeviceSound
<1> QED
  BY <1>1, AnswerMoves

LEMMA ServingMoves ==
    ASSUME Sound, NEW d \in Devices, Handle(d) \/ Trouble(d),
           applied[Op(d).id] \in {None, Who(d)},
           At(d, "recall") \/ applied[Op(d).id] = None
    PROVE  /\ Sound' /\ Others(d) /\ work'[d].pc # "idle"
           /\ ~At(d, "idle") /\ ~At(d, "reply") /\ Len(work[d].batch) > 0
           /\ Op(d).id \in Ids
           /\ GoesOn(d) \/ StopsHere(d) \/ Answers1(d)
<1>1. HandlerStep(d)
  BY HandleStep
<1>2. Ways(d) /\ (applied' = applied \/ Note(d)) /\ ~At(d, "idle") /\ ~At(d, "reply")
  BY <1>1 DEF HandlerStep, Ways
<1>3. Len(work[d].batch) > 0 /\ WorkOK
  BY <1>2, SoundParts DEF PlanSound, DeviceSound
<1>4. Sound' /\ Others(d)
  BY <1>1, <1>2, MoveSound, WaysMove DEF Move
<1>5. Op(d).id \in Ids /\ applied \in [Ids -> People \cup {None}]
  BY <1>2, OpInHand, AnOperation, SoundParts DEF RestOK
<1>6. GoesOn(d) \/ StopsHere(d) \/ Answers1(d)
  <2>1. CASE Note(d)
    <3>1. Answer(d, "applied") /\ applied[Op(d).id] = None
      BY <2>1 DEF Note, At
    <3>2. applied' = [applied EXCEPT ![Op(d).id] = Who(d)]
      BY <2>1, <3>1 DEF Note
    <3>3. applied'[Op(d).id] = Who(d)
      BY <1>5, <3>2
    <3>4. "applied" \in Outcomes /\ "applied" \in Landed
      BY DEF Outcomes, Landed
    <3> QED
      BY <1>2, <3>1, <3>2, <3>3, <3>4, AnsweringMoves DEF Answers1
  <2>2. CASE ~Note(d) /\ At(d, "recall")
    <3>1. applied' = applied
      BY <1>2, <2>2
    <3>2. CASE Stop(d)
      BY <1>3, <3>1, <3>2, StopMoves DEF StopsHere
    <3>3. CASE Recall(d)
      <4>1. CASE applied[Op(d).id] = Who(d) /\ Answer(d, "already_applied")
        <5>1. "already_applied" \in Outcomes /\ "already_applied" \in Landed
          BY DEF Outcomes, Landed
        <5> QED
          BY <1>2, <3>1, <4>1, <5>1, AnsweringMoves DEF Answers1
      <4>2. ASSUME applied[Op(d).id] = None, NEW pc \in {"make", "look"}, Goto(d, pc)
            PROVE  GoesOn(d)
        <5>1. pc \in Phases
          BY DEF Phases
        <5> QED
          BY <1>3, <3>1, <4>2, <5>1, GotoMoves DEF GoesOn
      <4> QED
        BY <3>3, <4>1, <4>2 DEF Recall, Remembered
    <3> QED
      BY <2>2, <3>2, <3>3, RecallOrStop
  <2>3. CASE ~Note(d) /\ ~At(d, "recall")
    <3>1. applied' = applied /\ applied[Op(d).id] = None
      BY <1>2, <2>3
    <3>2. ASSUME NEW pc \in Working, Goto(d, pc)
          PROVE  GoesOn(d)
      <4>1. pc \in Phases
        BY DEF Working
      <4> QED
        BY <1>3, <3>1, <3>2, <4>1, GotoMoves DEF GoesOn
    <3>3. ASSUME NEW pc \in Working, NEW deed \in Deeds, NEW rows \in SUBSET RowIds,
                 NEW list \in Lists \cup {None}, Decide(d, pc, deed, rows, list)
          PROVE  GoesOn(d)
      <4>1. pc \in Phases
        BY DEF Working
      <4> QED
        BY <1>3, <3>1, <3>3, <4>1, DecideMoves DEF GoesOn
    <3>4. ASSUME NEW i \in RowIds, SplitFrom(d, i), items[i].list \in Lists
          PROVE  GoesOn(d)
      BY <1>3, <3>1, <3>4, SplitFromMoves DEF GoesOn
    <3>5. CASE Stop(d)
      BY <1>3, <3>1, <3>5, StopMoves DEF StopsHere
    <3>6. ASSUME NEW o \in Refusals, Answer(d, o)
          PROVE  Answers1(d)
      <4>1. o \in Outcomes /\ o \notin Landed
        BY DEF Outcomes, Landed, Refusals
      <4> QED
        BY <1>2, <3>1, <3>6, <4>1, AnsweringMoves DEF Answers1
    <3>7. applied[Op(d).id] # Who(d)
      BY <3>1, SyncServerAssumption DEF Who, SyncServerAssumption
    <3> QED
      BY <1>2, <2>3, <3>2, <3>3, <3>4, <3>5, <3>6, <3>7 DEF Ways
  <2> QED
    BY <2>1, <2>2, <2>3
<1>7. work'[d].pc # "idle"
  <2>1. CASE Len(work'[d].batch) > 0
    BY <1>4, <2>1, SoundPartsAfter DEF PlanSound, DeviceSound, At
  <2>2. CASE work'[d].batch = <<>> /\ work'[d].pc \in {"recall", "reply"}
    BY <2>2
  <2>3. work'[d].batch \in Seq(Operations)
    BY <1>4, SoundPartsAfter DEF WorkOK, Handlers
  <2> QED
    BY <1>3, <1>6, <2>1, <2>2, <2>3 DEF GoesOn, StopsHere, Answers1
<1> QED
  BY <1>2, <1>3, <1>4, <1>5, <1>6, <1>7

----------------------------------------------------------------------------
(* What a step of a device does to it.                                     *)

(* The same for everybody else's device.                                   *)
Elsewhere1(f, g, d) == \A e \in Devices \ {d} : f[e] = g[e]

LEMMA OneReplaced ==
    ASSUME NEW S, NEW f \in [Devices -> S], NEW d \in Devices, NEW v \in S,
           NEW g, g = [f EXCEPT ![d] = v]
    PROVE  g \in [Devices -> S] /\ g[d] = v /\ Elsewhere1(g, f, d)
BY DEF Elsewhere1

LEMMA Appended ==
    ASSUME NEW S, NEW s \in Seq(S), NEW x \in S
    PROVE  /\ Append(s, x) \in Seq(S) /\ Len(Append(s, x)) = Len(s) + 1
           /\ \A k \in 1..Len(s) : Append(s, x)[k] = s[k]
           /\ Append(s, x)[Len(s) + 1] = x
           /\ \A k \in 1..Len(Append(s, x)) :
                 k \in 1..Len(s) \/ k = Len(s) + 1
OBVIOUS

LEMMA Joined ==
    ASSUME NEW S, NEW s \in Seq(S), NEW t \in Seq(S)
    PROVE  /\ s \o t \in Seq(S)
           /\ Len(s \o t) = Len(s) + Len(t)
           /\ \A i \in 1..Len(s) : (s \o t)[i] = s[i]
           /\ \A i \in 1..Len(t) : (s \o t)[Len(s) + i] = t[i]
           /\ \A i \in 1..Len(s \o t) :
                 \/ i \in 1..Len(s) /\ (s \o t)[i] = s[i]
                 \/ i - Len(s) \in 1..Len(t) /\ (s \o t)[i] = t[i - Len(s)]
OBVIOUS

LEMMA RemovedAt ==
    ASSUME NEW S, NEW s \in Seq(S), NEW k \in 1..Len(s)
    PROVE  /\ Without(s, k) \in Seq(S) /\ Len(Without(s, k)) = Len(s) - 1
           /\ \A i \in 1..Len(Without(s, k)) :
                 Without(s, k)[i] = IF i < k THEN s[i] ELSE s[i + 1]
<1> DEFINE a == SubSeq(s, 1, k - 1)
           b == SubSeq(s, k + 1, Len(s))
<1>1. /\ a \in Seq(S) /\ Len(a) = k - 1
      /\ \A i \in 1..Len(a) : a[i] = s[i]
  OBVIOUS
<1>2. /\ b \in Seq(S) /\ Len(b) = Len(s) - k
      /\ \A i \in 1..Len(b) : b[i] = s[i + k]
  OBVIOUS
<1>3. Without(s, k) = a \o b
  BY DEF Without
<1> HIDE DEF a, b
<1>4. a \o b \in Seq(S) /\ Len(a \o b) = Len(a) + Len(b)
  BY <1>1, <1>2, Joined
<1>5. Len(a \o b) = Len(s) - 1
  BY <1>1, <1>2, <1>4
<1>6. ASSUME NEW i \in 1..Len(a \o b)
      PROVE  (a \o b)[i] = IF i < k THEN s[i] ELSE s[i + 1]
  <2>1. \/ i \in 1..Len(a) /\ (a \o b)[i] = a[i]
        \/ i - Len(a) \in 1..Len(b) /\ (a \o b)[i] = b[i - Len(a)]
    BY <1>1, <1>2, Joined
  <2>2. CASE i \in 1..Len(a) /\ (a \o b)[i] = a[i]
    BY <1>1, <2>2
  <2>3. CASE i - Len(a) \in 1..Len(b) /\ (a \o b)[i] = b[i - Len(a)]
    <3>1. ~(i < k) /\ i - Len(a) + k = i + 1
      BY <1>1, <1>2, <2>3
    <3> QED
      BY <1>2, <2>3, <3>1
  <2> QED
    BY <2>1, <2>2, <2>3
<1> QED
  BY <1>3, <1>4, <1>5, <1>6

LEMMA ApartTail ==
    ASSUME NEW S, NEW s \in Seq(S), Len(s) > 0, Apart(s)
    PROVE  /\ Apart(Tail(s))
           /\ \A k \in 1..Len(Tail(s)) : Tail(s)[k].id # Head(s).id
<1>1. /\ Len(Tail(s)) = Len(s) - 1 /\ Head(s) = s[1] /\ Len(s) \in Nat
      /\ \A k \in 1..Len(Tail(s)) : Tail(s)[k] = s[k + 1]
  BY HeadAndTail
<1>2. \A k \in 1..Len(Tail(s)) : k + 1 \in 1..Len(s) /\ k + 1 # 1 /\ 1 \in 1..Len(s)
  BY <1>1
<1>3. ASSUME NEW j \in 1..Len(Tail(s)), NEW k \in 1..Len(Tail(s)), Tail(s)[j].id = Tail(s)[k].id
      PROVE  j = k
  <2>1. j + 1 = k + 1
    BY <1>1, <1>2, <1>3 DEF Apart
  <2> QED
    BY <1>1, <2>1
<1>4. ASSUME NEW k \in 1..Len(Tail(s)) PROVE Tail(s)[k].id # Head(s).id
  BY <1>1, <1>2 DEF Apart
<1> QED
  BY <1>3, <1>4 DEF Apart

LEMMA ApartAppend ==
    ASSUME NEW S, NEW s \in Seq(S), NEW x \in S, Apart(s),
           \A k \in 1..Len(s) : s[k].id # x.id
    PROVE  Apart(Append(s, x))
<1> SUFFICES ASSUME NEW j \in 1..Len(Append(s, x)), NEW k \in 1..Len(Append(s, x)),
                    Append(s, x)[j].id = Append(s, x)[k].id
             PROVE  j = k
  BY DEF Apart
<1>1. CASE j \in 1..Len(s) /\ k \in 1..Len(s)
  BY <1>1, Appended DEF Apart
<1>2. CASE j = Len(s) + 1 /\ k = Len(s) + 1
  BY <1>2
<1>3. CASE j \in 1..Len(s) /\ k = Len(s) + 1
  BY <1>3, Appended
<1>4. CASE j = Len(s) + 1 /\ k \in 1..Len(s)
  BY <1>4, Appended
<1> QED
  BY <1>1, <1>2, <1>3, <1>4, Appended

LEMMA ApartWithout ==
    ASSUME NEW S, NEW s \in Seq(S), NEW k \in 1..Len(s), Apart(s)
    PROVE  Apart(Without(s, k))
<1> DEFINE t == Without(s, k)
<1> SUFFICES Apart(t)
  OBVIOUS
<1>1. Len(t) = Len(s) - 1 /\ \A i \in 1..Len(t) : t[i] = IF i < k THEN s[i] ELSE s[i + 1]
  BY RemovedAt
<1> HIDE DEF t
<1> SUFFICES ASSUME NEW i \in 1..Len(t), NEW j \in 1..Len(t), t[i].id = t[j].id
             PROVE  i = j
  BY DEF Apart
<1> DEFINE at(i0) == IF i0 < k THEN i0 ELSE i0 + 1
<1>2. t[i] = s[at(i)] /\ t[j] = s[at(j)] /\ at(i) \in 1..Len(s) /\ at(j) \in 1..Len(s)
  BY <1>1
<1>3. at(i) = at(j)
  BY <1>2 DEF Apart
<1> QED
  BY <1>1, <1>3

LEMMA ServerAtRest ==
    ASSUME Sound, UNCHANGED vars
    PROVE  Sound'
BY NextSound

LEMMA ADrain ==
    ASSUME NEW r \in Drains
    PROVE  /\ r.pc \in {"rest", "waiting", "settling"} /\ r.caller \in {"screen", "change"}
           /\ r.sent \in Seq(Ids) /\ r.answers \in Seq(Answers) /\ r.lost \in Seq(Ids)
BY DEF Drains

LEMMA ChangeMoves ==
    ASSUME Typed, NEW d \in Devices, Change(d)
    PROVE  /\ Typed' /\ UNCHANGED <<vars, drain, dropped, told>>
           /\ Len(todo[d]) > 0 /\ Head(todo[d]) \in Operations
           /\ todo'[d] = Tail(todo[d]) /\ Elsewhere1(todo', todo, d)
           /\ queue'[d] = Append(queue[d], Head(todo[d])) /\ Elsewhere1(queue', queue, d)
<1>1. todo[d] \in Seq(Operations) /\ queue[d] \in Seq(Operations) /\ todo[d] # <<>>
  BY DeviceTypes DEF Typed, Change
<1>2. /\ Len(todo[d]) > 0 /\ Head(todo[d]) \in Operations /\ Tail(todo[d]) \in Seq(Operations)
  BY <1>1
<1>3. Append(queue[d], Head(todo[d])) \in Seq(Operations)
  BY <1>1, <1>2
<1>4. /\ todo' = [todo EXCEPT ![d] = Tail(todo[d])]
      /\ queue' = [queue EXCEPT ![d] = Append(queue[d], Head(todo[d]))]
      /\ UNCHANGED <<vars, drain, dropped, told>>
  BY DEF Change
<1> DEFINE t == Tail(todo[d])
           q == Append(queue[d], Head(todo[d]))
<1>5. /\ todo \in [Devices -> Seq(Operations)] /\ queue \in [Devices -> Seq(Operations)]
      /\ t \in Seq(Operations) /\ q \in Seq(Operations)
      /\ todo' = [todo EXCEPT ![d] = t] /\ queue' = [queue EXCEPT ![d] = q]
  BY <1>2, <1>3, <1>4, DeviceTypes DEF Typed
<1> SUFFICES /\ Typed' /\ todo'[d] = t /\ Elsewhere1(todo', todo, d)
             /\ queue'[d] = q /\ Elsewhere1(queue', queue, d)
  BY <1>2, <1>4
<1> HIDE DEF t, q
<1>6. todo' \in [Devices -> Seq(Operations)] /\ todo'[d] = t /\ Elsewhere1(todo', todo, d)
  BY <1>5, OneReplaced
<1>7. queue' \in [Devices -> Seq(Operations)] /\ queue'[d] = q /\ Elsewhere1(queue', queue, d)
  BY <1>5, OneReplaced
<1>8. Typed'
  BY <1>4, <1>6, <1>7, ServerAtRest, DeviceTypes DEF Typed
<1> QED
  BY <1>6, <1>7, <1>8

LEMMA SendMoves ==
    ASSUME Typed, NEW d \in Devices, NEW caller \in Callers, Send(d, caller)
    PROVE  /\ Typed' /\ UNCHANGED <<tables, applied, now, todo, queue, dropped, told>>
           /\ Others(d) /\ work'[d].pc = "recall"
           /\ work'[d].batch = queue[d] /\ work'[d].answers = <<>>
           /\ Elsewhere1(drain', drain, d)
           /\ drain'[d].pc = "waiting" /\ drain'[d].sent = IdsOf(queue[d])
           /\ drain'[d].answers = <<>> /\ drain[d].pc = "rest"
<1>1. queue[d] \in Seq(Operations) /\ caller \in {"screen", "change"} /\ drain[d].pc = "rest"
  BY DeviceTypes, OfflineSyncAssumption DEF Typed, Send
<1>2. /\ Sound' /\ Others(d) /\ UNCHANGED <<tables, applied, now>>
      /\ work'[d].pc = "recall" /\ work'[d].batch = queue[d] /\ work'[d].answers = <<>>
  BY <1>1, ArrivalMoves DEF Typed, Send
<1> DEFINE r == [AtRest EXCEPT !.pc = "waiting", !.caller = caller, !.sent = IdsOf(queue[d])]
<1>3. IdsOf(queue[d]) \in Seq(Ids)
  BY <1>1, IdsAre
<1>4. /\ r \in Drains /\ r.pc = "waiting" /\ r.answers = <<>>
      /\ r.sent = IdsOf(queue[d])
  BY <1>1, <1>3, RestingIs DEF Drains
<1>5. drain' = [drain EXCEPT ![d] = r] /\ UNCHANGED <<todo, queue, dropped, told>>
  BY DEF Send
<1>8. drain \in [Devices -> Drains]
  BY DeviceTypes DEF Typed
<1> HIDE DEF r
<1>6. drain' \in [Devices -> Drains] /\ drain'[d] = r /\ Elsewhere1(drain', drain, d)
  BY <1>4, <1>5, <1>8, OneReplaced
<1>7. Typed'
  BY <1>2, <1>5, <1>6, DeviceTypes DEF Typed
<1> QED
  BY <1>1, <1>2, <1>4, <1>5, <1>6, <1>7

LEMMA DeviceAlone ==
    ASSUME Typed, Sound', UNCHANGED device
    PROVE  Typed'
BY DeviceTypes DEF Typed, device

LEMMA ReceiveMoves ==
    ASSUME Typed, NEW d \in Devices, Receive(d)
    PROVE  /\ Typed' /\ UNCHANGED <<tables, applied, now, todo, queue, dropped, told>>
           /\ Others(d) /\ work'[d] = Idle /\ ~At(d, "idle")
           /\ Elsewhere1(drain', drain, d)
           /\ drain'[d].pc = "settling" /\ drain'[d].answers = work[d].answers
<1>1. /\ Sound' /\ Others(d) /\ UNCHANGED <<tables, applied, now>>
      /\ ~At(d, "idle") /\ work'[d] = Idle
  BY EndingMoves DEF Typed, Receive
<1>2. drain[d] \in Drains /\ work[d].answers \in Seq(Answers)
  BY SoundParts, DeviceTypes DEF Typed, WorkOK, Handlers
<1> DEFINE r == [drain[d] EXCEPT !.pc = "settling", !.answers = work[d].answers]
<1>3. r \in Drains /\ r.pc = "settling" /\ r.answers = work[d].answers
  BY <1>2 DEF Drains
<1>4. drain' = [drain EXCEPT ![d] = r] /\ UNCHANGED <<todo, queue, dropped, told>>
  BY DEF Receive
<1>7. drain \in [Devices -> Drains]
  BY DeviceTypes DEF Typed
<1> HIDE DEF r
<1>5. drain' \in [Devices -> Drains] /\ drain'[d] = r /\ Elsewhere1(drain', drain, d)
  BY <1>3, <1>4, <1>7, OneReplaced
<1>6. Typed'
  BY <1>1, <1>4, <1>5, DeviceTypes DEF Typed
<1> QED
  BY <1>1, <1>3, <1>4, <1>5, <1>6

(* A drain that is over, however it ended.                                 *)
LEMMA RestMoves ==
    ASSUME Typed, NEW d \in Devices, drain' = [drain EXCEPT ![d] = AtRest]
    PROVE  drain' \in [Devices -> Drains] /\ drain'[d] = AtRest /\ Elsewhere1(drain', drain, d)
<1>1. drain \in [Devices -> Drains] /\ AtRest \in Drains
  BY RestingIs, DeviceTypes DEF Typed
<1> QED
  BY <1>1, OneReplaced

LEMMA LoseConnectionMoves ==
    ASSUME Typed, NEW d \in Devices, LoseConnection(d)
    PROVE  /\ Typed' /\ UNCHANGED <<tables, applied, now, todo, queue, dropped, told>>
           /\ Others(d) /\ work'[d] = Idle
           /\ Elsewhere1(drain', drain, d) /\ drain'[d] = AtRest
<1>1. /\ Sound' /\ Others(d) /\ UNCHANGED <<tables, applied, now>> /\ work'[d] = Idle
  BY EndingMoves DEF Typed, LoseConnection
<1>2. drain' = [drain EXCEPT ![d] = AtRest] /\ UNCHANGED <<todo, queue, dropped, told>>
  BY DEF LoseConnection
<1>3. drain' \in [Devices -> Drains] /\ drain'[d] = AtRest /\ Elsewhere1(drain', drain, d)
  BY <1>2, RestMoves
<1> QED
  BY <1>1, <1>2, <1>3, DeviceTypes DEF Typed

LEMMA KillMoves ==
    ASSUME Typed, NEW d \in Devices, Kill(d)
    PROVE  /\ Typed' /\ UNCHANGED <<vars, todo, queue, dropped, told>>
           /\ Elsewhere1(drain', drain, d) /\ drain'[d] = AtRest
           /\ drain[d].pc = "settling"
<1>1. drain' \in [Devices -> Drains] /\ drain'[d] = AtRest /\ Elsewhere1(drain', drain, d)
  BY RestMoves DEF Kill
<1>2. UNCHANGED <<vars, todo, queue, dropped, told>> /\ drain[d].pc = "settling"
  BY DEF Kill
<1> QED
  BY <1>1, <1>2, ServerAtRest, DeviceTypes DEF Typed

LEMMA ReportMoves ==
    ASSUME Typed, NEW d \in Devices, Report(d)
    PROVE  /\ Typed' /\ UNCHANGED <<vars, todo, queue, dropped>>
           /\ Elsewhere1(drain', drain, d) /\ drain'[d] = AtRest
           /\ drain[d].pc = "settling"
<1>1. drain' \in [Devices -> Drains] /\ drain'[d] = AtRest /\ Elsewhere1(drain', drain, d)
  BY RestMoves DEF Report
<1>2. UNCHANGED <<vars, todo, queue, dropped>> /\ drain[d].pc = "settling"
  BY DEF Report
<1>3. told' \in [Devices -> SUBSET Ids]
  <2>1. told[d] \in SUBSET Ids /\ drain[d].lost \in Seq(Ids) /\ told \in [Devices -> SUBSET Ids]
    BY DeviceTypes, ADrain DEF Typed
  <2>2. CASE drain[d].lost # <<>>
    <3>1. Head(drain[d].lost) \in Ids
      BY <2>1, <2>2
    <3> QED
      BY <2>1, <3>1 DEF Report
  <2>3. CASE drain[d].lost = <<>>
    BY <2>1, <2>3 DEF Report
  <2> QED
    BY <2>2, <2>3
<1> QED
  BY <1>1, <1>2, <1>3, ServerAtRest, DeviceTypes DEF Typed

(* Taking an id out of the outbox.                                         *)
Forgotten(d, id) ==
    \/ id \notin Queued(d) /\ queue'[d] = queue[d]
    \/ \E k \in 1..Len(queue[d]) :
          queue[d][k].id = id /\ queue'[d] = Without(queue[d], k)

LEMMA ForgetMoves ==
    ASSUME Typed, NEW d \in Devices, NEW id, Forget(d, id)
    PROVE  /\ queue' \in [Devices -> Seq(Operations)]
           /\ Elsewhere1(queue', queue, d) /\ Forgotten(d, id)
<1>1. queue \in [Devices -> Seq(Operations)]
  BY DeviceTypes DEF Typed
<1>2. CASE id \notin Queued(d) /\ UNCHANGED queue
  BY <1>1, <1>2 DEF Forgotten, Elsewhere1
<1>3. ASSUME NEW k \in DOMAIN queue[d], queue[d][k].id = id,
             queue' = [queue EXCEPT ![d] = Without(@, k)]
      PROVE  /\ queue' \in [Devices -> Seq(Operations)]
             /\ Elsewhere1(queue', queue, d) /\ Forgotten(d, id)
  <2>1. k \in 1..Len(queue[d]) /\ queue[d] \in Seq(Operations)
    BY <1>1
  <2> DEFINE q == Without(queue[d], k)
  <2>2. q \in Seq(Operations)
    BY <2>1, RemovedAt
  <2>3. queue' = [queue EXCEPT ![d] = q]
    BY <1>3
  <2>4. queue'[d] = q => Forgotten(d, id)
    BY <1>3, <2>1 DEF Forgotten
  <2> HIDE DEF q
  <2>5. /\ queue' \in [Devices -> Seq(Operations)]
        /\ Elsewhere1(queue', queue, d) /\ queue'[d] = q
    BY <1>1, <2>2, <2>3, OneReplaced
  <2> QED
    BY <2>4, <2>5
<1> QED
  BY <1>2, <1>3 DEF Forget

(* What is left of it, when no id is in it twice.                          *)
LEMMA ForgottenIs ==
    ASSUME NEW d \in Devices, NEW id, Forgotten(d, id), Apart(queue[d]),
           queue[d] \in Seq(Operations), queue'[d] \in Seq(Operations)
    PROVE  Apart(queue'[d]) /\ Queued(d)' = Queued(d) \ {id}
<1>1. /\ Queued(d) = {queue[d][k].id : k \in 1..Len(queue[d])}
      /\ Queued(d)' = {queue'[d][k].id : k \in 1..Len(queue'[d])}
  BY DEF Queued
<1>2. CASE id \notin Queued(d) /\ queue'[d] = queue[d]
  BY <1>1, <1>2
<1>3. ASSUME NEW k \in 1..Len(queue[d]), queue[d][k].id = id, queue'[d] = Without(queue[d], k)
      PROVE  Apart(queue'[d]) /\ Queued(d)' = Queued(d) \ {id}
  <2> DEFINE s == queue[d]
             t == Without(s, k)
  <2>1. Apart(t)
    BY ApartWithout
  <2>2. Len(t) = Len(s) - 1 /\ \A i \in 1..Len(t) : t[i] = IF i < k THEN s[i] ELSE s[i + 1]
    BY RemovedAt
  <2>3. /\ Queued(d) = {s[i].id : i \in 1..Len(s)}
        /\ Queued(d)' = {t[i].id : i \in 1..Len(t)}
        /\ queue'[d] = t /\ s[k].id = id /\ k \in 1..Len(s) /\ Apart(s) /\ Len(s) \in Nat
    BY <1>1, <1>3
  <2> HIDE DEF s, t
  <2>4. ASSUME NEW i \in 1..Len(t)
        PROVE  \E j \in 1..Len(s) : t[i] = s[j] /\ j # k
    <3>1. CASE i < k
      BY <2>2, <2>3, <3>1
    <3>2. CASE ~(i < k)
      <4>1. i + 1 \in 1..Len(s) /\ i + 1 # k
        BY <2>2, <2>3, <3>2
      <4> QED
        BY <2>2, <3>2, <4>1
    <3> QED
      BY <3>1, <3>2
  <2>5. ASSUME NEW j \in 1..Len(s), j # k
        PROVE  \E i \in 1..Len(t) : t[i] = s[j]
    <3>1. CASE j < k
      <4>1. j \in 1..Len(t)
        BY <2>2, <2>3, <3>1
      <4> QED
        BY <2>2, <3>1, <4>1
    <3>2. CASE ~(j < k)
      <4>1. j - 1 \in 1..Len(t) /\ ~(j - 1 < k) /\ (j - 1) + 1 = j
        BY <2>2, <2>3, <2>5, <3>2
      <4>2. t[j - 1] = s[(j - 1) + 1]
        BY <2>2, <4>1
      <4> QED
        BY <4>1, <4>2
    <3> QED
      BY <3>1, <3>2
  <2>6. \A j \in 1..Len(s) : s[j].id = id <=> j = k
    BY <2>3 DEF Apart
  <2>7. {t[i].id : i \in 1..Len(t)} = {s[i].id : i \in 1..Len(s)} \ {id}
    <3>1. ASSUME NEW i \in 1..Len(t)
          PROVE  t[i].id \in {s[j].id : j \in 1..Len(s)} \ {id}
      BY <2>4, <2>6
    <3>2. ASSUME NEW j \in 1..Len(s), s[j].id # id
          PROVE  s[j].id \in {t[i].id : i \in 1..Len(t)}
      BY <2>3, <2>5, <3>2
    <3> QED
      BY <3>1, <3>2
  <2> QED
    BY <2>1, <2>3, <2>7
<1> QED
  BY <1>2, <1>3 DEF Forgotten

LEMMA SettleMoves ==
    ASSUME Typed, NEW d \in Devices, Settle(d)
    PROVE  /\ Typed' /\ UNCHANGED <<vars, todo, told>>
           /\ Elsewhere1(queue', queue, d) /\ Elsewhere1(dropped', dropped, d)
           /\ Elsewhere1(drain', drain, d)
           /\ drain[d].pc = "settling" /\ Len(drain[d].answers) > 0
           /\ drain'[d].pc = "settling" /\ drain'[d].answers = Tail(drain[d].answers)
           /\ \/ /\ queue' = queue /\ dropped' = dropped
                 /\ Head(drain[d].answers).outcome \in KeepForLater
              \/ /\ Forgotten(d, Head(drain[d].answers).id) /\ dropped' = dropped
                 /\ Head(drain[d].answers).outcome \in Landed
              \/ /\ Forgotten(d, Head(drain[d].answers).id)
                 /\ dropped'[d] = dropped[d] \cup {Head(drain[d].answers).id}
                 /\ Head(drain[d].answers).outcome \notin Landed
<1> DEFINE a == Head(drain[d].answers)
           landed == a.outcome \in Landed
           kept == a.outcome \in KeepForLater
           r == [drain[d] EXCEPT !.answers = Tail(drain[d].answers),
                                 !.lost = IF landed \/ kept THEN drain[d].lost
                                          ELSE Append(drain[d].lost, a.id)]
           out == IF landed \/ kept THEN dropped[d] ELSE dropped[d] \cup {a.id}
<1>1. /\ drain[d] \in Drains /\ drain \in [Devices -> Drains]
      /\ dropped \in [Devices -> SUBSET Ids] /\ dropped[d] \in SUBSET Ids
      /\ drain[d].answers \in Seq(Answers) /\ drain[d].lost \in Seq(Ids)
      /\ drain[d].answers # <<>> /\ drain[d].pc = "settling"
  BY DeviceTypes, ADrain DEF Typed, Settle
<1>2. Len(drain[d].answers) > 0 /\ a \in Answers /\ Tail(drain[d].answers) \in Seq(Answers)
  BY <1>1
<1>3. a.id \in Ids
  BY <1>2, AnAnswer
<1>4. r \in Drains /\ r.pc = "settling" /\ r.answers = Tail(drain[d].answers)
  <2>1. Append(drain[d].lost, a.id) \in Seq(Ids)
    BY <1>1, <1>3
  <2> QED
    BY <1>1, <1>2, <2>1 DEF Drains
<1>5. out \in SUBSET Ids
  BY <1>1, <1>3
<1>6. /\ drain' = [drain EXCEPT ![d] = r] /\ dropped' = [dropped EXCEPT ![d] = out]
      /\ UNCHANGED <<vars, todo, told>>
      /\ IF kept THEN UNCHANGED queue ELSE Forget(d, a.id)
  BY DEF Settle
<1>7. ~(landed /\ kept)
  BY DEF Landed, KeepForLater
<1>8. /\ landed \/ kept => out = dropped[d]
      /\ ~(landed \/ kept) => out = dropped[d] \cup {a.id}
  OBVIOUS
<1> HIDE DEF r, out
<1>9. drain' \in [Devices -> Drains] /\ drain'[d] = r /\ Elsewhere1(drain', drain, d)
  <2>1. drain \in [Devices -> Drains] /\ r \in Drains /\ drain' = [drain EXCEPT ![d] = r]
    BY <1>1, <1>4, <1>6
  <2> QED
    BY <2>1, OneReplaced
<1>10. /\ dropped' \in [Devices -> SUBSET Ids] /\ dropped'[d] = out
       /\ Elsewhere1(dropped', dropped, d)
  <2>1. /\ dropped \in [Devices -> SUBSET Ids] /\ out \in SUBSET Ids
        /\ dropped' = [dropped EXCEPT ![d] = out]
    BY <1>1, <1>5, <1>6
  <2> QED
    BY <2>1, OneReplaced
<1>11. landed \/ kept => dropped' = dropped
  BY <1>1, <1>6, <1>8
<1>12. queue' \in [Devices -> Seq(Operations)] /\ Elsewhere1(queue', queue, d)
  <2>1. CASE kept
    BY <1>6, <2>1, DeviceTypes DEF Typed, Elsewhere1
  <2>2. CASE ~kept
    BY <1>6, <2>2, ForgetMoves
  <2> QED
    BY <2>1, <2>2
<1>13. ~kept => Forgotten(d, a.id)
  BY <1>6, ForgetMoves
<1>14. Typed'
  BY <1>6, <1>9, <1>10, <1>12, ServerAtRest, DeviceTypes DEF Typed
<1>15. \/ queue' = queue /\ dropped' = dropped /\ kept
       \/ Forgotten(d, a.id) /\ dropped' = dropped /\ landed
       \/ Forgotten(d, a.id) /\ dropped'[d] = dropped[d] \cup {a.id} /\ ~landed
  <2>1. CASE kept
    BY <1>6, <1>11, <2>1
  <2>2. CASE ~kept /\ landed
    BY <1>11, <1>13, <2>2
  <2>3. CASE ~kept /\ ~landed
    BY <1>8, <1>10, <1>13, <2>3
  <2> QED
    BY <2>1, <2>2, <2>3
<1> QED
  BY <1>1, <1>2, <1>4, <1>6, <1>9, <1>10, <1>12, <1>14, <1>15

----------------------------------------------------------------------------
(* Every step keeps following the changes of every device.                 *)

(* Where the operations in hand are a device's own.                        *)
LEMMA InHandIsOwn ==
    ASSUME Sound, NEW d \in Devices, Serving(d), ~At(d, "idle"), ~At(d, "reply")
    PROVE  Op(d).id \in Queued(d)
<1>1. Len(work[d].batch) > 0 /\ work[d].batch \in Seq(Operations)
  BY SoundParts DEF PlanSound, DeviceSound, WorkOK, Handlers
<1>2. Op(d) = work[d].batch[1] /\ 1 \in 1..Len(work[d].batch)
  BY <1>1 DEF Op
<1> QED
  BY <1>2 DEF Serving

LEMMA AnsweredKept ==
    ASSUME NEW d \in Devices, NEW s \in Seq(Answers), Answered(d, s),
           \A k \in 1..Len(s) :
              s[k].id \in Queued(d)' /\ applied'[s[k].id] = applied[s[k].id]
    PROVE  Answered(d, s)'
BY DEF Answered, Apart, Who

(* A device whose own half and request are left alone, when nothing queued *)
(* on it leaves and nothing of its own is applied.                         *)
LEMMA ServingKept ==
    ASSUME Typed, NEW d \in Devices, Serving(d), Queued(d) \subseteq Queued(d)',
           drain'[d].pc = drain[d].pc, drain'[d].answers = drain[d].answers,
           work'[d] = work[d], \A id \in Queued(d) : applied'[id] = applied[id]
    PROVE  Serving(d)'
<1>1. work[d].answers \in Seq(Answers) /\ drain[d].answers \in Seq(Answers)
  BY SoundParts, DeviceTypes, ADrain DEF Typed, WorkOK, Handlers
<1>2. Answered(d, work[d].answers)' /\ Answered(d, drain[d].answers)'
  <2>1. Answered(d, work[d].answers) /\ Answered(d, drain[d].answers)
    BY DEF Serving
  <2>2. \A s \in {work[d].answers, drain[d].answers} : \A k \in 1..Len(s) :
           s[k].id \in Queued(d)' /\ applied'[s[k].id] = applied[s[k].id]
    BY <2>1 DEF Answered
  <2>3. /\ \A k \in 1..Len(work'[d].answers) : work'[d].answers[k].id \in Queued(d)'
        /\ \A k \in 1..Len(drain'[d].answers) : drain'[d].answers[k].id \in Queued(d)'
    BY <2>2
  <2> QED
    BY <2>1, <2>2, <2>3, ZenonT(60) DEF Answered, Apart, Who
<1>3. Op(d)' = Op(d) /\ At(d, "idle")' = At(d, "idle") /\ At(d, "recall")' = At(d, "recall")
      /\ At(d, "reply")' = At(d, "reply")
  BY DEF Op, At
<1>4. \/ At(d, "idle")' \/ At(d, "recall")' \/ At(d, "reply")'
      \/ applied'[Op(d)'.id] = None
  <2>1. CASE At(d, "idle") \/ At(d, "recall") \/ At(d, "reply")
    BY <1>3, <2>1
  <2>2. CASE ~(At(d, "idle") \/ At(d, "recall") \/ At(d, "reply"))
    <3>1. Op(d).id \in Queued(d)
      BY <2>2, InHandIsOwn DEF Typed
    <3> QED
      BY <1>3, <2>2, <3>1 DEF Serving
  <2> QED
    BY <2>1, <2>2
<1> QED
  BY <1>2, <1>3, <1>4 DEF Serving, Apart

LEMMA MakingKept ==
    ASSUME NEW d \in Devices, Making(d), todo'[d] = todo[d], queue'[d] = queue[d],
           dropped'[d] = dropped[d], \A id \in Own(d) : applied'[id] = applied[id]
    PROVE  Making(d)'
<1>1. Queued(d)' = Queued(d)
  BY DEF Queued
<1>2. ASSUME NEW k \in 1..Len(todo[d])
      PROVE  /\ todo[d][k].id \in Own(d) \ Queued(d)
             /\ todo[d][k].id \notin dropped[d] /\ applied'[todo[d][k].id] = None
  BY DEF Making
<1>3. /\ dropped[d] \subseteq Own(d) \ Queued(d)
      /\ \A id \in dropped[d] : applied'[id] = None
  BY DEF Making
<1>4. \A id \in Own(d) : applied'[id] \in {None, Who(d)}
  BY DEF Making
<1>5. Apart(todo[d]) /\ Apart(queue[d]) /\ Queued(d) \subseteq Own(d)
  BY DEF Making
<1>6. /\ \A k \in 1..Len(todo'[d]) :
            /\ todo'[d][k].id \in Own(d) \ Queued(d)'
            /\ todo'[d][k].id \notin dropped'[d] /\ applied'[todo'[d][k].id] = None
      /\ dropped'[d] \subseteq Own(d) \ Queued(d)'
      /\ \A id \in dropped'[d] : applied'[id] = None
  BY <1>1, <1>2, <1>3
<1>7. Apart(todo[d])' /\ Apart(queue[d])' /\ Queued(d)' \subseteq Own(d)
  BY <1>1, <1>5 DEF Apart
<1> QED
  BY <1>4, <1>6, <1>7 DEF Making, Own, Who

LEMMA Untouched ==
    ASSUME Typed, NEW d \in Devices, Following(d),
           todo'[d] = todo[d], queue'[d] = queue[d], drain'[d] = drain[d],
           dropped'[d] = dropped[d], work'[d] = work[d],
           \A id \in Own(d) : applied'[id] = applied[id]
    PROVE  Following(d)'
<1>1. Queued(d)' = Queued(d) /\ Queued(d) \subseteq Own(d)
  BY DEF Queued, Following, Making
<1>2. Making(d)'
  BY MakingKept DEF Following
<1>3. Serving(d)'
  BY <1>1, ServingKept DEF Following
<1>4. Story(d)'
  BY DEF Following, Story
<1> QED
  BY <1>2, <1>3, <1>4 DEF Following

(* A step of one device, when nothing but its own changes are applied.     *)
LEMMA OneFollows ==
    ASSUME OfflineInv, NEW d \in Devices,
           Elsewhere1(todo', todo, d), Elsewhere1(queue', queue, d),
           Elsewhere1(drain', drain, d), Elsewhere1(dropped', dropped, d), Others(d),
           \A e \in Devices \ {d} : \A id \in Own(e) : applied'[id] = applied[id],
           Following(d)'
    PROVE  \A e \in Devices : Following(e)'
<1> SUFFICES ASSUME NEW e \in Devices, e # d PROVE Following(e)'
  OBVIOUS
<1> QED
  BY Untouched DEF OfflineInv, Elsewhere1, Others

LEMMA QueuedGrows ==
    ASSUME NEW d \in Devices, NEW op \in Operations, queue[d] \in Seq(Operations),
           queue'[d] \in Seq(Operations), queue'[d] = Append(queue[d], op)
    PROVE  Queued(d)' = Queued(d) \cup {op.id}
<1> DEFINE s == queue[d]
           t == Append(s, op)
<1>1. /\ Len(t) = Len(s) + 1 /\ \A k \in 1..Len(s) : t[k] = s[k]
      /\ t[Len(s) + 1] = op
      /\ \A k \in 1..Len(t) : k \in 1..Len(s) \/ k = Len(s) + 1
  BY Appended
<1>2. /\ Queued(d) = {s[k].id : k \in 1..Len(s)}
      /\ Queued(d)' = {t[k].id : k \in 1..Len(t)} /\ Len(s) \in Nat
  <2>1. t \in Seq(Operations) /\ queue'[d] = t
    OBVIOUS
  <2>2. DOMAIN t = 1..Len(t) /\ DOMAIN s = 1..Len(s) /\ Len(s) \in Nat
    BY <2>1
  <2>3. Queued(d)' = {queue'[d][k].id : k \in DOMAIN queue'[d]}
    BY DEF Queued
  <2> QED
    BY <2>1, <2>2, <2>3 DEF Queued
<1> HIDE DEF s, t
<1>3. \A k \in 1..Len(s) : k \in 1..Len(t)
  BY <1>1, <1>2
<1>4. Len(s) + 1 \in 1..Len(t)
  BY <1>1, <1>2
<1>5. {t[k].id : k \in 1..Len(t)} = {s[k].id : k \in 1..Len(s)} \cup {op.id}
  BY <1>1, <1>3, <1>4
<1> QED
  BY <1>2, <1>5

LEMMA ChangeFollows ==
    ASSUME OfflineInv, NEW d \in Devices, Change(d)
    PROVE  OfflineInv'
<1> DEFINE op == Head(todo[d])
<1>1. /\ Typed' /\ UNCHANGED <<vars, drain, dropped, told>>
      /\ Len(todo[d]) > 0 /\ op \in Operations
      /\ todo'[d] = Tail(todo[d]) /\ Elsewhere1(todo', todo, d)
      /\ queue'[d] = Append(queue[d], op) /\ Elsewhere1(queue', queue, d)
  BY ChangeMoves DEF OfflineInv
<1>2. Typed /\ Following(d) /\ todo[d] \in Seq(Operations) /\ queue[d] \in Seq(Operations)
  BY DeviceTypes DEF OfflineInv, Typed
<1>3. UNCHANGED <<applied, work, drain, dropped>>
  BY <1>1 DEF vars
<1>4. Queued(d)' = Queued(d) \cup {op.id}
  <2>1. queue'[d] \in Seq(Operations)
    BY <1>1, DeviceTypes DEF Typed
  <2> QED
    BY <1>1, <1>2, <2>1, QueuedGrows
<1>5. /\ Apart(Tail(todo[d])) /\ Tail(todo[d]) \in Seq(Operations)
      /\ Len(Tail(todo[d])) = Len(todo[d]) - 1
      /\ \A k \in 1..Len(Tail(todo[d])) :
            Tail(todo[d])[k].id # op.id /\ Tail(todo[d])[k] = todo[d][k + 1]
  BY <1>1, <1>2, ApartTail, HeadAndTail DEF Following, Making
<1>6. op = todo[d][1] /\ 1 \in 1..Len(todo[d]) /\ Len(todo[d]) \in Nat
  BY <1>1, <1>2
<1>7. /\ op.id \in Own(d) \ Queued(d)
      /\ op.id \notin dropped[d] /\ applied[op.id] = None
  BY <1>2, <1>6 DEF Following, Making
<1>8. Making(d)'
  <2>1. Apart(queue'[d])
    <3>1. \A k \in 1..Len(queue[d]) : queue[d][k].id \in Queued(d)
      BY <1>2 DEF Queued
    <3>2. Apart(queue[d]) /\ \A k \in 1..Len(queue[d]) : queue[d][k].id # op.id
      BY <1>2, <1>7, <3>1 DEF Following, Making
    <3>3. Apart(Append(queue[d], op))
      BY <1>1, <1>2, <3>2, ApartAppend
    <3> QED
      BY <1>1, <3>3
  <2>2. ASSUME NEW k \in 1..Len(todo'[d])
        PROVE  /\ todo'[d][k].id \in Own(d) \ Queued(d)'
               /\ todo'[d][k].id \notin dropped'[d] /\ applied'[todo'[d][k].id] = None
    <3>1. k + 1 \in 1..Len(todo[d]) /\ todo'[d][k] = todo[d][k + 1] /\ todo'[d][k].id # op.id
      BY <1>1, <1>5, <1>6
    <3>2. /\ todo[d][k + 1].id \in Own(d) \ Queued(d)
          /\ todo[d][k + 1].id \notin dropped[d] /\ applied[todo[d][k + 1].id] = None
      BY <1>2, <3>1 DEF Following, Making
    <3> QED
      BY <1>3, <1>4, <3>1, <3>2
  <2>3. Queued(d)' \subseteq Own(d)
    BY <1>2, <1>4, <1>7 DEF Following, Making
  <2>4. dropped'[d] \subseteq Own(d) \ Queued(d)'
    BY <1>2, <1>3, <1>4, <1>7 DEF Following, Making
  <2>5. /\ \A id \in dropped'[d] : applied'[id] = None
        /\ \A id \in Own(d) : applied'[id] \in {None, Who(d)}
    BY <1>2, <1>3 DEF Following, Making
  <2>6. Apart(todo'[d])
    BY <1>1, <1>5
  <2> QED
    BY <2>1, <2>2, <2>3, <2>4, <2>5, <2>6 DEF Making, Own, Apart, Who
<1>9. Serving(d)'
  BY <1>2, <1>3, <1>4, ServingKept DEF Following
<1>10. Story(d)'
  BY <1>2, <1>3 DEF Following, Story
<1>11. Following(d)'
  BY <1>8, <1>9, <1>10 DEF Following
<1> QED
  BY <1>1, <1>3, <1>11, OneFollows DEF OfflineInv, Others, Elsewhere1

LEMMA SendFollows ==
    ASSUME OfflineInv, NEW d \in Devices, NEW caller \in Callers, Send(d, caller)
    PROVE  OfflineInv'
<1>1. /\ Typed' /\ UNCHANGED <<tables, applied, now, todo, queue, dropped, told>>
      /\ Others(d) /\ work'[d].pc = "recall"
      /\ work'[d].batch = queue[d] /\ work'[d].answers = <<>>
      /\ Elsewhere1(drain', drain, d)
      /\ drain'[d].pc = "waiting" /\ drain'[d].sent = IdsOf(queue[d])
      /\ drain'[d].answers = <<>> /\ drain[d].pc = "rest"
  BY SendMoves DEF OfflineInv
<1>2. Typed /\ Following(d) /\ queue[d] \in Seq(Operations)
  BY DeviceTypes DEF OfflineInv, Typed
<1>3. Making(d)'
  BY <1>1, <1>2, MakingKept DEF Following
<1>4. Queued(d)' = Queued(d) /\ \A k \in 1..Len(queue[d]) : queue[d][k].id \in Queued(d)
  BY <1>1, <1>2 DEF Queued
<1>5. Serving(d)'
  <2>1. Answered(d, work[d].answers)' /\ Answered(d, drain[d].answers)'
    <3>1. \A k \in 1..Len(<<>>) : FALSE
      OBVIOUS
    <3> QED
      BY <1>1, <3>1 DEF Answered, Apart
  <2>2. Apart(work'[d].batch) /\ ~At(d, "idle")' /\ At(d, "recall")'
    BY <1>1, <1>2 DEF Following, Making, At
  <2> QED
    BY <1>1, <1>4, <2>1, <2>2 DEF Serving, Apart, Answered
<1>6. Story(d)'
  <2>1. Len(IdsOf(queue[d])) = Len(queue[d]) /\ \A k \in 1..Len(queue[d]) : IdsOf(queue[d])[k] = queue[d][k].id
    BY <1>2, IdsAre
  <2> DEFINE s == queue[d]
             i == IdsOf(s)
  <2>2. /\ work'[d].batch = s /\ work'[d].answers = <<>> /\ drain'[d].sent = i
        /\ Len(i) = Len(s) /\ Len(s) \in Nat /\ \A k \in 1..Len(s) : i[k] = s[k].id
        /\ Len(<<>>) = 0
    BY <1>1, <1>2, <2>1
  <2> HIDE DEF s, i
  <2>3. /\ 0 + Len(s) <= Len(i) /\ \A k \in 1..0 : FALSE
        /\ \A k \in 1..Len(s) : 0 + k = k
    BY <2>2
  <2> QED
    BY <2>2, <2>3 DEF Story
<1>7. Following(d)'
  BY <1>3, <1>5, <1>6 DEF Following
<1> QED
  BY <1>1, <1>7, OneFollows DEF OfflineInv, Elsewhere1

(* A handler's step: whatever it applies is the operation in hand.         *)
LEMMA ServeMoves ==
    ASSUME OfflineInv, NEW d \in Devices, Handle(d) \/ Trouble(d), UNCHANGED device
    PROVE  /\ Typed' /\ Others(d) /\ UNCHANGED <<todo, queue, drain, dropped, told>>
           /\ ~At(d, "idle") /\ ~At(d, "reply") /\ Len(work[d].batch) > 0
           /\ Op(d).id \in Queued(d) /\ Op(d).id \in Ids /\ work'[d].pc # "idle"
           /\ GoesOn(d) \/ StopsHere(d) \/ Answers1(d)
<1>1. Typed /\ Sound /\ Following(d) /\ UNCHANGED <<todo, queue, drain, dropped, told>>
  BY DEF OfflineInv, Typed, device
<1>2. ~At(d, "idle") /\ ~At(d, "reply") /\ HandlerStep(d)
  <2>1. HandlerStep(d)
    BY <1>1, HandleStep
  <2> QED
    BY <2>1 DEF HandlerStep, Ways
<1>3. Op(d).id \in Queued(d)
  BY <1>1, <1>2, InHandIsOwn DEF Following
<1>4. applied[Op(d).id] \in {None, Who(d)}
  BY <1>1, <1>3 DEF Following, Making
<1>5. At(d, "recall") \/ applied[Op(d).id] = None
  BY <1>1, <1>2 DEF Following, Serving
<1>6. /\ Sound' /\ Others(d) /\ work'[d].pc # "idle" /\ Len(work[d].batch) > 0
      /\ Op(d).id \in Ids /\ (GoesOn(d) \/ StopsHere(d) \/ Answers1(d))
  BY <1>1, <1>4, <1>5, ServingMoves
<1>7. Typed'
  BY <1>1, <1>6, DeviceAlone
<1> QED
  BY <1>1, <1>2, <1>3, <1>6, <1>7

LEMMA OnlyOneApplied ==
    ASSUME Sound, NEW d \in Devices, GoesOn(d) \/ StopsHere(d) \/ Answers1(d), Op(d).id \in Ids
    PROVE  /\ \A id \in Ids : id # Op(d).id => applied'[id] = applied[id]
           /\ applied'[Op(d).id] \in {applied[Op(d).id], Who(d)}
<1>1. applied \in [Ids -> People \cup {None}]
  BY SoundParts DEF RestOK
<1>2. CASE applied' = applied
  BY <1>2
<1>3. CASE applied' = [applied EXCEPT ![Op(d).id] = Who(d)]
  BY <1>1, <1>3
<1> QED
  BY <1>2, <1>3 DEF GoesOn, StopsHere, Answers1

LEMMA ServeMaking ==
    ASSUME OfflineInv, NEW d \in Devices, Handle(d) \/ Trouble(d), UNCHANGED device
    PROVE  Making(d)'
<1> DEFINE id0 == Op(d).id
<1>1. /\ Sound /\ Following(d) /\ UNCHANGED <<todo, queue, drain, dropped>>
      /\ id0 \in Queued(d) /\ id0 \in Ids /\ (GoesOn(d) \/ StopsHere(d) \/ Answers1(d))
  BY ServeMoves DEF OfflineInv, Typed
<1>2. /\ \A id \in Ids : id # id0 => applied'[id] = applied[id]
      /\ applied'[id0] \in {applied[id0], Who(d)}
  BY <1>1, OnlyOneApplied
<1>3. Queued(d)' = Queued(d) /\ Own(d) \subseteq Ids
  BY <1>1 DEF Queued, Own
<1> HIDE DEF id0
<1>4. ASSUME NEW k \in 1..Len(todo[d])
      PROVE  /\ todo[d][k].id \in Own(d) \ Queued(d)
             /\ todo[d][k].id \notin dropped[d] /\ applied'[todo[d][k].id] = None
  <2>1. /\ todo[d][k].id \in Own(d) \ Queued(d)
        /\ todo[d][k].id \notin dropped[d] /\ applied[todo[d][k].id] = None
    BY <1>1 DEF Following, Making
  <2> QED
    BY <1>1, <1>2, <1>3, <2>1
<1>5. \A id \in dropped[d] : applied'[id] = None
  <2>1. dropped[d] \subseteq Own(d) \ Queued(d) /\ \A id \in dropped[d] : applied[id] = None
    BY <1>1 DEF Following, Making
  <2> QED
    BY <1>1, <1>2, <1>3, <2>1
<1>6. \A id \in Own(d) : applied'[id] \in {None, Who(d)}
  <2>1. \A id \in Own(d) : applied[id] \in {None, Who(d)}
    BY <1>1 DEF Following, Making
  <2>2. id0 \in Own(d)
    BY <1>1 DEF Following, Making
  <2> QED
    BY <1>2, <1>3, <2>1, <2>2
<1>7. /\ Apart(todo[d]) /\ Apart(queue[d]) /\ Queued(d) \subseteq Own(d)
      /\ dropped[d] \subseteq Own(d) \ Queued(d)
  BY <1>1 DEF Following, Making
<1> QED
  BY <1>1, <1>3, <1>4, <1>5, <1>6, <1>7 DEF Making, Own, Apart, Who

LEMMA ServeServing ==
    ASSUME OfflineInv, NEW d \in Devices, Handle(d) \/ Trouble(d), UNCHANGED device
    PROVE  Serving(d)'
<1>1. /\ Typed' /\ UNCHANGED <<todo, queue, drain, dropped>>
      /\ ~At(d, "idle") /\ ~At(d, "reply") /\ Len(work[d].batch) > 0
      /\ Op(d).id \in Queued(d) /\ Op(d).id \in Ids /\ work'[d].pc # "idle"
      /\ GoesOn(d) \/ StopsHere(d) \/ Answers1(d)
  BY ServeMoves
<1>2. Typed /\ Sound /\ Following(d) /\ Serving(d)
  BY DEF OfflineInv, Typed, Following
<1>3. Queued(d)' = Queued(d) /\ drain[d].pc = "waiting" /\ drain[d].answers = <<>>
  BY <1>1, <1>2 DEF Queued, Serving
<1>4. /\ drain'[d].pc = "waiting" <=> ~At(d, "idle")'
      /\ drain'[d].pc # "settling" => drain'[d].answers = <<>>
      /\ At(d, "idle")' => work'[d].answers = <<>>
      /\ Answered(d, drain[d].answers)'
  <2>1. \A k \in 1..Len(<<>>) : FALSE
    OBVIOUS
  <2>2. drain'[d].answers = <<>>
    BY <1>1, <1>3
  <2>3. Answered(d, drain[d].answers)'
    BY <2>1, <2>2 DEF Answered, Apart
  <2> QED
    BY <1>1, <1>3, <2>2, <2>3 DEF At
<1>5. /\ work[d].batch \in Seq(Operations) /\ work[d].answers \in Seq(Answers)
  BY <1>2, SoundParts DEF WorkOK, Handlers
<1>6. /\ Apart(work[d].batch) /\ Answered(d, work[d].answers)
      /\ \A k \in 1..Len(work[d].batch) : work[d].batch[k].id \in Queued(d)
      /\ \A j \in 1..Len(work[d].batch), k \in 1..Len(work[d].answers) :
            work[d].batch[j].id # work[d].answers[k].id
  BY <1>2 DEF Serving
<1>7. CASE GoesOn(d)
  <2>1. Op(d)' = Op(d)
    BY <1>7 DEF GoesOn, Op
  <2>2. Answered(d, work[d].answers)' /\ applied'[Op(d)'.id] = None
    BY <1>3, <1>6, <1>7, <2>1 DEF GoesOn, Answered, Apart, Who
  <2> QED
    BY <1>3, <1>4, <1>6, <1>7, <2>2 DEF Serving, GoesOn, Apart
<1>8. CASE StopsHere(d)
  <2>1. Answered(d, work[d].answers)' /\ At(d, "reply")'
    BY <1>3, <1>6, <1>8 DEF StopsHere, Answered, Apart, Who, At
  <2>2. \A k \in 1..Len(work'[d].batch) : FALSE
    BY <1>8 DEF StopsHere
  <2> QED
    BY <1>3, <1>4, <2>1, <2>2 DEF Serving, Apart
<1>9. CASE Answers1(d)
  <2> DEFINE b == work[d].batch
             a == work[d].answers
  <2>1. PICK o \in Outcomes :
          /\ work'[d].answers = Append(a, [id |-> Op(d).id, outcome |-> o])
          /\ applied'[Op(d).id] = IF o \in Landed THEN Who(d) ELSE None
    BY <1>9 DEF Answers1
  <2> DEFINE new == [id |-> Op(d).id, outcome |-> o]
             a1 == Append(a, new)
             b1 == Tail(b)
  <2>2. /\ work'[d].batch = b1 /\ work'[d].answers = a1
        /\ At(d, "recall")' \/ At(d, "reply")'
    BY <1>9, <2>1 DEF Answers1, At
  <2>3. Op(d) = b[1] /\ Op(d) = Head(b) /\ 1 \in 1..Len(b)
    BY <1>1, <1>5 DEF Op
  <2>4. new \in Answers /\ new.id = Op(d).id /\ new.outcome = o
    BY <1>1 DEF Answers
  <2>5. /\ a1 \in Seq(Answers) /\ Len(a1) = Len(a) + 1 /\ a1[Len(a) + 1] = new
        /\ \A k \in 1..Len(a) : a1[k] = a[k]
        /\ \A k \in 1..Len(a1) : k \in 1..Len(a) \/ k = Len(a) + 1
    BY <1>5, <2>4, Appended
  <2>6. /\ Apart(b1) /\ Len(b1) = Len(b) - 1 /\ Len(b) \in Nat
        /\ \A k \in 1..Len(b1) : b1[k].id # Op(d).id /\ b1[k] = b[k + 1] /\ k + 1 \in 1..Len(b)
    <3>1. Apart(b1) /\ \A k \in 1..Len(b1) : b1[k].id # Op(d).id
      BY <1>1, <1>5, <1>6, <2>3, ApartTail
    <3>2. Len(b1) = Len(b) - 1 /\ \A k \in 1..Len(b1) : b1[k] = b[k + 1]
      BY <1>1, <1>5, HeadAndTail
    <3>3. Len(b) \in Nat
      BY <1>5
    <3>4. \A k \in 1..Len(b1) : k + 1 \in 1..Len(b)
      BY <3>2, <3>3
    <3> QED
      BY <3>1, <3>2, <3>3, <3>4
  <2>7. \A k \in 1..Len(a) : a[k].id # new.id
    BY <1>6, <2>3, <2>4
  <2>8. Apart(a) /\ \A k \in 1..Len(a) :
            a[k].id \in Queued(d) /\ applied[a[k].id] = IF a[k].outcome \in Landed THEN Who(d) ELSE None
    BY <1>6 DEF Answered
  <2>9. Apart(a1)
    BY <1>5, <2>4, <2>7, <2>8, ApartAppend
  <2>10. \A id \in Ids : id # Op(d).id => applied'[id] = applied[id]
    BY <1>1, <1>2, OnlyOneApplied
  <2>11. \A k \in 1..Len(a) : a[k].id \in Ids
    BY <1>5, AnAnswer
  <2>12. \A k \in 1..Len(b) : b[k].id \in Queued(d)
    BY <1>6
  <2>13. \A j \in 1..Len(b), k \in 1..Len(a) : b[j].id # a[k].id
    BY <1>6
  <2> HIDE DEF new, a, b, a1, b1
  <2>14. ASSUME NEW k \in 1..Len(a1)
         PROVE  /\ a1[k].id \in Queued(d)
                /\ applied'[a1[k].id] = IF a1[k].outcome \in Landed THEN Who(d) ELSE None
    <3>1. CASE k \in 1..Len(a)
      BY <2>4, <2>5, <2>7, <2>8, <2>10, <2>11, <3>1
    <3>2. CASE k = Len(a) + 1
      BY <1>1, <2>1, <2>4, <2>5, <3>2
    <3> QED
      BY <2>5, <3>1, <3>2
  <2>15. Answered(d, work[d].answers)'
    BY <1>3, <2>2, <2>9, <2>14 DEF Answered, Apart, Who
  <2>16. \A j \in 1..Len(b1), k \in 1..Len(a1) : b1[j].id # a1[k].id
    <3>1. ASSUME NEW j \in 1..Len(b1), NEW k \in 1..Len(a1) PROVE b1[j].id # a1[k].id
      <4>1. CASE k \in 1..Len(a)
        BY <2>5, <2>6, <2>13, <4>1, ZenonT(60)
      <4>2. CASE k = Len(a) + 1
        BY <2>4, <2>5, <2>6, <4>2
      <4> QED
        BY <2>5, <4>1, <4>2
    <3> QED
      BY <3>1
  <2>17. \A k \in 1..Len(b1) : b1[k].id \in Queued(d)
    BY <2>6, <2>12
  <2> QED
    BY <1>3, <1>4, <2>2, <2>6, <2>15, <2>16, <2>17 DEF Serving, Apart
<1> QED
  BY <1>1, <1>7, <1>8, <1>9

LEMMA ServeStory ==
    ASSUME OfflineInv, NEW d \in Devices, Handle(d) \/ Trouble(d), UNCHANGED device
    PROVE  Story(d)'
<1> DEFINE b == work[d].batch
           a == work[d].answers
           sent == drain[d].sent
           b1 == work'[d].batch
           a1 == work'[d].answers
<1>1. /\ UNCHANGED drain /\ ~At(d, "idle") /\ Len(b) > 0
      /\ GoesOn(d) \/ StopsHere(d) \/ Answers1(d)
  BY ServeMoves
<1>2. Typed /\ Sound /\ Serving(d) /\ Story(d)
  BY DEF OfflineInv, Typed, Following
<1>3. b \in Seq(Operations) /\ a \in Seq(Answers) /\ sent \in Seq(Ids)
  BY <1>2, SoundParts, DeviceTypes, ADrain DEF Typed, WorkOK, Handlers
<1>4. /\ Len(a) + Len(b) <= Len(sent)
      /\ \A k \in 1..Len(a) : a[k].id = sent[k]
      /\ \A k \in 1..Len(b) : b[k].id = sent[Len(a) + k]
  BY <1>1, <1>2 DEF Story, Serving
<1>5. Len(a) \in Nat /\ Len(b) \in Nat /\ Len(sent) \in Nat
  BY <1>3
<1> SUFFICES /\ Len(a1) + Len(b1) <= Len(sent)
             /\ \A k \in 1..Len(a1) : a1[k].id = sent[k]
             /\ \A k \in 1..Len(b1) : b1[k].id = sent[Len(a1) + k]
  BY <1>1 DEF Story
<1>6. CASE GoesOn(d)
  BY <1>4, <1>6 DEF GoesOn
<1>7. CASE StopsHere(d)
  <2>1. b1 = <<>> /\ a1 = a
    BY <1>7 DEF StopsHere
  <2>2. Len(b1) = 0 /\ 1..0 = {}
    BY <2>1
  <2> HIDE DEF a, b, sent, a1, b1
  <2> QED
    BY <1>4, <1>5, <2>1, <2>2
<1>8. CASE Answers1(d)
  <2>1. PICK o \in Outcomes : a1 = Append(a, [id |-> Op(d).id, outcome |-> o])
    BY <1>8 DEF Answers1
  <2> DEFINE new == [id |-> Op(d).id, outcome |-> o]
  <2>2. new.id = b[1].id /\ Op(d) \in Operations /\ new \in Answers
    <3>1. Op(d) = b[1] /\ Op(d) \in Operations
      BY <1>1, <1>3 DEF Op
    <3>2. Op(d).id \in Ids
      BY <3>1, AnOperation
    <3> QED
      BY <3>1, <3>2 DEF Answers
  <2>3. /\ Len(a1) = Len(a) + 1 /\ a1[Len(a) + 1] = new
        /\ \A k \in 1..Len(a) : a1[k] = a[k]
        /\ \A k \in 1..Len(a1) : k \in 1..Len(a) \/ k = Len(a) + 1
    BY <1>3, <2>1, <2>2, Appended
  <2>4. Len(b1) = Len(b) - 1 /\ \A k \in 1..Len(b1) : b1[k] = b[k + 1]
    <3>1. b1 = Tail(b)
      BY <1>8 DEF Answers1
    <3> QED
      BY <1>1, <1>3, <3>1, HeadAndTail
  <2> HIDE DEF a, b, sent, a1, b1, new
  <2>5. Len(a1) + Len(b1) <= Len(sent)
    BY <1>4, <1>5, <2>3, <2>4
  <2>6. \A k \in 1..Len(a1) : a1[k].id = sent[k]
    <3>1. 1 \in 1..Len(b)
      BY <1>1, <1>5 DEF b
    <3>2. b[1].id = sent[Len(a) + 1]
      BY <1>4, <3>1
    <3> QED
      BY <1>4, <2>2, <2>3, <3>2
  <2>7. ASSUME NEW k \in 1..Len(b1) PROVE b1[k].id = sent[Len(a1) + k]
    <3>1. k + 1 \in 1..Len(b) /\ Len(a) + (k + 1) = Len(a1) + k
      BY <1>5, <2>3, <2>4
    <3>2. b[k + 1].id = sent[Len(a) + (k + 1)]
      BY <1>4, <3>1
    <3> QED
      BY <2>4, <3>1, <3>2
  <2> QED
    BY <2>5, <2>6, <2>7
<1> QED
  BY <1>1, <1>6, <1>7, <1>8

LEMMA ServeFollows ==
    ASSUME EachChangeOnce, OfflineInv, NEW d \in Devices,
           Handle(d) \/ Trouble(d), UNCHANGED device
    PROVE  OfflineInv'
<1>1. /\ Typed' /\ Others(d) /\ UNCHANGED <<todo, queue, drain, dropped>>
      /\ Op(d).id \in Queued(d) /\ Op(d).id \in Ids
      /\ GoesOn(d) \/ StopsHere(d) \/ Answers1(d)
  BY ServeMoves
<1>2. Following(d)'
  BY ServeMaking, ServeServing, ServeStory DEF Following
<1>3. Op(d).id \in Own(d) /\ Sound
  BY <1>1 DEF OfflineInv, Following, Making, Typed
<1>4. \A id \in Ids : id # Op(d).id => applied'[id] = applied[id]
  BY <1>1, <1>3, OnlyOneApplied
<1>5. \A e \in Devices \ {d} : \A id \in Own(e) : id \in Ids /\ id # Op(d).id
  BY <1>3 DEF EachChangeOnce, Own
<1>6. \A e \in Devices \ {d} : \A id \in Own(e) : applied'[id] = applied[id]
  BY <1>4, <1>5
<1>7. /\ Elsewhere1(todo', todo, d) /\ Elsewhere1(queue', queue, d)
      /\ Elsewhere1(drain', drain, d) /\ Elsewhere1(dropped', dropped, d)
  BY <1>1 DEF Elsewhere1
<1>8. \A e \in Devices : Following(e)'
  BY <1>1, <1>2, <1>6, <1>7, OneFollows
<1> QED
  BY <1>1, <1>8 DEF OfflineInv

LEMMA ReceiveFollows ==
    ASSUME OfflineInv, NEW d \in Devices, Receive(d)
    PROVE  OfflineInv'
<1>1. /\ Typed' /\ UNCHANGED <<tables, applied, now, todo, queue, dropped, told>>
      /\ Others(d) /\ work'[d] = Idle /\ ~At(d, "idle")
      /\ Elsewhere1(drain', drain, d)
      /\ drain'[d].pc = "settling" /\ drain'[d].answers = work[d].answers
  BY ReceiveMoves DEF OfflineInv
<1>2. Typed /\ Following(d) /\ Serving(d)
  BY DEF OfflineInv, Following
<1>3. Making(d)'
  BY <1>1, <1>2, MakingKept DEF Following
<1>4. Queued(d)' = Queued(d) /\ \A k \in 1..Len(<<>>) : FALSE
  BY <1>1 DEF Queued
<1>5. Answered(d, drain[d].answers)'
  BY <1>1, <1>2, <1>4 DEF Serving, Answered, Apart, Who
<1>6. /\ work'[d].pc = "idle" /\ work'[d].batch = <<>> /\ work'[d].answers = <<>>
  BY <1>1, IdleIsAHandler
<1>7. Answered(d, work[d].answers)'
  BY <1>4, <1>6 DEF Answered, Apart
<1>8. Serving(d)'
  BY <1>1, <1>4, <1>5, <1>6, <1>7 DEF Serving, At, Apart
<1>9. Story(d)'
  BY <1>1 DEF Story
<1>10. Following(d)'
  BY <1>3, <1>8, <1>9 DEF Following
<1> QED
  BY <1>1, <1>10, OneFollows DEF OfflineInv, Elsewhere1

(* A drain given up or over, with nothing left at the server.              *)
LEMMA OverFollows ==
    ASSUME OfflineInv, Typed', NEW d \in Devices, UNCHANGED <<todo, queue, dropped, applied>>,
           Others(d), Elsewhere1(drain', drain, d), drain'[d] = AtRest,
           work'[d].pc = "idle", work'[d].batch = <<>>, work'[d].answers = <<>>
    PROVE  OfflineInv'
<1>1. Following(d)
  BY DEF OfflineInv
<1>2. Making(d)'
  BY <1>1, MakingKept DEF Following
<1>3. drain'[d].pc = "rest" /\ drain'[d].answers = <<>> /\ \A k \in 1..Len(<<>>) : FALSE
  BY RestingIs
<1>4. Answered(d, work[d].answers)' /\ Answered(d, drain[d].answers)'
  BY <1>3 DEF Answered, Apart
<1>5. Serving(d)' /\ Story(d)'
  BY <1>3, <1>4 DEF Serving, Story, At, Apart
<1>6. Following(d)'
  BY <1>2, <1>5 DEF Following
<1> QED
  BY <1>6, OneFollows DEF OfflineInv, Elsewhere1

LEMMA IdleHasNothing ==
    ASSUME OfflineInv, NEW d \in Devices, At(d, "idle")
    PROVE  work[d].batch = <<>> /\ work[d].answers = <<>> /\ work[d].pc = "idle"
<1>1. Sound /\ Serving(d)
  BY DEF OfflineInv, Typed, Following
<1>2. ~(Len(work[d].batch) > 0) /\ work[d].batch \in Seq(Operations)
  BY <1>1, SoundParts DEF PlanSound, DeviceSound, WorkOK, Handlers
<1> QED
  BY <1>1, <1>2 DEF Serving, At

LEMMA LoseConnectionFollows ==
    ASSUME OfflineInv, NEW d \in Devices, LoseConnection(d)
    PROVE  OfflineInv'
<1>1. /\ Typed' /\ UNCHANGED <<todo, queue, dropped, applied>> /\ work'[d] = Idle
      /\ Others(d) /\ Elsewhere1(drain', drain, d) /\ drain'[d] = AtRest
  BY LoseConnectionMoves DEF OfflineInv
<1> QED
  BY <1>1, IdleIsAHandler, OverFollows

LEMMA KillOrReportFollows ==
    ASSUME OfflineInv, NEW d \in Devices, Kill(d) \/ Report(d)
    PROVE  OfflineInv'
<1>1. /\ Typed' /\ UNCHANGED vars /\ UNCHANGED <<todo, queue, dropped>>
      /\ Elsewhere1(drain', drain, d) /\ drain'[d] = AtRest /\ drain[d].pc = "settling"
  BY KillMoves, ReportMoves DEF OfflineInv
<1>2. UNCHANGED <<applied, work>>
  BY <1>1 DEF vars
<1>3. At(d, "idle")
  BY <1>1 DEF OfflineInv, Following, Serving
<1>4. work'[d].pc = "idle" /\ work'[d].batch = <<>> /\ work'[d].answers = <<>> /\ Others(d)
  BY <1>2, <1>3, IdleHasNothing DEF Others
<1> QED
  BY <1>1, <1>2, <1>4, OverFollows

LEMMA SettleFollows ==
    ASSUME OfflineInv, NEW d \in Devices, Settle(d)
    PROVE  OfflineInv'
<1> DEFINE s == drain[d].answers
           t == Tail(s)
           a == Head(s)
<1>1. /\ Typed' /\ UNCHANGED vars /\ UNCHANGED todo
      /\ Elsewhere1(queue', queue, d) /\ Elsewhere1(dropped', dropped, d)
      /\ Elsewhere1(drain', drain, d)
      /\ drain[d].pc = "settling" /\ Len(s) > 0
      /\ drain'[d].pc = "settling" /\ drain'[d].answers = t
  BY SettleMoves DEF OfflineInv
<1>2. \/ queue' = queue /\ dropped' = dropped /\ a.outcome \in KeepForLater
      \/ Forgotten(d, a.id) /\ dropped' = dropped /\ a.outcome \in Landed
      \/ /\ Forgotten(d, a.id) /\ dropped'[d] = dropped[d] \cup {a.id}
         /\ a.outcome \notin Landed
  BY SettleMoves DEF OfflineInv
<1>3. Typed /\ Sound /\ Following(d) /\ Making(d) /\ Serving(d)
  BY DEF OfflineInv, Following, Typed
<1>4. UNCHANGED <<applied, work>> /\ Others(d)
  BY <1>1 DEF vars, Others
<1>5. /\ s \in Seq(Answers) /\ queue[d] \in Seq(Operations) /\ queue'[d] \in Seq(Operations)
  BY <1>1, <1>3, DeviceTypes, ADrain DEF Typed
<1>6. At(d, "idle") /\ work[d].pc = "idle" /\ work[d].batch = <<>> /\ work[d].answers = <<>>
  <2>1. At(d, "idle")
    BY <1>1, <1>3 DEF Serving
  <2> QED
    BY <2>1, IdleHasNothing
<1>7. /\ Apart(s) /\ \A k \in 1..Len(s) :
            /\ s[k].id \in Queued(d)
            /\ applied[s[k].id] = IF s[k].outcome \in Landed THEN Who(d) ELSE None
  BY <1>3 DEF Serving, Answered
<1>8. a = s[1] /\ 1 \in 1..Len(s) /\ Len(s) \in Nat
  BY <1>1, <1>5
<1>9. a.id \in Queued(d) /\ applied[a.id] = IF a.outcome \in Landed THEN Who(d) ELSE None
  BY <1>7, <1>8
<1>10. /\ Apart(t) /\ Len(t) = Len(s) - 1
       /\ \A k \in 1..Len(t) : t[k].id # a.id /\ t[k] = s[k + 1] /\ k + 1 \in 1..Len(s)
  <2>1. Apart(t) /\ \A k \in 1..Len(t) : t[k].id # a.id
    BY <1>1, <1>5, <1>7, ApartTail
  <2>2. Len(t) = Len(s) - 1 /\ \A k \in 1..Len(t) : t[k] = s[k + 1]
    BY <1>1, <1>5, HeadAndTail
  <2>3. \A k \in 1..Len(t) : k + 1 \in 1..Len(s)
    BY <1>8, <2>2
  <2> QED
    BY <2>1, <2>2, <2>3
<1>11. Apart(queue[d])
  BY <1>3 DEF Making
<1>12. /\ Apart(queue'[d]) /\ Queued(d)' \in {Queued(d), Queued(d) \ {a.id}}
       /\ \/ dropped' = dropped
          \/ /\ Queued(d)' = Queued(d) \ {a.id} /\ dropped'[d] = dropped[d] \cup {a.id}
             /\ a.outcome \notin Landed
  <2>1. CASE queue' = queue /\ dropped' = dropped
    BY <1>11, <2>1 DEF Queued
  <2>2. CASE Forgotten(d, a.id)
    BY <1>2, <1>5, <1>11, <2>2, ForgottenIs
  <2> QED
    BY <1>2, <2>1, <2>2
<1> HIDE DEF s, t, a
<1>13. ASSUME NEW k \in 1..Len(t)
       PROVE  /\ t[k].id \in Queued(d)'
              /\ applied[t[k].id] = IF t[k].outcome \in Landed THEN Who(d) ELSE None
  <2>1. k + 1 \in 1..Len(s) /\ t[k] = s[k + 1] /\ t[k].id # a.id
    BY <1>10
  <2>2. t[k].id \in Queued(d)
        /\ applied[t[k].id] = IF t[k].outcome \in Landed THEN Who(d) ELSE None
    BY <1>7, <2>1
  <2> QED
    BY <1>12, <2>1, <2>2
<1>14. Answered(d, drain[d].answers)'
  BY <1>1, <1>4, <1>10, <1>13 DEF Answered, Apart, Who
<1>15. Serving(d)'
  <2>1. \A k \in 1..Len(<<>>) : FALSE
    OBVIOUS
  <2>2. Answered(d, work[d].answers)'
    BY <1>4, <1>6, <2>1 DEF Answered, Apart
  <2> QED
    BY <1>1, <1>4, <1>6, <1>14, <2>1, <2>2 DEF Serving, At, Apart
<1>16. Making(d)'
  <2>1. Queued(d)' \subseteq Queued(d)
    BY <1>12
  <2>2. /\ dropped'[d] \subseteq Own(d) \ Queued(d)'
        /\ \A id \in dropped'[d] : applied[id] = None
    <3>1. dropped[d] \subseteq Own(d) \ Queued(d) /\ a.id \in Own(d)
      BY <1>3, <1>9 DEF Making
    <3>2. \A id \in dropped[d] : applied[id] = None
      BY <1>3 DEF Making
    <3>3. CASE dropped' = dropped
      BY <2>1, <3>1, <3>2, <3>3
    <3>4. CASE /\ Queued(d)' = Queued(d) \ {a.id} /\ dropped'[d] = dropped[d] \cup {a.id}
               /\ a.outcome \notin Landed
      BY <1>9, <3>1, <3>2, <3>4
    <3> QED
      BY <1>12, <3>3, <3>4
  <2>3. dropped'[d] \subseteq dropped[d] \cup {a.id}
    BY <1>12
  <2>4. ASSUME NEW k \in 1..Len(todo[d])
        PROVE  /\ todo[d][k].id \in Own(d) \ Queued(d)'
               /\ todo[d][k].id \notin dropped'[d] /\ applied[todo[d][k].id] = None
    <3>1. /\ todo[d][k].id \in Own(d) \ Queued(d)
          /\ todo[d][k].id \notin dropped[d] /\ applied[todo[d][k].id] = None
      BY <1>3 DEF Making
    <3> QED
      BY <1>9, <2>1, <2>3, <3>1
  <2>5. Apart(todo[d]) /\ Queued(d)' \subseteq Own(d)
        /\ \A id \in Own(d) : applied[id] \in {None, Who(d)}
    BY <1>3, <2>1 DEF Making
  <2> QED
    BY <1>1, <1>4, <1>12, <2>2, <2>4, <2>5 DEF Making, Own, Apart, Who
<1>17. Following(d)'
  BY <1>1, <1>15, <1>16 DEF Following, Story
<1> QED
  BY <1>1, <1>4, <1>17, OneFollows DEF OfflineInv, Elsewhere1

LEMMA ElsewhereFollows ==
    ASSUME OfflineInv, (Live \/ Tick) \/ UNCHANGED vars, UNCHANGED device
    PROVE  OfflineInv'
<1>1. Typed /\ Sound
  BY DEF OfflineInv, Typed
<1>2. UNCHANGED <<applied, work>> /\ Sound'
  <2>1. CASE Live
    <3>1. LiveStep
      BY <1>1, <2>1, LiveSteps
    <3>2. Move
      BY <3>1 DEF Move
    <3> QED
      BY <1>1, <3>1, <3>2, MoveSound DEF LiveStep
  <2>2. CASE Tick
    <3>1. Move
      BY <2>2 DEF Move
    <3> QED
      BY <1>1, <2>2, <3>1, MoveSound DEF Tick
  <2>3. CASE UNCHANGED vars
    BY <1>1, <2>3, ServerAtRest DEF vars
  <2> QED
    BY <2>1, <2>2, <2>3
<1>3. Typed' /\ UNCHANGED <<todo, queue, drain, dropped>>
  BY <1>1, <1>2, DeviceAlone DEF device
<1>4. \A e \in Devices : Following(e)'
  BY <1>1, <1>2, <1>3, Untouched DEF OfflineInv
<1> QED
  BY <1>3, <1>4 DEF OfflineInv

LEMMA OfflineStepFollows ==
    ASSUME EachChangeOnce, OfflineInv, [OfflineNext]_allVars
    PROVE  OfflineInv'
<1>1. CASE UNCHANGED allVars
  BY <1>1, ElsewhereFollows DEF allVars
<1>2. CASE Elsewhere
  BY <1>2, ElsewhereFollows DEF Elsewhere
<1>3. CASE Steady
  BY <1>3, ChangeFollows, SendFollows, ServeFollows, ReceiveFollows, SettleFollows,
     KillOrReportFollows DEF Steady, Serve
<1>4. CASE Failure
  BY <1>4, LoseConnectionFollows, ServeFollows, KillOrReportFollows DEF Failure, Fail
<1> QED
  BY <1>1, <1>2, <1>3, <1>4 DEF OfflineNext

LEMMA TypedAtTheStart ==
    ASSUME OfflineInit
    PROVE  DeviceTyped
<1>1. todo \in [Devices -> Seq(Operations)]
  <2>1. \A d \in Devices : todo[d] \in Seq(Operations)
    BY OfflineSyncAssumption DEF OfflineSyncAssumption, OfflineInit, DeviceInit
  <2>2. todo \in [Devices -> UNION {Scripts[d] : d \in Devices}]
    BY DEF OfflineInit, DeviceInit
  <2> QED
    BY <2>1, <2>2
<1>2. queue \in [Devices -> Seq(Operations)]
  <2>1. <<>> \in Seq(Operations)
    OBVIOUS
  <2> QED
    BY <2>1 DEF OfflineInit, DeviceInit
<1>3. drain \in [Devices -> Drains]
  BY RestingIs DEF OfflineInit, DeviceInit
<1> QED
  BY <1>1, <1>2, <1>3, DeviceTypes DEF OfflineInit, DeviceInit

LEMMA OfflineStart ==
    ASSUME EachChangeOnce, OfflineInit
    PROVE  OfflineInv
<1>1. Sound /\ work = [d \in Devices |-> Idle] /\ applied = [id \in Ids |-> None]
  BY InitSound DEF OfflineInit, Init
<1>2. DeviceTyped
  BY TypedAtTheStart
<1>3. ASSUME NEW d \in Devices PROVE Following(d)
  <2>1. /\ todo[d] \in Scripts[d] /\ todo[d] \in Seq(Operations)
        /\ queue[d] = <<>> /\ drain[d] = AtRest /\ dropped[d] = {}
    BY <1>2, DeviceTypes DEF OfflineInit, DeviceInit
  <2>2. /\ work[d].pc = "idle" /\ work[d].batch = <<>> /\ work[d].answers = <<>>
    BY <1>1, IdleIsAHandler
  <2>3. Queued(d) = {} /\ \A k \in 1..Len(<<>>) : FALSE
    BY <2>1 DEF Queued
  <2>4. \A k \in 1..Len(todo[d]) : todo[d][k].id \in Own(d)
    <3>1. \A k \in 1..Len(todo[d]) : todo[d][k].id \in Ids
      BY <2>1, AnOperation
    <3> QED
      BY <2>1, <3>1 DEF Own
  <2>5. Apart(todo[d])
    BY <2>1 DEF EachChangeOnce, Apart
  <2>6. \A id \in Own(d) : applied[id] = None
    BY <1>1 DEF Own
  <2>7. Making(d)
    BY <2>1, <2>3, <2>4, <2>5, <2>6 DEF Making, Apart
  <2>8. drain[d].pc = "rest" /\ drain[d].answers = <<>>
    BY <2>1, RestingIs
  <2>9. Answered(d, work[d].answers) /\ Answered(d, drain[d].answers)
    BY <2>2, <2>3, <2>8 DEF Answered, Apart
  <2>10. Serving(d)
    BY <2>2, <2>3, <2>8, <2>9 DEF Serving, At, Apart
  <2> QED
    BY <2>7, <2>8, <2>10 DEF Following, Story
<1> QED
  BY <1>1, <1>2, <1>3 DEF OfflineInv, Typed

LEMMA AlwaysFollowing ==
    ASSUME EachChangeOnce
    PROVE  OfflineSpec => []OfflineInv
<1>1. OfflineInit => OfflineInv
  BY OfflineStart
<1>2. OfflineInv /\ [OfflineNext]_allVars => OfflineInv'
  BY OfflineStepFollows
<1> QED
  BY <1>1, <1>2, PTL DEF OfflineSpec

----------------------------------------------------------------------------
(* The theorems.                                                           *)

(* Inductive: only what was given up is told, and what a drain is about to *)
(* tell was given up.                                                      *)
ToldRightly ==
    \A d \in Devices :
        /\ told[d] \subseteq dropped[d]
        /\ \A k \in 1..Len(drain[d].lost) : drain[d].lost[k] \in dropped[d]

LEMMA NothingMoreIsTold ==
    ASSUME ToldRightly, UNCHANGED <<dropped, told>>,
           \A d \in Devices : drain'[d].lost \in {<<>>, drain[d].lost}
    PROVE  ToldRightly'
<1>1. Len(<<>>) = 0
  OBVIOUS
<1> QED
  BY <1>1 DEF ToldRightly

LEMMA SettleTellsRightly ==
    ASSUME Typed, ToldRightly, NEW d \in Devices, Settle(d)
    PROVE  ToldRightly'
<1> DEFINE a == Head(drain[d].answers)
           lost == drain[d].lost
<1>1. drain \in [Devices -> Drains] /\ dropped \in [Devices -> SUBSET Ids] /\ lost \in Seq(Ids)
  BY DeviceTypes, ADrain DEF Typed
<1>2. UNCHANGED told /\ \A e \in Devices \ {d} : drain'[e] = drain[e] /\ dropped'[e] = dropped[e]
  BY SettleMoves DEF Elsewhere1
<1>3. \/ drain'[d].lost = lost /\ dropped'[d] = dropped[d]
      \/ drain'[d].lost = Append(lost, a.id) /\ dropped'[d] = dropped[d] \cup {a.id}
  <2> DEFINE out == a.outcome \notin Landed \cup KeepForLater
             r == [drain[d] EXCEPT !.answers = Tail(drain[d].answers),
                                   !.lost = IF out THEN Append(lost, a.id) ELSE lost]
  <2>1. drain' = [drain EXCEPT ![d] = r]
    BY DEF Settle
  <2>2. dropped' = [dropped EXCEPT ![d] = IF out THEN dropped[d] \cup {a.id} ELSE dropped[d]]
    BY DEF Settle
  <2>3. drain[d] \in Drains
    BY <1>1
  <2>4. r.lost = IF out THEN Append(lost, a.id) ELSE lost
    BY <2>3 DEF Drains
  <2> HIDE DEF out, r
  <2>5. drain'[d] = r /\ dropped'[d] = IF out THEN dropped[d] \cup {a.id} ELSE dropped[d]
    BY <1>1, <2>1, <2>2
  <2> QED
    BY <2>4, <2>5
<1>4. \A k \in 1..Len(lost) : lost[k] \in dropped[d]
  BY DEF ToldRightly
<1> HIDE DEF lost, a
<1>5. \A k \in 1..Len(drain'[d].lost) : drain'[d].lost[k] \in dropped'[d]
  <2>1. CASE drain'[d].lost = lost /\ dropped'[d] = dropped[d]
    BY <1>4, <2>1
  <2>2. CASE drain'[d].lost = Append(lost, a.id) /\ dropped'[d] = dropped[d] \cup {a.id}
    <3>1. \A k \in 1..Len(Append(lost, a.id)) :
              \/ k \in 1..Len(lost) /\ Append(lost, a.id)[k] = lost[k]
              \/ Append(lost, a.id)[k] = a.id
      BY <1>1
    <3> QED
      BY <1>4, <2>2, <3>1
  <2> QED
    BY <1>3, <2>1, <2>2
<1>6. dropped[d] \subseteq dropped'[d]
  BY <1>3
<1> QED
  BY <1>2, <1>5, <1>6 DEF ToldRightly

LEMMA ReportTellsRightly ==
    ASSUME Typed, ToldRightly, NEW d \in Devices, Report(d)
    PROVE  ToldRightly'
<1>1. /\ drain \in [Devices -> Drains] /\ told \in [Devices -> SUBSET Ids]
      /\ drain[d].lost \in Seq(Ids)
  BY DeviceTypes, ADrain DEF Typed
<1>2. drain' = [drain EXCEPT ![d] = AtRest] /\ UNCHANGED dropped
  BY DEF Report
<1>3. /\ drain'[d].lost = <<>> /\ \A e \in Devices \ {d} : drain'[e] = drain[e]
  BY <1>1, <1>2 DEF AtRest
<1>4. told'[d] \subseteq dropped[d] /\ \A e \in Devices \ {d} : told'[e] = told[e]
  <2>1. CASE drain[d].lost # <<>>
    <3>1. Head(drain[d].lost) \in dropped[d]
      BY <1>1, <2>1 DEF ToldRightly
    <3>2. told[d] \subseteq dropped[d]
      BY DEF ToldRightly
    <3>3. /\ told'[d] \in {told[d], told[d] \cup {Head(drain[d].lost)}}
          /\ \A e \in Devices \ {d} : told'[e] = told[e]
      BY <1>1 DEF Report
    <3> QED
      BY <3>1, <3>2, <3>3
  <2>2. CASE drain[d].lost = <<>>
    BY <1>1, <2>2 DEF Report, ToldRightly
  <2> QED
    BY <2>1, <2>2
<1>5. Len(<<>>) = 0
  OBVIOUS
<1> QED
  BY <1>2, <1>3, <1>4, <1>5 DEF ToldRightly

LEMMA StepTellsRightly ==
    ASSUME Typed, ToldRightly, [OfflineNext]_allVars
    PROVE  ToldRightly'
<1>1. drain \in [Devices -> Drains]
  BY DeviceTypes DEF Typed
<1>2. ASSUME NEW d \in Devices, Change(d) \/ Serve(d) \/ Fail(d)
      PROVE  ToldRightly'
  BY <1>2 DEF Change, Serve, Fail, device, ToldRightly
<1>3. ASSUME NEW d \in Devices, LoseConnection(d) \/ Kill(d)
      PROVE  ToldRightly'
  <2>1. drain' = [drain EXCEPT ![d] = AtRest] /\ UNCHANGED <<dropped, told>>
    BY <1>3 DEF LoseConnection, Kill
  <2>2. AtRest.lost = <<>>
    BY DEF AtRest
  <2> QED
    BY <1>1, <2>1, <2>2, NothingMoreIsTold
<1>4. ASSUME NEW d \in Devices, NEW caller \in Callers, Send(d, caller)
      PROVE  ToldRightly'
  <2> DEFINE r == [AtRest EXCEPT !.pc = "waiting", !.caller = caller, !.sent = IdsOf(queue[d])]
  <2>1. drain' = [drain EXCEPT ![d] = r] /\ UNCHANGED <<dropped, told>>
    BY <1>4 DEF Send
  <2>2. r.lost = <<>>
    BY DEF AtRest
  <2> HIDE DEF r
  <2> QED
    BY <1>1, <2>1, <2>2, NothingMoreIsTold
<1>5. ASSUME NEW d \in Devices, Receive(d)
      PROVE  ToldRightly'
  <2> DEFINE r == [drain[d] EXCEPT !.pc = "settling", !.answers = work[d].answers]
  <2>1. drain' = [drain EXCEPT ![d] = r] /\ UNCHANGED <<dropped, told>>
    BY <1>5 DEF Receive
  <2>2. r.lost = drain[d].lost
    BY <1>1 DEF Drains
  <2> HIDE DEF r
  <2> QED
    BY <1>1, <2>1, <2>2, NothingMoreIsTold
<1>6. CASE Elsewhere \/ UNCHANGED allVars
  BY <1>6 DEF Elsewhere, allVars, device, ToldRightly
<1>7. CASE Steady
  BY <1>2, <1>4, <1>5, <1>7, SettleTellsRightly, ReportTellsRightly DEF Steady
<1>8. CASE Failure
  BY <1>2, <1>3, <1>8 DEF Failure
<1> QED
  BY <1>6, <1>7, <1>8 DEF OfflineNext

(* Whatever is made, sent, answered, lost, settled or told, and whatever   *)
(* happens on the server meanwhile: the outboxes hold operations, each     *)
(* once, what a device gave up is in its outbox no more, and nothing else  *)
(* is told as lost.                                                        *)
THEOREM DevicesAreTyped ==
    ASSUME EachChangeOnce
    PROVE  OfflineSpec => []DeviceTypeOK
<1>1. OfflineInit => ToldRightly
  <2> SUFFICES ASSUME OfflineInit PROVE ToldRightly
    OBVIOUS
  <2>1. \A d \in Devices : told[d] = {} /\ drain[d].lost = <<>>
    BY DEF OfflineInit, DeviceInit, AtRest
  <2>2. Len(<<>>) = 0
    OBVIOUS
  <2> QED
    BY <2>1, <2>2 DEF ToldRightly
<1>2. OfflineInv /\ ToldRightly /\ [OfflineNext]_allVars => ToldRightly'
  BY StepTellsRightly DEF OfflineInv
<1>3. OfflineInv /\ ToldRightly => DeviceTypeOK
  <2> SUFFICES ASSUME OfflineInv, ToldRightly, NEW d \in Devices
               PROVE  /\ \A j, k \in DOMAIN queue[d] : queue[d][j].id = queue[d][k].id => j = k
                      /\ dropped[d] \cap Queued(d) = {}
                      /\ told[d] \subseteq dropped[d]
    BY DEF DeviceTypeOK, OfflineInv, Typed
  <2>1. Making(d) /\ queue[d] \in Seq(Operations)
    BY DeviceTypes DEF OfflineInv, Following, Typed
  <2>2. DOMAIN queue[d] = 1..Len(queue[d])
    BY <2>1
  <2> QED
    BY <2>1, <2>2 DEF Making, Apart, ToldRightly
<1> QED
  BY <1>1, <1>2, <1>3, AlwaysFollowing, PTL DEF OfflineSpec

LEMMA SameSequence ==
    ASSUME NEW S, NEW s \in Seq(S), NEW t \in Seq(S), Len(s) = Len(t),
           \A k \in 1..Len(s) : s[k] = t[k]
    PROVE  s = t
OBVIOUS

LEMMA StoryHolds ==
    ASSUME OfflineInv
    PROVE  StoryInOrder
<1> SUFFICES ASSUME NEW d \in Devices, drain[d].pc = "waiting"
             PROVE  IdsOf(work[d].answers) \o IdsOf(work[d].batch) =
                    SubSeq(drain[d].sent, 1, Len(IdsOf(work[d].answers) \o IdsOf(work[d].batch)))
  BY DEF StoryInOrder
<1> DEFINE a == IdsOf(work[d].answers)
           b == IdsOf(work[d].batch)
           sent == drain[d].sent
           story == a \o b
<1>1. Typed /\ Sound /\ Story(d)
  BY DEF OfflineInv, Typed, Following
<1>2. /\ work[d].batch \in Seq(Operations) /\ work[d].answers \in Seq(Answers)
      /\ sent \in Seq(Ids)
  BY <1>1, SoundParts, DeviceTypes, ADrain DEF Typed, WorkOK, Handlers
<1>3. /\ a \in Seq(Ids) /\ Len(a) = Len(work[d].answers)
      /\ \A k \in 1..Len(a) : a[k] = work[d].answers[k].id
  BY <1>2, ResultsAre
<1>4. /\ b \in Seq(Ids) /\ Len(b) = Len(work[d].batch)
      /\ \A k \in 1..Len(b) : b[k] = work[d].batch[k].id
  BY <1>2, IdsAre
<1>5. /\ Len(a) + Len(b) <= Len(sent)
      /\ \A k \in 1..Len(a) : a[k] = sent[k]
      /\ \A k \in 1..Len(b) : b[k] = sent[Len(a) + k]
  BY <1>1, <1>3, <1>4 DEF Story
<1> SUFFICES story = SubSeq(sent, 1, Len(story))
  OBVIOUS
<1> HIDE DEF a, b, sent
<1>6. /\ story \in Seq(Ids) /\ Len(story) = Len(a) + Len(b)
      /\ \A k \in 1..Len(story) :
            \/ k \in 1..Len(a) /\ story[k] = a[k]
            \/ k - Len(a) \in 1..Len(b) /\ story[k] = b[k - Len(a)]
  <2>1. a \in Seq(Ids) /\ b \in Seq(Ids)
    BY <1>3, <1>4
  <2> QED
    BY <2>1, Joined
<1>7. Len(a) \in Nat /\ Len(b) \in Nat /\ Len(sent) \in Nat
  BY <1>2, <1>3, <1>4
<1> HIDE DEF story
<1>8. \A k \in 1..Len(story) : story[k] = sent[k]
  <2>1. ASSUME NEW k \in 1..Len(story), k - Len(a) \in 1..Len(b), story[k] = b[k - Len(a)]
        PROVE  story[k] = sent[k]
    <3>1. Len(a) + (k - Len(a)) = k
      BY <1>6, <1>7
    <3> QED
      BY <1>5, <2>1, <3>1
  <2> QED
    BY <1>5, <1>6, <2>1
<1>9. Len(story) \in Nat /\ Len(story) <= Len(sent)
  BY <1>5, <1>6, <1>7
<1> DEFINE n == Len(story)
           sub == SubSeq(sent, 1, n)
<1>10. n \in Nat /\ n <= Len(sent) /\ n = Len(story)
  BY <1>9
<1> HIDE DEF n
<1>11. sub \in Seq(Ids) /\ Len(sub) = n /\ \A k \in 1..n : sub[k] = sent[k]
  BY <1>2, <1>10
<1> SUFFICES story = sub
  BY <1>10
<1> HIDE DEF sub
<1>12. Len(story) = Len(sub) /\ \A k \in 1..Len(story) : story[k] = sub[k]
  BY <1>8, <1>10, <1>11
<1> QED
  BY <1>6, <1>11, <1>12, SameSequence

(* A batch is one device's story in order and never skipping (sync.rs,     *)
(* replay): at every moment of a drain, what is answered and what is still *)
(* to come are together the start of what the device sent.                 *)
THEOREM AnswersTellTheStory ==
    ASSUME EachChangeOnce
    PROVE  OfflineSpec => []StoryInOrder
<1>1. OfflineInv => StoryInOrder
  BY StoryHolds
<1> QED
  BY <1>1, AlwaysFollowing, PTL

LEMMA SettledWritesNothingHere ==
    ASSUME OfflineInv, NEW d \in Devices, NEW e \in Devices, Settled(d),
           work[d] # work'[d], Handle(e) \/ Trouble(e)
    PROVE  UNCHANGED tables
<1>1. Sound /\ Serving(d)
  BY DEF OfflineInv, Typed, Following
<1>2. Others(e) /\ ~At(e, "idle") /\ ~At(e, "reply")
  <2>1. HandlerStep(e)
    BY <1>1, HandleStep
  <2> QED
    BY <1>1, <2>1, SoundParts, WaysMove DEF HandlerStep, Ways
<1>3. e = d
  BY <1>2 DEF Others
<1>4. applied[Op(d).id] # None
  BY SyncServerAssumption DEF SyncServerAssumption, Settled, Who
<1>5. At(d, "recall")
  BY <1>1, <1>2, <1>3, <1>4 DEF Serving
<1> QED
  BY <1>3, <1>5, RecallOrStop

(* Sending again what was applied changes nothing, now that what is sent   *)
(* is what a device's outbox holds: a handler whose operation the server   *)
(* remembers from this person writes to no table, however often and after  *)
(* whatever losses and kills the outbox was sent                           *)
(* (20260826210000_applied_operations.up.sql).                             *)
THEOREM AnOutboxSentAgain ==
    ASSUME EachChangeOnce
    PROVE  OfflineSpec => SettledStaysSettled
<1>1. OfflineInv /\ [OfflineNext]_allVars =>
          [\A d \in Devices : Settled(d) /\ work[d] # work'[d] => UNCHANGED tables]_vars
  <2> SUFFICES ASSUME OfflineInv, OfflineNext, NEW d \in Devices,
                      Settled(d), work[d] # work'[d]
               PROVE  UNCHANGED tables
    BY DEF allVars
  <2>1. CASE Elsewhere
    <3>1. Sound
      BY DEF OfflineInv, Typed
    <3>2. CASE Live
      BY <3>1, <3>2, LiveSteps DEF LiveStep
    <3>3. CASE Tick
      BY <3>3 DEF Tick
    <3> QED
      BY <2>1, <3>2, <3>3 DEF Elsewhere
  <2>2. CASE \E e \in Devices : Serve(e) \/ Fail(e)
    BY <2>2, SettledWritesNothingHere DEF Serve, Fail
  <2>3. CASE \E e \in Devices : Change(e) \/ Settle(e) \/ Report(e) \/ Kill(e)
    BY <2>3 DEF Change, Settle, Report, Kill, vars, tables
  <2>4. CASE \E e \in Devices : Receive(e) \/ LoseConnection(e) \/ \E c \in Callers : Send(e, c)
    BY <2>4, ReceiveMoves, LoseConnectionMoves, SendMoves DEF OfflineInv
  <2> QED
    BY <2>1, <2>2, <2>3, <2>4 DEF OfflineNext, Steady, Failure
<1> QED
  BY <1>1, AlwaysFollowing, PTL DEF OfflineSpec, SettledStaysSettled

----------------------------------------------------------------------------
(* The refinement of ChangeFate.                                           *)

fates == [id \in Ids |-> Fate(id)]

Somewhere(id) == \E d \in Devices : id \in Queued(d)
Out(id) == \E d \in Devices : id \in dropped[d]

LEMMA FateIs ==
    ASSUME NEW id \in Ids
    PROVE  /\ applied[id] # None /\ ~Out(id) => Fate(id) = "landed"
           /\ applied[id] = None /\ Out(id) => Fate(id) = "dropped"
           /\ applied[id] = None /\ ~Out(id) /\ Somewhere(id) => Fate(id) = "waiting"
           /\ applied[id] = None /\ ~Out(id) /\ ~Somewhere(id) => Fate(id) = "unmade"
BY DEF Fate, Out, Somewhere

LEMMA FateWillBe ==
    ASSUME NEW id \in Ids
    PROVE  /\ applied'[id] # None /\ ~Out(id)' => Fate(id)' = "landed"
           /\ applied'[id] = None /\ Out(id)' => Fate(id)' = "dropped"
           /\ applied'[id] = None /\ ~Out(id)' /\ Somewhere(id)' => Fate(id)' = "waiting"
           /\ applied'[id] = None /\ ~Out(id)' /\ ~Somewhere(id)' => Fate(id)' = "unmade"
BY DEF Fate, Out, Somewhere

LEMMA FateSame ==
    ASSUME NEW id \in Ids, applied'[id] = applied[id],
           Out(id)' <=> Out(id), Somewhere(id)' <=> Somewhere(id)
    PROVE  Fate(id)' = Fate(id)
BY DEF Fate, Out, Somewhere

LEMMA Becomes ==
    ASSUME NEW c \in Ids, NEW from, NEW to, Fate(c) = from, Fate(c)' = to,
           \A id \in Ids \ {c} : Fate(id)' = Fate(id)
    PROVE  Promise!Become(c, from, to)
<1>1. fates[c] = from
  BY DEF fates
<1>2. fates' = [fates EXCEPT ![c] = to]
  <2>1. fates' = [id \in Ids |-> Fate(id)']
    BY DEF fates
  <2>2. [fates EXCEPT ![c] = to] = [id \in Ids |-> IF id = c THEN to ELSE Fate(id)]
    BY DEF fates
  <2> QED
    BY <2>1, <2>2
<1> QED
  BY <1>1, <1>2 DEF Promise!Become, fates

(* What a device may queue, drop or have applied is its own and no other's.*)
LEMMA OnlyHere ==
    ASSUME EachChangeOnce, OfflineInv, NEW d \in Devices, NEW id \in Own(d)
    PROVE  /\ id \in Ids
           /\ Somewhere(id) <=> id \in Queued(d)
           /\ Out(id) <=> id \in dropped[d]
<1>1. \A e \in Devices : Queued(e) \subseteq Own(e) /\ dropped[e] \subseteq Own(e)
  BY DEF OfflineInv, Following, Making
<1>2. \A e \in Devices : id \in Own(e) => e = d
  BY DEF EachChangeOnce
<1>3. id \in Ids
  BY DEF Own
<1> QED
  BY <1>1, <1>2, <1>3 DEF Somewhere, Out

LEMMA OnlyHereAfter ==
    ASSUME EachChangeOnce, OfflineInv', NEW d \in Devices, NEW id \in Own(d)
    PROVE  /\ Somewhere(id)' <=> id \in Queued(d)'
           /\ Out(id)' <=> id \in dropped'[d]
<1>1. \A e \in Devices : Queued(e)' \subseteq Own(e) /\ dropped'[e] \subseteq Own(e)
  BY DEF OfflineInv, Following, Making, Own
<1>2. \A e \in Devices : id \in Own(e) => e = d
  BY DEF EachChangeOnce
<1> QED
  BY <1>1, <1>2 DEF Somewhere, Out

(* Steps that leave the outboxes, what is dropped and what is applied.     *)
LEMMA NothingBecomes ==
    ASSUME UNCHANGED <<queue, dropped, applied>>
    PROVE  fates' = fates
<1>1. \A id \in Ids : Fate(id)' = Fate(id)
  BY DEF Fate, Queued
<1> QED
  BY <1>1 DEF fates

(* Nothing else's fate changes when one device moves only one id.          *)
LEMMA OthersAsBefore ==
    ASSUME NEW d \in Devices, NEW c \in Ids,
           Elsewhere1(queue', queue, d), Elsewhere1(dropped', dropped, d),
           \A id \in Ids \ {c} :
              /\ applied'[id] = applied[id]
              /\ id \in Queued(d)' <=> id \in Queued(d)
              /\ id \in dropped'[d] <=> id \in dropped[d]
    PROVE  \A id \in Ids \ {c} : Fate(id)' = Fate(id)
<1>1. \A e \in Devices \ {d} : Queued(e)' = Queued(e) /\ dropped'[e] = dropped[e]
  BY DEF Elsewhere1, Queued
<1>2. ASSUME NEW id \in Ids \ {c}
      PROVE  (Somewhere(id)' <=> Somewhere(id)) /\ (Out(id)' <=> Out(id))
  <2>1. \A e \in Devices : (id \in Queued(e)' <=> id \in Queued(e))
                           /\ (id \in dropped'[e] <=> id \in dropped[e])
    BY <1>1
  <2> QED
    BY <2>1 DEF Somewhere, Out
<1> QED
  BY <1>2, FateSame

LEMMA ChangeMakes ==
    ASSUME EachChangeOnce, OfflineInv, NEW d \in Devices, Change(d)
    PROVE  Promise!Next
<1>1. OfflineInv'
  BY ChangeFollows
<1>2. /\ UNCHANGED <<vars, drain, dropped, told>>
      /\ Len(todo[d]) > 0 /\ Head(todo[d]) \in Operations
      /\ queue'[d] = Append(queue[d], Head(todo[d])) /\ Elsewhere1(queue', queue, d)
  BY ChangeMoves DEF OfflineInv
<1>3. /\ todo[d] \in Seq(Operations) /\ queue[d] \in Seq(Operations)
      /\ queue'[d] \in Seq(Operations)
  BY <1>1, DeviceTypes DEF OfflineInv, Typed
<1>4. Head(todo[d]) = todo[d][1] /\ 1 \in 1..Len(todo[d])
  BY <1>2, <1>3
<1> PICK c \in Ids : c = Head(todo[d]).id
  BY <1>2, AnOperation
<1>5. /\ c \in Own(d) \ Queued(d) /\ c \notin dropped[d] /\ applied[c] = None
  BY <1>4 DEF OfflineInv, Following, Making
<1>6. applied' = applied /\ dropped' = dropped
  BY <1>2 DEF vars
<1>7. Queued(d)' = Queued(d) \cup {c}
  BY <1>2, <1>3, QueuedGrows
<1>8. c \in Ids /\ Fate(c) = "unmade" /\ Fate(c)' = "waiting"
  <2>1. c \in Ids /\ ~Somewhere(c) /\ ~Out(c)
    BY <1>5, OnlyHere
  <2>2. Somewhere(c)' /\ ~Out(c)'
    BY <1>1, <1>5, <1>6, <1>7, OnlyHereAfter
  <2> QED
    BY <1>5, <1>6, <2>1, <2>2, FateIs, FateWillBe
<1>9. \A id \in Ids \ {c} : Fate(id)' = Fate(id)
  <2>1. Elsewhere1(dropped', dropped, d)
    BY <1>6 DEF Elsewhere1
  <2> QED
    BY <1>2, <1>6, <1>7, <1>8, <2>1, OthersAsBefore
<1>10. Promise!Become(c, "unmade", "waiting")
  BY <1>8, <1>9, Becomes
<1> QED
  BY <1>8, <1>10 DEF Promise!Next, Promise!Make

LEMMA ServeLands ==
    ASSUME EachChangeOnce, OfflineInv, NEW d \in Devices,
           Handle(d) \/ Trouble(d), UNCHANGED device
    PROVE  Promise!Next \/ fates' = fates
<1> PICK c \in Ids : c = Op(d).id
  BY ServeMoves
<1>1. /\ UNCHANGED <<queue, dropped>> /\ c \in Queued(d) /\ c \in Ids
      /\ GoesOn(d) \/ StopsHere(d) \/ Answers1(d)
  BY ServeMoves
<1>2. CASE applied' = applied
  BY <1>1, <1>2, NothingBecomes
<1>3. CASE applied[c] = None /\ applied' = [applied EXCEPT ![c] = Who(d)]
  <2>1. applied \in [Ids -> People \cup {None}]
    BY SoundParts DEF OfflineInv, Typed, RestOK
  <2>2. c \in Own(d) /\ c \notin dropped[d]
    BY <1>1 DEF OfflineInv, Following, Making
  <2>3. Who(d) # None
    BY SyncServerAssumption DEF SyncServerAssumption, Who
  <2>4. applied'[c] # None /\ \A id \in Ids \ {c} : applied'[id] = applied[id]
    BY <1>1, <1>3, <2>1, <2>3
  <2>5. Somewhere(c) /\ ~Out(c)
    BY <1>1, <2>2, OnlyHere
  <2>6. ~Out(c)'
    BY <1>1, <2>5 DEF Out
  <2>7. Fate(c) = "waiting" /\ Fate(c)' = "landed"
    BY <1>1, <1>3, <2>4, <2>5, <2>6, FateIs, FateWillBe
  <2>8. \A id \in Ids \ {c} : Fate(id)' = Fate(id)
    <3>1. \A id \in Ids : (Out(id)' <=> Out(id)) /\ (Somewhere(id)' <=> Somewhere(id))
      BY <1>1 DEF Out, Somewhere, Queued
    <3> QED
      BY <2>4, <3>1, FateSame
  <2>9. Promise!Become(c, "waiting", "landed")
    BY <1>1, <2>7, <2>8, Becomes
  <2> QED
    BY <1>1, <2>9 DEF Promise!Next, Promise!Land
<1> QED
  BY <1>1, <1>2, <1>3 DEF GoesOn, StopsHere, Answers1

LEMMA SettleDrops ==
    ASSUME EachChangeOnce, OfflineInv, NEW d \in Devices, Settle(d)
    PROVE  Promise!Next \/ fates' = fates
<1> DEFINE a == Head(drain[d].answers)
<1>1. OfflineInv'
  BY SettleFollows
<1> PICK c : c = a.id
  OBVIOUS
<1>2. /\ UNCHANGED vars /\ Len(drain[d].answers) > 0
      /\ Elsewhere1(queue', queue, d) /\ Elsewhere1(dropped', dropped, d)
      /\ \/ queue' = queue /\ dropped' = dropped
         \/ Forgotten(d, c) /\ dropped' = dropped /\ a.outcome \in Landed
         \/ /\ Forgotten(d, c) /\ dropped'[d] = dropped[d] \cup {c}
            /\ a.outcome \notin Landed
  BY SettleMoves DEF OfflineInv
<1>3. applied' = applied
  BY <1>2 DEF vars
<1>4. /\ queue[d] \in Seq(Operations) /\ queue'[d] \in Seq(Operations)
      /\ drain[d].answers \in Seq(Answers)
  BY <1>1, DeviceTypes, ADrain DEF OfflineInv, Typed
<1>5. a = drain[d].answers[1] /\ 1 \in 1..Len(drain[d].answers)
  BY <1>2, <1>4
<1>6. c \in Queued(d) /\ applied[c] = IF a.outcome \in Landed THEN Who(d) ELSE None
  BY <1>5 DEF OfflineInv, Following, Serving, Answered
<1>7. Apart(queue[d]) /\ c \in Own(d) /\ c \notin dropped[d]
  BY <1>6 DEF OfflineInv, Following, Making
<1>8. c \in Ids /\ Somewhere(c) /\ ~Out(c)
  BY <1>6, <1>7, OnlyHere
<1>9. Forgotten(d, c) => Queued(d)' = Queued(d) \ {c}
  BY <1>4, <1>7, ForgottenIs
<1>10. CASE queue' = queue /\ dropped' = dropped
  BY <1>3, <1>10, NothingBecomes
<1>11. CASE Forgotten(d, c) /\ dropped' = dropped /\ a.outcome \in Landed
  <2>1. applied[c] # None
    BY <1>6, <1>11, SyncServerAssumption DEF SyncServerAssumption, Who
  <2>2. ~Out(c)'
    BY <1>8, <1>11 DEF Out
  <2>3. Fate(c)' = Fate(c)
    BY <1>3, <1>8, <2>1, <2>2, FateIs, FateWillBe
  <2> HIDE DEF a
  <2>4. \A id \in Ids \ {c} : Fate(id)' = Fate(id)
    BY <1>2, <1>3, <1>8, <1>9, <1>11, OthersAsBefore
  <2> QED
    BY <1>8, <2>3, <2>4 DEF fates
<1>12. CASE /\ Forgotten(d, c) /\ dropped'[d] = dropped[d] \cup {c}
            /\ a.outcome \notin Landed
  <2>1. applied[c] = None /\ applied'[c] = None
    BY <1>3, <1>6, <1>12
  <2>2. Out(c)'
    BY <1>12 DEF Out
  <2>3. Fate(c) = "waiting" /\ Fate(c)' = "dropped"
    BY <1>8, <2>1, <2>2, FateIs, FateWillBe
  <2> HIDE DEF a
  <2>4. \A id \in Ids \ {c} : Fate(id)' = Fate(id)
    BY <1>2, <1>3, <1>8, <1>9, <1>12, OthersAsBefore
  <2>5. Promise!Become(c, "waiting", "dropped")
    BY <1>8, <2>3, <2>4, Becomes
  <2> QED
    BY <1>8, <2>5 DEF Promise!Next, Promise!Drop
<1> QED
  BY <1>2, <1>10, <1>11, <1>12

LEMMA EveryStepKeepsThePromise ==
    ASSUME EachChangeOnce, OfflineInv, [OfflineNext]_allVars
    PROVE  Promise!Next \/ fates' = fates
<1>1. CASE UNCHANGED allVars
  BY <1>1, NothingBecomes DEF allVars, vars, device
<1>2. CASE Elsewhere
  <2>1. Sound
    BY DEF OfflineInv, Typed
  <2>2. applied' = applied
    <3>1. CASE Live
      BY <2>1, <3>1, LiveSteps DEF LiveStep
    <3>2. CASE Tick
      BY <3>2 DEF Tick
    <3> QED
      BY <1>2, <3>1, <3>2 DEF Elsewhere
  <2> QED
    BY <1>2, <2>2, NothingBecomes DEF Elsewhere, device
<1>3. CASE \E d \in Devices : Serve(d) \/ Fail(d)
  BY <1>3, ServeLands DEF Serve, Fail
<1>4. CASE \E d \in Devices : Kill(d) \/ Report(d)
  BY <1>4, NothingBecomes DEF Kill, Report, vars
<1>5. CASE \E d \in Devices : Receive(d) \/ LoseConnection(d) \/ \E c \in Callers : Send(d, c)
  BY <1>5, ReceiveMoves, LoseConnectionMoves, SendMoves, NothingBecomes DEF OfflineInv
<1>6. CASE \E d \in Devices : Change(d)
  BY <1>6, ChangeMakes
<1>7. CASE \E d \in Devices : Settle(d)
  BY <1>7, SettleDrops
<1> QED
  BY <1>1, <1>2, <1>3, <1>4, <1>5, <1>6, <1>7 DEF OfflineNext, Steady, Failure

(* Devices, connections and server together keep the promise about every   *)
(* change that is made offline (docs/offline.md; Outbox.swift; sync.rs):   *)
(* it waits until the server remembers it as applied or the device has     *)
(* dropped it on a refusal, for good, and is never lost, dropped after it  *)
(* landed, or applied after it was dropped, whatever connections are lost  *)
(* and apps killed and however often the outbox is sent.                   *)
THEOREM ThePromiseIsKept ==
    ASSUME EachChangeOnce
    PROVE  OfflineSpec => KeepsThePromise
<1>1. OfflineInit => Promise!Init
  <2> SUFFICES ASSUME OfflineInit PROVE \A id \in Ids : Fate(id) = "unmade"
    BY DEF Promise!Init
  <2> SUFFICES ASSUME NEW id \in Ids PROVE Fate(id) = "unmade"
    OBVIOUS
  <2>1. applied[id] = None
    BY DEF OfflineInit, Init
  <2>2. \A d \in Devices : dropped[d] = {} /\ Queued(d) = {}
    <3>1. \A d \in Devices : dropped[d] = {} /\ queue[d] = <<>>
      BY DEF OfflineInit, DeviceInit
    <3> QED
      BY <3>1 DEF Queued
  <2>3. ~Out(id) /\ ~Somewhere(id)
    BY <2>2 DEF Out, Somewhere
  <2> QED
    BY <2>1, <2>3, FateIs
<1>2. OfflineInv /\ [OfflineNext]_allVars => [Promise!Next]_([id \in Ids |-> Fate(id)])
  BY EveryStepKeepsThePromise DEF fates
<1> QED
  BY <1>1, <1>2, AlwaysFollowing, PTL DEF OfflineSpec, KeepsThePromise, Promise!Spec

=============================================================================
