----------------------------- MODULE SyncServer -----------------------------
(***************************************************************************)
(* POST /api/sync: the server replaying what a device did while it could   *)
(* not be reached (web/domain/src/service/sync.rs), over the tables it     *)
(* writes and beside the requests other people make meanwhile.             *)
(*                                                                         *)
(* The handler is a sequence of SQL statements on a pool of connections    *)
(* with no transaction around them, and another request may get in         *)
(* between any two.  Each action below is one write, or a run of reads     *)
(* that decide together; a dropped connection or a restart (Cut) may end   *)
(* the handler between any two actions.                                    *)
(*                                                                         *)
(* Modelled: the memory of applied operations, the roles, the items with   *)
(* the row ids SQLite gives them, merging, splitting, ticking, clearing,   *)
(* filing, walking order, the clamp on a device's clock, database trouble. *)
(* Left out: the wording of names and their units (a name stands for all   *)
(* its spellings and always comes in the same unit), the list's memory of  *)
(* what was bought, announcements to watchers (they change no table).      *)
(***************************************************************************)
EXTENDS Integers, Sequences

CONSTANTS
    People,      \* who may sign in
    Devices,     \* what may replay: a phone, a tablet, a window on a Mac
    holder,      \* holder[d]: who is signed in on device d
    Online,      \* the people who also use the app with a connection
    Lists,       \* uuids of lists
    Uuids,       \* uuids of items
    Spare,       \* those of Uuids the server mints itself
    Ids,         \* uuids of queued operations
    Names,       \* what an item is called
    Amounts,     \* amounts a request may carry, sensible or not
    Tags,        \* tag ids a request may carry
    Aisles,      \* those of Tags that exist
    Walks,       \* tag orders a device may send: sequences over Tags
    Batches,     \* Batches[d]: the batches device d may send
    Slack,       \* CLOCK_SLACK_SECONDS
    MaxTime,     \* bound on the server's clock
    MaxRows,     \* bound on the row ids in use
    Flaky,       \* whether the database may fail a statement (busy, full)
    Owners,      \* Owners[l]: who owns l at the start, or None
    Members,     \* Members[l][p]: the role p starts with on l, or None
    None

RowIds == 1..MaxRows
Moments == 0..(MaxTime + Slack)

(* Operation: one queued change.  The kinds are those of What::kind, with  *)
(* an add of a typed line told apart from an add of a name, and the two    *)
(* directions of a filing told apart by `done`.                            *)
Kinds == {"make_list", "line", "add", "set_done", "update", "delete",
          "clear_done", "tag", "set_tag_order"}

Operations ==
    [id: Ids, kind: Kinds, at: Nat, list: Lists, item: Uuids,
     items: SUBSET Uuids, name: Names, amount: Amounts,
     seen: [name: Names, amount: Amounts] \cup {None},
     done: BOOLEAN, tag: Tags, walk: Walks]

Refusals == {"gone", "list_gone", "not_allowed", "invalid"}
Outcomes == {"applied", "already_applied"} \cup Refusals

(* AppliedOperation.landed without the answer to a resend.                 *)
LandedFirstTime == {"applied"}

(* AppliedOperation.landed (SyncWire.swift).                               *)
Landed == {"applied", "already_applied"}

(* A row of the items table, with its tags.                                *)
Rows == [uuid: Uuids, list: Lists, name: Names, amount: Amounts,
         doneAt: Moments \cup {None}, tags: SUBSET Aisles]

VARIABLES
    owner,    \* lists.owner_id; None: there is no such list
    member,   \* list_members.role; None: not a member
    items,    \* the items table, by row id; None: no such row
    born,     \* every uuid that ever named a row (uuids are never minted twice)
    walk,     \* list_tag_order, by list and person
    applied,  \* applied_operations.user_id, by operation
    now,      \* the server's clock
    work      \* work[d]: the handler serving device d

tables == <<owner, member, items, born, walk>>
vars == <<owner, member, items, born, walk, applied, now, work>>

SyncServerAssumption ==
    /\ holder \in [Devices -> People]
    /\ Online \subseteq People
    /\ Spare \subseteq Uuids
    /\ Aisles \subseteq Tags
    /\ Amounts \subseteq Int
    /\ Walks \subseteq Seq(Tags) /\ <<>> \in Walks
    /\ Batches \in [Devices -> SUBSET Seq(Operations)]
    /\ Slack \in Nat /\ MaxTime \in Nat /\ MaxRows \in Nat
    /\ Flaky \in BOOLEAN
    /\ Owners \in [Lists -> People \cup {None}]
    /\ Members \in [Lists -> [People -> {"viewer", "editor", None}]]
    /\ None \notin People /\ None \notin Lists /\ None \notin Nat
    /\ None \notin {"viewer", "editor"} /\ None \notin Rows
ASSUME SyncServerAssumption

----------------------------------------------------------------------------
(* Who may do what: ListMember::role_of and lists::accessible.             *)

RoleOf(l, p) == IF owner[l] = p THEN "owner" ELSE member[l][p]

CanRead(l, p) == owner[l] # None /\ RoleOf(l, p) # None

CanEdit(l, p) == owner[l] # None /\ RoleOf(l, p) \in {"owner", "editor"}

(* The refusal somebody who may not edit l is given: a member is told, a   *)
(* stranger hears that there is nothing there.                             *)
Refused(l, p) == IF CanRead(l, p) THEN "not_allowed" ELSE "gone"

----------------------------------------------------------------------------
(* The items table.                                                        *)

Present(i) == items[i] # None

Named(u) == {i \in RowIds : Present(i) /\ items[i].uuid = u}

On(l) == {i \in RowIds : Present(i) /\ items[i].list = l}

Done(i) == items[i].doneAt # None

(* INTEGER PRIMARY KEY without AUTOINCREMENT: a new row takes the id after *)
(* the greatest one in use, so the last row's id comes back once it goes.  *)
NextRow(i) ==
    /\ \A j \in RowIds : j >= i => ~Present(j)
    /\ i > 1 => Present(i - 1)

Sensible(amount) == amount > 0

(* Item::alike: the rows a new one would be another of.  An outstanding    *)
(* row wins over a crossed-off one.                                        *)
Alike(l, n) ==
    LET same == {i \in On(l) : items[i].name = n}
        outstanding == {i \in same : ~Done(i)}
    IN IF outstanding # {} THEN outstanding ELSE same

(* Item::create on row i.                                                  *)
Insert(i, u, l, n, a, tags) ==
    /\ NextRow(i)
    /\ items' = [items EXCEPT ![i] = [uuid |-> u, list |-> l, name |-> n,
                                      amount |-> a, doneAt |-> None,
                                      tags |-> tags]]
    /\ born' = born \cup {u}

(* A statement that changes one column of row i, or removes rows.          *)
Put(i, row) == items' = [items EXCEPT ![i] = row] /\ UNCHANGED born

Strike(rows) ==
    /\ items' = [i \in RowIds |-> IF i \in rows THEN None ELSE items[i]]
    /\ UNCHANGED born

(* items::splits: an edit of a stale copy that renames the row.            *)
Splits(row, op) ==
    /\ op.seen # None
    /\ row.name # op.seen.name \/ row.amount # op.seen.amount
    /\ row.name # op.name

(* A device's clock taken at its word.                                     *)
ClampNothing(claimed, arrived) == claimed

(* sync::clamp                                                             *)
Clamp(claimed, arrived) ==
    IF claimed > arrived + Slack THEN arrived ELSE claimed

----------------------------------------------------------------------------
(* The handler serving a device.  A device waits for one answer before it  *)
(* sends again, and a handler whose client has gone away is dropped.       *)

Deeds == {"none", "insert", "put_back", "keep"}

Phases == {"idle", "recall", "make", "start", "look", "role", "find", "check",
           "write", "record", "file", "reread", "note", "reply"}

(* What the handler holds between its statements: what it is about to do,  *)
(* to which rows, on which list, and the row a rename is split from.       *)
NoPlan == [deed |-> "none", rows |-> {}, list |-> None, from |-> {}]

Idle == [pc |-> "idle", batch |-> <<>>, arrived |-> 0, plan |-> NoPlan,
         answers |-> <<>>]

At(d, pc) == work[d].pc = pc

Op(d) == Head(work[d].batch)

Is(d, kinds) == Op(d).kind \in kinds

Who(d) == holder[d]

Plan(d) == work[d].plan

Goto(d, pc) == work' = [work EXCEPT ![d].pc = pc]

Decide(d, pc, deed, rows, list) ==
    work' = [work EXCEPT ![d].pc = pc,
                         ![d].plan = [@ EXCEPT !.deed = deed,
                                               !.rows = rows,
                                               !.list = list]]

(* One operation answered: on to the next, or to the reply.                *)
Answer(d, outcome) ==
    work' = [work EXCEPT
        ![d].pc = IF Len(work[d].batch) = 1 THEN "reply" ELSE "recall",
        ![d].batch = Tail(@),
        ![d].plan = NoPlan,
        ![d].answers = Append(@, [id |-> Op(d).id, outcome |-> outcome])]

(* The server's own problem, passed over: on to the next operation.        *)
SkipInstead(d) ==
    work' = [work EXCEPT
        ![d].pc = IF Len(work[d].batch) = 1 THEN "reply" ELSE "recall",
        ![d].batch = Tail(@),
        ![d].plan = NoPlan]

(* The server's own problem: the answers so far, and nothing for the rest. *)
Stop(d) ==
    work' = [work EXCEPT ![d].pc = "reply", ![d].batch = <<>>,
                         ![d].plan = NoPlan]

Arrive(d, batch) ==
    /\ At(d, "idle")
    /\ batch # <<>>
    /\ work' = [work EXCEPT ![d] = [Idle EXCEPT !.pc = "recall",
                                                !.batch = batch,
                                                !.arrived = now]]
    /\ UNCHANGED <<tables, applied, now>>

(* A resend finds no memory of what was applied.                           *)
RememberedForgotten(op) == None

(* sync::remembered: who this operation was applied for, before any access *)
(* check.                                                                  *)
Remembered(op) == applied[op.id]

Recall(d) ==
    /\ At(d, "recall")
    /\ \/ /\ Remembered(Op(d)) = Who(d)
          /\ Answer(d, "already_applied")
       \/ /\ Remembered(Op(d)) \notin {None, Who(d)}
          /\ Answer(d, "invalid")
       \/ /\ Remembered(Op(d)) = None
          /\ Goto(d, IF Is(d, {"make_list"}) THEN "make" ELSE "look")
    /\ UNCHANGED <<tables, applied, now>>

(* sync::make_list, the look-up: the list this person already made, or     *)
(* nobody's.                                                               *)
MakeList(d) ==
    LET l == Op(d).list IN
    /\ At(d, "make")
    /\ \/ owner[l] = None /\ Goto(d, "start")
       \/ owner[l] = Who(d) /\ Goto(d, "note")
       \/ owner[l] \notin {None, Who(d)} /\ Answer(d, "list_gone")
    /\ UNCHANGED <<tables, applied, now>>

(* List::create; the unique uuid refuses a list made meanwhile.            *)
StartList(d) ==
    LET l == Op(d).list IN
    /\ At(d, "start")
    /\ IF owner[l] = None
       THEN owner' = [owner EXCEPT ![l] = Who(d)] /\ Goto(d, "note")
       ELSE Stop(d) /\ UNCHANGED owner
    /\ UNCHANGED <<member, items, born, walk, applied, now>>

(* The list by its uuid.                                                   *)
Look(d) ==
    /\ At(d, "look")
    /\ IF owner[Op(d).list] = None THEN Answer(d, "list_gone")
                                  ELSE Goto(d, "role")
    /\ UNCHANGED <<tables, applied, now>>

(* lists::editable: any refusal of it is one answer.                       *)
CheckRole(d) ==
    /\ At(d, "role")
    /\ IF CanEdit(Op(d).list, Who(d)) THEN Goto(d, "find")
                                     ELSE Answer(d, "not_allowed")
    /\ UNCHANGED <<tables, applied, now>>

(* items::split runs items::create again, with a fresh uuid and with what  *)
(* the device saw.                                                         *)
Splitting(d) == Plan(d).from # {}

Adding(d) == Is(d, {"line", "add"}) \/ Splitting(d)

(* items::quick_add and items::create up to their write: a row of this     *)
(* uuid, as far as it is known, a row like this one, or a new one.         *)
FindAddAmong(d, known) ==
    LET op == Op(d)
        l == IF Splitting(d) THEN Plan(d).list ELSE op.list
        amount == IF Splitting(d) THEN op.seen.amount ELSE op.amount
        like == Alike(l, op.name)
    IN
    /\ At(d, "find") /\ Adding(d)
    /\ \/ ~CanEdit(l, Who(d)) /\ Answer(d, Refused(l, Who(d)))
       \/ /\ CanEdit(l, Who(d))
          /\ \E i \in known :
                IF items[i].list = l
                THEN Decide(d, IF op.kind = "line" THEN "file" ELSE "note",
                            "keep", {i}, l)
                ELSE Answer(d, "invalid")
       \/ /\ CanEdit(l, Who(d)) /\ known = {}
          /\ \/ ~Sensible(amount) /\ Answer(d, "invalid")
             \/ /\ Sensible(amount) /\ like = {}
                /\ Decide(d, "write", "insert", {}, l)
             \/ /\ Sensible(amount)
                /\ \E i \in like :
                      Decide(d, "write", IF Done(i) THEN "put_back" ELSE "keep",
                             {i}, l)
    /\ UNCHANGED <<tables, applied, now>>

FindAdd(d) == FindAddAmong(d, IF Splitting(d) THEN {} ELSE Named(Op(d).item))

(* sync::find: the row an operation names.  A delete of a row that is not  *)
(* there has already happened.                                             *)
RowKinds == {"set_done", "update", "delete", "tag"}

FindRow(d) ==
    LET known == Named(Op(d).item) IN
    /\ At(d, "find") /\ Is(d, RowKinds) /\ ~Splitting(d)
    /\ \/ /\ known = {}
          /\ IF Is(d, {"delete"}) THEN Goto(d, "note") ELSE Answer(d, "gone")
       \/ \E i \in known : Decide(d, "check", "none", {i}, None)
    /\ UNCHANGED <<tables, applied, now>>

(* ClearDone resolves the uuids it names; SetTagOrder resolves nothing.    *)
FindMany(d) ==
    /\ At(d, "find") /\ Is(d, {"clear_done", "set_tag_order"})
    /\ Decide(d, "check", "none",
              IF Is(d, {"clear_done"}) THEN UNION {Named(u) : u \in Op(d).items}
                                       ELSE {}, None)
    /\ UNCHANGED <<tables, applied, now>>

(* The list the operation claims stands in for the row's own.              *)
MayTouchItsList(d, i) == CanEdit(Op(d).list, Who(d))

(* items::editable asks after the list the row is on.                      *)
MayTouch(d, i) == CanEdit(items[i].list, Who(d))

(* items::update hands over to items::split.                               *)
SplitFrom(d, i) ==
    work' = [work EXCEPT ![d].pc = "find",
                         ![d].plan = [NoPlan EXCEPT !.list = items[i].list,
                                                    !.from = {i}]]

(* items::editable, by the row id found a statement earlier.  A delete or  *)
(* a filing that is not allowed stops short of being data in one case: a   *)
(* delete by somebody whose role fell meanwhile stops the batch.           *)
CheckRow(d) ==
    LET op == Op(d) IN
    /\ At(d, "check") /\ Is(d, RowKinds)
    /\ \E i \in Plan(d).rows :
          \/ ~Present(i) /\ Answer(d, IF op.kind = "tag" THEN "invalid" ELSE "gone")
          \/ /\ Present(i) /\ ~MayTouch(d, i)
             /\ IF CanRead(items[i].list, Who(d))
                THEN IF op.kind = "delete" THEN Stop(d) ELSE Answer(d, "not_allowed")
                ELSE Answer(d, IF op.kind = "tag" THEN "invalid" ELSE "gone")
          \/ /\ Present(i) /\ MayTouch(d, i)
             /\ IF op.kind = "update" /\ Splits(items[i], op)
                THEN SplitFrom(d, i)
                ELSE Decide(d, "write", "none", {i}, items[i].list)
    /\ UNCHANGED <<tables, applied, now>>

(* items::clear_done needs an editor and stops the batch without one;      *)
(* tags::set_order needs a reader and tags that exist.                     *)
CheckMany(d) ==
    LET op == Op(d)
        p == Who(d)
    IN
    /\ At(d, "check")
    /\ \/ /\ op.kind = "clear_done"
          /\ IF CanEdit(op.list, p)
             THEN Decide(d, "write", "none", Plan(d).rows, op.list)
             ELSE Stop(d)
       \/ /\ op.kind = "set_tag_order"
          /\ IF CanRead(op.list, p) /\ \A k \in DOMAIN op.walk : op.walk[k] \in Aisles
             THEN Decide(d, "write", "none", {}, op.list)
             ELSE Answer(d, "invalid")
    /\ UNCHANGED <<tables, applied, now>>

(* An add taken at its word that its uuid is new.                          *)
ClashesWithoutIndex(u, l) == owner[l] = None

(* The unique index refuses a uuid somebody else inserted meanwhile, the   *)
(* foreign key a list that has gone.                                       *)
Clashes(u, l) == Named(u) # {} \/ owner[l] = None

(* The write of an add: a new row, a crossed-off one back, or nothing.     *)
WriteAdd(d) ==
    LET op == Op(d)
        plan == Plan(d)
        uuids == IF Splitting(d) THEN Spare \ born ELSE {op.item}
        amount == IF Splitting(d) THEN op.seen.amount ELSE op.amount
    IN
    /\ At(d, "write") /\ Adding(d)
    /\ \/ \E u \in uuids :
             /\ plan.deed = "insert" /\ Clashes(u, plan.list)
             /\ Answer(d, "invalid")
             /\ UNCHANGED <<items, born>>
       \/ \E i \in RowIds, u \in uuids :
             /\ plan.deed = "insert" /\ ~Clashes(u, plan.list)
             /\ Insert(i, u, plan.list, op.name, amount, {})
             /\ Decide(d, "record", "insert", {i}, plan.list)
       \/ /\ plan.deed = "put_back"
          /\ \E i \in plan.rows :
                IF Present(i)
                THEN Put(i, [items[i] EXCEPT !.doneAt = None]) /\ Goto(d, "record")
                ELSE Answer(d, "gone") /\ UNCHANGED <<items, born>>
       \/ /\ plan.deed = "keep"
          /\ Goto(d, "record")
          /\ UNCHANGED <<items, born>>
    /\ UNCHANGED <<owner, member, walk, applied, now>>

(* Item::set_done_at: the time the device claims, pulled back if it is     *)
(* ahead of the server; whatever time the row holds is replaced.           *)
WriteTick(d) ==
    LET op == Op(d) IN
    /\ At(d, "write") /\ Is(d, {"set_done"})
    /\ \E i \in Plan(d).rows :
          IF Present(i)
          THEN /\ Put(i, [items[i] EXCEPT !.doneAt =
                            IF op.done THEN Clamp(op.at, work[d].arrived)
                                       ELSE None])
               /\ Goto(d, "note")
          ELSE Answer(d, "gone") /\ UNCHANGED <<items, born>>
    /\ UNCHANGED <<owner, member, walk, applied, now>>

(* Item::update on the row found.                                          *)
WriteUpdate(d) ==
    LET op == Op(d) IN
    /\ At(d, "write") /\ Is(d, {"update"}) /\ ~Splitting(d)
    /\ \E i \in Plan(d).rows :
          \/ ~Present(i) /\ Answer(d, "gone") /\ UNCHANGED <<items, born>>
          \/ /\ Present(i) /\ ~Sensible(op.amount)
             /\ Answer(d, "invalid") /\ UNCHANGED <<items, born>>
          \/ /\ Present(i) /\ Sensible(op.amount)
             /\ Put(i, [items[i] EXCEPT !.name = op.name, !.amount = op.amount])
             /\ Goto(d, "record")
    /\ UNCHANGED <<owner, member, walk, applied, now>>

(* Item::delete: by row id; a miss is somebody deleting it first.          *)
WriteDelete(d) ==
    /\ At(d, "write") /\ Is(d, {"delete"})
    /\ IF \E i \in Plan(d).rows : Present(i)
       THEN Strike(Plan(d).rows) /\ Goto(d, "note")
       ELSE Answer(d, "gone") /\ UNCHANGED <<items, born>>
    /\ UNCHANGED <<owner, member, walk, applied, now>>

(* Item::delete_done_among: those of the rows found that are ticked off.   *)
WriteSweep(d) ==
    /\ At(d, "write") /\ Is(d, {"clear_done"})
    /\ Strike({i \in Plan(d).rows \cap On(Plan(d).list) : Done(i)})
    /\ Goto(d, "note")
    /\ UNCHANGED <<owner, member, walk, applied, now>>

(* Tag::attach and Tag::detach.  Filing twice is a Conflict and counts;    *)
(* unfiling twice is a NotFound and is refused as invalid.                 *)
WriteTag(d) ==
    LET op == Op(d) IN
    /\ At(d, "write") /\ Is(d, {"tag"})
    /\ \E i \in Plan(d).rows :
          LET misses == \/ ~Present(i)
                        \/ IF op.done THEN op.tag \notin Aisles
                                      ELSE op.tag \notin items[i].tags
          IN IF misses
             THEN Answer(d, "invalid") /\ UNCHANGED <<items, born>>
             ELSE /\ Put(i, [items[i] EXCEPT !.tags =
                               IF op.done THEN @ \cup {op.tag} ELSE @ \ {op.tag}])
                  /\ Goto(d, "reread")
    /\ UNCHANGED <<owner, member, walk, applied, now>>

(* The row read again by its uuid, for the answer to a filing.             *)
Reread(d) ==
    /\ At(d, "reread")
    /\ IF Named(Op(d).item) = {} THEN Answer(d, "gone") ELSE Goto(d, "note")
    /\ UNCHANGED <<tables, applied, now>>

(* tag::Order::set, in one transaction; the order is the person's own.  A  *)
(* tag named twice is a Conflict, which nothing turns into a refusal.      *)
WriteWalk(d) ==
    LET op == Op(d)
        twice == \E j, k \in DOMAIN op.walk : j # k /\ op.walk[j] = op.walk[k]
    IN
    /\ At(d, "write") /\ Is(d, {"set_tag_order"})
    /\ \/ owner[op.list] = None /\ op.walk # <<>>
          /\ Answer(d, "invalid") /\ UNCHANGED walk
       \/ owner[op.list] # None /\ twice /\ Stop(d) /\ UNCHANGED walk
       \/ /\ owner[op.list] # None \/ op.walk = <<>>
          /\ ~twice
          /\ Goto(d, "note")
          /\ walk' = [walk EXCEPT ![op.list][Who(d)] = op.walk]
    /\ UNCHANGED <<owner, member, items, born, applied, now>>

(* Entry::record and prune after an add or an edit: the list's memory is   *)
(* not kept here, but its foreign key can refuse.                          *)
Record(d) ==
    /\ At(d, "record")
    /\ IF owner[Plan(d).list] = None
       THEN Answer(d, "invalid")
       ELSE Goto(d, IF Is(d, {"line"}) \/ Splitting(d) THEN "file" ELSE "note")
    /\ UNCHANGED <<tables, applied, now>>

(* quick_add files the row where the list's memory says it was filed last  *)
(* time, split where the contested row is filed now, each as far as that   *)
(* works: an attach that fails is passed over.                             *)
File(d) ==
    LET filed == UNION {items[i].tags : i \in {j \in Plan(d).from : Present(j)}}
    IN
    /\ At(d, "file")
    /\ \E i \in Plan(d).rows, tags \in SUBSET Aisles :
          /\ Splitting(d) => tags \subseteq filed /\ (tags = filed \/ Flaky)
          /\ IF Present(i) THEN Put(i, [items[i] EXCEPT !.tags = @ \cup tags])
                           ELSE UNCHANGED <<items, born>>
    /\ Goto(d, "note")
    /\ UNCHANGED <<owner, member, walk, applied, now>>

(* The memory of a delete is not kept.                                     *)
NoteRows(d) ==
    /\ At(d, "note")
    /\ applied' = IF Is(d, {"delete"}) THEN applied
                  ELSE [applied EXCEPT ![Op(d).id] = IF @ = None THEN Who(d) ELSE @]
    /\ Answer(d, "applied")
    /\ UNCHANGED <<tables, now>>

(* sync::remember, a statement after the write it remembers.               *)
Note(d) ==
    /\ At(d, "note")
    /\ applied' = [applied EXCEPT ![Op(d).id] = IF @ = None THEN Who(d) ELSE @]
    /\ Answer(d, "applied")
    /\ UNCHANGED <<tables, now>>

Reply(d) ==
    /\ At(d, "reply")
    /\ work' = [work EXCEPT ![d] = Idle]
    /\ UNCHANGED <<tables, applied, now>>

(* The connection drops or the server restarts: the handler ends where it  *)
(* is, what it wrote stays written, and no answer arrives.                 *)
Cut(d) ==
    /\ ~At(d, "idle")
    /\ work' = [work EXCEPT ![d] = Idle]
    /\ UNCHANGED <<tables, applied, now>>

(* A statement fails.  Where the code goes through finish the device is    *)
(* told "invalid"; the two look-ups swallow the error as a refusal of      *)
(* their own, make_list's as a list that is not there and items::create's  *)
(* as a uuid nobody has; everywhere else the batch stops.                  *)
Told(d) ==
    \/ At(d, "record") \/ At(d, "reread")
    \/ At(d, "find") /\ Adding(d)
    \/ At(d, "check") /\ Is(d, {"set_done", "update"})
    \/ At(d, "write") /\ Is(d, {"line", "add", "set_done", "update"})
    \/ At(d, "file") /\ Splitting(d)

Swallowed(d) == At(d, "make") \/ At(d, "look") \/ At(d, "role") \/ At(d, "file")

Trouble(d) ==
    /\ Flaky
    /\ \/ At(d, "look") /\ Answer(d, "list_gone")
       \/ At(d, "role") /\ Answer(d, "not_allowed")
       \/ At(d, "make") /\ Goto(d, "start")
       \/ FindAddAmong(d, {})
       \/ Told(d) /\ Answer(d, "invalid")
       \/ ~Told(d) /\ ~Swallowed(d) /\ work[d].batch # <<>> /\ Stop(d)
    /\ UNCHANGED <<tables, applied, now>>

Handle(d) ==
    \/ Recall(d) \/ MakeList(d) \/ StartList(d) \/ Look(d) \/ CheckRole(d)
    \/ FindAdd(d) \/ FindRow(d) \/ FindMany(d)
    \/ CheckRow(d) \/ CheckMany(d)
    \/ WriteAdd(d) \/ WriteTick(d) \/ WriteUpdate(d) \/ WriteDelete(d)
    \/ WriteSweep(d) \/ WriteTag(d) \/ Reread(d) \/ WriteWalk(d)
    \/ Record(d) \/ File(d) \/ Note(d)

----------------------------------------------------------------------------
(* The same tables from a device with a connection (the REST and browser   *)
(* routes), each request whole.                                            *)

(* items::create with a uuid minted here.                                  *)
LiveAdd(p, l, n, a) ==
    /\ CanEdit(l, p) /\ Sensible(a)
    /\ \/ \E i \in Alike(l, n) : /\ Done(i)
                                 /\ Put(i, [items[i] EXCEPT !.doneAt = None])
       \/ /\ Alike(l, n) = {}
          /\ \E i \in RowIds, u \in Spare \ born : Insert(i, u, l, n, a, {})
    /\ UNCHANGED <<owner, member, walk, applied, now, work>>

(* items::set_done: stamped with the server's own clock.                   *)
LiveTick(p, i, done) ==
    /\ Present(i) /\ CanEdit(items[i].list, p)
    /\ Put(i, [items[i] EXCEPT !.doneAt = IF done THEN now ELSE None])
    /\ UNCHANGED <<owner, member, walk, applied, now, work>>

(* items::update with nothing to compare against.                          *)
LiveUpdate(p, i, n, a) ==
    /\ Present(i) /\ CanEdit(items[i].list, p) /\ Sensible(a)
    /\ Put(i, [items[i] EXCEPT !.name = n, !.amount = a])
    /\ UNCHANGED <<owner, member, walk, applied, now, work>>

LiveDelete(p, i) ==
    /\ Present(i) /\ CanEdit(items[i].list, p)
    /\ Strike({i})
    /\ UNCHANGED <<owner, member, walk, applied, now, work>>

(* items::clear_done with no names: whatever is ticked off now.            *)
LiveClear(p, l) ==
    /\ CanEdit(l, p)
    /\ Strike({i \in On(l) : Done(i)})
    /\ UNCHANGED <<owner, member, walk, applied, now, work>>

(* lists::delete: the items, the members and the orders go with it.        *)
DeleteList(p, l) ==
    /\ owner[l] = p
    /\ owner' = [owner EXCEPT ![l] = None]
    /\ member' = [member EXCEPT ![l] = [q \in People |-> None]]
    /\ walk' = [walk EXCEPT ![l] = [q \in People |-> <<>>]]
    /\ Strike(On(l))
    /\ UNCHANGED <<applied, now, work>>

(* A link that makes its bearer the owner.                                 *)
JoinAsOwner(p, l, role) ==
    /\ owner[l] \notin {None, p}
    /\ member' = [member EXCEPT ![l][p] = "owner"]
    /\ UNCHANGED <<owner, items, born, walk, applied, now, work>>

(* lists::invite and lists::join, of a link nobody has used: never down.   *)
Join(p, l, role) ==
    /\ owner[l] \notin {None, p}
    /\ member[l][p] = None \/ (member[l][p] = "viewer" /\ role = "editor")
    /\ member' = [member EXCEPT ![l][p] = role]
    /\ UNCHANGED <<owner, items, born, walk, applied, now, work>>

(* lists::remove_member, by the owner or by the member leaving; the row in *)
(* list_members goes and nothing else does.                                *)
RemoveMember(l, p) ==
    /\ owner[l] # None /\ member[l][p] # None
    /\ member' = [member EXCEPT ![l][p] = None]
    /\ UNCHANGED <<owner, items, born, walk, applied, now, work>>

Live ==
    \/ \E p \in Online :
          \/ \E l \in Lists, n \in Names, a \in Amounts : LiveAdd(p, l, n, a)
          \/ \E i \in RowIds, done \in BOOLEAN : LiveTick(p, i, done)
          \/ \E i \in RowIds, n \in Names, a \in Amounts : LiveUpdate(p, i, n, a)
          \/ \E i \in RowIds : LiveDelete(p, i)
          \/ \E l \in Lists : LiveClear(p, l) \/ DeleteList(p, l)
    \/ \E l \in Lists, p \in People :
          \/ \E role \in {"viewer", "editor"} : Join(p, l, role)
          \/ RemoveMember(l, p)

Tick ==
    /\ now < MaxTime
    /\ now' = now + 1
    /\ UNCHANGED <<tables, applied, work>>

----------------------------------------------------------------------------

InitTables ==
    /\ owner = Owners
    /\ member = Members
    /\ items = [i \in RowIds |-> None]
    /\ born = {}
    /\ walk = [l \in Lists |-> [p \in People |-> <<>>]]

Init ==
    /\ InitTables
    /\ applied = [id \in Ids |-> None]
    /\ now = 0
    /\ work = [d \in Devices |-> Idle]

Next ==
    \/ \E d \in Devices :
          \/ \E batch \in Batches[d] : Arrive(d, batch)
          \/ Handle(d) \/ Reply(d) \/ Cut(d) \/ Trouble(d)
    \/ Live
    \/ Tick

Spec == Init /\ [][Next]_vars

----------------------------------------------------------------------------
(* What some results about the memory of operations rest on.               *)

(* The operations device d may ever send.                                  *)
Carries(d) ==
    {id \in Ids : \E batch \in Batches[d] : \E k \in 1..Len(batch) : batch[k].id = id}

(* Operation ids are minted at random on the device that queues them: two  *)
(* people never queue the same one.                                        *)
OnePersonPerId ==
    \A d, e \in Devices : holder[d] # holder[e] => Carries(d) \cap Carries(e) = {}

----------------------------------------------------------------------------
(* Properties.                                                             *)

Plans == [deed: Deeds, rows: SUBSET RowIds, list: Lists \cup {None},
          from: SUBSET RowIds]

Answers == [id: Ids, outcome: Outcomes]

Handlers == [pc: Phases, batch: Seq(Operations), arrived: 0..MaxTime,
             plan: Plans, answers: Seq(Answers)]

(* Every table and every handler holds what its type says.                 *)
TypeOK ==
    /\ owner \in [Lists -> People \cup {None}]
    /\ member \in [Lists -> [People -> {"viewer", "editor", None}]]
    /\ items \in [RowIds -> Rows \cup {None}]
    /\ born \in SUBSET Uuids
    /\ walk \in [Lists -> [People -> Walks]]
    /\ applied \in [Ids -> People \cup {None}]
    /\ now \in 0..MaxTime
    /\ work \in [Devices -> Handlers]

(* No answer says an operation landed unless the memory of it is already   *)
(* written: a reply that is lost, or a handler cut after it, can only make *)
(* the device ask again (sync.rs:299-301, remember before the outcome).    *)
AnsweredIsRemembered ==
    \A d \in Devices : \A k \in 1..Len(work[d].answers) :
        work[d].answers[k].outcome \in Landed =>
            applied[work[d].answers[k].id] = Who(d)

(* An operation the server remembers from this person changes nothing when *)
(* its resend is handled (the promise of 20260826210000_applied_operations *)
(* .up.sql, "sending the same batch twice does nothing the second time").  *)
Settled(d) == work[d].batch # <<>> /\ applied[Op(d).id] = Who(d)

SettledStaysSettled ==
    [][\A d \in Devices :
          Settled(d) /\ work[d] # work'[d] => UNCHANGED tables]_vars

(* No uuid names two rows, whichever of resends, merges, splits and live   *)
(* adds wrote them (the unique index items_by_uuid and the checks of       *)
(* items::create before it).                                               *)
OneRowPerUuid ==
    \A i, j \in RowIds :
        Present(i) /\ Present(j) /\ items[i].uuid = items[j].uuid => i = j

(* A device whose clock is ahead cannot leave a tick more than the slack   *)
(* ahead of the server (CLOCK_SLACK_SECONDS, sync.rs:36-45), however long  *)
(* the batch that carries it takes.                                        *)
NeverFromTheFuture ==
    \A i \in RowIds :
        Present(i) /\ Done(i) => items[i].doneAt <= now + Slack

(* What the sync route's comments promise and a run shows not to hold.     *)

(* "Delete is final: nothing that arrives afterwards brings it back"       *)
(* (sync.rs, What::Delete; docs/offline.md).                               *)
DeleteIsFinal ==
    [][\A u \in born : Named(u) = {} =>
          \A i \in RowIds : items'[i] # None => items'[i].uuid # u]_vars

(* "Last write by `at` wins" (docs/offline.md:59): a replayed tick or      *)
(* untick never replaces a later one.                                      *)
LatestTickWins ==
    [][\A d \in Devices : \A i \in Plan(d).rows :
          WriteTick(d) /\ Present(i) /\ Done(i) =>
              \/ items'[i] = items[i]
              \/ items[i].doneAt <= Clamp(Op(d).at, work[d].arrived)]_vars

(* "The row is gone": what a device is told for a tick, an edit or a       *)
(* filing says that the row it names was there once and was deleted        *)
(* (sync.rs, Refusal::Gone).                                               *)
GoneMeansDeleted ==
    [][\A d \in Devices :
          FindRow(d) /\ Named(Op(d).item) = {} => Op(d).item \in born]_vars

============================================================================
