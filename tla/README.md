# A verification project for shopping-list

TLA+ models of shopping-list, a shared shopping list with a server in Rust
(which also runs inside the apps) and clients that work without one: what is
done on a device that cannot reach its server and what becomes of it, who may do
what to whose list, how a change reaches other screens, what a typed line means
and where it ends up, what is offered while it is typed, and what a page of any
listing shows. TLC checks the models on small instances; TLAPS proves, for every
value of the constants, every safety property that those runs check. All
definitions are translated from the source; `PROJECT.json` gives the lines each one stands for.

Tools: `tlc -config X.cfg M` for each run listed below (a minute or less each, but
two or three for `shopping`), `tlapm M_proofs.tla` for each of the eight proof
modules (from one to some ten minutes each from nothing).

## 1. The system

| Component | State it keeps | Operations | Talks to |
|---|---|---|---|
| **Replay**, `POST /api/sync` (`web/domain/src/service/sync.rs`, `web/api/src/routes/sync.rs`) | nothing of its own: a handler's local variables between SQL statements | look up the operation id, the list, the role, the row; write; remember; answer; stop on its own errors | items, lists, tags, memory of operations; one request per device |
| **Memory of applied operations** (migration `20260826210000`) | operation id -> person | `remembered`, `remember` | replay only |
| **Items** (`service/items.rs`, `models/item.rs`) | rows with a reused integer id and a uuid | create with merge, typed line, update with split, tick at a moment, delete, clear, clear a selection | lists (every check is a check on the list), tags, memory of what is bought |
| **Memory of what is bought** (`models/history.rs`) | per list and name: unit, amount, uses, last use, aisles | `record`, prune to `MAX_ENTRIES`, `forget`, `file_under` | items, suggestions |
| **Tags and walking order** (`service/tags.rs`, `models/tag.rs`) | aisles; item-tag pairs; an order per person per list | shelve, delete, attach, detach, set order, move, resolve | items, memory |
| **Lists, roles, sharing** (`service/lists.rs`, `models/list.rs`, `models/invite.rs`) | owner, members' roles, links | create, rename, delete, index, read, invite, revoke, join, remove; hand-over when an account closes | items cascade with a list |
| **Admission and accounts** (`service/admission.rs`, `identity.rs`, `sessions.rs`, `users.rs`, boot in `server/src/main.rs`) | admitted addresses and whom they are bound to, identities, owners of the server, claimed or not, sessions | sign in, admit, withdraw, promote, demote, open, claim, close an account, seed at boot, sweep sessions | every request passes it |
| **Announcements** (`service/changes.rs`, event streams of API, pages and apps, `Watcher` in `web/embedded`) | a broadcast channel of 64 per process, one receiver per stream | announce, watch, stop | every writer; the screens' loops |
| **Parsing and suggestions** (`web/parsing`) | none | read a typed line, resolve it against rows and memory, rank what is offered | items; the phones through FFI |
| **Notes** (`service/notes.rs`, `models/note.rs`) | a table, one author per note | write, read, edit, erase, list | - |
| **Paging** (`models/common.rs`, `api/src/routes.rs`) | none | limit, offset, order, `has_more` | every index |
| **Outbox and drain** (iOS and Mac `Outbox.swift`, `CachingBackend.swift`; Android has a Kotlin twin) | a persistent queue of changes | queue, send all, settle each answer, report | replay; the screen |
| **Device cache** (`Cache.swift`) | what the server last said, and rows made here | remember, lay the queue over an answer, adopt ids, hand over | outbox, screens |
| **Watch link** (`WatchTicks.swift`, `PhoneLink.swift`) | the watch's queue | the phone answers the watch in the server's words | phone's backend |
| Units, observability, rendering, site, release | units: a table | transport, I/O, views | - |

What makes it hard:

* **No transactions.** An operation is several statements on a pool of
  connections (two models open a transaction, for an order that is set and for a
  filing). Another request may act between any two, and the connection may drop
  between any two.
* **Retries of whole queues.** A device that got no answer cannot know how much
  of its queue was applied and sends all of it again. Only the memory of
  operations makes that harmless, and it is written a statement after the write
  it remembers.
* **Names before rows.** A device names its rows by uuid before the server has
  heard of them, and other operations queue up behind that name.
* **Decisions that go stale.** Whether somebody is admitted, in what role they
  are on a list, whether a link is unspent, which row is alike, who is the heir:
  each is read in one statement and acted upon in a later one. SQLite gives a
  deleted last row's id to the next row.
* **Restarts.** A server is claimed, or seeded from an older version, in several
  statements, and looks at its tables at the next boot to see how far it got.
* **Nudges without content.** An announcement says only "read again"; it is made
  a statement after the write, may be lost with a connection or overflow, and
  reads may overtake each other.
* **Clocks.** A tick carries the device's clock; links and sessions grow old.
* **The same rules twice.** A phone decides on its own rows and memory what the
  server will decide on its own.

What each component must get right is the list of properties in section 3 for
what is modelled, and in section 6 for what is planned.

## 2. The modules

| Module | What it is |
|---|---|
| `SyncServer` | The replay handler, one action per statement (or run of reads that decide together), over the tables, beside the online requests of others. |
| `SyncServerHistory` | `SyncServer` with the lists a person could edit since the operation in hand was looked up, and what the memory had held before. |
| `OfflineSync` | Devices with their outbox and drain, composed with `SyncServer`: a device's request starts a handler, the handler's reply is what the device settles. |
| `ChangeFate` | The abstract specification: what is promised of one change. `OfflineSync` is proved to implement it. |
| `OfflineSync_proofs` | Theorems about `SyncServer`, its history and `OfflineSync`, proved. |
| `Admission` | Who may use a server, who owns it, sessions, accounts, boots. |
| `AdmissionHistory` | `Admission` with who could have been let in since they asked, who stood behind an address, how many claims got through. |
| `Admission_proofs` | Theorems about `Admission` and its history, proved. |
| `Membership` | Whose a list is, who is on it, links, and the hand-over of an account that closes. |
| `MembershipHistory` | `Membership` with the roles held since somebody asked, the links that had ended, who shared what. |
| `Membership_proofs` | Theorems about `Membership` and its history, proved. |
| `Watching` | From a write to the screens: announcements, channels, streams, loops, the embedded watcher. |
| `WatchingHistory` | `Watching` with what each request has yet to announce, what finished ones did, which screens have read since they subscribed. |
| `Watching_proofs` | Theorems about `Watching` and its history, proved. |
| `Sorting` | A finite set in the order of a relation, and a sequence with some of its elements left out: pure operators. |
| `Sorting_proofs` | What `Sorting` returns, for every strict total order, proved; lemmas that the two modules of proofs below rest on. |
| `Reading` | What a typed line means and what is offered: pure operators. Extends `Sorting`. |
| `AddField` | The field a line is typed in, and what is promised of any line that may stand there. Extends `Reading`. |
| `Shopping` | One list: rows, memory, aisles, orders. Extends `Reading`. |
| `ShoppingHistory` | `Shopping` with whether anybody else wrote while a request was under way, whether what it said has been listed, whether the row it means to put back became another, what there was when it was said, which lines have been said since anything else was written, which rows nobody touched while a page was being read, and whether an import found its list empty. |
| `Suggesting` | What is asked about while somebody types, beside all that becomes of the list. Extends `ShoppingHistory`. |
| `Shopping_proofs` | Theorems about `Reading`, `AddField` and `Shopping`, proved. |
| `ShoppingHistory_proofs` | Theorems about `ShoppingHistory` and `Suggesting`, proved. |
| `Paging` | Every listing's pages: pure operators. Extends `Sorting`. |
| `Listing` | Any one table, listed by any one of its columns, while rows come, change and go. Extends `Paging`. |
| `Notes` | Notes and walks through their pages. Extends `Paging`. |
| `NotesHistory` | `Notes` with the ids given again since a request arrived, and for a walk what it met, which notes stayed all along, and whether any was erased or written. |
| `Notes_proofs` | Theorems about `Notes`, its history and `Listing`, proved. |
| `MCSyncServer`, `MCOfflineSync`, `MCAdmission`, `MCMembership`, `MCWatching`, `MCShopping` | Small instances for TLC; `MCShopping` composes `Suggesting`, `AddField`, `NotesHistory` and `Listing`. |

The modules meet at their tables' edges rather than in one state: `Membership`
takes who may sign in from `Admission`, `Shopping` takes who is on the list from
`Membership`, `Watching` takes that a request announces after it writes from
both. Each says in its head what it leaves to which other.

A `...History` module adds variables that only remember: they follow the steps of
the module they extend, read nothing into its guards and hold none of its steps
up (`HistoryNext == Next /\ Remember`). What may only be said of a race, that
somebody *was* allowed at some moment since they asked, is said with them, in the
run and in the theorem alike.

### SyncServer

State: `owner`, `member`, `items` (by row id), `walk` and `applied` are the
tables; `born` remembers every uuid that ever named a row, since a uuid minted
by the server is never minted twice; `now` is the server's clock; `work[d]` is
the handler serving device `d`, whose `pc` says which statement comes next and
whose `plan` holds what the code holds in local variables between statements
(the row ids found, the list, the row a rename is split from).

| Code | Actions |
|---|---|
| `one`, memory of the operation | `Recall` |
| `make_list` | `MakeList`, `StartList` |
| `one`, list and role | `Look`, `CheckRole` |
| `apply`, the row an operation names | `FindRow`, `FindMany`; `FindAdd` for `items::create` and `quick_add` |
| `items::editable`, `clear_done`, `set_order` | `CheckRow`, `CheckMany` |
| the write | `WriteAdd`, `WriteTick`, `WriteUpdate`, `WriteDelete`, `WriteSweep`, `WriteTag`, `WriteWalk` |
| `Entry::record`, filing, reading the row again | `Record`, `File`, `Reread` |
| `remember` and the answer | `Note` |
| the route's answer; a dropped connection or restart; a failed statement | `Reply`; `Cut`; `Trouble` |
| other people's requests | `LiveAdd` ... `RemoveMember` |

Kept exactly: which errors are refusals and which stop the batch, which errors
are swallowed (`make_list`'s and `create`'s look-ups take a failure for "not
there"; the list's look-up and the role check answer it with a refusal), the
order of checks, and the reuse of row ids. A rename of a contested row runs the
whole of `create` again, with a uuid minted by the server.

Abstracted: a name stands for all its spellings and comes in one unit; the
memory of what a list buys is left out except that its foreign key can refuse
and that a typed line may be filed under any aisles; announcements change no
table. An online request is one step here: races between any of them and a
replay are explored in this module, races between two online requests in
`Shopping` and `Membership`. Filing and ordering online are in `Shopping` only.

### OfflineSync

State per device: `todo` (what the person will still do), `queue` (the outbox),
`drain` (the drain in progress and what it has been answered), `dropped` and
`told` (changes forgotten as never going to land, and those the screen named).
`Change` is `Outbox.queue`; `Send` is `CachingBackend.drain` with its one drain
at a time; `Receive`, `Settle` and `Report` are the rest of `Outbox.drain`, each
step a transaction of its own; `Kill` and `LoseConnection` are the two ways it
ends early. `Serve` and `Fail` are `SyncServer`'s actions with the device's
state unchanged. A connection lost before its answer ends the handler where it
is, which is what the server's HTTP library does with the future of a client
that has gone; a handler that outlived its client would overlap with the resend,
which is the case of two windows in run `server`.

Left out: the rows shown meanwhile, sign-out (which empties the queue on
purpose), and the handover of lists made without a server.

### Requests as plans

`Admission`, `Membership`, `Shopping`, `Watching` and `Notes` share one form. A
request under way is `work[c]`: what was asked, what has been found out so far
(the handler's local variables), and its `plan`, the sequence of steps that are
left. A step is one statement, or a run of reads of which only the last decides.
`Arrive` starts a plan, each action takes the head of one, a refusal or an early
return ends it (`Refuse`, `Finish`), a check may add to it, and `Cut` ends it
anywhere, as the server's HTTP library does with the future of a client that has
gone. What the front ends can ask for is enumerated from their routers (`Deeds`,
`ListDeeds`, `PageDeeds`, `AppDeeds`, ...), so that an operation no route calls is
not an action either.

### Admission

State: `users`, `identity`, `admitted`, `sessions`, `open`, `claimed` are the
tables and the one server row; `boot` is what is left of a boot, `up` and `code`
the process; `now` ages sessions.

| Code | Actions |
|---|---|
| `identity::from_claims`, `from_session` | `Identify`, `Recognise`, `Create`, `Attach`, `Refresh`, `Bind`; `Resume`, `StillThere` |
| `admission::admits_user` | `Vet`, `LookForBinding`, `ReadStored`, `LookForListing`, `Bind` |
| `admission::admits_email` | `Newcomer`, `LookForInvitation` |
| `sessions` | `Use`, `Issue`, `End`, `Sweep` |
| `admission::admit`, `withdraw`, `set_owner`, `set_open` | `MayAdmit`/`Admit`, `MayWithdraw`/`Withdraw`, `MayOwn` (and `admits_user` of whoever is promoted)/`SetOwner`, `MayOpen`/`SetOpen` |
| `admission::claim` | `MayClaim`, (`Create`, `Attach`), `Win`, `Seed`, `Bind` |
| `users::close_account` | `MayClose`, `Forget`, `Delete` |
| `admission::seed`, `main` | `Start`, `BootOpen`, `BootSeed`, `BootTie`, `BootOwn`, `BootClaim`, `OfferClaim`; `Crash` |

A step is one statement of the code, but for what an owner's request reads to learn
whether it may (who asks, the subject, how many owners there are), which is one step.
`admits_user` is a statement at a time: open to anyone, bound to an address, the
stored address, that address on the list; what one has read (`tie`) stands until the
next, whatever is written in between. Row ids of users are given again after a
deletion, as in the table. A provider's signature is an input: a request carries what the provider vouched for. An
address stands for all its spellings.

### Membership

State: `lists` by row id, `members`, `invites` by token, `present` (the accounts
that are open), and the clock that ends a link. `Door(need)` is
`lists::accessible`: `Find`, `IsOwner`, `HasRow`. The browser's share
sheet passes it three times and asks the role once more, handing out a link
passes it twice, and an index asks the role of each list it
read in statements of their own (`Index`, `Each`, `Say`; `work[c].said` is the
answer so far). `Claim`, `Decide`, `Put`, `Mark` are `lists::join`; `NotOwner`,
`Remove` a removal or a leaving; `Owned`, `NextHeir`, `Heir`, `HandOver`, `Leave`
the closing of an account, list by list. Ids of lists are given again; the
cascades take members and links with a list.

### Watching

State, for each screen: what it shows and what holds it (`screen`), its receiver
(`live`, `pending`, `lagged`), whether it was nudged, where its loop is (`phase`,
`again`), the answers on their way to it (`loads`), what it shows (`shown`), and
for a screen on the server inside its app the watching thread and the two halves
of `Stopper::stop` (`thread`, `stopping`, `permit`). What a list or an index says
is a `version`. Five kinds of holder follow the five loops there are: an app
straight on a server and one through `CachingBackend` (`ItemsModel.watch`), the
sheet of members, a browser page (`app.js`), and an app on its embedded server.
`DoWrite` and `DoTell` are a request's write and announcements, in the code's
order; `Deliver`, `Notice`, `HearOne` the stream and its lag; `Restart` takes
every receiver with it.

### Reading and Shopping

`Reading` translates `web/parsing`: a line is a sequence of words, a word a
number, a text, or a text glued to the number in front of it. `Parse` is
`quick_add::parse` with its forms in the code's order, `Resolve` is
`add::resolve`, `Offer` is `suggest::offer` over `history_rank` and `fuzzy`. Its
units, spellings, limit and the worth of a use after so many half-lives are
constants.

Around these rules are two small machines for what somebody does with them.
`AddField` is `ItemsModel.line`: words are typed one after another (`Write`), a
suggestion fills the field (`Choose`), adding empties it (`Add`). `Suggesting` is
`Suggestions.asking`: every keystroke asks about what is now typed and gives up what
was asked before (`AskFor`), an answer or an emptied field ends it (`StopAsking`),
and every step of `Shopping` may fall in between. The Mac's and the phones' fields
ask for nothing while nothing is typed; the service answers that as well, with the
ranking itself, so it is among the queries.

`Shopping` runs those rules in requests: `say` looks a line up among the rows and
the memory, then inserts or puts a row back, records the use and files it;
`edit`, `tick`, `drop`, `sweep`, `clear`, `file`, `unfile`, `forget`, `shelve`,
`raze`, `set_order`, `move` are the other writes, `board` and `list` the page,
read in as many statements as the code takes, and `import` is the embedded
server taking over the cache a device kept before it had one: an outer loop over
incoming rows around the same steps. Rows are named by id only; uuids are
`SyncServer`'s. What an edit that carries the row the client saw may split is
`SyncServer`'s as well.

### Paging and Notes

`Paging` has the arithmetic of a page (`PageOf`: limits, offsets, `has_more`, all
saturating at `Top`, the largest `i64`) and the orders of all six tables with
their nullable, unique and case-blind columns. `Listing` is what such a listing is
of: `Create`, `Update` and `Delete` are the models' own, seen as the one column the
table is ordered by, with the constraints that bear on it (the key of a row that is
created, NOT NULL, UNIQUE, NOCASE); a page is its rows collated, sorted with NULLS
LAST and cut by limit and offset. `Notes` walks: a page is two statements,
rows and count, and a walk asks for page after page while others write. Notes are
loaded, checked and written by id in separate statements.

## 3. What is checked

### Run `server` (`MCSyncServer`)

Two windows of one Mac, both replaying for Ann over one queue, while Bob, the
owner of the list, works online and shares it. Each behaviour plays one of
eleven *scenes*: the batches each window may send (in any order, again, and
overlapping), two or three batches and at most two online requests. Together the
scenes cover every kind of operation, every refusal and every pair of racing
writes we found worth naming; each scene is small, so all interleavings are
explored. Any statement may fail at any time. 550,063 distinct states.

* `TypeOK`.
* `AnsweredIsRemembered`: an answer that says "landed" is never ahead of the
  memory of it. If it were, a lost reply would make the device apply it twice.
* `OneRowPerUuid`: whatever resends, merges and splits race, a uuid names one row.
* `NeverFromTheFuture`: no tick is more than the slack ahead of the server's
  clock, however long its batch takes. One tick of the clock and a slack of one
  are enough for a claim that is plausible, one that is not, and time passing
  between arrival and write.
* `WritesWereAllowed`: a handler reaches a write only on a list its person could
  edit at some moment since the operation in hand was looked up, whatever list
  the operation claims. `could` in `SyncServerHistory` records those lists. It allows
  the window between check and write that the code has, and not a moment more.
* `RememberedIsSettled`: an operation that was remembered for its sender at any
  moment before a handler looked it up is neither done again nor refused by that
  handler, whichever window sent it and whatever the other has in hand. `memory` in
  `SyncServerHistory` holds what was remembered up to the look-up. What is left is
  the window the code has: two handlers that both look an operation up before either
  remembers it both write (`one` and `remember` are statements apart), and only they.

### Run `devices` (`MCOfflineSync`)

Ann's phone and Bob's tablet, both used offline on one list, one failure
(a lost connection, a kill while settling, or a failed statement) and one
online request per behaviour, five pairs of scripts. 191,617 distinct states.

* `DeviceTypeOK`: besides the types, that a change is in the outbox once, one given
  up is in it no more (no resend can land what somebody was told is lost), and
  nothing else is told as lost.
* `StoryInOrder`: what a request has been answered and what is still to come are
  together the start of what was sent: nothing is skipped.
* `SettledStaysSettled`: handling the resend of a remembered operation changes
  no table.
* `KeepsThePromise`: the composition implements `ChangeFate`. A change waits
  until it is remembered as applied or is dropped, exactly one of them, for good.
* `QueueDrains`: again and again a device's queue holds nothing but changes to a
  list that exists and will not have this person.

One failure is enough to separate every two steps of a drain and of a handler,
and the retry that follows runs to the end; three rows hold every row two
scripts and one online request can make.

A device here has one drain at a time, as one phone or tablet has. Two windows of
one Mac over one outbox are outside this run: what `SettledStaysSettled` and
`KeepsThePromise` say is checked and proved for devices with one drain each. Two
windows are the subject of run `server`, whose `RememberedIsSettled` says what is
left of the promise there.

**Fairness.** `ItemsModel.keepTrying` drains every ten seconds while a screen is
up, so `Send(d, "screen")` is weakly fair; the server runs a handler it started
(`Serve`), an answer that is not lost arrives (`Receive`), and settling and
reporting are plain code after it (`Settle`, `Report`). Failures, other people
and the person's own changes have no fairness.

### Run `admission` (`MCAdmission`)

Two requests at a time, two or three in a behaviour, over eleven scenes: a fresh
home server two people claim, an upgraded one whose first boot may not get far,
a server opened to all, addresses admitted and withdrawn while people arrive
with them, one person from two devices, sessions that end in every way, a
promotion, two owners, a stranger at a door that closes, an account closed
under a request of its own, its row id the next newcomer's. In the eleventh Bob has
two devices: three requests at a time, five in all, enough for his address to
be read by one request, changed by another and admitted by a third, and withdrawn
again. Any request may be cut off after any step, and the first two scenes restart
the process once, with another `ALLOWED_EMAILS`. Callers are alike, and symmetry in
them is used. 194,884 distinct states, depth 39.

* `AdmissionTypeOK`.
* `ActsOnlyIfAdmitted`: who gets to act had, since the account they come from was
  found, the server open, or an address bound to the account, or one admitted that
  the account had had by then (`had` and `could` in `AdmissionHistory` record it);
  somebody new, the address they brought. It does not say that the person was
  admitted at one moment, because the code does not keep to that: stated so, TLC
  finds Bob's request read his stored address, his other device store another one,
  Ann admit the first, the request see it admitted, Ann withdraw it, and the request
  act (the binding finds no row and says nothing). No line of the repository
  promises more; `admits_user` is written as four reads. An account is its row: when
  one is closed before its request is vetted and a newcomer is given the row id, the
  answer is the newcomer's.
* `EveryAddressWasVouchedFor`: each admitted address was named by an owner, by
  the configuration or by the one who won the claim; who loses admits nobody.
* `OneClaimWins`, across restarts.
* `ClaimedWithAnOwner`: a server that becomes claimed has had an owner, and not
  by a boot that stopped half-way.
* `BindingStays`: an address bound to a person is not bound to another while it
  stays admitted and the account exists.
* `EndedStaysEnded`: a session that was ended or ran out does not come back.

### Run `membership` (`MCMembership`)

Ann, Bob and Cee, two requests at a time, three or four in a behaviour, nine
scenes: a link followed, forwarded, withdrawn and grown old; a viewer with an
editor's link; a link that would give the list away; members against one
another; a list's id given again; an index read while what it says changes; an
owner who leaves while the heir does, or while somebody arrives. 136,110
distinct states, depth 35. One link is enough, since a second would meet it only
through a member's row, which two joins already contend for; three list ids hold
the two lists of a scene and one that is made, or given a deleted one's id.

* `MembershipTypeOK`.
* `ActsWereAllowed`: a list is read, changed, shared or taken from somebody only
  for a person who, since they asked, was on it in the role that takes.
* `EndedLinksSeatNobody`: a link spent, withdrawn or too old when somebody
  follows it seats and raises nobody.
* `RolesAreAsSaid`: the role an answer states was held on that list meanwhile, or
  is a viewer's.
* `HandoverKeepsTheList`: with no other account closing at the time, a list
  somebody shares throughout stays, and stays theirs to see. A list whose owner
  has a row on it as well is excepted: the heir may then be the one who leaves.

### Run `watching` (`MCWatching`)

One screen of each kind in turn and two requests at a time, ten scenes, at most
one failure: a request or stream lost, a load that fails, a restart. A receiver
has room for one message where the code has room for 64, so two announcements
already make it lag. One screen is enough because screens do not read each
other's state. 23,328 distinct states.

* `WatchingTypeOK`.
* `CaughtUp`: a screen that has read since it subscribed and has nothing more to
  hear shows at least what every finished request announced, unless two of its
  own loads crossed or one failed. What a request has to announce (`Owed`,
  `StillOwed`) is what it changed, except that a removal tells whoever it found
  to be the owner when it was asked, a joining whoever owns the list when it looks
  again (nobody, when it is gone), a deletion who was on the list when it
  looked and still is, a renaming whoever is left when it comes to that, and that
  a removal does not announce the list.
* `KeepsUp` (liveness): what was announced while it listened is shown in the end,
  also when the connection is lost or the server restarts before the nudge
  arrives, unless it is closed, may no longer see it, or its loads crossed.
* `StopEndsTheWait` (liveness): stopping a watcher frees it, whichever way the
  flag, the permit and the parking fall.

**Fairness** (`Progress`): weak, for each step of a screen's loop, of a stream and
of a watching thread: the runtime runs what can run, and an answer that is not
lost arrives. None for requests, failures, a load the user asks for, or closing.

### Run `shopping` (`MCShopping`)

One behaviour plays one scene; two people, two requests at a time, at most three
in a behaviour. Lines are of at most four words over a vocabulary with every
kind of word the rules tell apart; the memory holds at most two entries
(`MAX_ENTRIES`), so that it is full at the third, and an offer two; numbers in
pages run to 6 with `i64`'s edges saturating there. 107,726 distinct states,
depth 29. The two callers are interchangeable (`SYMMETRY`); the run has safety
and action properties only.

* `ShoppingTypeOK`.
* `NothingTypedIsLost`: every line reads as its own words, at most one of them
  taken apart where a number is glued to a unit, in one of the forms the parser
  lists. (That the five forms of one thing mean the same, `SameEitherWayRound`, is
  proved instead.)
* `OfferIsBest`: what is offered is as many as fit, best first, the best of all that
  match, over every memory the run reaches of at most three names, every selection
  that may be read of it, and every query: those that match at the start, at a
  word, inside, scattered, in full, and not at all.
* `SayingItTwiceIsSayingItOnce`, `ForetoldByThePhone`: a repeat changes nothing;
  what a phone with the same rows and memory decides is what the server does.
  Both leave out a memory that does not keep the name it was just told, which is
  real (below).
* `WhatIsSaidIsListed`: what was said has been on the list since somebody asked,
  unless the row that was found crossed off became another before it was put back:
  it was renamed, or deleted and its id given to another row. Both happen in the
  run.
* `FilingIsLearned`: the memory of a name ends as its row is filed, nobody else
  writing.
* `BoardShowsWhatStayed`: a page read in several statements has every row nobody
  touched, under the right aisle of the reader's own order.
* `OrdersAreSetWhole`: an order changes to what its person set, or loses an aisle
  that is deleted.
* `ImportKeepsEverything`: a device's cache of two or three rows, twins among them,
  is all there after it is brought over into the list made for it.
* `WalkMeetsEveryRow`: whatever has become of a table of up to three rows, by every
  column, direction and page size: `has_more` ends, on `total_pages`, having met
  each row once, in order.
* `PagesAddUp`: of the notes of theirs that stayed during a walk by pages of any
  size above none, none is missed unless one was erased, none met twice unless one
  was written (or, where notes are listed by what they say, reworded).
* `NotesAreOnesOwn`: only its author changes a note, unless its id was given to
  another between check and write. The exception is real: ids are given again,
  and the run contains the case.

Those that say "nobody else writing" (`alone`, `again`) are about what the
sequence of statements does; the interleavings are the subject of the others.

None of the passing runs checks for deadlock: a behaviour whose scene or script
is used up stops, as the system does when nobody uses it.

### Runs that show a disagreement

Each checks one sentence of the documentation or of a comment against the code:
the first four in the instance of `MCOfflineSync`, the others in those of
`MCAdmission` and `MCWatching`. The findings in `PROJECT.json` quote them.

| Run | The sentence | What TLC finds |
|---|---|---|
| `delete_is_final` | "Delete is final: nothing that arrives afterwards brings it back" | an add applied but not remembered (connection lost between the two), deleted by somebody, comes back with the resend |
| `latest_tick_wins` | "Last write by `at` wins" | the queue that arrives last wins, with the earlier time |
| `gone_means_deleted` | "The row is gone": a delete came first | an add merged into a like row leaves the device's uuid naming nothing, and what is queued behind it is refused as gone |
| `every_loss_is_told` | "the person whose work was dropped is told" | a drain run as a side effect discards its report |
| `somebody_can_administer` | "An owner who cannot sign in is the same problem as no owner" | in a new server's first minute somebody whose provider sent no address wins the claim and is refused afterwards: a claimed server nobody can administer (a claim cut off between winning and seeding leaves the same) |
| `screen_catches_up` | "silently showing a stale list is exactly what this is for" | an app reads and then subscribes: what is announced in between reaches nobody, and the screen rests on the older list |

Some things that look odd have no run. Of these no document says otherwise: two
people may both get in by one unused link; and whose order a list inherits changes
when the first to have set one sets it again (`list_tag_order.created_at` is the
latest setting, not the first).

Of these one does, and the models show the code doing it in runs that pass, with
the exception written into a property or the model:

* *A role may be lowered by a join.* `service/lists.rs:140-142` says "An invitation
  that would lower an existing role is ignored rather than applied, so a stale editor
  link cannot demote an owner or another editor". It is ignored by what was read
  (`lists::join`); a role raised between that read and the write is lowered. `Decide`
  and `Put` of `Membership` are two steps for this reason, and no property says that
  roles only rise.
* *Twins.* `service/items.rs:82` says "Two rows saying `Milk` are never two
  intentions", and `docs/offline.md:419-422` that "put milk on the list" may arrive
  "interleaved with anybody else's, and mean the same thing every time". The look-up
  and the insert are two statements, and two adds of one name that overlap may leave
  two rows (`Shopping` and `SyncServer` both have it; `ImportKeepsEverything` and
  `WhatIsSaidIsListed` allow for it).
* *A memory above its limit.* `models/history.rs:22` calls `MAX_ENTRIES` "The most
  entries one list's history will hold". `update` records a use and does not prune
  (`items.rs:217`, where a line said does both, `:107`), so edits alone fill it past
  its limit; the next line that says a little-used name records it, and prunes it away
  before its aisles and its unit are looked at. The row is filed nowhere, and saying
  the line once more finds no unit remembered and may make a twin. (`history.rs:259`
  reasons that the table can only grow when something was added.) Scene `full` plays it.

## 4. What is proved

For every set of people, devices, callers, lists, names and requests, every
database to start from and every bound, under the assumption of the module and
what the last column adds:

| Module | Theorem | Statement | Assumes besides |
|---|---|---|---|
| `OfflineSync_proofs` | `TypesHold` | `Spec => []TypeOK` | |
| | `UuidsNameOneRow` | `Spec => []OneRowPerUuid` | |
| | `NoTickFromTheFuture` | `Spec => []NeverFromTheFuture` | |
| | `AnswersAreRemembered` | `Spec => []AnsweredIsRemembered` | `OnePersonPerId` |
| | `ResendsChangeNothing` | `HistorySpec => RememberedIsSettled` | |
| | `AccessIsDecidedOnArrival` | `HistorySpec => []WritesWereAllowed` | |
| | `DevicesAreTyped` | `OfflineSpec => []DeviceTypeOK` | `EachChangeOnce` |
| | `AnswersTellTheStory` | `OfflineSpec => []StoryInOrder` | `EachChangeOnce` |
| | `AnOutboxSentAgain` | `OfflineSpec => SettledStaysSettled` | `EachChangeOnce` |
| | `ThePromiseIsKept` | `OfflineSpec => KeepsThePromise` | `EachChangeOnce` |
| `Admission_proofs` | `AdmissionIsTyped` | `Spec => []AdmissionTypeOK` | |
| | `ClaimsComeWithAnOwner` | `Spec => ClaimedWithAnOwner` | |
| | `BindingsStay` | `Spec => BindingStays` | |
| | `EndedSessionsStayEnded` | `Spec => EndedStaysEnded` | |
| | `ClaimsAreWonOnce` | `HistorySpec => []OneClaimWins` | |
| | `AddressesAreVouchedFor` | `HistorySpec => []EveryAddressWasVouchedFor` | |
| | `OnlyTheAdmittedAct` | `HistorySpec => []ActsOnlyIfAdmitted` | |
| `Membership_proofs` | `MembershipIsTyped` | `Spec => []MembershipTypeOK` | |
| | `ActsAreAllowed` | `HistorySpec => []ActsWereAllowed` | |
| | `RolesWereHeld` | `HistorySpec => []RolesAreAsSaid` | |
| | `EndedLinksAreDead` | `HistorySpec => []EndedLinksSeatNobody` | |
| | `SharedListsOutliveAccounts` | `HistorySpec => HandoverKeepsTheList` | |
| `Watching_proofs` | `TypesAreKept` | `Spec => []WatchingTypeOK` | |
| | `NudgesAreEnough` | `HistorySpec => []CaughtUp` | |
| `Notes_proofs` | `NotesKeepTheirTypes` | `NotesHistorySpec => []NotesTypeOK` | |
| | `NotesBelongToTheirAuthors` | `NotesHistorySpec => NotesAreOnesOwn` | |
| | `WalksMissNothing` | `NotesHistorySpec => PagesAddUp` | |
| | `PagesMeetEveryRow` | `ListingSpec => []WalkMeetsEveryRow` | |
| `Shopping_proofs` | `EveryLineIsReadInFull` | `FieldSpec => []NothingTypedIsLost` | |
| | `QuantitiesGoEitherWay` | `FieldSpec => []SameEitherWayRound` | |
| | `ShoppingIsTyped` | `Spec => []ShoppingTypeOK` | |
| | `OrdersAreWhole` | `Spec => OrdersAreSetWhole` | |
| `ShoppingHistory_proofs` | `WhatIsSaidWasListed` | `ShoppingHistorySpec => WhatIsSaidIsListed` | |
| | `FilingTeaches` | `ShoppingHistorySpec => FilingIsLearned` | |
| | `PhonesForetell` | `ShoppingHistorySpec => ForetoldByThePhone` | |
| | `SayingAgainChangesNothing` | `ShoppingHistorySpec => SayingItTwiceIsSayingItOnce` | |
| | `BoardsShowWhatStayed` | `ShoppingHistorySpec => []BoardShowsWhatStayed` | |
| | `ImportBringsEverything` | `ShoppingHistorySpec => ImportKeepsEverything` | |
| | `OffersAreTheBest` | `SuggestingSpec => []OfferIsBest` | |

That is every safety property of every run, but for the sentences that are shown
not to hold. `Sorting_proofs` has the lemmas that several of these rest on.

### What is assumed

* `SyncServerAssumption` and `OfflineSyncAssumption` only type the constants.
* `AdmissionAssumption` and `MembershipAssumption` say of the databases a
  behaviour may start from what their foreign keys say: an identity, a binding, a
  member's row, a list's owner name rows that are there; and that no member's row
  confers ownership, which the column's CHECK would allow and no write of the code
  puts there (only `lists::join` adds a member, in a link's role). Without them a
  server could start from tables no server has written.
* `WatchingAssumption` types the constants, keeps lists and people apart, and says
  that there are finitely many people: a list's audience is told one by one.
* `ShoppingAssumption` types the constants, says that a cache comes with an import
  only and that what a use is worth is known for every age the clock allows, and
  says of the database a behaviour may start from what its keys say
  (`StoredWell`): a filing names a row and an aisle that are there, a name is
  remembered once, under itself, and finitely many are.
* `ReadingAssumption` types the vocabulary, and says that folding a name is
  idempotent and blind to capitals; that a use is worth half as much after each
  half-life (`history_rank::score`); and of the spelling of a text, which stands for
  the text itself, what is so of words: two texts are not spelled alike, none has a
  space in it, and none begins with digits, which a word keeps apart.
  `AddFieldAssumption` and `SuggestingAssumption` type the words and queries, and
  keep `None` apart from what a line may read as and what may be asked.
* `PagingAssumption` and `NotesAssumption` type the constants, the tables a
  behaviour may start from among them, and keep ids within `Top`, as an `i64` does.
  `ListingAssumption` keeps them within half of it: `total_pages` saturates, and
  would be cut short for a table of more rows than that, which nothing can hold.
* `OnePersonPerId`: two people never queue the same operation id. Ids are minted
  at random on the device (`UUID()` in `Outbox.queue`), and the schema's comment
  relies on it too. `EachChangeOnce` says it of all that is ever queued, on a device
  or on two: it leaves out two windows over one outbox. TLC evaluates them in their
  instances (`MCIdsApart`, `MCChangesApart`); the scenes of run `server`, where two
  windows send the same ids, satisfy only the first.

### The replay (`OfflineSync_proofs`)

* **Types.** `TypeOK` is not inductive: what a step writes depends on what the
  handler holds. `Sound` adds `PlanSound`: a handler at work has an operation in
  hand, a planned write has a list, and only a rename that carries what the
  device saw is split. Every step of a handler changes one entry of `work` in
  one of a few `Ways` (go on, decide, answer, stop, split) and at most one row
  (`RowChange`) or one named table, so the many actions are reduced, one lemma
  each, to `HandlerStep`, `Turn` (a batch arrives or a handler ends), `LiveStep`
  or the clock (`NextMoves`), and `MoveSound` closes the induction.
* **Uuids.** `RowsApart` adds that every row's uuid is in `born`
  (`UuidsAreBorn`): a uuid minted by the server is outside `born`, and one from
  a device is inserted only where `Clashes` is false.
* **Clocks.** `NoFuture` adds `ArrivedBefore`: a batch's arrival is not after
  `now`, so what `Clamp` lets through is within the slack when it is written and
  time only passes afterwards.
* **Memory.** `OwnQueue` says that what is left of a batch consists of operations
  the device carries, and `Remembering` that an operation is remembered for
  somebody who could have sent it: under `OnePersonPerId` the person found in the
  memory is then the person answered, and an entry is never replaced.
* **Resends.** `AllLooked` says that what `memory` recorded is in the memory still
  (an entry is never replaced or removed), and that a handler past `Recall` holds
  none of it: it would have been answered there. So an operation in `memory` is always
  still at its `Recall`, which writes nothing and says "already_applied", or ends.
  Nothing is assumed of the ids: another window's `Note` of the same operation enters
  the memory after this handler's look-up, and not what `memory` holds for it.
* **Access.** `AllAllowed`: from the check of the role to the check of the row,
  the list the operation names is in `could`, and at the write the plan's list
  is. `WayIn` sums up how a handler gets there: into the look-up of the row from
  the role, or again when a checked row is split; into the check from the
  look-up; into the write of a list its person can edit at that moment or, for a
  walking order, of the list named. All else (another device's step, an online
  request, the clock) can only add to `could`.

### The outbox (`OfflineSync_proofs`)

`OfflineInv` follows a change from the script of the device that makes it to its
answer. `Making`: a change not made yet is nowhere else, one that was dropped is
neither queued nor applied, and nobody applies this device's changes in another's
name. `Serving`: what the handler serving a device has still to do is queued
there and not answered, it is not applied once its memory check is past, and
what an answer on its way says of a change is so. `Story`: answers and what is
left of the batch line up with what was sent. Each of these leans on the others
(an answer may only be believed when settled because the change was queued all
along), so they are proved together, reusing the lemmas about `Ways`.
`ToldRightly` adds for `DeviceTypeOK` that what a drain is about to tell, and what is
told, was given up.

**Refinement.** `KeepsThePromise` is `ChangeFate`'s specification with a change's
fate read from the outbox, the dropped changes and the server's memory. The
initial states map to nothing made; `Change` makes a change, the server's `Note`
lands it unless it had, `Settle` drops a refused one or changes nothing about
one that landed, and every other step, a failure or a kill among them, leaves
every fate alone (`EveryStepKeepsThePromise`). `Settle` is where it could go
wrong: the answer is about a change still queued, by `Serving`, and tells
whether it was applied.

### Who may use a server (`Admission_proofs`)

* **Types and plans.** `Inv` is `RowsOK` (an id in one table names a row of
  another, through every deletion), `WorkOK` and `BootOK`. A step relies on the
  steps before it having been taken, so `WorkOK` says of what is left of each
  request's plan that it is well `Laid`: it is known who asks, whom an address is
  to be tied to and whose standing is to change, or a step that finds it out
  comes first, and nothing is tied by what was known before a look. `BootLaid`
  says that a boot's claim comes after an owner, and serving last.
* **Claims and bindings** are action properties that follow from `Inv`, once a
  step is known to be a look (`Looks`, which change no table) or one of the
  writes. **Sessions** need no more than `Inv` either: a token is never minted
  twice, and a use that comes after the end finds no row to renew.
* **One claim** adds that the count is zero until the server is claimed; **vouched
  addresses** that whoever seeds an address came with it to a claim they won, or
  has that ahead (`SeedWaits`).
* **Admitted**: `ActInv` says that a step that settles whether the request is let in
  is still ahead of the deed (`Vetters`), or that the request has been seen to be
  admissible (`could`), which is noted as soon as it is so. What one statement
  leaves to the next is in it too: the address that is looked up next is one the
  account had (`tie` against `had`), and whoever is looked for by an address came
  with one. Both are said of the head of a plan only, and no plan holds those two
  steps further back. A promotion vets its subject, not the owner who asks: by then
  the owner has acted, and `ActInv` says so by the subject being settled.

### Whose a list is (`Membership_proofs`)

* **Types and plans.** `Inv` adds to the types that every plan is `WellLaid`
  (claims first, a page's last step last, whoever is not the owner is looked for
  among the members next), that a role is put only on a link in hand, and that no
  link offers ownership.
* **Acts and roles.** `SeatInv`: who asks about one list has been seen on it in
  the role the deed takes, or the statement that asks is still ahead of the deed
  (`Follows`); what an index has said so far was seen, and so was the role it
  holds. `Guarded` is shown of the plan every kind of request arrives with.
* **Links.** `EndInv`: for a request that arrived with a link that was over, the
  link is still over, a link it has in hand is a spent one, and no seat is left
  in its plan.
* **Hand-over.** `HandInv`: with nobody else closing an account, a list shared
  all the while belongs to whoever leaves until it is handed over, and then to
  another for good; until then it is not read yet, left to be handed over, or
  with its heir known. An account is deleted only when none is left. The heir is
  whoever stands longest: that there is one rests on the numbers being well
  founded, for arrivals and then for ids.

### What screens hear (`Watching_proofs`)

* **Types and plans.** `Typed` adds to the types that what a request has left to
  do is one of the few `Shape`s its kind of ask can leave, by which `RestFits` and
  `PlanKinds` say what comes next, and that whatever is not busy holds no work.
* **Caught up.** `CaughtUp` speaks of a screen at rest; its invariant has to say
  where an announcement is until then. `Reached`: it is lagged or in the
  receiver, or has nudged the loop, or a load has read as much, or it is on the
  screen. `Hears`: that is so of every version that is `Due` to a screen that has
  read since it subscribed. Due is what finished requests announced, and what a
  renaming, which announces in two steps, has announced so far: a screen that
  reads between the two has it in its load, and needs nothing else because the
  write came first (`DueIsThere`). `Covers` says of a request that has written
  that what it owes is among what it has still to announce. A lag is no exception
  anywhere (`AnnounceReaches`, `ReceiveHears`): it counts as having been reached.
  Two loads at once are (`Listening`): the older answer may come last.
* The proof asked for two of the exceptions of `Owed` and `StillOwed` that TLC had
  not met, both when a list is deleted and its id given to somebody else's
  while a removal or a joining is under way, and the old owner is not told.

### What is sorted (`Sorting_proofs`)

`InTurn` finds the element at each place by how many come before it. For a
relation that tells any two of a finite set apart, the number of those before is
another for each element (`RanksTellApart`), so that every element has its place,
each once, and the sooner placed come before (`Sorted`); what is kept of a sequence
is kept in turn (`KeptInTurn`). The rows of a page, the aisles of a walk, the ranks
of what is offered and its best matches are all put in order by it; each proof
has to show only that its comparison is total, ids and spellings breaking the ties.

### Whose a note is, and what pages show (`Notes_proofs`)

`NotesInv` adds to the types that a request under way has left to do what its kind
can leave (`LeftToDo`), and `Checked`: of a request that is about to change a
note, that the note is its asker's, or gone, or its id has been given since. What
was checked stays so while others act (`CheckedStays`) because no statement gives
a note to another author (`AuthorsStay`) and a new row's id was free.

* **Walks.** `PagesAddUp` is about a walk of many statements while others write.
  `WalksInv` says how far it has come (`Reached`): while none of theirs is erased, a
  row's place only moves back, so whatever stayed and is placed before that point
  has been met (`Met`); while none is written, it only moves forward, so whatever
  was met is before it (`Behind`). A page meets the places from its offset on, and
  the next begins where it ended, no further if it was full and no nearer while
  there is more.
* **Any table.** The invariant is that `cells` is a table; the rest is about the
  pages of one. The last page is the least that nothing comes after; a page before
  it is full, one after it empty, so `has_more` is false exactly from there on; and
  its number is the count divided by the size, rounded up, as `total_pages` computes
  it without overflow. The place of a row is the number of rows before it, and each
  place is on one page, at one place of it.

### What a line means and what is offered (`Shopping_proofs`)

* **Reading.** `ParseFits`: every line reads as a name that is not empty, a
  quantity and a unit there is. The longest spelling of a unit is found by `CHOOSE`;
  that there is one rests on numbers being well founded.
* **Lines in full.** For each form the parser tries, a lemma says which words of the
  line make up what it reads and that together they are all of it; at most the one
  word in which a number is glued to a unit is taken apart. For the five ways of
  saying one thing, what is to be shown is that no other unit is found in them: a
  word of a plain name is in no unit (`InNoUnit`), so whatever matches from the
  number on ends where the unit does, and the longest is the one that was said.
* **Offers.** Names that differ are spelled differently (`NamesAreApart`): a word
  stands at one place of the spelling and reaches to the next space, and begins
  with the digits of its number or not. Of two remembered names one therefore
  ranks before the other, and `Sorted` gives the ranking; of those that match, the
  score and then the place in the ranking tell any two apart, and it gives the
  offer, whose first few are the best.

### One list (`Shopping_proofs`, `ShoppingHistory_proofs`)

* **Types.** `ShoppingInv` adds `WorkOK`: a request under way still has to do what
  its kind can leave, and has what its next statements need in hand (a row, a
  name, the aisles to file it under). One lemma per statement.
* **Orders.** Setting an order is one transaction that takes the old one away and
  lays the new one. What is to be shown is that nothing but that, a move and the
  deletion of an aisle touches anybody's order: a request that begins (`Fresh`) or
  ends is never half-way through one, and taking out an aisle that is in no order
  changes none.
* **Saying.** `SayShape` follows the name read off the line through the plan: the
  look-up is for that name, the row to be put back is called that unless it
  `strayed`, and once past either statement it has been listed. It is the renaming
  that the proof asked for, and TLC confirmed it when a scene was added.
* **Filing.** `FileShape`: while nobody else writes, the row in hand is there
  under the name that was read, and the aisles found for it are the ones it holds;
  so what is recorded last is what it ends with.
* **Foretelling.** Each statement of a line has one lemma that says what it does
  (`LineRead`, `LineSought`, `RowMade`, `RowPutBack`, `LineRecorded`,
  `MemoryPruned`, `FilingFound`, `FiledUnderOne`). `Tells` says, at each of them,
  what is already so of what was foretold while nobody else writes: the rows are
  as they were found; or the line has landed on the row foretold (`LandedAs`); or
  the row foretold is there, filed so far (`MadeAs`), and what the memory holds of
  its name is what was foretold, or has just been forgotten. That last clause is
  the exception the property states: pruning may drop the name between the
  making of its row and the look-up of its aisles.
* **Saying it again.** `Settles` follows a line to the oldest wanted row that says
  it (`LandsOn`), remembered in that row's unit and filed under all its aisles:
  the line then `Stands`, and goes on standing while nothing is written. `Repeats`
  follows it when it is said again: what stands is found again by the same rule,
  recorded under the same name in the same unit, and every aisle is already
  there. What had to be seen is that the second look-up is for the same unit:
  what the first was recorded in either is that unit or leaves what the memory
  held, so a line that states none reads the same again.
* **Pages.** `BoardShape` says of a page that is being read what has been read of
  the rows nobody touched (`RowsAreRead`), of what they are filed under
  (`FilingIsRead`) and, the orders and aisles being left alone, of the order chosen
  and the aisles in the shop's order. The heading of a row is then the first place
  of that walk it is filed under (`FirstOf`), and the walk is what was chosen, then
  what is left by the shop (`Sorted`).
* **Imports.** `BringInv` says which part of which row of the cache an import has in
  hand (`Asking`), what the rows of the first so many have become (`HeldFor`), and
  what the row in hand is so far (`InHandAs`); `TurnsOut`, for each statement, what
  it leads to. Twins are what makes it long: the name and amount are the first's,
  the tick the last's and the aisles everybody's, while each of them passes through
  the statements of its own.
* **Offers.** What is offered is the best of any finite set of candidates
  (`OfferIs`). The memory is finite because a statement remembers
  one name more at most (`SuggestingInv`), and its names are apart because each is
  remembered under itself.
* A step of anybody else is dealt with once, without looking at what it is
  (`ShapesStand`, `TellingStands`, `SettlingStands`): it leaves the plan alone, and what the shape says of the tables
  is either kept, or `alone` and `strayed` note that it was not. `StepAt` says
  which statement the request that does act is at.

### Only model-checked

* Liveness (`QueueDrains`, `KeepsUp`, `StopEndsTheWait`) is beyond the prover.
* The sentences shown not to hold, which no proof could reach.

To be reasoned about, a model was rewritten in some places without a change in
what it does: `Forget` and `RazeAisle` take an element out by position (`Without`,
`WithoutAisle`) where they filtered the sequence before, `OpeningPlan` tells its
cases apart by `IF` where two guards of a `CASE` could hold at once, an
announcement says what goes on each of the two channels (`Said`) where one
sequence was sorted by channel, an import keeps what is left of its two loops
(`BringNext`) where a recursion unrolled them, `Record` writes the memory as one function, what is
put in order is put there by `InTurn` and what is left out of a walk by `Keeping`
(`Ordered`, `ByShop`, `Ranked`, `Matching`, `WholeWalk`) where a recursion sorted and
filtered before, a use is worth `Worth` of its age where powers of two were computed,
and the lines to be read, the tables to be listed and the queries to be answered are
typed, written and asked for step by step where a property quantified over them all.
A recursion over a line is left in `Spelling`, as a fold whose definition is
unfolded one word at a time.
The change to `OpeningPlan` was more than form: which of the two a `CASE` takes is not determined,
TLC takes the first. One was wrong and was corrected: a removal that finds no
member's row is refused and tells nobody (`Lands`).

## 5. Not modelled, and why

* **Device cache, overlay, handover; watch link.** What a screen of a phone shows
  while changes are queued, the adoption of list ids, the handover of lists made
  without a server, and the phone answering a watch. `OfflineSync` has the queue
  under them; the cache itself is planned below.
* **Android.** Its outbox settles answers the same way as the Swift one
  (`Outbox.kt`, `drain`); `OfflineSync` is written from the Swift alone.
* **Edits on a stale row, online.** An online edit that carries the row the
  client saw is an action of `SyncServer`; in `Shopping` edits carry none.
* **Aisles' names and units.** Renaming an aisle writes three columns no other
  operation reads, and the uniqueness of an aisle's name is a constraint of the
  table. Creating, renaming and deleting units has no caller outside the tests.
  `Listing` has both as far as a listing sees them, a row with a column.
* **Front ends.** Cookies and CSRF of the browser's session, the verification of
  a provider's token (`jwks`), rendering, the badges of an index, and the
  marshalling through C and JNI: none of them holds state these properties are
  about. Routes are modelled as what can be asked.
* **Process.** TLS, metrics, logs, configuration other than `ALLOWED_EMAILS`,
  site and release scripts.
* A whole batch refused by JSON decoding is a request that fails: to the device
  it is a lost connection that comes back for ever, which `Fairness` rules out.

## 6. Plan

In this order:

1. **`DeviceCache`** composed with `OfflineSync`: the cache, the overlay of the
   queue over an answer, adoption of list ids and the handover. Promised: a row
   added offline stays on the screen until its add is answered; a deleted list
   is not made again by a handover; a list has one row whatever drains overlap.
   The Kotlin twin is compared here.
2. **`WatchLink`**: a tick on the wrist lands once or is still queued.
3. Candidates for disagreements still to be stated: "attach wins over a
   concurrent detach" (`docs/offline.md:62`), a transient failure answered as a
   refusal that drops work (`sync.rs:284`, `:468`), and a suggestion on a device
   chosen from the six most recent memories only (`web/embedded/src/lib.rs:596`).
