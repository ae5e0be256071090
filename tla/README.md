# A TLA+ verification of EVE Buddy

EVE Buddy (Go, Fyne UI, SQLite) mirrors the data of EVE Online characters on
the user's device and tells the user when it changes. Behind the UI, it is a
synchroniser: many goroutines fetch sections of data from the game server (ESI),
store them, keep a status of every section in the database and a copy of that
status in memory. What makes it hard is not one algorithm but that all of this
goes on side by side, and that every step may fail or be cut off by the end of
the process.

The modules here describe that synchroniser from the login to the pages that show
the data: what decides that a section is updated, what each update writes and in
which order, what it needs of the game's universe, how the user is told, which
pages are refreshed, and what is kept on disk. TLC checks them on small instances;
TLAPS proves invariants of eight of them, and that the queue implements its abstract
specification, for all values of the constants.

Contents: 1 the system; 2 the plan; 3 the modules and how they correspond to
the code; 4 the runs; 5 bounds; 6 fairness; 7 proofs; 8 where the code departs
from its documentation; 9 what is not modelled.

## 1 The system

### Components, their state and their operations

All paths are below `src/internal/` unless they say otherwise.

| Component | Code | State | Operations |
|---|---|---|---|
| Section updates | `app/characterservice/section.go` | the singleflight group, the data and the status row of every section of every character | `UpdateSectionIfNeeded`, `updateSectionIfChanged` |
| Section status | `app/storage/charactersectionstatus.go`, `app/charactersectionstatus.go` | completion time, content hash, error, start time of a section | transactional read-overlay-write; `IsOK`, `IsExpired` |
| General section updates | `app/eveuniverseservice/sectionupdate.go`, `app/storage/generalsectionstatus.go` | the same for categories, entities and prices, without a hash | `UpdateSection` |
| Status cache | `app/statuscacheservice/statuscache.go` | a copy of all status rows and of the list of characters in the memory cache | `InitCache`, `CharacterSectionSet`, `GeneralSectionSet`, summaries |
| Tickers and refresh | `app/ui/ui.go` | the current character | a goroutine per section every minute; refresh of the pages that show it |
| Pages | `app/ui/character/`, `app/ui/characteroverview/` | what each page shows, and the list that is open in it | `Update` of 22 pages, opening of lists |
| Section data | `app/characterservice/*.go`, `app/storage/` | the rows of a character | 18 updates; sending, reading and deleting mails |
| Tokens | `app/characterservice/token.go`, `sso/` | access and refresh token of a character | get a valid token, refresh it |
| Queue | `syncqueue/syncqueue.go` | a slice, two mutexes, a condition variable | `Put`, `Get`, `GetNoWait` |
| Snackbar | `widget/snackbar.go` | running flag, two unbuffered channels, popup | `Show`, `Start`, `Stop`, close button |
| Migrations | `migrate/migrate.go` | the schema and the list of applied migrations | `Run` |
| Caches | `memcache/`, `app/pcache/` | memory copy and stored copy of blobs with expiry | `Get`, `Set`, `Exists`, `Delete`, `Clear`, clean-up |
| Notifications | `app/characterservice/notification.go`, `contract.go`, `skillqueue.go`, `planet.go` | "processed" marks | list, notify, mark |
| Login | `sso/sso.go` | a callback server for one login | `Authenticate` |
| Universe | `app/eveuniverseservice/*.go` | the tables of game objects, shared by all characters; a singleflight group | get-or-create of about fifteen kinds of objects, updates of categories, characters and prices |
| Characters | `app/characterservice/character.go`, `app/ui/managecharacters.go` | the characters and the current one | add, delete, switch |

`PROJECT.json` lists them again with every remaining part of the repository and
the reason why a part is left out.

### How they interact

- The ticker of `ui.go` spawns a goroutine per character and section every
  minute; the user may force updates at any time. Each goroutine calls
  `UpdateSectionIfNeeded`.
- Inside, golang.org/x/sync/singleflight merges the goroutines that ask for the
  same section: one of them leads a run, the others wait for its outcome. Before
  singleflight, every goroutine reads the status row; after it, every one of them
  records a failure.
- A run writes the start mark to the row, gets a token, fetches, compares hashes,
  writes the data if the hash differs, and records the completion. Every write of
  the row is followed by a separate write of the status cache.
- The process may end anywhere. At the start, `InitCache` copies the rows into
  the cache. The start mark of a run that was cut off stays in the row.
- "Clear cache" in the settings empties the memory cache, which the status cache
  shares.
- An update of data first resolves the types, locations and entities it refers to,
  by get-or-create in the universe tables: own goroutines, another singleflight.
- After an update that reports a change, the goroutine of the ticker refreshes the
  pages that `ui.go` lists for the section, and the notifiers of the section list
  new rows, tell the user and mark them.
- The user switches, adds and deletes characters while all of this goes on.
- The UI sends messages to the snackbar, which takes them from its queue.
- Images and HTTP responses go through the persistent cache, a table of the same
  database, whose schema the migrations bring up to date before the UI starts.

### What is hard

- *Interleavings*: two runs of one section; the outcome of one run recorded
  after a later run; the row and the cache written in opposite orders; a signal
  between a look and a wait.
- *Partial failure*: a run is dozens of writes, and none of its failures undoes
  the writes before it; some are logged and skipped, and the run succeeds.
- *Restart*: marks in the database whose goroutine is gone; migrations and token
  refreshes cut off between two writes.
- *Staleness*: what a page shows was read before, perhaps for another character; a
  recorded hash describes rows that were deleted meanwhile.
- *Retry*: what a failed run missed must be seen as changed by the next one.
- *Liveness*: waiters of singleflight, getters of the queue, the UI goroutine
  in an unbuffered send.

### What makes each component correct

- Section updates: one run per section; the recorded hash is the hash of what the
  database holds, but for what an update skipped or others wrote; failures never move the hash or the completion time; a start
  mark has an owner; each call returns; changes reach the database and the UI;
  errors and marks go away.
- Status cache: equal to the rows but for the moments between the two writes.
- General sections: as above, and the row shows the outcome of the last run.
- Queue: FIFO, each item to one getter, none lost; no getter sleeps next to an
  item; cancelled getters return.
- Snackbar: one loop owns the popup; messages are shown in order, each once; they
  go on; the UI is not blocked.
- Section data: the rows are what ESI sent when the recorded hash was computed.
- Universe: no row before the rows it refers to; one creation of an object at a
  time; no goroutine waits for ever for another one's creation.
- Pages: when nothing is running, each shows what the database has of the character
  that was chosen last; sections that run side by side write different data.
- Tokens: the stored refresh token is one the server accepts, and of the last login.
- Migrations: what is recorded was executed; what was torn is the only reason to fail.
- Caches: what was set is found until it expires, what was removed is not.
- Notifications: each shown at least once, and at most once without a crash.
- Login: what the browser's page says is what the login returns, and it ends.

The hazards behind these, each with its line and the properties that would
catch it, are in `PROJECT.json`.

## 2 The plan

In the order of importance for the user's data. Done:

1. `SectionUpdate`: section updates, status rows, status cache, restarts, with the
   theorems on typing, one run at a time, and the hash.
2. `FifoQueue`, `SyncQueue`: abstract and detailed queue, with the theorems on
   typing, stranded items and the refinement.
3. `Snackbar`, which extends `SyncQueue`.
4. `GeneralSection`: the other update protocol.
5. `CharacterData`: what the eighteen updates do to the rows of a character, with
   notifications, mails and the deletion of the character beside them.
6. `Universe`: get-or-create of game objects.
7. `Queries`, `Storage`, `EveUniverseService`, `EveNotification`, `CharacterService`,
   and on top of them `Pages`: which pages show what, and how they follow the database.
8. `Credentials`: login, token refresh, storing of tokens.
9. `Stores`: migrations and the persistent cache.

10. The remaining invariants of `SectionUpdate` and all invariants of `GeneralSection`,
    `Snackbar`, `Stores` and `Credentials` as theorems, and of `Pages` the one about the
    user's choice.
11. The three invariants of `Universe` as theorems, for any catalogue of objects.

To do:

12. Theorems on `CharacterData` (`HashStandsForRows`, section by section).
13. The binary split of `resolveIDs` (`entity.go` 112-181) as a function, checked
    against "the ids the server knows".

The section updates have no abstract specification as the queue has: their
promise ("what the server has") is one of liveness, which `ChangeArrives`,
`RowsConverge` and `DataArrives` state directly.

## 3 The modules

| Module | Role |
|---|---|
| `SectionUpdate`, `MCSectionUpdate` | character sections, status rows and cache, restarts |
| `SectionUpdateProofs` | its theorems |
| `GeneralSection`, `MCGeneralSection` | general sections |
| `GeneralSectionProofs` | its theorems |
| `FifoQueue` | what the queue promises |
| `SyncQueue`, `MCSyncQueue` | how the queue does it, with the refinement mapping |
| `SyncQueueProofs` | its theorems |
| `Snackbar`, `MCSnackbar` | the snackbar, composed with `SyncQueue` by EXTENDS |
| `SnackbarProofs` | its theorems, on top of those of the queue |
| `CharacterData`, `MCCharacterData` | the rows of a character under updates, notifiers and the user |
| `Universe`, `MCUniverse` | creation of game objects on demand |
| `UniverseProofs` | its theorems, for any catalogue |
| `Queries` | per SQL query: the tables and columns it reads and writes |
| `Storage` | per method of the storage: its queries |
| `EveUniverseService`, `EveNotification`, `CharacterService` | per operation of the three services: its queries |
| `Pages`, `MCPages` | pages, their refresh and the current character, on top of the five before |
| `PagesProofs` | its theorem |
| `Credentials`, `MCCredentials` | logins and tokens |
| `CredentialsProofs` | its theorems |
| `Stores`, `MCStores` | migrations and persistent cache |
| `StoresProofs` | its theorems |

`SectionUpdate` hands over to three of the others. It takes "the writes of an
update" as two steps; `CharacterData` has them one by one, and takes from it that
one update of a section runs at a time and that the hash is recorded at the end.
It takes "what the UI shows" as the result of one refresh; `Pages` has the
refresh of every page. It takes "get a token" as a call that may fail;
`Credentials` has what happens in it. `CharacterData` in turn takes "resolve what
the row refers to" as a call that may fail; `Universe` has it.

A definition with a comment that begins with "Mutant" is a wrong variant of the
one after it. It is no part of a specification: replacing the original by it must
make TLC find a property violated, which shows that the property depends on that
line of the code.

### SectionUpdate

A *key* is one section of one character, a *caller* a goroutine. The program
counter `call[c].pc` stands at the next line with an effect:

| Code (`section.go`) | Actions | pc before |
|---|---|---|
| 20-24 the call | `Begin` | idle |
| 24-34 read the row, return if it is good and recent | `Check` | check |
| 77 singleflight | `Enter` | enter |
| 108-117 write the start mark | `RecordStart` | start |
| 118 cache | `PublishStart` | startset |
| 119-131 token, fetch, hash | `Fetch` | fetch |
| 132-144 compare with the row | `Compare` | compare |
| 145-147 write the data, first write and the rest; e.g. `contract.go` 147-217 | `ApplyFirst`, `ApplyRest` | apply, applying |
| 150-166 write the completion | `RecordCompletion` | record |
| 167-170 cache, return to singleflight; `asset.go` 165-173 | `PublishCompletion` | recordset |
| 80-92 record the failure | `RecordError` | fail |
| 93-94 cache, return | `PublishError` | failset |
| 96-97 return; `ui.go` 743 | `ReturnOk` | ok |

A run that succeeds has not always stored what it was sent. The updates of contracts
(`contract.go` 184-214), wallet transactions (`wallettransaction.go` 67-76), mails
(`mailupdate.go` 268) and notifications (`notification.go` 109-113) skip items and
return success, and the hash of the whole list is recorded: they are `Lenient`, and
`ApplyRest` may end them with the data as `Torn` as it was. And some data is written
by others, under the same hash: adding a character that is there empties columns of
its row (`storage/character.go` 254), and the user reads, sends and deletes mails.
These sections are `Edited`, and `Edit` may come at any time, also between the two steps
of an update, which then ends in `ApplyRest` with what it wrote or what the other wrote.

Any failing call inside a run is `FailFlight`. `EndFlight` is the return of the
function that singleflight runs: leader and waiters get the outcome and the key
is free. The two are one step, since goroutines that come in between only find
out later.

Abstractions, and why they lose nothing the properties speak of:

- a *content* stands for the data of a section and for the hash of it (MD5
  collisions are left out); `Torn` is what an interrupted series of writes, a run that
  skipped items or a writer other than an update leaves, equal to no content;
- a completion time is "never", "fresh" or "expired"; only `IsExpired` looks at it.
  `Expire` makes it old at any moment;
- error texts and start times are Booleans: the code asks whether they are empty;
- a missing row is the row of defaults: `UpdateOrCreate...` starts from the same
  defaults, and both count as not current. The code never writes a row that
  equals it without a start mark or an error;
- the transaction of `UpdateOrCreate...` is one step: the connection for writes is
  limited to one, so transactions do not overlap;
- two runs of different sections share nothing but the token.

`shown` is the content when the pages last read it, as the refresh in `ui.go`
does after a call that reports a change or was forced. `interrupted`, `differs`,
`orphaned` and `displaced` are history variables. They guard no action, but that
`ApplyRest` asks `differs` whether somebody has written since the run began to write.
They say, precisely, in which cases a property is *not*
claimed; e.g. `displaced[k]` becomes true exactly when a row is written while
another goroutine stands between its write of the row and its write of the
cache, or when the cache is cleared, and false at the next undisturbed write.
`differs[k]` says why the data may not be what the last run got: "skipped" by a lenient
run that left something out, "edited" by somebody else, and "no" again as soon as a run
begins to write. `CharacterData` says of each section *what* it skips.

### GeneralSection

The same shape for `sectionupdate.go`, with three differences that matter. The
outcome is recorded by *every* caller outside singleflight (62-92), success too,
so that a slow caller of an old run may write over a new one. There is no hash:
what runs always applies. And a failure that was recorded is reported to the
caller as "no change, no error", since line 70 declares a second `err`.
An update may succeed and leave something out here as well: a type that the database
has is not looked at again, though the creation that stored its row failed before
its values (`inventory.go` 117-159) or though it has changed at the server, and a
character keeps the alliance or faction it has left. Sections where that can be are
`Lenient`; `skipped` is the history of a last run that did so, and `DataArrives` excepts it.
What is left out is the subject of `Universe` (`PartialTypesHaveCause`, `TypesAreComplete`).
The history `mixed` says that the row did not get its contents from the latest
run; `call[c].err` is whether the call returned an error.

### SyncQueue and FifoQueue

`smu`, the mutex of the slice, guards sections in which nothing else happens;
each is a step. `cmu`, the mutex of the condition variable, is visible: a getter
holds it while its pc is "empty", between finding nothing (line 56) and waiting
(line 61), and `Put` (74-80) does not take it. `Free` is "nobody holds cmu". The
goroutines that `context.AfterFunc` starts are the counter `broadcasts`. Signal
may wake any sleeper: the documentation of sync.Cond promises no order.

`missed` says that a signal went to nobody who could use it, with the item
still there; `deaf` is the set of getters whose broadcast came before they
waited. The properties state that those two cases are the *only* ones.

`FifoQueue` knows a sequence and the outcome of every call. The mapping is
`Outcome`: everything between entering and having a result is "waiting".
`GetNoWait` is part of `Look`; it is called nowhere else. `Size` and `IsEmpty`
read and change nothing.

### Snackbar

A getter is the loop of one `Start`, so that a new start is a new getter with a
new context and a new watcher goroutine. `Dismiss`, `LoopStops` and
`WatcherStops` are rendezvous on the unbuffered channels: one step of sender and
receiver. The timer starts with the select and takes seconds, so a sender that
is there is served first (`NoSender`); when it has fired, the loop is on its
way to hide the popup (pc "hide"), and a tap in that moment finds no
receiver until the next message is shown.

### CharacterData

A behaviour is about one of the eighteen sections of one character; the section is
chosen at the start. Every routine of `characterservice` that changes rows is an
operator of the routine's name (`updateContractsESI`, `fetchAndStoreMail`,
`SendMail`...) that yields the *sequence of its steps* for what was fetched and
what the database has: which call or write, on which item, and what its failure
does (end the routine, skip the item, or fail when the errgroup is joined). The
methods of the storage (`CreateCharacterMail`, `ReplaceCharacterSkillqueueItems`)
are sequences of the same kind: one step where the code has a transaction, several
where it has none. `Work` takes the next step of the updater, `User...` of the
user, `Notification` of a notifier, in any order.

Items have versions 1 and 2, of which ESI has one at a time; *parts* are rows that
belong to a row (the items of a contract, recipients and labels of a mail, the pins
of a planet, title and body of a notification). `RenderFails`: a notification that
cannot be rendered is stored all the same, without title and body, and one that had
them loses them. An update of known notifications first reads each of them; one that
cannot be read is logged and skipped (`GetCharacterNotification`, notification.go 109-113).
The *bids* of auctions are counted: `offers` are those of ESI, `bids` the stored ones.
`updateContractBids` fetches them after the contracts of the list, so that it runs only
when the list has changed, and its failure is logged and skipped. `Bid` is somebody's
new bid, which leaves the list as it is. `hash` is what the recorded hash is of: the versions of all items.
`Single` sections have one item, `Keeping` ones never delete rows, `Composed` ones
have parts, `Summed` ones also write a sum into the row of the character, and
`Notifying` ones have a notifier; each set is named for what the code of the
section does. Deleting the character removes all rows, as the foreign keys do;
adding it when it is there empties its columns and leaves the rest.

History: `cut`, `torn`, `excused` say what was given up, cut off and listed twice; `unbid`
says whose bids were given up, `asked` how many bids there were when the list was applied;
`told` is what the user was told last of each row that is there: an extraction
whose end moves away and back is a new one.

### Universe

Every routine of `eveuniverseservice` is an operator that yields the sequence of
its steps (`Fetch`, `Access`, `Need`, `Insert`, `Upsert`, `Spawn`, ...); a *job* is
a routine with its object. `Program` collects them, `Next` interprets them, one
step of one goroutine at a time. A goroutine is a stack of frames, so that a
routine that needs another object waits inside its own singleflight, as the code
does; the goroutines that an errgroup or a `go` statement starts are stacks of their
own (`Caller(c)`, `Member(t, j)`, `<<"background", o>>` are their names). `Enter` is singleflight with the key of the object, `Read` the look at the
row before it. Foreign keys are `References`: SQLite refuses a row without them,
which `WritesRefer` shows never to happen, and INSERT fails when the row is there
where the query has no ON CONFLICT clause. `cut` is the history of rows whose
routine ended before its last step.

`CatalogueAssumption` says what the code takes for granted of the game: replies name
objects that there are; where the code takes the one group of a type, region of a
constellation, system of a planet, ... from a reply (`Once`), there is exactly one; what a
dogma value stands for is a group or a type. `RequestAssumption`: callers ask for
objects of the kinds that have a routine.

### Queries, Storage, EveUniverseService, EveNotification, CharacterService, Pages

The first five have no state. `Queries` gives, for each SQL query, the tables it
enumerates, those it looks up by ID, and the rows and columns it writes; `Storage`
and the services give for each method or operation the set of queries that it may
execute, in the call structure of the code; `EveNotification` does so for every
renderer of a notification, which the update of the notifications calls. They make two questions precise:

- *Which pages show data that an update writes?* `Areas[s]`: the pages whose queries
  read a table or column that the operation of section `s` writes, restricted to the
  columns the page uses. The refresh lists of `ui.go` (`Refresh`, `RefreshGeneral`)
  are written by hand there, and are compared with `Areas` by `PagesAreUpToDate`.
- *Do tasks that run side by side write the same data?* `TasksAreSeparate`, with
  what is known to be shared named in `SharedPairs`.

`Pages` follows one source of change and one page of its areas, all of them in
turn; a page shows the version of the data that it has read, from the database and
from the copy of the current character that `ui.go` keeps. Every goroutine is a
list of things to do; a refresh is two steps, read and set, and a page asks for
the current character in the first. A page outside `Relevant` shows nothing of the
source, so that it is left out. Each page operator (`characterAssets`, ...) names the
operations that its `Update` calls.

`Gaps` are pairs of a source and a page that is not in the list for it though it
shows its data; `ListGaps` the sources after which an open list stays open;
`KeepRows`, `KeepCopy` the pages that return early when there is no character, or none
that they were told of.
`excuse` is the history of what a refresh has set while another one of the same
page overlapped it, or has not set because a read failed.

An update that fails may have written some of its rows, and so may one of a general
section, the mark of a mail, and the adding of a character whose token cannot be stored:
`WritesOrNot` and the last disjuncts of `Update`, `UpdateGeneral`, `Mark` and `Add`. `ui.go`
738-741 then returns without refreshing anything. `told` is the history of the version
that pages were last due to show, that of the last write that did not fail; a page may
show it, or any later version that a failed update has left, and nothing older (`Recent`).

`ChoiceIsFollowed` says that at rest the current character is the one that the user
chose last, that it is still there, and that an open list is of it; `PagesAreUpToDate`
says the same of the versions that the page and its open list show.

### Credentials

A token is a login, a number in the chain of refresh tokens that the login began,
and an epoch: an access token is valid in its epoch. Whether the SSO server
replaces a refresh token that is used is chosen at the start (`rotates`); if it does,
it accepts the successor only. A *worker* is a refresher (a goroutine of a section,
`token.go` 49-78) or a login (`sso.go` 93-205, then `character.go`'s
`UpdateOrCreateCharacterFromSSO`); both store a token in two steps, the row and then
its scopes (`StoreRow`, `ReplaceScopes`). A *handler* is a request to the callback
server; it may carry the state of an earlier login and arrive at any time. The
variable `ctx` of `Authenticate`, which all handlers assign without a lock, is
`values`: reading and assigning it are two steps, so that one can overwrite the
other. `lost`, `mixed` and `cutoff` are histories.

### Stores

Migrations are numbered and have one or more statements; the process may end
between any two steps (`Stop`), and a later version with more migrations may be
installed (`Upgrade`). The persistent cache follows one key: its item in memory, its
row, the goroutines in `Get`, `Set`, `Delete`, and the clean-up, which reads an item
and deletes its key in two steps. Keys of images never change their content within
the life of an entry and are fetched under singleflight; HTTP responses are not:
`kind` chooses. Clock, versions and faults are bounded.

## 4 The runs

| Run | Module | Distinct states | What it shows |
|---|---|---|---|
| `section_safety` | MCSectionUpdate | 4,279,578 | the safety invariants of section updates |
| `section_liveness` | MCSectionUpdate | 139,276 | calls return, errors go away, the cache heals, with two goroutines in each other's way |
| `section_recovery` | MCSectionUpdate | 192,948 | data arrives and marks go away across restarts, failures, changes |
| `general` | MCGeneralSection | 384,040 | general sections: safety and recovery |
| `queue` | MCSyncQueue | 38,541 | FIFO refinement, no stranded item, cancellation |
| `snackbar` | MCSnackbar | 34,619 | one loop, order of messages, nothing hangs |
| `chardata` | MCCharacterData | 239,779 | rows, hashes and notifications of all eighteen sections |
| `universe` | MCUniverse | 152,985 | creation of game objects: no deadlock, no dangling row |
| `universe_race` | MCUniverse | - | a departure of the code (section 8) |
| `pages` | MCPages | 1,072,244 | pages follow the database and the user's choice; tasks write different data |
| `credentials` | MCCredentials | 350,699 | tokens stay usable, logins have one outcome |
| `stores` | MCStores | 1,304,740 | migrations and the persistent cache across restarts |

The properties, in words:

- `SingleRun`: leader of a key and goroutine inside a run of it are the same, and
  no waiter is without a leader.
- `HashDescribesStore`: if no update of the section was interrupted, the last one
  skipped nothing and nobody else has written its data since, what the database holds
  has the hash in the row, also across failures and restarts. It is the reason why
  skipping an unchanged section is right, and where it is not.
- `RunningHasOwner`: a start mark is there only while a goroutine will remove it,
  unless the process ended or recording the failure failed.
- `CacheCoherent`: the cache differs from the row only while a goroutine is
  between the two writes, after two goroutines overlapped there, or after a clear.
- `ChangeReported`: what the UI shows is what the database holds, or a call is
  about to make it refresh; an update that skipped items is reported too. The assets
  are excepted, and data that others have written (section 8).
- `CallsReturn`, `ErrorClears`, `RunningClears`, `CacheHeals`, `ChangeArrives`:
  the recovery that the ticker provides. `ChangeArrives`: again and again the recorded
  hash is that of what ESI has; and so is the data, unless it was interrupted, skipped
  or written over.
- `StatusIsTrue`: `SingleRun`, `RunningHasOwner` and `CacheCoherent` of general
  sections; `RowShowsLatestRun`, `DataArrives` (but for what a run left out), `StatusHeals`: what
  differs there.
- `NoneStranded`: with an item there and a getter asleep, somebody is on the way
  to the item or everybody is about to be woken, unless a signal was missed.
  `EnoughTakers`, in the proofs, is the count behind it.
- `ImplementsFifo`: `SyncQueue` implements `FifoQueue`. `GetterReturns`: getters meet
  items, and a cancelled getter returns.
- `DisplayInOrder`, `MessagesShown`, `TapEnds`: the snackbar.
- `HashStandsForRows`: with no update at work and a hash recorded, every row with its
  parts and every sum is what ESI sent, and every auction has the bids there were then,
  except items that were given up, or notifications stored without their text, after a
  failure, and characters that were deleted or added again.
- `RowsConverge`, `NewsIsTold`: in the end the rows are ESI's, with the same exceptions, and what the user is to
  be told is told. `TellsOnce`: the same twice running only after a crash, an overlap, or in the two
  cases of section 8.
- `FlightsAreExclusive`: one goroutine creates an object, and who waits for it waits
  for a goroutine at work. `WritesRefer`: rows only after what they refer to.
  `PartialTypesHaveCause`: a type lacks its values only while it is created or after
  its creation was cut short. `RequestsSucceed`: every request is answered in the end,
  also for types that mention each other.
- `PagesAreUpToDate`, `ChoiceIsFollowed`, `TasksAreSeparate`: see `Pages` above.
- `StoredTokenIsRight`: the server accepts the stored refresh token, and it and its
  scopes are of the last login, except after named failures and overlaps.
  `SuccessIsHeard`: when the browser was told of success the login returns the token.
  `TokenHeals`, `LoginsEnd`: liveness of both.
- `MigrationsFit`: what is recorded was executed to its last statement, and a start
  fails only over a migration that was cut off. `CopiesAgree`: what was set is found,
  what was removed is not. `AnswersAreLatest`: nobody gets an older image than the one
  that was set when he asked.

Some properties are conjunctions of parts that are named in the modules. The typing
of variables is one of these parts, except in `SectionUpdate` and `SyncQueue`, where
it is an invariant of its own that the proofs start from.

## 5 Bounds

| Run | Instance | Why it is enough |
|---|---|---|
| `section_safety` | 1 key, lenient and edited, 2 callers, 2 contents; 1 failure, restart, change, clear and edit each | keys share nothing; two callers make leader and waiter, leader and late recorder, and a row written between two writes of another; two contents and one change give "changed", "unchanged" and "changed back"; the key may skip and be written by others but need not, so that the behaviours of a strict section are among its own; it is not that of the assets, which `ChangeReported` excepts |
| `section_liveness` | 1 key, 2 callers, 1 content; 1 failure, 1 clear; the key has steps after its completion | the overlaps of two goroutines, with the failures that come after the completion |
| `section_recovery` | 1 key, lenient and edited, 1 caller, 2 contents; 2 failures, 2 restarts, 1 change, 1 edit | a second failure or restart during the repair of the first, and an edit within an update or between two |
| `queue` | 2 getters, 2 items, at most 3 in the queue and 3 pending broadcasts | one getter asleep and one on the way, more items than getters |
| `snackbar` | 2 starts, 2 callers of `Stop`, 2 messages | stop and start again with a stale watcher of the first start |
| `general` | 1 lenient section, 2 callers, 2 contents; 1 failure, and 1 restart, change or clear | two callers of one run, and a run after it |
| `chardata` | 2 items (planets: 1), 2 versions, 1 notifier (contracts: 2), 1 auction; 1 event (planets: 2) and 1 fault (mails: 1 of both together) | one item fails while the other goes through; one event is a change, a bid, an act of the user or a deletion in the middle of an update, one fault a failing call or a restart at any step; with two the end of an extraction moves away and back |
| `universe` | 23 objects, ten pairs of requests, 1 fault | the catalogue has an object of every kind, two types whose values mention each other, and pairs of requests that need the same objects from different sides |
| `universe_race` | the same without a fault | the departure needs no failure |
| `pages` | 2 characters; 2 or 3 events | the update of one character during a switch to the other, and back; the sources that most pages show have 2 |
| `credentials` | 2 refreshers, 1 login, 2 handlers; 1 expiry, 1 fault | two goroutines with the same refresh token and a login that overtakes them; a handler of this login and one of an earlier one |
| `stores` | migrations of 2 and 1 statements, 2 goroutines, 2 versions, times 0-2, 2 faults | a crash within and after a migration, and a second one in its repair; two goroutines that set the same key beside the clean-up |

Every bound is a constant and stands in a guard: `MaxFailures`, `MaxRestarts`,
`MaxChanges`, `MaxClears`, `MaxEdits`, `MaxEvents` and `MaxFaults` bound the environment,
`MaxItems`, `MaxBroadcasts` and `MaxSent` the queue, the pending goroutines and the
messages, `MaxExpiries`, `MaxVersion`, `MaxTime` time and the server, and `Limit`, per
section or source, events, faults and items together. Under the liveness properties they
mean "once failures stop".

Symmetry is used only in runs without liveness.

Deadlock is checked where new calls always come. It is not in `snackbar`, `pages`,
`credentials`, `universe`, `universe_race` and `stores`, where all may rest when the
bounded events have happened; that nobody waits for ever is stated there by
`TapEnds`, `LoginsEnd`, `RequestsSucceed` and, in `pages`, by the fact that its
properties speak of the states at rest.

## 6 Fairness

- `WF(Step(c))`: a runnable goroutine runs; requests to the server have timeouts
  and therefore end, well or with an error.
- `WF(Expire(k))`: time passes.
- `SF(\E c : Begin(c, k, FALSE))`: the ticker calls for every section every
  minute. It spawns a fresh goroutine each time; in the model the goroutines are
  few, and one that is free again and again is the next. Nothing obliges the user
  to force an update, the server to change or the process to end. The app is
  taken to be in the foreground and online: in the background the mobile version
  skips its updates on purpose.
- `SF(Look(g))`, `SF(Broadcast)`: both lock `cmu`, which others take in between;
  sync.Mutex hands itself to a waiter that has waited for a millisecond
  ("starvation mode"), so that a waiter cannot be overtaken for ever.
- `WF` on rendezvous, timers and the snackbar's loop: a sender and a receiver that
  both wait do meet. Nobody is obliged to call `Show`, `Start`, `Stop` or to tap.
- `CharacterData`: `WF(Update)` (the ticker updates the section again and again, and
  its steps go on), `WF(User)` (the steps of an act of the user that has begun;
  acts themselves are not obliged to happen), `WF(LabelsArrive)` (the section of
  mail labels is updated too), `WF` of the notifiers, which the ticker calls as well.
- `Universe`: `WF(Progress)`. The steps of goroutines and the calls of the callers
  run out by themselves, so that weak fairness of their disjunction is that of each.
- `Credentials`: `WF(Refresh(r) \/ Store(r))`: the goroutines of the sections ask for
  the token every minute and go on; `WF(Finish(l) \/ Store(l))`: a login whose
  server was told to stop goes on. Browsers and users are not obliged to anything.
- `Pages` and `Stores` are checked for safety only; their specifications state none.

## 7 Proofs

`tlapm` proves, for any number of keys, callers, contents, getters and items and
for all bounds:

- `SectionUpdateProofs`
  - `TypeCorrect`: `Spec => []TypeOK`.
  - `OneRunAtATime`: `Spec => []SingleRun`. `SingleRun` is inductive relative to
    `TypeOK`: each step moves a caller in a way the lemmas `GotoMoves`,
    `WriteRowMoves`, `EndFlightMoves`... describe, and only `Enter`, `EndFlight`
    and `Restart` touch `flight`.
  - `HashIsRight`: `Spec => []HashDescribesStore`. It is not inductive: at "record"
    it must be known that the data in hand is what the database has. `StoreInv`
    adds that: a caller past the compare either has applied what it fetched (then
    the store has it, if the section is `Settled`: it skipped nothing and nobody
    wrote since) or found it equal to the hash (then the row has it), and a
    caller in the middle of its writes has marked the section as interrupted. Why
    no other update changes store or hash meanwhile is `SingleRun`; an edit may come at
    any moment, and takes the section out of what is claimed until the next update.
  - `StartMarkIsOwned`: `Spec => []RunningHasOwner`. With `TypeOK` and `SingleRun` it is
    inductive: who sets the mark leads the run, and a leader leaves it only by the
    record that clears it, or by an error whose record clears it.
  - `CacheShowsRow`: `Spec => []CacheCoherent`. `CacheInv` adds what a goroutine between
    its two writes has in hand: unless another one wrote the row meanwhile
    (`displaced`), it is what the row holds.
  - `ChangesAreReported`: `Spec => []ChangeReported`, from `StoreInv` again: what a call
    has applied, or left after skipping, is what the database holds when it returns
    "changed".
- `GeneralSectionProofs`
  - `StatusStaysTrue`: `Spec => []StatusIsTrue`, that is typing, one run at a time,
    owners of start marks and the coherence of the cache, along the same argument; the
    recorders stand outside singleflight here, so that `orphaned` and `displaced` move
    in other places.
  - `RowTellsOutcome`: `Spec => []RowShowsLatestRun`. `OutcomeInv` adds that a caller on
    its way to record knows the outcome of the latest run of its section, or another
    one has begun since and the section is `mixed`.
- `SyncQueueProofs`
  - `QueueTypeCorrect`: `QueueSpec => []QueueTypeOK`.
  - `ItemsAreTaken`: `QueueSpec => []NoneStranded`, through `EnoughTakers`, which is
    inductive: each `Put` that finds a sleeper adds an item and a getter on its
    way; each getter on its way that does not take an item finds none; a getter
    that gives up was woken by a broadcast, which wakes the rest too, or else is
    the case `missed`. `NoneStranded` follows with cardinality zero.
  - `QueueIsFifo`: `QueueSpec => ImplementsFifo`, step by step.
- `SnackbarProofs`
  - `SnackbarUsesFifo`: `Spec => QueueSpec /\ ImplementsFifo`. Every step of the snackbar
    is a step of the queue or leaves the queue alone; what was proved of the queue
    therefore holds of it, `SnackbarLoopWoken` (`Spec => []NoneStranded`) among it.
  - `MessagesInOrder`: `Spec => []DisplayInOrder`. That one loop at a time owns the popup
    makes at most one getter hold a message; what was displayed, what it holds and what
    is in the queue are then, one after the other, what was put.
- `CredentialsProofs`
  - `BrowserTellsTruth`: `Spec => []SuccessIsHeard`. `HeardInv` says where every value in
    the context of a login comes from: a handler puts in what it has read *before* and
    its own result, so that a result that is overwritten leaves an error of another
    handler or another token behind; a handler at work has a server that listens or
    one that did not wait for it.
  - `TokenStaysRight`: `Spec => []StoredTokenIsRight`. `AccInv` follows the chains of
    refresh tokens: the server accepts one of each chain; all copies in the database
    and in the hands of goroutines are at most that one, and *behind* it while the
    new one waits to be stored, so that no second goroutine can use it up before. A
    login that is on its way has the first token of a chain that nobody else holds
    (`Settled`). `KeptInv` follows the row and its scopes: who has stored the row
    finds it unchanged when it stores the scopes, unless `mixed`.
- `PagesProofs`
  - `ChoiceStaysFollowed`: `Spec => []ChoiceIsFollowed`, for any characters, sources and
    pages. It speaks of the states at rest, so that `IInv` must say of every other
    state what is still going to be put right, and by whom. A reload that has read the
    current character before a choice is late after it (`ReloadsFollow`). A chosen
    character that is gone is about to be replaced by the goroutine of the user
    (`ChosenIsThere`). The tree of assets decides whose list opens; it is of the chosen
    character, or its goroutine, which every choice starts, is still there, and what
    other goroutines have read for it may be older (`TreeFollows`, `TreeReads`). An open
    list of another character has a goroutine that has not read yet and closes it
    first (`Closing`). While the user waits for one thing nothing else of the user's
    begins (`UserAlone`). Rows that a failing goroutine leaves behind are told to nobody:
    the pages are told of versions no newer than the data (`ToldOK`).
  - Typing needs more than types: `WorkOK` says which goroutine may do, and have read,
    what, and `VersionsFit` that a version never exceeds the events that have happened,
    since who is about to write one is alone for its character. That the list of
    refreshes of an update keeps its order is a lemma about sorted sequences
    (`OrderExists`), by induction over the natural numbers.
- `StoresProofs`
  - `MigrationsAreRecorded`: `Spec => []MigrationsFit`. `MigrationInv` adds where the loop
    stands: the migrations before the current one are recorded and executed.
  - `CopiesAnswerAsOne`: `Spec => []CopiesAgree`. `CopiesInv` adds that a goroutine which
    sets or removes undisturbed is alone, and what it has done so far.
  - `AnswersStayFresh`: `Spec => []AnswersAreLatest`. `FreshInv`: for images one goroutine
    at a time loads, and whatever is about to be set or can be read is not older than
    what had been set before.

- `UniverseProofs`
  - `FlightsAlwaysExclusive`, `WritesAlwaysRefer`, `PartialTypesAlwaysHaveCause`:
    `Spec =>` the invariants `FlightsAreExclusive`, `WritesRefer` and
    `PartialTypesHaveCause`, for any catalogue, callers and requests. All three follow
    from one inductive invariant. `StacksOK`: every stack is a chain of calls, each frame
    at a step that needs the object of the next one, and a member of an errgroup
    has a goroutine that waits for it and for its job. `FlightOK`: the keys in flight
    are exactly those that some frame executes, and one frame each. `DoneOK`: what a
    frame has behind it is done: its objects are in the tables, and the jobs of its
    errgroups as well; so it is with the jobs of the errgroup that it stands at, unless
    they are under way or one has failed. `PartialOK`: a type lacks values only while
    the routine that has stored its row goes on, or in `cut`.
  - The first half of the module is about the programs: what each routine writes
    refers to what it has got or stored earlier (`RefersBack`), a routine that creates an
    object stores it (`StoresOwn`), the row of a type is written by its own routine
    only and once, with all values after it (`WritesType`, `TypeProgram`), the skills of
    ships only after the categories (`WritesSkills`). Programs are sequences put together
    from loops over sets (`Each`), flattened by the folds of the community modules.
    What a fold yields is an induction over data, which the prover cannot do; the
    lemmas `FlattenExists` and `FlattenJoins` get round it with a least counterexample among
    the natural numbers. `Leads` states what is shown of a program in a form that
    concatenation and loops keep (`LeadsConcat`, `LeadsEach`).

All of these invariants were checked by TLC on the instances of section 5 before they
were proved. Two of the proofs found mistakes of the models, now corrected: in `Stores` a
failing fetch woke goroutines that waited for somebody else's write (two users
did not show it), and `AnswersAreLatest` excepted rows that could not be written,
which was not necessary.

Assumptions: the null values are not members of the sets they extend, the bounds
are natural numbers, in `Pages` `None` is none, `Getters` is finite, `PostSteps`, `Lenient`
and `Edited` are subsets of `Keys`, and `Lenient` of `Sections`, logins and refreshers are different goroutines, and in `Universe` the catalogue
and the requests are as said in section 3. TLC evaluates them in every
run.

Only model-checked: `CharacterData`, and of `Pages` the properties `PagesAreUpToDate` and `TasksAreSeparate`,
which depend on the contents of the tables of queries: what they come to for every
input is an induction over data, or a calculation that TLC does and the provers do not.
And all liveness properties, which are beyond the prover (ENABLED).

## 8 Where the code departs from what it says or seems to promise

One departure is a run with a counterexample, quoted in `PROJECT.json`:

- `universe_race`: two types that share an attribute are created at the same time.
  `GetOrCreate...` reads the row before singleflight and the INSERT does not allow
  for a row that is there, so that one of the two creations fails after the row of
  its type and before its values, which then never come: the row is found ever after.

The others were met while modelling. The properties except them, each by a named
history variable or set, and are shown to hold of everything else:

- *Torn updates* (`interrupted`, `torn`): an update stops half way, the server's data
  returns to that of the last completion, and the next run finds the old hash
  unchanged and leaves the torn data.
- *Late records*: a goroutine of a failed run records the error after a later run
  has succeeded; the section shows an error until its next update. In general sections
  it may be a success over a failure too (`mixed` in `RowShowsLatestRun`), and there
  `UpdateSection` returns no error when the update failed (line 70 shadows `err`).
- *Forced calls*: a forced call joins a run that was not forced and returns without an
  update.
- *Row and cache* may disagree after two goroutines overlapped (`displaced` in
  `CacheCoherent`), and after "clear cache" empties the status cache without an
  `InitCache` to follow (`src/main.go` 253-256). `CacheHeals` shows that the next
  update repairs both.
- *Assets* report an error when the total value cannot be stored after the
  completion was; the change is then never reported as such (`PostSteps` in
  `ChangeReported`).
- *Queue*: an item put between a getter's look and its wait wakes nobody (`missed`);
  a context that is cancelled before the getter waits is not noticed until the next
  item (`deaf`). From the snackbar: a stop signal may be taken by the watcher of an
  earlier start, or by a watcher whose loop then calls `Get` with a cancelled
  context. What is left there is a goroutine that never ends.
- *Snackbar*: a tap on the close button after the timeout blocks the UI goroutine until
  the next message, and dismisses that one (`TapEnds` says "at most until then").
- *Given up* (`cut`, `unbid`; `differs = "skipped"` in `SectionUpdate`): a contract that
  could not be created or updated, a wallet transaction that could not be created and
  a known notification that could not be read are skipped, a notification that could
  not be rendered is stored without its text, and a mail is taken for complete
  without its recipients or labels, or with its old ones, while the hash of the
  whole list is recorded. They are not tried again until the list changes. The bids
  of an auction are skipped in the same way; and since nobody asks for them while the
  list of contracts is the same, new bids under an unchanged list are not stored.
- *Added again* (`torn`; `differs = "edited"` in `SectionUpdate`): adding a character that
  is there empties columns of its row (`storage/character.go` 254) and leaves the
  hashes, so that nothing fills them again until the data changes.
- *Types without values* (`skipped` in `DataArrives`, `cut` in `Universe`): a type whose
  creation failed after its row is found by every later update of the categories,
  which succeeds without its values; nor is a type looked at again that has changed.
- *Told twice*: a mail with two labels (`TwoLabels`: the list joins the labels), and a
  planet whose pins were being replaced when the notifier looked (`excused`).
- *Pages left out* (`Gaps`, `ListGaps`): `ui.go` 727-728 says "All UI areas showing data
  based on character sections needs to be included". Six pairs of a section and a page
  are not, and nine of a general section and a page; e.g. the character sheet shows
  the wallet balance, the skill points and the home station, but is in none of their
  lists. Four pages show what adding a character again has emptied.
- *Pages that keep* (`KeepRows`, `KeepCopy`): some overviews return early when there is
  no character and keep showing the last one; or they still do when one was added whose
  adding failed in the end.
- *Failed updates* (`told`): an update that fails after it has written some rows refreshes
  nothing (`ui.go` 738-741, 617-620), nor does adding a character whose token could not
  be stored: pages show what was written at the next refresh only, some before others.
- *Overlaps* (`excuse`): two refreshes of a page may set what they read in the opposite
  order; a reload of the current character may undo the user's choice
  (`ui.go` 383-393).
- *Tokens* (`mixed`, `lost`): a slow refresh of the token of an earlier login overwrites
  that of a new one; a refresh token that was replaced and could not be stored is gone,
  until the next login.
- *Logins* (`cutoff`): the callback of another tab, with another state, ends a
  login with an error, and an error hides a success; a login that is aborted while its
  handler requests the token waits a limited time for it.
- *Migrations*: their statements are not one transaction with each other or with the
  record. A start that was cut off there is followed by starts that fail.
- *Cache*: of two values that are set for a key at the same time singleflight stores one,
  memory may have the other (`kept` is the last that ended undisturbed).

## 9 What is not modelled

- Layout, wording and status bars of pages and widgets; the contents of responses and
  rows beyond "which version": a field that an update forgets to write, or in
  `CharacterData` a label of a mail that changes, is not told apart; bids are numbers.
- Queries of the settings and debugging windows, and the SQL conditions and order of the
  others; where a condition matters (marks, labels, expiry) the module that needs it
  has it.
- `resolveIDs` and the other pure recursions; asset trees, charts, numbers and dates,
  sets and optionals: data structures without state that unit tests reach.
- The texts of Eve notifications, images and icons beyond their cache, search and other
  stateless requests, settings, logging, flags, cryptography of the login.
- The offline mode and the background mode of the mobile version; `UpdateSectionIfNeeded`
  with several characters at once, whose keys share nothing but the connection.
- The list of characters and the summaries in the status cache: sums over its entries.
