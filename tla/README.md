# A formal model of GFLGO

GFLGO is a location-based iOS game in Swift: users sign up, walk about, see
enemies on a map, and fight them. All shared state lives in one Firebase
Realtime Database; there is no server code in the repository, so every rule of
the game is enforced by the clients, with reads (`observeSingleEvent`), writes
(`setValue`) and nothing else: no transaction, no query, no security rule.

This directory models the game, the part of the vendored Firebase SDK it
relies on, and the storage engine that SDK brings along (leveldb) in TLA+,
checks the models with TLC, and proves theorems about them with TLAPS.

All paths are relative to `src/GFLGO/`; `GFLGO/X.swift` is the app,
`Pods/FirebaseDatabase/Firebase/Database/` the SDK ("`DB/`" below),
`Pods/leveldb-library/` the storage engine ("`ldb/`").

## 1. The system

| Component | Source | State | Operations |
|---|---|---|---|
| Accounts | `SignupVC`, `LoginVC` | text fields, navigation stack, alert on the screen, reads in progress | open sign-up, create account (two reads, six writes), log in, Back, OK, log out |
| Database client | `DB/` Core, Api, View | write tree, outstanding puts, views with their event caches, events queued for the main thread | single-event read, `setValue`, resend after reconnecting, acknowledgement, push |
| Database server | none (external) | one JSON tree; the collections `users` and `enemies` are what matters | apply a write, answer a listen, push changes |
| Battle scene | `GameScene`, `ButtonNode`, `GameViewController` | both healths, the attack button's `isHidden`, the touches on the buttons, the delayed answer | start, touch and release a button, attack, answer after one second, escape, reward |
| Experience | `User` | `totalExp`; `exp`, `maxExp`, `level` derived from it | `addExperience` |
| Map and enemies | `MapVC`, `EnemyAnnotation`, `UserAnnotation` | annotations, selected enemy, user location | spawn (every 10 s, at most 20 enemies near), find enemies and players, select, remove a defeated enemy |
| Session | `TabBarVC`, `SettingsVC`, `SettingsTableVC`, `LoginVC` | the `User` object, the spawn timer, the location manager | enter after login, log out |
| Change of password | `NewPasswordVC` | text fields, alert | compare the old password, write the new one |
| Names and chance | `Enemy`, `MapVC` | none | `createRandomName`, `successfulWithPercent`, `getRandomCoordinateAroundUser` |
| Health bars, user page, app delegate | `HealthBarNode`, `UserVC`, `AppDelegate` | drawing only | drawing only |
| Storage engine: log | `ldb/db/log_writer.cc`, `log_reader.cc` | a file of records in blocks | add a record, read from an offset |
| Storage engine: database | `ldb/db/db_impl.cc`, `version_set.cc` | logs, memtables, tables, versions, the MANIFEST, the writers' queue | write, get, snapshot, flush, compact, open |
| Storage engine: levels | `ldb/db/version_set.cc` | the tables of each level | choose a compaction, merge, find a key |
| Storage engine: memtable and iterators | `ldb/db/skiplist.h`, `memtable.cc`, `db_iter.cc`, `ldb/table/merger.cc` | the lock-free list, positions and directions | insert, seek, walk both ways |
| Storage engine: table files | `ldb/table/` | blocks, index, filters | build, seek, walk both ways |

How they interact. Every screen holds a `DatabaseReference` and starts reads of
a whole collection; the SDK answers on the main queue, and the callback works
with whatever the controllers' fields hold *then*. Writes are shown to the
device's own reads at once, go to the server in order, and are sent again after
a lost connection until they are acknowledged. `LoginVC` builds a `User` from
the record it found and passes it to the tab bar; `MapVC` passes it with the
selected `Enemy` to `GameViewController`, whose scene changes both and writes
to the database when the enemy is defeated. The SDK keeps its writes and its
server cache in the storage engine when the app turns persistence on
(`FPersistentConnection.m:933`, `FRepo.m:119`). This app does not, so the engine ships with it
and is correct or not on its own account: `Engine` and the modules under it are
composed with each other, not with `Collection`.

What is hard here.

* *Interleavings of devices.* "Look up, then write" is never a transaction:
  user ids are the number of records counted, usernames are checked and written
  in different turns of the main loop, every device fights its own copy of an
  enemy.
* *Interleavings on one device.* A read is in progress while the screen stays
  usable: the text fields can be edited, the controller left, the button tapped
  again. SpriteKit delivers each finger's touches separately, and the enemy's
  answer a second later.
* *Partial updates.* A record is six independent writes; a process can end
  between any two of them, a reader can look between any two of them.
* *Resending.* After a lost connection the unacknowledged writes are applied
  over data that already has some of them and, by then, other devices' writes.
* *Threads.* In the engine writers queue behind a leader, a background thread
  works with the mutex released, readers hold no lock at all.
* *Crashes.* The engine is opened again over whatever the logs, the tables and
  the MANIFEST were left as, with the machine or only the process having stopped.
* *Stale reads.* What a device reads is server data overlaid with its own
  unacknowledged writes; acknowledgements, pushes and the tearing down of views
  decide which of both it sees.

What makes each component correct.

* Accounts: every account that is announced exists; no account overwrites
  another; usernames are unique; the ids stay gapless, so that counting gives a
  new one; an incomplete record is completed; reads are answered.
* Database client: reads are answered and writes arrive; the overlay is what
  the server will hold; a device never loses sight of its own writes.
* Battle: the strikes alternate; a defeated enemy never strikes; one reward per
  defeated enemy; the enemy always answers; leaving a battle leaves nothing of
  it behind; the user's health, which the code never looks at, stays positive.
* Map and enemies: an annotation for every enemy near, once; a defeated enemy
  stays away; at most 20 enemies near a user.
* Session: a reward is stored, none is invented; one timer per logged-in user.
* Change of password: the password is one somebody chose last.
* Log: a reader gives whole records only, and all it can.
* Database: what a client was told is safe survives; a read answers what the
  database held when it began; no file in use is deleted; every write returns.
* Levels: tables of a level are disjoint; a search by level finds the newest entry.
* Iterators: they walk one snapshot in order, in both directions.

`PROJECT.json` lists the components with their status and, under "hazards",
every place of the code where one of these properties is at risk, with the
property that watches it or the module that is to.

## 2. Modules

| Module | Models | Kind |
|---|---|---|
| `Collection` | one database collection: server, each device's write queue, reads and event cache | component |
| `Accounts` | sign-up and login over `Collection`, several devices | component, composes `Collection` |
| `Sessions` | from login to log-out over `Collection`: rewards, passwords, locations, players' annotations | component, composes `Collection` |
| `Enemies` | the map, the spawn timer and the enemies over `Collection`, several devices | component, composes `Collection` |
| `Battle` | one device's battles, several fingers | component |
| `Duel` | what a battle promises | abstract specification of `Battle` |
| `Wal` | a log file, its writer and its reader | component |
| `Engine` | writers, reader, background thread, files, opening after a crash | component |
| `Store` | what the engine promises its clients | abstract specification of `Engine` |
| `Levels` | the choice and the effect of compactions, the search of `Get()` | component |
| `SkipList` | the memtable's list: one writer, one reader without a lock | component |
| `Table` | a table file as a value, with the functions its iterator computes | operators |
| `Iterators` | the merging iterator over a `SkipList` and a `Table`, and `DBIter` over it | composes `SkipList` and `Table` |
| `Cursor` | what an iterator promises | abstract specification of `SkipList` and of `Iterators` |
| `MCAccounts`, `MCSessions`, `MCEnemies`, `MCBattle`, `MCEngine`, `MCIterators` | constants for TLC | instances |
| `CollectionProofs` | lemmas on queues of writes, used by the next three | proofs |
| `AccountsProofs`, `EnemiesProofs`, `SessionsProofs`, `BattleProofs`, `SkipListProofs`, `EngineProofs`, `LevelsProofs` | theorems about the module of that name | proofs |

### Collection

| Variable | Code |
|---|---|
| `db` | the server's data at `users` or `enemies`: a function from the ids present to the records; an absent child is `Missing` |
| `puts[d]` | `FPersistentConnection.outstandingPuts` and, the same writes, `FWriteTree.allWrites` |
| `applied[d]` | how many of them the server has applied; their acknowledgements are on the way |
| `waiting[d]` | event registrations on a view that has no complete server data yet |
| `events[d]` | events raised to the main queue and not handled (`FEventRaiser`) |
| `cache[d]` | the view's server cache while it is complete |

The actions are `DataArrives` (the answer of the listen), `Push`,
`ServerApply`, `AckPut` and `Disconnect`; `Observe` and `Consume` are what an
`observeSingleEvent` and its callback do, used by the actions of the app.
`Overlay` is `FWriteTree`'s event cache: the last write that concerns a child
decides it, and a record whose last write is its removal (`Gone`) is not there. A listen and its data are one step (`DataArrives`): between the
server's answer and its receipt the device handles no callback of this
collection, so the answer may as well be taken when it is received. An
acknowledgement finds the view up to date (`AckPut` refreshes `cache`) because
the server sends pushes and acknowledgements on one ordered connection.

A read that is started while another read's events are still queued finds the
view complete and is answered from the cache without the server; a read started
after the last event was handled opens a new view. `events[d] # << >>` is that
distinction. The single-event observer removes itself before it runs the app's
block (`FIRDatabaseQuery.m:501`), so a nested read (`UsernameFree`) finds the view
gone unless other events of it are still queued.

### Accounts

| Action | Code |
|---|---|
| `OpenSignup`, `Retype`, `Back` | `LoginVC.signupAction`, the text fields, the navigation bar |
| `CreateAccount` | `SignupVC.createAccountAction` up to `checkIfUserExists`'s read |
| `UsernameTaken`, `UsernameFree` | the callback of that read: the alert "Username already exists", or `addUserToFirebase`'s second read *and* the success alert of `goToLogin` |
| `AddUser` | the callback of the second read: the count becomes the id, six writes |
| `Login`, `LoginMatches`, `LoginRejected` | `LoginVC.loginIfValid` and its callback |
| `Trap` | the forced casts of a record's children fail: the process ends |
| `Dismiss`, `LogOut`, `Kill` | OK, log out, the process ended by the user or the system |

The callbacks read `forms[d][vc]`, the text fields of *their* `SignupVC` at the
time they run: the username in the first callback, the password in the second.
`Present` ignores an alert while another is shown or its controller is not on
the screen, as UIKit does. `Restart` loses the write queue (persistence is off
in this app) and everything on the screens. Writes that were on the network
when the process ended count as lost; as the server takes a device's writes in
order, the case that they arrive is that of a process that ended a little later.

`accounts`, `announced` and `torn` are history variables: no guard reads them.

### Enemies

| Action | Code |
|---|---|
| `Enter` | after login: `MapVC.viewDidLoad` (the timer starts), the first `viewWillAppear` |
| `UpdateLocation` | `didUpdateLocations` and `userLocation`'s `didSet`: the first location sets up the annotations |
| `Center`, `ReturnToMap` | the Center button; `viewWillAppear` after a battle or another tab |
| `Select`, `Deselect`, `LeaveMap` | the callout, the Battle button in it, other tabs |
| `Defeat` | the end of a battle: `GameScene.removeEnemyFromFirebase` |
| `Tick` | the timer fires: `getNumberOfEnemiesAroundUser`'s read |
| `CountedSpawn`, `CountedOnly` | that read's callback: `spawnEnemy`, or no luck, or `Limit` enemies near |
| `AddEnemy` | the button that adds an enemy |
| `StoreEnemy` | `addEnemyToFirebase`'s callback: the writes |
| `Found` | `findEnemiesAroundUser`'s callback: annotations |
| `CenterTrap`, `LocationTrap`, `RecordTrap`, `Kill` | `userLocation!` before the first location, forced casts, the process ended |

An enemy's key is `<<device, n>>`: `getUniqueEnemyID` makes it of the user's id and the time.
Places are points with distances; `Within` is the comparison with
`VIEW_DISTANCE`, 100 m for the count and 150 m for the map. The spawn square
reaches 141 m, so an enemy may be spawned that its own count never sees.
Chance is a choice between `CountedSpawn` and `CountedOnly`. The timer has no
clock: it fires when it likes, also while the reads of an earlier firing
(the count and the one before the writes) are still under way.
`shown` is the set of enemies on the map: that
two calls of `setUpAnnotations` may put an enemy there twice is not told apart.

`ghosts` is a history variable: enemies removed while they were still to be
written, or while another device's writes of them were not acknowledged. Those
come back, whole or in part (section 3, "Findings"); the properties say what holds for the
others.

### Sessions

The accounts exist from the start; `homes[d]` is the stack of `TabBarVC`s above
the `LoginVC`, each with its `User` (`id`, `total`), its map's location and
annotations, and the `NewPasswordVC` over it, if any.

| Action | Code |
|---|---|
| `TapLogin`, `LoggedIn`, `LoginRefused` | `LoginVC.loginIfValid`: any number of taps before the first answer, each answer pushes a `TabBarVC` with a `User` of its own |
| `LogOut` | `SettingsTableVC`: the visible `TabBarVC` goes, one below it appears |
| `AddExperience` | a won battle: `User.addExperience` raises its own total and writes it |
| `OpenForm`, `Back`, `TapChange`, `Changed`, `ChangeRefused`, `Dismiss` | `NewPasswordVC`: the old password is taken at the tap, the new one when the read is answered |
| `UpdateLocation`, `StoreLocation` | `MapVC.didUpdateLocations`: a read, then the two coordinates |
| `ShowMap`, `FoundPlayers`, `PlayersTrap` | `setUpAnnotations`, `findPlayersAroundUser` with its forced casts |
| `Kill` | the process ended |

`earned`, `usedBy`, `chosen`, `contested` and `lost` are history
variables; they name the circumstances under which the code does lose a reward, so
that the properties can say it does not otherwise. How often a player is on a map
is counted (`others`), and two `ShowMap`s before an answer do annotate a player twice; nothing in
the repository says they must not, so no property does.
`exp` and `level` of a `User` are `totalExp % 5` and `totalExp / 5`, without state of their own.

### Battle and Duel

`Battle` has one action for each event of the scene: `StartBattle` (`MapVC.battleAction`
and `GameScene.didMove`), `Press`, `Slip` (a touch that ends
outside, or that the system cancels), `ReleaseAttack`, `ReleaseEscape`, `Respond`
(the completion after one second). Numbers are in tenths, so they are exact.
Where a finger is on the screen is nondeterministic. `hidden` stops new touches
(SpriteKit delivers none to a hidden node) but not touches that are there
already: that is the whole difference between one finger and two.

`Duel` says what a battle should be: strike, answer, strike, ..., defeat and
reward. `Battle!D` instantiates it with `turn` computed from `scene`, `hidden` and `waits`.

### Wal

A file is a sequence of cells (a byte of a header, a byte of a record, filling,
or junk). `Pieces` is `Writer::AddRecord` with `EmitPhysicalRecord`: the
fragments and the trailers filled before them. `AddRecordFails` stops the file at any
cell of any piece; as in the code `block_offset_` moves on all the same.
`Crash` cuts the file anywhere behind what was synced; with `reuse_logs` the next process goes on at
its end. `ReadPhysicalRecord`, `Use` and `ReadOn` are the reader; a checksum
holds exactly when the payload is the one it was computed for.

### Engine and Store

A step is what one thread does between two points where it lets go of the mutex.

| Actions | Code |
|---|---|
| `Recover`, `Install`, `Ready` | `DB::Open`: `VersionSet::Recover`, `RecoverLogFile`, `LogAndApply` into a new MANIFEST, `DeleteObsoleteFiles`, `MaybeScheduleCompaction` |
| `Ask` | `DBImpl::Write` joins `writers_` |
| `Refuse`, `Sleep`, `NoNewLog`, `Lead` | the head of the queue in `MakeRoomForWrite`: background error, `bg_cv_.Wait()`, no new file, or room, with `BuildBatchGroup` |
| `AddRecord`, `Sync`, `Insert`, `AddRecordFails`, `SyncFails`, `Finish` | the rest of `Write`, mutex released, and its end |
| `GetSnapshot`, `ReleaseSnapshot` | the same |
| `GetBegins`, `GetInMems`, `GetInTables`, `GetEnds` | `DBImpl::Get` |
| `NothingToDo`, `FlushBegins`, `FlushBuilt`, `FlushLogged`, `FlushFails` | `BackgroundCall`, `CompactMemTable`, also from within `DoCompactionWork` |
| `TrivialMove`, `MergeBegins`, `OutputOpens`, `OutputWritten`, `MergeLogged`, `MergeFails` | `BackgroundCompaction`, `DoCompactionWork`, `InstallCompactionResults` |
| `Crash` | the process is killed, or the machine loses power |

`manifest` is the set of things the MANIFEST on the disk may say: one, until a write of it
has failed. `Crash` picks one of them, or the edit being written. Each has a mark `torn`: half an edit
was written at its end, so whatever is written behind it will not be read (the reader takes half a
record for the end of the file, `ldb/db/log_reader.cc:206`), and a later edit that succeeds changes
nothing that is read. When the next record makes that half long enough to be checked, the
checksum does not hold and `DB::Open` fails; for this there is no step, the database stays down. Without the mark the model let a recovery read the later of two edits and not the earlier one, which
the reader cannot do; it came out when `ImplementsStore` was to be proved. What a log gives back
after half a record (`Readable`) is what `Wal` shows of the reader: what precedes it, and what
follows from some block on.

`With` (a file of a number, new or in place of another) and `NextAt` (the number for the next table while logs are replayed) are
written as functions over sets and numbers and not with `@@`, `:>` and a sorted sequence, which the provers cannot expand.

`Store` has neither logs nor tables: a `view`, a pinned view, and for each kind of crash what
it may not go behind (`safe`). `Engine!Promise` maps `view` to what a read of every
key at `last_sequence_` finds, so flushes, merges and deletions of files must stutter, a group must
become visible at once, and after `Recover` and `Install` nothing safe may be
missing. `Store!Commit` takes any set of writes newer than what is there; that they are consecutive is the
queue's doing.

### Levels

`levels` are the tables of the current version, `job` a compaction
under way, during which `Write`, `Flush` and the snapshots go on. `Compact` is
`PickCompaction` with `SetupOtherInputs` and the trivial move;
`Install` is the loop of `DoCompactionWork` (`Drops`, `StopBefore`, `Take`, `Outputs`)
and `InstallCompactionResults`. `LevelForMemTable` is `PickLevelForMemTableOutput`,
`Get` is `Version::Get` with its binary search below level 0. The size of a table is the number of its
entries.

### SkipList, Table, Iterators and Cursor

`SkipList` reads or publishes one pointer in a step: `StartInsert` and `Link` are the
writer's, `StartSearch` and `SearchStep` the reader's. Its reader begins at any height up to `max_height_`,
which it reads without a barrier.

`Table` builds a table file out of a set of entries (`Built`: blocks with restart points,
an index with shortened separators; `Filters`) and computes where `Seek`, `Next`, `Prev`, `FirstKey`, `LastKey`
and `InternalGet` end. A file does not change, so these are functions.

`Iterators` puts both together: `MergeCall`, `TurnBack` and `MergeReturn` are a call of
`MergingIterator`, whose search of the memtable is interleaved with the writer;
`SeekToFirst`, `SeekToLast`, `Seek`, `NextKey`, `PrevKey` are the user's calls of `DBIter`, and
`FindNextUserEntry`, `FindPrevUserEntry`, `TurnAround` turns of its loops.

`Cursor` is a set that grows and calls that end at the element they name. It is
instantiated twice: for the list (`set` is what has been published, and a call is answered from the set
of the moment of its last read) and for the database iterator (`set` is the snapshot).

## 3. Runs

| Run | Instance | Shows |
|---|---|---|
| `accounts_one` | 1 device, 2 names, 2 taps, 2 sign-up screens, 1 lost connection, 1 killed process (91,200 states) | `SuccessMeansAccount`, `OverlayIsReplay`, `ReadsOwnAccount`, and, under fairness, `RequestsAnswered` and `AnnouncedIsStored` |
| `accounts_two` | 2 devices, 1 tap each, 1 screen, 1 lost connection, 1 killed process (733,870 states) | `DenseIds`, `IncompleteHeals`, `UncontestedSurvive` |
| `accounts_race` | 2 devices | finding: an announced account overwritten |
| `sessions` | 2 devices, 2 accounts, one of them played, 4 taps, 1 killed process or lost connection (2.1 million states) | `TypeOK`, `EarnedIsStored`, `NothingInvented`, `PasswordIsChosen`, `OwnPasswordHolds`, `LocationHeals` |
| `enemies` | 2 devices, 1 enemy, of the timer of one or of the button of the other, 1 visit of the other, 1 lost connection, 1 killed process (322,000 states) | `TypeOK`, `IncompleteHeals`, `DefeatedStayAway`, `UndefeatedSurvive`, and, under fairness, `SpawnedIsStored` and `DefeatedIsGone` |
| `enemies_cap` | 2 devices side by side, limit 1, 1 tick each | finding: more enemies near a user than the limit |
| `battle_one_finger` | 1 finger, 2 enemies, 3 battles (702 states) | `PaidOnce`, `UserSurvives`, `DeadNeverStrike`, `IsDuel`, and, under fairness, `EnemyAnswers` |
| `wal` | blocks of 6 cells, headers of 3, 3 records of 0, 1, 3 or 7 bytes, 1 failure, 1 bad byte, logs reused (287,634 states) | `WholeRecords`, `ReadBack`, `DamageConfined`, `StartAnywhere` |
| `engine` | 2 writers, one of them syncing, 1 reader, 2 keys, memtables that are full with two entries, 3 writes, 1 merge, 4 inputs (about 1 million states) | `LiveFilesKept`, `ReadsRight`, `ImplementsStore` |
| `engine_answers` | the same writers, 1 key to a batch, every memtable full with one entry, 4 writes, 3 merges (313,000 states) | under fairness, `EveryWriteAnswered` |
| `levels` | 3 user keys, 4 writes, 1 snapshot, 3 compactions, 4 levels (1,230,196 states) | `LevelsDisjoint`, `ReadsNewestIfWhole` |
| `iterators` | 2 user keys, a table of 2 entries, 2 more writes, lists of 2 levels (1,632,248 states) | `ListsInOrder`, `ImplementsCursor`, `SnapshotStays`, `WalksSnapshot` |

The run `iterators` also evaluates `TableWalksItsEntries` (an assumption of
`MCIterators`): for every table of one to four entries over five user keys with two numbers each, blocks of
one to three entries and every restart interval up to three, the functions of
`Table` end where a `Cursor` over the entries ends, and `InternalGet` shows the
entry that `Get()` is to find, the filters notwithstanding.

The `TypeOK` of `Accounts` and `Battle` are theorems; those of `Wal`, `Engine`,
`Levels` and `Iterators` document the state and are used while the modules are changed.

What the properties say.

* `SuccessMeansAccount`: when nothing is in progress any more, every account a
  user was told about is on the server. Holds on one device, even with two
  sign-ups overlapping, Back, retyping and a lost connection: the single view
  serves both reads one after the other and the overlay counts the device's own
  new record. Fails with two devices.
* `ReadsOwnAccount`: from the moment `addUserToFirebase` has run, every read
  its device starts is given the whole account, whether the writes are queued,
  on their way, being sent again or acknowledged, and whether the read is
  answered by the server or by a view other reads keep open.
* `OverlayIsReplay`: the SDK's way to compute the overlay (the last deciding
  write per child) is the replay of the queue, over any data, including data that
  has some of the writes already.
* `DenseIds`: the ids are 0, ..., n - 1. This is what makes `childrenCount` a
  fresh id at all; it survives losses, resends, ends of processes and even ids
  taken twice.
* `IncompleteHeals`: a record lacks a child only while somebody still has
  the write of it to send, or because a process died with writes of this record
  (`torn`).
* `UncontestedSurvive`: an account whose id no other sign-up took keeps
  username and password, whatever is resent.
* `RequestsAnswered`, `AnnouncedIsStored`: every read is answered, every
  announced account arrives, unless the process ends first.
* `NearLimit`: what a device reads has at most `Limit` enemies near its user. The comment says so, and the
  code breaks it (`enemies_cap`).
* `IncompleteHeals` (of `Enemies`): an enemy's record lacks a child only while
  the child's write or the record's removal is still to be sent, or the process died, or
  it is a ghost. The removal is needed: a resent tail of writes creates the record again
  until the removal behind it is resent as well.
* `DefeatedStayAway`: a device never reads an enemy again that it has defeated,
  from whatever view. `DefeatedIsGone` is the same for the server, in the end and for good.
* `UndefeatedSurvive`, `SpawnedIsStored`: an enemy nobody defeats is stored as it was
  created and stays so.
* `EarnedIsStored`: `addExperience` writes a total, not an increment; still, what a device
  reads of an account it alone uses is every reward, through log-outs, and logins that find
  writes unacknowledged, and resending. Fails when a second `User` object of the account exists
  (`contested`). `NothingInvented`: whatever totals overwrite each other, none is larger than what was earned.
* `PasswordIsChosen`: when all is sent and received the password is the last choice of
  one of the devices, or the first password if there was none.
* `LocationHeals`: the stored latitude and longitude are of one place, or the
  device has the longitude still to send.
* `OwnPasswordHolds`: what a device reads of a password that it alone has ever changed is its own
  last choice, whether a view still open answers or the server, and whatever changes were tapped at the same time: its
  next login and its next change are compared with that. An acknowledgement that came before the view is
  up to date breaks it. What it does not say: with two devices a change may be written that
  was granted on a password the other has replaced by then; that happens, and the last choice of one of the two stays.
* `IsDuel`: with one finger a battle is a duel; `EnemyAnswers`: and the enemy
  does answer. `DeadNeverStrike` and `PaidOnce` are the two parts two fingers break.
* `UserSurvives`: the code never compares the user's health with zero. With the
  source's numbers (50 and 3.2 against 30 and 2) it need not, whatever any number
  of fingers do.
* `WholeRecords`: whatever append failed, wherever a crash cut the file, whichever byte went bad, a reader
  gives records that were written, whole and in order. `ReadBack`: without a failed
  append it gives all of them, and half a record at the end is an end, not an error.
  `DamageConfined`: a bad byte costs the records with a part in its block, no other.
  `StartAnywhere`: a reader that starts at any offset gives exactly the records that begin there or later.
* `LiveFilesKept`: no table that the current version, a reader, a merge, or anything
  the MANIFEST may turn out to say still names is deleted.
* `ReadsRight`: a `Get()` answers what the database held at its number when it began.
* `ImplementsStore`: groups become visible whole and in order, flushes and merges change no view and no
  snapshot, what was answered survives the end of the process, what was synced the end
  of the machine, and a database that is opened shows whole batches. `Store` makes no promise for writes
  behind a failed append in the same log: the reader may lose them with its block.
  Nor does it say that a crash leaves a prefix: a write that was not synced, in an older log, may be lost
  while a later one, synced, survives.
* `EveryWriteAnswered`: no writer sleeps for ever, through full memtables, a full level 0, errors of the
  background thread and crashes.
* `LevelsDisjoint`: the assertion of `VersionSet::Builder::MaybeAddFile`, with memtables flushed into
  a level while it is compacted.
* `ReadsNewestIfWhole`: stopping at the first level that has the key finds the newest entry, at
  `last_sequence_` and at the snapshot, unless two tables of a level share a user key (finding 7).
* `ListsInOrder`: a writer that links a node level by level keeps each list in order and
  complete. `ImplementsCursor`: a reader without a lock ends where a cursor would.
* `SnapshotStays`: the number `NewIterator` takes is of no write still under way.
  `WalksSnapshot`: `DBIter` walks the snapshot as a cursor does, through every
  turn, deletion and entry written meanwhile.

### Bounds

`MaxTaps`, `MaxScreens`, `MaxKills`, `MaxDrops`, `MaxBattles`, `MaxSpawns`,
`MaxTicks` and `MaxVisits` bound the behaviours, `Names` has two elements (one that can clash, one to retype), and
`Passwords` one: the two are handled alike except that only names are looked
for. A record has three children in the runs, the username, the password and one of
the three numbers, which are written and cast alike. Two taps are what it
takes for a sign-up and a login, or for two sign-ups, to overlap on one device;
one tap each is what it takes for two devices; one lost connection and one killed process suffice for a
resend in every state of the queue. Two screens let a callback find its
`SignupVC` replaced by another. Three battles over two enemies give a battle
after an escape, after a defeat, and with the other enemy. In `enemies_cap` a limit of one stands for
20: the second enemy is the one too many. In `enemies` the users stand still side by side, which makes every enemy one
to fight over; the device with the visit meets the other's enemy or its own, in every state of their writes. An enemy has a name and a latitude in the
runs: health and power are written and cast like the name, the longitude like the latitude.
`sessions` is symmetric in its devices. Four taps in `sessions` are two logins and
two things done, on one device or two; the second account is never logged in to and
stands for the other players on the map.

`wal`: with 6 and 3 a block holds three bytes of a record, so the lengths give a record without
bytes, one that leaves a trailer to be filled, one that fills a block exactly (the next has an empty first
fragment), and one of three fragments or more. Three records are what it takes to have half of one between two others.
`engine`: `BufferSize` 1 lets a group of two entries fill a memtable, `CompactionTrigger` 1
has a single table merged, `StopTrigger` 2 is reached by two flushes. `MaxInputs` bounds writes, `Get()`s, snapshots,
failures, crashes and levels found too big together: with four, every two of them meet, and most threes. `merges` is bounded only where a
compaction is picked; a scheduled thread that may not merge any more is not asked to, which is why
`engine_answers` has three merges: two for the two times level 0 can fill up with four writes, and one
for a level below it that is found to be too big (`Finalize`, counted among the inputs), which comes before level 0.
`levels`: four levels (`Top` 3) are those a flush can reach and one more; two entries make a level
too big, a table full and level 0 ready to be compacted; three keys put a table between two others.
`iterators`: two entries of the table and two of the memtable over two keys give every
order of values and deletions of one key in both places; larger tables are what `TableWalksItsEntries` is for.

The theorems of section 4 do not depend on any of these bounds.

`CHECK_DEADLOCK FALSE` is set in every run because the system may stop: users and clients
owe nothing, and the bounds end every behaviour. That nobody waits for ever is what the liveness properties say.

### Fairness

Weak fairness of `DataArrives`, `ServerApply` and `AckPut` per device: the SDK
reconnects for ever and sends what is unacknowledged
(`FPersistentConnection.onDisconnect`, `restoreState`), and connections are lost
finitely often (`MaxDrops`). Weak fairness of `Callback`: blocks on the main queue
run. `Respond` is fair while its scene is shown: SpriteKit runs the actions of a
presented scene; a scene that was left may or may not still run it, and the model lets it do
both. Nothing a user does is fair.

In `Engine`, weak fairness of `Opening` (a process that has begun to open the
database goes on), `Writing` (threads that hold or wait for the mutex run, and
file operations return, with a result or an error) and `Background` (the
environment runs what was scheduled). Failures and crashes are not fair and bounded by `MaxInputs`.

### Findings

Two runs end in a counterexample to what the program itself says.

1. Two devices that sign up at the same time take the same id; one announced
   account is overwritten (`accounts_race`, `SignupVC.swift:66`, against the message at `SignupVC.swift:43`).
2. Two devices near each other both count the enemies before either has stored the one it spawns: there are more near
   a user than "Can only have 20 enemies near a user." (`MapVC.swift:85`) allows (`enemies_cap`, `MapVC.swift:92`). One device does
   the same when its reads take longer than the timer's 10 seconds.

The models contain more, each reached by the actions named, without a run of its own; the properties of
the passing runs say what holds apart from them.

3. "You've successfully created your account! Please log in." appears before
   the read that precedes the writes is answered; a login right then is refused
   (`SignupVC.swift:37`; `UsernameFree`, then `Login` before `AddUser`).
4. A device that reads while another writes its six values finds a record
   without children and traps in a forced cast (`LoginVC.swift:119`, `SignupVC.swift:54`; `Accounts!Trap`).
   An account that has no coordinates yet does the same to every map (`MapVC.swift:321`; `Sessions!PlayersTrap`).
5. With two fingers on the attack button a defeated enemy still strikes, though
   the comment says it does "if Enemy is alive" (`GameScene.swift:156`), and the
   reward is given twice (`GameScene.swift:167`): `IsDuel`, `DeadNeverStrike` and `PaidOnce` fail with two `Fingers`.
6. An enemy one device defeats while another still has some of its writes
   unacknowledged comes back when they are sent again; those that were
   acknowledged are missing, and every map traps on the record (`MapVC.swift:394`; `ghosts`).
7. A snapshot that keeps two entries of a user key, and an output of a compaction that ends between
   them, leave the two in neighbouring tables of a level. When the first table alone is compacted
   further down, the older entry is above the newer, and `Get()` finds the older one,
   contrary to "entries never hop across levels. Therefore we are guaranteed that if we
   find data in an smaller level, later levels are irrelevant" (`ldb/db/version_set.cc:346`); nothing in this version
   of the engine adds the boundary table to the inputs. `levels` shows it with `Keys = {1, 2}`,
   `FileSize = 1` and `ReadsNewest` in the place of `ReadsNewestIfWhole`.
8. Two devices both create one username (two `UsernameFree` before either `AddUser`,
   the race of finding 1 again). The Center button, the add button and the timer trap before the first location
   (`CenterTrap`, `LocationTrap`), though a comment says there is one (`MapVC.swift:35`).
   After a failed append `block_offset_` has moved on as if it had
   succeeded (`ldb/db/log_writer.cc`), and the log is used further unless it was a sync that failed.

## 4. Theorems

| Theorem | Says | Assumes |
|---|---|---|
| `AccountsProofs!TypeCorrect` | `Spec => []TypeOK` | `AccountsAssumption`, `CollectionAssumption` |
| `AccountsProofs!IdsAreDense` | `Spec => []DenseIds` | the same |
| `AccountsProofs!IncompleteRecordsHeal` | `Spec => []IncompleteHeals` | the same |
| `AccountsProofs!AccountsSurvive` | `Spec => []UncontestedSurvive` | the same |
| `AccountsProofs!ReadsOwn` | `Spec => []ReadsOwnAccount` | the same |
| `AccountsProofs!ShownIsReplay` | `Spec => []OverlayIsReplay` | the same |
| `EnemiesProofs!TypesHold` | `Spec => []TypeOK` | `EnemiesAssumption`, `CollectionAssumption` |
| `EnemiesProofs!DefeatedGoAway` | `Spec => []DefeatedStayAway` | the same |
| `EnemiesProofs!UndefeatedStay` | `Spec => []UndefeatedSurvive` | the same |
| `EnemiesProofs!RecordsHeal` | `Spec => []IncompleteHeals` | the same |
| `SessionsProofs!TypesHold` | `Spec => []TypeOK` | `SessionsAssumption`, `CollectionAssumption` |
| `SessionsProofs!NothingIsInvented` | `Spec => []NothingInvented` | the same |
| `SessionsProofs!EarnedStays` | `Spec => []EarnedIsStored` | the same |
| `SessionsProofs!LocationsHeal` | `Spec => []LocationHeals` | the same |
| `SessionsProofs!PasswordsStay` | `Spec => []PasswordIsChosen` | the same |
| `SessionsProofs!OwnPasswordStays` | `Spec => []OwnPasswordHolds` | the same |
| `BattleProofs!TypeCorrect` | `Spec => []TypeOK` | `BattleAssumption` |
| `BattleProofs!PaidForOnce` | `OneFinger => (Spec => []PaidOnce)` | and one finger |
| `BattleProofs!DefeatedNeverStrike` | `OneFinger => (Spec => DeadNeverStrike)` | and one finger |
| `BattleProofs!BattleImplementsDuel` | `OneFinger => (Spec => IsDuel)` | and one finger |
| `BattleProofs!UserAlwaysSurvives` | `UserOutlasts => (Spec => []UserSurvives)` | and the user outlasts the enemy |
| `EngineProofs!LiveFilesStay` | `Spec => []LiveFilesKept` | `EngineAssumption` |
| `EngineProofs!ReadsAreRight` | `Spec => []ReadsRight` | the same |
| `EngineProofs!StoreInvariant` | `Spec => [](FilesInv /\ ReadInv /\ StoreInv)` | the same |
| `EngineProofs!EngineImplementsStore` | `Spec => ImplementsStore` | the same |
| `LevelsProofs!LevelsInvariant` | `Spec => []LevelsInv` | `LevelsAssumption` |
| `LevelsProofs!LevelsStayDisjoint` | `Spec => []LevelsDisjoint` | the same |
| `LevelsProofs!WholeInvariant` | `Spec => [](LevelsInv /\ WholeInv)` | the same |
| `LevelsProofs!LevelsReadNewest` | `Spec => []ReadsNewestIfWhole` | the same |
| `SkipListProofs!Invariance` | `ListSpec => []IInv` | `OrderAssumption`, `ListAssumption` |
| `SkipListProofs!ListsAlwaysInOrder` | `ListSpec => []ListsInOrder` | the same |
| `SkipListProofs!ListImplementsCursor` | `ListSpec => ImplementsCursor` | the same |

For every number of devices, names, fields, fingers, enemies and battles, every set of keys with
a strict total order, every height of the list, every number of writers and readers, every size of a memtable and every trigger
of a compaction, any number of levels, any limits of their sizes and overlaps. TLC evaluates the assumptions in every run. What they say of the constants: no field is called
`Leaf` or `Gone`; `FieldOrder`, the order in which a new record's children are written, has every field; `Missing` is no value of a child;
the user name and the password are children of an account, there are children that say where an enemy is, and `Limit` is not zero;
a password an account starts with and some place exist; distances and bounds are natural numbers; a batch has finitely many keys;
the trigger of a compaction is above zero and below that which stops writes;
and in `Levels` user keys are numbers above zero, a memtable is never pushed to the last level,
and the file size, level size and trigger are above zero.

**Types.** `TypeInv` restates `TypeOK` as membership in function sets and adds
`ScreensExist`: a callback that is waiting or queued names a `SignupVC` of this
process. Without it `forms[d][vc]` would have no value in the callbacks.

**Dense ids.** `DenseIds` alone is not inductive: a write of id 7 in a queue
makes a gap when it is applied. `DenseInv` adds that the writes of a queue are
stepwise (for an id `k` in the queue every smaller id is on the server or
earlier in the same queue: `SentStepwise`), that what the server has applied of
a queue is on it (`AppliedStored`), and that snapshots show a device only ids
that are on the server or in its queue (`SnapsWithin`). The heart is
`CountBelowGap`: the number of *some* of the ids of a gapless set is never above
its first free id, so a count of a stale snapshot may repeat an id but never skips one.

**Incomplete records.** `HealInv` adds that in a queue each record's own write
is followed by one of every child (`FieldsFollow`), that a child's write not yet
applied has its record on the server or in the queue before it (`RecordFirst`),
and that the writes carry values. That the record goes first is needed: setting the record
erases its children. When a process dies, `torn` takes the records whose writes
die; `DenseInv` is needed for what has been applied.

**Queues of writes.** What a child will be is decided by the last write that concerns it, and three places
may hold it: a device's queue, the server, the view its reads keep open. `CollectionProofs` says so in two words. `Ends(ws, k, F, f, v)`: the
last write of the queue `ws` to record `k` and one of the fields `F`, if there is one, writes `v` to `f`. `Clear(ws, n, k, F)`: nothing
after the first `n` writes concerns them. A child is settled on `v` when the queue ends with `v`, and where the writes not yet
applied are clear of it the server has `v`, and where the whole queue is clear the view has `v`. A new write, an application, an
acknowledgement, a lost connection (everything is sent again) and a push each keep this, which lemmas of `CollectionProofs` say once for
`Accounts` and `Enemies` (`GrowKeeps` and `GrowEnds`, `ClearNext`, `AckKeeps`, `ResendKeeps`); `Sessions`, whose records are never created or removed, has a smaller version of the same (`Settled`).

**Accounts that stay.** `KeptInv` is: every child of an account that is neither `torn` nor `Contested` is settled on its value for the
device that submitted it (`KeptAt`), and a device has writes of its own accounts only (`Owned`: without it a stranger's write could
change the record behind its owner's back). From it follow what a new read is shown (`ReadsOwn`) and what is on the server in the end
(`AccountsSurvive`).

**The overlay is a replay.** `ShownIsReplay` is an induction on the length of the queue. The library's induction rules
take an operator the provers cannot instantiate, so it is done with what they can: the first length for which the
statement fails (the naturals are well-founded) is none. The fold of the community modules is recursive over sets, and
`FoldExists` shows in the same way that the function it chooses exists.

**Enemies.** `Numbered`, `Adds` and `Sources` say where enemies come from: identifiers are used once, what a device is still to
write it has spawned and nobody has stored, children are written by the device in the identifier, removals by a device
that has defeated the enemy. `Away` is then: for an enemy `x.device` has defeated, its queue ends with the removal, and nobody else
writes anything but removals, so once the removal is applied the record does not come back. It fails for exactly the `ghosts` and
`torn` ones, which is how they are defined. `Kept` is the settled notion for enemies of which that is
not so: their owner's writes are there or, when somebody else has defeated them, the whole record is gone.

**Sessions.** The types already give `NothingInvented`: every total in a queue, a record, a callback or a `User`
is at most what was earned when it was written, and `earned` only grows. `Owned` says that a device has writes,
screens and callbacks of accounts it logged in to. For an account of one device, `Totals` has its total settled on `earned` and
every `User` object and every login's answer hold it; `contested` (two `TabBarVC`s of one account) and `lost` are where this fails.
`Locations` has latitude and longitude settled on one place, by the longitude that follows every latitude in a queue.
`PasswordsChosen` does not settle on one value, as devices race: a write of a password is still to come, or the server has what some device chose last.
`OwnPasswords` does, for a device `d` that alone has chosen a password of the account: nobody else has a write of it in a queue,
so an application, a push or a lost connection elsewhere leaves it alone (`OthersClear`); the last write of it in `d`'s own queue, if
there is one, is `d`'s choice; once all of them are applied the server has it, and once the queue has none left, the view
that is still open has it too (`OwnCache`). What a read is given is the overlay of one of both (`ChildShown`).

**Files.** `LiveFilesKept` is kept by `FilesInv`: in each phase of a flush and of a merge, which numbers are taken, listed in `pending_outputs_`
or already in `tables`. `Sole`: as long as no background error is recorded, the MANIFEST can say one thing only, the current version; that is
why `DeleteObsoleteFiles`, which looks at the versions in memory, leaves what the disk names, and why it must do nothing after an error.
A flush in the middle of a merge takes a number the merge's output does not have (`MergeOK`), and has no edit at the same time as it (`FlushOK`).

**Reads.** `Get()` stops at the first layer that has the key, so it is right when newer entries are in newer layers: everything in
the memtable written to is newer than what is in the one being written out, and this newer than every table of the current version, of an edit of a merge,
and of what recovery writes (`MemsOK`, `TablesOK`). `FindAbove` says that looking in a newer layer first and in an older one next
is looking in both. `ReaderOK` carries the answer through the steps of a reader: what it would still find is what it should find. It needs that
the memtable a reader holds gets only entries the reader cannot see (the group being inserted has numbers after `last_sequence_`: `TurnOK`), and that
no table a reader, the MANIFEST or an edit names is written again (`FreshOK`). That the order outlives crashes is `DiskOK`:
whatever the MANIFEST may say has the numbers of its tables and entries behind it, so that no number given after
a recovery is one of theirs (`NewNumbers`), and nothing replayed from the logs, whatever half-written records they lose, comes before them.
The same invariant, checked by TLC on the instance of `engine` first, is 100 lines; the proof has one lemma for each step or group of steps.

**Store.** `EngineImplementsStore` rests on the invariants above and `StoreInv`, which has a part for each thing that can go
wrong between a write and a recovery. *Reached* is everything a recovery could find: for each thing the MANIFEST
may say, its tables and the logs from the one it names.
`OrderOK`: in what is reached, higher sequence numbers are of later writes. `WholeOK`: no record, memtable or version has a batch in part;
an entry may be missing only where a newer one of its key is there. `LogsOK`: the MANIFEST names no log behind those of the two memtables, what is in a
memtable is in its log, and one thing the MANIFEST may say is the current version, not torn. `WritersOK`: the
writes of the queue are later than all that is reached, and the group under way is in the log, or in the memtable, as far as it has come. `WorkOK`: an edit takes away
no table whose entries it does not bring back, and a merge was begun with a number no snapshot is below. `SafeOK` is the promise itself: for every
kind of crash, and every thing the MANIFEST may say, what is safe from this crash is in the tables or in the part of a log
that survives it and is read, before half of any record (`Left`); while the database is open, in
the memtables as well, since the log may get half a record at any time.

No part can be left out. Without `OrderOK` a recovery could number an older write above a newer one it reads
from another log. Without `WholeOK` the largest write found for each key would not be a set of whole batches.
Without `LogsOK` an edit could drop the log of a memtable that is still to be
flushed. Without the last part of `WritersOK` the answer of a group could promise more than its log has.

A merge keeps, for every entry it drops, a newer one that every snapshot sees as well (`KeptCovers`, rule (A)), so it changes
no view; a flush moves entries from one place to another. What a merge leaves out *covers* what it read (`Covers`): this
relation is what carries `WholeOK` and `SafeOK` through merges and flushes, and `EditBegins` and `EditEnds` say once for
all edits that it does.

The steps then map as follows: `Install` is `Store!Open`, `Ask` is `Ask`, `Finish` of a group that was written is `Commit` of the
writes in it (`CommitPromised`: the numbers of the group are above `last_sequence_`, so no view shows an entry of it before and every
view shows all of them after), `GetSnapshot` and `ReleaseSnapshot` are `Pin` and `Unpin`, `Crash` is `Crash`, and all other
steps stutter (`QuietPromised`, `TablePromised`, `FlushPromised`, `MergePromised`).

**Levels.** A flush in the middle of a compaction chooses its level in a version that
has the inputs and not the outputs, and the outputs are installed without another look. `LevelsDisjoint` survives
this because the inputs of a compaction are `Together` (`InputsTogether`): a range that none of them touches has all of them on
one side. It holds of one table, and of some tables with whatever `GetOverlappingInputs` finds in their range, in level 0, where the
range grows, as below; so it holds of what `SetupOtherInputs` gives, also when it takes more of the first level.
A memtable is let into a level other than 0 only if it touches no table there or above, so it is on one side of the inputs
(`Aside`), and the outputs, which hold nothing but entries of the inputs (`OutputsTell`), are on the other.

`WholeInv` is what reads need, unless a user key has been cut in two. `NewerAbove`, `MemNewest` and `ZeroOrder`: of a user key, newer
entries are in the memtable before the tables, in levels above others, and in tables of level 0 with higher numbers. With
`LevelsDisjoint`, on which the binary search relies, `GetNewest` says that `Get()` finds the newest entry of all that is stored. `Kept`: at every
number a reader may use, this entry has the value of the newest ever written. A compaction drops an entry only if
a newer one, seen by every view, hides it, or if it is a deletion and every entry it hides is gone with it
(`OutputsTell`): that none is left in the levels below is `IsBaseLevelForKey`, asked of the version the compaction began with, and
what was flushed there since shares no user key with the inputs (`JobWhole`). Rule (A) looks at the entry before in the merge
only; that this is the newest but one of the key is part of `OutputsTell`, by induction on the number of entries passed.
For this the pass is a fold over the set of the entries, the last one taken off first, and the first table in turn is chosen
(`FirstOf`), not computed by sorting.

**Duel.** With one finger `TurnInv` says what `hidden` encodes: while the attack
button is visible the enemy is alive, nothing waits, and while a finger is on it
it is visible; a hidden button means one answer waiting and an enemy alive, or
none and the enemy defeated. Each step of `Battle` is then a step of `Duel` or
stutters: `Press` and `Slip` stutter, `ReleaseAttack` is `Strike` or `Defeat`,
and the answer of a scene that was left stutters.

**Survival.** `SurvivalInv` counts: `k` attacks and `a` answers so far, with
`a + waits <= k` and, for the answers that were granted, `(a + waits) * UserPower < EnemyHealth`,
because an answer is granted only while the enemy's health is positive. So
`a * EnemyPower < UserHealth` whenever
`EnemyHealth * EnemyPower <= UserHealth * UserPower` (`UserOutlasts`; 600 against
1600 with the source's numbers).

**The list.** `ListsInOrder` is inductive only together with what the two calls under way
know: the writer's `prev[i]` is the last node of list `i` before its key on
every level it has not linked yet (`InsertRight`; one writer, so it stays so), a node is in all lists below
those it is in, and the reader's `x` is a node of the list it is on, before the key it
looks for (`SearchRight`). `Places` says that a list always has a last node before any key, so the writer's
`CHOOSE` names one. `SearchFinds` is then the refinement: a search that reads its last pointer
on list 0 has found the answer of a cursor over what is published at that moment. Every other step of the
reader stutters, and so does every step of the writer but the one that links list 0 (`Grow`).

Only model-checked:

* the liveness properties (`RequestsAnswered`,
  `AnnouncedIsStored`, `EnemyAnswers`, `SpawnedIsStored`, `DefeatedIsGone`, `EveryWriteAnswered`), which need fairness and ENABLED;
* everything of `Wal`, whose writer and reader are recursive operators, which the provers do not accept in a module with theorems;
* `SuccessMeansAccount`, which holds on an instance chosen for it (one device) and not of the specification for all constants;
* `SnapshotStays` and `WalksSnapshot` of `Iterators`, over `Table`'s computed blocks.

## 5. What the models leave out

The app:

* The three numeric children are one value in `accounts_*`; nothing in sign-up or login computes with them.
* The label of a `ButtonNode` while it is touched, health bars and all layout; the user page.
* The spawn timer of a `TabBarVC` that another one covers: `Enemies` has one timer for each device, and
  `Sessions`, which has several `TabBarVC`s, none.
* Images, camera, and the arithmetic of coordinates; two annotations for one enemy (the players' are counted in `Sessions`,
  where two set-ups at once do annotate a player twice).
* A second finger that presses Escape twice pops two controllers at most; the
  model pops once and ends the battle.
* The names of enemies and the chance of a spawn: random choices without state.
* Two devices that fight one enemy are both paid (`Enemies` has both defeats, `Battle` has one device).
* The unit and UI test targets are templates without tests.

The client of the database: queries with parameters, transactions, merges, `onDisconnect`, priorities and
persistence, none of which the app uses; cancelled listens and rejected writes,
which need security rules the repository does not have.

The storage engine:

* `Wal`: zero-length preallocated files and the record type 0, whose cells a log of this writer never has.
* `Engine`: forced flushes (`Write` with a null batch), manual compactions, the one-millisecond slowdown of
  `kL0_SlowdownWritesTrigger`, shutting down, `reuse_logs`, properties and sizes. Deletions and several outputs of a
  merge are in `Levels`. Any `Get()` that reached the tables may wear one out (the seek budget is not counted), and
  any level below 0 that has a table may turn out to be the fullest when a version is made (bytes are not counted).
  `RecoverLogFile` may write several tables for one log; here it writes one.
* `Levels`: `CompactRange`, `ApproximateOffsetOf`, the encoding of edits. Any level that is too big may be
  picked, where the code takes the one with the highest score. A manual compaction releases the mutex between picking
  its inputs for one level and the next and is left out, and with it the question whether a
  concurrent flush could break `LevelsDisjoint`.
* `SkipList`: reads other than that of `max_height_` are sequentially consistent; an acquire load that returns an
  older pointer than the last one stored is no step. There is one writer, which publishes with release stores, and an acquire load that returns a
  pointer makes everything stored before that pointer visible to the loads after it. So the values a reader gets are those it would get
  at some moments in their order, perhaps earlier ones than those of its loads, and such a reader is one of the model, delayed:
  it ends where a cursor over the list of an earlier moment would, but not earlier than what it last synchronised with
  (for an iterator, the mutex under which it took its number).
* `Iterators`: corrupted keys and read sampling; entries of two children never
  compare equal, as every entry has its own number. `Table`: varints, shared prefixes (but an entry is only reached from a restart
  point), checksums, compression, blocks that cannot be read, the iterator over the tables of a level.
* Caches (of immutable blocks and tables), the C API, the repair tool, the environment except `NewWritableFile` and `Sync`.

Other vendored code: `nanopb`, `GoogleUtilities`, Analytics, and the public headers of Firebase. The app does
not call the first three, and headers have no behaviour. This, and the parts of the engine listed above, is most of the
C, C++ and header text of the repository: of that text the map covers about a tenth, and what is not
covered has no state that a model could add. The Swift and Objective-C sources the game itself consists of
are mapped beside it.

## 6. Plan

In this order:

1. An abstract specification of `Enemies`, a set of enemies with atomic spawn and defeat, that it implements
   as long as there are no ghosts.
2. `Iterators`: the memtable of a flush under way as a third child; the timer of a covered `TabBarVC` in `Sessions`.
3. Compositions: `Battle` with `Enemies`; `Accounts` with `Sessions` on one collection.
