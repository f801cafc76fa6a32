# A verification of rommsync-nx

`sys-rommsync` is a Nintendo Switch sysmodule that keeps emulator saves on the SD card in step with a
RomM server. An overlay drives it over IPC. This directory holds TLA+ models of the parts that decide
what happens to a save, to the console's other records and to whoever waits for an answer, the TLC runs
that check them on small instances, and TLAPS proofs of the properties that matter most for every value
of the constants. Paths below are relative to the repository.

## The system

Three processes and a server take part: games, which write saves whenever they like; the sysmodule, one
process with a worker thread, an IPC thread, a pairing thread and a power watcher; the overlay; and
RomM, which other devices use too.

| Component | State it keeps | Operations | Correct when |
|---|---|---|---|
| card (`core/src/atomic_file.cpp`, `disk.cpp`) | files beside the save: `.tmp`, `.old`, `.backup/` | stage, copy, sync, commit, remove | no cut leaves a torn file under a name, or loses the last copy |
| plan execution (`sync_execute.cpp`) | one operation of the plan | download, conflict, upload, delete | nothing is taken that is not backed up; only the plan is carried out |
| recovery (`sync_recovery.cpp`) | none | sweep at the start of a tick | an interrupted commit comes back, and nothing else does |
| tick (`sync_tick.cpp`, `rom_scope.cpp`) | chunks, the tick's result | cut the scope, halve, run each plan, stop | every rom is planned once or named as unasked; the outcome hides nothing |
| negotiation and 409s (`sync_negotiate.cpp`, `sync_resolve.cpp`) | the plan | ask, ask again | no save nobody here has seen is superseded |
| baseline (`state_db.cpp`, `sync_finish.cpp`) | a row per save: digest, marks | advance, store | what the row says of the server is true enough to plan from |
| save scan, rom index (`save_scan.cpp`, `rom_index.cpp`) | records, skips; pages of the library | walk, match, page | the copy that is played is synced, and nothing is dropped unsaid |
| Keep local, restores (`conflict_record.cpp`, `conflict_log.cpp`, engine) | history, armed and held choices | record, take, hold, land, spend, cancel | a choice is carried out once and shown at its entry |
| scheduler (`scheduler.cpp`, `backoff.cpp`) | request, rerun, held tick, stamps of two clocks | poll, finish, defer | one tick per event, none lost, no storm |
| engine worker (`sysmodule/source/engine.cpp`) | everything under `mutex_` | the loop, the commands | no wake-up lost, no thread stuck |
| power (`power.cpp`, `Quiesce`, `Resume`) | `suspended_`, `worker_parked_`, `pairing_busy_` | sleep, wake | an acknowledged sleep finds nothing in flight |
| credentials (`token_store.cpp`, `auth_gate.cpp`) | token, verdict | pair, unpair, observe, load | one server's token never goes to another; a verdict is about its token |
| pairing (`pairing.cpp`, `auth.cpp`) | one attempt, its code and pace | begin, poll, commit | it settles, and never polls faster than it was asked |
| downloads (`download.cpp`) | queue, staged and partial bodies | enqueue, dequeue, drain, settle | a rom queued ends, and "done" is on the card |
| remote installs (`remote_install.cpp`) | claims, abandoned ids, registration | register, claim, report | a request of the web UI ends where it was made |
| save states (`state_sync.cpp`) | rows of the baseline | decide, upload, download, place | nothing is replaced that is not kept |
| play sessions (`play_sessions.cpp`) | a buffer and its file | look, send, release | no hour twice, none let go unanswered |
| lists, library screen (`list_service.cpp`, `overlay_library_model.cpp`) | cursors; levels of rows | open, pump, page, evict | rows follow the server's list; a page comes |
| IPC (`ipc/server.cpp`, `ipc_service.cpp`, overlay's `ipc_client.cpp`) | sessions, one buffer; one call slot | serve, call, give up | each answer goes to its asker, whole |
| transport (`http_wire.cpp`) | one exchange, a staged body | open, send, read, redirect, store | a file put in place is whole; the token stays at its origin |
| log, `config.ini` (`log.cpp`, `config_write.cpp`) | ring and two files; the file's lines | write, rotate; edit, reset | no secret, no gap, bounded; what is in force is on the card |
| process start (`main.cpp`, `boot_wait.cpp`) | services opened, a journal | wait, open, note | it serves or aborts, and says what is missing |

How they interact: the IPC thread changes the engine's state in a slice under `mutex_` and then notifies
the worker (`Wake`, `WakeDownloads`); the worker decides in one slice, works without the lock, and
records in another; the watcher raises `suspended_`, fires the cancel tokens and waits for the worker to
park; the worker's tick runs the whole of `sync::RunTick` against the card and the server. A rom a drain
brings home puts itself on the list of saves the next tick asks for; a claim of an install puts a rom in
the queue the drain empties.

What is hard: a game writing between any two calls on the card; power cuts on a card that does not
journal; lost answers; another device's uploads; commands landing while the worker has let go of its
lock; sleep arriving at any instant with a budget; a call given up on that is answered later; lists that
change while they are read by page. `PROJECT.json` lists these hazards at their lines.

## Modules

| Module | Models | Composes |
|---|---|---|
| `SaveCard` | one save, its `.old` and `.tmp`, `.backup/`, and the calls `Fetch`, `Remove`, `Restore` and the sweep make | |
| `KeepBoth` | the promise of the console about one save, with no server in it | |
| `SaveSync` | one save through whole ticks: scan, negotiation, operation, 409, baseline, Keep local; RomM's slot; other devices | refines `KeepBoth` |
| `TickChunks` | a tick over a whole library: chunks, halving, plans, stops, outcome, fresh roms, declines | |
| `Worker` | the four threads, the scheduler's decisions, sleep, wake and shutdown | |
| `Scheduler` | the scheduler alone, with both clocks, the backoff, the TLS park and rescans | |
| `Credentials` | `token.dat`, `auth.json`, `config.ini` and their copies in memory; a change of server, Unpair, a grant, the gate; the worker's requests | |
| `Pairing` | one pairing attempt and RomM's pacing of its polls | |
| `DownloadBoard` | what the download queue promises | |
| `Downloads` | the queue, its file, the drain and the card it fills | refines `DownloadBoard` |
| `Installs` | remote installs over the queue | extends `DownloadBoard` |
| `StateSync`, `SaveScan`, `RomIndex`, `PlaySessions` | the other halves of a tick | |
| `StateDb` | the baseline's file: read a line at a time, migrated, trimmed, stored | |
| `Log`, `ConfigFile` | the log and the settings | |
| `HttpWire` | one call of the HTTP client | |
| `IpcServer`, `Session` | the two ends of the IPC port | |
| `Library`, `Conflicts` | two screens with the services behind them | |
| `Boot` | the process's start | |
| `SaveCardProofs`, `CredentialsProofs`, `DownloadsProofs`, `LibraryProofs` | proofs about the module they are named for | |
| `EngineProofs` | proofs about `SaveSync` and `Worker` | |
| `RecordsProofs` | proofs about `StateSync`, `PlaySessions`, `StateDb`, `RomIndex`, `SaveScan` | |
| `ConsoleProofs` | proofs about `HttpWire`, `TickChunks` and `MCConsole` | extends `RecordsProofs` |
| `ServicesProofs` | proofs about `Pairing`, `Scheduler`, `Boot`, `Session`, `Conflicts`, `IpcServer`, `Installs` and `MCServices` | extends `LibraryProofs` |
| `MCConsole`, `MCServices` | two runs over nine components each | the components |
| other `MC*` | symmetry and bounds for TLC | each its module |

Operators whose comment begins "Mutant:" are plausible errors in the definition that follows them; each
has been substituted for it, and breaks the property it is listed with in `PROJECT.json`.

### SaveCard

One action per call on the card, in the order the code makes them. `card` and `backup` are the two
folders as they read now; `cardHist` and `backupHist` are the folders a power cut may leave: every state
since the last successful folder sync. A file whose data was not synced may come back torn. `PowerCut`
picks from these sets; `GameWrite` may happen between any two calls; each call may be refused.
Ghosts: `owed`, the bytes the game left that only the engine displaced; `raced`, what the game wrote
after the last comparison and before the commit, which the code cannot protect; `deleted`.

Assumed: a game's own write is atomic and durable, and is not interleaved with the engine's copy of it;
`io::Exists` on a backup name is right; a rename onto an existing name is refused, as on Horizon; a sync
that reports success has happened. Horizon's commit covers the whole card; the model syncs folder by
folder, which is weaker.

### SaveSync and KeepBoth

The card holds a digest, `.backup/` a set of them, `row` is the save's row of `state.db`. RomM keeps rows
with bodies, listed digests, a head, this device's `last_sync_hash` and the digests the slot lost. The
server is external: it is modelled from what the client sends and relies on. Where RomM has history
between the two digests its verdict is theirs; where it has none, timestamps decide, and the model
chooses freely. A tick is `Scan`, `NegotiateOk`, one operation in its steps, `Resolve` after a 409, and
`FinishStored` or `FinishUnstored`. Requests are lost before or after the server acted; the power goes.

Assumed: MD5 is injective; a row's bytes do not change; which row becomes head after a deletion is
free. Not modelled: `OutlastTheSecond`, the emulator filter, saves the card never
held, restores of entries other than the newest. Checking and committing are one step here; `SaveCard`
has the window between them.

`KeepBoth` is the abstract promise: the card takes only bytes the server was given or copies the console
kept, loses only what is kept, and is emptied only of what the server lost. `SaveSync` refines it with
`given` mapped to the bodies of the rows.

### Worker

A step is one slice under `mutex_`, or the stretch between two. `wpc` follows `RunWorker` line by line:
boot wait, park, restore, held Keep local, `Poll`, the foreground question, `StartTick`, the tick, the
list pump, the drain's three looks, and the wait. `signalled` is "`wakes_` differs from `decided_at`".
A command is its slice and then, as a separate step, its `Wake`. A tick, a drain and a restore are in
flight for any length of time and end with each outcome the loop tells apart. Time is abstract: a
deadline may fire at once, and an interval elapses when `TimerElapses` says so.

Assumed: the worker thread starts; the wait for `save_write_mutex_` in `Quiesce` is folded into the
park, since a parked worker holds it never; one Keep local is held at a time; a game seen during a tick
is still seen where the tick ends. Commands that arrive while asleep are not refused, as in the code.

### Credentials

`card` holds the three records, each a file and the `.old` beside it; `hist` is every card a power cut
may leave, that is every state since the last successful sync. `ApplyConfigEdit`, `Unpair`,
`CommitGrant` and the second half of `ObserveAnswer` hold `card_mutex_` for their whole length, so `pc`
says whose call is running and `step` where in `WriteAtomically` or `Shred` it is; each call may be
refused. Slices under `mutex_` are steps of their own and interleave with the pairing thread, with
`StartPairing` (which takes `mutex_` alone) and with the worker's requests, whose `ask` carries the
address and the token it copied. `Load` is the boot that follows a cut, with a file that may not open.
Ghosts: `kept`, the newest token whose write was confirmed and not given up since; `about`, the tokens
whose rejections the gate has counted; `restored`, whether the verdict came off the card.

What the code does and the model keeps: a tick reads the address before the slice that reads the token,
so `SliceAsksItsServer` speaks of drains and pages only; a list page asks neither the gate nor whether
there is a token; Unpair leaves a pairing attempt alone; with `token.dat` gone and its `.old` readable,
`Load` has a token and says "never paired".

Assumed: the three records lie in one folder; a rename onto an existing name is refused; a folder's
changes reach the card in order. Left out: `device.dat`, the `.tmp` names (no reader looks at them), and
the guards on `stopping_` and `suspended_`, which are `Worker`'s.

### TickChunks

`RunTick` with its loop. `round` holds its locals and its `TickResult`: the chunks pending, the one asked
about, the run of the last plan, the outcome so far, the word on the token, the roms unasked, oversized
and to be asked again. `ChunkScope`, `Halve`, `OutcomeAfter`, `AnswerAfter`, `Severity` and `Worse` keep
their names. `Ran` is `ExecutePlan` seen from outside: which roms it came to, what failed, what was
declined. What outlives a tick is `fresh` (`fresh_roms_`) and `said` (`Declines`). A plan is too large
when the weights RomM plans for its roms pass `kMaxPlanOperations`. A cancellation or a game may come
between any two steps. A chunk's roms are a set, since they are in ascending order: a rom's place is the
number of those below it. One rom has one save here, and a decline is its rom's; `SaveSync` has what an
operation does.

### Scheduler

A clock is how far it is past the last stamp, capped where it decides nothing more, so time runs for
ever in finitely many states. The monotonic clock stops in sleep; the wall clock is set either way.
`burst`, `credit` and `byClock` are ghosts: what the ticks run so far are owed to.

### Pairing

`attempt` is the `PairingSession`, `code` RomM's side of it. Seconds pass only while the code lives.
RomM's answer to a poll inside its interval, and to a poll of a code already spent, are its own.

### Downloads, DownloadBoard and Installs

A change of a row and the write of the file are one step, as they are under the queue's lock, and either
may be refused. The drain is a program counter over `Drainer`: pick, place, begin, body, verify, settle,
requeue. A rom's file, its staged body and its `.part` body are versions of the library's file; the
library may replace it between any two steps. `DownloadBoard` is what others read: absent, pending or
ended; `Installs` is written over it, so that a claim, a report and an owner's press meet a queue that
may do anything the board allows. A worker's exchange of `Installs` captures the address and the
generation when it starts and looks at the generation again before it keeps what it learned.

### StateSync, SaveScan, RomIndex, PlaySessions

`StateSync`: a state is a version; RomM's row shows a mark that a rewrite within the second to the same
length does not change. Each operation reads, backs up, compares (`Compare`) and replaces (`CommitStaged`)
in steps of their own, and a download is read back for its row in another (`AdvanceWritten`), with the game
and another client between any two. What the game writes between the comparison and the commit is lost, as
`docs/SYNC_PROTOCOL.md:736-767` says; the ghost `raced` is that write, and `ReplacedIsBackedUp` exempts it
and no other. `unlisted` is what another client posted since the run's listing, which `OverwritesOnlyItsOwn`
exempts, since no step of a run could have seen it. `SaveScan`: a file is its folder, rom, slot and frontend; the walk goes
folder by folder and file by file while files come and go. `RomIndex`: a page is a set of ids past an
offset; its width decides whether the transport takes it; roms come and go between pages. `PlaySessions`:
four clocks of unequal trust, one save that the game may write between any two steps of a look; the buffer,
its file, and what a completion's answer releases.

The entries a walk has yet to look at, and the play-time buffer with what a request carries of it, are
sets: the order is that of the names (`NextOf`) and of the ids.

### StateDb

A row is its key and its digest. A slotted save's key is its place in the order the code keeps rows in,
so "smaller" and "larger" keys are those of the source; archival saves and states have keys of their own.
A file has a version line, lines and a weight. `LoadBaseline` opens one, and each line after it is a
step: it is a row, a second row for a key, no row at all, blank, or past the bound. `parser` has the rows
in the heap, those of rc1 held apart until their new slots are known, and the keys of the rows let go
(`gone`, the code's fingerprints), by which a second row is known even when the first has left the heap.
Both versions are read: this build's, bounded by `kMaxBaseline`, and rc1's, of up to `kRc1MaxRecords`
rows, whose slotted saves make way for rows that last and for smaller keys (`GivesWay`), and are moved to
the slots they are synced in now (`Adopted`). `AdvanceBaseline` and `AdvanceStates` change rows and trim
them; the store writes, sets the old file aside and publishes, each call refused or cut short by the power.

Abstract: a fingerprint is its key (two keys of one fingerprint are not modelled); which of the rows that
may go is trimmed is free; and a call is done or not, since torn and unsynced files are `SaveCard`'s.

### Log and ConfigFile

A line's detail is a sequence of lexical tokens, which is what the redaction tells apart. Two writers
share the ring under a lock and the file after it; a dying process appends with no lock. `config.ini` is
a sequence of lines of two kinds of sections; an edit changes lines and is read back before it replaces
the file through the two renames a cut may fall between.

### HttpWire, IpcServer and Session

`HttpWire`: a body is a sequence of numbered blocks, so "whole" is a statement about order; the network
may fall silent, close or break at any block, and redirects lead to other origins. `IpcServer`: a turn of
the loop is one step, since one thread serves all; what happens between two turns is the clients'.
The server's resource is the same for the whole of a call; a library file replaced under a resumed body is
`Downloads`' (`DoneIsOnCard`).
`Session`: the draw thread, the client's worker and the sysmodule are three actors over one slot. Opening the
port is two questions to `sm`, whether the name is registered (`OpensPort`) and for the session (`Obtain`):
the first may not be answered at all (`askable`), and the sysmodule may go between the two, and then the
second is parked. A worker that cannot be started leaves the dispatch to the draw thread (`Call`,
`CalledItself`), with no budget. Screens lie on one another, each with a `ScreenFrame` of its own over the
one client (`Show`).

### Library, Conflicts and Boot

A frame of a screen is one step: a command, its answer, and what the model makes of it. `Library` keeps
the stack of levels and the service's cursors, which `Pump` fills outside the lock; a behaviour begins
with the screen just opened, or past its first list. A screen that is left ends the cursors of its stack
and keeps the others in their order (`Remaining`). `Conflicts` keeps the
history, which grows at the front while the screen pages through it, the one restore the sysmodule knows
of, and a call that may be handled late. `Boot` counts time in poll intervals; a service asked for before
it is registered parks the process, as `sm` does.

## Runs

| Run | Shows |
|---|---|
| `save_card` | two contents, two backup names, two faults: `NoSaveLost`, `OnlyWholeSaves`, `TakenIsBackedUp`, `ActsOnThePlan` |
| `save_card_live` | one backup name, two faults: `AsideReturns` |
| `save_sync` | two contents, other devices' moves, one fault: `MarkedWasLost`, `SupersedesOnlyWhatItMet`, `DeletedStaysDeleted`, refinement of `KeepBoth` (`KeepsBoth`), `Converges`, `KeepLocalIsAnswered` |
| `worker` | one command, a shutdown, and a game, a sleep or a timer at every point, with no interval to come to a command's help: `AckMeansQuiet`, `StoppedIsTold`, `PressIsAnswered`, `HeldIsSettled`, `AskedIsServed` (a page, a restore), `NobodyIsWaitedFor` (a sleep, a shutdown) |
| `credentials` | two servers, two pairings, one edit or Unpair, one refused call, one cut: `TokenIsItsServers`, `SliceAsksItsServer`, `PairingSurvives`, `VerdictFileAgrees`, `VerdictIsEarned` |
| `downloads` | three roms, a list of two, two presses, one fault, one file replaced: `DoneIsOnCard`, refinement of `DownloadBoard` (`BoardIsKept`), `PendingEnds` |
| `console` | `StateSync`, `SaveScan`, `RomIndex`, `PlaySessions`, `StateDb`, `Log`, `ConfigFile`, `HttpWire`, `TickChunks`: `NothingIsOverlooked`, `StaysTrueAndHome`, `TextsAreKept`, `NothingIsThrownAway` |
| `services` | `HttpWire`, `Scheduler`, `Installs`, `IpcServer`, `Pairing`, `Boot`, `Library`, `Session`, `Conflicts`: `ServedFaithfully`, `ShownWhole`, `PollsKeepPace`, `NobodyWaitsForEver` |
| `resurrected`, `stopped_sync`, `library_shrinks`, `lost_both` | one disagreement below each |

`console` and `services` check components that share no state. An initial state picks a `subject`; only
its component moves, and the others rest. The properties are conjunctions over the subjects of the named
properties of the components' modules, where each is stated and explained: `NothingIsThrownAway`, say, is
`ReplacedIsBackedUp`, `OverwritesOnlyItsOwn`, `LeavesOnlyAnswered`, `OnlyWholeFiles` and `OwedIsKept`.
Three of these parts promise less than one might wish, because the code does: `IndexIsTheLibrary` says nothing
of a fetch during which a rom was removed, `OutcomeIsTrue` nothing of the baseline of a tick of several plans
that ends as unreported, and `OverlayGetsBack` excepts the two places where the client waits without a bound
(`HeldUp`). The runs `library_shrinks` and `lost_both` show the first two without the exemption.
`NobodyWaitsForEver` is one leads-to formula over all subjects, which restates `CallEnds`, `PressRuns`,
`RequestEnds`, `AskedIsAnswered`, `AttemptSettles`, `BootEnds`, `LoadingEnds`, `OverlayGetsBack` and
`RestoringEnds`; where several may wait, `waiter` is the one that is watched. Each component also has a
specification of its own, so it can be checked alone.

Bounds. Two contents are the smallest number for which "the wrong bytes" means something, two backup
names for which a name is taken. Two faults let a refused call be followed by a cut; `AsideReturns` needs
both and only one name. For the threads, a command, a game, a sleep and a timer each meet every point of
the loop; `OneEvent` lets a behaviour have one game, one sleep or one timer (a drain's pacing, or the retry
of a failed tick), and none of them while rescans are counted, since six liveness formulas over their
products are out of reach; `AckMeansQuiet` and `StoppedIsTold` are proved without that bound. For the credentials, two servers and two pairings are what a token in
the wrong place, or an older one coming back, needs; the fault and the cut may fall on any call; a budget
of three tells a majority from a tie. For the tick, three roms and two to a request give two chunks, a
half and an oversized single; two operations to a plan let one plan hold two roms, so that one can be
stopped behind the other; two ticks show what is kept between them; two turns let a failure meet an
interruption. For the overlay's session, three calls let one be given up, its answer come late and another
be made after it, and two screens share a session. What the bounds do not reach: the history of `Conflicts`
stays below the cap that drops its oldest entries, and the list a `Library` pages through does not change
while it is read. The bounds the code names (a queue of two, a page of two, two sessions, two cursors, one
record) are set so that each is reached and passed. The proofs lift the bounds of their modules.
Symmetry is used for contents, backup names and servers in safety runs only.

Deadlock is not checked where a model's bounds, or the system, end a behaviour: after `~SdEngine` every
thread has stopped, and the other models stop once their budgets are spent. What must not stop is stated
as a temporal property.

Fairness. `SaveCard`: the engine goes on, and ticks keep coming (strongly fair, since a game or a fault
may be in the way). `SaveSync`: the console's own steps, since the scheduler's interval and backoff keep
ticks coming; the world's moves and faults are finite; two writes in one second with one size, and
a write inside an upload, happen, and `Converges` says what they cost (`Misread`, `Mislabelled`). `Worker`: each thread runs, a request in
flight ends (every one has a timeout), the console wakes once a sleep is acknowledged, a game is closed,
and the poll of a held Keep local falls due; the watcher acknowledges a quiet console (`QuietStep`), and
its budget running out is not counted on. Neither a command, nor a sleep, nor a timer is fair.
`Downloads`: the drain runs, a dequeue fires its cancellation, a backoff ends. In `services`: each thread
of the subject runs (of the overlay's session the draw thread and the worker, which go on once what they wait
for has come; `sm` answers, the sysmodule may never do, and nothing makes a parked name be registered), time passes where a deadline is waited for, and a tick or a drain that keeps being
due is started in the end (strongly fair: a game may be in the way each time).

## Proofs

Each component's invariant (`IInv`, or named for the component: `WireInv`, `TickInv`, `DbInv` and so on)
is proved inductive with one case or lemma per action, and the properties are derived from it, for every
value of the constants that satisfies the `ASSUME`s: distinct model values, natural bounds, finite
libraries, Boolean switches. Three assumptions are about numbers of the code: `kMinPollInterval` is no
more than `kMaxPairingLifetime` (`auth.hpp` has 1 and 3600 seconds for them), `kMaxBaseline` no more than
`kRc1MaxRecords`, and for `VerdictsEarned` alone the gate's budget is above two (it is three): two
answers at most are due to an older token when a grant is committed.

* `SaveCard`. `NoSaveLost` speaks of every folder a cut may leave, so `IInv` says where the owed
  bytes are in each: in every member of `cardHist` as the save or its `.old`, or in a backup that no
  step in progress may still withdraw (`Kept`, which leaves out the slot whose name is not confirmed).
  `BackupInHand` and `StagedInHand` say what the operation has established at each point.
* `SaveSync`. `SupersedesOnlyWhatItMet` needs `SyncMet` (a sync row only for a copy this console
  held); `DeletedStaysDeleted` needs `NotOffered` (what is withheld is not in the plan); the refinement
  needs `Fetching`, `CopiesKept` and `Ruled` (what is staged was given, what is taken is kept, what is
  removed was lost).
* `Worker`. `AckMeansQuiet` needs `BusyIsAsking` (busy exactly while a request or a commit is in
  flight), `AsleepIsSuspended` and `AsleepIsQuiet`: a quiet worker can only unpark when `suspended_`
  falls, and a pairing thread can only claim `busy` awake. `StoppedIsTold` needs `DrainHasToken`.
* `Credentials`. `TokenIsItsServers` speaks of every recoverable card, so `IInv` says what each path has
  established before its next call: `NamesFit` (where `CommitStaged` and `Shred` are, and that an edit
  past its discard has no token on the card), `BodyFits` (a commit writes a token of the address in
  force), `ConfigFits` (memory agrees with the card except between an edit's publish and its adoption).
  `PairingSurvives` needs `KeptFits`: each card holds the pairing, and a newer attempt has a newer name.
  The bound on the gate's count needs `GateFits`, `VerdictIsEarned` that and `EarnedFits`: as long as
  no rejection is the token's own, those counted and those still due are two at most.
* `Downloads`. The list's own facts come first (rows stay distinct through adding, taking out and moving
  to the back), then one lemma for each step of the drain. The refinement of `DownloadBoard` maps a rom
  to the state of its row, or to the file where the row was let go; `DoneIsOnCard` needs what the drain
  has in hand at each place: the row it took is still its own, and the body it staged is a version whole.
* `StateSync`. The run decides on a state in one step and replaces it in a later one, with the game and
  another client between; `RowsAreKnown`, `ListIsKnown` and `SlotIsKnown` say what was held by then of
  what it will replace, and that from the comparison to the commit a slot holds what was copied or `raced`.
* `PlaySessions`. `NoHourTwice` needs more than the sessions of the buffer: `HoursAreOnce` speaks of every
  session there is or that a power cut may bring back, and puts each of this era before the last look,
  which is what a new one begins at. `SentIsAnswered` ties what is released to what was answered.
* `StateDb`. `LinesFollow` says what the parser's rows, keys and flags are of the lines read so far;
  `HeldInOrder` that what was let go follows all that is held, so a row that comes later and smaller still
  finds its place; `CommitFollows` which of the three names has the last file at each step.
* `RomIndex`, `SaveScan`. The index rises and what is still to be read lies behind all of it; while no
  rom was removed every one the offset is past is held or the index marked. A file of the card is
  accounted for, or its turn is still to come (`EachIsHeard`), at every step of the walk.
* `HttpWire`. What is staged is a prefix of the resource (`PartIsPrefix`) and what is still to come of a
  body continues it (`RestFollows`), through breaks, resumptions and answers that start over.
* `TickChunks`. A rom of the scope is planned, set aside or ahead, and one of the three (`ScopeIsParted`):
  chunks are apart, and so are the halves of one. `OutcomeFollows` and `WordFollows` say what the result
  so far tells of the plans so far.
* `Pairing`. The time since RomM saw the last poll and the time to the next add up to the interval asked
  for, or the code is dead by then (`PaceKept`).
* `Scheduler`. An interval is over only when a credit for it is there (`CreditsAgree`), on whichever of the
  two clocks; how many ticks ran back to back follows from whether one is in hand, wanted again or
  waited for (`BurstFollows`).
* `Boot`. A facility whose last service was passed is open or noted, and what is noted is told.
* `Session`. Whoever is not waiting has given the call up (`CallsAgree`), so a late answer finds nobody; and
  the draw thread dispatches a call itself only while the worker was never started, so the slot is quiet.
* `Conflicts`. A press is wanted, out or running, in one of the three at most, and not at all once its
  restore ran (`PressesCount`). A list in progress has every entry it has gone past (`RowsHold`), whatever
  the history gains in front and loses behind.
* `IpcServer`. The table has each open session once, so a session that is dropped takes nobody else's
  place and a reply in the buffer stays its asker's.
* `Installs`. The page it takes stops at `MaxClaims` with the claims held counted in.
* `Library`. How far a cursor has read is how far its level's rows go (`BrowseInv`): each row is of the
  list before the cursor's offset, in its order, and what lies before is a row or cannot be sent. A press,
  a page, an eviction, an expiry or a list opened again changes both sides or neither; a page on its way
  carries what follows the offset it was asked at, and is dropped if the cursor moved since. It rests on
  what RomM's answers are assumed to be: lists without a repetition, roms in the order of their ids
  (`order_by=id`), and a list of platforms shorter than `kMaxLoadedRows` where the first list is past.
  While nothing was lost on the link every entry of the service is on a level or waits to be ended
  (`NoneIsLeft`), so a screen that is left leaves none: the part `LeavesNoCursor` of `ShownWhole`.
* `MCConsole`, `MCServices`. The components share no state, and a step of the composition is a step of the
  subject's (`EachStepsAlone`); so the invariants hold together, and the runs' conjunctions follow for every
  value of the constants: `NothingIsLost`, `EverythingIsHeard`, `ItStaysTrueAndHome`, `EachIsServed`, and
  `ServicesTypeCorrect`.

Only model-checked, and why. Everything that must eventually happen, since fairness and `ENABLED` are out
of the prover's reach. `TextsAreKept`: the redaction, the sizes of files and the parsing of `config.ini`
are folds over sequences, and what a fold computes for every sequence takes induction over data; for the
same reason `ConsoleTypeOK` (of the log and the settings), and of `ShownWhole` the part `AnswersAreWhole`
(a page filled entry by entry).

## Disagreements between the code and what is said of it

With a run that shows it:

* `resurrected`: a `.old` beside its save, which the sweep leaves there (`sync_tick.hpp` says it goes),
  is taken for the only copy after the server deleted the save.
* `stopped_sync`: with `interval_min = 0`, a Sync now that a sleep cancels is not run on wake.
* `library_shrinks`: pages are read by offset (`rom_index.cpp:471`), so a rom removed from the server while
  the index is read shifts the rest, and another is skipped in an index that is not marked truncated. The
  order by id was chosen so that a rom neither vanishes nor doubles (`rom_index.cpp:328-334`).
* `lost_both`: "A tick that lost both halves is `kPartial`" (`sync_tick.hpp:163`), but `Severity` ranks one
  plan's lost report past another plan's lost baseline.

Stated in a module, and violated when it is checked there with the module's own specification:

* `VerdictIsAboutItsToken` (`Credentials`): `auth.json` does not say which token it is about. A cut between
  `CommitGrant`'s new token and its removal of the old verdict boots a paired console that is blocked
  (`engine.cpp:329`), though "`Load` already declines to honour a verdict over a token it is not about"
  (`engine.cpp:3084`).
* `CutOffIsAskedAgain` (`TickChunks`): "A rom whose restore was cut off ... keeps its place in `fresh_roms_`"
  (`engine.cpp:2657`), but an operation behind one a 401 stopped has no result, so its rom leaves the list and
  its save is not asked for again.
* `RegistrationReachedServer` (`Installs`): the generation is read after the address and the token were
  (`engine.cpp:1719`), so a change of server between the two is not noticed, and the old server's answer
  stands for the new one (`engine.hpp:1020`).
* `KeepLocalIsSpent` (`SaveSync`): a Keep local of the very bytes the row marks as deleted is withheld by
  every tick (`sync_tick.cpp:344`), and so neither sent nor spent, against `docs/SYNC_PROTOCOL.md:525`.
* `TypedAfterHandshake` (`Session`): `version_checked_` is a screen's own and the session is everyone's, so a
  session reopened under one screen carries the typed commands of the screen beneath before any handshake
  (`screen_frame.hpp:88`).
* `NoOpIsInSync` (`StateSync`): a state the game writes between the commit of a download and
  `AdvanceWritten`'s reading of it (`state_sync.cpp:785`) is recorded as the server's, and the next run takes
  both sides for in sync (`state_sync.hpp:156`). A state another client rewrites within the second to the same
  length is taken so too (`state_sync.cpp:373`); the property leaves that one out.
* `OutcomeIsThePresses` (`Conflicts`): a press whose answer was late polls, and may be told how an earlier
  restore of the same entry ended (`overlay_conflicts_view.cpp:587`).
* `ResetIsTheDefault` (`ConfigFile`): removing a platform's last key leaves its section, which still
  replaces the default folders (`config_write.cpp:817`, `config.hpp:622`).

Noted while modelling, with no property: `boot_wait.hpp:41` counts seven waits where there are nine; a
request survives the switch going off and on with no `Poll` between (`scheduler.cpp:111`); a page full of
abandoned installs hides newer ones; a history that grows under paging by offset repeats rows; a save
under `.old` whose folder refused its sync may vanish with a second cut, and is then only in `.backup/`,
which is why `AsideReturns` speaks of a save every recoverable folder has; a tick whose every chunk was too
large says nothing to the gate, although `AnswerOf(kPlanTooLarge)` is "accepted"; a press between the decision
to drain and the drain's registration waits out a rom (`engine.cpp:1244`).

## Not modelled, and the plan

Not modelled for good: JSON, digests, text, TLS and chunked framing, encoding of IPC, drawing, the host
build and tooling. They are pure functions of bytes or calls into the platform; the models take their
outcomes as choices. The status, log and pairing screens draw what one call returned. The pruning of
backups, the destination of a save the card never held, and the emulator filter are not modelled yet.

Left, in this order:

1. Several held Keep local choices and the landing claim in `Worker`.
2. The emulator filter of the negotiation, and the pruning of `.backup/`.
