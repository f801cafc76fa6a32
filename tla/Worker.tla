------------------------------- MODULE Worker -------------------------------
(***************************************************************************)
(* The engine's threads and what they share under `mutex_`: the worker     *)
(* (boot wait, restores, held Keep local choices, ticks, list pages, the   *)
(* download drain and the wait), the IPC thread, the pairing thread and    *)
(* the PSC watcher that puts them to sleep and wakes them.                 *)
(*                                                                         *)
(* A step is one slice under `mutex_`, or the stretch of work between two  *)
(* of them.  What a tick, a drain or a restore does is in other modules;   *)
(* here each of them is in flight, may be cancelled, and ends with one of  *)
(* the outcomes the loop tells apart.  Time is abstract: a deadline fires  *)
(* when the clock says so.                                                 *)
(***************************************************************************)
EXTENDS Naturals

CONSTANTS
    Interval,    \* [sync] interval_min is not 0
    OnBoot,      \* [sync] on_boot
    MayTimeOut,  \* Quiesce's budget may run out
    MaxRescans,  \* SchedulerConfig::max_rescans
    MaxCommands, \* bound: commands
    MaxGames,    \* bound: games opened
    MaxClock,    \* bound: timers that elapse
    MaxSleeps    \* bound: sleeps

ASSUME WorkerAssumption ==
    /\ Interval \in BOOLEAN
    /\ OnBoot \in BOOLEAN
    /\ MayTimeOut \in BOOLEAN
    /\ MaxRescans \in Nat
    /\ MaxCommands \in Nat
    /\ MaxGames \in Nat
    /\ MaxClock \in Nat
    /\ MaxSleeps \in Nat

VARIABLES
    wpc,          \* where the worker is
    stopping,     \* stopping_
    suspended,    \* suspended_
    signalled,    \* wakes_ differs from the count the worker decided on
    networkSeen,  \* RunWorker's network_seen
    deadline,     \* the wait the worker is heading for has a deadline
    enabled,      \* scheduler: the switch
    onDemand,     \* scheduler: on_demand_
    heldTick,     \* scheduler: held_, the trigger of a tick a game holds
    rerun,        \* scheduler: rerun_
    booted,       \* scheduler: booted_
    failing,      \* scheduler: the backoff counts a failure
    tls,          \* scheduler: tls_parked()
    due,          \* scheduler: the interval, or the retry, has elapsed
    rescans,      \* scheduler: rescans_
    trigger,      \* the trigger of the tick in hand
    off,          \* that tick read a switched-off configuration
    syncing,      \* sync_in_progress_
    tickCancel,   \* the tick's cancel token was fired
    drainCancel,  \* download_cancel_: "none", "live" or "fired"
    drainWoken,   \* download_wakes_ moved since the drain registered
    backoff,      \* now < download_due_
    queued,       \* the download queue has a rom pending
    restore,      \* restore_: "none", or the kind of one taken and not done
    keepHeld,     \* keep_local_held_ is not empty
    heldDue,      \* now >= held_poll_due_
    page,         \* a list cursor waits for a request
    ipc,          \* the IPC thread, between its slice and its Wake
    ppc,          \* where the pairing thread is
    busy,         \* pairing_busy_
    fresh,        \* attempt_ differs from driven_: "no", "attempt" or "null"
    power,        \* the PSC watcher
    late,         \* the last acknowledgement went out on the budget
    game,         \* an application is in the foreground
    owed,         \* ghost: "press" until a tick runs for it, or is "stopped"
    commands, games, clock, sleeps

sched == <<enabled, onDemand, heldTick, rerun, booted, failing, tls, due, rescans>>
tick == <<trigger, off, syncing, tickCancel>>
drain == <<drainCancel, drainWoken, backoff, queued>>
keeps == <<restore, keepHeld, heldDue>>
pairing == <<ppc, busy, fresh>>
psc == <<power, late, sleeps>>
bounds == <<commands, games, clock>>
shared == <<stopping, suspended>>
loop == <<wpc, networkSeen, deadline>>
workerVars == <<loop, shared, signalled, sched, tick, drain, keeps, page, ipc, pairing, psc, game,
                owed, bounds>>

Points == {"net", "netRestoring", "top", "parked", "restoring", "askHeld", "landing", "ask",
           "landTick", "startTick", "ticking", "ticked", "pump", "pumping", "drain", "count",
           "register", "draining", "settle", "waiting", "gone"}
Triggers == {"none", "boot", "interval", "onDemand"}

WorkerTypeOK ==
    /\ wpc \in Points
    /\ stopping \in BOOLEAN
    /\ suspended \in BOOLEAN
    /\ signalled \in BOOLEAN
    /\ networkSeen \in BOOLEAN
    /\ deadline \in BOOLEAN
    /\ enabled \in BOOLEAN
    /\ onDemand \in BOOLEAN
    /\ heldTick \in Triggers
    /\ rerun \in BOOLEAN
    /\ booted \in BOOLEAN
    /\ failing \in BOOLEAN
    /\ tls \in BOOLEAN
    /\ due \in BOOLEAN
    /\ rescans \in 0 .. MaxRescans
    /\ trigger \in Triggers
    /\ off \in BOOLEAN
    /\ syncing \in BOOLEAN
    /\ tickCancel \in BOOLEAN
    /\ drainCancel \in {"none", "live", "fired"}
    /\ drainWoken \in BOOLEAN
    /\ backoff \in BOOLEAN
    /\ queued \in BOOLEAN
    /\ restore \in {"none", "restore", "keep"}
    /\ keepHeld \in BOOLEAN
    /\ heldDue \in BOOLEAN
    /\ page \in BOOLEAN
    /\ ipc \in {"idle", "wake", "wakeDownloads"}
    /\ ppc \in {"idle", "request", "await", "commit", "gone"}
    /\ busy \in BOOLEAN
    /\ fresh \in {"no", "attempt", "null"}
    /\ power \in {"awake", "quiescing", "asleep", "unsubscribed"}
    /\ late \in BOOLEAN
    /\ game \in BOOLEAN
    /\ owed \in {"no", "press", "stopped"}
    /\ commands \in 0 .. MaxCommands
    /\ games \in 0 .. MaxGames
    /\ clock \in 0 .. MaxClock
    /\ sleeps \in 0 .. MaxSleeps

WorkerInit ==
    /\ wpc = "net"
    /\ stopping = FALSE /\ suspended = FALSE
    /\ signalled = FALSE
    /\ networkSeen = FALSE /\ deadline = FALSE
    /\ enabled \in BOOLEAN
    /\ onDemand = FALSE /\ heldTick = "none" /\ rerun = FALSE /\ booted = FALSE
    /\ failing = FALSE /\ tls = FALSE /\ due = FALSE /\ rescans = 0
    /\ trigger = "none" /\ off = FALSE /\ syncing = FALSE /\ tickCancel = FALSE
    /\ drainCancel = "none" /\ drainWoken = FALSE /\ backoff = FALSE
    /\ queued \in BOOLEAN
    /\ restore = "none" /\ keepHeld = FALSE /\ heldDue = FALSE
    /\ page = FALSE
    /\ ipc = "idle"
    /\ ppc = "idle" /\ busy = FALSE /\ fresh = "no"
    /\ power = "awake" /\ late = FALSE
    /\ game = FALSE
    /\ owed = "no"
    /\ commands = 0 /\ games = 0 /\ clock = 0 /\ sleeps = 0

Goes(p) == wpc' = p /\ UNCHANGED <<networkSeen, deadline>>

-----------------------------------------------------------------------------
(* The worker: the boot wait, and the top of its loop.                      *)

\* A restore taken and not yet begun (restore_pending_).
Pending == restore # "none" /\ wpc \notin {"restoring", "netRestoring"}

\* AwaitNetwork: the probe says yes, or the wait is given up, or a restore runs inside it.
NetworkUp ==
    /\ wpc = "net"
    /\ wpc' = "top" /\ networkSeen' = TRUE
    /\ UNCHANGED <<deadline, shared, signalled, sched, tick, drain, keeps, page, ipc, pairing, psc,
                   game, owed, bounds>>

NetworkGivenUp ==
    /\ wpc = "net"
    /\ wpc' = "top" /\ networkSeen' = FALSE
    /\ UNCHANGED <<deadline, shared, signalled, sched, tick, drain, keeps, page, ipc, pairing, psc,
                   game, owed, bounds>>

NetworkRestore ==
    /\ wpc = "net"
    /\ ~stopping /\ ~suspended
    /\ Pending
    /\ Goes("netRestoring")
    /\ UNCHANGED <<shared, signalled, sched, tick, drain, keeps, page, ipc, pairing, psc, game,
                   owed, bounds>>

Leave ==
    /\ wpc = "top"
    /\ stopping
    /\ Goes("gone")
    /\ UNCHANGED <<shared, signalled, sched, tick, drain, keeps, page, ipc, pairing, psc, game,
                   owed, bounds>>

Park ==
    /\ wpc = "top"
    /\ ~stopping /\ suspended
    /\ Goes("parked")
    /\ UNCHANGED <<shared, signalled, sched, tick, drain, keeps, page, ipc, pairing, psc, game,
                   owed, bounds>>

\* A boot wait the sleep cut short is waited again.
Unpark ==
    /\ wpc = "parked"
    /\ stopping \/ ~suspended
    /\ Goes(IF ~stopping /\ ~networkSeen THEN "net" ELSE "top")
    /\ UNCHANGED <<shared, signalled, sched, tick, drain, keeps, page, ipc, pairing, psc, game,
                   owed, bounds>>

StartRestore ==
    /\ wpc = "top"
    /\ ~stopping /\ ~suspended
    /\ Pending
    /\ Goes("restoring")
    /\ UNCHANGED <<shared, signalled, sched, tick, drain, keeps, page, ipc, pairing, psc, game,
                   owed, bounds>>

\* RunRestore: a Keep local under a game is held; one that landed asks for a tick.
RestoreEnds ==
    /\ wpc \in {"restoring", "netRestoring"}
    /\ Goes(IF wpc = "restoring" THEN "top" ELSE "net")
    /\ restore' = "none"
    /\ \/ UNCHANGED <<keepHeld, heldDue, onDemand, signalled>>
       \/ /\ restore = "keep" /\ game
          /\ keepHeld' = TRUE /\ heldDue' = FALSE
          /\ signalled' = TRUE
          /\ UNCHANGED onDemand
       \/ /\ restore = "keep" /\ ~game
          /\ keepHeld' = FALSE /\ heldDue' = FALSE
          /\ onDemand' = (onDemand \/ enabled)
          /\ signalled' = TRUE
    /\ UNCHANGED <<shared, enabled, heldTick, rerun, booted, failing, tls, due, rescans, tick,
                   drain, page, ipc, pairing, psc, game, owed, bounds>>

\* A Keep local held under a game: the foreground is asked every foreground_poll_.
AskHeld ==
    /\ wpc = "top"
    /\ ~stopping /\ ~suspended /\ ~Pending
    /\ keepHeld /\ heldDue
    /\ Goes("askHeld")
    /\ UNCHANGED <<shared, signalled, sched, tick, drain, keeps, page, ipc, pairing, psc, game,
                   owed, bounds>>

HeldIsFree ==
    /\ wpc = "askHeld"
    /\ ~game
    /\ Goes(IF keepHeld THEN "landing" ELSE "top")
    /\ UNCHANGED <<shared, signalled, sched, tick, drain, keeps, page, ipc, pairing, psc, game,
                   owed, bounds>>

\* LandHeldKeepLocal(ask_tick = true): what landed is armed and asks for a tick, what did
\* not is dropped.
Land ==
    /\ wpc = "landing"
    /\ Goes("top")
    /\ keepHeld' = FALSE /\ heldDue' = FALSE
    /\ \/ onDemand' = (onDemand \/ enabled) /\ signalled' = TRUE
       \/ UNCHANGED <<onDemand, signalled>>
    /\ UNCHANGED <<shared, enabled, heldTick, rerun, booted, failing, tls, due, rescans, tick,
                   drain, restore, page, ipc, pairing, psc, game, owed, bounds>>

-----------------------------------------------------------------------------
(* Scheduler::Poll, in the slice that reads `wakes_`.                       *)

Runs(t) == trigger' = t /\ wpc' = "ask" /\ UNCHANGED deadline
Waits(d) == trigger' = "none" /\ wpc' = "pump" /\ deadline' = d

PollDisabled ==
    /\ ~enabled
    /\ onDemand' = FALSE /\ heldTick' = "none" /\ rerun' = FALSE
    /\ Waits(FALSE)
    /\ owed' = "no"
    /\ UNCHANGED <<booted, due>>

PollOnDemand ==
    /\ enabled /\ onDemand
    /\ onDemand' = FALSE /\ heldTick' = "none" /\ booted' = TRUE
    /\ Runs("onDemand")
    /\ UNCHANGED <<rerun, due, owed>>

PollHeld ==
    /\ enabled /\ ~onDemand /\ heldTick # "none"
    /\ heldTick' = "none"
    /\ Runs(heldTick)
    /\ UNCHANGED <<onDemand, rerun, booted, due, owed>>

PollRerun ==
    /\ enabled /\ ~onDemand /\ heldTick = "none" /\ rerun
    /\ rerun' = FALSE
    /\ Runs("interval")
    /\ UNCHANGED <<onDemand, heldTick, booted, due, owed>>

PollBoot ==
    /\ enabled /\ ~onDemand /\ heldTick = "none" /\ ~rerun
    /\ ~booted /\ OnBoot
    /\ booted' = TRUE
    /\ Runs("boot")
    /\ UNCHANGED <<onDemand, heldTick, rerun, due, owed>>

\* The TLS park, the backoff and the interval; without a boot tick the interval starts here.
PollTimer ==
    /\ enabled /\ ~onDemand /\ heldTick = "none" /\ ~rerun
    /\ booted \/ ~OnBoot
    /\ booted' = TRUE
    /\ due' = (due /\ booted)
    /\ IF tls THEN Waits(FALSE)
       ELSE IF due' THEN Runs("interval")
       ELSE Waits(failing \/ Interval)
    /\ UNCHANGED <<onDemand, heldTick, rerun, owed>>

Poll ==
    /\ signalled' = FALSE
    /\ PollDisabled \/ PollOnDemand \/ PollHeld \/ PollRerun \/ PollBoot \/ PollTimer
    /\ UNCHANGED <<networkSeen, shared, enabled, failing, tls, rescans, off, syncing, tickCancel,
                   drain, restore, keepHeld, page, ipc, pairing, psc, game, bounds>>

Decide ==
    /\ wpc = "top"
    /\ ~stopping /\ ~suspended /\ ~Pending
    /\ ~(keepHeld /\ heldDue)
    /\ Poll
    /\ UNCHANGED heldDue

\* The game still runs: the next ask is one poll away, and the loop goes on to decide.
HeldStaysHeld ==
    /\ wpc = "askHeld"
    /\ game
    /\ heldDue' = FALSE
    /\ Poll

-----------------------------------------------------------------------------
(* A due tick.                                                              *)

\* Scheduler::Defer: the tick a game holds goes back to the scheduler.
Defer ==
    /\ onDemand' = (onDemand \/ (enabled /\ trigger = "onDemand"))
    /\ heldTick' = IF enabled /\ trigger \in {"boot", "interval"} THEN trigger ELSE heldTick
    /\ Waits(TRUE)
    /\ UNCHANGED <<networkSeen, enabled, rerun, booted, failing, tls, due, rescans>>

TickWaitsForGame ==
    /\ wpc = "ask"
    /\ game
    /\ Defer
    /\ UNCHANGED <<shared, signalled, off, syncing, tickCancel, drain, keeps, page, ipc, pairing, psc,
                   game, owed, bounds>>

TickMayRun ==
    /\ wpc = "ask"
    /\ ~game
    /\ IF keepHeld
       THEN Goes("landTick") /\ UNCHANGED syncing
       ELSE Goes("startTick") /\ syncing' = TRUE
    /\ UNCHANGED <<shared, signalled, sched, trigger, off, tickCancel, drain, keeps, page, ipc, pairing,
                   psc, game, owed, bounds>>

\* LandHeldKeepLocal(ask_tick = false), ahead of the tick that sends it.
LandAheadOfTick ==
    /\ wpc = "landTick"
    /\ Goes("startTick")
    /\ keepHeld' = FALSE /\ heldDue' = FALSE
    /\ syncing' = TRUE
    /\ UNCHANGED <<shared, signalled, sched, trigger, off, tickCancel, drain, restore,
                   page, ipc, pairing, psc, game, owed, bounds>>

\* Mutant: a tick that starts under a shutdown or a sleep is not told.
StartTickUntold ==
    /\ wpc = "startTick"
    /\ Goes("ticking")
    /\ tickCancel' = FALSE
    /\ off' = ~enabled
    /\ UNCHANGED <<shared, signalled, sched, trigger, syncing, drain, keeps, page, ipc, pairing, psc, game,
                   owed, bounds>>

\* StartTick: the token is registered, and fired at once under a shutdown or a sleep.
StartTick ==
    /\ wpc = "startTick"
    /\ Goes("ticking")
    /\ tickCancel' = (stopping \/ suspended)
    /\ off' = ~enabled
    /\ UNCHANGED <<shared, signalled, sched, trigger, syncing, drain, keeps, page, ipc, pairing, psc, game,
                   owed, bounds>>

\* Scheduler::Finished and RecordTick.  A tick that ran restamps the interval; one that
\* skipped chunks or states for a game is run again.
TickRan ==
    /\ failing' = FALSE /\ due' = FALSE /\ rescans' = 0
    /\ tls' \in {FALSE, tls}
    /\ rerun' \in {rerun, rerun \/ (game /\ enabled)}
    /\ owed' = "no"

TickFailed ==
    /\ failing' = TRUE /\ due' = FALSE /\ rescans' = 0
    /\ tls' \in BOOLEAN
    /\ rerun' = rerun
    /\ owed' = "no"

\* Mutant: the bound on rescans is not asked.
TickRescansForever ==
    /\ rescans' = rescans + 1
    /\ rerun' = TRUE
    /\ UNCHANGED <<failing, tls, due, owed>>

TickRescans ==
    /\ rescans < MaxRescans
    /\ rescans' = rescans + 1
    /\ rerun' = TRUE
    /\ UNCHANGED <<failing, tls, due, owed>>

\* Nothing is recorded of a cancelled tick: what it was for is only owed still when a
\* press came after it.
TickCancelled ==
    /\ tickCancel
    /\ owed' = IF owed = "press" /\ ~onDemand THEN "stopped" ELSE owed
    /\ UNCHANGED <<failing, tls, due, rescans, rerun>>

TickFoundDisabled ==
    /\ off
    /\ rescans' = 0
    /\ owed' = "no"
    /\ UNCHANGED <<failing, tls, due, rerun>>

\* ServeInstalls: a rom the web UI queued for this console goes through Enqueue.
ClaimInstalls ==
    \/ UNCHANGED <<queued, backoff, signalled>>
    \/ queued' = TRUE /\ backoff' = FALSE /\ signalled' = TRUE

TickEnds ==
    /\ wpc = "ticking"
    /\ ClaimInstalls
    /\ Goes("ticked")
    /\ TickRan \/ TickFailed \/ TickRescans \/ TickCancelled \/ TickFoundDisabled
    /\ trigger' = "none" /\ off' = FALSE /\ tickCancel' = FALSE
    /\ UNCHANGED <<shared, enabled, onDemand, heldTick, booted, syncing, drainCancel, drainWoken,
                   keeps, page, ipc, pairing, psc, game, bounds>>

\* A game launched while the library was fetched: handed back like one that was not run.
TickIsHeld ==
    /\ wpc = "ticking"
    /\ game
    /\ Defer
    /\ syncing' = FALSE /\ off' = FALSE /\ tickCancel' = FALSE
    /\ UNCHANGED <<shared, signalled, drain, keeps, page, ipc, pairing, psc, game,
                   owed, bounds>>

TickDone ==
    /\ wpc = "ticked"
    /\ Goes("top")
    /\ syncing' = FALSE
    /\ UNCHANGED <<shared, signalled, sched, trigger, off, tickCancel, drain, keeps, page, ipc, pairing,
                   psc, game, owed, bounds>>

-----------------------------------------------------------------------------
(* A list page, and the download drain.                                     *)

StartPump ==
    /\ wpc = "pump"
    /\ Goes(IF page THEN "pumping" ELSE "drain")
    /\ UNCHANGED <<shared, signalled, sched, tick, drain, keeps, page, ipc, pairing, psc, game,
                   owed, bounds>>

PumpEnds ==
    /\ wpc = "pumping"
    /\ page' = FALSE
    /\ wpc' = "top" /\ deadline' = FALSE
    /\ UNCHANGED <<networkSeen, shared, signalled, sched, tick, drain, keeps, ipc, pairing, psc, game, owed,
                   bounds>>

\* RunOneDrain's three looks: the flags and the pacing, the queue, and the registration.
DrainLooks ==
    /\ wpc = "drain"
    /\ IF stopping \/ suspended THEN Goes("settle")
       ELSE IF backoff THEN wpc' = "settle" /\ deadline' = TRUE /\ UNCHANGED networkSeen
       ELSE Goes("count")
    /\ UNCHANGED <<shared, signalled, sched, tick, drain, keeps, page, ipc, pairing, psc, game,
                   owed, bounds>>

DrainCounts ==
    /\ wpc = "count"
    /\ Goes(IF queued THEN "register" ELSE "settle")
    /\ UNCHANGED <<shared, signalled, sched, tick, drain, keeps, page, ipc, pairing, psc, game,
                   owed, bounds>>

\* Downloads switched off, no transport, no token or a blocked gate end it here too.
Register ==
    /\ wpc = "register"
    /\ \/ /\ ~stopping /\ ~suspended
          /\ drainCancel' = "live" /\ drainWoken' = FALSE
          /\ Goes("draining")
       \/ Goes("settle") /\ UNCHANGED <<drainCancel, drainWoken>>
    /\ UNCHANGED <<shared, signalled, sched, tick, backoff, queued, keeps, page, ipc, pairing, psc,
                   game, owed, bounds>>

\* A rom that arrived asks for a tick.  A rom queued after the drain's last look stays.  An
\* outcome that is to be retried is paced; pacing that a command cleared meanwhile stays so.
DrainEnds ==
    /\ wpc = "draining"
    /\ wpc' = "top" /\ deadline' = FALSE
    /\ drainCancel' = "none" /\ drainWoken' = FALSE
    /\ rerun' \in {rerun, rerun \/ enabled}
    /\ queued' \in {FALSE, queued}
    /\ backoff' \in {FALSE, ~drainWoken}
    /\ UNCHANGED <<networkSeen, shared, signalled, enabled, onDemand, heldTick, booted, failing, tls,
                   due, rescans, tick, keeps, page, ipc, pairing, psc, game, owed, bounds>>

\* Mutant: `wakes_` is read where the wait begins, not where the loop decided.
SettleReadsLate ==
    /\ wpc = "settle"
    /\ signalled' = FALSE
    /\ IF stopping
       THEN wpc' = "top" /\ deadline' = FALSE
       ELSE wpc' = "waiting" /\ deadline' = (deadline \/ keepHeld)
    /\ UNCHANGED <<networkSeen, shared, sched, tick, drain, keeps, page, ipc, pairing,
                   psc, game, owed, bounds>>

\* Mutant: a held Keep local puts no deadline on the wait.
SettleForgetsHeld ==
    /\ wpc = "settle"
    /\ IF stopping \/ signalled
       THEN wpc' = "top" /\ deadline' = FALSE
       ELSE wpc' = "waiting" /\ deadline' = deadline
    /\ UNCHANGED <<networkSeen, shared, signalled, sched, tick, drain, keeps, page, ipc, pairing,
                   psc, game, owed, bounds>>

\* Anything signalled since the decision is looked at before the wait begins.
Settle ==
    /\ wpc = "settle"
    /\ IF stopping \/ signalled
       THEN wpc' = "top" /\ deadline' = FALSE
       ELSE wpc' = "waiting" /\ deadline' = (deadline \/ keepHeld)
    /\ UNCHANGED <<networkSeen, shared, signalled, sched, tick, drain, keeps, page, ipc, pairing,
                   psc, game, owed, bounds>>

Woken ==
    /\ wpc = "waiting"
    /\ stopping \/ signalled \/ deadline
    /\ wpc' = "top" /\ deadline' = FALSE
    /\ UNCHANGED <<networkSeen, shared, signalled, sched, tick, drain, keeps, page, ipc, pairing, psc, game,
                   owed, bounds>>

-----------------------------------------------------------------------------
(* The IPC thread: one command at a time, its slice and then its Wake.      *)

Command(w) ==
    /\ ipc = "idle"
    /\ ~stopping
    /\ commands < MaxCommands
    /\ commands' = commands + 1
    /\ ipc' = w
    /\ UNCHANGED <<loop, shared, signalled, pairing, psc, game, games, clock>>

\* The token of the tick or the drain in flight; where there is none nothing is fired.
CancelTick == tickCancel' = (tickCancel \/ wpc = "ticking")
CancelDrain == drainCancel' = IF drainCancel = "none" THEN "none" ELSE "fired"

\* Refused while a tick runs.  A switched-off console takes it and runs nothing.
RequestSync ==
    /\ Command("wake")
    /\ ~syncing
    /\ onDemand' = (onDemand \/ enabled)
    /\ CancelDrain
    /\ owed' = IF enabled THEN "press" ELSE owed
    /\ UNCHANGED <<enabled, heldTick, rerun, booted, failing, tls, due, rescans, tick, drainWoken,
                   backoff, queued, keeps, page>>

\* ApplyConfigEdit, as far as the schedule goes (Reconfigure).
SetEnabled ==
    /\ Command("wakeDownloads")
    /\ enabled' = ~enabled
    /\ tls' = FALSE
    /\ UNCHANGED <<onDemand, heldTick, rerun, booted, failing, due, rescans, tick, drain, keeps,
                   page, owed>>

\* Mutant: the restore is left for the worker to find.
TakeRestoreUnwoken ==
    /\ Command("idle")
    /\ restore = "none"
    /\ restore' \in {"restore", "keep"}
    /\ CancelDrain
    /\ UNCHANGED <<sched, tick, drainWoken, backoff, queued, keepHeld, heldDue, page, owed>>

TakeRestore ==
    /\ Command("wake")
    /\ restore = "none"
    /\ restore' \in {"restore", "keep"}
    /\ CancelDrain
    /\ UNCHANGED <<sched, tick, drainWoken, backoff, queued, keepHeld, heldDue, page, owed>>

\* Nothing is undone once the landing has claimed the choice.  It answers a choice that
\* took a command to make, so no bound is put on it.
CancelKeepLocal ==
    /\ ipc = "idle" /\ ~stopping
    /\ keepHeld /\ restore # "keep"
    /\ wpc \notin {"landing", "landTick"}
    /\ keepHeld' = FALSE /\ heldDue' = FALSE
    /\ UNCHANGED <<loop, shared, signalled, sched, tick, drain, restore, page, ipc, pairing, psc,
                   game, owed, bounds>>

Enqueue ==
    /\ Command("wakeDownloads")
    /\ queued' = TRUE
    /\ UNCHANGED <<sched, tick, drainCancel, drainWoken, backoff, keeps, page, owed>>

Dequeue ==
    /\ Command("wakeDownloads")
    /\ queued
    /\ queued' = FALSE
    /\ CancelDrain
    /\ UNCHANGED <<sched, tick, drainWoken, backoff, keeps, page, owed>>

\* Mutant: a page asked for wakes nobody.
ListNextUnwoken ==
    /\ Command("idle")
    /\ page' = TRUE
    /\ UNCHANGED <<sched, tick, drain, keeps, owed>>

ListNext ==
    /\ Command("wake")
    /\ page' = TRUE
    /\ UNCHANGED <<sched, tick, drain, keeps, owed>>

Wake ==
    /\ ipc = "wake"
    /\ ipc' = "idle"
    /\ signalled' = TRUE
    /\ UNCHANGED <<loop, shared, sched, tick, drain, keeps, page, pairing, psc, game, owed,
                   bounds>>

WakeDownloads ==
    /\ ipc = "wakeDownloads"
    /\ ipc' = "idle"
    /\ signalled' = TRUE
    /\ drainWoken' = (wpc = "draining") /\ backoff' = FALSE
    /\ UNCHANGED <<loop, shared, sched, tick, drainCancel, queued, keeps, page, pairing, psc, game,
                   owed, bounds>>

-----------------------------------------------------------------------------
(* The pairing thread.                                                      *)

Others == <<loop, shared, signalled, sched, tick, drain, keeps, page, ipc, psc, game, owed, games, clock>>

StartPairing ==
    /\ ipc = "idle" /\ ~stopping
    /\ commands < MaxCommands /\ commands' = commands + 1
    /\ fresh' = "attempt"
    /\ UNCHANGED <<Others, ppc, busy>>

\* A change of server abandons the attempt.
AbandonPairing ==
    /\ ipc = "idle" /\ ~stopping
    /\ commands < MaxCommands /\ commands' = commands + 1
    /\ fresh' = "null"
    /\ UNCHANGED <<Others, ppc, busy>>

\* DrivePairing picks the attempt up, and is busy before it lets go of the lock.
PairingBegins ==
    /\ ppc = "idle"
    /\ ~stopping /\ ~suspended
    /\ fresh # "no"
    /\ fresh' = "no"
    /\ ppc' = IF fresh = "attempt" THEN "request" ELSE "idle"
    /\ busy' = (busy \/ fresh = "attempt")
    /\ UNCHANGED <<Others, commands>>

PairingAnswered ==
    /\ ppc = "request"
    /\ \/ ppc' = "await" /\ busy' = FALSE
       \/ ppc' = "idle" /\ busy' = FALSE
       \/ ppc' = "commit" /\ busy' = busy
    /\ UNCHANGED <<Others, fresh, commands>>

PairingCommits ==
    /\ ppc = "commit"
    /\ ppc' = "idle" /\ busy' = FALSE
    /\ UNCHANGED <<Others, fresh, commands>>

\* Mutant: busy is claimed after the lock is let go.
PairingPollsUnclaimed ==
    /\ ppc = "await" /\ ~stopping /\ ~suspended /\ fresh = "no"
    /\ ppc' = "request" /\ busy' = busy
    /\ UNCHANGED <<Others, fresh, commands>>

\* AwaitNextPoll: the next poll is due and the console is awake.
PairingPolls ==
    /\ ppc = "await"
    /\ ~stopping /\ ~suspended /\ fresh = "no"
    /\ ppc' = "request" /\ busy' = TRUE
    /\ UNCHANGED <<Others, fresh, commands>>

\* Mutant: the wait for the next poll is not left on shutdown.
PairingSupersededOnly ==
    /\ ppc = "await"
    /\ fresh # "no"
    /\ ppc' = "idle" /\ busy' = FALSE
    /\ UNCHANGED <<Others, fresh, commands>>

PairingSuperseded ==
    /\ ppc = "await"
    /\ stopping \/ fresh # "no"
    /\ ppc' = "idle" /\ busy' = FALSE
    /\ UNCHANGED <<Others, fresh, commands>>

PairingLeaves ==
    /\ ppc = "idle"
    /\ stopping
    /\ ppc' = "gone"
    /\ UNCHANGED <<Others, busy, fresh, commands>>

-----------------------------------------------------------------------------
(* Sleep, wake and shutdown.                                                *)

Still == <<loop, sched, trigger, off, syncing, drainWoken, backoff, queued, keeps, page, ipc, pairing,
           game, owed, bounds>>

\* Mutant: the flag is raised and nobody is notified.
SleepReadyUnwoken ==
    /\ power = "awake"
    /\ ~stopping
    /\ sleeps < MaxSleeps
    /\ sleeps' = sleeps + 1
    /\ power' = "quiescing" /\ late' = FALSE
    /\ suspended' = TRUE
    /\ CancelDrain
    /\ CancelTick
    /\ UNCHANGED <<Still, stopping, signalled>>

\* Watcher::Run at SleepReady, and Quiesce up to its wait.
SleepReady ==
    /\ power = "awake"
    /\ ~stopping
    /\ sleeps < MaxSleeps
    /\ sleeps' = sleeps + 1
    /\ power' = "quiescing" /\ late' = FALSE
    /\ suspended' = TRUE
    /\ CancelDrain
    /\ CancelTick
    /\ signalled' = TRUE
    /\ UNCHANGED <<Still, stopping>>

\* The worker parked or gone, and no pairing request or commit in flight.
Quiet == wpc \in {"parked", "gone"} /\ ~busy

Acknowledge ==
    /\ power = "quiescing"
    /\ Quiet \/ MayTimeOut
    /\ power' = "asleep" /\ late' = ~Quiet
    /\ UNCHANGED <<Still, shared, signalled, drainCancel, tickCancel, sleeps>>

\* MinimumAwake, or a subscription that is lost while asleep: Resume either way.
MinimumAwake ==
    /\ power = "asleep"
    /\ power' \in {"awake", "unsubscribed"}
    /\ suspended' = FALSE /\ late' = FALSE
    /\ signalled' = TRUE
    /\ UNCHANGED <<Still, stopping, drainCancel, tickCancel, sleeps>>

\* ~SdEngine, after the subscription is gone and the IPC service with it.
Stop ==
    /\ power \in {"awake", "unsubscribed"}
    /\ ipc = "idle"
    /\ ~stopping
    /\ stopping' = TRUE
    /\ power' = "unsubscribed"
    /\ CancelDrain
    /\ CancelTick
    /\ UNCHANGED <<Still, suspended, signalled, late, sleeps>>

-----------------------------------------------------------------------------
(* Games and the clock.                                                     *)

Quietly == <<loop, shared, signalled, tick, keeps, page, ipc, pairing, psc, owed>>

GameOpens ==
    /\ ~game
    /\ games < MaxGames /\ games' = games + 1
    /\ game' = TRUE
    /\ UNCHANGED <<Quietly, sched, drain, commands, clock>>

GameCloses ==
    /\ game
    /\ game' = FALSE
    /\ UNCHANGED <<Quietly, sched, drain, bounds>>

TimerElapses ==
    /\ clock < MaxClock
    /\ clock' = clock + 1
    /\ \/ ~due /\ (Interval \/ failing) /\ due' = TRUE /\ UNCHANGED backoff
       \/ backoff /\ backoff' = FALSE /\ UNCHANGED due
    /\ UNCHANGED <<Quietly, enabled, onDemand, heldTick, rerun, booted, failing, tls, rescans,
                   drainCancel, drainWoken, queued, game, commands, games>>

HeldPollDue ==
    /\ keepHeld /\ ~heldDue
    /\ heldDue' = TRUE
    /\ UNCHANGED <<loop, shared, signalled, sched, tick, drain, restore, keepHeld, page, ipc,
                   pairing, psc, game, owed, bounds>>

WorkerStep ==
    \/ NetworkUp \/ NetworkGivenUp \/ NetworkRestore \/ Leave \/ Park \/ Unpark
    \/ StartRestore \/ RestoreEnds \/ AskHeld \/ HeldIsFree \/ HeldStaysHeld \/ Land \/ Decide
    \/ TickWaitsForGame \/ TickMayRun \/ LandAheadOfTick \/ StartTick \/ TickEnds \/ TickIsHeld
    \/ TickDone \/ StartPump \/ PumpEnds \/ DrainLooks \/ DrainCounts \/ Register \/ DrainEnds
    \/ Settle \/ Woken

IpcWakes == Wake \/ WakeDownloads

PairingStep ==
    \/ PairingBegins \/ PairingAnswered \/ PairingCommits \/ PairingPolls \/ PairingSuperseded
    \/ PairingLeaves

Commands ==
    \/ RequestSync \/ SetEnabled \/ TakeRestore \/ CancelKeepLocal \/ Enqueue \/ Dequeue
    \/ ListNext \/ StartPairing \/ AbandonPairing

PowerStep == Acknowledge \/ MinimumAwake

WorkerNext ==
    \/ WorkerStep \/ IpcWakes \/ PairingStep \/ Commands \/ PowerStep
    \/ SleepReady \/ Stop \/ GameOpens \/ GameCloses \/ TimerElapses \/ HeldPollDue

WorkerSpec == WorkerInit /\ [][WorkerNext]_workerVars

(* The threads run, a request in flight ends (every one has a timeout), a   *)
(* console that sleeps wakes, a game is closed, and time passes.  Quiesce   *)
(* is held to its answer once the threads are quiet: nothing here counts on *)
(* the budget running out.                                                  *)
QuietStep == (Acknowledge /\ Quiet) \/ MinimumAwake

WorkerFair ==
    /\ WF_workerVars(WorkerStep) /\ WF_workerVars(IpcWakes) /\ WF_workerVars(PairingStep)
    /\ WF_workerVars(QuietStep) /\ WF_workerVars(GameCloses) /\ WF_workerVars(HeldPollDue)

WorkerFairSpec == WorkerSpec /\ WorkerFair

-----------------------------------------------------------------------------
(* Properties.                                                              *)

(* Quiesce: an acknowledgement that did not go out on the budget goes out   *)
(* with nothing in flight on the worker or the pairing thread, and nothing  *)
(* starts until the wake.                                                   *)
InFlight ==
    \/ wpc \in {"netRestoring", "restoring", "landing", "landTick", "startTick", "ticking",
                 "pumping", "draining"}
    \/ ppc \in {"request", "commit"}
AckMeansQuiet == power = "asleep" /\ ~late => ~InFlight

(* StartTick and RunOneDrain close the window between the worker's decision *)
(* and its cancel token: whatever is in flight once a sleep or a shutdown   *)
(* began has been told to stop.                                             *)
StoppedIsTold ==
    stopping \/ suspended =>
        /\ wpc = "ticking" => tickCancel
        /\ wpc = "draining" => drainCancel = "fired"

(* What the acknowledgement rests on, as one inductive invariant: the       *)
(* pairing thread is busy exactly while it asks or commits, and a quiet     *)
(* worker stays parked for as long as the console is asleep.                *)
BusyIsAsking == busy <=> ppc \in {"request", "commit"}
AsleepIsSuspended == suspended <=> power \in {"quiescing", "asleep"}
AsleepIsQuiet == power = "asleep" /\ ~late => Quiet
Awake == stopping => ~suspended
DrainHasToken == wpc = "draining" <=> drainCancel # "none"

WorkerInv ==
    /\ WorkerTypeOK
    /\ BusyIsAsking
    /\ AsleepIsSuspended
    /\ AsleepIsQuiet
    /\ Awake
    /\ DrainHasToken
    /\ StoppedIsTold

(* wakes_: a Sync now that was taken is never slept over, parked schedule   *)
(* or not: a tick runs for it, or is stopped by a sleep, or the switch goes *)
(* off, or the process does.                                                *)
PressIsAnswered == owed = "press" ~> owed # "press" \/ stopping

(* A restore that was taken is carried out and a page that was asked for is *)
(* fetched, whatever the worker was doing when they came.                   *)
AskedIsServed ==
    /\ restore # "none" ~> restore = "none" \/ stopping
    /\ page ~> ~page \/ stopping

(* A held Keep local is landed or dropped.                                  *)
HeldIsSettled == keepHeld ~> ~keepHeld \/ stopping

(* Quiesce and ~SdEngine wait for threads that wait for nobody: every sleep *)
(* is acknowledged without the budget, and every shutdown joins.            *)
NobodyIsWaitedFor ==
    /\ power = "quiescing" ~> power # "quiescing"
    /\ stopping ~> wpc = "gone" /\ ppc = "gone"

(* "Putting the console to sleep is also safe: the sysmodule stops its work *)
(* before the console sleeps and picks it up on wake" (docs/INSTALL.md).    *)
StoppedSyncRuns == owed = "stopped" ~> owed # "stopped" \/ stopping
=============================================================================
