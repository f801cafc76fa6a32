------------------------------ MODULE Scheduler ------------------------------
(***************************************************************************)
(* When a tick runs.  The scheduler owns no thread and no clock: it is     *)
(* asked (Poll), told how the tick it handed out ended (Finished) or that  *)
(* it did not start (Defer), and reads two clocks, one that stops while    *)
(* the console sleeps and one that anybody may set.                        *)
(*                                                                         *)
(* A clock is modelled by how far it is past the last tick's stamp, capped *)
(* where it decides nothing more, so that time needs no bound: the         *)
(* monotonic one as ranFor, the wall one as wallFor, which a correction    *)
(* may move either way.                                                    *)
(***************************************************************************)
EXTENDS Integers

CONSTANTS
    Interval,         \* [sync] interval_min, in units of time
    Floor, Cap,       \* the retry curve's
    kMaxTlsAttempts, kMaxRescans

ASSUME SchedulerAssumption ==
    /\ {Interval, Floor, Cap, kMaxTlsAttempts, kMaxRescans} \subseteq Nat \ {0}
    /\ Floor <= Cap

VARIABLES
    enabled, onBoot, timed,    \* the configuration: timed is interval_min # 0
    booted, onDemand, rerun, heldTick,
    failures, retryIn,         \* the backoff's, and how long until retry_at_
    ranFor, wallFor,           \* the clocks, past last_steady_ and last_wall_
    credible,                  \* last_wall_ is one a tick can have happened at
    tlsFailures, rescans,
    tick,                      \* what Poll handed out and the worker has not settled
    running,                   \* the tick is started: no game was in the way
    burst,                     \* ticks run since time passed or one was owed to somebody
    byClock,                   \* the tick in hand, or held, is one the interval fired
    credit                     \* what the next tick the interval fires is paid with

configVars == <<enabled, onBoot, timed>>
flagVars == <<booted, onDemand, rerun, heldTick>>
clockVars == <<retryIn, ranFor, wallFor, credible>>
countVars == <<failures, tlsFailures, rescans>>
ghostVars == <<burst, byClock, credit>>
schedulerVars == <<configVars, flagVars, clockVars, countVars, tick, running, ghostVars>>

Triggers == {"none", "boot", "interval", "on_demand"}

\* What a tick may come to, as Finished tells them apart.
FailedOutcomes == {"offline", "tls"}

Least(a, b) == IF a < b THEN a ELSE b
Most(a, b) == IF a > b THEN a ELSE b

\* The monotonic clock is the lower bound; a wall clock corrected backwards, or
\* one that was not set when the last tick was stamped, is not listened to.
Elapsed == IF credible THEN Most(ranFor, wallFor) ELSE ranFor

TlsParked == tlsFailures >= kMaxTlsAttempts

\* The retry curve: doubled from the floor, to the cap.
Base == Least(Cap, Floor * 2 ^ Least(failures, Cap))

\* Mutant: only the monotonic clock is stamped, and the wall's stays behind.
MarkRanSteady == ranFor' = 0 /\ credible' \in {credible, TRUE} /\ UNCHANGED wallFor

MarkRan == ranFor' = 0 /\ wallFor' = 0 /\ credible' \in {credible, TRUE}

--------------------------------------------------------------------------
(* What the scheduler is told.                                             *)

Reconfigure ==
    /\ enabled' = ~enabled /\ UNCHANGED <<onBoot, timed>>
    /\ tlsFailures' = 0
    /\ burst' = 0
    /\ UNCHANGED <<flagVars, clockVars, failures, rescans, tick, running, byClock, credit>>

\* "Sync now", and a Keep local that landed: dropped while the switch is off.
\* RequestSync answers that a tick is running rather than come here.
RequestNow ==
    /\ enabled /\ ~running
    /\ onDemand' = TRUE /\ burst' = 0
    /\ UNCHANGED <<configVars, booted, rerun, heldTick, clockVars, countVars, tick, running,
                   byClock, credit>>

\* A drain brought a rom, or a tick skipped what a game held.
RunSoon ==
    /\ enabled
    /\ rerun' = TRUE /\ burst' = 0
    /\ UNCHANGED <<configVars, booted, onDemand, heldTick, clockVars, countVars, tick, running, byClock, credit>>

--------------------------------------------------------------------------
(* Poll: the first of these that is so.                                    *)

Idle == tick = "none"

\* Switched off: what was waiting is dropped, not queued.
PollParked ==
    /\ Idle /\ ~enabled
    /\ onDemand' = FALSE /\ rerun' = FALSE /\ heldTick' = "none"
    /\ byClock' = FALSE
    /\ UNCHANGED <<configVars, booted, clockVars, countVars, tick, running, burst,
                   credit>>

HandsOut(trigger) ==
    /\ tick' = trigger
    /\ burst' = IF trigger = "on_demand" \/ heldTick # "none" \/ ~booted THEN 0 ELSE burst
    /\ UNCHANGED <<configVars, countVars, running, credit>>

\* A press goes before every wait, and is the boot tick and the held one too.
PollOnDemand ==
    /\ Idle /\ enabled /\ onDemand
    /\ onDemand' = FALSE /\ booted' = TRUE /\ heldTick' = "none"
    /\ byClock' = FALSE
    /\ HandsOut("on_demand") /\ UNCHANGED <<rerun, clockVars>>

PollHeld ==
    /\ Idle /\ enabled /\ ~onDemand /\ heldTick # "none"
    /\ heldTick' = "none"
    /\ HandsOut(heldTick) /\ UNCHANGED <<booted, onDemand, rerun, clockVars, byClock>>

PollRerun ==
    /\ Idle /\ enabled /\ ~onDemand /\ heldTick = "none" /\ rerun
    /\ rerun' = FALSE
    /\ HandsOut("interval") /\ UNCHANGED <<booted, onDemand, heldTick, clockVars, byClock>>

Waiting == Idle /\ enabled /\ ~onDemand /\ heldTick = "none" /\ ~rerun

PollBoot ==
    /\ Waiting /\ ~booted /\ onBoot
    /\ booted' = TRUE
    /\ HandsOut("boot") /\ UNCHANGED <<onDemand, rerun, heldTick, clockVars, byClock>>

\* No boot tick: the interval runs from the start.
PollStart ==
    /\ Waiting /\ ~booted /\ ~onBoot
    /\ booted' = TRUE /\ MarkRan
    /\ UNCHANGED <<configVars, onDemand, rerun, heldTick, retryIn, countVars, tick, running,
                   ghostVars>>

\* A retry is due whether or not the interval is, unless TLS parked the schedule.
PollRetry ==
    /\ Waiting /\ booted /\ ~TlsParked /\ failures > 0 /\ retryIn = 0
    /\ HandsOut("interval") /\ UNCHANGED <<flagVars, clockVars, byClock>>

\* Once, however many intervals have gone by.
PollInterval ==
    /\ Waiting /\ booted /\ ~TlsParked /\ failures = 0 /\ timed /\ Elapsed >= Interval
    /\ byClock' = TRUE
    /\ HandsOut("interval") /\ UNCHANGED <<flagVars, clockVars>>

--------------------------------------------------------------------------
(* The worker, with the tick it was handed.                                *)

\* No game is in the way: the tick runs.
Starts ==
    /\ tick # "none" /\ ~running
    /\ running' = TRUE /\ burst' = Least(burst + 1, kMaxRescans + 3)
    /\ UNCHANGED <<configVars, flagVars, clockVars, countVars, tick, byClock, credit>>

\* Mutant: what a game holds is forgotten, not handed back.
DeferForgets ==
    /\ tick # "none" /\ enabled
    /\ tick' = "none" /\ running' = FALSE /\ burst' = 0
    /\ UNCHANGED <<configVars, flagVars, clockVars, countVars, byClock, credit>>

\* A game runs, or was started while the tick fetched the library: the scheduler
\* gets the trigger back, and nothing is recorded.
Defer ==
    /\ tick # "none"
    /\ onDemand' = (onDemand \/ (enabled /\ tick = "on_demand"))
    /\ heldTick' = IF enabled /\ tick # "on_demand" THEN tick ELSE heldTick
    /\ tick' = "none" /\ running' = FALSE
    /\ burst' = 0 \* the worker asks again a foreground poll later
    /\ UNCHANGED <<configVars, booted, rerun, clockVars, countVars, byClock, credit>>

Settles == tick # "none" /\ running /\ tick' = "none" /\ running' = FALSE

\* The tick that was due is done with, by whatever the schedule is stamped for.
Paid ==
    /\ credit' = IF byClock THEN credit - 1 ELSE credit
    /\ byClock' = FALSE
    /\ UNCHANGED <<burst>>

FinishedRan ==
    /\ Settles /\ MarkRan /\ Paid
    /\ failures' = 0 /\ tlsFailures' = 0 /\ rescans' = 0
    /\ UNCHANGED <<configVars, flagVars, retryIn>>

\* The credentials are the gate's to pace: the schedule is stamped, no more.
FinishedUnauthorized ==
    /\ Settles /\ MarkRan /\ Paid
    /\ failures' = 0 /\ rescans' = 0
    /\ UNCHANGED <<configVars, flagVars, retryIn, tlsFailures>>

\* A save was restored that the scan did not see: again at once, a few times.
FinishedRescan ==
    /\ Settles /\ rescans < kMaxRescans
    /\ rescans' = rescans + 1 /\ rerun' = TRUE
    /\ UNCHANGED <<configVars, booted, onDemand, heldTick, clockVars, failures, tlsFailures,
                   ghostVars>>

\* Mutant: the failure is counted and no wait is set for it.
FinishedFailedAtOnce(outcome) ==
    /\ Settles
    /\ rescans' = 0 /\ failures' = Least(failures + 1, Cap)
    /\ tlsFailures' = IF outcome = "tls" THEN Least(tlsFailures + 1, kMaxTlsAttempts) ELSE 0
    /\ UNCHANGED <<configVars, flagVars, clockVars, ghostVars>>

\* Anything that may come right: backed off; a TLS fault is counted, and parks.
FinishedFailed(outcome) ==
    /\ Settles
    /\ rescans' = 0 /\ failures' = Least(failures + 1, Cap)
    /\ tlsFailures' = IF outcome = "tls" THEN Least(tlsFailures + 1, kMaxTlsAttempts) ELSE 0
    /\ \E jitter \in 0..1: retryIn' = Base + jitter
    /\ UNCHANGED <<configVars, flagVars, ranFor, wallFor, credible, ghostVars>>

\* The configuration moved under the tick.
FinishedDisabled ==
    /\ Settles /\ ~enabled
    /\ rescans' = 0 /\ byClock' = FALSE
    /\ UNCHANGED <<configVars, flagVars, clockVars, failures, tlsFailures, burst,
                   credit>>

--------------------------------------------------------------------------
(* Time.                                                                   *)

\* The console is awake: both clocks move.
Passes ==
    /\ tick = "none"
    /\ ranFor' = Least(ranFor + 1, Interval) /\ wallFor' = Least(wallFor + 1, Interval)
    /\ retryIn' = Most(retryIn - 1, 0)
    /\ credit' = IF ranFor + 1 = Interval THEN 1 ELSE credit
    /\ burst' = 0
    /\ UNCHANGED <<configVars, flagVars, credible, countVars, tick, running, byClock>>

\* The console sleeps through any number of intervals, or the wall clock is set.
WallMoves ==
    /\ \E by \in {-Interval, Interval, 3 * Interval}:
         wallFor' = Least(Most(wallFor + by, -1), Interval)
    /\ credit' = 1 /\ burst' = 0
    /\ UNCHANGED <<configVars, flagVars, retryIn, ranFor, credible, countVars, tick, running,
                   byClock>>

--------------------------------------------------------------------------
SchedulerInit ==
    /\ enabled = TRUE /\ onBoot \in BOOLEAN /\ timed \in BOOLEAN
    /\ booted = FALSE /\ onDemand = FALSE /\ rerun = FALSE /\ heldTick = "none"
    /\ failures = 0 /\ retryIn = 0 /\ tlsFailures = 0 /\ rescans = 0
    /\ ranFor = Interval /\ wallFor = Interval /\ credible = FALSE
    /\ tick = "none" /\ running = FALSE
    /\ burst = 0 /\ byClock = FALSE /\ credit = 1

Poll == PollParked \/ PollOnDemand \/ PollHeld \/ PollRerun \/ PollBoot \/ PollStart \/ PollRetry
        \/ PollInterval

Finished ==
    \/ FinishedRan \/ FinishedUnauthorized \/ FinishedRescan \/ FinishedDisabled
    \/ \E outcome \in FailedOutcomes: FinishedFailed(outcome)

SchedulerNext ==
    \/ Reconfigure \/ RequestNow \/ RunSoon
    \/ Poll \/ Starts \/ Defer \/ Finished
    \/ Passes \/ WallMoves

\* The worker polls and settles what it was handed, and a game closes: a tick
\* that is handed out again and again is started in the end.
SchedulerFair ==
    /\ WF_schedulerVars(Poll)
    /\ SF_schedulerVars(Starts)
    /\ WF_schedulerVars(Finished)

SchedulerSpec == SchedulerInit /\ [][SchedulerNext]_schedulerVars /\ SchedulerFair

--------------------------------------------------------------------------
(* Properties.                                                             *)

SchedulerTypeOK ==
    /\ {enabled, onBoot, timed, booted, onDemand, rerun, credible, running} \subseteq BOOLEAN
    /\ {heldTick, tick} \subseteq Triggers
    /\ ranFor \in 0..Interval /\ wallFor \in (-1)..Interval
    /\ failures \in 0..Cap /\ retryIn \in 0..(Cap + 1)
    /\ tlsFailures \in 0..kMaxTlsAttempts /\ rescans \in 0..kMaxRescans /\ credit <= 1

(* A tick the interval fires is paid for by an interval the console was awake or
   by a move of the wall clock, one for one: a sleep through many intervals, or
   a clock set far ahead, costs one catch-up tick, and one set back costs none. *)
OneCatchUp == credit >= 0

(* Left alone, the scheduler does not run ticks back to back: a rescan is run at
   once no more than kMaxRescans times and, whatever else a tick came to, the
   next one waits for the clock, but for one that was asked for meanwhile. *)
NoTickStorm == burst <= kMaxRescans + 2

(* A press the scheduler took is run, or the switch goes off: a backoff, a parked
   TLS fault and a game that holds the tick back do not lose it. *)
PressRuns == onDemand ~> ((running /\ tick = "on_demand") \/ ~enabled)
=============================================================================
