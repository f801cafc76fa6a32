------------------------------ MODULE Pairing -------------------------------
(***************************************************************************)
(* One pairing attempt (core/src/pairing.cpp, auth.cpp, backoff.cpp): the  *)
(* console asks RomM for a code, a human approves or refuses it on the     *)
(* website, and the console polls for the token until one of them, or the  *)
(* code's lifetime, settles it.                                            *)
(*                                                                         *)
(* RomM paces the polls of a code: one that comes inside the interval it   *)
(* asked for is answered slow_down and restarts the interval, so a client  *)
(* that polls too fast never gets its token.  A granted code is spent: the *)
(* poll after one whose answer was lost finds it gone.                     *)
(*                                                                         *)
(* Times are kept relative to now, in seconds of the model.                *)
(***************************************************************************)
EXTENDS Integers, FiniteSets

CONSTANTS
    Intervals,           \* what a server may ask the client to wait between polls
    Lifetimes,           \* how long it may say a code lives
    kMinPollInterval,
    kMaxPairingLifetime,
    max_poll_backoff,
    max_rejected_polls

ASSUME PairingAssumption ==
    /\ Intervals \subseteq Nat /\ Lifetimes \subseteq Nat \ {0}
    /\ kMinPollInterval \in Nat \ {0} /\ kMaxPairingLifetime \in Nat
    /\ kMinPollInterval <= kMaxPairingLifetime
    /\ max_poll_backoff \in Nat /\ max_rejected_polls \in Nat \ {0}

VARIABLES
    attempt,  \* the PairingSession: state, the time the code has left and the
              \* time to the next poll, the interval, the failures of the
              \* backoff, the rejected polls, and the request in flight
    code      \* RomM's side: where the grant is, the time since the last poll
              \* of the code, and the interval it asked for

pairingVars == <<attempt, code>>

-----------------------------------------------------------------------------
PairingStates == {"idle", "starting", "pending", "approved", "denied", "expired", "failed"}

\* ShouldKeepPolling, but for a code nobody has answered yet: the code is alive
\* and only the moment is wrong.  So it is when a poll brings no response.
BacksOff == {"slow_down", "rate_limited", "server_error", "no response"}

Clamp(n, low, high) == IF n < low THEN low ELSE IF n > high THEN high ELSE n

LifetimeOf(expires) == Clamp(expires, 1, kMaxPairingLifetime)

\* Mutant: a slow server is polled faster than it asked.
PollIntervalHurried(asked, expires) == kMinPollInterval

\* DeviceInitResponse::poll_interval: slower than asked, never faster, and
\* never past the life of the code.
PollIntervalOf(asked, expires) ==
    Clamp(Clamp(asked, kMinPollInterval, kMaxPairingLifetime), 0, LifetimeOf(expires))

\* retry::Backoff::Base, doubling from the interval up to the cap.
Doubled(interval, failures) ==
    LET cap == IF max_poll_backoff < interval THEN interval ELSE max_poll_backoff
    IN  Clamp(interval * 2 ^ (failures - 1), 0, cap)

\* What Backoff::Fail may answer: the base and up to a quarter more.
Delays(interval, failures) ==
    LET base == Doubled(interval, failures) IN base .. (base + base \div 4)

\* Enough failures to reach the cap count as one more does.
MostFailures == 3

-----------------------------------------------------------------------------
Fails == [attempt EXCEPT !.state = "failed", !.asks = FALSE]

\* ScheduleIn: the next poll is due after the delay, never before the interval.
ScheduleIn(a, delay) ==
    [a EXCEPT !.due = IF delay < a.interval THEN a.interval ELSE delay,
              !.asks = FALSE]

\* BackOff after a transient failure.
BackedOff(a) ==
    LET failures == Clamp(a.failures + 1, 1, MostFailures)
    IN  {ScheduleIn([a EXCEPT !.failures = failures], d) :
            d \in Delays(a.interval, failures)}

\* Begin discards whatever the last attempt left, and sends nothing when the
\* server, the identifier or the scopes are missing.
Begin ==
    /\ ~attempt.asks
    /\ \E configured \in BOOLEAN :
         attempt' = [state |-> IF configured THEN "starting" ELSE "failed",
                     left |-> 0, due |-> 0, interval |-> kMinPollInterval,
                     failures |-> 0, rejected |-> 0, asks |-> configured]
    /\ UNCHANGED code

\* The answer to init: no response, a refusal and a body that does not parse
\* all fail the attempt; a code is live at once, and due its first poll.
Began ==
    /\ attempt.state = "starting"
    /\ \/ /\ attempt' = Fails
          /\ UNCHANGED code
       \/ \E asked \in Intervals, expires \in Lifetimes :
            /\ attempt' = [attempt EXCEPT !.state = "pending",
                                          !.left = LifetimeOf(expires),
                                          !.interval = PollIntervalOf(asked, expires),
                                          !.asks = FALSE]
            /\ code' = [grant |-> "waiting", since |-> asked, asked |-> asked]

-----------------------------------------------------------------------------
\* The deadline Poll looks at before it sends anything.
Lapsed == attempt.left = 0

PollLapses ==
    /\ attempt.state = "pending" /\ ~attempt.asks
    /\ Lapsed
    /\ attempt' = [attempt EXCEPT !.state = "expired"]
    /\ UNCHANGED code

\* A poll that is due is sent, outside the lock.
PollSends ==
    /\ attempt.state = "pending" /\ ~attempt.asks
    /\ ~Lapsed /\ attempt.due = 0
    /\ attempt' = [attempt EXCEPT !.asks = TRUE]
    /\ UNCHANGED code

\* What RomM answers a poll of this code, and what the poll does to it.
Romm ==
    CASE code.since < code.asked -> "slow_down"
      [] code.grant = "approved" -> "granted"
      [] code.grant = "denied" -> "access_denied"
      [] code.grant = "waiting" -> "authorization_pending"
      [] OTHER -> "expired_token"

PolledCode ==
    [code EXCEPT !.since = 0, !.grant = IF Romm = "granted" THEN "spent" ELSE @]

\* What an answer does to the attempt.
PollDoes(answer) ==
    CASE answer = "granted" -> {[attempt EXCEPT !.state = "approved", !.asks = FALSE]}
      [] answer = "authorization_pending" ->
           {ScheduleIn([attempt EXCEPT !.failures = 0, !.rejected = 0], attempt.interval)}
      [] answer \in BacksOff ->
           BackedOff([attempt EXCEPT !.rejected = 0])
      [] answer = "access_denied" -> {[attempt EXCEPT !.state = "denied", !.asks = FALSE]}
      [] answer = "expired_token" -> {[attempt EXCEPT !.state = "expired", !.asks = FALSE]}
      [] answer = "rejected" ->
           IF attempt.rejected + 1 < max_rejected_polls
             THEN BackedOff([attempt EXCEPT !.rejected = @ + 1])
             ELSE {Fails}
      [] answer \in {"unreadable grant", "unrecognized"} -> {Fails}

\* RomM answers, and the answer may be lost on the way or come out unreadable.
PollAnswered ==
    /\ attempt.state = "pending" /\ attempt.asks
    /\ code' = PolledCode
    /\ \E answer \in {Romm, "no response"}
                       \cup (IF Romm = "granted" THEN {"unreadable grant"} ELSE {}) :
         attempt' \in PollDoes(answer)

\* Something in front of RomM answers, or nothing does.
PollStopped ==
    /\ attempt.state = "pending" /\ attempt.asks
    /\ \E answer \in {"rate_limited", "server_error", "rejected", "unrecognized",
                      "no response"} :
         attempt' \in PollDoes(answer)
    /\ UNCHANGED code

-----------------------------------------------------------------------------
\* The human on RomM's website, and RomM's own clock, which may run a little
\* ahead of the console's.
HumanAnswers ==
    /\ code.grant = "waiting"
    /\ \E grant \in {"approved", "denied"} : code' = [code EXCEPT !.grant = grant]
    /\ UNCHANGED attempt

CodeLapses ==
    /\ code.grant \in {"waiting", "approved"} /\ attempt.left <= 1
    /\ code' = [code EXCEPT !.grant = "lapsed"]
    /\ UNCHANGED attempt

\* A second passes, with a request in flight or without.
SecondPasses ==
    /\ attempt.left > 0
    /\ attempt' = [attempt EXCEPT !.left = @ - 1,
                                  !.due = IF @ > 0 THEN @ - 1 ELSE 0]
    /\ code' = [code EXCEPT !.since = IF @ < code.asked THEN @ + 1 ELSE @]

PairingInit ==
    /\ attempt = [state |-> "idle", left |-> 0, due |-> 0, interval |-> kMinPollInterval,
                  failures |-> 0, rejected |-> 0, asks |-> FALSE]
    /\ code = [grant |-> "none", since |-> 0, asked |-> 0]

\* The pairing thread: it calls Poll when the next one is due, and every
\* request ends within request_timeout.
PairingThread == PollLapses \/ PollSends \/ PollAnswered \/ PollStopped \/ Began

PairingNext == Begin \/ PairingThread \/ HumanAnswers \/ CodeLapses \/ SecondPasses

PairingFair ==
    /\ WF_pairingVars(PairingThread)
    /\ WF_pairingVars(SecondPasses)

PairingSpec == PairingInit /\ [][PairingNext]_pairingVars /\ PairingFair

-----------------------------------------------------------------------------
\* Every variable keeps its type, and the rejected polls stay in their budget.
PairingTypeOK ==
    /\ attempt \in [state : PairingStates, left : 0 .. kMaxPairingLifetime,
                    due : Nat, interval : 1 .. kMaxPairingLifetime,
                    failures : 0 .. MostFailures, rejected : 0 .. max_rejected_polls - 1,
                    asks : BOOLEAN]
    /\ code \in [grant : {"none", "waiting", "approved", "denied", "spent", "lapsed"},
                 since : Nat, asked : Nat]

\* "Never faster than the server asked" (auth.hpp): every poll that is sent
\* reaches RomM after the interval it asked for, whatever it asked for,
\* however the polls before it ended and however long they took, so that
\* slow_down, from which a code does not recover, is never earned.
PollsKeepPace ==
    [][attempt.state = "pending" /\ ~attempt.asks /\ attempt'.asks
         /\ attempt'.state = "pending"
         => code.since >= code.asked]_pairingVars

\* Every attempt settles: with RomM away, rate limiting or failing for ever,
\* a started attempt and a live code both end, by the code's lifetime if by
\* nothing else.
AttemptSettles ==
    /\ attempt.state = "starting" ~> attempt.state # "starting"
    /\ attempt.state = "pending" ~> attempt.state # "pending"
=============================================================================
