--------------------------- MODULE ServicesProofs ---------------------------
(***************************************************************************)
(* What the components behind somebody who waits keep for every value of   *)
(* their constants: pairing, the scheduler, the start of the process, the  *)
(* overlay's session and its conflict screen, the IPC port, remote         *)
(* installs and the library.                                               *)
(*                                                                         *)
(* They share no state, so each theorem is about the component's own       *)
(* specification, and the composition's follows at the end.                *)
(***************************************************************************)
EXTENDS MCServices, LibraryProofs, FiniteSetTheorems, SequenceTheorems, TLAPS

-----------------------------------------------------------------------------
(* Pairing.  A poll that is due is one the interval has passed for: the    *)
(* time since RomM saw the last poll and the time to the next one add up   *)
(* to what it asked for, or the code is dead by then.                      *)

PaceKept ==
    /\ attempt.state = "starting" => attempt.left = 0 /\ attempt.due = 0
    /\ attempt.state = "pending" =>
         /\ attempt.interval >= code.asked \/ attempt.interval >= attempt.left
         /\ code.since + attempt.due >= code.asked \/ attempt.left <= attempt.due

PairingInv == PairingTypeOK /\ PaceKept

\* A backoff is no shorter than nothing, and is a number of seconds.
LEMMA DelaysAreTimes ==
    ASSUME NEW interval \in Nat, NEW fails \in 1 .. MostFailures,
           NEW d \in Delays(interval, fails)
    PROVE  d \in Int
  <1>0. fails \in {1, 2, 3}  BY DEF MostFailures
  <1>1. 2 ^ (fails - 1) \in Nat
    <2>1. CASE fails = 1  BY <2>1
    <2>2. CASE fails = 2  BY <2>2
    <2>3. CASE fails = 3  BY <2>3
    <2>4. QED  BY <1>0, <2>1, <2>2, <2>3
  <1>2. interval * 2 ^ (fails - 1) \in Nat
    <2>1. PICK k \in Nat : k = 2 ^ (fails - 1)  BY <1>1
    <2>2. interval * k \in Nat  OBVIOUS
    <2>3. QED  BY <2>1, <2>2
  <1>3. Doubled(interval, fails) \in Nat
    <2>1. PICK k \in Nat : k = interval * 2 ^ (fails - 1)  BY <1>2
    <2>2. max_poll_backoff \in Nat  BY PairingAssumption
    <2>3. Clamp(k, 0, IF max_poll_backoff < interval THEN interval ELSE max_poll_backoff) \in Nat
      BY <2>2 DEF Clamp
    <2>4. QED  BY <2>1, <2>3 DEF Doubled
  <1>4. PICK base \in Nat : base = Doubled(interval, fails)  BY <1>3
  <1>5. d \in base .. (base + base \div 4)  BY <1>4 DEF Delays
  <1>6. QED  BY <1>5

\* The next poll after a failure is no sooner than the interval, and nothing
\* else about the attempt changes but its counts.
LEMMA BackingOff ==
    ASSUME NEW a, a.interval \in Nat, a.failures \in 0 .. MostFailures,
           a \in [state : {a.state}, left : {a.left}, due : {a.due}, interval : {a.interval},
                  failures : {a.failures}, rejected : {a.rejected}, asks : {a.asks}],
           NEW b \in BackedOff(a)
    PROVE  \E due \in Nat, fails \in 0 .. MostFailures :
              /\ due >= a.interval
              /\ b = [a EXCEPT !.failures = fails, !.due = due, !.asks = FALSE]
  <1> DEFINE f == Clamp(a.failures + 1, 1, MostFailures)
  <1>1. f \in 1 .. MostFailures  BY DEF Clamp, MostFailures
  <1>2. PICK d \in Delays(a.interval, f) : b = ScheduleIn([a EXCEPT !.failures = f], d)
    BY DEF BackedOff
  <1> HIDE DEF f
  <1>3. d \in Int  BY <1>1, <1>2, DelaysAreTimes
  <1>4. PICK due : due = IF d < a.interval THEN a.interval ELSE d  OBVIOUS
  <1>5. due \in Nat /\ due >= a.interval  BY <1>3, <1>4
  <1>6. b = [a EXCEPT !.failures = f, !.due = due, !.asks = FALSE]
    BY <1>2, <1>4 DEF ScheduleIn
  <1>7. f \in 0 .. MostFailures  BY <1>1 DEF MostFailures
  <1>8. QED  BY <1>5, <1>6, <1>7

\* What a poll is told, and an attempt that one of these leads to.
PollAnswerKinds ==
    {"granted", "authorization_pending", "access_denied", "expired_token", "rejected",
     "unreadable grant", "unrecognized"} \cup BacksOff

\* An attempt that is over, and one that goes on with the next poll scheduled.
AttemptOver(b) ==
    \E settled \in {"approved", "denied", "expired", "failed"} :
        b = [attempt EXCEPT !.state = settled, !.asks = FALSE]

PollsAgain(b, refusals) ==
    \E due \in Nat, fails \in 0 .. MostFailures :
        /\ due >= attempt.interval
        /\ b = [attempt EXCEPT !.failures = fails, !.rejected = refusals, !.due = due, !.asks = FALSE]

PollLeadsTo(b) == \E answer \in PollAnswerKinds : b \in PollDoes(answer)

\* What an answer does to an attempt, for those that end it and those that do not.
LEMMA PollAnswers ==
    ASSUME PairingTypeOK, attempt.state = "pending", NEW b, PollLeadsTo(b)
    PROVE  \/ AttemptOver(b)
           \/ \E refusals \in 0 .. max_rejected_polls - 1 : PollsAgain(b, refusals)
  <1>0. /\ attempt \in [state : PairingStates, left : 0 .. kMaxPairingLifetime,
                        due : Nat, interval : 1 .. kMaxPairingLifetime,
                        failures : 0 .. MostFailures, rejected : 0 .. max_rejected_polls - 1,
                        asks : BOOLEAN]
    BY DEF PairingTypeOK
  <1>a. max_rejected_polls \in Nat \ {0} /\ kMaxPairingLifetime \in Nat
    BY PairingAssumption
  <1>b. /\ attempt.interval \in Nat /\ attempt.failures \in 0 .. MostFailures
        /\ attempt.rejected \in 0 .. max_rejected_polls - 1
        /\ attempt = [state |-> attempt.state, left |-> attempt.left, due |-> attempt.due,
                      interval |-> attempt.interval, failures |-> attempt.failures,
                      rejected |-> attempt.rejected, asks |-> attempt.asks]
    BY <1>0, <1>a
  <1>c. 0 \in 0 .. max_rejected_polls - 1 /\ 0 \in 0 .. MostFailures
    BY <1>a DEF MostFailures
  <1>1. ASSUME NEW refusals \in 0 .. max_rejected_polls - 1,
               b \in BackedOff([attempt EXCEPT !.rejected = refusals])
        PROVE  PollsAgain(b, refusals)
    <2> DEFINE a == [attempt EXCEPT !.rejected = refusals]
    <2>1. /\ a.interval \in Nat /\ a.failures \in 0 .. MostFailures /\ a.interval = attempt.interval
          /\ a \in [state : {a.state}, left : {a.left}, due : {a.due}, interval : {a.interval},
                    failures : {a.failures}, rejected : {a.rejected}, asks : {a.asks}]
      BY <1>b
    <2>2. PICK due \in Nat, fails \in 0 .. MostFailures :
             /\ due >= a.interval
             /\ b = [a EXCEPT !.failures = fails, !.due = due, !.asks = FALSE]
      <3> HIDE DEF a
      <3>1. b \in BackedOff(a)  BY <1>1 DEF a
      <3>2. QED  BY <2>1, <3>1, BackingOff
    <2>3. b = [attempt EXCEPT !.failures = fails, !.rejected = refusals, !.due = due, !.asks = FALSE]
      BY <1>b, <2>2
    <2>4. QED  BY <2>1, <2>2, <2>3 DEF PollsAgain
  <1>2. PICK answer \in PollAnswerKinds : b \in PollDoes(answer)  BY DEF PollLeadsTo
  <1>3. QED
    <2>2. CASE answer = "granted"
      <3>1. b = [attempt EXCEPT !.state = "approved", !.asks = FALSE]  BY <1>2, <2>2 DEF PollDoes, BacksOff
      <3>2. QED  BY <3>1 DEF AttemptOver
    <2>3. CASE answer = "authorization_pending"
      <3>1. b = ScheduleIn([attempt EXCEPT !.failures = 0, !.rejected = 0], attempt.interval)
        BY <1>2, <2>3 DEF PollDoes, BacksOff
      <3>2. b = [attempt EXCEPT !.failures = 0, !.rejected = 0, !.due = attempt.interval, !.asks = FALSE]
        BY <1>b, <3>1 DEF ScheduleIn
      <3>3. attempt.interval >= attempt.interval  BY <1>b
      <3>4. PollsAgain(b, 0)  BY <1>b, <1>c, <3>2, <3>3 DEF PollsAgain
      <3>5. QED  BY <1>c, <3>4
    <2>4. CASE answer \in BacksOff
      <3>1. b \in BackedOff([attempt EXCEPT !.rejected = 0])
        BY <1>2, <2>4 DEF PollDoes, BacksOff
      <3>2. QED  BY <1>1, <1>c, <3>1
    <2>5. CASE answer = "access_denied"
      <3>1. b = [attempt EXCEPT !.state = "denied", !.asks = FALSE]  BY <1>2, <2>5 DEF PollDoes, BacksOff
      <3>2. QED  BY <3>1 DEF AttemptOver
    <2>6. CASE answer = "expired_token"
      <3>1. b = [attempt EXCEPT !.state = "expired", !.asks = FALSE]  BY <1>2, <2>6 DEF PollDoes, BacksOff
      <3>2. QED  BY <3>1 DEF AttemptOver
    <2>7. CASE answer = "rejected"
      <3>1. CASE attempt.rejected + 1 < max_rejected_polls
        <4>1. b \in BackedOff([attempt EXCEPT !.rejected = @ + 1])
          BY <1>2, <2>7, <3>1 DEF PollDoes, BacksOff
        <4>2. attempt.rejected + 1 \in 0 .. max_rejected_polls - 1  BY <1>a, <1>b, <3>1
        <4>3. QED  BY <1>1, <4>1, <4>2
      <3>2. CASE ~(attempt.rejected + 1 < max_rejected_polls)
        <4>1. b = Fails  BY <1>2, <2>7, <3>2 DEF PollDoes, BacksOff
        <4>2. QED  BY <4>1 DEF Fails, AttemptOver
      <3>3. QED  BY <3>1, <3>2
    <2>8. CASE answer \in {"unreadable grant", "unrecognized"}
      <3>1. b = Fails  BY <1>2, <2>8 DEF PollDoes, BacksOff
      <3>2. QED  BY <3>1 DEF Fails, AttemptOver
    <2>9. QED  BY <1>2, <2>2, <2>3, <2>4, <2>5, <2>6, <2>7, <2>8 DEF PollAnswerKinds

\* RomM's answer is one of those.
LEMMA RommAnswers ==
    Romm \in {"slow_down", "granted", "access_denied", "authorization_pending", "expired_token"}
  BY DEF Romm

\* The attempt after an answer keeps its type and its pace: the poll RomM saw
\* starts the interval over, one it never saw leaves it as it was.
LEMMA AnAnswerKeepsPace ==
    ASSUME PairingInv, attempt.state = "pending", attempt.asks, PollLeadsTo(attempt'),
           code' \in {code, PolledCode}
    PROVE  PairingInv'
  <1>0. /\ attempt \in [state : PairingStates, left : 0 .. kMaxPairingLifetime,
                        due : Nat, interval : 1 .. kMaxPairingLifetime,
                        failures : 0 .. MostFailures, rejected : 0 .. max_rejected_polls - 1,
                        asks : BOOLEAN]
        /\ code \in [grant : {"none", "waiting", "approved", "denied", "spent", "lapsed"},
                     since : Nat, asked : Nat]
    BY DEF PairingInv, PairingTypeOK
  <1>1. /\ code' \in [grant : {"none", "waiting", "approved", "denied", "spent", "lapsed"},
                      since : Nat, asked : Nat]
        /\ code'.asked = code.asked
    <2>1. PICK g \in {code.grant, "spent"} : g = IF Romm = "granted" THEN "spent" ELSE code.grant
      OBVIOUS
    <2>2. PolledCode = [code EXCEPT !.since = 0, !.grant = g]  BY <1>0, <2>1 DEF PolledCode
    <2>3. g \in {"none", "waiting", "approved", "denied", "spent", "lapsed"}  BY <1>0, <2>1
    <2>4. CASE code' = code  BY <1>0, <2>4
    <2>5. CASE code' = PolledCode
      <3>1. code' = [code EXCEPT !.since = 0, !.grant = g]  BY <2>2, <2>5
      <3>2. QED  BY <1>0, <2>3, <3>1
    <2>6. QED  BY <2>4, <2>5
  <1>2. CASE AttemptOver(attempt')
    <2>1. PICK settled \in {"approved", "denied", "expired", "failed"} :
                 attempt' = [attempt EXCEPT !.state = settled, !.asks = FALSE]
      BY <1>2 DEF AttemptOver
    <2>2. /\ attempt' \in [state : PairingStates, left : 0 .. kMaxPairingLifetime,
                        due : Nat, interval : 1 .. kMaxPairingLifetime,
                        failures : 0 .. MostFailures, rejected : 0 .. max_rejected_polls - 1,
                        asks : BOOLEAN]
          /\ attempt'.state \notin {"starting", "pending"}
      BY <1>0, <2>1 DEF PairingStates
    <2>3. QED  BY <1>1, <2>2 DEF PairingInv, PairingTypeOK, PaceKept
  <1>3. CASE \E refusals \in 0 .. max_rejected_polls - 1 : PollsAgain(attempt', refusals)
    <2>1. PICK due \in Nat, fails \in 0 .. MostFailures, refusals \in 0 .. max_rejected_polls - 1 :
                 /\ due >= attempt.interval
                 /\ attempt' = [attempt EXCEPT !.failures = fails, !.rejected = refusals,
                                        !.due = due, !.asks = FALSE]
      BY <1>3 DEF PollsAgain
    <2>2. /\ attempt' \in [state : PairingStates, left : 0 .. kMaxPairingLifetime,
                        due : Nat, interval : 1 .. kMaxPairingLifetime,
                        failures : 0 .. MostFailures, rejected : 0 .. max_rejected_polls - 1,
                        asks : BOOLEAN]
          /\ attempt'.state = "pending" /\ attempt'.due = due /\ attempt'.left = attempt.left
          /\ attempt'.interval = attempt.interval
      BY <1>0, <2>1
    <2>3. attempt.interval >= code.asked \/ attempt.interval >= attempt.left
      BY DEF PairingInv, PaceKept
    <2>4. code'.since + due >= code'.asked \/ attempt.left <= due
      BY <1>0, <1>1, <2>1, <2>3, PairingAssumption
    <2>5. PaceKept'  BY <1>1, <2>2, <2>3, <2>4 DEF PaceKept
    <2>6. QED  BY <1>1, <2>2, <2>5 DEF PairingInv, PairingTypeOK
  <1>4. QED  BY <1>2, <1>3, PollAnswers DEF PairingInv

\* Seconds and interval of a code that was just handed out.
LEMMA CodesAreBounded ==
    ASSUME NEW wait \in Intervals, NEW expires \in Lifetimes
    PROVE  /\ wait \in Nat /\ LifetimeOf(expires) \in 1 .. kMaxPairingLifetime
           /\ PollIntervalOf(wait, expires) \in 1 .. kMaxPairingLifetime
           /\ \/ PollIntervalOf(wait, expires) >= wait
              \/ PollIntervalOf(wait, expires) >= LifetimeOf(expires)
  <1>1. /\ wait \in Nat /\ expires \in Nat \ {0}
        /\ kMinPollInterval \in Nat \ {0} /\ kMaxPairingLifetime \in Nat
        /\ kMinPollInterval <= kMaxPairingLifetime
    BY PairingAssumption
  <1>2. PICK life \in 1 .. kMaxPairingLifetime : life = LifetimeOf(expires)
    BY <1>1 DEF LifetimeOf, Clamp
  <1>3. PICK pace \in Nat : pace = Clamp(wait, kMinPollInterval, kMaxPairingLifetime)
    BY <1>1 DEF Clamp
  <1>4. pace \in 1 .. kMaxPairingLifetime /\ (pace >= wait \/ pace = kMaxPairingLifetime)
    BY <1>1, <1>3 DEF Clamp
  <1>5. PollIntervalOf(wait, expires) = IF pace > life THEN life ELSE pace
    BY <1>1, <1>2, <1>3, <1>4 DEF PollIntervalOf, Clamp
  <1>6. QED  BY <1>1, <1>2, <1>4, <1>5

LEMMA PairingBegins == PairingInit => PairingInv
  <1> SUFFICES ASSUME PairingInit PROVE PairingInv  OBVIOUS
  <1>1. kMinPollInterval \in 1 .. kMaxPairingLifetime /\ kMaxPairingLifetime \in Nat
        /\ 0 \in 0 .. kMaxPairingLifetime /\ 0 \in 0 .. max_rejected_polls - 1
    BY PairingAssumption
  <1>2. PairingTypeOK
    BY <1>1 DEF PairingInit, PairingTypeOK, PairingStates, MostFailures
  <1>3. PaceKept  BY DEF PairingInit, PaceKept
  <1>4. QED  BY <1>2, <1>3 DEF PairingInv

LEMMA PairingSteps ==
    ASSUME PairingInv, [PairingNext]_pairingVars
    PROVE  PairingInv'
  <1>0. /\ attempt \in [state : PairingStates, left : 0 .. kMaxPairingLifetime,
                        due : Nat, interval : 1 .. kMaxPairingLifetime,
                        failures : 0 .. MostFailures, rejected : 0 .. max_rejected_polls - 1,
                        asks : BOOLEAN]
        /\ code \in [grant : {"none", "waiting", "approved", "denied", "spent", "lapsed"},
                     since : Nat, asked : Nat]
    BY DEF PairingInv, PairingTypeOK
  <1>a. /\ kMinPollInterval \in 1 .. kMaxPairingLifetime /\ kMaxPairingLifetime \in Nat
        /\ 0 \in 0 .. kMaxPairingLifetime /\ 0 \in 0 .. max_rejected_polls - 1
    BY PairingAssumption
  <1>b. PaceKept  BY DEF PairingInv
  <1>1. CASE Begin
    <2>1. PICK configured \in BOOLEAN :
         attempt' = [state |-> IF configured THEN "starting" ELSE "failed",
                     left |-> 0, due |-> 0, interval |-> kMinPollInterval,
                     failures |-> 0, rejected |-> 0, asks |-> configured]
      BY <1>1 DEF Begin
    <2>2. code' = code  BY <1>1 DEF Begin
    <2>3. PairingTypeOK'
      BY <1>0, <1>a, <2>1, <2>2 DEF PairingTypeOK, PairingStates, MostFailures
    <2>4. attempt'.left = 0 /\ attempt'.due = 0 /\ attempt'.state # "pending"  BY <2>1
    <2>5. QED  BY <2>3, <2>4 DEF PairingInv, PaceKept
  <1>2. CASE Began
    <2>1. CASE attempt' = Fails /\ UNCHANGED code
      <3>1. attempt' \in [state : PairingStates, left : 0 .. kMaxPairingLifetime,
                        due : Nat, interval : 1 .. kMaxPairingLifetime,
                        failures : 0 .. MostFailures, rejected : 0 .. max_rejected_polls - 1,
                        asks : BOOLEAN] /\ attempt'.state = "failed"
        BY <1>0, <2>1 DEF Fails, PairingStates
      <3>2. QED  BY <1>0, <2>1, <3>1 DEF PairingInv, PairingTypeOK, PaceKept
    <2>2. ASSUME NEW wait \in Intervals, NEW expires \in Lifetimes,
                 attempt' = [attempt EXCEPT !.state = "pending",
                                            !.left = LifetimeOf(expires),
                                            !.interval = PollIntervalOf(wait, expires),
                                            !.asks = FALSE],
                 code' = [grant |-> "waiting", since |-> wait, asked |-> wait]
          PROVE  PairingInv'
      <3>1. /\ wait \in Nat /\ LifetimeOf(expires) \in 1 .. kMaxPairingLifetime
            /\ PollIntervalOf(wait, expires) \in 1 .. kMaxPairingLifetime
            /\ \/ PollIntervalOf(wait, expires) >= wait
               \/ PollIntervalOf(wait, expires) >= LifetimeOf(expires)
        BY <2>2, CodesAreBounded
      <3>2. attempt.due = 0  BY <1>2, <1>b DEF Began, PaceKept
      <3>3. /\ attempt' \in [state : PairingStates, left : 0 .. kMaxPairingLifetime,
                        due : Nat, interval : 1 .. kMaxPairingLifetime,
                        failures : 0 .. MostFailures, rejected : 0 .. max_rejected_polls - 1,
                        asks : BOOLEAN]
            /\ attempt'.state = "pending" /\ attempt'.left = LifetimeOf(expires)
            /\ attempt'.interval = PollIntervalOf(wait, expires) /\ attempt'.due = 0
        <4>1. LifetimeOf(expires) \in 0 .. kMaxPairingLifetime  BY <1>a, <3>1
        <4>2. QED  BY <1>0, <2>2, <3>1, <3>2, <4>1 DEF PairingStates
      <3>4. PairingTypeOK'  BY <2>2, <3>1, <3>3 DEF PairingTypeOK
      <3>5. PaceKept'
        <4>1. code'.since = wait /\ code'.asked = wait /\ wait + 0 >= wait  BY <2>2, <3>1
        <4>2. QED  BY <3>1, <3>3, <4>1 DEF PaceKept
      <3>6. QED  BY <3>4, <3>5 DEF PairingInv
    <2>3. QED  BY <1>2, <2>1, <2>2 DEF Began
  <1>3. CASE PollLapses
    <2>1. attempt' \in [state : PairingStates, left : 0 .. kMaxPairingLifetime,
                        due : Nat, interval : 1 .. kMaxPairingLifetime,
                        failures : 0 .. MostFailures, rejected : 0 .. max_rejected_polls - 1,
                        asks : BOOLEAN] /\ attempt'.state = "expired" /\ code' = code
      BY <1>0, <1>3 DEF PollLapses, PairingStates
    <2>2. QED  BY <1>0, <2>1 DEF PairingInv, PairingTypeOK, PaceKept
  <1>4. CASE PollSends
    <2>1. /\ attempt' \in [state : PairingStates, left : 0 .. kMaxPairingLifetime,
                        due : Nat, interval : 1 .. kMaxPairingLifetime,
                        failures : 0 .. MostFailures, rejected : 0 .. max_rejected_polls - 1,
                        asks : BOOLEAN]
          /\ attempt'.state = attempt.state /\ attempt'.left = attempt.left
          /\ attempt'.due = attempt.due /\ attempt'.interval = attempt.interval /\ code' = code
      BY <1>0, <1>4 DEF PollSends
    <2>2. QED  BY <1>0, <1>b, <2>1 DEF PairingInv, PairingTypeOK, PaceKept
  <1>5. CASE PollAnswered
    <2>1. PollLeadsTo(attempt')
      <3>1. PICK answer \in {Romm, "no response"}
                       \cup (IF Romm = "granted" THEN {"unreadable grant"} ELSE {}) :
               attempt' \in PollDoes(answer)
        BY <1>5 DEF PollAnswered
      <3>2. answer \in PollAnswerKinds  BY <3>1, RommAnswers DEF PollAnswerKinds, BacksOff
      <3>3. QED  BY <3>1, <3>2 DEF PollLeadsTo
    <2>2. QED  BY <1>5, <2>1, AnAnswerKeepsPace DEF PollAnswered
  <1>6. CASE PollStopped
    <2>1. PollLeadsTo(attempt')
      BY <1>6 DEF PollStopped, PollLeadsTo, PollAnswerKinds, BacksOff
    <2>2. QED  BY <1>6, <2>1, AnAnswerKeepsPace DEF PollStopped
  <1>7. CASE HumanAnswers \/ CodeLapses
    <2>1. /\ attempt' = attempt /\ code'.since = code.since /\ code'.asked = code.asked
          /\ code' \in [grant : {"none", "waiting", "approved", "denied", "spent", "lapsed"},
                        since : Nat, asked : Nat]
      BY <1>0, <1>7 DEF HumanAnswers, CodeLapses
    <2>2. QED  BY <1>0, <1>b, <2>1 DEF PairingInv, PairingTypeOK, PaceKept
  <1>8. CASE SecondPasses
    <2>1. PICK due \in Nat : due = IF attempt.due > 0 THEN attempt.due - 1 ELSE 0  BY <1>0
    <2>2. PICK since \in Nat : since = IF code.since < code.asked THEN code.since + 1 ELSE code.since
      BY <1>0
    <2>3. /\ attempt' = [attempt EXCEPT !.left = attempt.left - 1, !.due = due]
          /\ code' = [code EXCEPT !.since = since]
          /\ attempt.left > 0
      BY <1>0, <1>8, <2>1, <2>2 DEF SecondPasses
    <2>4. attempt.left - 1 \in 0 .. kMaxPairingLifetime  BY <1>0, <1>a, <2>3
    <2>5. PairingTypeOK'  BY <1>0, <2>3, <2>4 DEF PairingTypeOK
    <2>6. /\ attempt'.state = attempt.state /\ attempt'.left = attempt.left - 1
          /\ attempt'.due = due /\ attempt'.interval = attempt.interval
          /\ code'.since = since /\ code'.asked = code.asked
      BY <1>0, <2>3
    <2>7. PaceKept'
      <3>1. attempt.state # "starting"  BY <1>0, <1>a, <1>b, <2>3 DEF PaceKept
      <3>2. ASSUME attempt.state = "pending"
            PROVE  /\ attempt.interval >= code.asked \/ attempt.interval >= attempt.left - 1
                   /\ since + due >= code.asked \/ attempt.left - 1 <= due
        <4>1. /\ attempt.interval >= code.asked \/ attempt.interval >= attempt.left
              /\ code.since + attempt.due >= code.asked \/ attempt.left <= attempt.due
          BY <1>b, <3>2 DEF PaceKept
        <4>2. QED  BY <1>0, <1>a, <2>1, <2>2, <2>3, <4>1
      <3>3. QED  BY <2>6, <3>1, <3>2 DEF PaceKept
    <2>8. QED  BY <2>5, <2>7 DEF PairingInv
  <1>9. CASE UNCHANGED pairingVars
    <2>1. attempt' = attempt /\ code' = code  BY <1>9 DEF pairingVars
    <2>2. QED  BY <2>1 DEF PairingInv, PairingTypeOK, PaceKept
  <1>10. QED
    BY <1>1, <1>2, <1>3, <1>4, <1>5, <1>6, <1>7, <1>8, <1>9 DEF PairingNext, PairingThread

\* Of pairing: what the attempt's next poll is due for, and what RomM has counted.
THEOREM PairingInvariance == PairingSpec => []PairingInv
  BY PairingBegins, PairingSteps, PTL DEF PairingSpec

\* The attempt and the code keep their types, and the rejected polls stay in
\* their budget, whatever RomM and what stands in front of it answer.
THEOREM PairingTypeCorrect == PairingSpec => []PairingTypeOK
  <1>1. PairingInv => PairingTypeOK  BY DEF PairingInv
  <1>2. QED  BY <1>1, PairingInvariance, PTL

\* A poll that is sent is sent to a live code that was left its interval.
LEMMA AStepKeepsPace ==
    ASSUME PairingInv, [PairingNext]_pairingVars
    PROVE  attempt.state = "pending" /\ ~attempt.asks /\ attempt'.asks
             /\ attempt'.state = "pending" => code.since >= code.asked
  <1>0. /\ attempt \in [state : PairingStates, left : 0 .. kMaxPairingLifetime,
                        due : Nat, interval : 1 .. kMaxPairingLifetime,
                        failures : 0 .. MostFailures, rejected : 0 .. max_rejected_polls - 1,
                        asks : BOOLEAN]
        /\ code \in [grant : {"none", "waiting", "approved", "denied", "spent", "lapsed"},
                     since : Nat, asked : Nat]
    BY DEF PairingInv, PairingTypeOK
  <1> SUFFICES ASSUME attempt.state = "pending", ~attempt.asks, attempt'.asks,
                      attempt'.state = "pending"
               PROVE  code.since >= code.asked
    OBVIOUS
  <1>1. CASE PollSends
    <2>1. attempt.left # 0 /\ attempt.due = 0  BY <1>1 DEF PollSends, Lapsed
    <2>2. code.since + attempt.due >= code.asked \/ attempt.left <= attempt.due
      BY DEF PairingInv, PaceKept
    <2>3. QED  BY <1>0, <2>1, <2>2, PairingAssumption
  <1>2. CASE Begin  BY <1>2 DEF Begin
  <1>3. CASE PollLapses \/ Began \/ PollAnswered \/ PollStopped
    BY <1>0, <1>3 DEF PollLapses, Began, PollAnswered, PollStopped
  <1>4. CASE HumanAnswers \/ CodeLapses \/ UNCHANGED pairingVars
    BY <1>4 DEF HumanAnswers, CodeLapses, pairingVars
  <1>5. CASE SecondPasses  BY <1>0, <1>5 DEF SecondPasses
  <1>6. QED  BY <1>1, <1>2, <1>3, <1>4, <1>5 DEF PairingNext, PairingThread

\* "Never faster than the server asked": a poll is sent only when RomM has let
\* the interval it asked for go by, for any interval, lifetime and backoff.
THEOREM ThePollsKeepPace == PairingSpec => PollsKeepPace
  <1>1. ASSUME PairingInv, [PairingNext]_pairingVars
        PROVE  [attempt.state = "pending" /\ ~attempt.asks /\ attempt'.asks
                  /\ attempt'.state = "pending" => code.since >= code.asked]_pairingVars
    BY <1>1, AStepKeepsPace
  <1>2. QED  BY <1>1, PairingInvariance, PTL DEF PairingSpec, PollsKeepPace

-----------------------------------------------------------------------------
(* The scheduler.  What a tick of the interval is paid with is there when  *)
(* the interval is over, and how many ticks have run back to back follows  *)
(* from whether one is in hand, wanted again, or waited for.               *)

\* An interval is over only when a credit for it is there.
CreditsAgree ==
    /\ credit \in {0, 1}
    /\ byClock => credit = 1
    /\ credit = 0 => ranFor < Interval /\ wallFor <= ranFor

\* Nothing is due before time passes.
Quiets == (failures = 0 => Elapsed < Interval) /\ (failures > 0 => retryIn > 0)

BurstFollows ==
    /\ burst \in Nat
    /\ running => tick # "none"
    /\ tick # "none" /\ rerun => burst <= (IF running THEN 1 ELSE 0)
    /\ tick = "none" /\ rerun => burst <= rescans + 1
    /\ tick # "none" /\ ~rerun => burst + (IF running THEN 0 ELSE 1) <= rescans + 2
    /\ tick = "none" /\ ~rerun =>
         \/ burst <= rescans + 1
         \/ (Quiets \/ ~enabled) /\ burst <= kMaxRescans + 2

SchedulerInv == SchedulerTypeOK /\ CreditsAgree /\ BurstFollows

\* The type invariant, variable by variable.
SchedulerTyped ==
    /\ enabled \in BOOLEAN /\ onBoot \in BOOLEAN /\ timed \in BOOLEAN /\ booted \in BOOLEAN
    /\ onDemand \in BOOLEAN /\ rerun \in BOOLEAN /\ credible \in BOOLEAN /\ running \in BOOLEAN
    /\ heldTick \in Triggers /\ tick \in Triggers
    /\ ranFor \in 0 .. Interval /\ wallFor \in (-1) .. Interval
    /\ failures \in 0 .. Cap /\ retryIn \in 0 .. (Cap + 1)
    /\ tlsFailures \in 0 .. kMaxTlsAttempts /\ rescans \in 0 .. kMaxRescans

LEMMA SchedulerConstants ==
    /\ Interval \in Nat \ {0} /\ Floor \in Nat \ {0} /\ Cap \in Nat \ {0}
    /\ kMaxTlsAttempts \in Nat \ {0} /\ kMaxRescans \in Nat \ {0}
  BY SchedulerAssumption

LEMMA SchedulerTypes ==
    ASSUME SchedulerTypeOK
    PROVE  SchedulerTyped
  BY DEF SchedulerTypeOK, SchedulerTyped

\* Two to any power is a number past zero: it counts the subsets of a set.
LEMMA PowersOfTwo ==
    ASSUME NEW n \in Nat
    PROVE  2 ^ n \in Nat \ {0}
  <1>1. IsFiniteSet(1 .. n) /\ Cardinality(1 .. n) = n  BY FS_Interval
  <1>2. IsFiniteSet(SUBSET (1 .. n)) /\ Cardinality(SUBSET (1 .. n)) = 2 ^ n  BY <1>1, FS_SUBSET
  <1>3. {} \in SUBSET (1 .. n)  OBVIOUS
  <1>4. Cardinality(SUBSET (1 .. n)) \in Nat  BY <1>2, FS_CardinalityType
  <1>5. Cardinality(SUBSET (1 .. n)) # 0  BY <1>2, <1>3, FS_EmptySet
  <1>6. QED  BY <1>2, <1>4, <1>5

\* A retry waits for some time, and for no longer than the cap.
LEMMA RetriesWait ==
    ASSUME failures \in 0 .. Cap
    PROVE  Base \in 1 .. Cap
  <1>0. Cap \in Nat \ {0} /\ Floor \in Nat \ {0}  BY SchedulerConstants
  <1>1. PICK k \in Nat : k = Least(failures, Cap)  BY <1>0 DEF Least
  <1>2. 2 ^ k \in Nat \ {0}  BY PowersOfTwo
  <1>3. PICK p \in Nat \ {0} : p = 2 ^ k  BY <1>2
  <1>4. Floor * p \in Nat \ {0}  BY <1>0
  <1>5. PICK q \in Nat \ {0} : q = Floor * p  BY <1>4
  <1>6. Base = Least(Cap, q)  BY <1>1, <1>3, <1>5 DEF Base
  <1>7. QED  BY <1>0, <1>6 DEF Least

\* The types are kept by every step.
LEMMA SchedulerTypesStay ==
    ASSUME SchedulerTyped, [SchedulerNext]_schedulerVars
    PROVE  SchedulerTyped'
  <1>0. SchedulerTyped  OBVIOUS
  <1>1. CASE Reconfigure
    BY <1>0, <1>1, SchedulerConstants DEF Reconfigure, configVars, flagVars, clockVars, countVars, ghostVars, SchedulerTyped, Triggers, Least, Most
  <1>2. CASE RequestNow
    BY <1>0, <1>2, SchedulerConstants DEF RequestNow, configVars, flagVars, clockVars, countVars, ghostVars, SchedulerTyped, Triggers, Least, Most
  <1>3. CASE RunSoon
    BY <1>0, <1>3, SchedulerConstants DEF RunSoon, configVars, flagVars, clockVars, countVars, ghostVars, SchedulerTyped, Triggers, Least, Most
  <1>4. CASE PollParked
    BY <1>0, <1>4, SchedulerConstants DEF PollParked, Idle, configVars, flagVars, clockVars, countVars, ghostVars, SchedulerTyped, Triggers, Least, Most
  <1>5. CASE PollOnDemand
    BY <1>0, <1>5, SchedulerConstants DEF PollOnDemand, Idle, HandsOut, configVars, flagVars, clockVars, countVars, ghostVars, SchedulerTyped, Triggers, Least, Most
  <1>6. CASE PollHeld
    BY <1>0, <1>6, SchedulerConstants DEF PollHeld, Idle, HandsOut, configVars, flagVars, clockVars, countVars, ghostVars, SchedulerTyped, Triggers, Least, Most
  <1>7. CASE PollRerun
    BY <1>0, <1>7, SchedulerConstants DEF PollRerun, Idle, HandsOut, configVars, flagVars, clockVars, countVars, ghostVars, SchedulerTyped, Triggers, Least, Most
  <1>8. CASE PollBoot
    BY <1>0, <1>8, SchedulerConstants DEF PollBoot, Waiting, Idle, HandsOut, configVars, flagVars, clockVars, countVars, ghostVars, SchedulerTyped, Triggers, Least, Most
  <1>9. CASE PollStart
    <2> USE DEF PollStart, Waiting, Idle, MarkRan, configVars, flagVars, clockVars, countVars, ghostVars, SchedulerTyped
    <2>1. enabled' \in BOOLEAN /\ onBoot' \in BOOLEAN /\ timed' \in BOOLEAN /\ booted' \in BOOLEAN
      BY <1>0, <1>9
    <2>2. onDemand' \in BOOLEAN /\ rerun' \in BOOLEAN
      BY <1>0, <1>9
    <2>3. credible' \in BOOLEAN
      BY <1>0, <1>9
    <2>4. running' \in BOOLEAN
      BY <1>0, <1>9
    <2>5. heldTick' \in Triggers /\ tick' \in Triggers
      BY <1>0, <1>9 DEF Triggers
    <2>6. ranFor' \in 0 .. Interval /\ wallFor' \in (-1) .. Interval /\ retryIn' \in 0 .. (Cap + 1)
      BY <1>0, <1>9, SchedulerConstants
    <2>7. failures' \in 0 .. Cap /\ tlsFailures' \in 0 .. kMaxTlsAttempts /\ rescans' \in 0 .. kMaxRescans
      BY <1>0, <1>9, SchedulerConstants
    <2>8. QED  BY <2>1, <2>2, <2>3, <2>4, <2>5, <2>6, <2>7
  <1>10. CASE PollRetry
    BY <1>0, <1>10, SchedulerConstants DEF PollRetry, Waiting, Idle, HandsOut, configVars, flagVars, clockVars, countVars, ghostVars, SchedulerTyped, Triggers, Least, Most
  <1>11. CASE PollInterval
    BY <1>0, <1>11, SchedulerConstants DEF PollInterval, Waiting, Idle, HandsOut, configVars, flagVars, clockVars, countVars, ghostVars, SchedulerTyped, Triggers, Least, Most
  <1>12. CASE Starts
    BY <1>0, <1>12, SchedulerConstants DEF Starts, configVars, flagVars, clockVars, countVars, ghostVars, SchedulerTyped, Triggers, Least, Most
  <1>13. CASE Defer
    BY <1>0, <1>13, SchedulerConstants DEF Defer, configVars, flagVars, clockVars, countVars, ghostVars, SchedulerTyped, Triggers, Least, Most
  <1>14. CASE FinishedRan
    <2> USE DEF FinishedRan, Settles, MarkRan, Paid, configVars, flagVars, clockVars, countVars, ghostVars, SchedulerTyped
    <2>1. enabled' \in BOOLEAN /\ onBoot' \in BOOLEAN /\ timed' \in BOOLEAN /\ booted' \in BOOLEAN
      BY <1>0, <1>14
    <2>2. onDemand' \in BOOLEAN /\ rerun' \in BOOLEAN
      BY <1>0, <1>14
    <2>3. credible' \in BOOLEAN
      BY <1>0, <1>14
    <2>4. running' \in BOOLEAN
      BY <1>0, <1>14
    <2>5. heldTick' \in Triggers /\ tick' \in Triggers
      BY <1>0, <1>14 DEF Triggers
    <2>6. ranFor' \in 0 .. Interval /\ wallFor' \in (-1) .. Interval /\ retryIn' \in 0 .. (Cap + 1)
      BY <1>0, <1>14, SchedulerConstants
    <2>7. failures' \in 0 .. Cap /\ tlsFailures' \in 0 .. kMaxTlsAttempts /\ rescans' \in 0 .. kMaxRescans
      BY <1>0, <1>14, SchedulerConstants
    <2>8. QED  BY <2>1, <2>2, <2>3, <2>4, <2>5, <2>6, <2>7
  <1>15. CASE FinishedUnauthorized
    <2> USE DEF FinishedUnauthorized, Settles, MarkRan, Paid, configVars, flagVars, clockVars, countVars, ghostVars, SchedulerTyped
    <2>1. enabled' \in BOOLEAN /\ onBoot' \in BOOLEAN /\ timed' \in BOOLEAN /\ booted' \in BOOLEAN
      BY <1>0, <1>15
    <2>2. onDemand' \in BOOLEAN /\ rerun' \in BOOLEAN
      BY <1>0, <1>15
    <2>3. credible' \in BOOLEAN
      BY <1>0, <1>15
    <2>4. running' \in BOOLEAN
      BY <1>0, <1>15
    <2>5. heldTick' \in Triggers /\ tick' \in Triggers
      BY <1>0, <1>15 DEF Triggers
    <2>6. ranFor' \in 0 .. Interval /\ wallFor' \in (-1) .. Interval /\ retryIn' \in 0 .. (Cap + 1)
      BY <1>0, <1>15, SchedulerConstants
    <2>7. failures' \in 0 .. Cap /\ tlsFailures' \in 0 .. kMaxTlsAttempts /\ rescans' \in 0 .. kMaxRescans
      BY <1>0, <1>15, SchedulerConstants
    <2>8. QED  BY <2>1, <2>2, <2>3, <2>4, <2>5, <2>6, <2>7
  <1>16. CASE FinishedRescan
    <2> USE DEF FinishedRescan, Settles, configVars, flagVars, clockVars, countVars, ghostVars, SchedulerTyped
    <2>1. enabled' \in BOOLEAN /\ onBoot' \in BOOLEAN /\ timed' \in BOOLEAN /\ booted' \in BOOLEAN
      BY <1>0, <1>16
    <2>2. onDemand' \in BOOLEAN /\ rerun' \in BOOLEAN
      BY <1>0, <1>16
    <2>3. credible' \in BOOLEAN
      BY <1>0, <1>16
    <2>4. running' \in BOOLEAN
      BY <1>0, <1>16
    <2>5. heldTick' \in Triggers /\ tick' \in Triggers
      BY <1>0, <1>16 DEF Triggers
    <2>6. ranFor' \in 0 .. Interval /\ wallFor' \in (-1) .. Interval /\ retryIn' \in 0 .. (Cap + 1)
      BY <1>0, <1>16, SchedulerConstants
    <2>7. failures' \in 0 .. Cap /\ tlsFailures' \in 0 .. kMaxTlsAttempts /\ rescans' \in 0 .. kMaxRescans
      BY <1>0, <1>16, SchedulerConstants
    <2>8. QED  BY <2>1, <2>2, <2>3, <2>4, <2>5, <2>6, <2>7
  <1>17. CASE FinishedDisabled
    <2> USE DEF FinishedDisabled, Settles, configVars, flagVars, clockVars, countVars, ghostVars, SchedulerTyped
    <2>1. enabled' \in BOOLEAN /\ onBoot' \in BOOLEAN /\ timed' \in BOOLEAN /\ booted' \in BOOLEAN
      BY <1>0, <1>17
    <2>2. onDemand' \in BOOLEAN /\ rerun' \in BOOLEAN
      BY <1>0, <1>17
    <2>3. credible' \in BOOLEAN
      BY <1>0, <1>17
    <2>4. running' \in BOOLEAN
      BY <1>0, <1>17
    <2>5. heldTick' \in Triggers /\ tick' \in Triggers
      BY <1>0, <1>17 DEF Triggers
    <2>6. ranFor' \in 0 .. Interval /\ wallFor' \in (-1) .. Interval /\ retryIn' \in 0 .. (Cap + 1)
      BY <1>0, <1>17, SchedulerConstants
    <2>7. failures' \in 0 .. Cap /\ tlsFailures' \in 0 .. kMaxTlsAttempts /\ rescans' \in 0 .. kMaxRescans
      BY <1>0, <1>17, SchedulerConstants
    <2>8. QED  BY <2>1, <2>2, <2>3, <2>4, <2>5, <2>6, <2>7
  <1>18. CASE \E outcome \in FailedOutcomes : FinishedFailed(outcome)
    <2>1. Base \in 1 .. Cap  BY <1>0, RetriesWait DEF SchedulerTyped
    <2>2. retryIn' \in 0 .. (Cap + 1)  BY <1>18, <2>1, SchedulerConstants DEF FinishedFailed
    <2>3. /\ failures' \in 0 .. Cap /\ tlsFailures' \in 0 .. kMaxTlsAttempts /\ rescans' = 0
          /\ tick' = "none" /\ running' = FALSE
      BY <1>0, <1>18, SchedulerConstants DEF FinishedFailed, Settles, SchedulerTyped, Least
    <2>4. UNCHANGED <<configVars, flagVars, ranFor, wallFor, credible>>  BY <1>18 DEF FinishedFailed
    <2>5. /\ enabled' \in BOOLEAN /\ onBoot' \in BOOLEAN /\ timed' \in BOOLEAN /\ booted' \in BOOLEAN
      BY <1>0, <2>4 DEF SchedulerTyped, configVars, flagVars
    <2>6. /\ onDemand' \in BOOLEAN /\ rerun' \in BOOLEAN /\ credible' \in BOOLEAN
      BY <1>0, <2>4 DEF SchedulerTyped, configVars, flagVars
    <2>11. /\ running' \in BOOLEAN
      BY <1>0, <2>3 DEF SchedulerTyped, configVars, flagVars
    <2>7. heldTick' \in Triggers /\ tick' \in Triggers
      BY <1>0, <2>3, <2>4 DEF SchedulerTyped, Triggers, configVars, flagVars
    <2>8. ranFor' \in 0 .. Interval /\ wallFor' \in (-1) .. Interval
      BY <1>0, <2>4 DEF SchedulerTyped
    <2>9. failures' \in 0 .. Cap /\ tlsFailures' \in 0 .. kMaxTlsAttempts /\ rescans' \in 0 .. kMaxRescans
      BY <1>0, <2>3, SchedulerConstants
    <2>10. QED
      BY <2>2, <2>5, <2>6, <2>11, <2>7, <2>8, <2>9 DEF SchedulerTyped
  <1>19. CASE Passes
    BY <1>0, <1>19, SchedulerConstants DEF Passes, configVars, flagVars, clockVars, countVars, ghostVars, SchedulerTyped, Triggers, Least, Most
  <1>20. CASE WallMoves
    BY <1>0, <1>20, SchedulerConstants DEF WallMoves, configVars, flagVars, clockVars, countVars, ghostVars, SchedulerTyped, Triggers, Least, Most
  <1>21. CASE UNCHANGED schedulerVars
    BY <1>0, <1>21, SchedulerConstants DEF schedulerVars, configVars, flagVars, clockVars, countVars, ghostVars, SchedulerTyped, Triggers, Least, Most
  <1>22. QED
    BY <1>1, <1>2, <1>3, <1>4, <1>5, <1>6, <1>7, <1>8, <1>9, <1>10, <1>11, <1>12, <1>13, <1>14, <1>15, <1>16, <1>17, <1>18, <1>19, <1>20, <1>21 DEF SchedulerNext, Poll, Finished

\* Whatever stamps the clocks spends the credit of the tick it stamps them for.
LEMMA CreditsStay ==
    ASSUME SchedulerTyped, CreditsAgree, [SchedulerNext]_schedulerVars
    PROVE  CreditsAgree'
  <1>0. SchedulerTyped /\ CreditsAgree  OBVIOUS
  <1>1. CASE Reconfigure
    BY <1>0, <1>1, SchedulerConstants DEF Reconfigure, configVars, flagVars, clockVars, countVars, ghostVars, SchedulerTyped, CreditsAgree, Least, Most, Elapsed
  <1>2. CASE RequestNow
    BY <1>0, <1>2, SchedulerConstants DEF RequestNow, configVars, flagVars, clockVars, countVars, ghostVars, SchedulerTyped, CreditsAgree, Least, Most, Elapsed
  <1>3. CASE RunSoon
    BY <1>0, <1>3, SchedulerConstants DEF RunSoon, configVars, flagVars, clockVars, countVars, ghostVars, SchedulerTyped, CreditsAgree, Least, Most, Elapsed
  <1>4. CASE PollParked
    BY <1>0, <1>4, SchedulerConstants DEF PollParked, Idle, configVars, flagVars, clockVars, countVars, ghostVars, SchedulerTyped, CreditsAgree, Least, Most, Elapsed
  <1>5. CASE PollOnDemand
    BY <1>0, <1>5, SchedulerConstants DEF PollOnDemand, Idle, HandsOut, configVars, flagVars, clockVars, countVars, ghostVars, SchedulerTyped, CreditsAgree, Least, Most, Elapsed
  <1>6. CASE PollHeld
    BY <1>0, <1>6, SchedulerConstants DEF PollHeld, Idle, HandsOut, configVars, flagVars, clockVars, countVars, ghostVars, SchedulerTyped, CreditsAgree, Least, Most, Elapsed
  <1>7. CASE PollRerun
    BY <1>0, <1>7, SchedulerConstants DEF PollRerun, Idle, HandsOut, configVars, flagVars, clockVars, countVars, ghostVars, SchedulerTyped, CreditsAgree, Least, Most, Elapsed
  <1>8. CASE PollBoot
    BY <1>0, <1>8, SchedulerConstants DEF PollBoot, Waiting, Idle, HandsOut, configVars, flagVars, clockVars, countVars, ghostVars, SchedulerTyped, CreditsAgree, Least, Most, Elapsed
  <1>9. CASE PollStart
    BY <1>0, <1>9, SchedulerConstants DEF PollStart, Waiting, Idle, MarkRan, configVars, flagVars, clockVars, countVars, ghostVars, SchedulerTyped, CreditsAgree, Least, Most, Elapsed
  <1>10. CASE PollRetry
    BY <1>0, <1>10, SchedulerConstants DEF PollRetry, Waiting, Idle, HandsOut, configVars, flagVars, clockVars, countVars, ghostVars, SchedulerTyped, CreditsAgree, Least, Most, Elapsed
  <1>11. CASE PollInterval
    BY <1>0, <1>11, SchedulerConstants DEF PollInterval, Waiting, Idle, HandsOut, configVars, flagVars, clockVars, countVars, ghostVars, SchedulerTyped, CreditsAgree, Least, Most, Elapsed
  <1>12. CASE Starts
    BY <1>0, <1>12, SchedulerConstants DEF Starts, configVars, flagVars, clockVars, countVars, ghostVars, SchedulerTyped, CreditsAgree, Least, Most, Elapsed
  <1>13. CASE Defer
    BY <1>0, <1>13, SchedulerConstants DEF Defer, configVars, flagVars, clockVars, countVars, ghostVars, SchedulerTyped, CreditsAgree, Least, Most, Elapsed
  <1>14. CASE FinishedRan
    BY <1>0, <1>14, SchedulerConstants DEF FinishedRan, Settles, MarkRan, Paid, configVars, flagVars, clockVars, countVars, ghostVars, SchedulerTyped, CreditsAgree, Least, Most, Elapsed
  <1>15. CASE FinishedUnauthorized
    BY <1>0, <1>15, SchedulerConstants DEF FinishedUnauthorized, Settles, MarkRan, Paid, configVars, flagVars, clockVars, countVars, ghostVars, SchedulerTyped, CreditsAgree, Least, Most, Elapsed
  <1>16. CASE FinishedRescan
    BY <1>0, <1>16, SchedulerConstants DEF FinishedRescan, Settles, configVars, flagVars, clockVars, countVars, ghostVars, SchedulerTyped, CreditsAgree, Least, Most, Elapsed
  <1>17. CASE FinishedDisabled
    BY <1>0, <1>17, SchedulerConstants DEF FinishedDisabled, Settles, configVars, flagVars, clockVars, countVars, ghostVars, SchedulerTyped, CreditsAgree, Least, Most, Elapsed
  <1>18. CASE \E outcome \in FailedOutcomes : FinishedFailed(outcome)
    BY <1>0, <1>18, SchedulerConstants DEF FinishedFailed, Settles, configVars, flagVars, clockVars, countVars, ghostVars, SchedulerTyped, CreditsAgree, Least, Most, Elapsed
  <1>19. CASE Passes
    BY <1>0, <1>19, SchedulerConstants DEF Passes, configVars, flagVars, clockVars, countVars, ghostVars, SchedulerTyped, CreditsAgree, Least, Most, Elapsed
  <1>20. CASE WallMoves
    BY <1>0, <1>20, SchedulerConstants DEF WallMoves, configVars, flagVars, clockVars, countVars, ghostVars, SchedulerTyped, CreditsAgree, Least, Most, Elapsed
  <1>21. CASE UNCHANGED schedulerVars
    BY <1>0, <1>21, SchedulerConstants DEF schedulerVars, configVars, flagVars, clockVars, countVars, ghostVars, SchedulerTyped, CreditsAgree, Least, Most, Elapsed
  <1>22. QED
    BY <1>1, <1>2, <1>3, <1>4, <1>5, <1>6, <1>7, <1>8, <1>9, <1>10, <1>11, <1>12, <1>13, <1>14, <1>15, <1>16, <1>17, <1>18, <1>19, <1>20, <1>21 DEF SchedulerNext, Poll, Finished

\* However a tick ends, the next waits for the clock, is a rescan that was counted, or was asked for.
LEMMA BurstsStay ==
    ASSUME SchedulerTyped, BurstFollows, [SchedulerNext]_schedulerVars
    PROVE  BurstFollows'
  <1>0. SchedulerTyped /\ BurstFollows  OBVIOUS
  <1>1. CASE Reconfigure
    BY <1>0, <1>1, SchedulerConstants DEF Reconfigure, configVars, flagVars, clockVars, countVars, ghostVars, SchedulerTyped, BurstFollows, Quiets, Elapsed, Least, Most
  <1>2. CASE RequestNow
    BY <1>0, <1>2, SchedulerConstants DEF RequestNow, configVars, flagVars, clockVars, countVars, ghostVars, SchedulerTyped, BurstFollows, Quiets, Elapsed, Least, Most
  <1>3. CASE RunSoon
    BY <1>0, <1>3, SchedulerConstants DEF RunSoon, configVars, flagVars, clockVars, countVars, ghostVars, SchedulerTyped, BurstFollows, Quiets, Elapsed, Least, Most
  <1>4. CASE PollParked
    BY <1>0, <1>4, SchedulerConstants DEF PollParked, Idle, configVars, flagVars, clockVars, countVars, ghostVars, SchedulerTyped, BurstFollows, Quiets, Elapsed, Least, Most
  <1>5. CASE PollOnDemand
    BY <1>0, <1>5, SchedulerConstants DEF PollOnDemand, Idle, HandsOut, configVars, flagVars, clockVars, countVars, ghostVars, SchedulerTyped, BurstFollows, Quiets, Elapsed, Least, Most
  <1>6. CASE PollHeld
    BY <1>0, <1>6, SchedulerConstants DEF PollHeld, Idle, HandsOut, configVars, flagVars, clockVars, countVars, ghostVars, SchedulerTyped, BurstFollows, Quiets, Elapsed, Least, Most
  <1>7. CASE PollRerun
    BY <1>0, <1>7, SchedulerConstants DEF PollRerun, Idle, HandsOut, configVars, flagVars, clockVars, countVars, ghostVars, SchedulerTyped, BurstFollows, Quiets, Elapsed, Least, Most
  <1>8. CASE PollBoot
    BY <1>0, <1>8, SchedulerConstants DEF PollBoot, Waiting, Idle, HandsOut, configVars, flagVars, clockVars, countVars, ghostVars, SchedulerTyped, BurstFollows, Quiets, Elapsed, Least, Most
  <1>9. CASE PollStart
    BY <1>0, <1>9, SchedulerConstants DEF PollStart, Waiting, Idle, MarkRan, configVars, flagVars, clockVars, countVars, ghostVars, SchedulerTyped, BurstFollows, Quiets, Elapsed, Least, Most
  <1>10. CASE PollRetry
    BY <1>0, <1>10, SchedulerConstants DEF PollRetry, Waiting, Idle, HandsOut, configVars, flagVars, clockVars, countVars, ghostVars, SchedulerTyped, BurstFollows, Quiets, Elapsed, Least, Most
  <1>11. CASE PollInterval
    BY <1>0, <1>11, SchedulerConstants DEF PollInterval, Waiting, Idle, HandsOut, configVars, flagVars, clockVars, countVars, ghostVars, SchedulerTyped, BurstFollows, Quiets, Elapsed, Least, Most
  <1>12. CASE Starts
    BY <1>0, <1>12, SchedulerConstants DEF Starts, configVars, flagVars, clockVars, countVars, ghostVars, SchedulerTyped, BurstFollows, Quiets, Elapsed, Least, Most
  <1>13. CASE Defer
    BY <1>0, <1>13, SchedulerConstants DEF Defer, configVars, flagVars, clockVars, countVars, ghostVars, SchedulerTyped, BurstFollows, Quiets, Elapsed, Least, Most
  <1>14. CASE FinishedRan
    BY <1>0, <1>14, SchedulerConstants DEF FinishedRan, Settles, MarkRan, Paid, configVars, flagVars, clockVars, countVars, ghostVars, SchedulerTyped, BurstFollows, Quiets, Elapsed, Least, Most
  <1>15. CASE FinishedUnauthorized
    BY <1>0, <1>15, SchedulerConstants DEF FinishedUnauthorized, Settles, MarkRan, Paid, configVars, flagVars, clockVars, countVars, ghostVars, SchedulerTyped, BurstFollows, Quiets, Elapsed, Least, Most
  <1>16. CASE FinishedRescan
    BY <1>0, <1>16, SchedulerConstants DEF FinishedRescan, Settles, configVars, flagVars, clockVars, countVars, ghostVars, SchedulerTyped, BurstFollows, Quiets, Elapsed, Least, Most
  <1>17. CASE FinishedDisabled
    BY <1>0, <1>17, SchedulerConstants DEF FinishedDisabled, Settles, configVars, flagVars, clockVars, countVars, ghostVars, SchedulerTyped, BurstFollows, Quiets, Elapsed, Least, Most
  <1>18. CASE \E outcome \in FailedOutcomes : FinishedFailed(outcome)
    <2>1. Base \in 1 .. Cap  BY <1>0, RetriesWait DEF SchedulerTyped
    <2>2. retryIn' > 0 /\ failures' > 0
      BY <1>0, <1>18, <2>1, SchedulerConstants DEF FinishedFailed, SchedulerTyped, Least
    <2>3. Quiets'  BY <2>2 DEF Quiets
    <2>4. /\ tick # "none" /\ running /\ tick' = "none" /\ running' = FALSE /\ rescans' = 0
          /\ burst' = burst /\ rerun' = rerun
      BY <1>18 DEF FinishedFailed, Settles, ghostVars, flagVars
    <2>5. QED  BY <1>0, <2>3, <2>4, SchedulerConstants DEF SchedulerTyped, BurstFollows
  <1>19. CASE Passes
    BY <1>0, <1>19, SchedulerConstants DEF Passes, configVars, flagVars, clockVars, countVars, ghostVars, SchedulerTyped, BurstFollows, Quiets, Elapsed, Least, Most
  <1>20. CASE WallMoves
    BY <1>0, <1>20, SchedulerConstants DEF WallMoves, configVars, flagVars, clockVars, countVars, ghostVars, SchedulerTyped, BurstFollows, Quiets, Elapsed, Least, Most
  <1>21. CASE UNCHANGED schedulerVars
    BY <1>0, <1>21, SchedulerConstants DEF schedulerVars, configVars, flagVars, clockVars, countVars, ghostVars, SchedulerTyped, BurstFollows, Quiets, Elapsed, Least, Most
  <1>22. QED
    BY <1>1, <1>2, <1>3, <1>4, <1>5, <1>6, <1>7, <1>8, <1>9, <1>10, <1>11, <1>12, <1>13, <1>14, <1>15, <1>16, <1>17, <1>18, <1>19, <1>20, <1>21 DEF SchedulerNext, Poll, Finished

LEMMA SchedulerBegins == SchedulerInit => SchedulerInv
  <1> SUFFICES ASSUME SchedulerInit PROVE SchedulerInv  OBVIOUS
  <1>1. {enabled, onBoot, timed, booted, onDemand, rerun, credible, running} \subseteq BOOLEAN
    BY DEF SchedulerInit
  <1>2. SchedulerTypeOK
    BY <1>1, SchedulerConstants DEF SchedulerInit, SchedulerTypeOK, Triggers
  <1>3. CreditsAgree  BY DEF SchedulerInit, CreditsAgree
  <1>4. BurstFollows  BY DEF SchedulerInit, BurstFollows
  <1>5. QED  BY <1>2, <1>3, <1>4 DEF SchedulerInv

LEMMA SchedulerSteps ==
    ASSUME SchedulerInv, [SchedulerNext]_schedulerVars
    PROVE  SchedulerInv'
  <1>1. SchedulerTyped  BY SchedulerTypes DEF SchedulerInv
  <1>2. SchedulerTyped' /\ CreditsAgree' /\ BurstFollows'
    BY <1>1, SchedulerTypesStay, CreditsStay, BurstsStay DEF SchedulerInv
  <1>3. SchedulerTypeOK'  BY <1>2 DEF SchedulerTypeOK, SchedulerTyped, CreditsAgree
  <1>4. QED  BY <1>2, <1>3 DEF SchedulerInv

\* Of the scheduler: credits and bursts follow from its clocks and flags.
THEOREM SchedulerInvariance == SchedulerSpec => []SchedulerInv
  BY SchedulerBegins, SchedulerSteps, PTL DEF SchedulerSpec

\* The scheduler's flags, clocks and counts keep their types, and the backoff
\* its cap, for any curve and interval.
THEOREM SchedulerTypeCorrect == SchedulerSpec => []SchedulerTypeOK
  <1>1. SchedulerInv => SchedulerTypeOK  BY DEF SchedulerInv
  <1>2. QED  BY <1>1, SchedulerInvariance, PTL

\* A sleep through many intervals, or a clock set far ahead, costs one tick.
THEOREM ASleepCostsOneTick == SchedulerSpec => []OneCatchUp
  <1>1. SchedulerInv => OneCatchUp  BY DEF SchedulerInv, CreditsAgree, OneCatchUp
  <1>2. QED  BY <1>1, SchedulerInvariance, PTL

\* After a tick that was not asked for, the clock comes before the next.
LEMMA SpacedFollows ==
    ASSUME SchedulerInv
    PROVE  NoTickStorm
  <1>1. SchedulerTyped /\ BurstFollows  BY SchedulerTypes DEF SchedulerInv
  <1>2. QED  BY <1>1, SchedulerConstants DEF SchedulerTyped, BurstFollows, NoTickStorm

\* Left alone, the scheduler runs no more than kMaxRescans + 2 ticks back to
\* back, whatever they come to.
THEOREM TicksAreSpaced == SchedulerSpec => []NoTickStorm
  <1>1. SchedulerInv => NoTickStorm  BY SpacedFollows
  <1>2. QED  BY <1>1, SchedulerInvariance, PTL

-----------------------------------------------------------------------------
(* The start of the process.  Behind the thread lies a reason for every    *)
(* facility it did not get: in the journal, or counted there as dropped,   *)
(* and from the moment the log is open in the log.                         *)

\* The last service a facility waits for.
PlaceInBoot(f) ==
    CASE f = "card" -> 2 [] f = "clock" -> 3 [] f = "power" -> 4 [] f = "foreground" -> 5
      [] f = "transport" -> 9

Noted(f) == (\E n \in 1 .. Len(journal.notes) : journal.notes[n] = f) \/ journal.dropped # 0

Told(f) ==
    f \in logged \/ "dropped" \in logged \/ (f = "power" /\ "no subscription" \in logged)

BootFollows ==
    /\ journal \in [notes : Seq(BootNotes), dropped : Nat]
    /\ boot.phase \in {"asking", "opening"} => boot.at \in 1 .. 9
    /\ boot.phase = "opening" => Service(boot.at) \notin NetworkServices \/ boot.at = 9
    /\ boot.phase \in {"registering", "logging"} => boot.at = 10
    /\ boot.phase \in {"asking", "opening", "registering", "logging"} =>
         \A f \in Facilities \ opened : PlaceInBoot(f) < boot.at => Noted(f)
    /\ boot.phase \in {"building", "subscribing", "serving"} =>
         \A f \in Facilities \ opened : Told(f)

BootInv == BootTypeOK /\ BootFollows

\* The nine services, and what each is for.
LEMMA TheServices ==
    /\ Len(Services) = 9
    /\ Services[1] = "set:sys" /\ Services[2] = "fsp-srv" /\ Services[3] = "time:s"
    /\ Services[4] = "psc:m" /\ Services[5] = "pm:dmnt" /\ Services[6] = "nifm:u"
    /\ Services[7] = "bsd:u" /\ Services[8] = "sfdnsres" /\ Services[9] = "ssl"
  BY DEF Services

LEMMA WhatServicesProvide ==
    ASSUME NEW n \in 1 .. 9
    PROVE  /\ Service(n) \in Required <=> n \in {1, 2}
           /\ Service(n) \in NetworkServices <=> n \in 6 .. 9
           /\ n \in {1, 2} => Provides(Service(n)) = Service(n) /\ Service(n) \in Required
           /\ Service(n) = "fsp-srv" <=> n = 2
           /\ n = 3 => Provides(Service(n)) = "clock"
           /\ n = 4 => Provides(Service(n)) = "power"
           /\ n = 5 => Provides(Service(n)) = "foreground"
           /\ n \in 6 .. 9 => Provides(Service(n)) = "transport"
  <1>1. n \in {1, 2, 3, 4, 5, 6, 7, 8, 9}  OBVIOUS
  <1>2. Service(n) = Services[n]  BY DEF Service
  <1>3. CASE n \in {1, 2}
    BY <1>2, <1>3, TheServices DEF Required, NetworkServices, Provides
  <1>4. CASE n \in {3, 4, 5}
    BY <1>2, <1>4, TheServices DEF Required, NetworkServices, Provides
  <1>5. CASE n \in {6, 7, 8, 9}
    BY <1>2, <1>5, TheServices DEF Required, NetworkServices, Provides
  <1>6. QED  BY <1>1, <1>3, <1>4, <1>5

\* What is provided can be noted.
LEMMA ProvidedIsANote ==
    ASSUME NEW n \in 1 .. 9
    PROVE  /\ Provides(Service(n)) \in BootNotes
           /\ n \notin {1, 2} => Provides(Service(n)) \in Facilities
  <1>1. CASE n \in {1, 2}
    BY <1>1, WhatServicesProvide DEF BootNotes
  <1>2. CASE n = 3 \/ n = 4 \/ n = 5 \/ n \in 6 .. 9
    BY <1>2, WhatServicesProvide DEF BootNotes, Facilities
  <1>3. QED  BY <1>1, <1>2

\* A note is kept or counted, and those there were stay.
LEMMA NotesAreTaken ==
    ASSUME BootTypeOK, BootFollows, NEW what \in BootNotes, Note(what)
    PROVE  /\ journal' \in [notes : Seq(BootNotes), dropped : Nat]
           /\ Len(journal'.notes) <= kMaxNotes
           /\ Noted(what)'
           /\ \A f : Noted(f) => Noted(f)'
  <1>0. /\ journal \in [notes : Seq(BootNotes), dropped : Nat] /\ Len(journal.notes) <= kMaxNotes
        /\ kMaxNotes \in Nat
    BY BootAssumption DEF BootTypeOK, BootFollows
  <1>1. CASE Len(journal.notes) < kMaxNotes
    <2>1. journal' = [journal EXCEPT !.notes = Append(journal.notes, what)]
      BY <1>1 DEF Note
    <2>2. PICK notes \in Seq(BootNotes) : notes = journal.notes  BY <1>0
    <2>3. /\ Append(notes, what) \in Seq(BootNotes)
          /\ Len(Append(notes, what)) = Len(notes) + 1
          /\ Append(notes, what)[Len(notes) + 1] = what
          /\ \A n \in 1 .. Len(notes) : Append(notes, what)[n] = notes[n]
      BY AppendProperties
    <2>4. journal'.notes = Append(notes, what) /\ journal'.dropped = journal.dropped
          /\ journal' \in [notes : Seq(BootNotes), dropped : Nat]
      BY <1>0, <2>1, <2>2, <2>3
    <2>5. PICK m \in Nat : m = Len(notes)  OBVIOUS
    <2>6. m + 1 \in 1 .. Len(journal'.notes) /\ Len(journal'.notes) <= kMaxNotes
      BY <1>0, <1>1, <2>2, <2>3, <2>4, <2>5
    <2>7. Noted(what)'  BY <2>3, <2>4, <2>5, <2>6 DEF Noted
    <2>8. ASSUME NEW f, Noted(f) PROVE Noted(f)'
      <3>1. CASE journal.dropped # 0  BY <2>4, <3>1 DEF Noted
      <3>2. CASE \E n \in 1 .. Len(journal.notes) : journal.notes[n] = f
        <4>1. PICK n \in 1 .. m : notes[n] = f  BY <2>2, <2>5, <3>2
        <4>2. n \in 1 .. Len(journal'.notes) /\ journal'.notes[n] = f
          BY <2>3, <2>4, <2>5, <4>1
        <4>3. QED  BY <4>2 DEF Noted
      <3>3. QED  BY <2>8, <3>1, <3>2 DEF Noted
    <2>9. QED  BY <2>4, <2>6, <2>7, <2>8
  <1>2. CASE ~(Len(journal.notes) < kMaxNotes)
    <2>1. journal' = [journal EXCEPT !.dropped = journal.dropped + 1]
      BY <1>2 DEF Note
    <2>2. /\ journal' \in [notes : Seq(BootNotes), dropped : Nat] /\ journal'.notes = journal.notes
          /\ journal'.dropped # 0
      BY <1>0, <2>1
    <2>3. QED  BY <1>0, <2>2 DEF Noted
  <1>3. QED  BY <1>1, <1>2

\* Where a facility is asked for.
LEMMA WhereFacilitiesAre ==
    ASSUME NEW f \in Facilities
    PROVE  /\ PlaceInBoot(f) \in {2, 3, 4, 5, 9}
           /\ PlaceInBoot(f) = 2 => f = "card"
           /\ PlaceInBoot(f) \in {3, 4, 5, 9} => f = Provides(Service(PlaceInBoot(f)))
  <1>1. CASE f = "card"  BY <1>1 DEF PlaceInBoot
  <1>2. CASE f = "clock"
    <2>1. PlaceInBoot(f) = 3  BY <1>2 DEF PlaceInBoot
    <2>2. Provides(Service(3)) = "clock"  BY WhatServicesProvide
    <2>3. QED  BY <1>2, <2>1, <2>2
  <1>3. CASE f = "power"
    <2>1. PlaceInBoot(f) = 4  BY <1>3 DEF PlaceInBoot
    <2>2. Provides(Service(4)) = "power"  BY WhatServicesProvide
    <2>3. QED  BY <1>3, <2>1, <2>2
  <1>4. CASE f = "foreground"
    <2>1. PlaceInBoot(f) = 5  BY <1>4 DEF PlaceInBoot
    <2>2. Provides(Service(5)) = "foreground"  BY WhatServicesProvide
    <2>3. QED  BY <1>4, <2>1, <2>2
  <1>5. CASE f = "transport"
    <2>1. PlaceInBoot(f) = 9  BY <1>5 DEF PlaceInBoot
    <2>2. Provides(Service(9)) = "transport"  BY WhatServicesProvide
    <2>3. QED  BY <1>5, <2>1, <2>2
  <1>6. QED  BY <1>1, <1>2, <1>3, <1>4, <1>5 DEF Facilities

\* What a step does beside moving the thread keeps the types.
BootKeeps ==
    /\ inSm' \subseteq {Service(n) : n \in 1 .. Len(Services)}
    /\ opened' \subseteq Facilities /\ unaskable' \in BOOLEAN
    /\ journal' \in [notes : Seq(BootNotes), dropped : Nat] /\ Len(journal'.notes) <= kMaxNotes
    /\ logged' \subseteq BootNotes \cup {"dropped", "directory", "no transport",
                                          "no probe", "no subscription"}

\* The thread moves on once every facility behind it has its reason.
LEMMA TheThreadMovesOn ==
    ASSUME BootInv, BootKeeps, NEW to \in 2 .. 10, Reaches(to),
           \A f \in Facilities \ opened' : PlaceInBoot(f) < to => Noted(f)'
    PROVE  BootInv'
  <1>0. Budget \in Nat  BY BootAssumption
  <1>1. /\ boot'.at = to /\ boot'.waited = 0
        /\ boot'.phase = IF to > 9 THEN "registering" ELSE "asking"
        /\ boot' \in [phase : BootPhases, at : 1 .. 10, waited : 0 .. Budget]
    BY <1>0, TheServices DEF Reaches, BootPhases
  <1>2. BootTypeOK'
    <2>1. Len(Services) + 1 = 10  BY TheServices
    <2>2. boot' \in [phase : BootPhases, at : 1 .. Len(Services) + 1, waited : 0 .. Budget]
      BY <1>1, <2>1
    <2>3. QED  BY <2>2 DEF BootTypeOK, BootKeeps
  <1>3. BootFollows'
    <2>1. boot'.phase \in {"asking", "opening"} => boot'.at \in 1 .. 9  BY <1>1
    <2>2. boot'.phase # "opening"  BY <1>1
    <2>3. boot'.phase \in {"registering", "logging"} => boot'.at = 10  BY <1>1
    <2>4. boot'.phase \notin {"building", "subscribing", "serving"}  BY <1>1
    <2>5. \A f \in Facilities \ opened' : PlaceInBoot(f) < boot'.at => Noted(f)'  BY <1>1
    <2>6. journal' \in [notes : Seq(BootNotes), dropped : Nat]  BY DEF BootKeeps
    <2>7. QED  BY <2>1, <2>2, <2>3, <2>4, <2>5, <2>6 DEF BootFollows
  <1>4. QED  BY <1>2, <1>3 DEF BootInv

\* The thread goes elsewhere at the service it is at.
LEMMA TheThreadGoes ==
    ASSUME BootInv, BootKeeps, NEW phase \in BootPhases, boot' = [boot EXCEPT !.phase = phase],
           phase \in {"asking", "opening"} => boot.at \in 1 .. 9,
           phase = "opening" => Service(boot.at) \notin NetworkServices \/ boot.at = 9,
           phase \in {"registering", "logging"} => boot.at = 10,
           phase \in {"asking", "opening", "registering", "logging"} =>
             \A f \in Facilities \ opened' : PlaceInBoot(f) < boot.at => Noted(f)',
           phase \in {"building", "subscribing", "serving"} =>
             \A f \in Facilities \ opened' : Told(f)'
    PROVE  BootInv'
  <1>1. /\ boot' \in [phase : BootPhases, at : 1 .. Len(Services) + 1, waited : 0 .. Budget]
        /\ boot'.phase = phase /\ boot'.at = boot.at
    BY DEF BootInv, BootTypeOK
  <1>2. BootTypeOK'  BY <1>1 DEF BootTypeOK, BootKeeps
  <1>3. journal' \in [notes : Seq(BootNotes), dropped : Nat]  BY DEF BootKeeps
  <1>4. BootFollows'  BY <1>1, <1>3 DEF BootFollows
  <1>5. QED  BY <1>2, <1>4 DEF BootInv

\* The journal, left alone or noted in.
LEMMA JournalStays ==
    ASSUME BootInv, \/ UNCHANGED journal
                    \/ \E what \in BootNotes : Note(what)
    PROVE  /\ journal' \in [notes : Seq(BootNotes), dropped : Nat] /\ Len(journal'.notes) <= kMaxNotes
           /\ \A f : Noted(f) => Noted(f)'
  <1>1. CASE UNCHANGED journal
    <2>1. journal' \in [notes : Seq(BootNotes), dropped : Nat] /\ Len(journal'.notes) <= kMaxNotes
      BY <1>1 DEF BootInv, BootTypeOK, BootFollows
    <2>2. \A f : Noted(f) => Noted(f)'  BY <1>1 DEF Noted
    <2>3. QED  BY <2>1, <2>2
  <1>2. CASE \E what \in BootNotes : Note(what)
    <2>1. PICK what \in BootNotes : Note(what)  BY <1>2
    <2>2. QED  BY <2>1, NotesAreTaken DEF BootInv
  <1>3. QED  BY <1>1, <1>2

\* The service may be asked for, whether or not something was noted.
LEMMA ProceedingKeeps ==
    ASSUME BootInv, boot.phase = "asking", MayProceed, UNCHANGED <<inSm, opened, logged>>,
           unaskable' \in BOOLEAN,
           \/ UNCHANGED journal
           \/ \E what \in BootNotes : Note(what)
    PROVE  BootInv'
  <1>0. /\ boot.at \in 1 .. 9 /\ BootTypeOK
        /\ \A f \in Facilities \ opened : PlaceInBoot(f) < boot.at => Noted(f)
    BY DEF BootInv, BootFollows
  <1>1. \A f : Noted(f) => Noted(f)'  BY JournalStays
  <1>2. BootKeeps
    <2>1. journal' \in [notes : Seq(BootNotes), dropped : Nat] /\ Len(journal'.notes) <= kMaxNotes
      BY JournalStays
    <2>2. QED  BY <1>0, <2>1 DEF BootKeeps, BootTypeOK
  <1>3. CASE Service(boot.at) \in NetworkServices /\ boot.at < 9
    <2>1. boot.at \in 6 .. 8 /\ Reaches(boot.at + 1)
      BY <1>0, <1>3, WhatServicesProvide, TheServices DEF MayProceed
    <2>2. ASSUME NEW f \in Facilities \ opened', PlaceInBoot(f) < boot.at + 1
          PROVE  Noted(f)'
      <3>1. PlaceInBoot(f) \in {2, 3, 4, 5, 9}  BY WhereFacilitiesAre
      <3>2. PlaceInBoot(f) < boot.at  BY <2>1, <2>2, <3>1
      <3>3. QED  BY <1>0, <1>1, <3>2
    <2>3. boot.at + 1 \in 2 .. 10  BY <2>1
    <2>4. QED  BY <1>2, <2>1, <2>2, <2>3, TheThreadMovesOn
  <1>4. CASE ~(Service(boot.at) \in NetworkServices /\ boot.at < 9)
    <2>1. boot' = [boot EXCEPT !.phase = "opening"]
      BY <1>4, TheServices DEF MayProceed, Goes
    <2>2. Service(boot.at) \notin NetworkServices \/ boot.at = 9  BY <1>0, <1>4
    <2>3. \A f \in Facilities \ opened' : PlaceInBoot(f) < boot.at => Noted(f)'
      BY <1>0, <1>1
    <2>4. "opening" \in BootPhases  BY DEF BootPhases
    <2>5. QED  BY <1>0, <1>2, <2>1, <2>2, <2>3, <2>4, TheThreadGoes
  <1>5. QED  BY <1>3, <1>4

\* An acquisition that is over has its facility, or a note of it.
LEMMA AcquiringKeeps ==
    ASSUME BootInv, Acquire
    PROVE  BootInv'
  <1>0. /\ boot.phase = "opening" /\ boot.at \in 1 .. 9 /\ BootTypeOK
        /\ Service(boot.at) \notin NetworkServices \/ boot.at = 9
        /\ \A f \in Facilities \ opened : PlaceInBoot(f) < boot.at => Noted(f)
        /\ UNCHANGED <<inSm, unaskable, logged>>
    BY DEF BootInv, BootFollows, Acquire
  <1>1. boot.at \in {1, 2, 3, 4, 5, 9}  BY <1>0, WhatServicesProvide
  <1>a. PICK what : what = Provides(Service(boot.at))  OBVIOUS
  <1>2. /\ what \in BootNotes /\ (boot.at \notin {1, 2} => what \in Facilities)
        /\ Service(boot.at) \in Required <=> boot.at \in {1, 2}
        /\ what = "fsp-srv" <=> boot.at = 2
    <2>1. what \in BootNotes /\ (boot.at \notin {1, 2} => what \in Facilities)
      BY <1>0, <1>a, ProvidedIsANote
    <2>2. Service(boot.at) \in Required <=> boot.at \in {1, 2}  BY <1>0, WhatServicesProvide
    <2>3. CASE boot.at \in {1, 2}
      <3>1. what = Service(boot.at)  BY <1>0, <1>a, <2>3, WhatServicesProvide
      <3>2. QED  BY <1>0, <2>1, <2>2, <3>1, WhatServicesProvide
    <2>4. CASE boot.at \notin {1, 2}
      <3>1. what \in Facilities  BY <2>1, <2>4
      <3>2. what # "fsp-srv"  BY <3>1 DEF Facilities
      <3>3. QED  BY <2>1, <2>2, <2>4, <3>2
    <2>5. QED  BY <2>3, <2>4
  <1>3. ASSUME \/ UNCHANGED journal
               \/ \E note \in BootNotes : Note(note),
               opened' \subseteq Facilities
        PROVE  BootKeeps
    <2>1. journal' \in [notes : Seq(BootNotes), dropped : Nat] /\ Len(journal'.notes) <= kMaxNotes
      BY <1>3, JournalStays
    <2>2. QED  BY <1>0, <1>3, <2>1 DEF BootKeeps, BootTypeOK
  \* What the next service is reached with.
  <1>4. ASSUME Reaches(boot.at + 1), opened \subseteq opened', opened' \subseteq Facilities,
               \/ UNCHANGED journal
               \/ \E note \in BootNotes : Note(note),
               \A f \in Facilities \ opened' : PlaceInBoot(f) = boot.at => Noted(f)'
        PROVE  BootInv'
    <2>1. ASSUME NEW f \in Facilities \ opened', PlaceInBoot(f) < boot.at + 1
          PROVE  Noted(f)'
      <3>1. PlaceInBoot(f) \in {2, 3, 4, 5, 9}  BY WhereFacilitiesAre
      <3>2. CASE PlaceInBoot(f) = boot.at  BY <1>4, <2>1, <3>2
      <3>3. CASE PlaceInBoot(f) < boot.at
        <4>1. Noted(f)  BY <1>0, <1>4, <3>3
        <4>2. QED  BY <1>4, <4>1, JournalStays
      <3>4. QED  BY <1>0, <2>1, <3>1, <3>2, <3>3
    <2>2. boot.at + 1 \in 2 .. 10  BY <1>0
    <2>3. BootKeeps  BY <1>3, <1>4
    <2>4. QED  BY <1>4, <2>1, <2>2, <2>3, TheThreadMovesOn
  <1>5. PICK works \in BOOLEAN, mounts \in BOOLEAN :
         IF Service(boot.at) \in Required
           THEN /\ IF works THEN Reaches(boot.at + 1) ELSE Goes("aborted")
                /\ IF works /\ what = "fsp-srv" /\ ~mounts
                     THEN Note("card") /\ UNCHANGED opened
                     ELSE /\ opened' = opened \cup
                              (IF works /\ what = "fsp-srv" THEN {"card"} ELSE {})
                          /\ UNCHANGED journal
           ELSE /\ Reaches(boot.at + 1)
                /\ IF works THEN opened' = opened \cup {what} /\ UNCHANGED journal
                            ELSE Note(what) /\ UNCHANGED opened
    BY <1>a, Zenon DEF Acquire
  <1>6. opened \subseteq Facilities /\ "card" \in Facilities /\ "card" \in BootNotes
    BY <1>0 DEF BootTypeOK, Facilities, BootNotes
  <1>7. CASE boot.at \in {1, 2} /\ works
    <2>1. Reaches(boot.at + 1)  BY <1>2, <1>5, <1>7
    <2>2. CASE boot.at = 2 /\ ~mounts
      <3>1. Note("card") /\ UNCHANGED opened  BY <1>2, <1>5, <1>7, <2>2
      <3>2. Noted("card")'  BY <1>6, <3>1, NotesAreTaken DEF BootInv
      <3>3. \A f \in Facilities \ opened' : PlaceInBoot(f) = boot.at => Noted(f)'
        BY <2>2, <3>2, WhereFacilitiesAre
      <3>4. QED  BY <1>4, <1>6, <2>1, <3>1, <3>3
    <2>3. CASE ~(boot.at = 2 /\ ~mounts)
      <3>1. UNCHANGED journal /\ opened' = opened \cup (IF boot.at = 2 THEN {"card"} ELSE {})
        BY <1>2, <1>5, <1>7, <2>3
      <3>2. \A f \in Facilities \ opened' : PlaceInBoot(f) = boot.at => Noted(f)'
        BY <1>7, <3>1, WhereFacilitiesAre
      <3>3. opened \subseteq opened' /\ opened' \subseteq Facilities  BY <1>6, <3>1
      <3>4. QED  BY <1>4, <2>1, <3>1, <3>2, <3>3
    <2>4. QED  BY <2>2, <2>3
  <1>8. CASE boot.at \in {1, 2} /\ ~works
    <2>1. Goes("aborted") /\ UNCHANGED journal /\ opened' = opened  BY <1>2, <1>5, <1>8
    <2>2. BootKeeps  BY <1>3, <1>6, <2>1
    <2>3. "aborted" \in BootPhases /\ boot' = [boot EXCEPT !.phase = "aborted"]
      BY <2>1 DEF BootPhases, Goes
    <2>4. QED  BY <2>2, <2>3, TheThreadGoes
  <1>9. CASE boot.at \notin {1, 2}
    <2>1. Reaches(boot.at + 1)  BY <1>2, <1>5, <1>9
    <2>2. \A f \in Facilities : PlaceInBoot(f) = boot.at => f = what
      BY <1>a, <1>9, WhereFacilitiesAre
    <2>3. CASE works
      <3>1. opened' = opened \cup {what} /\ UNCHANGED journal  BY <1>2, <1>5, <1>9, <2>3
      <3>2. opened \subseteq opened' /\ opened' \subseteq Facilities  BY <1>2, <1>6, <1>9, <3>1
      <3>3. QED  BY <1>4, <2>1, <2>2, <3>1, <3>2
    <2>4. CASE ~works
      <3>1. Note(what) /\ UNCHANGED opened  BY <1>2, <1>5, <1>9, <2>4
      <3>2. Noted(what)'  BY <1>2, <3>1, NotesAreTaken DEF BootInv
      <3>3. QED  BY <1>2, <1>4, <1>6, <2>1, <2>2, <3>1, <3>2
    <2>5. QED  BY <2>3, <2>4
  <1>10. QED  BY <1>7, <1>8, <1>9

\* A service that did not come is noted, and with it what it was for.
LEMMA GivingUpKeeps ==
    ASSUME BootInv, GivesUpOn
    PROVE  BootInv'
  <1>0. /\ boot.phase = "asking" /\ boot.at \in 1 .. 9 /\ BootTypeOK
        /\ \A f \in Facilities \ opened : PlaceInBoot(f) < boot.at => Noted(f)
        /\ UNCHANGED <<inSm, opened, unaskable, logged>>
    BY DEF BootInv, BootFollows, GivesUpOn
  <1>a. PICK what : what = Provides(Service(boot.at))  OBVIOUS
  <1>1. what \in BootNotes /\ Note(what)
    BY <1>0, <1>a, ProvidedIsANote DEF GivesUpOn
  <1>2. /\ Noted(what)' /\ \A f : Noted(f) => Noted(f)'
    BY <1>1, NotesAreTaken DEF BootInv
  <1>3. BootKeeps
    <2>1. journal' \in [notes : Seq(BootNotes), dropped : Nat] /\ Len(journal'.notes) <= kMaxNotes
      BY <1>1, JournalStays
    <2>2. QED  BY <1>0, <2>1 DEF BootKeeps, BootTypeOK
  <1>4. CASE Service(boot.at) \in Required
    <2>1. "aborted" \in BootPhases /\ boot' = [boot EXCEPT !.phase = "aborted"]
      BY <1>4 DEF BootPhases, Goes, GivesUpOn
    <2>2. QED  BY <1>3, <2>1, TheThreadGoes
  <1>5. CASE Service(boot.at) \notin Required /\ Service(boot.at) \notin NetworkServices
    <2>1. boot.at \in 3 .. 5  BY <1>0, <1>5, WhatServicesProvide
    <2>2. Reaches(boot.at + 1)  BY <1>5 DEF GivesUpOn, Skips
    <2>3. ASSUME NEW f \in Facilities \ opened', PlaceInBoot(f) < boot.at + 1
          PROVE  Noted(f)'
      <3>1. /\ PlaceInBoot(f) \in {2, 3, 4, 5, 9}
            /\ PlaceInBoot(f) \in {3, 4, 5, 9} => f = Provides(Service(PlaceInBoot(f)))
        BY WhereFacilitiesAre
      <3>2. CASE PlaceInBoot(f) = boot.at  BY <1>a, <1>2, <2>1, <3>1, <3>2
      <3>3. CASE PlaceInBoot(f) < boot.at  BY <1>0, <1>2, <3>3
      <3>4. QED  BY <2>1, <2>3, <3>1, <3>2, <3>3
    <2>4. boot.at + 1 \in 2 .. 10  BY <2>1
    <2>5. QED  BY <1>3, <2>2, <2>3, <2>4, TheThreadMovesOn
  <1>6. CASE Service(boot.at) \notin Required /\ Service(boot.at) \in NetworkServices
    <2>1. boot.at \in 6 .. 9 /\ what = "transport"  BY <1>0, <1>a, <1>6, WhatServicesProvide
    <2>2. Reaches(10)
      <3>1. Len(Services) + 1 = 10  BY TheServices
      <3>2. QED  BY <1>6, <3>1 DEF GivesUpOn, Skips
    <2>3. ASSUME NEW f \in Facilities \ opened', PlaceInBoot(f) < 10
          PROVE  Noted(f)'
      <3>1. PlaceInBoot(f) \in {2, 3, 4, 5, 9}  BY WhereFacilitiesAre
      <3>2. CASE PlaceInBoot(f) = 9
        <4>1. Provides(Service(9)) = "transport"  BY WhatServicesProvide
        <4>2. f = what  BY <2>1, <3>2, <4>1, WhereFacilitiesAre
        <4>3. QED  BY <1>2, <4>2
      <3>3. CASE PlaceInBoot(f) # 9  BY <1>0, <1>2, <2>1, <3>1, <3>3
      <3>4. QED  BY <3>2, <3>3
    <2>4. QED  BY <1>3, <2>2, <2>3, TheThreadMovesOn
  <1>7. QED  BY <1>4, <1>5, <1>6

\* What is noted is flushed, or the line for what was dropped is.
LEMMA FlushSaysIt ==
    ASSUME BootInv, NEW f, Noted(f)
    PROVE  f \in Flush \/ "dropped" \in Flush
  BY DEF Noted, Flush

\* The journal's lines are lines of the log.
LEMMA FlushIsLines ==
    ASSUME BootInv
    PROVE  Flush \subseteq BootNotes \cup {"dropped"}
  <1>1. PICK notes \in Seq(BootNotes) : notes = journal.notes  BY DEF BootInv, BootFollows
  <1>2. \A n \in 1 .. Len(notes) : notes[n] \in BootNotes  BY ElementOfSeq
  <1>3. QED  BY <1>1, <1>2 DEF Flush

LEMMA BootBegins == BootInit => BootInv
  <1> SUFFICES ASSUME BootInit PROVE BootInv  OBVIOUS
  <1>1. Budget \in Nat /\ kMaxNotes \in Nat /\ Len(Services) = 9
    BY BootAssumption, TheServices
  <1>2. /\ journal.notes \in Seq(BootNotes) /\ Len(journal.notes) = 0 /\ journal.dropped = 0
        /\ journal \in [notes : Seq(BootNotes), dropped : Nat]
    BY DEF BootInit
  <1>3. BootTypeOK
    <2>1. /\ 1 \in 1 .. Len(Services) + 1 /\ 0 \in 0 .. Budget /\ "asking" \in BootPhases
          /\ Len(journal.notes) <= kMaxNotes
      BY <1>1, <1>2 DEF BootPhases
    <2>2. boot \in [phase : BootPhases, at : 1 .. Len(Services) + 1, waited : 0 .. Budget]
      BY <2>1 DEF BootInit
    <2>3. QED  BY <1>2, <2>1, <2>2 DEF BootInit, BootTypeOK
  <1>4. \A f \in Facilities \ opened : ~(PlaceInBoot(f) < boot.at)
    <2>1. boot.at = 1  BY DEF BootInit
    <2>2. QED  BY <2>1, WhereFacilitiesAre
  <1>5. BootFollows  BY <1>2, <1>4 DEF BootInit, BootFollows
  <1>6. QED  BY <1>3, <1>5 DEF BootInv

\* The log is opened, and said to be what it is.
LEMMA LoggingKeeps ==
    ASSUME BootInv, OpensLog
    PROVE  BootInv'
  <1>0. /\ boot.phase = "logging" /\ boot.at = 10 /\ BootTypeOK
        /\ \A f \in Facilities \ opened : PlaceInBoot(f) < boot.at => Noted(f)
        /\ UNCHANGED <<inSm, opened, unaskable, journal>>
    BY DEF BootInv, BootFollows, OpensLog
  <1>1. /\ Flush \subseteq logged'
        /\ logged' \subseteq Flush \cup {"directory", "no transport"}
    BY DEF OpensLog, Introduction
  <1>2. BootKeeps
    <2>1. journal' \in [notes : Seq(BootNotes), dropped : Nat]
      BY <1>0 DEF BootInv, BootFollows
    <2>2. logged' \subseteq BootNotes \cup {"dropped", "directory", "no transport",
                                             "no probe", "no subscription"}
      BY <1>1, FlushIsLines
    <2>3. QED  BY <1>0, <2>1, <2>2 DEF BootKeeps, BootTypeOK
  <1>3. "building" \in BootPhases /\ boot' = [boot EXCEPT !.phase = "building"]
    BY DEF BootPhases, Goes, OpensLog
  <1>4. ASSUME NEW f \in Facilities \ opened'
        PROVE  Told(f)'
    <2>1. PlaceInBoot(f) < 10  BY WhereFacilitiesAre
    <2>2. Noted(f)  BY <1>0, <2>1
    <2>3. f \in logged' \/ "dropped" \in logged'  BY <1>1, <2>2, FlushSaysIt
    <2>4. QED  BY <2>3 DEF Told
  <1>5. QED  BY <1>2, <1>3, <1>4, TheThreadGoes

\* The later lines take nothing back, and name what is closed again.
LEMMA ServingKeeps ==
    ASSUME BootInv, BuildsEngine \/ SubscribesAndServes
    PROVE  BootInv'
  <1>0. /\ boot.phase \in {"building", "subscribing"} /\ BootTypeOK
        /\ \A f \in Facilities \ opened : Told(f)
        /\ UNCHANGED <<inSm, unaskable, journal>>
    BY DEF BootInv, BootFollows, BuildsEngine, SubscribesAndServes
  <1>1. /\ logged \subseteq logged'
        /\ logged' \subseteq logged \cup {"no probe", "no subscription"}
        /\ opened' = opened \/ (opened' = opened \ {"power"} /\ "no subscription" \in logged')
    BY DEF BuildsEngine, SubscribesAndServes
  <1>2. BootKeeps
    <2>1. journal' \in [notes : Seq(BootNotes), dropped : Nat]
      BY <1>0 DEF BootInv, BootFollows
    <2>2. logged' \subseteq BootNotes \cup {"dropped", "directory", "no transport",
                                             "no probe", "no subscription"}
      BY <1>0, <1>1 DEF BootTypeOK
    <2>3. QED  BY <1>0, <1>1, <2>1, <2>2 DEF BootKeeps, BootTypeOK
  <1>3. PICK phase \in {"subscribing", "serving"} : boot' = [boot EXCEPT !.phase = phase]
    BY DEF Goes, BuildsEngine, SubscribesAndServes
  <1>4. ASSUME NEW f \in Facilities \ opened'
        PROVE  Told(f)'
    <2>1. CASE f \notin opened
      <3>1. Told(f)  BY <1>0, <1>4, <2>1
      <3>2. QED  BY <1>1, <3>1 DEF Told
    <2>2. CASE f \in opened
      <3>1. f = "power" /\ "no subscription" \in logged'  BY <1>1, <1>4, <2>2
      <3>2. QED  BY <3>1 DEF Told
    <2>3. QED  BY <2>1, <2>2
  <1>5. phase \in BootPhases /\ phase \notin {"asking", "opening", "registering", "logging"}
    BY <1>3 DEF BootPhases
  <1>6. QED  BY <1>2, <1>3, <1>4, <1>5, TheThreadGoes

LEMMA BootSteps ==
    ASSUME BootInv, [BootNext]_bootVars
    PROVE  BootInv'
  <1>0. BootTypeOK /\ BootFollows  BY DEF BootInv
  <1>1. CASE NotAsked \/ AnsweredYes
    <2>1. unaskable' \in BOOLEAN  BY <1>0, <1>1 DEF NotAsked, AnsweredYes, BootTypeOK
    <2>2. QED  BY <1>1, <2>1, ProceedingKeeps DEF NotAsked, AnsweredYes
  <1>2. CASE CannotAsk
    <2>1. "unaskable" \in BootNotes  BY DEF BootNotes
    <2>2. QED  BY <1>2, <2>1, ProceedingKeeps DEF CannotAsk
  <1>3. CASE SleepsOn
    <2>1. /\ boot' = [boot EXCEPT !.waited = boot.waited + 1] /\ ~(boot.waited + 1 > Budget)
          /\ UNCHANGED <<inSm, opened, unaskable, journal, logged>> /\ Budget \in Nat
      BY <1>3, BootAssumption DEF SleepsOn, BudgetSpent
    <2>2. boot.waited + 1 \in 0 .. Budget
      <3>1. boot.waited \in 0 .. Budget  BY <1>0 DEF BootTypeOK
      <3>2. QED  BY <2>1, <3>1
    <2>3. /\ boot' \in [phase : BootPhases, at : 1 .. Len(Services) + 1, waited : 0 .. Budget]
          /\ boot'.phase = boot.phase /\ boot'.at = boot.at
      BY <1>0, <2>1, <2>2 DEF BootTypeOK
    <2>4. BootTypeOK'  BY <1>0, <2>1, <2>3 DEF BootTypeOK
    <2>5. BootFollows'  BY <1>0, <2>1, <2>3 DEF BootFollows, Noted, Told
    <2>6. QED  BY <2>4, <2>5 DEF BootInv
  <1>4. CASE GivesUpOn  BY <1>4, GivingUpKeeps
  <1>5. CASE Acquire  BY <1>5, AcquiringKeeps
  <1>6. CASE RegistersPort
    <2>1. /\ boot.phase = "registering" /\ boot.at = 10
          /\ UNCHANGED <<inSm, opened, unaskable, journal, logged>>
          /\ \A f \in Facilities \ opened : PlaceInBoot(f) < boot.at => Noted(f)
      BY <1>0, <1>6 DEF RegistersPort, BootFollows
    <2>2. BootKeeps  BY <1>0, <2>1 DEF BootKeeps, BootTypeOK, BootFollows
    <2>3. PICK phase \in {"logging", "aborted"} : boot' = [boot EXCEPT !.phase = phase]
      BY <1>6 DEF RegistersPort, Goes
    <2>4. \A f \in Facilities \ opened' : PlaceInBoot(f) < boot.at => Noted(f)'
      BY <2>1 DEF Noted
    <2>5. phase \in BootPhases  BY <2>3 DEF BootPhases
    <2>6. CASE phase = "logging"  BY <2>1, <2>2, <2>3, <2>4, <2>5, <2>6, TheThreadGoes
    <2>7. CASE phase = "aborted"  BY <2>2, <2>3, <2>5, <2>7, TheThreadGoes
    <2>8. QED  BY <2>3, <2>6, <2>7
  <1>7. CASE OpensLog  BY <1>7, LoggingKeeps
  <1>8. CASE BuildsEngine \/ SubscribesAndServes  BY <1>8, ServingKeeps
  <1>9. CASE Registers
    <2>1. PICK n \in boot.at .. Len(Services) : inSm' = inSm \cup {Service(n)}
      BY <1>9 DEF Registers
    <2>2. n \in 1 .. Len(Services)
      <3>1. boot.at \in 1 .. 9 /\ Len(Services) = 9
        BY <1>0, <1>9, TheServices DEF Registers, BootFollows
      <3>2. QED  BY <2>1, <3>1
    <2>3. UNCHANGED <<boot, opened, unaskable, journal, logged>>  BY <1>9 DEF Registers
    <2>4. BootTypeOK'  BY <1>0, <2>1, <2>2, <2>3 DEF BootTypeOK, Service
    <2>5. BootFollows'  BY <1>0, <2>3 DEF BootFollows, Noted, Told
    <2>6. QED  BY <2>4, <2>5 DEF BootInv
  <1>10. CASE UNCHANGED bootVars
    <2>1. UNCHANGED <<inSm, boot, opened, unaskable, journal, logged>>  BY <1>10 DEF bootVars
    <2>2. BootTypeOK'  BY <1>0, <2>1 DEF BootTypeOK
    <2>3. BootFollows'  BY <1>0, <2>1 DEF BootFollows, Noted, Told
    <2>4. QED  BY <2>2, <2>3 DEF BootInv
  <1>11. QED
    BY <1>1, <1>2, <1>3, <1>4, <1>5, <1>6, <1>7, <1>8, <1>9, <1>10 DEF BootNext, BootStep

\* Of the start: behind the thread every missing facility has its reason.
THEOREM BootInvariance == BootSpec => []BootInv
  BY BootBegins, BootSteps, PTL DEF BootSpec

\* The thread's place, the journal and the log keep their types, and the
\* journal its bound, for any budget.
THEOREM BootTypeCorrect == BootSpec => []BootTypeOK
  <1>1. BootInv => BootTypeOK  BY DEF BootInv
  <1>2. QED  BY <1>1, BootInvariance, PTL

\* A console that comes up without a facility says why in its log, or says
\* there that reasons were dropped, whichever services come and when.
THEOREM ADegradedStartIsSaid == BootSpec => []DegradedIsSaid
  <1>1. BootInv => DegradedIsSaid
    BY DEF BootInv, BootFollows, DegradedIsSaid, Told
  <1>2. QED  BY <1>1, BootInvariance, PTL

-----------------------------------------------------------------------------
(* The overlay's session.  A result belongs to the last command that was   *)
(* handed over, and whoever is not waiting has given it up.                *)

SessionTyped ==
    /\ slot \in Slots /\ calls \in 0 .. MaxCalls /\ sessions \in Nat
    /\ command \in 0 .. MaxCalls \cup {NoCall} /\ dispatched \in 0 .. MaxCalls \cup {NoCall}
    /\ draw \in Places /\ asking \in {"handshake", "typed", "nothing"}
    /\ session \in 0 .. sessions
    /\ result \in [call : 0 .. MaxCalls \cup {NoCall}, outcome : {"ok", "malformed", "transport"}]

SessionFlags ==
    /\ givenUp \in BOOLEAN /\ stopping \in BOOLEAN /\ started \in BOOLEAN /\ port \in BOOLEAN
    /\ askable \in BOOLEAN /\ screen \in Screens /\ checked \in [Screens -> BOOLEAN]

SessionsKnown ==
    /\ greeted \subseteq 1 .. sessions /\ typed \subseteq 1 .. sessions

CallsAgree ==
    /\ dispatched # NoCall <=> slot = "running" \/ draw = "calling"
    /\ slot = "running" => dispatched = command
    /\ draw = "calling" => session # 0 /\ slot = "idle" /\ dispatched = calls /\ calls \in 1 .. MaxCalls
    /\ session = 0 => slot = "idle"
    /\ draw \in {"opening", "parked"} => session = 0
    /\ draw = "ready" => session # 0
    /\ slot = "done" => result.call = command
    /\ slot \in {"queued", "running"} => session # 0 /\ command \in 1 .. MaxCalls
    /\ draw = "waiting" => session # 0 /\ slot # "idle" /\ command = calls
    /\ draw \in {"joining", "gone"} => slot \in {"idle", "done"}
    /\ draw # "waiting" /\ slot # "idle" => givenUp = TRUE

AnswerHanded == got.of \in {got.call, NotResponding}

SessionInv == SessionTyped /\ SessionFlags /\ SessionsKnown /\ CallsAgree /\ AnswerHanded

LEMMA SessionConstants == MaxCalls \in Nat /\ NoCall \notin 0 .. MaxCalls
  BY SessionAssumption

\* The numbers and places keep their types.
LEMMA SessionTypesStay ==
    ASSUME SessionInv, [SessionNext]_sessionVars
    PROVE  SessionTyped'
  <1>0. SessionTyped /\ MaxCalls \in Nat  BY SessionConstants DEF SessionInv
  <1>1. CASE CallRefused
    BY <1>0, <1>1 DEF CallRefused, clientVars, linkVars, screenVars, SessionTyped, Slots, Places, NotResponding
  <1>2. CASE Obtain
    BY <1>0, <1>2 DEF Obtain, clientVars, linkVars, screenVars, SessionTyped, Slots, Places, NotResponding
  <1>3. CASE Call
    BY <1>0, <1>3 DEF Call, clientVars, linkVars, screenVars, SessionTyped, Slots, Places, NotResponding
  <1>4. CASE Answered
    BY <1>0, <1>4 DEF Answered, Diagnose, Closed, OpensPort, Quiet, clientVars, linkVars, screenVars, SessionTyped, Slots, Places, NotResponding
  <1>5. CASE BudgetRunsOut
    BY <1>0, <1>5 DEF BudgetRunsOut, clientVars, linkVars, screenVars, SessionTyped, Slots, Places, NotResponding
  <1>6. CASE Show
    BY <1>0, <1>6 DEF Show, clientVars, linkVars, screenVars, SessionTyped, Slots, Places, NotResponding
  <1>7. CASE WorkerTakes
    BY <1>0, <1>7 DEF WorkerTakes, clientVars, linkVars, screenVars, SessionTyped, Slots, Places, NotResponding
  <1>8. CASE Dispatch
    BY <1>0, <1>8 DEF Dispatch, CameBack, clientVars, linkVars, screenVars, SessionTyped, Slots, Places, NotResponding
  <1>9. CASE WorkerStops
    BY <1>0, <1>9 DEF WorkerStops, clientVars, linkVars, screenVars, SessionTyped, Slots, Places, NotResponding
  <1>10. CASE Shutdown
    BY <1>0, <1>10 DEF Shutdown, clientVars, linkVars, screenVars, SessionTyped, Slots, Places, NotResponding
  <1>11. CASE ShutdownStops
    BY <1>0, <1>11 DEF ShutdownStops, Quiet, clientVars, linkVars, screenVars, SessionTyped, Slots, Places, NotResponding
  <1>12. CASE ShutdownJoins
    BY <1>0, <1>12 DEF ShutdownJoins, clientVars, linkVars, screenVars, SessionTyped, Slots, Places, NotResponding
  <1>13. CASE Restarts
    BY <1>0, <1>13 DEF Restarts, clientVars, linkVars, screenVars, SessionTyped, Slots, Places, NotResponding
  <1>14. CASE UNCHANGED sessionVars
    BY <1>0, <1>14 DEF sessionVars, clientVars, linkVars, screenVars, SessionTyped, Slots, Places, NotResponding
  <1>15. CASE OpenSession
    BY <1>0, <1>15 DEF OpenSession, clientVars, linkVars, screenVars, SessionTyped, Slots, Places, NotResponding
  <1>16. CASE CalledItself
    BY <1>0, <1>16 DEF CalledItself, Diagnose, Closed, OpensPort, Quiet, CameBack, clientVars, linkVars, screenVars, SessionTyped, Slots, Places, NotResponding
  <1>17. QED  BY <1>1, <1>2, <1>3, <1>4, <1>5, <1>6, <1>7, <1>8, <1>9, <1>10, <1>11, <1>12, <1>13, <1>14, <1>15, <1>16 DEF SessionNext

\* The flags are flags.
LEMMA SessionFlagsStay ==
    ASSUME SessionInv, [SessionNext]_sessionVars
    PROVE  SessionFlags'
  <1>0. SessionFlags  BY DEF SessionInv
  <1>1. CASE CallRefused
    BY <1>0, <1>1 DEF CallRefused, clientVars, linkVars, screenVars, SessionFlags
  <1>2. CASE Obtain
    BY <1>0, <1>2 DEF Obtain, clientVars, linkVars, screenVars, SessionFlags
  <1>3. CASE Call
    BY <1>0, <1>3 DEF Call, clientVars, linkVars, screenVars, SessionFlags
  <1>4. CASE Answered
    BY <1>0, <1>4 DEF Answered, Diagnose, Closed, OpensPort, Quiet, clientVars, linkVars, screenVars, SessionFlags
  <1>5. CASE BudgetRunsOut
    BY <1>0, <1>5 DEF BudgetRunsOut, clientVars, linkVars, screenVars, SessionFlags
  <1>6. CASE Show
    <2>1. screen \in 1 .. MaxScreens /\ MaxScreens \in Nat
      BY <1>0, SessionAssumption DEF SessionFlags, Screens
    <2>2. screen' \in Screens  BY <1>6, <2>1 DEF Show, Screens
    <2>3. QED  BY <1>0, <1>6, <2>2 DEF Show, clientVars, linkVars, screenVars, SessionFlags
  <1>7. CASE WorkerTakes
    BY <1>0, <1>7 DEF WorkerTakes, clientVars, linkVars, screenVars, SessionFlags
  <1>8. CASE Dispatch
    BY <1>0, <1>8 DEF Dispatch, CameBack, clientVars, linkVars, screenVars, SessionFlags
  <1>9. CASE WorkerStops
    BY <1>0, <1>9 DEF WorkerStops, clientVars, linkVars, screenVars, SessionFlags
  <1>10. CASE Shutdown
    BY <1>0, <1>10 DEF Shutdown, clientVars, linkVars, screenVars, SessionFlags
  <1>11. CASE ShutdownStops
    BY <1>0, <1>11 DEF ShutdownStops, Quiet, clientVars, linkVars, screenVars, SessionFlags
  <1>12. CASE ShutdownJoins
    BY <1>0, <1>12 DEF ShutdownJoins, clientVars, linkVars, screenVars, SessionFlags
  <1>13. CASE Restarts
    BY <1>0, <1>13 DEF Restarts, clientVars, linkVars, screenVars, SessionFlags
  <1>14. CASE UNCHANGED sessionVars
    BY <1>0, <1>14 DEF sessionVars, clientVars, linkVars, screenVars, SessionFlags
  <1>15. CASE OpenSession
    BY <1>0, <1>15 DEF OpenSession, clientVars, linkVars, screenVars, SessionFlags
  <1>16. CASE CalledItself
    BY <1>0, <1>16 DEF CalledItself, Diagnose, Closed, OpensPort, Quiet, CameBack, clientVars, linkVars, screenVars, SessionFlags
  <1>17. QED  BY <1>1, <1>2, <1>3, <1>4, <1>5, <1>6, <1>7, <1>8, <1>9, <1>10, <1>11, <1>12, <1>13, <1>14, <1>15, <1>16 DEF SessionNext

\* What was greeted or sent a command was opened.
LEMMA SessionsStayKnown ==
    ASSUME SessionInv, [SessionNext]_sessionVars
    PROVE  SessionsKnown'
  <1>0. SessionsKnown /\ SessionTyped /\ CallsAgree  BY DEF SessionInv
  <1>1. CASE CallRefused
    BY <1>0, <1>1 DEF CallRefused, clientVars, linkVars, screenVars, SessionsKnown, SessionTyped, CallsAgree
  <1>2. CASE Obtain
    BY <1>0, <1>2 DEF Obtain, clientVars, linkVars, screenVars, SessionsKnown, SessionTyped, CallsAgree
  <1>3. CASE Call
    BY <1>0, <1>3 DEF Call, clientVars, linkVars, screenVars, SessionsKnown, SessionTyped, CallsAgree
  <1>4. CASE Answered
    BY <1>0, <1>4 DEF Answered, Diagnose, Closed, OpensPort, Quiet, clientVars, linkVars, screenVars, SessionsKnown, SessionTyped, CallsAgree
  <1>5. CASE BudgetRunsOut
    BY <1>0, <1>5 DEF BudgetRunsOut, clientVars, linkVars, screenVars, SessionsKnown, SessionTyped, CallsAgree
  <1>6. CASE Show
    BY <1>0, <1>6 DEF Show, clientVars, linkVars, screenVars, SessionsKnown, SessionTyped, CallsAgree
  <1>7. CASE WorkerTakes
    BY <1>0, <1>7 DEF WorkerTakes, clientVars, linkVars, screenVars, SessionsKnown, SessionTyped, CallsAgree
  <1>8. CASE Dispatch
    BY <1>0, <1>8 DEF Dispatch, CameBack, clientVars, linkVars, screenVars, SessionsKnown, SessionTyped, CallsAgree
  <1>9. CASE WorkerStops
    BY <1>0, <1>9 DEF WorkerStops, clientVars, linkVars, screenVars, SessionsKnown, SessionTyped, CallsAgree
  <1>10. CASE Shutdown
    BY <1>0, <1>10 DEF Shutdown, clientVars, linkVars, screenVars, SessionsKnown, SessionTyped, CallsAgree
  <1>11. CASE ShutdownStops
    BY <1>0, <1>11 DEF ShutdownStops, Quiet, clientVars, linkVars, screenVars, SessionsKnown, SessionTyped, CallsAgree
  <1>12. CASE ShutdownJoins
    BY <1>0, <1>12 DEF ShutdownJoins, clientVars, linkVars, screenVars, SessionsKnown, SessionTyped, CallsAgree
  <1>13. CASE Restarts
    BY <1>0, <1>13 DEF Restarts, clientVars, linkVars, screenVars, SessionsKnown, SessionTyped, CallsAgree
  <1>14. CASE UNCHANGED sessionVars
    BY <1>0, <1>14 DEF sessionVars, clientVars, linkVars, screenVars, SessionsKnown, SessionTyped, CallsAgree
  <1>15. CASE OpenSession
    BY <1>0, <1>15 DEF OpenSession, clientVars, linkVars, screenVars, SessionsKnown, SessionTyped, CallsAgree
  <1>16. CASE CalledItself
    BY <1>0, <1>16 DEF CalledItself, Diagnose, Closed, OpensPort, Quiet, CameBack, clientVars, linkVars, screenVars, SessionsKnown, SessionTyped, CallsAgree
  <1>17. QED  BY <1>1, <1>2, <1>3, <1>4, <1>5, <1>6, <1>7, <1>8, <1>9, <1>10, <1>11, <1>12, <1>13, <1>14, <1>15, <1>16 DEF SessionNext

\* A call that was given up is not taken for another.
LEMMA CallsStayApart ==
    ASSUME SessionInv, [SessionNext]_sessionVars
    PROVE  CallsAgree'
  <1>0. CallsAgree /\ SessionTyped /\ MaxCalls \in Nat /\ NoCall \notin 0 .. MaxCalls
    BY SessionConstants DEF SessionInv
  <1>1. CASE CallRefused
    BY <1>0, <1>1 DEF CallRefused, clientVars, linkVars, screenVars, CallsAgree, SessionTyped, Slots, Places
  <1>2. CASE Obtain
    BY <1>0, <1>2 DEF Obtain, clientVars, linkVars, screenVars, CallsAgree, SessionTyped, Slots, Places
  <1>3. CASE Call
    BY <1>0, <1>3 DEF Call, clientVars, linkVars, screenVars, CallsAgree, SessionTyped, Slots, Places
  <1>4. CASE Answered
    BY <1>0, <1>4 DEF Answered, Diagnose, Closed, OpensPort, Quiet, clientVars, linkVars, screenVars, CallsAgree, SessionTyped, Slots, Places
  <1>5. CASE BudgetRunsOut
    BY <1>0, <1>5 DEF BudgetRunsOut, clientVars, linkVars, screenVars, CallsAgree, SessionTyped, Slots, Places
  <1>6. CASE Show
    BY <1>0, <1>6 DEF Show, clientVars, linkVars, screenVars, CallsAgree, SessionTyped, Slots, Places
  <1>7. CASE WorkerTakes
    BY <1>0, <1>7 DEF WorkerTakes, clientVars, linkVars, screenVars, CallsAgree, SessionTyped, Slots, Places
  <1>8. CASE Dispatch
    BY <1>0, <1>8 DEF Dispatch, CameBack, clientVars, linkVars, screenVars, CallsAgree, SessionTyped, Slots, Places
  <1>9. CASE WorkerStops
    BY <1>0, <1>9 DEF WorkerStops, clientVars, linkVars, screenVars, CallsAgree, SessionTyped, Slots, Places
  <1>10. CASE Shutdown
    BY <1>0, <1>10 DEF Shutdown, clientVars, linkVars, screenVars, CallsAgree, SessionTyped, Slots, Places
  <1>11. CASE ShutdownStops
    BY <1>0, <1>11 DEF ShutdownStops, Quiet, clientVars, linkVars, screenVars, CallsAgree, SessionTyped, Slots, Places
  <1>12. CASE ShutdownJoins
    BY <1>0, <1>12 DEF ShutdownJoins, clientVars, linkVars, screenVars, CallsAgree, SessionTyped, Slots, Places
  <1>13. CASE Restarts
    BY <1>0, <1>13 DEF Restarts, clientVars, linkVars, screenVars, CallsAgree, SessionTyped, Slots, Places
  <1>14. CASE UNCHANGED sessionVars
    BY <1>0, <1>14 DEF sessionVars, clientVars, linkVars, screenVars, CallsAgree, SessionTyped, Slots, Places
  <1>15. CASE OpenSession
    BY <1>0, <1>15 DEF OpenSession, clientVars, linkVars, screenVars, CallsAgree, SessionTyped, Slots, Places
  <1>16. CASE CalledItself
    BY <1>0, <1>16 DEF CalledItself, Diagnose, Closed, OpensPort, Quiet, CameBack, clientVars, linkVars, screenVars, CallsAgree, SessionTyped, Slots, Places
  <1>17. QED  BY <1>1, <1>2, <1>3, <1>4, <1>5, <1>6, <1>7, <1>8, <1>9, <1>10, <1>11, <1>12, <1>13, <1>14, <1>15, <1>16 DEF SessionNext

\* What a caller was handed last is its own.
LEMMA AnswersStayHanded ==
    ASSUME SessionInv, [SessionNext]_sessionVars
    PROVE  AnswerHanded'
  <1>0. AnswerHanded /\ SessionTyped /\ CallsAgree  BY DEF SessionInv
  <1>1. CASE CallRefused
    BY <1>0, <1>1 DEF CallRefused, clientVars, linkVars, screenVars, AnswerHanded, SessionTyped, CallsAgree, NotResponding
  <1>2. CASE Obtain
    BY <1>0, <1>2 DEF Obtain, clientVars, linkVars, screenVars, AnswerHanded, SessionTyped, CallsAgree, NotResponding
  <1>3. CASE Call
    BY <1>0, <1>3 DEF Call, clientVars, linkVars, screenVars, AnswerHanded, SessionTyped, CallsAgree, NotResponding
  <1>4. CASE Answered
    BY <1>0, <1>4 DEF Answered, Diagnose, Closed, OpensPort, Quiet, clientVars, linkVars, screenVars, AnswerHanded, SessionTyped, CallsAgree, NotResponding
  <1>5. CASE BudgetRunsOut
    BY <1>0, <1>5 DEF BudgetRunsOut, clientVars, linkVars, screenVars, AnswerHanded, SessionTyped, CallsAgree, NotResponding
  <1>6. CASE Show
    BY <1>0, <1>6 DEF Show, clientVars, linkVars, screenVars, AnswerHanded, SessionTyped, CallsAgree, NotResponding
  <1>7. CASE WorkerTakes
    BY <1>0, <1>7 DEF WorkerTakes, clientVars, linkVars, screenVars, AnswerHanded, SessionTyped, CallsAgree, NotResponding
  <1>8. CASE Dispatch
    BY <1>0, <1>8 DEF Dispatch, CameBack, clientVars, linkVars, screenVars, AnswerHanded, SessionTyped, CallsAgree, NotResponding
  <1>9. CASE WorkerStops
    BY <1>0, <1>9 DEF WorkerStops, clientVars, linkVars, screenVars, AnswerHanded, SessionTyped, CallsAgree, NotResponding
  <1>10. CASE Shutdown
    BY <1>0, <1>10 DEF Shutdown, clientVars, linkVars, screenVars, AnswerHanded, SessionTyped, CallsAgree, NotResponding
  <1>11. CASE ShutdownStops
    BY <1>0, <1>11 DEF ShutdownStops, Quiet, clientVars, linkVars, screenVars, AnswerHanded, SessionTyped, CallsAgree, NotResponding
  <1>12. CASE ShutdownJoins
    BY <1>0, <1>12 DEF ShutdownJoins, clientVars, linkVars, screenVars, AnswerHanded, SessionTyped, CallsAgree, NotResponding
  <1>13. CASE Restarts
    BY <1>0, <1>13 DEF Restarts, clientVars, linkVars, screenVars, AnswerHanded, SessionTyped, CallsAgree, NotResponding
  <1>14. CASE UNCHANGED sessionVars
    BY <1>0, <1>14 DEF sessionVars, clientVars, linkVars, screenVars, AnswerHanded, SessionTyped, CallsAgree, NotResponding
  <1>15. CASE OpenSession
    BY <1>0, <1>15 DEF OpenSession, clientVars, linkVars, screenVars, AnswerHanded, SessionTyped, CallsAgree, NotResponding
  <1>16. CASE CalledItself
    BY <1>0, <1>16 DEF CalledItself, Diagnose, Closed, OpensPort, Quiet, CameBack, clientVars, linkVars, screenVars, AnswerHanded, SessionTyped, CallsAgree, NotResponding
  <1>17. QED  BY <1>1, <1>2, <1>3, <1>4, <1>5, <1>6, <1>7, <1>8, <1>9, <1>10, <1>11, <1>12, <1>13, <1>14, <1>15, <1>16 DEF SessionNext

LEMMA SessionBegins == SessionInit => SessionInv
  <1> SUFFICES ASSUME SessionInit PROVE SessionInv  OBVIOUS
  <1>1. SessionTyped  BY SessionConstants DEF SessionInit, SessionTyped, Slots, Places
  <1>2. SessionFlags
    <2>1. 1 \in Screens  BY SessionAssumption DEF Screens
    <2>2. QED  BY <2>1 DEF SessionInit, SessionFlags
  <1>3. SessionsKnown /\ CallsAgree  BY DEF SessionInit, SessionsKnown, CallsAgree
  <1>4. AnswerHanded  BY DEF SessionInit, AnswerHanded
  <1>5. QED  BY <1>1, <1>2, <1>3, <1>4 DEF SessionInv

LEMMA SessionSteps ==
    ASSUME SessionInv, [SessionNext]_sessionVars
    PROVE  SessionInv'
  BY SessionTypesStay, SessionFlagsStay, SessionsStayKnown, CallsStayApart, AnswersStayHanded
  DEF SessionInv

\* Of the session: a result is the last command's, and a session is open under
\* every call that is out.
THEOREM SessionInvariance == SessionSpec => []SessionInv
  BY SessionBegins, SessionSteps, PTL DEF SessionSpec

\* The invariant has every variable of the session in its type.
LEMMA SessionTypeFollows ==
    ASSUME SessionInv
    PROVE  SessionTypeOK
  <1>1. SessionTyped /\ SessionFlags /\ SessionsKnown  BY DEF SessionInv
  <1>2. {givenUp, stopping, started, port, askable} \subseteq BOOLEAN  BY <1>1 DEF SessionFlags
  <1>3. QED
    BY <1>1, <1>2 DEF SessionTyped, SessionFlags, SessionsKnown, SessionTypeOK

\* The client's fields hold what they are declared to, for any number of
\* screens, calls and restarts.
THEOREM SessionTypeCorrect == SessionSpec => []SessionTypeOK
  <1>1. SessionInv => SessionTypeOK  BY SessionTypeFollows
  <1>2. QED  BY <1>1, SessionInvariance, PTL

\* No caller is handed the answer of another call, however late an abandoned
\* one comes back; no session is closed under a dispatch; and the draw thread
\* dispatches a call itself only when its worker has none.
THEOREM AnAnswerIsItsOwn == SessionSpec => []AnswersAreTheirOwn
  <1>1. SessionInv => AnswersAreTheirOwn
    BY DEF SessionInv, AnswerHanded, CallsAgree, AnswersAreTheirOwn, Quiet
  <1>2. QED  BY <1>1, SessionInvariance, PTL

-----------------------------------------------------------------------------
(* The conflict screen.  A press is wanted, out, or running, and in one of *)
(* the three places; a list that is being read has every entry it has gone *)
(* past.                                                                   *)

Models ==
    [rows : Seq(Row), hasMore : BOOLEAN, pageError : BOOLEAN, selected : 1 .. kMaxEntries + 1,
     mode : ConflictsModes, opened : Nat, restoreWanted : Nat, restoring : Nat,
     awaiting : BOOLEAN, lost : Nat, restored : BOOLEAN, lastRestore : RestoreReport,
     keepLocalWanted : BOOLEAN, keepingLocal : BOOLEAN, choice : 1 .. 3, cancelWanted : Nat,
     cancelAnswered : Nat, link : {"ok", "slow", "gone"}, stale : BOOLEAN]

Restores ==
    [phase : RestorePhases, entry : Nat, keeps : BOOLEAN, press : Nat, report : RestoreReport]

LateCalls == [kind : {"restore", "cancel", "poll", "page"}, id : Nat, keeps : BOOLEAN, press : Nat]

StoreTyped ==
    /\ history \in Seq(Entry) /\ Len(history) <= kMaxEntries /\ nextId \in Nat
    /\ persisted \in [newer : BOOLEAN, entries : Seq(Entry), next : Nat]
    /\ backups \subseteq Nat /\ held \subseteq Saves /\ armed \subseteq Saves

PressesTyped ==
    /\ presses \in 0 .. MaxPresses
    /\ runs \in [0 .. MaxPresses -> Nat]

\* No more rows than a history has entries, and the cursor on one of them.
Pointed(c) == c.selected = 1 \/ c.selected \in 1 .. Len(c.rows)
ScreenFits(c) == c \in Models /\ Len(c.rows) <= kMaxEntries /\ Pointed(c)

ScreenTyped ==
    /\ ScreenFits(cm)
    /\ restore \in Restores
    /\ out # Nobody => out \in LateCalls

\* An entry's id is below the counter it was taken from, in memory and on the card.
IdsRise ==
    /\ \A i \in 1 .. Len(history) : history[i].id < nextId
    /\ \A i \in 1 .. Len(persisted.entries) : persisted.entries[i].id < persisted.next

\* Where a press is before its restore has run.
IsWanted(p) == cm.restoreWanted # 0 /\ p = presses
IsLate(p) == out # Nobody /\ out.kind = "restore" /\ out.press = p
IsRunning(p) == restore.phase = "running" /\ restore.press = p

PressBounds ==
    /\ restore.phase = "running" => restore.press \in 1 .. presses
    /\ (out # Nobody /\ out.kind = "restore") => out.press \in 1 .. presses
    /\ cm.restoreWanted # 0 => presses # 0

PressesCount ==
    \A p \in 1 .. MaxPresses :
        /\ runs[p] <= 1
        /\ runs[p] = 1 => ~IsWanted(p) /\ ~IsLate(p) /\ ~IsRunning(p)
        /\ ~(IsWanted(p) /\ IsLate(p)) /\ ~(IsWanted(p) /\ IsRunning(p))
        /\ ~(IsLate(p) /\ IsRunning(p))
        /\ p > presses => runs[p] = 0

\* An outcome is shown for the entry that is open, and forgotten before a confirmation.
ShowsItsOwn(c) ==
    /\ c.mode = "detail" /\ c.restored => c.lastRestore.of = c.opened
    /\ c.mode = "confirm" => ~c.restored

ReportsItsEntry == restore.phase = "done" => restore.report.of = restore.entry

\* The entries a list has, and those that are no newer than where it began.
Listed(c, id) == \E j \in 1 .. Len(c.rows) : c.rows[j].entry.id = id
NoNewer(c, i) == history[i].id <= c.rows[1].entry.id

RowsHold(c) ==
    c.rows # <<>> =>
        /\ \A j \in 1 .. Len(c.rows) : c.rows[j].entry.id < nextId
        /\ \A i \in 1 .. Len(history) :
             NoNewer(c, i) => i > Len(c.rows) \/ Listed(c, history[i].id)
        /\ ~c.hasMore =>
             \A i \in 1 .. Len(history) : NoNewer(c, i) => Listed(c, history[i].id)

LinkSays(c) == c.link = "gone" <=> c.stale

PressInv == PressesTyped /\ PressBounds /\ PressesCount
ScreenInv ==
    /\ ShowsItsOwn(cm) /\ ReportsItsEntry
    /\ LinkSays(cm) /\ (~cm.stale => RowsHold(cm))
ConflictsInv == StoreTyped /\ ScreenTyped /\ IdsRise /\ PressInv /\ ScreenInv

LEMMA ConflictsConstants ==
    /\ kMaxEntries \in Nat /\ kMaxEntries # 0 /\ kMaxConflictPage \in Nat
    /\ MaxPresses \in Nat /\ MaxJolts \in Nat
  BY ConflictsAssumption

LEMMA TheHistory ==
    ASSUME NEW e, NEW i \in 1 .. Len(history), history \in Seq(Entry), e = history[i]
    PROVE  e \in Entry /\ e.id \in Nat /\ e.save \in Saves /\ e.event \in ConflictEvents
  <1>1. e \in Entry  BY ElementOfSeq
  <1>2. QED  BY <1>1 DEF Entry

\* What becomes of a list that keeps its entries: the same are listed.
Relisted(c, d) ==
    /\ Len(d.rows) = Len(c.rows) /\ d.hasMore = c.hasMore
    /\ \A j \in 1 .. Len(c.rows) : d.rows[j].entry = c.rows[j].entry

LEMMA RelistedHolds ==
    ASSUME NEW c \in Models, NEW d \in Models, Relisted(c, d), RowsHold(c)
    PROVE  RowsHold(d)
  <1>1. c.rows \in Seq(Row) /\ d.rows \in Seq(Row)  BY DEF Models
  <1>2. Len(d.rows) = Len(c.rows) /\ Len(c.rows) \in Nat  BY <1>1 DEF Relisted
  <1>3. SUFFICES ASSUME d.rows # <<>> PROVE RowsHold(d)  BY DEF RowsHold
  <1>4. Len(c.rows) # 0 /\ c.rows # <<>>  BY <1>1, <1>2, <1>3
  <1>5. ASSUME NEW id PROVE Listed(d, id) <=> Listed(c, id)
    BY <1>2 DEF Relisted, Listed
  <1>6. ASSUME NEW i \in 1 .. Len(history) PROVE NoNewer(d, i) <=> NoNewer(c, i)
    BY <1>2, <1>4 DEF Relisted, NoNewer
  <1>7. d.hasMore = c.hasMore /\ \A j \in 1 .. Len(d.rows) : d.rows[j].entry = c.rows[j].entry
    BY <1>2 DEF Relisted
  <1>8. \A j \in 1 .. Len(d.rows) : d.rows[j].entry.id < nextId
    BY <1>2, <1>4, <1>7 DEF RowsHold
  <1>9. \A i \in 1 .. Len(history) : NoNewer(d, i) => i > Len(d.rows) \/ Listed(d, history[i].id)
    BY <1>2, <1>4, <1>5, <1>6 DEF RowsHold
  <1>10. ~d.hasMore => \A i \in 1 .. Len(history) : NoNewer(d, i) => Listed(d, history[i].id)
    BY <1>4, <1>5, <1>6, <1>7 DEF RowsHold
  <1>11. QED  BY <1>8, <1>9, <1>10 DEF RowsHold

\* Rows that learn something keep their entries.
LEMMA RowsLearn ==
    ASSUME NEW rows \in Seq(Row), NEW learnt,
           learnt = [i \in DOMAIN rows |-> learnt[i]],
           \A i \in DOMAIN rows : learnt[i] \in Row /\ learnt[i].entry = rows[i].entry
    PROVE  /\ learnt \in Seq(Row) /\ Len(learnt) = Len(rows)
           /\ \A j \in 1 .. Len(rows) : learnt[j].entry = rows[j].entry
  <1>1. PICK n \in Nat : n = Len(rows) /\ DOMAIN rows = 1 .. n  OBVIOUS
  <1>2. learnt \in [1 .. n -> Row]  BY <1>1
  <1>3. learnt \in Seq(Row) /\ Len(learnt) = n  BY <1>2, IsASeq
  <1>4. QED  BY <1>1, <1>3

\* What an answer about one entry may make of the screen.
Answering(c, d) == ScreenFits(d) /\ Relisted(c, d) /\ (ShowsItsOwn(c) => ShowsItsOwn(d))

LEMMA FreshFits == ScreenFits(Fresh) /\ ShowsItsOwn(Fresh) /\ Fresh.rows = <<>>
  <1>1. NoReport \in RestoreReport  BY DEF NoReport, RestoreReport, RestoreOutcomes
  <1>2. Fresh.rows \in Seq(Row) /\ Len(Fresh.rows) = 0 /\ Fresh.rows = <<>>  BY DEF Fresh
  <1>3. Fresh \in Models  BY <1>1, ConflictsConstants DEF Fresh, Models, ConflictsModes
  <1>4. ShowsItsOwn(Fresh)  BY DEF Fresh, ShowsItsOwn
  <1>5. Pointed(Fresh)  BY DEF Fresh, Pointed
  <1>6. QED  BY <1>2, <1>3, <1>4, <1>5, ConflictsConstants DEF ScreenFits

LEMMA AfterConfirmIs ==
    ASSUME NEW c \in Models, NEW id
    PROVE  /\ AfterConfirm(c, id) \in ConflictsModes
           /\ AfterConfirm(c, id) = "confirm" => c.mode = "confirm" /\ c.opened # id
           /\ AfterConfirm(c, id) = "detail" /\ c.mode # "detail" => c.mode = "confirm" /\ c.opened = id
           /\ AfterConfirm(c, id) \in {c.mode, "detail"}
  BY DEF Models, AfterConfirm, ConflictsModes

LEMMA FinishKeeps ==
    ASSUME NEW c, ScreenFits(c), NEW report \in RestoreReport, report.of = c.restoring
    PROVE  LET d == FinishRestore(c, report)
           IN /\ Answering(c, d) /\ d.link = c.link /\ d.stale = c.stale
              /\ d.restoreWanted = c.restoreWanted
  <1> DEFINE learns(row) ==
            IF report.outcome = "backup_missing" THEN [row EXCEPT !.backup = FALSE]
            ELSE IF c.keepingLocal /\ report.outcome = "held" THEN [row EXCEPT !.keepLocal = "held"]
            ELSE IF c.keepingLocal /\ report.outcome = "restored"
            THEN [row EXCEPT !.keepLocal = "waiting"] ELSE row
  <1>1. c \in Models /\ c.rows \in Seq(Row) /\ Len(c.rows) <= kMaxEntries /\ Pointed(c)
    BY DEF ScreenFits, Models
  <1>2. ASSUME NEW row \in Row PROVE learns(row) \in Row /\ learns(row).entry = row.entry
    <2>1. row \in [entry : Entry, backup : BOOLEAN, keepLocal : KeepLocalStates]  BY DEF Row
    <2>2. {"held", "waiting"} \subseteq KeepLocalStates  BY DEF KeepLocalStates
    <2>3. [row EXCEPT !.backup = FALSE] \in Row /\ [row EXCEPT !.backup = FALSE].entry = row.entry
      BY <2>1 DEF Row
    <2>4. ASSUME NEW k \in {"held", "waiting"}
          PROVE  [row EXCEPT !.keepLocal = k] \in Row /\ [row EXCEPT !.keepLocal = k].entry = row.entry
      BY <2>1, <2>2 DEF Row
    <2>5. QED  BY <2>3, <2>4
  <1>3. PICK learnt : learnt = [i \in DOMAIN c.rows |->
                          IF i \in FirstRow(c.rows, c.restoring) THEN learns(c.rows[i]) ELSE c.rows[i]]
    OBVIOUS
  <1>4. \A i \in DOMAIN c.rows : learnt[i] \in Row /\ learnt[i].entry = c.rows[i].entry
    <2>1. \A i \in DOMAIN c.rows : c.rows[i] \in Row  BY <1>1
    <2>2. ASSUME NEW i \in DOMAIN c.rows
          PROVE  learnt[i] \in Row /\ learnt[i].entry = c.rows[i].entry
      <3>1. learnt[i] = learns(c.rows[i]) \/ learnt[i] = c.rows[i]  BY <1>3
      <3>2. learns(c.rows[i]) \in Row /\ learns(c.rows[i]).entry = c.rows[i].entry  BY <1>2, <2>1
      <3> HIDE DEF learns
      <3>3. QED  BY <2>1, <3>1, <3>2
    <2>3. QED  BY <2>2
  <1>5. learnt = [i \in DOMAIN c.rows |-> learnt[i]]  BY <1>3
  <1>6. /\ learnt \in Seq(Row) /\ Len(learnt) = Len(c.rows)
        /\ \A j \in 1 .. Len(c.rows) : learnt[j].entry = c.rows[j].entry
    BY <1>1, <1>4, <1>5, RowsLearn
  <1>7. PICK mode \in ConflictsModes : mode = AfterConfirm(c, c.restoring)  BY <1>1, AfterConfirmIs
  <1>8. PICK shown \in BOOLEAN : shown = IF c.opened = c.restoring THEN TRUE ELSE c.restored
    BY <1>1 DEF Models
  <1>9. PICK last \in RestoreReport : last = IF c.opened = c.restoring THEN report ELSE c.lastRestore
    BY <1>1 DEF Models
  <1>10. PICK d : d = [c EXCEPT !.restoring = 0, !.keepingLocal = FALSE, !.awaiting = FALSE,
                                !.restored = shown, !.lastRestore = last, !.mode = mode,
                                !.rows = learnt]
    OBVIOUS
  <1>11. FinishRestore(c, report) = d
    BY <1>3, <1>7, <1>8, <1>9, <1>10 DEF FinishRestore
  <1>12. d \in Models  BY <1>1, <1>6, <1>10, ZenonT(60) DEF Models
  <1>13. /\ d.restored = shown /\ d.lastRestore = last /\ d.mode = mode
         /\ d.rows = learnt /\ d.selected = c.selected
         /\ d.opened = c.opened /\ d.hasMore = c.hasMore /\ d.link = c.link /\ d.stale = c.stale
         /\ d.restoreWanted = c.restoreWanted
    BY <1>1, <1>10 DEF Models
  <1>14. ScreenFits(d) /\ Relisted(c, d)  BY <1>1, <1>6, <1>12, <1>13 DEF ScreenFits, Pointed, Relisted
  <1>15. ASSUME ShowsItsOwn(c) PROVE ShowsItsOwn(d)
    <2>1. CASE c.opened = c.restoring
      <3>1. d.mode # "confirm" /\ d.lastRestore.of = d.opened
        BY <1>1, <1>7, <1>9, <1>13, <2>1, AfterConfirmIs
      <3>2. QED  BY <3>1 DEF ShowsItsOwn
    <2>2. CASE c.opened # c.restoring
      <3>1. d.mode = c.mode
        BY <1>7, <1>13, <2>2 DEF AfterConfirm
      <3>2. d.restored = c.restored /\ d.lastRestore = c.lastRestore
        BY <1>8, <1>9, <1>13, <2>2
      <3>3. QED  BY <1>13, <1>15, <3>1, <3>2 DEF ShowsItsOwn
    <2>3. QED  BY <2>1, <2>2
  <1>16. QED  BY <1>11, <1>13, <1>14, <1>15 DEF Answering

LEMMA LoseTrackKeeps ==
    ASSUME NEW c, ScreenFits(c)
    PROVE  LET d == LoseTrack(c)
           IN /\ Answering(c, d) /\ d.link = c.link /\ d.stale = c.stale
              /\ d.restoreWanted = c.restoreWanted
  <1>1. c \in Models /\ c.rows \in Seq(Row) /\ Len(c.rows) <= kMaxEntries /\ Pointed(c)
    BY DEF ScreenFits, Models
  <1>2. PICK mode \in ConflictsModes : mode = AfterConfirm(c, c.restoring)  BY <1>1, AfterConfirmIs
  <1>3. PICK d : d = [c EXCEPT !.lost = c.restoring, !.restoring = 0, !.awaiting = FALSE,
                               !.restored = FALSE, !.mode = mode]
    OBVIOUS
  <1>4. LoseTrack(c) = d  BY <1>2, <1>3 DEF LoseTrack
  <1>5. d \in Models  BY <1>1, <1>3 DEF Models
  <1>6. /\ d.restored = FALSE /\ d.rows = c.rows /\ d.selected = c.selected
        /\ d.hasMore = c.hasMore /\ d.link = c.link
        /\ d.stale = c.stale /\ d.restoreWanted = c.restoreWanted
    BY <1>1, <1>3 DEF Models
  <1>7. ScreenFits(d) /\ Relisted(c, d)  BY <1>1, <1>5, <1>6 DEF ScreenFits, Pointed, Relisted
  <1>8. QED  BY <1>4, <1>6, <1>7 DEF Answering, ShowsItsOwn

\* A restore that is over is reported for its entry.
Reports(state) == state \in Restores /\ (state.phase = "done" => state.report.of = state.entry)

LEMMA RestoreStateKeeps ==
    ASSUME NEW was, ScreenFits(was), NEW pressed \in BOOLEAN, NEW state, Reports(state), presses \in Nat
    PROVE  LET d == OnRestoreState(was, pressed, state)
           IN /\ Answering(was, d) /\ d.link = was.link /\ d.stale = was.stale
              /\ d.restoreWanted = 0
  <1>1. PICK c : c = [was EXCEPT !.restoreWanted = 0]  OBVIOUS
  <1>2. was \in Models /\ was.rows \in Seq(Row) /\ Len(was.rows) <= kMaxEntries /\ Pointed(was)
    BY DEF ScreenFits, Models
  <1>3. c \in Models  BY <1>1, <1>2 DEF Models
  <1>4. /\ c.rows = was.rows /\ c.selected = was.selected /\ c.hasMore = was.hasMore
        /\ c.link = was.link /\ c.stale = was.stale
        /\ c.restoreWanted = 0 /\ c.mode = was.mode /\ c.restored = was.restored
        /\ c.lastRestore = was.lastRestore /\ c.opened = was.opened
    BY <1>1, <1>2 DEF Models
  <1>5. ScreenFits(c) /\ (ShowsItsOwn(was) => ShowsItsOwn(c))
    BY <1>2, <1>3, <1>4 DEF ScreenFits, Pointed, ShowsItsOwn
  <1>6. ASSUME NEW d, Answering(c, d) PROVE Answering(was, d)
    BY <1>4, <1>5, <1>6 DEF Answering, Relisted
  <1>7. state \in Restores /\ state.report \in RestoreReport /\ state.entry \in Nat
    BY DEF Reports, Restores
  <1>8. PICK ongoing :
          ongoing = [c EXCEPT !.awaiting = TRUE, !.mode = AfterConfirm(c, c.restoring)]
    OBVIOUS
  <1>9. /\ Answering(c, ongoing) /\ ongoing.link = c.link /\ ongoing.stale = c.stale
        /\ ongoing.restoreWanted = 0
    <2>1. PICK mode \in ConflictsModes : mode = AfterConfirm(c, c.restoring)
      BY <1>3, AfterConfirmIs
    <2>2. ongoing = [c EXCEPT !.awaiting = TRUE, !.mode = mode]  BY <1>8, <2>1
    <2>3. ongoing \in Models  BY <1>3, <2>2 DEF Models
    <2>4. /\ ongoing.rows = c.rows /\ ongoing.selected = c.selected
          /\ ongoing.hasMore = c.hasMore /\ ongoing.link = c.link
          /\ ongoing.stale = c.stale /\ ongoing.restoreWanted = c.restoreWanted
          /\ ongoing.mode = mode /\ ongoing.restored = c.restored
          /\ ongoing.lastRestore = c.lastRestore /\ ongoing.opened = c.opened
      BY <1>3, <2>2 DEF Models
    <2>5. ScreenFits(ongoing) /\ Relisted(c, ongoing)
      BY <1>5, <2>3, <2>4 DEF ScreenFits, Pointed, Relisted
    <2>6. ASSUME ShowsItsOwn(c) PROVE ShowsItsOwn(ongoing)
      BY <1>3, <2>1, <2>4, <2>6, AfterConfirmIs DEF ShowsItsOwn
    <2>7. QED  BY <1>4, <2>4, <2>5, <2>6 DEF Answering
  <1>10. ASSUME state.entry = c.restoring, state.phase = "done"
         PROVE  LET d == FinishRestore(c, state.report)
                IN /\ Answering(c, d) /\ d.link = c.link /\ d.stale = c.stale /\ d.restoreWanted = 0
    BY <1>4, <1>5, <1>7, <1>10, FinishKeeps DEF Reports
  <1>11. LET d == FinishRestore(c, OwnReport("write_failed", c.restoring))
         IN /\ Answering(c, d) /\ d.link = c.link /\ d.stale = c.stale /\ d.restoreWanted = 0
    <2>1. PICK report : report = OwnReport("write_failed", c.restoring)  OBVIOUS
    <2>2. c.restoring \in Nat  BY <1>3 DEF Models
    <2>3. report \in RestoreReport /\ report.of = c.restoring
      BY <2>1, <2>2 DEF OwnReport, RestoreReport, RestoreOutcomes
    <2>4. QED  BY <1>4, <1>5, <2>1, <2>3, FinishKeeps
  <1>12. LET d == LoseTrack(c)
         IN /\ Answering(c, d) /\ d.link = c.link /\ d.stale = c.stale /\ d.restoreWanted = 0
    BY <1>4, <1>5, LoseTrackKeeps
  <1>13. PICK d : d = OnRestoreState(was, pressed, state)  OBVIOUS
  <1>14. \/ d = ongoing
         \/ /\ state.entry = c.restoring /\ state.phase = "done"
            /\ d = FinishRestore(c, state.report)
         \/ d = FinishRestore(c, OwnReport("write_failed", c.restoring))
         \/ d = LoseTrack(c)
    <2> QED  BY <1>1, <1>8, <1>13, Zenon DEF OnRestoreState
  <1>15. Answering(c, d) /\ d.link = c.link /\ d.stale = c.stale /\ d.restoreWanted = 0
    BY <1>9, <1>10, <1>11, <1>12, <1>14, Zenon
  <1>16. QED  BY <1>4, <1>6, <1>13, <1>15

\* A screen in the middle of a frame: the link is there and the list is current.
InFrame(c) == ScreenFits(c) /\ ShowsItsOwn(c) /\ c.link = "ok" /\ ~c.stale /\ RowsHold(c)

\* What a frame leaves.
Framed(d) ==
    /\ ScreenFits(d) /\ ShowsItsOwn(d) /\ d.restoreWanted = 0
    /\ LinkSays(d) /\ (~d.stale => RowsHold(d))

LEMMA InFrameIsFramed ==
    ASSUME NEW c, InFrame(c), NEW d, Answering(c, d), d.link = c.link, d.stale = c.stale,
           d.restoreWanted = 0
    PROVE  Framed(d)
  <1>1. c \in Models /\ d \in Models  BY DEF InFrame, Answering, ScreenFits
  <1>2. RowsHold(d)  BY <1>1, RelistedHolds DEF InFrame, Answering
  <1>3. QED  BY <1>2 DEF InFrame, Answering, Framed, LinkSays

LEMMA ResumedIs ==
    ASSUME ScreenTyped, ScreenInv
    PROVE  InFrame(Resumed) /\ (Resumed.restoreWanted # 0 => cm.restoreWanted # 0)
  <1>1. cm \in Models /\ Len(cm.rows) <= kMaxEntries /\ Pointed(cm)
    BY DEF ScreenTyped, ScreenFits
  <1>2. PICK r : r = Resumed  OBVIOUS
  <1>3. CASE cm.stale
    <2>1. r = Fresh  BY <1>2, <1>3 DEF Resumed, OnLinkRestored
    <2>2. r.link = "ok" /\ r.stale = FALSE /\ r.restoreWanted = 0  BY <2>1 DEF Fresh
    <2>3. RowsHold(r)  BY <2>1, FreshFits DEF RowsHold
    <2>4. QED  BY <1>2, <2>1, <2>2, <2>3, FreshFits DEF InFrame
  <1>4. CASE ~cm.stale
    <2>1. r = [cm EXCEPT !.link = "ok"]  BY <1>2, <1>4 DEF Resumed, OnLinkRestored
    <2>2. r \in Models  BY <1>1, <2>1 DEF Models
    <2>3. /\ r.rows = cm.rows /\ r.selected = cm.selected /\ r.hasMore = cm.hasMore
          /\ r.link = "ok" /\ r.stale = cm.stale
          /\ r.restoreWanted = cm.restoreWanted /\ r.mode = cm.mode /\ r.restored = cm.restored
          /\ r.lastRestore = cm.lastRestore /\ r.opened = cm.opened
      BY <1>1, <2>1 DEF Models
    <2>4. ScreenFits(r) /\ ShowsItsOwn(r)
      BY <1>1, <2>2, <2>3 DEF ScreenFits, Pointed, ScreenInv, ShowsItsOwn
    <2>5. Relisted(cm, r)  BY <2>3 DEF Relisted
    <2>6. RowsHold(r)  BY <1>1, <1>4, <2>2, <2>5, RelistedHolds DEF ScreenInv
    <2>7. QED  BY <1>2, <1>4, <2>3, <2>4, <2>6 DEF InFrame
  <1>5. QED  BY <1>3, <1>4

LEMMA SentIs ==
    ASSUME NEW r, InFrame(r)
    PROVE  InFrame(Handed(r)) /\ Handed(r).restoreWanted = r.restoreWanted
  <1>1. r \in Models /\ Len(r.rows) <= kMaxEntries /\ Pointed(r)  BY DEF InFrame, ScreenFits
  <1>2. CASE r.restoreWanted = 0
    BY <1>2 DEF Handed
  <1>3. CASE r.restoreWanted # 0
    <2>1. PICK s : s = [r EXCEPT !.restoring = r.restoreWanted, !.keepingLocal = r.keepLocalWanted]
      OBVIOUS
    <2>2. Handed(r) = s  BY <1>3, <2>1 DEF Handed
    <2>3. s \in Models  BY <1>1, <2>1 DEF Models
    <2>4. /\ s.rows = r.rows /\ s.selected = r.selected /\ s.hasMore = r.hasMore
          /\ s.link = r.link /\ s.stale = r.stale
          /\ s.restoreWanted = r.restoreWanted /\ s.mode = r.mode /\ s.restored = r.restored
          /\ s.lastRestore = r.lastRestore /\ s.opened = r.opened
      BY <1>1, <2>1 DEF Models
    <2>5. ScreenFits(s) /\ ShowsItsOwn(s)
      BY <1>1, <2>3, <2>4 DEF InFrame, ScreenFits, Pointed, ShowsItsOwn
    <2>6. RowsHold(s)  BY <1>1, <2>3, <2>4, RelistedHolds DEF InFrame, Relisted
    <2>7. QED  BY <2>2, <2>4, <2>5, <2>6 DEF InFrame
  <1>4. QED  BY <1>2, <1>3

LEMMA CommandIs ==
    ASSUME NEW c \in Models
    PROVE  /\ NextConflictCommand(c) \in {"restore", "cancel", "poll", "page", "none"}
           /\ NextConflictCommand(c) = "restore" <=> c.restoreWanted # 0
  <1>1. PICK k : k = NextConflictCommand(c)  OBVIOUS
  <1>2. CASE c.restoreWanted # 0
    <2>1. k = "restore"  BY <1>1, <1>2, Zenon DEF NextConflictCommand
    <2>2. QED  BY <1>1, <1>2, <2>1
  <1>3. CASE c.restoreWanted = 0
    <2>1. k = "cancel" \/ k = "poll" \/ k = "page" \/ k = "none"
      BY <1>1, <1>3, Zenon DEF NextConflictCommand
    <2>2. QED  BY <1>1, <1>3, <2>1
  <1>4. QED  BY <1>2, <1>3

\* A page is the rows after an offset, and says truly that they are the last.
PageFollows(offset, page) ==
    /\ page.entries \in Seq(Row) /\ page.hasMore \in BOOLEAN
    /\ Len(page.entries) = 0 => page.entries = <<>> /\ Len(history) <= offset
    /\ Len(page.entries) # 0 =>
         /\ offset + Len(page.entries) <= Len(history)
         /\ page.hasMore \/ offset + Len(page.entries) = Len(history)
    /\ \A i \in 1 .. Len(page.entries) : page.entries[i].entry = history[offset + i]

LEMMA PageIs ==
    ASSUME StoreTyped, NEW offset \in Nat, NEW fits \in 1 .. kMaxConflictPage
    PROVE  PageFollows(offset, BuildConflictPage(offset, fits))
  <1>1. PICK h \in Nat : h = Len(history) /\ DOMAIN history = 1 .. h  BY DEF StoreTyped
  <1>2. PICK f \in Nat : f = fits /\ f # 0  BY ConflictsConstants
  <1>3. PICK last \in Nat : last = IF offset + f < h THEN offset + f ELSE h  OBVIOUS
  <1>4. PICK size \in Nat : size = IF last > offset THEN last - offset ELSE 0
    <2>1. CASE last > offset
      <3>1. last - offset \in Nat  BY <2>1
      <3>2. QED  BY <2>1, <3>1
    <2>2. CASE ~(last > offset)  BY <2>2
    <2>3. QED  BY <2>1, <2>2
  <1>5. PICK page : page = BuildConflictPage(offset, fits)  OBVIOUS
  <1>6. PICK entries : entries = [i \in 1 .. size |->
            [entry |-> history[offset + i], backup |-> history[offset + i].id \in backups,
             keepLocal |-> KeepLocalOf(history[offset + i])]]
    OBVIOUS
  <1>7. page = [entries |-> entries, hasMore |-> last < h]
    BY <1>1, <1>2, <1>3, <1>4, <1>5, <1>6 DEF BuildConflictPage
  <1>8. ASSUME NEW i \in 1 .. size
        PROVE  entries[i] \in Row /\ entries[i].entry = history[offset + i]
    <2>1. offset + i \in 1 .. h  BY <1>3, <1>4
    <2>2. PICK e \in Entry : e = history[offset + i]
      BY <1>1, <2>1, ElementOfSeq DEF StoreTyped
    <2>3. PICK state \in KeepLocalStates : state = KeepLocalOf(e)
      BY DEF KeepLocalOf, KeepLocalStates
    <2>4. (e.id \in backups) \in BOOLEAN  OBVIOUS
    <2>5. entries[i] = [entry |-> e, backup |-> (e.id \in backups), keepLocal |-> state]
      BY <1>6, <2>2, <2>3
    <2>6. QED  BY <2>2, <2>3, <2>4, <2>5 DEF Row
  <1>9. entries \in Seq(Row) /\ Len(entries) = size
    <2>1. PICK g : g = [i \in 1 .. size |-> entries[i]]  OBVIOUS
    <2>2. g = entries  BY <1>6, <2>1
    <2>3. g \in [1 .. size -> Row]  BY <1>8, <2>1
    <2>4. QED  BY <2>2, <2>3, IsASeq
  <1>10. page.entries = entries /\ (page.hasMore <=> last < h)  BY <1>7
  <1>11. page.hasMore \in BOOLEAN  BY <1>7
  <1>12. size = 0 => entries = <<>>  BY <1>9
  <1>13. size = 0 => h <= offset
    BY <1>2, <1>3, <1>4
  <1>14. size # 0 => offset + size <= h
    BY <1>2, <1>3, <1>4
  <1>15. size # 0 => last < h \/ offset + size = h
    <2>1. SUFFICES ASSUME size # 0, ~(last < h) PROVE offset + size = h  OBVIOUS
    <2>2. last > offset /\ size = last - offset  BY <1>4, <2>1
    <2>3. last = h  BY <1>1, <1>2, <1>3, <2>1
    <2>4. QED  BY <1>3, <2>2, <2>3
  <1>16. \A i \in 1 .. size : page.entries[i].entry = history[offset + i]
    BY <1>8, <1>10
  <1>17. QED
    BY <1>1, <1>5, <1>9, <1>10, <1>11, <1>12, <1>13, <1>14, <1>15, <1>16 DEF PageFollows

LEMMA PrefixIs ==
    ASSUME NEW S, NEW s \in Seq(S), NEW k \in Nat, k <= Len(s)
    PROVE  /\ SubSeq(s, 1, k) \in Seq(S) /\ Len(SubSeq(s, 1, k)) = k
           /\ \A i \in 1 .. k : SubSeq(s, 1, k)[i] = s[i]
  <1>1. \A i \in 1 .. k : s[i] \in S  BY ElementOfSeq
  <1>2. /\ SubSeq(s, 1, k) \in Seq(S)
        /\ Len(SubSeq(s, 1, k)) = IF 1 <= k THEN k - 1 + 1 ELSE 0
        /\ \A i \in 1 .. k - 1 + 1 : SubSeq(s, 1, k)[i] = s[1 + i - 1]
    BY <1>1, SubSeqProperties
  <1>3. (IF 1 <= k THEN k - 1 + 1 ELSE 0) = k /\ k - 1 + 1 = k  OBVIOUS
  <1>4. ASSUME NEW i \in 1 .. k PROVE 1 + i - 1 = i  OBVIOUS
  <1>5. QED  BY <1>2, <1>3, <1>4

\* What a page that is not empty makes of a list.
Lengthened(c, page, d) ==
    /\ d \in Models /\ d.rows = c.rows \o page.entries
    /\ d.hasMore => page.hasMore /\ Len(d.rows) < kMaxEntries
    /\ ~d.hasMore => ~page.hasMore \/ ~(Len(d.rows) < kMaxEntries)

\* The rows a page adds are the next of the history, whatever came in meanwhile.
LEMMA RowsAdded ==
    ASSUME StoreTyped, IdsRise, NEW c, ScreenFits(c), RowsHold(c),
           NEW page, PageFollows(Len(c.rows), page), page.entries # <<>>,
           NEW d, Lengthened(c, page, d)
    PROVE  RowsHold(d)
  <1>1. c.rows \in Seq(Row) /\ page.entries \in Seq(Row) /\ history \in Seq(Entry)
    BY DEF ScreenFits, Models, PageFollows, StoreTyped
  <1>2. PICK n \in Nat, size \in Nat, h \in Nat :
          n = Len(c.rows) /\ size = Len(page.entries) /\ h = Len(history)
    BY <1>1
  <1>0. n \in Nat /\ size \in Nat /\ h \in Nat  BY <1>2
  <1>3. size # 0 /\ n + size <= h /\ (page.hasMore \/ n + size = h)
    BY <1>1, <1>2 DEF PageFollows
  <1>4. Len(d.rows) = n + size
    <2>1. Len(c.rows \o page.entries) = Len(c.rows) + Len(page.entries)  BY <1>1, ConcatProperties
    <2>2. QED  BY <1>2, <2>1 DEF Lengthened
  <1>5. h <= kMaxEntries  BY <1>2 DEF StoreTyped
  <1>6. ASSUME NEW j \in 1 .. n PROVE d.rows[j] = c.rows[j]
    <2>0. j \in 1 .. n + size /\ j <= n  BY <1>0, <1>6
    <2>1. j \in 1 .. Len(c.rows) + Len(page.entries) /\ j <= Len(c.rows)  BY <1>2, <2>0
    <2>2. (c.rows \o page.entries)[j] = c.rows[j]  BY <1>1, <2>1, ConcatProperties
    <2>3. QED  BY <2>2 DEF Lengthened
  <1>7. ASSUME NEW j \in n + 1 .. n + size PROVE d.rows[j].entry = history[j]
    <2>1. j - n \in 1 .. size /\ n + (j - n) = j  BY <1>0, <1>7
    <2>2. d.rows[j] = page.entries[j - n]
      <3>1. j > n /\ j \in 1 .. n + size  BY <1>0, <1>7
      <3>2. j \in 1 .. Len(c.rows) + Len(page.entries) /\ j > Len(c.rows)  BY <1>2, <3>1
      <3>3. (c.rows \o page.entries)[j] = page.entries[j - Len(c.rows)]
        BY <1>1, <3>2, ConcatProperties
      <3>4. QED  BY <1>2, <3>3 DEF Lengthened
    <2>3. page.entries[j - n].entry = history[n + (j - n)]
      BY <1>2, <2>1 DEF PageFollows
    <2>4. QED  BY <2>1, <2>2, <2>3
  <1>8. ASSUME NEW j \in 1 .. Len(d.rows) PROVE d.rows[j].entry.id < nextId
    <2>1. CASE j \in 1 .. n
      BY <1>2, <1>6, <2>1 DEF RowsHold
    <2>2. CASE j \in n + 1 .. n + size
      <3>1. j \in 1 .. h  BY <1>0, <1>3, <2>2
      <3>2. history[j].id < nextId  BY <1>2, <3>1 DEF IdsRise
      <3>3. QED  BY <1>7, <2>2, <3>2
    <2>3. j \in 1 .. n \/ j \in n + 1 .. n + size  BY <1>0, <1>4
    <2>4. QED  BY <2>1, <2>2, <2>3
  <1>9. ASSUME NEW i \in 1 .. h, NoNewer(d, i), i <= n + size
        PROVE  Listed(d, history[i].id)
    <2>1. CASE i \in n + 1 .. n + size
      <3>1. i \in 1 .. Len(d.rows)  BY <1>0, <1>4, <2>1
      <3>2. d.rows[i].entry.id = history[i].id  BY <1>7, <2>1
      <3>3. QED  BY <3>1, <3>2 DEF Listed
    <2>2. CASE i \in 1 .. n
      <3>0. 1 \in 1 .. n /\ n # 0 /\ ~(i > n)  BY <1>0, <2>2
      <3>1. d.rows[1] = c.rows[1]  BY <1>6, <3>0
      <3>2. NoNewer(c, i)  BY <1>9, <3>1 DEF NoNewer
      <3>3. c.rows # <<>> /\ ~(i > Len(c.rows))  BY <1>1, <1>2, <3>0
      <3>4. Listed(c, history[i].id)  BY <1>2, <3>2, <3>3 DEF RowsHold
      <3>5. PICK j \in 1 .. n : c.rows[j].entry.id = history[i].id  BY <1>2, <3>4 DEF Listed
      <3>6. j \in 1 .. Len(d.rows)  BY <1>0, <1>4, <3>5
      <3>7. d.rows[j].entry.id = history[i].id  BY <1>6, <3>5
      <3>8. QED  BY <3>6, <3>7 DEF Listed
    <2>3. i \in 1 .. n \/ i \in n + 1 .. n + size  BY <1>0, <1>9
    <2>4. QED  BY <2>1, <2>2, <2>3
  <1>10. ~d.hasMore => n + size = h
    <2>1. SUFFICES ASSUME ~d.hasMore PROVE n + size = h  OBVIOUS
    <2>2. ~page.hasMore \/ ~(n + size < kMaxEntries)
      BY <1>4, <2>1 DEF Lengthened
    <2>3. CASE ~page.hasMore  BY <1>3, <2>3
    <2>4. CASE ~(n + size < kMaxEntries)
      BY <1>0, <1>3, <1>5, <2>4, ConflictsConstants
    <2>5. QED  BY <2>2, <2>3, <2>4
  <1>11. \A i \in 1 .. Len(history) :
           NoNewer(d, i) => i > Len(d.rows) \/ Listed(d, history[i].id)
    <2>1. ASSUME NEW i \in 1 .. h, NoNewer(d, i), ~(i > Len(d.rows))
          PROVE  Listed(d, history[i].id)
      <3>1. i <= n + size  BY <1>0, <1>4, <2>1
      <3>2. QED  BY <1>9, <2>1, <3>1
    <2>2. QED  BY <1>2, <2>1
  <1>12. ~d.hasMore => \A i \in 1 .. Len(history) : NoNewer(d, i) => Listed(d, history[i].id)
    <2>1. ASSUME ~d.hasMore, NEW i \in 1 .. h, NoNewer(d, i) PROVE Listed(d, history[i].id)
      <3>1. i <= n + size  BY <1>0, <1>10, <2>1
      <3>2. QED  BY <1>9, <2>1, <3>1
    <2>2. QED  BY <1>2, <2>1
  <1>13. QED  BY <1>8, <1>11, <1>12 DEF RowsHold

LEMMA HistoryPageKeeps ==
    ASSUME StoreTyped, IdsRise, NEW c, InFrame(c), c.restoreWanted = 0,
           NEW page, PageFollows(Len(c.rows), page)
    PROVE  Framed(OnHistoryPage(c, page))
  <1>1. c \in Models /\ c.rows \in Seq(Row) /\ Len(c.rows) <= kMaxEntries /\ Pointed(c)
    BY DEF InFrame, ScreenFits, Models
  <1>2. page.entries \in Seq(Row) /\ page.hasMore \in BOOLEAN  BY DEF PageFollows
  <1>3. PICK d : d = OnHistoryPage(c, page)  OBVIOUS
  <1>4. CASE page.entries = <<>>
    <2>1. d = [c EXCEPT !.hasMore = FALSE]  BY <1>3, <1>4 DEF OnHistoryPage
    <2>2. d \in Models  BY <1>1, <2>1, ZenonT(30) DEF Models
    <2>3. /\ d.rows = c.rows /\ d.selected = c.selected /\ d.hasMore = FALSE /\ d.link = c.link
          /\ d.stale = c.stale
          /\ d.restoreWanted = c.restoreWanted /\ d.mode = c.mode /\ d.restored = c.restored
          /\ d.lastRestore = c.lastRestore /\ d.opened = c.opened
      BY <1>1, <2>1 DEF Models
    <2>4. ScreenFits(d) /\ ShowsItsOwn(d)
      BY <1>1, <2>2, <2>3 DEF InFrame, ScreenFits, Pointed, ShowsItsOwn
    <2>5. RowsHold(c)  BY DEF InFrame
    <2>6. PICK n \in Nat : n = Len(c.rows)  BY <1>1
    <2>7. PICK h \in Nat : h = Len(history)  BY DEF StoreTyped
    <2>8. h <= n
      <3>1. Len(page.entries) = 0  BY <1>4
      <3>2. QED  BY <2>6, <2>7, <3>1 DEF PageFollows
    <2>9. ASSUME NEW i \in 1 .. h, NoNewer(d, i), d.rows # <<>> PROVE Listed(d, history[i].id)
      <3>1. ~(i > Len(c.rows)) /\ NoNewer(c, i) /\ c.rows # <<>>
        BY <2>3, <2>6, <2>7, <2>8, <2>9 DEF NoNewer
      <3>2. Listed(c, history[i].id)  BY <2>5, <2>7, <3>1 DEF RowsHold
      <3>3. QED  BY <2>3, <3>2 DEF Listed
    <2>10. d.rows # <<>> => \A j \in 1 .. Len(d.rows) : d.rows[j].entry.id < nextId
      BY <2>3, <2>5 DEF RowsHold
    <2>11. RowsHold(d)  BY <2>7, <2>9, <2>10 DEF RowsHold
    <2>12. QED  BY <1>3, <2>3, <2>4, <2>11 DEF InFrame, Framed, LinkSays
  <1>5. CASE page.entries # <<>>
    <2>1. PICK rows : rows = c.rows \o page.entries  OBVIOUS
    <2>2. rows \in Seq(Row) /\ Len(rows) = Len(c.rows) + Len(page.entries)
      BY <1>1, <1>2, <2>1, ConcatProperties
    <2>3. PICK n \in Nat, size \in Nat : n = Len(c.rows) /\ size = Len(page.entries)
      BY <1>1, <1>2
    <2>4. PICK m \in Nat : m = Len(rows) /\ m = n + size
      <3>0. n \in Nat /\ size \in Nat  BY <2>3
      <3>1. n + size \in Nat  BY <3>0
      <3>2. Len(rows) = n + size  BY <2>2, <2>3
      <3>3. QED  BY <3>1, <3>2
    <2>5. m <= kMaxEntries
      <3>1. size # 0  BY <1>2, <1>5, <2>3
      <3>2. n + size <= Len(history)  BY <2>3, <3>1 DEF PageFollows
      <3>3. Len(history) <= kMaxEntries /\ Len(history) \in Nat  BY DEF StoreTyped
      <3>4. QED  BY <2>4, <3>2, <3>3, ConflictsConstants
    <2>6. (IF m < kMaxEntries THEN m ELSE kMaxEntries) = m
      BY <2>5, ConflictsConstants
    <2>7. SubSeq(rows, 1, m) = rows
      <3>1. PICK s : s = SubSeq(rows, 1, m)  OBVIOUS
      <3>2. m <= Len(rows)  BY <2>4
      <3>3. s \in Seq(Row) /\ Len(s) = m /\ \A i \in 1 .. m : s[i] = rows[i]
        BY <2>2, <3>1, <3>2, PrefixIs
      <3>4. Len(s) = Len(rows) /\ \A i \in 1 .. Len(s) : s[i] = rows[i]
        BY <2>4, <3>3
      <3>5. QED  BY <2>2, <3>1, <3>3, <3>4, SeqEqual
    <2>8. (page.hasMore /\ Len(rows) < kMaxEntries) \in BOOLEAN  OBVIOUS
    <2>9. d = [c EXCEPT !.rows = rows, !.hasMore = (page.hasMore /\ Len(rows) < kMaxEntries)]
      BY <1>3, <1>5, <2>1, <2>4, <2>6, <2>7 DEF OnHistoryPage
    <2>10. d \in Models
      <3>1. PICK more \in BOOLEAN : more = (page.hasMore /\ Len(rows) < kMaxEntries)  BY <2>8
      <3>2. d = [c EXCEPT !.rows = rows, !.hasMore = more]  BY <2>9, <3>1, Zenon
      <3>3. QED  BY <1>1, <2>2, <3>2 DEF Models
    <2>11. /\ d.rows = rows /\ d.selected = c.selected /\ d.link = c.link /\ d.stale = c.stale
           /\ d.restoreWanted = c.restoreWanted /\ d.mode = c.mode /\ d.restored = c.restored
           /\ d.lastRestore = c.lastRestore /\ d.opened = c.opened
      BY <1>1, <2>9 DEF Models
    <2>12. Lengthened(c, page, d)
      <3>1. d.hasMore <=> page.hasMore /\ Len(rows) < kMaxEntries  BY <1>1, <2>9 DEF Models
      <3>2. QED  BY <2>1, <2>10, <2>11, <3>1, Zenon DEF Lengthened
    <2>13. RowsHold(d)
      BY <1>5, <2>12, RowsAdded DEF InFrame
    <2>14. ScreenFits(d) /\ ShowsItsOwn(d)
      <3>1. Pointed(d)
        <4>1. d.selected = c.selected /\ d.rows = rows  BY <2>11
        <4>2. CASE c.selected = 1  BY <4>1, <4>2 DEF Pointed
        <4>3. CASE c.selected \in 1 .. n
          <5>1. c.selected \in 1 .. m
            <6>1. n <= m /\ n \in Nat
              <7>1. n \in Nat /\ size \in Nat  BY <2>3
              <7>2. QED  BY <2>4, <7>1
            <6>2. QED  BY <2>4, <4>3, <6>1
          <5>2. QED  BY <2>4, <4>1, <5>1 DEF Pointed
        <4>4. QED  BY <1>1, <2>3, <4>2, <4>3 DEF Pointed
      <3>2. ScreenFits(d)  BY <2>4, <2>5, <2>10, <2>11, <3>1 DEF ScreenFits
      <3>3. QED  BY <2>11, <3>2 DEF InFrame, ShowsItsOwn
    <2>15. QED  BY <1>3, <2>11, <2>13, <2>14 DEF InFrame, Framed, LinkSays
  <1>6. QED  BY <1>4, <1>5

LEMMA CancelKeeps ==
    ASSUME NEW c, InFrame(c), c.restoreWanted = 0,
           NEW reply, reply.keepLocal \in KeepLocalStates
    PROVE  Framed(OnCancelKeepLocal(c, reply))
  <1>1. c \in Models /\ c.rows \in Seq(Row) /\ Len(c.rows) <= kMaxEntries /\ Pointed(c)
    BY DEF InFrame, ScreenFits, Models
  <1>2. PICK learnt : learnt = [i \in DOMAIN c.rows |->
                          IF i \in FirstRow(c.rows, c.cancelWanted)
                          THEN [c.rows[i] EXCEPT !.keepLocal = reply.keepLocal] ELSE c.rows[i]]
    OBVIOUS
  <1>3. ASSUME NEW row \in Row
        PROVE  /\ [row EXCEPT !.keepLocal = reply.keepLocal] \in Row
               /\ [row EXCEPT !.keepLocal = reply.keepLocal].entry = row.entry
    <2>1. row \in [entry : Entry, backup : BOOLEAN, keepLocal : KeepLocalStates]  BY DEF Row
    <2>2. QED  BY <2>1 DEF Row
  <1>4. \A i \in DOMAIN c.rows : learnt[i] \in Row /\ learnt[i].entry = c.rows[i].entry
    <2>1. \A i \in DOMAIN c.rows : c.rows[i] \in Row  BY <1>1
    <2>2. QED  BY <1>2, <1>3, <2>1
  <1>5. learnt = [i \in DOMAIN c.rows |-> learnt[i]]  BY <1>2
  <1>6. /\ learnt \in Seq(Row) /\ Len(learnt) = Len(c.rows)
        /\ \A j \in 1 .. Len(c.rows) : learnt[j].entry = c.rows[j].entry
    BY <1>1, <1>4, <1>5, RowsLearn
  <1>7. PICK d : d = [c EXCEPT !.cancelWanted = 0, !.cancelAnswered = c.cancelWanted, !.rows = learnt]
    OBVIOUS
  <1>8. OnCancelKeepLocal(c, reply) = d  BY <1>2, <1>7 DEF OnCancelKeepLocal
  <1>9. d \in Models  BY <1>1, <1>6, <1>7, ZenonT(30) DEF Models
  <1>10. /\ d.rows = learnt /\ d.selected = c.selected /\ d.hasMore = c.hasMore
         /\ d.link = c.link /\ d.stale = c.stale
         /\ d.restoreWanted = c.restoreWanted /\ d.mode = c.mode /\ d.restored = c.restored
         /\ d.lastRestore = c.lastRestore /\ d.opened = c.opened
    BY <1>1, <1>7 DEF Models
  <1>11. Answering(c, d)
    BY <1>1, <1>6, <1>9, <1>10 DEF Answering, ScreenFits, Pointed, Relisted, ShowsItsOwn
  <1>12. QED  BY <1>8, <1>10, <1>11, InFrameIsFramed

LEMMA RefusedKeeps ==
    ASSUME NEW c, InFrame(c), NEW kind \in {"restore", "cancel", "poll", "page"},
           kind = "restore" <=> c.restoreWanted # 0, presses \in Nat
    PROVE  Framed(OnRefused(c, kind))
  <1>1. c \in Models /\ Len(c.rows) <= kMaxEntries /\ Pointed(c)  BY DEF InFrame, ScreenFits
  <1>2. PICK d : d = OnRefused(c, kind)  OBVIOUS
  <1>3. CASE kind = "cancel"
    <2>1. d = [c EXCEPT !.cancelAnswered = c.cancelWanted, !.cancelWanted = 0]
      BY <1>2, <1>3 DEF OnRefused
    <2>2. d \in Models  BY <1>1, <2>1 DEF Models
    <2>3. /\ d.rows = c.rows /\ d.selected = c.selected /\ d.hasMore = c.hasMore
          /\ d.link = c.link /\ d.stale = c.stale
          /\ d.restoreWanted = c.restoreWanted /\ d.mode = c.mode /\ d.restored = c.restored
          /\ d.lastRestore = c.lastRestore /\ d.opened = c.opened
      BY <1>1, <2>1 DEF Models
    <2>4. Answering(c, d)
      BY <1>1, <2>2, <2>3 DEF Answering, ScreenFits, Pointed, Relisted, ShowsItsOwn
    <2>5. c.restoreWanted = 0  BY <1>3
    <2>6. QED  BY <1>2, <2>3, <2>4, <2>5, InFrameIsFramed
  <1>4. CASE kind = "page"
    <2>1. d = [c EXCEPT !.pageError = TRUE]  BY <1>2, <1>4 DEF OnRefused
    <2>2. d \in Models  BY <1>1, <2>1 DEF Models
    <2>3. /\ d.rows = c.rows /\ d.selected = c.selected /\ d.hasMore = c.hasMore
          /\ d.link = c.link /\ d.stale = c.stale
          /\ d.restoreWanted = c.restoreWanted /\ d.mode = c.mode /\ d.restored = c.restored
          /\ d.lastRestore = c.lastRestore /\ d.opened = c.opened
      BY <1>1, <2>1 DEF Models
    <2>4. Answering(c, d)
      BY <1>1, <2>2, <2>3 DEF Answering, ScreenFits, Pointed, Relisted, ShowsItsOwn
    <2>5. c.restoreWanted = 0  BY <1>4
    <2>6. QED  BY <1>2, <2>3, <2>4, <2>5, InFrameIsFramed
  <1>5. CASE kind \in {"restore", "poll"}
    <2>1. PICK e : e = [c EXCEPT !.restoreWanted = 0, !.keepLocalWanted = FALSE]  OBVIOUS
    <2>2. PICK report : report = OwnReport("write_failed", c.restoring)  OBVIOUS
    <2>3. d = FinishRestore(e, report)
      BY <1>2, <1>5, <2>1, <2>2 DEF OnRefused
    <2>4. e \in Models  BY <1>1, <2>1 DEF Models
    <2>5. /\ e.rows = c.rows /\ e.selected = c.selected /\ e.hasMore = c.hasMore
          /\ e.link = c.link /\ e.stale = c.stale
          /\ e.restoreWanted = 0 /\ e.mode = c.mode /\ e.restored = c.restored
          /\ e.lastRestore = c.lastRestore /\ e.opened = c.opened /\ e.restoring = c.restoring
      BY <1>1, <2>1 DEF Models
    <2>6. InFrame(e)
      <3>1. ScreenFits(e) /\ ShowsItsOwn(e)
        BY <1>1, <2>4, <2>5 DEF InFrame, ScreenFits, Pointed, ShowsItsOwn
      <3>2. RowsHold(e)  BY <1>1, <2>4, <2>5, RelistedHolds DEF InFrame, Relisted
      <3>3. QED  BY <2>5, <3>1, <3>2 DEF InFrame
    <2>7. report \in RestoreReport /\ report.of = e.restoring
      <3>1. c.restoring \in Nat  BY <1>1 DEF Models
      <3>2. QED  BY <2>2, <2>5, <3>1 DEF OwnReport, RestoreReport, RestoreOutcomes
    <2>8. ScreenFits(e)  BY <2>6 DEF InFrame
    <2>9. /\ Answering(e, d) /\ d.link = e.link /\ d.stale = e.stale
          /\ d.restoreWanted = e.restoreWanted
      BY <2>3, <2>7, <2>8, FinishKeeps
    <2>10. QED  BY <1>2, <2>5, <2>6, <2>9, InFrameIsFramed
  <1>6. QED  BY <1>3, <1>4, <1>5

LEMMA NotRespondingKeeps ==
    ASSUME NEW c, InFrame(c), NEW kind \in {"restore", "cancel", "poll", "page"},
           kind = "restore" <=> c.restoreWanted # 0
    PROVE  Framed(OnNotResponding(c, kind))
  <1>1. c \in Models /\ Len(c.rows) <= kMaxEntries /\ Pointed(c)  BY DEF InFrame, ScreenFits
  <1>2. PICK d : d = OnNotResponding(c, kind)  OBVIOUS
  <1>3. /\ d \in Models /\ d.rows = c.rows /\ d.selected = c.selected /\ d.hasMore = c.hasMore
        /\ d.link = "slow"
        /\ d.stale = c.stale /\ d.restoreWanted = 0 /\ d.mode = c.mode /\ d.restored = c.restored
        /\ d.lastRestore = c.lastRestore /\ d.opened = c.opened
    <2>1. CASE kind = "restore"
      <3>1. d = [c EXCEPT !.link = "slow", !.restoreWanted = 0, !.keepLocalWanted = FALSE,
                          !.awaiting = TRUE]
        BY <1>2, <2>1 DEF OnNotResponding
      <3>2. QED  BY <1>1, <3>1 DEF Models
    <2>2. CASE kind = "cancel"
      <3>1. d = [c EXCEPT !.link = "slow", !.cancelWanted = 0]
        BY <1>2, <2>2 DEF OnNotResponding
      <3>2. c.restoreWanted = 0  BY <2>2
      <3>3. QED  BY <1>1, <3>1, <3>2, ZenonT(30) DEF Models
    <2>3. CASE kind \in {"page", "poll"}
      <3>1. d = [c EXCEPT !.link = "slow"]  BY <1>2, <2>3 DEF OnNotResponding
      <3>2. c.restoreWanted = 0  BY <2>3
      <3>3. QED  BY <1>1, <3>1, <3>2, ZenonT(30) DEF Models
    <2>4. QED  BY <2>1, <2>2, <2>3
  <1>4. ScreenFits(d) /\ ShowsItsOwn(d)
    BY <1>1, <1>3 DEF InFrame, ScreenFits, Pointed, ShowsItsOwn
  <1>5. RowsHold(d)  BY <1>1, <1>3, RelistedHolds DEF InFrame, Relisted
  <1>6. QED  BY <1>2, <1>3, <1>4, <1>5 DEF InFrame, Framed, LinkSays

LEMMA UnreachableIs ==
    ASSUME NEW c, ScreenFits(c), ShowsItsOwn(c)
    PROVE  LET d == OnConflictsUnreachable(c)
           IN ScreenFits(d) /\ ShowsItsOwn(d) /\ d.link = "gone" /\ d.stale /\ d.restoreWanted = 0
  <1>1. c \in Models /\ Len(c.rows) <= kMaxEntries /\ Pointed(c)  BY DEF ScreenFits
  <1>2. PICK d : d = [c EXCEPT !.link = "gone", !.restoreWanted = 0, !.keepLocalWanted = FALSE,
                               !.restoring = 0, !.keepingLocal = FALSE, !.awaiting = FALSE,
                               !.cancelWanted = 0, !.stale = TRUE]
    OBVIOUS
  <1>3. d = OnConflictsUnreachable(c)  BY <1>2 DEF OnConflictsUnreachable
  <1>4. d \in Models  BY <1>1, <1>2 DEF Models
  <1>5. /\ d.rows = c.rows /\ d.selected = c.selected /\ d.link = "gone" /\ d.stale = TRUE
        /\ d.restoreWanted = 0
        /\ d.mode = c.mode /\ d.restored = c.restored
        /\ d.lastRestore = c.lastRestore /\ d.opened = c.opened
    BY <1>1, <1>2 DEF Models
  <1>6. ScreenFits(d) /\ ShowsItsOwn(d)
    BY <1>1, <1>4, <1>5 DEF ScreenFits, Pointed, ShowsItsOwn
  <1>7. QED  BY <1>3, <1>5, <1>6

\* What the sysmodule hands whoever asks.
LEMMA TakeRestoreIs ==
    ASSUME restore \in Restores, NEW id \in Nat, NEW keeps \in BOOLEAN, NEW press \in Nat
    PROVE  LET state == TakeRestore(id, keeps, press)
           IN /\ state \in Restores /\ state.phase = "running"
              /\ state.press \in {press, restore.press}
              /\ state = restore \/ (restore.phase # "running" /\ state.press = press)
  <1>1. NoReport \in RestoreReport  BY DEF NoReport, RestoreReport, RestoreOutcomes
  <1>2. CASE restore.phase = "running"
    BY <1>2 DEF TakeRestore
  <1>3. CASE restore.phase # "running"
    <2>1. PICK state : state = [phase |-> "running", entry |-> id, keeps |-> keeps,
                                press |-> press, report |-> NoReport]
      OBVIOUS
    <2>2. state = TakeRestore(id, keeps, press)  BY <1>3, <2>1 DEF TakeRestore
    <2>3. state \in Restores  BY <1>1, <2>1 DEF Restores, RestorePhases
    <2>4. QED  BY <1>3, <2>1, <2>2, <2>3
  <1>4. QED  BY <1>2, <1>3

LEMMA CancelsAnswer ==
    ASSUME NEW id
    PROVE  CancelKeepLocal(id).keepLocal \in KeepLocalStates
  <1>1. ASSUME NEW e PROVE KeepLocalOf(e) \in KeepLocalStates
    BY DEF KeepLocalOf, KeepLocalStates
  <1>2. "open" \in KeepLocalStates  BY DEF KeepLocalStates
  <1>3. CASE \A e \in Found(id) : ~CarriesChoice(e)
    BY <1>2, <1>3 DEF CancelKeepLocal
  <1>4. CASE ~\A e \in Found(id) : ~CarriesChoice(e)
    <2>1. PICK e : e = CHOOSE x \in Found(id) : TRUE  OBVIOUS
    <2>2. PICK was : was = KeepLocalOf(e)  OBVIOUS
    <2>3. CancelKeepLocal(id) =
            IF was = "held" THEN [outcome |-> "cancelled", keepLocal |-> "open"]
            ELSE [outcome |-> IF was = "open" THEN "not_held" ELSE "landed", keepLocal |-> was]
      BY <1>4, <2>1, <2>2 DEF CancelKeepLocal
    <2>4. was \in KeepLocalStates  BY <1>1, <2>2
    <2>5. QED  BY <1>2, <2>3, <2>4
  <1>5. QED  BY <1>3, <1>4

\* What a frame begins with.
FrameIsDue ==
    /\ InFrame(Sent) /\ Kind \in {"restore", "cancel", "poll", "page", "none"}
    /\ Kind = "restore" <=> Sent.restoreWanted # 0
    /\ Sent.restoring \in Nat /\ Sent.keepingLocal \in BOOLEAN /\ Sent.cancelWanted \in Nat
    /\ Sent.restoreWanted # 0 => cm.restoreWanted # 0
    /\ InFrame(Resumed) /\ (Kind = "none" => Resumed.restoreWanted = 0)

LEMMA AFrameIsDue ==
    ASSUME ScreenTyped, ScreenInv
    PROVE  FrameIsDue
  <1>1. PICK r : r = Resumed  OBVIOUS
  <1>2. InFrame(r) /\ (r.restoreWanted # 0 => cm.restoreWanted # 0)  BY <1>1, ResumedIs
  <1>3. r \in Models  BY <1>2 DEF InFrame, ScreenFits
  <1>4. Kind = NextConflictCommand(r)  BY <1>1 DEF Kind
  <1>5. PICK s : s = Handed(r)  OBVIOUS
  <1>6. Sent = s  BY <1>1, <1>5 DEF Sent
  <1>7. InFrame(s) /\ s.restoreWanted = r.restoreWanted  BY <1>2, <1>5, SentIs
  <1>8. s \in Models  BY <1>7 DEF InFrame, ScreenFits
  <1>9. s.restoring \in Nat /\ s.keepingLocal \in BOOLEAN /\ s.cancelWanted \in Nat
    BY <1>8 DEF Models
  <1>10. PICK k : k = Kind  OBVIOUS
  <1>11. k \in {"restore", "cancel", "poll", "page", "none"} /\ (k = "restore" <=> r.restoreWanted # 0)
    BY <1>3, <1>4, <1>10, CommandIs
  <1>12. k = "none" => r.restoreWanted = 0  BY <1>11
  <1>13. QED
    BY <1>1, <1>2, <1>6, <1>7, <1>9, <1>10, <1>11, <1>12 DEF FrameIsDue

\* Whatever a frame's command comes to, the screen it leaves is in order.
LEMMA AFrameKeeps ==
    ASSUME StoreTyped, IdsRise, ScreenTyped, ScreenInv, presses \in Nat, ConflictsFrame
    PROVE  \E d : d = cm' /\ Framed(d)
  <1>1. PICK s : s = Sent  OBVIOUS
  <1>2. PICK k : k = Kind  OBVIOUS
  <1>3. /\ InFrame(s) /\ k \in {"restore", "cancel", "poll", "page", "none"}
        /\ k = "restore" <=> s.restoreWanted # 0
        /\ s.restoring \in Nat /\ s.keepingLocal \in BOOLEAN /\ s.cancelWanted \in Nat
    BY <1>1, <1>2, AFrameIsDue DEF FrameIsDue
  <1>4. restore \in Restores /\ s \in Models /\ s.rows \in Seq(Row)
    BY <1>3 DEF ScreenTyped, InFrame, ScreenFits, Models
  <1>5. PICK d : d = cm'  OBVIOUS
  <1>6. CASE FrameAnswered
    <2>1. k # "none"  BY <1>2, <1>6 DEF FrameAnswered
    <2>2. PICK fits \in 1 .. kMaxConflictPage :
            d = CASE k = "restore" -> OnRestoreState(s, TRUE,
                                            TakeRestore(s.restoring, s.keepingLocal, presses))
                 [] k = "poll" -> OnRestoreState(s, FALSE, restore)
                 [] k = "cancel" -> OnCancelKeepLocal(s, CancelKeepLocal(s.cancelWanted))
                 [] k = "page" -> OnHistoryPage(s, BuildConflictPage(Len(s.rows), fits))
      BY <1>1, <1>2, <1>5, <1>6, Zenon DEF FrameAnswered
    <2>3. CASE k = "restore"
      <3>1. PICK state : state = TakeRestore(s.restoring, s.keepingLocal, presses)  OBVIOUS
      <3>2. state \in Restores /\ state.phase = "running"
        BY <1>3, <1>4, <3>1, TakeRestoreIs
      <3>3. Reports(state)  BY <3>2 DEF Reports
      <3>4. d = OnRestoreState(s, TRUE, state)  BY <2>2, <2>3, <3>1
      <3>5. ScreenFits(s)  BY <1>3 DEF InFrame
      <3>6. Answering(s, d) /\ d.link = s.link /\ d.stale = s.stale /\ d.restoreWanted = 0
        BY <3>3, <3>4, <3>5, RestoreStateKeeps
      <3>7. Framed(d)  BY <1>3, <3>6, InFrameIsFramed
      <3>8. QED  BY <1>5, <3>7
    <2>4. CASE k = "poll"
      <3>1. Reports(restore)  BY <1>4 DEF Reports, ScreenInv, ReportsItsEntry
      <3>2. d = OnRestoreState(s, FALSE, restore)  BY <2>2, <2>4
      <3>3. ScreenFits(s)  BY <1>3 DEF InFrame
      <3>4. Answering(s, d) /\ d.link = s.link /\ d.stale = s.stale /\ d.restoreWanted = 0
        BY <3>1, <3>2, <3>3, RestoreStateKeeps
      <3>5. Framed(d)  BY <1>3, <3>4, InFrameIsFramed
      <3>6. QED  BY <1>5, <3>5
    <2>5. CASE k = "cancel"
      <3>1. PICK answer : answer = CancelKeepLocal(s.cancelWanted)  OBVIOUS
      <3>2. answer.keepLocal \in KeepLocalStates  BY <3>1, CancelsAnswer
      <3>3. d = OnCancelKeepLocal(s, answer)  BY <2>2, <2>5, <3>1
      <3>4. s.restoreWanted = 0  BY <1>3, <2>5
      <3>5. Framed(d)  BY <1>3, <3>2, <3>3, <3>4, CancelKeeps
      <3>6. QED  BY <1>5, <3>5
    <2>6. CASE k = "page"
      <3>1. PICK page : page = BuildConflictPage(Len(s.rows), fits)  OBVIOUS
      <3>2. Len(s.rows) \in Nat  BY <1>4
      <3>3. PageFollows(Len(s.rows), page)  BY <3>1, <3>2, PageIs
      <3>4. d = OnHistoryPage(s, page)  BY <2>2, <2>6, <3>1
      <3>5. s.restoreWanted = 0  BY <1>3, <2>6
      <3>6. Framed(d)  BY <1>3, <3>3, <3>4, <3>5, HistoryPageKeeps
      <3>7. QED  BY <1>5, <3>6
    <2>7. QED  BY <1>3, <2>1, <2>3, <2>4, <2>5, <2>6
  <1>7. CASE FrameIdle
    <2>1. PICK r : r = Resumed  OBVIOUS
    <2>2. d = r /\ InFrame(r) /\ r.restoreWanted = 0
      BY <1>5, <1>7, <2>1, AFrameIsDue DEF FrameIdle, FrameIsDue
    <2>3. Framed(d)  BY <2>2 DEF InFrame, Framed, LinkSays
    <2>4. QED  BY <1>5, <2>3
  <1>8. CASE FrameRefused
    <2>1. d = OnRefused(s, k) /\ k # "none"  BY <1>1, <1>2, <1>5, <1>8 DEF FrameRefused
    <2>2. Framed(d)  BY <1>3, <2>1, RefusedKeeps
    <2>3. QED  BY <1>5, <2>2
  <1>9. CASE FrameLate \/ FrameUnsent
    <2>1. d = OnNotResponding(s, k) /\ k # "none"
      BY <1>1, <1>2, <1>5, <1>9 DEF FrameLate, FrameUnsent
    <2>2. Framed(d)  BY <1>3, <2>1, NotRespondingKeeps
    <2>3. QED  BY <1>5, <2>2
  <1>10. CASE FrameBreaks
    <2>1. d = OnConflictsUnreachable(s)  BY <1>1, <1>5, <1>10 DEF FrameBreaks
    <2>2. ScreenFits(s) /\ ShowsItsOwn(s)  BY <1>3 DEF InFrame
    <2>3. /\ ScreenFits(d) /\ ShowsItsOwn(d) /\ d.link = "gone" /\ d.stale /\ d.restoreWanted = 0
      BY <2>1, <2>2, UnreachableIs
    <2>4. Framed(d)  BY <2>3 DEF Framed, LinkSays
    <2>5. QED  BY <1>5, <2>4
  <1>11. QED  BY <1>6, <1>7, <1>8, <1>9, <1>10 DEF ConflictsFrame

\* A key of the player keeps the list as it is, and asks for at most one restore.
LEMMA AKeyKeeps ==
    ASSUME ScreenTyped, ScreenInv,
           MoveEntry \/ ActivateList \/ ActivateDetail \/ ActivateConfirm \/ BackKey
    PROVE  \E d : /\ d = cm' /\ ScreenFits(d) /\ ShowsItsOwn(d) /\ Relisted(cm, d)
                  /\ d.link = cm.link /\ d.stale = cm.stale
                  /\ \/ d.restoreWanted = cm.restoreWanted /\ presses' = presses
                     \/ /\ cm.restoreWanted = 0 /\ presses < MaxPresses /\ presses' = presses + 1
                        /\ ActivateConfirm
  <1>1. cm \in Models /\ Len(cm.rows) <= kMaxEntries /\ Pointed(cm)
    BY DEF ScreenTyped, ScreenFits
  <1>2. ShowsItsOwn(cm)  BY DEF ScreenInv
  <1>3. PICK d : d = cm'  OBVIOUS
  <1>4. ASSUME d \in Models, Pointed(d), d.rows = cm.rows, d.hasMore = cm.hasMore, d.link = cm.link,
               d.stale = cm.stale, ShowsItsOwn(d),
               \/ d.restoreWanted = cm.restoreWanted /\ presses' = presses
               \/ /\ cm.restoreWanted = 0 /\ presses < MaxPresses /\ presses' = presses + 1
                  /\ ActivateConfirm
        PROVE  \E w : /\ w = cm' /\ ScreenFits(w) /\ ShowsItsOwn(w) /\ Relisted(cm, w)
                      /\ w.link = cm.link /\ w.stale = cm.stale
                      /\ \/ w.restoreWanted = cm.restoreWanted /\ presses' = presses
                         \/ /\ cm.restoreWanted = 0 /\ presses < MaxPresses /\ presses' = presses + 1
                            /\ ActivateConfirm
    <2>1. ScreenFits(d) /\ Relisted(cm, d)  BY <1>1, <1>4 DEF ScreenFits, Relisted
    <2>2. QED  BY <1>3, <1>4, <2>1
  <1>5. CASE MoveEntry
    <2>0. presses' = presses  BY <1>5 DEF MoveEntry, conflictBounds
    <2>1. CASE \E by \in {-1, 1} :
                 LET to == IF cm.selected + by \in DOMAIN cm.rows THEN cm.selected + by
                           ELSE cm.selected
                 IN d = [cm EXCEPT !.selected = to,
                                   !.pageError = cm.pageError /\ to = cm.selected /\ by < 0]
      <3>1. PICK by \in {-1, 1} :
              LET to == IF cm.selected + by \in DOMAIN cm.rows THEN cm.selected + by
                        ELSE cm.selected
              IN d = [cm EXCEPT !.selected = to,
                                !.pageError = cm.pageError /\ to = cm.selected /\ by < 0]
        BY <2>1
      <3>2. PICK to : to = IF cm.selected + by \in DOMAIN cm.rows THEN cm.selected + by
                           ELSE cm.selected
        OBVIOUS
      <3>3. to \in 1 .. kMaxEntries + 1
        <4>1. cm.selected \in 1 .. kMaxEntries + 1 /\ cm.rows \in Seq(Row)  BY <1>1 DEF Models
        <4>2. DOMAIN cm.rows = 1 .. Len(cm.rows) /\ Len(cm.rows) \in Nat  BY <4>1
        <4>3. PICK n \in Nat : n = Len(cm.rows)  BY <4>2
        <4>4. DOMAIN cm.rows = 1 .. n /\ n <= kMaxEntries  BY <1>1, <4>2, <4>3
        <4>5. 1 .. n \subseteq 1 .. kMaxEntries + 1  BY <4>3, <4>4, ConflictsConstants
        <4>6. QED  BY <3>2, <4>1, <4>4, <4>5
      <3>4. (cm.pageError /\ to = cm.selected /\ by < 0) \in BOOLEAN  OBVIOUS
      <3>5. d = [cm EXCEPT !.selected = to, !.pageError = cm.pageError /\ to = cm.selected /\ by < 0]
        BY <3>1, <3>2
      <3>6. d \in Models  BY <1>1, <3>3, <3>4, <3>5 DEF Models
      <3>7. /\ d.rows = cm.rows /\ d.selected = to /\ d.hasMore = cm.hasMore
            /\ d.link = cm.link /\ d.stale = cm.stale
            /\ d.restoreWanted = cm.restoreWanted /\ d.mode = cm.mode /\ d.restored = cm.restored
            /\ d.lastRestore = cm.lastRestore /\ d.opened = cm.opened
        BY <1>1, <3>5 DEF Models
      <3>8. ShowsItsOwn(d)  BY <1>2, <3>7 DEF ShowsItsOwn
      <3>9. Pointed(d)
        <4>1. cm.rows \in Seq(Row)  BY <1>1 DEF Models
        <4>2. to \in DOMAIN cm.rows \/ to = cm.selected  BY <3>2
        <4>3. DOMAIN cm.rows = 1 .. Len(cm.rows)  BY <4>1
        <4>4. QED  BY <1>1, <3>7, <4>2, <4>3 DEF Pointed
      <3>10. QED  BY <1>4, <2>0, <3>6, <3>7, <3>8, <3>9
    <2>2. CASE \E to \in {cm.choice - 1, cm.choice + 1} \cap DOMAIN ConflictChoices :
                 d = [cm EXCEPT !.choice = to]
      <3>1. DOMAIN ConflictChoices = 1 .. 3  BY DEF ConflictChoices
      <3>2. PICK to \in 1 .. 3 : d = [cm EXCEPT !.choice = to]  BY <2>2, <3>1
      <3>3. d \in Models  BY <1>1, <3>2 DEF Models
      <3>4. /\ d.rows = cm.rows /\ d.selected = cm.selected /\ d.hasMore = cm.hasMore
            /\ d.link = cm.link /\ d.stale = cm.stale
            /\ d.restoreWanted = cm.restoreWanted /\ d.mode = cm.mode /\ d.restored = cm.restored
            /\ d.lastRestore = cm.lastRestore /\ d.opened = cm.opened
        BY <1>1, <3>2 DEF Models
      <3>5. ShowsItsOwn(d) /\ Pointed(d)  BY <1>1, <1>2, <3>4 DEF ShowsItsOwn, Pointed
      <3>6. QED  BY <1>4, <2>0, <3>3, <3>4, <3>5
    <2>3. QED  BY <1>3, <1>5, <2>1, <2>2, Zenon DEF MoveEntry
  <1>6. CASE ActivateList
    <2>0. presses' = presses /\ cm.mode = "list"  BY <1>6 DEF ActivateList, conflictBounds
    <2>1. CASE cm.rows = <<>>
      <3>1. d = [cm EXCEPT !.pageError = FALSE]  BY <1>3, <1>6, <2>1 DEF ActivateList
      <3>2. d \in Models  BY <1>1, <3>1 DEF Models
      <3>3. /\ d.rows = cm.rows /\ d.selected = cm.selected /\ d.hasMore = cm.hasMore
            /\ d.link = cm.link /\ d.stale = cm.stale
            /\ d.restoreWanted = cm.restoreWanted /\ d.mode = cm.mode /\ d.restored = cm.restored
            /\ d.lastRestore = cm.lastRestore /\ d.opened = cm.opened
        BY <1>1, <3>1 DEF Models
      <3>4. ShowsItsOwn(d) /\ Pointed(d)  BY <1>1, <1>2, <3>3 DEF ShowsItsOwn, Pointed
      <3>5. QED  BY <1>4, <2>0, <3>2, <3>3, <3>4
    <2>2. CASE cm.rows # <<>>
      <3>1. PICK id : id = cm.rows[cm.selected].entry.id  OBVIOUS
      <3>2. PICK lost : lost = IF cm.lost = id THEN cm.lost ELSE 0  OBVIOUS
      <3>3. lost \in Nat  BY <1>1, <3>2 DEF Models
      <3>4. d = [cm EXCEPT !.opened = id, !.restored = FALSE, !.cancelAnswered = 0,
                           !.lost = lost, !.mode = "detail"]
        BY <1>3, <1>6, <2>2, <3>1, <3>2 DEF ActivateList
      <3>5. id \in Nat
        <4>1. cm.rows \in Seq(Row)  BY <1>1 DEF Models
        <4>2. PICK n \in Nat : n = Len(cm.rows)  BY <4>1
        <4>3. n # 0  BY <2>2, <4>1, <4>2
        <4>4. cm.selected \in 1 .. n
          <5>1. 1 \in 1 .. n  BY <4>2, <4>3
          <5>2. QED  BY <1>1, <4>2, <5>1 DEF Pointed
        <4>5. PICK row \in Row : row = cm.rows[cm.selected]
          BY <4>1, <4>2, <4>4, ElementOfSeq
        <4>6. QED  BY <3>1, <4>5 DEF Row, Entry
      <3>6. d \in Models  BY <1>1, <3>3, <3>4, <3>5 DEF Models, ConflictsModes
      <3>7. /\ d.rows = cm.rows /\ d.selected = cm.selected /\ d.hasMore = cm.hasMore
            /\ d.link = cm.link /\ d.stale = cm.stale
            /\ d.restoreWanted = cm.restoreWanted /\ d.mode = "detail" /\ d.restored = FALSE
        BY <1>1, <3>4 DEF Models
      <3>8. ShowsItsOwn(d) /\ Pointed(d)  BY <1>1, <3>7 DEF ShowsItsOwn, Pointed
      <3>9. QED  BY <1>4, <2>0, <3>6, <3>7, <3>8
    <2>3. QED  BY <2>1, <2>2
  <1>7. CASE ActivateDetail
    <2>0. presses' = presses /\ cm.mode = "detail"  BY <1>7 DEF ActivateDetail, conflictBounds
    <2>1. CASE d = [cm EXCEPT !.cancelWanted = cm.opened, !.restored = FALSE, !.lost = 0,
                              !.cancelAnswered = 0]
      <3>1. d \in Models  BY <1>1, <2>1 DEF Models
      <3>2. /\ d.rows = cm.rows /\ d.selected = cm.selected /\ d.hasMore = cm.hasMore
            /\ d.link = cm.link /\ d.stale = cm.stale
            /\ d.restoreWanted = cm.restoreWanted /\ d.mode = cm.mode /\ d.restored = FALSE
        BY <1>1, <2>1 DEF Models
      <3>3. ShowsItsOwn(d) /\ Pointed(d)  BY <1>1, <3>2 DEF ShowsItsOwn, Pointed
      <3>4. QED  BY <1>4, <2>0, <3>1, <3>2, <3>3
    <2>2. CASE d = [cm EXCEPT !.restored = FALSE, !.lost = 0, !.cancelAnswered = 0,
                              !.choice = 1, !.mode = "confirm"]
      <3>0. "confirm" \in ConflictsModes /\ 1 \in 1 .. 3  BY DEF ConflictsModes
      <3>1. d \in Models  BY <1>1, <2>2, <3>0 DEF Models
      <3>2. /\ d.rows = cm.rows /\ d.selected = cm.selected /\ d.hasMore = cm.hasMore
            /\ d.link = cm.link /\ d.stale = cm.stale
            /\ d.restoreWanted = cm.restoreWanted /\ d.mode = "confirm" /\ d.restored = FALSE
        BY <1>1, <2>2 DEF Models
      <3>3. ShowsItsOwn(d) /\ Pointed(d)  BY <1>1, <3>2 DEF ShowsItsOwn, Pointed
      <3>4. QED  BY <1>4, <2>0, <3>1, <3>2, <3>3
    <2>3. QED  BY <1>3, <1>7, <2>1, <2>2, Zenon DEF ActivateDetail
  <1>8. CASE ActivateConfirm
    <2>0. cm.mode = "confirm" /\ presses < MaxPresses  BY <1>8 DEF ActivateConfirm
    <2>1. CASE d = [cm EXCEPT !.mode = "detail"] /\ presses' = presses
      <3>1. d \in Models  BY <1>1, <2>1 DEF Models, ConflictsModes
      <3>2. /\ d.rows = cm.rows /\ d.selected = cm.selected /\ d.hasMore = cm.hasMore
            /\ d.link = cm.link /\ d.stale = cm.stale
            /\ d.restoreWanted = cm.restoreWanted /\ d.mode = "detail" /\ d.restored = cm.restored
        BY <1>1, <2>1 DEF Models
      <3>3. ShowsItsOwn(d) /\ Pointed(d)  BY <1>1, <1>2, <2>0, <3>2 DEF ShowsItsOwn, Pointed
      <3>4. QED  BY <1>4, <2>1, <3>1, <3>2, <3>3
    <2>2. CASE d = [cm EXCEPT !.mode = "list", !.opened = 0] /\ presses' = presses
      <3>1. d \in Models  BY <1>1, <2>2 DEF Models, ConflictsModes
      <3>2. /\ d.rows = cm.rows /\ d.selected = cm.selected /\ d.hasMore = cm.hasMore
            /\ d.link = cm.link /\ d.stale = cm.stale
            /\ d.restoreWanted = cm.restoreWanted /\ d.mode = "list"
        BY <1>1, <2>2 DEF Models
      <3>3. ShowsItsOwn(d) /\ Pointed(d)  BY <1>1, <3>2 DEF ShowsItsOwn, Pointed
      <3>4. QED  BY <1>4, <2>2, <3>1, <3>2, <3>3
    <2>3. CASE /\ cm.restoreWanted = 0 /\ presses' = presses + 1
               /\ d = [cm EXCEPT !.restoreWanted = cm.opened,
                                 !.keepLocalWanted = (CurrentRow.entry.event = "conflict")]
      <3>1. (CurrentRow.entry.event = "conflict") \in BOOLEAN  OBVIOUS
      <3>2. d \in Models
        <4>1. PICK keep \in BOOLEAN : keep = (CurrentRow.entry.event = "conflict")  BY <3>1
        <4>2. PICK row : row = cm.opened  OBVIOUS
        <4>3. d = [cm EXCEPT !.restoreWanted = row, !.keepLocalWanted = keep]  BY <2>3, <4>1, <4>2, Zenon
        <4>4. row \in Nat  BY <1>1, <4>2 DEF Models
        <4>5. QED  BY <1>1, <4>3, <4>4 DEF Models
      <3>3. /\ d.rows = cm.rows /\ d.selected = cm.selected /\ d.hasMore = cm.hasMore
            /\ d.link = cm.link /\ d.stale = cm.stale
            /\ d.mode = cm.mode /\ d.restored = cm.restored
            /\ d.lastRestore = cm.lastRestore /\ d.opened = cm.opened
        BY <1>1, <2>3 DEF Models
      <3>4. ShowsItsOwn(d) /\ Pointed(d)  BY <1>1, <1>2, <3>3 DEF ShowsItsOwn, Pointed
      <3>5. QED  BY <1>4, <1>8, <2>0, <2>3, <3>2, <3>3, <3>4
    <2>4. \/ d = [cm EXCEPT !.mode = "detail"] /\ presses' = presses
          \/ d = [cm EXCEPT !.mode = "list", !.opened = 0] /\ presses' = presses
          \/ /\ cm.restoreWanted = 0 /\ presses' = presses + 1
             /\ d = [cm EXCEPT !.restoreWanted = cm.opened,
                               !.keepLocalWanted = (CurrentRow.entry.event = "conflict")]
      <3>1. CASE Current = {} \/ Restorability(CurrentRow) # "ready"
        BY <1>3, <1>8, <3>1, Zenon DEF ActivateConfirm
      <3>2. CASE ~(Current = {} \/ Restorability(CurrentRow) # "ready")
        <4>1. PICK conflict : conflict = (CurrentRow.entry.event = "conflict")  OBVIOUS
        <4>2. PICK chosen : chosen = ConflictChoices[cm.choice]  OBVIOUS
        <4>3. cm.choice \in 1 .. 3  BY <1>1 DEF Models
        <4>4. chosen \in {"keep_server", "keep_local", "skip"}
          BY <4>2, <4>3 DEF ConflictChoices
        <4>5. CASE conflict /\ chosen = "keep_server"
          BY <1>3, <1>8, <3>2, <4>1, <4>2, <4>5 DEF ActivateConfirm
        <4>6. CASE conflict /\ chosen = "skip"
          BY <1>3, <1>8, <3>2, <4>1, <4>2, <4>6 DEF ActivateConfirm
        <4>7. CASE ~conflict \/ chosen = "keep_local"
          BY <1>3, <1>8, <3>2, <4>1, <4>2, <4>7 DEF ActivateConfirm
        <4>8. QED  BY <4>4, <4>5, <4>6, <4>7
      <3>3. QED  BY <3>1, <3>2
    <2>5. QED  BY <2>1, <2>2, <2>3, <2>4
  <1>9. CASE BackKey
    <2>0. presses' = presses  BY <1>9 DEF BackKey, conflictBounds
    <2>1. CASE cm.mode = "confirm"
      <3>1. d = [cm EXCEPT !.mode = "detail"]  BY <1>3, <1>9, <2>1 DEF BackKey
      <3>2. d \in Models  BY <1>1, <3>1 DEF Models, ConflictsModes
      <3>3. /\ d.rows = cm.rows /\ d.selected = cm.selected /\ d.hasMore = cm.hasMore
            /\ d.link = cm.link /\ d.stale = cm.stale
            /\ d.restoreWanted = cm.restoreWanted /\ d.mode = "detail" /\ d.restored = cm.restored
        BY <1>1, <3>1 DEF Models
      <3>4. ShowsItsOwn(d) /\ Pointed(d)  BY <1>1, <1>2, <2>1, <3>3 DEF ShowsItsOwn, Pointed
      <3>5. QED  BY <1>4, <2>0, <3>2, <3>3, <3>4
    <2>2. CASE cm.mode # "confirm"
      <3>1. d = [cm EXCEPT !.mode = "list", !.opened = 0, !.restored = FALSE, !.cancelAnswered = 0]
        BY <1>3, <1>9, <2>2 DEF BackKey
      <3>2. d \in Models  BY <1>1, <3>1 DEF Models, ConflictsModes
      <3>3. /\ d.rows = cm.rows /\ d.selected = cm.selected /\ d.hasMore = cm.hasMore
            /\ d.link = cm.link /\ d.stale = cm.stale
            /\ d.restoreWanted = cm.restoreWanted /\ d.mode = "list"
        BY <1>1, <3>1 DEF Models
      <3>4. ShowsItsOwn(d) /\ Pointed(d)  BY <1>1, <3>3 DEF ShowsItsOwn, Pointed
      <3>5. QED  BY <1>4, <2>0, <3>2, <3>3, <3>4
    <2>3. QED  BY <2>1, <2>2
  <1>10. QED  BY <1>5, <1>6, <1>7, <1>8, <1>9

\* A sync's entry comes before the others, which keep their order.
ComesFirst(h) ==
    /\ h \in Seq(Entry) /\ Len(h) <= kMaxEntries /\ Len(h) # 0 /\ h[1].id = nextId
    /\ \A i \in 2 .. Len(h) : i - 1 \in 1 .. Len(history) /\ h[i] = history[i - 1]

LEMMA AppendIs ==
    ASSUME StoreTyped, NEW s \in Saves, NEW event \in ConflictEvents
    PROVE  LET entries == <<[id |-> nextId, save |-> s, event |-> event]>> \o history
               keep == IF Len(entries) > kMaxEntries THEN kMaxEntries ELSE Len(entries)
           IN ComesFirst(SubSeq(entries, 1, keep))
  <1>1. history \in Seq(Entry) /\ Len(history) <= kMaxEntries /\ nextId \in Nat  BY DEF StoreTyped
  <1>2. PICK e : e = [id |-> nextId, save |-> s, event |-> event]  OBVIOUS
  <1>3. e \in Entry /\ e.id = nextId  BY <1>1, <1>2 DEF Entry
  <1>4. PICK entries : entries = <<e>> \o history  OBVIOUS
  <1>5. <<e>> \in Seq(Entry) /\ Len(<<e>>) = 1 /\ <<e>>[1] = e  BY <1>3
  <1>6. PICK n \in Nat : n = Len(history)  BY <1>1
  <1>7. entries \in Seq(Entry) /\ Len(entries) = n + 1
    <2>1. entries \in Seq(Entry) /\ Len(entries) = Len(<<e>>) + Len(history)
      BY <1>1, <1>4, <1>5, ConcatProperties
    <2>2. 1 + n = n + 1  BY <1>6
    <2>3. QED  BY <1>5, <1>6, <2>1, <2>2
  <1>8. entries[1] = e
    <2>1. 1 \in 1 .. 1 + n  BY <1>6
    <2>2. 1 \in 1 .. Len(<<e>>) + Len(history) /\ 1 <= Len(<<e>>)  BY <1>5, <1>6, <2>1
    <2>3. entries[1] = <<e>>[1]  BY <1>1, <1>4, <1>5, <2>2, ConcatProperties
    <2>4. QED  BY <1>5, <2>3
  <1>9. ASSUME NEW i \in 2 .. n + 1 PROVE i - 1 \in 1 .. n /\ entries[i] = history[i - 1]
    <2>1. i - 1 \in 1 .. n /\ i \in 1 .. 1 + n /\ i > 1  BY <1>6
    <2>2. i \in 1 .. Len(<<e>>) + Len(history) /\ i > Len(<<e>>)  BY <1>5, <1>6, <2>1
    <2>3. entries[i] = history[i - Len(<<e>>)]  BY <1>1, <1>4, <1>5, <2>2, ConcatProperties
    <2>4. QED  BY <1>5, <2>1, <2>3
  <1>10. PICK keep \in Nat : keep = IF n + 1 > kMaxEntries THEN kMaxEntries ELSE n + 1
    BY <1>6, ConflictsConstants
  <1>11. keep # 0 /\ keep <= n + 1 /\ keep <= kMaxEntries
    BY <1>6, <1>10, ConflictsConstants
  <1>12. PICK h : h = SubSeq(entries, 1, keep)  OBVIOUS
  <1>13. keep <= Len(entries)  BY <1>7, <1>11
  <1>14. h \in Seq(Entry) /\ Len(h) = keep /\ \A i \in 1 .. keep : h[i] = entries[i]
    BY <1>7, <1>12, <1>13, PrefixIs
  <1>15. h[1].id = nextId
    <2>1. 1 \in 1 .. keep  BY <1>10, <1>11
    <2>2. QED  BY <1>3, <1>8, <1>14, <2>1
  <1>16. ASSUME NEW i \in 2 .. keep PROVE i - 1 \in 1 .. n /\ h[i] = history[i - 1]
    <2>1. i \in 2 .. n + 1 /\ i \in 1 .. keep  BY <1>6, <1>10, <1>11
    <2>2. QED  BY <1>9, <1>14, <2>1
  <1>17. ComesFirst(h)
    BY <1>6, <1>11, <1>14, <1>15, <1>16 DEF ComesFirst
  <1>18. keep = IF Len(entries) > kMaxEntries THEN kMaxEntries ELSE Len(entries)
    BY <1>7, <1>10
  <1>19. QED  BY <1>2, <1>4, <1>12, <1>17, <1>18

LEMMA AppendStays ==
    ASSUME StoreTyped, IdsRise, HistoryAppend
    PROVE  /\ StoreTyped' /\ IdsRise'
           /\ nextId' = nextId + 1 /\ (\E h : h = history' /\ ComesFirst(h))
  <1>1. PICK s \in Saves, event \in ConflictEvents, written \in BOOLEAN :
          LET entries == <<[id |-> nextId, save |-> s, event |-> event]>> \o history
              keep == IF Len(entries) > kMaxEntries THEN kMaxEntries ELSE Len(entries)
          IN /\ history' = SubSeq(entries, 1, keep)
             /\ persisted' = Persist(persisted, SubSeq(entries, 1, keep), nextId + 1, written)
             /\ backups' = IF Overwrote(event) THEN backups \cup {nextId} ELSE backups
             /\ armed' = armed \ {s}
    BY DEF HistoryAppend
  <1>2. PICK h : h = history'  OBVIOUS
  <1>3. ComesFirst(h)  BY <1>1, <1>2, AppendIs
  <1>4. PICK file : file = persisted  OBVIOUS
  <1>5. nextId \in Nat /\ backups \subseteq Nat /\ armed \subseteq Saves /\ held \subseteq Saves
    BY DEF StoreTyped
  <1>6. nextId' = nextId + 1 /\ nextId' \in Nat /\ held' = held
    BY <1>5 DEF HistoryAppend
  <1>7. persisted' = persisted \/ persisted' = [newer |-> FALSE, entries |-> h, next |-> nextId + 1]
    BY <1>1, <1>2 DEF Persist
  <1>8. backups' \subseteq Nat /\ armed' \subseteq Saves
    BY <1>1, <1>5
  <1>9. h \in Seq(Entry) /\ Len(h) <= kMaxEntries  BY <1>3 DEF ComesFirst
  <1>10. persisted' \in [newer : BOOLEAN, entries : Seq(Entry), next : Nat]
    <2>1. nextId + 1 \in Nat  BY <1>5
    <2>2. [newer |-> FALSE, entries |-> h, next |-> nextId + 1]
             \in [newer : BOOLEAN, entries : Seq(Entry), next : Nat]
      BY <1>9, <2>1
    <2>3. QED  BY <1>7, <2>2 DEF StoreTyped
  <1>11. StoreTyped'
    BY <1>2, <1>6, <1>8, <1>9, <1>10 DEF StoreTyped
  <1>12. \A i \in 1 .. Len(h) : h[i].id < nextId + 1
    <2>1. ASSUME NEW i \in 1 .. Len(h) PROVE h[i].id < nextId + 1
      <3>1. CASE i = 1  BY <1>3, <1>5, <3>1 DEF ComesFirst
      <3>2. CASE i # 1
        <4>1. PICK n \in Nat : n = Len(h)  BY <1>9
        <4>2. i \in 2 .. n  BY <3>2, <4>1
        <4>3. i - 1 \in 1 .. Len(history) /\ h[i] = history[i - 1]
          BY <1>3, <4>1, <4>2 DEF ComesFirst
        <4>4. history[i - 1].id < nextId  BY <4>3 DEF IdsRise
        <4>5. history[i - 1].id \in Nat  BY <4>3, TheHistory DEF StoreTyped
        <4>6. QED  BY <1>5, <4>3, <4>4, <4>5
      <3>3. QED  BY <3>1, <3>2
    <2>2. QED  BY <2>1
  <1>13. \A i \in 1 .. Len(persisted'.entries) : persisted'.entries[i].id < persisted'.next
    <2>1. CASE persisted' = persisted  BY <2>1 DEF IdsRise
    <2>2. CASE persisted' = [newer |-> FALSE, entries |-> h, next |-> nextId + 1]
      <3>1. persisted'.entries = h /\ persisted'.next = nextId + 1  BY <2>2
      <3>2. QED  BY <1>12, <3>1
    <2>3. QED  BY <1>7, <2>1, <2>2
  <1>14. IdsRise'
    BY <1>2, <1>6, <1>12, <1>13 DEF IdsRise
  <1>15. QED  BY <1>2, <1>3, <1>6, <1>11, <1>14

\* A boot reads the counter the file says: no id of the file is past it.
LEMMA ParsedIs ==
    ASSUME persisted \in [newer : BOOLEAN, entries : Seq(Entry), next : Nat],
           \A i \in 1 .. Len(persisted.entries) : persisted.entries[i].id < persisted.next
    PROVE  /\ ParseHistory(persisted).entries \in Seq(Entry)
           /\ Len(ParseHistory(persisted).entries) <= kMaxEntries
           /\ ParseHistory(persisted).next \in Nat
           /\ \A i \in 1 .. Len(ParseHistory(persisted).entries) :
                ParseHistory(persisted).entries[i].id < ParseHistory(persisted).next
  <1>1. PICK read : read = ParseHistory(persisted)  OBVIOUS
  <1>2. /\ persisted.entries \in Seq(Entry) /\ persisted.next \in Nat
    OBVIOUS
  <1>3. CASE persisted.newer
    <2>1. read = [entries |-> <<>>, next |-> 1]  BY <1>1, <1>3 DEF ParseHistory
    <2>2. QED  BY <1>1, <2>1, ConflictsConstants
  <1>4. CASE ~persisted.newer
    <2>1. PICK n \in Nat : n = Len(persisted.entries)  BY <1>2
    <2>2. PICK keep \in Nat : keep = IF n < kMaxEntries THEN n ELSE kMaxEntries
      BY ConflictsConstants
    <2>3. keep <= n /\ keep <= kMaxEntries  BY <2>1, <2>2, ConflictsConstants
    <2>4. PICK h : h = SubSeq(persisted.entries, 1, keep)  OBVIOUS
    <2>5. h \in Seq(Entry) /\ Len(h) = keep /\ \A i \in 1 .. keep : h[i] = persisted.entries[i]
      BY <1>2, <2>1, <2>3, <2>4, PrefixIs
    <2>6. PICK nexts : nexts = {persisted.next} \cup {e.id + 1 : e \in ToSet(persisted.entries)}
      OBVIOUS
    <2>7. ASSUME NEW m \in nexts PROVE m \in Nat /\ m <= persisted.next
      <3>1. CASE m = persisted.next  BY <1>2, <3>1
      <3>2. CASE \E e \in ToSet(persisted.entries) : m = e.id + 1
        <4>1. PICK i \in DOMAIN persisted.entries : m = persisted.entries[i].id + 1
          BY <3>2 DEF ToSet
        <4>2. i \in 1 .. Len(persisted.entries)  BY <1>2, <4>1
        <4>3. persisted.entries[i].id < persisted.next  BY <4>2
        <4>4. PICK e \in Entry : e = persisted.entries[i]  BY <1>2, <4>2, ElementOfSeq
        <4>5. e.id \in Nat  BY <4>4 DEF Entry
        <4>6. QED  BY <1>2, <4>1, <4>3, <4>4, <4>5
      <3>3. QED  BY <2>6, <3>1, <3>2
    <2>8. \A m \in nexts : m <= persisted.next  BY <2>7
    <2>9. persisted.next \in nexts  BY <2>6
    <2>10. PICK next : next = CHOOSE x \in nexts : \A m \in nexts : m <= x  OBVIOUS
    <2>11. next \in nexts /\ \A m \in nexts : m <= next  BY <2>8, <2>9, <2>10
    <2>12. next = persisted.next
      <3>1. next \in Nat /\ next <= persisted.next /\ persisted.next <= next
        BY <2>7, <2>9, <2>11
      <3>2. QED  BY <1>2, <3>1
    <2>13. read.entries = h /\ read.next = next
      BY <1>1, <1>4, <2>1, <2>2, <2>4, <2>6, <2>10 DEF ParseHistory
    <2>14. ASSUME NEW i \in 1 .. keep PROVE h[i].id < next
      <3>1. i \in 1 .. n  BY <2>1, <2>2, <2>3
      <3>2. persisted.entries[i].id < persisted.next  BY <2>1, <3>1
      <3>3. QED  BY <2>5, <2>12, <3>2
    <2>15. QED  BY <1>1, <1>2, <2>3, <2>5, <2>12, <2>13, <2>14
  <1>5. QED  BY <1>3, <1>4

\* The entries and saves there are stay entries and saves.
LEMMA StoreStays ==
    ASSUME StoreTyped, IdsRise, [ConflictsNext]_conflictVars
    PROVE  StoreTyped' /\ IdsRise'
  <1>1. /\ history \in Seq(Entry) /\ Len(history) <= kMaxEntries /\ nextId \in Nat
        /\ backups \subseteq Nat /\ held \subseteq Saves /\ armed \subseteq Saves
    BY DEF StoreTyped
  <1>2. ASSUME UNCHANGED <<history, nextId, persisted>>,
               backups' \subseteq Nat, held' \subseteq Saves, armed' \subseteq Saves
        PROVE  StoreTyped' /\ IdsRise'
    BY <1>2 DEF StoreTyped, IdsRise
  <1>3. ASSUME NEW id PROVE {e.save : e \in Found(id)} \subseteq Saves
    <2>1. ASSUME NEW e \in ToSet(history) PROVE e.save \in Saves
      <3>1. PICK i \in 1 .. Len(history) : e = history[i]  BY <1>1, <2>1 DEF ToSet
      <3>2. QED  BY <1>1, <3>1, TheHistory
    <2>2. QED  BY <2>1 DEF Found
  <1>4. ASSUME NEW id PROVE UnholdLocked(id) \subseteq Saves
    BY <1>1 DEF UnholdLocked
  <1>5. CASE RunRestore
    <2>1. /\ held' = held \/ held' = held \cup {e.save : e \in Found(restore.entry)}
          /\ armed' = armed \/ armed' = armed \cup {e.save : e \in Found(restore.entry)}
          /\ UNCHANGED <<history, nextId, persisted, backups>>
      BY <1>5 DEF RunRestore
    <2>2. held' \subseteq Saves /\ armed' \subseteq Saves  BY <1>1, <1>3, <2>1
    <2>3. QED  BY <1>1, <1>2, <2>1, <2>2
  <1>6. CASE LandHeld
    <2>1. PICK s \in held : held' = held \ {s} /\ (armed' = armed \/ armed' = armed \cup {s})
      BY <1>6 DEF LandHeld
    <2>2. UNCHANGED <<history, nextId, persisted, backups>>  BY <1>6 DEF LandHeld
    <2>3. QED  BY <1>1, <1>2, <2>1, <2>2
  <1>7. CASE HistoryAppend
    BY <1>7, AppendStays
  <1>8. CASE BackupDeleted
    BY <1>1, <1>2, <1>8 DEF BackupDeleted
  <1>9. CASE LateHandled
    <2>1. held' = held \/ held' = UnholdLocked(out.id)  BY <1>9 DEF LateHandled, Handles
    <2>2. UNCHANGED <<history, nextId, persisted, backups, armed>>  BY <1>9 DEF LateHandled
    <2>3. QED  BY <1>1, <1>2, <1>4, <2>1, <2>2
  <1>10. CASE Reboot
    <2>1. /\ history' = ParseHistory(persisted).entries /\ nextId' = ParseHistory(persisted).next
          /\ held' = {} /\ armed' = {} /\ persisted' = persisted /\ backups' = backups
      BY <1>10 DEF Reboot
    <2>2. PICK h, next : h = ParseHistory(persisted).entries /\ next = ParseHistory(persisted).next
      OBVIOUS
    <2>3. /\ h \in Seq(Entry) /\ Len(h) <= kMaxEntries /\ next \in Nat
          /\ \A i \in 1 .. Len(h) : h[i].id < next
      BY <2>2, ParsedIs DEF StoreTyped, IdsRise
    <2>4. StoreTyped'  BY <2>1, <2>2, <2>3 DEF StoreTyped
    <2>5. IdsRise'  BY <2>1, <2>2, <2>3 DEF IdsRise
    <2>6. QED  BY <2>4, <2>5
  <1>11. CASE ConflictsFrame
    <2>1. held' = held \/ (\E id : held' = UnholdLocked(id))
      <3>1. CASE FrameAnswered  BY <1>11, <3>1 DEF FrameAnswered, Handles
      <3>2. CASE FrameBreaks  BY <1>11, <3>2 DEF FrameBreaks, Handles
      <3>3. CASE FrameIdle \/ FrameRefused \/ FrameLate \/ FrameUnsent
        BY <1>11, <3>3 DEF FrameIdle, FrameRefused, FrameLate, FrameUnsent, storeVars
      <3>4. QED  BY <1>11, <3>1, <3>2, <3>3 DEF ConflictsFrame
    <2>2. UNCHANGED <<history, nextId, persisted, backups, armed>>
      BY <1>11 DEF ConflictsFrame, FrameAnswered, FrameBreaks, FrameIdle, FrameRefused, FrameLate,
                   FrameUnsent, storeVars
    <2>3. QED  BY <1>1, <1>2, <1>4, <2>1, <2>2
  <1>12. CASE MoveEntry \/ ActivateList \/ ActivateDetail \/ ActivateConfirm \/ BackKey
              \/ UNCHANGED conflictVars
    <2>1. UNCHANGED storeVars
      BY <1>12 DEF MoveEntry, ActivateList, ActivateDetail, ActivateConfirm, BackKey, conflictVars
    <2>2. QED  BY <1>1, <1>2, <2>1 DEF storeVars
  <1>13. QED
    BY <1>5, <1>6, <1>7, <1>8, <1>9, <1>10, <1>11, <1>12 DEF ConflictsNext

\* What handling a command does to the restore there is.
Taken(press, w) ==
    /\ w \in Restores
    /\ w = restore \/ (restore.phase # "running" /\ w.phase = "running" /\ w.press = press)

LEMMA HandlesIs ==
    ASSUME restore \in Restores, NEW id \in Nat, NEW keeps \in BOOLEAN, NEW press \in Nat,
           NEW kind, Handles(kind, id, keeps, press)
    PROVE  \E w : w = restore' /\ Taken(press, w) /\ (kind = "restore" \/ w = restore)
  <1>1. PICK w : w = restore'  OBVIOUS
  <1>2. CASE kind = "restore"
    <2>1. w = TakeRestore(id, keeps, press)  BY <1>1, <1>2 DEF Handles
    <2>2. Taken(press, w)  BY <2>1, TakeRestoreIs DEF Taken
    <2>3. QED  BY <1>1, <1>2, <2>2
  <1>3. CASE kind # "restore"
    <2>1. w = restore  BY <1>1, <1>3 DEF Handles
    <2>2. QED  BY <1>1, <2>1 DEF Taken
  <1>4. QED  BY <1>2, <1>3

\* How a step moves a press: from wanted to out or running, from out to running,
\* from running to run, or nowhere but away.
PressStays(c, o, w) ==
    /\ presses' = presses /\ runs' = runs
    /\ c.restoreWanted \in {cm.restoreWanted, 0} /\ o \in {out, Nobody}
    /\ w = restore \/ w.phase # "running"

PressBegins(c, o, w) ==
    /\ presses' = presses /\ runs' = runs
    /\ cm.restoreWanted # 0 /\ c.restoreWanted = 0 /\ o = out
    /\ w.phase = "running" /\ w.press = presses /\ restore.phase # "running"

PressGoesOut(c, o, w) ==
    /\ presses' = presses /\ runs' = runs /\ w = restore /\ c.restoreWanted = 0
    /\ out = Nobody /\ (o.kind = "restore" => cm.restoreWanted # 0 /\ o.press = presses)

PressComesIn(c, o, w) ==
    /\ presses' = presses /\ runs' = runs /\ c.restoreWanted = cm.restoreWanted
    /\ out # Nobody /\ out.kind = "restore" /\ o = Nobody
    /\ w.phase = "running" /\ w.press = out.press /\ restore.phase # "running"

PressIsRun(c, o, w) ==
    /\ presses' = presses /\ c.restoreWanted = cm.restoreWanted /\ o = out
    /\ restore.phase = "running" /\ w.phase # "running"
    /\ runs' = [runs EXCEPT ![restore.press] = @ + 1]

PressIsMade(c, o, w) ==
    /\ presses' = presses + 1 /\ presses < MaxPresses /\ runs' = runs
    /\ cm.restoreWanted = 0 /\ o = out /\ w = restore

PressMoves(c, o, w) ==
    \/ PressStays(c, o, w) \/ PressBegins(c, o, w) \/ PressGoesOut(c, o, w)
    \/ PressComesIn(c, o, w) \/ PressIsRun(c, o, w) \/ PressIsMade(c, o, w)

LEMMA PressesKeep ==
    ASSUME PressInv, NEW c, NEW o, NEW w, c = cm', o = out', w = restore', PressMoves(c, o, w)
    PROVE  PressInv'
  <1>1. PICK n \in Nat, most \in Nat : n = presses /\ most = MaxPresses
    BY ConflictsConstants DEF PressInv, PressesTyped
  <1>2. n <= most /\ n \in Nat /\ most \in Nat  BY <1>1 DEF PressInv, PressesTyped
  <1>3. /\ restore.phase = "running" => restore.press \in 1 .. n
        /\ (out # Nobody /\ out.kind = "restore") => out.press \in 1 .. n
        /\ cm.restoreWanted # 0 => n # 0
    BY <1>1 DEF PressInv, PressBounds
  <1>4. runs \in [0 .. most -> Nat]  BY <1>1 DEF PressInv, PressesTyped
  <1>5. ASSUME NEW p \in 1 .. most
        PROVE  /\ runs[p] \in Nat /\ runs[p] <= 1
               /\ runs[p] = 1 => ~IsWanted(p) /\ ~IsLate(p) /\ ~IsRunning(p)
               /\ ~(IsWanted(p) /\ IsLate(p)) /\ ~(IsWanted(p) /\ IsRunning(p))
               /\ ~(IsLate(p) /\ IsRunning(p))
               /\ p > n => runs[p] = 0
    BY <1>1, <1>4 DEF PressInv, PressesCount
  <1>6. /\ PressesTyped' <=> presses' \in 0 .. most /\ runs' \in [0 .. most -> Nat]
        /\ PressBounds' <=> /\ w.phase = "running" => w.press \in 1 .. presses'
                            /\ (o # Nobody /\ o.kind = "restore") => o.press \in 1 .. presses'
                            /\ c.restoreWanted # 0 => presses' # 0
    BY <1>1 DEF PressesTyped, PressBounds
  <1>7. ASSUME NEW p
        PROVE  /\ IsWanted(p)' <=> c.restoreWanted # 0 /\ p = presses'
               /\ IsLate(p)' <=> o # Nobody /\ o.kind = "restore" /\ o.press = p
               /\ IsRunning(p)' <=> w.phase = "running" /\ w.press = p
    BY DEF IsWanted, IsLate, IsRunning
  <1>8. ASSUME NEW p
        PROVE  /\ IsWanted(p) <=> cm.restoreWanted # 0 /\ p = n
               /\ IsLate(p) <=> out # Nobody /\ out.kind = "restore" /\ out.press = p
               /\ IsRunning(p) <=> restore.phase = "running" /\ restore.press = p
    BY <1>1 DEF IsWanted, IsLate, IsRunning
  <1>9. CASE PressStays(c, o, w)
    <2>1. PressesTyped' /\ PressBounds'
      BY <1>1, <1>2, <1>3, <1>4, <1>6, <1>9 DEF PressStays
    <2>2. ASSUME NEW p \in 1 .. most
          PROVE  /\ IsWanted(p)' => IsWanted(p)
                 /\ IsLate(p)' => IsLate(p)
                 /\ IsRunning(p)' => IsRunning(p)
      BY <1>1, <1>7, <1>8, <1>9 DEF PressStays
    <2>3. PressesCount'  BY <1>1, <1>5, <1>9, <2>2 DEF PressStays, PressesCount
    <2>4. QED  BY <2>1, <2>3 DEF PressInv
  <1>10. CASE PressBegins(c, o, w)
    <2>1. PressesTyped' /\ PressBounds'
      BY <1>1, <1>2, <1>3, <1>4, <1>6, <1>10 DEF PressBegins
    <2>2. n \in 1 .. most  BY <1>2, <1>3, <1>10 DEF PressBegins
    <2>3. IsWanted(n)  BY <1>8, <1>10 DEF PressBegins
    <2>4. runs[n] # 1 /\ ~IsLate(n)  BY <1>5, <2>2, <2>3
    <2>5. ASSUME NEW p \in 1 .. most
          PROVE  /\ ~IsWanted(p)'
                 /\ IsLate(p)' => IsLate(p)
                 /\ IsRunning(p)' => p = n
      BY <1>1, <1>7, <1>8, <1>10 DEF PressBegins
    <2>6. PressesCount'  BY <1>1, <1>5, <1>10, <2>2, <2>4, <2>5 DEF PressBegins, PressesCount
    <2>7. QED  BY <2>1, <2>6 DEF PressInv
  <1>11. CASE PressGoesOut(c, o, w)
    <2>1. PressesTyped' /\ PressBounds'
      BY <1>1, <1>2, <1>3, <1>4, <1>6, <1>11 DEF PressGoesOut
    <2>2. ASSUME NEW p \in 1 .. most
          PROVE  /\ ~IsWanted(p)'
                 /\ IsLate(p)' => IsWanted(p)
                 /\ IsRunning(p)' => IsRunning(p)
      BY <1>1, <1>7, <1>8, <1>11 DEF PressGoesOut
    <2>3. PressesCount'  BY <1>1, <1>5, <1>11, <2>2 DEF PressGoesOut, PressesCount
    <2>4. QED  BY <2>1, <2>3 DEF PressInv
  <1>12. CASE PressComesIn(c, o, w)
    <2>1. PressesTyped' /\ PressBounds'
      BY <1>1, <1>2, <1>3, <1>4, <1>6, <1>12 DEF PressComesIn
    <2>2. ASSUME NEW p \in 1 .. most
          PROVE  /\ IsWanted(p)' => IsWanted(p)
                 /\ ~IsLate(p)'
                 /\ IsRunning(p)' => IsLate(p)
      BY <1>1, <1>7, <1>8, <1>12 DEF PressComesIn
    <2>3. PressesCount'  BY <1>1, <1>5, <1>12, <2>2 DEF PressComesIn, PressesCount
    <2>4. QED  BY <2>1, <2>3 DEF PressInv
  <1>13. CASE PressIsRun(c, o, w)
    <2>0. PICK q \in 1 .. n : q = restore.press  BY <1>3, <1>13 DEF PressIsRun
    <2>1. q \in 1 .. most /\ q \in 0 .. most  BY <1>2, <2>0
    <2>2. PICK ran \in Nat : ran = runs[q]  BY <1>4, <2>1
    <2>3. runs' = [runs EXCEPT ![q] = ran + 1] /\ ran + 1 \in Nat
      BY <1>13, <2>0, <2>2 DEF PressIsRun
    <2>4. runs' \in [0 .. most -> Nat]  BY <1>4, <2>1, <2>3
    <2>5. PressesTyped' /\ PressBounds'
      BY <1>1, <1>2, <1>3, <1>6, <1>13, <2>4 DEF PressIsRun
    <2>6. IsRunning(q)  BY <1>8, <1>13, <2>0 DEF PressIsRun
    <2>7. ran = 0 /\ ~IsWanted(q) /\ ~IsLate(q)  BY <1>5, <2>1, <2>2, <2>6
    <2>8. ASSUME NEW p \in 1 .. most
          PROVE  /\ IsWanted(p)' <=> IsWanted(p)
                 /\ IsLate(p)' <=> IsLate(p)
                 /\ ~IsRunning(p)'
      BY <1>1, <1>7, <1>8, <1>13 DEF PressIsRun
    <2>9. ASSUME NEW p \in 1 .. most
          PROVE  (runs[p])' = IF p = q THEN 1 ELSE runs[p]
      <3>1. p \in 0 .. most  BY <1>2
      <3>2. QED  BY <1>4, <2>1, <2>3, <2>7, <3>1
    <2>10. ASSUME NEW p \in 1 .. most, p > n PROVE p # q
      BY <1>2, <2>0, <2>10
    <2>11. PressesCount'
      BY <1>1, <1>5, <1>13, <2>7, <2>8, <2>9, <2>10 DEF PressIsRun, PressesCount
    <2>12. QED  BY <2>5, <2>11 DEF PressInv
  <1>14. CASE PressIsMade(c, o, w)
    <2>1. presses' = n + 1 /\ n + 1 \in 1 .. most /\ n < n + 1 /\ ~(n + 1 \in 1 .. n)
      BY <1>1, <1>2, <1>14 DEF PressIsMade
    <2>2. PressesTyped' /\ PressBounds'
      <3>1. presses' \in 0 .. most  BY <1>2, <2>1
      <3>2. 1 .. n \subseteq 1 .. n + 1 /\ n + 1 # 0  BY <1>2
      <3>3. QED  BY <1>3, <1>4, <1>6, <1>14, <2>1, <3>1, <3>2 DEF PressIsMade
    <2>3. runs[n + 1] = 0  BY <1>2, <1>5, <2>1
    <2>4. ~IsLate(n + 1) /\ ~IsRunning(n + 1)  BY <1>3, <1>8, <2>1
    <2>5. ASSUME NEW p \in 1 .. most
          PROVE  /\ IsWanted(p)' => p = n + 1
                 /\ IsLate(p)' <=> IsLate(p)
                 /\ IsRunning(p)' <=> IsRunning(p)
      BY <1>7, <1>8, <1>14, <2>1 DEF PressIsMade
    <2>6. ASSUME NEW p \in 1 .. most, p > n + 1 PROVE p > n  BY <1>2, <2>6
    <2>7. PressesCount'
      BY <1>1, <1>5, <1>14, <2>1, <2>3, <2>4, <2>5, <2>6 DEF PressIsMade, PressesCount
    <2>8. QED  BY <2>2, <2>7 DEF PressInv
  <1>15. QED  BY <1>9, <1>10, <1>11, <1>12, <1>13, <1>14 DEF PressMoves

LEMMA OutcomesAre ==
    ASSUME NEW id, NEW keeps, NEW outcome \in Outcomes(id, keeps)
    PROVE  outcome \in RestoreOutcomes
  <1>1. CASE Found(id) = {}  BY <1>1 DEF Outcomes, RestoreOutcomes
  <1>2. CASE Found(id) # {}
    <2>1. PICK e : e = CHOOSE x \in Found(id) : TRUE  OBVIOUS
    <2>2. outcome \in IF keeps /\ e.event # "conflict" THEN {"not_a_conflict"}
                      ELSE IF keeps /\ ~CarriesChoice(e) THEN {"superseded"}
                      ELSE IF ~Overwrote(e.event) THEN {"nothing_to_restore"}
                      ELSE (IF keeps THEN {"held"} ELSE {})
                           \cup IF id \in backups THEN {"restored", "write_failed"} ELSE {"backup_missing"}
      BY <1>2, <2>1 DEF Outcomes
    <2>3. outcome \in {"not_a_conflict", "superseded", "nothing_to_restore", "held", "restored",
                       "write_failed", "backup_missing"}
      BY <2>2
    <2>4. QED  BY <2>3 DEF RestoreOutcomes
  <1>3. QED  BY <1>1, <1>2

\* What a step leaves of the screen, the call that is out and the restore.
StepsWell(c, o, w) ==
    /\ PressMoves(c, o, w)
    /\ Reports(w) /\ (o # Nobody => o \in LateCalls)
    /\ ScreenFits(c) /\ ShowsItsOwn(c) /\ LinkSays(c)

LEMMA AFrameSteps ==
    ASSUME ConflictsInv, ConflictsFrame
    PROVE  \E c, o, w : c = cm' /\ o = out' /\ w = restore' /\ StepsWell(c, o, w)
  <1>1. /\ StoreTyped /\ IdsRise /\ ScreenTyped /\ ScreenInv
        /\ presses \in Nat /\ restore \in Restores /\ Reports(restore)
        /\ out # Nobody => out \in LateCalls
    <2>1. StoreTyped /\ IdsRise /\ ScreenTyped /\ ScreenInv /\ PressInv  BY DEF ConflictsInv
    <2>2. presses \in Nat  BY <2>1, ConflictsConstants DEF PressInv, PressesTyped
    <2>3. restore \in Restores /\ (out # Nobody => out \in LateCalls)  BY <2>1 DEF ScreenTyped
    <2>4. Reports(restore)  BY <2>1, <2>3 DEF Reports, ScreenInv, ReportsItsEntry
    <2>5. QED  BY <2>1, <2>2, <2>3, <2>4
  <1>2. PICK c : c = cm' /\ Framed(c)  BY <1>1, AFrameKeeps
  <1>3. ScreenFits(c) /\ ShowsItsOwn(c) /\ LinkSays(c) /\ c.restoreWanted = 0
    BY <1>2 DEF Framed
  <1>4. FrameIsDue  BY <1>1, AFrameIsDue
  <1>5. PICK o, w : o = out' /\ w = restore'  OBVIOUS
  <1>6. PICK k : k = Kind  OBVIOUS
  <1>7. /\ k \in {"restore", "cancel", "poll", "page", "none"}
        /\ k = "restore" => cm.restoreWanted # 0
        /\ Names(Sent, Kind) \in Nat /\ Sent.keepingLocal \in BOOLEAN
    BY <1>4, <1>6 DEF FrameIsDue, Names
  <1>8. ASSUME Reports(w), o # Nobody => o \in LateCalls, PressMoves(c, o, w)
        PROVE  \E x, y, z : x = cm' /\ y = out' /\ z = restore' /\ StepsWell(x, y, z)
    BY <1>2, <1>3, <1>5, <1>8 DEF StepsWell
  <1>9. ASSUME UNCHANGED <<presses, runs, out>>, w = restore
        PROVE  \E x, y, z : x = cm' /\ y = out' /\ z = restore' /\ StepsWell(x, y, z)
    <2>1. PressMoves(c, o, w)  BY <1>3, <1>5, <1>9 DEF PressMoves, PressStays
    <2>2. QED  BY <1>1, <1>5, <1>8, <1>9, <2>1
  <1>10. ASSUME UNCHANGED <<presses, runs, out>>,
                Handles(Kind, Names(Sent, Kind), Sent.keepingLocal, presses)
         PROVE  \E x, y, z : x = cm' /\ y = out' /\ z = restore' /\ StepsWell(x, y, z)
    <2>1. Taken(presses, w) /\ (k = "restore" \/ w = restore)
      <3>1. \E z : z = restore' /\ Taken(presses, z) /\ (Kind = "restore" \/ z = restore)
        BY <1>1, <1>7, <1>10, HandlesIs
      <3>2. QED  BY <1>5, <1>6, <3>1
    <2>2. CASE w = restore  BY <1>9, <1>10, <2>2
    <2>3. CASE w # restore
      <3>1. /\ k = "restore" /\ w \in Restores
            /\ restore.phase # "running" /\ w.phase = "running" /\ w.press = presses
        BY <2>1, <2>3 DEF Taken
      <3>2. Reports(w)  BY <3>1 DEF Reports
      <3>3. cm.restoreWanted # 0  BY <1>7, <3>1
      <3>4. PressMoves(c, o, w)
        BY <1>3, <1>5, <1>10, <3>1, <3>3 DEF PressMoves, PressBegins
      <3>5. QED  BY <1>1, <1>5, <1>8, <1>10, <3>2, <3>4
    <2>4. QED  BY <2>2, <2>3
  <1>11. CASE FrameAnswered
    BY <1>10, <1>11 DEF FrameAnswered, conflictBounds
  <1>12. CASE FrameBreaks
    <2>1. UNCHANGED <<presses, runs, out>>  BY <1>12 DEF FrameBreaks
    <2>2. \/ Handles(Kind, Names(Sent, Kind), Sent.keepingLocal, presses)
          \/ w = restore
      BY <1>5, <1>12 DEF FrameBreaks
    <2>3. QED  BY <1>9, <1>10, <2>1, <2>2
  <1>13. CASE FrameIdle \/ FrameRefused \/ FrameUnsent
    BY <1>5, <1>9, <1>13 DEF FrameIdle, FrameRefused, FrameUnsent, conflictBounds
  <1>14. CASE FrameLate
    <2>1. /\ out = Nobody /\ k # "none" /\ presses' = presses /\ runs' = runs /\ w = restore
          /\ o = [kind |-> k, id |-> Names(Sent, Kind), keeps |-> Sent.keepingLocal,
                  press |-> presses]
      BY <1>5, <1>6, <1>14 DEF FrameLate
    <2>2. k \in {"restore", "cancel", "poll", "page"}  BY <1>7, <2>1
    <2>3. o \in LateCalls  BY <1>1, <1>7, <2>1, <2>2 DEF LateCalls
    <2>4. PressMoves(c, o, w)
      BY <1>3, <1>7, <2>1 DEF PressMoves, PressGoesOut
    <2>5. Reports(w)  BY <1>1, <2>1
    <2>6. QED  BY <1>8, <2>3, <2>4, <2>5
  <1>15. QED  BY <1>11, <1>12, <1>13, <1>14 DEF ConflictsFrame

LEMMA AScreenSteps ==
    ASSUME ConflictsInv, [ConflictsNext]_conflictVars
    PROVE  \E c, o, w : c = cm' /\ o = out' /\ w = restore' /\ StepsWell(c, o, w)
  <1>1. /\ StoreTyped /\ IdsRise /\ ScreenTyped /\ ScreenInv
        /\ presses \in Nat /\ restore \in Restores /\ Reports(restore)
        /\ out # Nobody => out \in LateCalls
        /\ ScreenFits(cm) /\ ShowsItsOwn(cm) /\ LinkSays(cm)
    <2>1. StoreTyped /\ IdsRise /\ ScreenTyped /\ ScreenInv /\ PressInv  BY DEF ConflictsInv
    <2>2. presses \in Nat  BY <2>1, ConflictsConstants DEF PressInv, PressesTyped
    <2>3. restore \in Restores /\ (out # Nobody => out \in LateCalls) /\ ScreenFits(cm)
      BY <2>1 DEF ScreenTyped
    <2>4. Reports(restore)  BY <2>1, <2>3 DEF Reports, ScreenInv, ReportsItsEntry
    <2>5. ShowsItsOwn(cm) /\ LinkSays(cm)  BY <2>1 DEF ScreenInv
    <2>6. QED  BY <2>1, <2>2, <2>3, <2>4, <2>5
  <1>2. PICK c, o, w : c = cm' /\ o = out' /\ w = restore'  OBVIOUS
  <1>3. ASSUME StepsWell(c, o, w)
        PROVE  \E x, y, z : x = cm' /\ y = out' /\ z = restore' /\ StepsWell(x, y, z)
    BY <1>2, <1>3
  <1>4. ASSUME UNCHANGED <<cm, out, restore, presses, runs>>
        PROVE  StepsWell(c, o, w)
    <2>1. c = cm /\ o = out /\ w = restore  BY <1>2, <1>4
    <2>2. PressMoves(c, o, w)  BY <1>4, <2>1 DEF PressMoves, PressStays
    <2>3. QED  BY <1>1, <2>1, <2>2 DEF StepsWell
  <1>5. CASE RunRestore
    <2>1. PICK outcome \in Outcomes(restore.entry, restore.keeps) :
            w = [restore EXCEPT !.phase = "done",
                                !.report = [outcome |-> outcome, of |-> restore.entry,
                                            press |-> presses]]
      BY <1>2, <1>5 DEF RunRestore
    <2>2. PICK report : report = [outcome |-> outcome, of |-> restore.entry, press |-> presses]
      OBVIOUS
    <2>3. restore.entry \in Nat  BY <1>1 DEF Restores
    <2>4. outcome \in RestoreOutcomes  BY OutcomesAre
    <2>5. report \in RestoreReport /\ report.of = restore.entry
      BY <1>1, <2>2, <2>3, <2>4 DEF RestoreReport
    <2>6. w = [restore EXCEPT !.phase = "done", !.report = report]  BY <2>1, <2>2
    <2>7. w \in Restores /\ w.report = report /\ w.entry = restore.entry /\ w.phase = "done"
      BY <1>1, <2>5, <2>6 DEF Restores, RestorePhases
    <2>8. Reports(w)  BY <2>5, <2>7 DEF Reports
    <2>9. /\ c = cm /\ o = out /\ presses' = presses /\ restore.phase = "running"
          /\ runs' = [runs EXCEPT ![restore.press] = @ + 1]
      BY <1>2, <1>5 DEF RunRestore, conflictBounds
    <2>10. PressMoves(c, o, w)  BY <2>7, <2>9 DEF PressMoves, PressIsRun
    <2>11. QED  BY <1>1, <1>3, <2>8, <2>9, <2>10 DEF StepsWell
  <1>6. CASE LandHeld \/ HistoryAppend \/ BackupDeleted \/ UNCHANGED conflictVars
    <2>1. UNCHANGED <<cm, out, restore, presses, runs>>
      BY <1>6 DEF LandHeld, HistoryAppend, BackupDeleted, conflictVars, conflictBounds
    <2>2. QED  BY <1>3, <1>4, <2>1
  <1>7. CASE LateHandled
    <2>1. out # Nobody /\ o = Nobody /\ c = cm /\ presses' = presses /\ runs' = runs
      BY <1>2, <1>7 DEF LateHandled, conflictBounds
    <2>2. out \in LateCalls  BY <1>1, <2>1
    <2>3. out.id \in Nat /\ out.keeps \in BOOLEAN /\ out.press \in Nat  BY <2>2 DEF LateCalls
    <2>4. Taken(out.press, w) /\ (out.kind = "restore" \/ w = restore)
      <3>1. Handles(out.kind, out.id, out.keeps, out.press)  BY <1>7 DEF LateHandled
      <3>2. \E z : z = restore' /\ Taken(out.press, z) /\ (out.kind = "restore" \/ z = restore)
        BY <1>1, <2>3, <3>1, HandlesIs
      <3>3. QED  BY <1>2, <3>2
    <2>5. Reports(w) /\ PressMoves(c, o, w)
      <3>1. CASE w = restore
        BY <1>1, <2>1, <3>1 DEF PressMoves, PressStays
      <3>2. CASE w # restore
        <4>1. /\ w \in Restores /\ restore.phase # "running" /\ w.phase = "running"
              /\ w.press = out.press /\ out.kind = "restore"
          BY <2>4, <3>2 DEF Taken
        <4>2. Reports(w)  BY <4>1 DEF Reports
        <4>3. PressMoves(c, o, w)  BY <2>1, <4>1 DEF PressMoves, PressComesIn
        <4>4. QED  BY <4>2, <4>3
      <3>3. QED  BY <3>1, <3>2
    <2>6. QED  BY <1>1, <1>3, <2>1, <2>5 DEF StepsWell
  <1>8. CASE Reboot
    <2>1. /\ w = NoRestore /\ o = Nobody /\ c = OnConflictsUnreachable(cm)
          /\ presses' = presses /\ runs' = runs
      BY <1>2, <1>8 DEF Reboot
    <2>2. Reports(w) /\ w.phase # "running"
      <3>1. NoReport \in RestoreReport  BY DEF NoReport, RestoreReport, RestoreOutcomes
      <3>2. w \in Restores /\ w.phase = "idle"
        BY <2>1, <3>1 DEF NoRestore, Restores, RestorePhases
      <3>3. QED  BY <3>2 DEF Reports
    <2>3. ScreenFits(c) /\ ShowsItsOwn(c) /\ c.link = "gone" /\ c.stale /\ c.restoreWanted = 0
      BY <1>1, <2>1, UnreachableIs
    <2>4. PressMoves(c, o, w)  BY <2>1, <2>2, <2>3 DEF PressMoves, PressStays
    <2>5. QED  BY <1>3, <2>1, <2>2, <2>3, <2>4 DEF StepsWell, LinkSays
  <1>9. CASE ConflictsFrame
    BY <1>9, AFrameSteps
  <1>10. CASE MoveEntry \/ ActivateList \/ ActivateDetail \/ ActivateConfirm \/ BackKey
    <2>1. w = restore /\ o = out /\ runs' = runs
      BY <1>2, <1>10 DEF MoveEntry, ActivateList, ActivateDetail, ActivateConfirm, BackKey
    <2>2. /\ ScreenFits(c) /\ ShowsItsOwn(c) /\ Relisted(cm, c)
          /\ c.link = cm.link /\ c.stale = cm.stale
          /\ \/ c.restoreWanted = cm.restoreWanted /\ presses' = presses
             \/ cm.restoreWanted = 0 /\ presses < MaxPresses /\ presses' = presses + 1
      BY <1>1, <1>2, <1>10, AKeyKeeps
    <2>3. PressMoves(c, o, w)  BY <2>1, <2>2 DEF PressMoves, PressStays, PressIsMade
    <2>4. LinkSays(c)  BY <1>1, <2>2 DEF LinkSays
    <2>5. QED  BY <1>1, <1>3, <2>1, <2>2, <2>3, <2>4 DEF StepsWell
  <1>11. QED
    BY <1>5, <1>6, <1>7, <1>8, <1>9, <1>10 DEF ConflictsNext

\* A list that is current stays one no entry is missing from.
LEMMA RowsStay ==
    ASSUME ConflictsInv, [ConflictsNext]_conflictVars
    PROVE  ~cm.stale' => RowsHold(cm)'
  <1>1. /\ StoreTyped /\ IdsRise /\ ScreenTyped /\ ScreenInv /\ PressInv
        /\ presses \in Nat /\ ScreenFits(cm)
    <2>1. StoreTyped /\ IdsRise /\ ScreenTyped /\ ScreenInv /\ PressInv  BY DEF ConflictsInv
    <2>2. presses \in Nat  BY <2>1, ConflictsConstants DEF PressInv, PressesTyped
    <2>3. QED  BY <2>1, <2>2 DEF ScreenTyped
  <1>2. PICK c : c = cm'  OBVIOUS
  <1>3. ASSUME RowsHold(c), history' = history, nextId' = nextId
        PROVE  RowsHold(cm)'
    BY <1>2, <1>3 DEF RowsHold, NoNewer, Listed
  <1>4. SUFFICES ASSUME ~c.stale PROVE RowsHold(cm)'  BY <1>2
  <1>5. ~cm.stale => RowsHold(cm)  BY <1>1 DEF ScreenInv
  <1>6. CASE RunRestore \/ LandHeld \/ BackupDeleted \/ LateHandled \/ UNCHANGED conflictVars
    <2>1. c = cm /\ history' = history /\ nextId' = nextId
      BY <1>2, <1>6 DEF RunRestore, LandHeld, BackupDeleted, LateHandled, conflictVars, storeVars
    <2>2. QED  BY <1>3, <1>4, <1>5, <2>1
  <1>7. CASE HistoryAppend
    <2>1. c = cm  BY <1>2, <1>7 DEF HistoryAppend
    <2>2. RowsHold(cm)  BY <1>4, <1>5, <2>1
    <2>3. PICK h : h = history' /\ ComesFirst(h)  BY <1>1, <1>7, AppendStays
    <2>4. nextId' = nextId + 1 /\ nextId \in Nat  BY <1>1, <1>7, AppendStays DEF StoreTyped
    <2>5. cm.rows \in Seq(Row)  BY <1>1 DEF ScreenFits, Models
    <2>6. SUFFICES ASSUME cm.rows # <<>> PROVE RowsHold(cm)'  BY <1>2, <2>1 DEF RowsHold
    <2>7. PICK n \in Nat : n = Len(cm.rows)  BY <2>5
    <2>8. n # 0  BY <2>5, <2>6, <2>7
    <2>9. ASSUME NEW j \in 1 .. n PROVE cm.rows[j].entry.id \in Nat
      <3>1. PICK row \in Row : row = cm.rows[j]  BY <2>5, <2>7, ElementOfSeq
      <3>2. QED  BY <3>1 DEF Row, Entry
    <2>10. ASSUME NEW j \in 1 .. n PROVE cm.rows[j].entry.id < nextId
      BY <2>2, <2>6, <2>7 DEF RowsHold
    <2>11. ASSUME NEW j \in 1 .. n PROVE cm.rows[j].entry.id < nextId + 1
      BY <2>4, <2>9, <2>10
    <2>12. PICK m \in Nat : m = Len(h)  BY <2>3 DEF ComesFirst
    <2>13. ASSUME NEW i \in 1 .. m, h[i].id <= cm.rows[1].entry.id
           PROVE  /\ i - 1 \in 1 .. Len(history) /\ h[i] = history[i - 1] /\ NoNewer(cm, i - 1)
      <3>1. i # 1
        <4>1. 1 \in 1 .. n  BY <2>7, <2>8
        <4>2. cm.rows[1].entry.id < nextId /\ cm.rows[1].entry.id \in Nat  BY <2>9, <2>10, <4>1
        <4>3. ~(nextId <= cm.rows[1].entry.id)  BY <2>4, <4>2
        <4>4. h[1].id = nextId  BY <2>3 DEF ComesFirst
        <4>5. QED  BY <2>13, <4>3, <4>4
      <3>2. i \in 2 .. m  BY <2>12, <3>1
      <3>3. i - 1 \in 1 .. Len(history) /\ h[i] = history[i - 1]
        BY <2>3, <2>12, <3>2 DEF ComesFirst
      <3>4. QED  BY <2>13, <3>3 DEF NoNewer
    <2>14. ASSUME NEW i \in 1 .. m, h[i].id <= cm.rows[1].entry.id
           PROVE  i > n \/ Listed(cm, h[i].id)
      <3>1. /\ i - 1 \in 1 .. Len(history) /\ h[i] = history[i - 1] /\ NoNewer(cm, i - 1)
        BY <2>13, <2>14
      <3>2. i - 1 > n \/ Listed(cm, history[i - 1].id)
        BY <2>2, <2>6, <2>7, <3>1 DEF RowsHold
      <3>3. i - 1 > n => i > n  BY <2>7, <2>12, <2>14
      <3>4. QED  BY <3>1, <3>2, <3>3
    <2>15. ASSUME NEW i \in 1 .. m, h[i].id <= cm.rows[1].entry.id, ~cm.hasMore
           PROVE  Listed(cm, h[i].id)
      <3>1. /\ i - 1 \in 1 .. Len(history) /\ h[i] = history[i - 1] /\ NoNewer(cm, i - 1)
        BY <2>13, <2>15
      <3>2. Listed(cm, history[i - 1].id)
        BY <2>2, <2>6, <2>15, <3>1 DEF RowsHold
      <3>3. QED  BY <3>1, <3>2
    <2>16. cm' = cm  BY <1>2, <2>1
    <2>17. \A j \in 1 .. Len(cm'.rows) : cm'.rows[j].entry.id < nextId'
      BY <2>4, <2>7, <2>11, <2>16
    <2>18. \A i \in 1 .. Len(history') :
             history'[i].id <= cm'.rows[1].entry.id
               => i > Len(cm'.rows) \/ Listed(cm, history'[i].id)
      BY <2>3, <2>7, <2>12, <2>14, <2>16
    <2>19. ~cm'.hasMore => \A i \in 1 .. Len(history') :
             history'[i].id <= cm'.rows[1].entry.id => Listed(cm, history'[i].id)
      BY <2>3, <2>12, <2>15, <2>16
    <2>20. ASSUME NEW id PROVE Listed(cm, id) <=> \E j \in 1 .. Len(cm'.rows) : cm'.rows[j].entry.id = id
      BY <2>16 DEF Listed
    <2>21. QED  BY <2>17, <2>18, <2>19, <2>20 DEF RowsHold, NoNewer, Listed
  <1>8. CASE Reboot
    <2>1. c = OnConflictsUnreachable(cm)  BY <1>2, <1>8 DEF Reboot
    <2>2. ShowsItsOwn(cm)  BY <1>1 DEF ScreenInv
    <2>3. c.stale  BY <1>1, <2>1, <2>2, UnreachableIs
    <2>4. QED  BY <1>4, <2>3
  <1>9. CASE ConflictsFrame
    <2>1. Framed(c)
      <3>1. PICK d : d = cm' /\ Framed(d)  BY <1>1, <1>9, AFrameKeeps
      <3>2. QED  BY <1>2, <3>1
    <2>2. history' = history /\ nextId' = nextId
      BY <1>9 DEF ConflictsFrame, FrameAnswered, FrameBreaks, FrameIdle, FrameRefused, FrameLate,
                  FrameUnsent, storeVars
    <2>3. QED  BY <1>3, <1>4, <2>1, <2>2 DEF Framed
  <1>10. CASE MoveEntry \/ ActivateList \/ ActivateDetail \/ ActivateConfirm \/ BackKey
    <2>1. ScreenFits(c) /\ Relisted(cm, c) /\ c.stale = cm.stale
      BY <1>1, <1>2, <1>10, AKeyKeeps
    <2>2. c \in Models /\ cm \in Models  BY <1>1, <2>1 DEF ScreenFits
    <2>3. RowsHold(c)  BY <1>4, <1>5, <2>1, <2>2, RelistedHolds
    <2>4. history' = history /\ nextId' = nextId
      BY <1>10 DEF MoveEntry, ActivateList, ActivateDetail, ActivateConfirm, BackKey, storeVars
    <2>5. QED  BY <1>3, <2>3, <2>4
  <1>11. QED
    BY <1>6, <1>7, <1>8, <1>9, <1>10 DEF ConflictsNext

LEMMA ConflictsBegin == ConflictsInit => ConflictsInv
  <1> SUFFICES ASSUME ConflictsInit PROVE ConflictsInv  OBVIOUS
  <1>1. PICK s \in Saves, t \in Saves, newer \in BOOLEAN :
          persisted = [newer |-> newer, next |-> 3,
                       entries |-> <<[id |-> 2, save |-> s, event |-> "conflict"],
                                     [id |-> 1, save |-> t, event |-> "replaced"]>>]
    BY DEF ConflictsInit
  <1>2. PICK e \in Entry : e = [id |-> 2, save |-> s, event |-> "conflict"] /\ e.id = 2
    <2>1. "conflict" \in ConflictEvents /\ 2 \in Nat  BY DEF ConflictEvents
    <2>2. [id |-> 2, save |-> s, event |-> "conflict"] \in Entry  BY <2>1 DEF Entry
    <2>3. [id |-> 2, save |-> s, event |-> "conflict"].id = 2  OBVIOUS
    <2>4. QED  BY <2>2, <2>3
  <1>2a. PICK f \in Entry : f = [id |-> 1, save |-> t, event |-> "replaced"] /\ f.id = 1
    <2>1. "replaced" \in ConflictEvents /\ 1 \in Nat  BY DEF ConflictEvents
    <2>2. [id |-> 1, save |-> t, event |-> "replaced"] \in Entry  BY <2>1 DEF Entry
    <2>3. [id |-> 1, save |-> t, event |-> "replaced"].id = 1  OBVIOUS
    <2>4. QED  BY <2>2, <2>3
  <1>3. PICK read : read = <<e, f>>  OBVIOUS
  <1>4. read \in Seq(Entry) /\ Len(read) = 2 /\ read[1] = e /\ read[2] = f
    BY <1>2, <1>2a, <1>3
  <1>5. persisted = [newer |-> newer, next |-> 3, entries |-> read]
    BY <1>1, <1>2, <1>2a, <1>3
  <1>6. /\ persisted \in [newer : BOOLEAN, entries : Seq(Entry), next : Nat]
        /\ persisted.entries = read /\ persisted.next = 3
    BY <1>4, <1>5
  <1>7. \A i \in 1 .. Len(persisted.entries) : persisted.entries[i].id < persisted.next
    <2>1. SUFFICES ASSUME NEW i \in 1 .. Len(read) PROVE read[i].id < 3  BY <1>6
    <2>2. i \in 1 .. 2  BY <1>4
    <2>3. i = 1 \/ i = 2  BY <2>2
    <2>4. read[1].id = 2 /\ read[2].id = 1  BY <1>2, <1>2a, <1>4
    <2>5. read[i].id = 1 \/ read[i].id = 2  BY <2>3, <2>4
    <2>6. QED  BY <2>5
  <1>8. /\ history \in Seq(Entry) /\ Len(history) <= kMaxEntries /\ nextId \in Nat
        /\ \A i \in 1 .. Len(history) : history[i].id < nextId
    BY <1>6, <1>7, ParsedIs DEF ConflictsInit
  <1>9. StoreTyped /\ IdsRise
    <2>1. backups \subseteq Nat  BY DEF ConflictsInit
    <2>2. held \subseteq Saves /\ armed \subseteq Saves  BY DEF ConflictsInit
    <2>3. StoreTyped  BY <1>6, <1>8, <2>1, <2>2 DEF StoreTyped
    <2>4. IdsRise  BY <1>7, <1>8 DEF IdsRise
    <2>5. QED  BY <2>3, <2>4
  <1>10. /\ cm = Fresh /\ out = Nobody /\ restore = NoRestore /\ presses = 0
         /\ runs = [p \in 0 .. MaxPresses |-> 0]
    BY DEF ConflictsInit
  <1>11. restore \in Restores /\ restore.phase = "idle"
    <2>1. NoReport \in RestoreReport  BY DEF NoReport, RestoreReport, RestoreOutcomes
    <2>2. QED  BY <1>10, <2>1 DEF NoRestore, Restores, RestorePhases
  <1>12. ScreenTyped  BY <1>10, <1>11, FreshFits DEF ScreenTyped
  <1>13. ScreenInv
    <2>1. LinkSays(cm)  BY <1>10 DEF LinkSays, Fresh
    <2>2. RowsHold(cm)  BY <1>10, FreshFits DEF RowsHold
    <2>3. QED  BY <1>10, <1>11, <2>1, <2>2, FreshFits DEF ScreenInv, ReportsItsEntry
  <1>14. cm.restoreWanted = 0  BY <1>10 DEF Fresh
  <1>15. PressesTyped  BY <1>10, ConflictsConstants DEF PressesTyped
  <1>16. PressBounds  BY <1>10, <1>11, <1>14 DEF PressBounds
  <1>17. ASSUME NEW p \in 1 .. MaxPresses PROVE runs[p] = 0
    BY <1>10, ConflictsConstants
  <1>18. PressesCount
    BY <1>10, <1>11, <1>14, <1>17 DEF PressesCount, IsWanted, IsLate, IsRunning
  <1>19. QED  BY <1>9, <1>12, <1>13, <1>15, <1>16, <1>18 DEF ConflictsInv, PressInv

LEMMA ConflictsSteps ==
    ASSUME ConflictsInv, [ConflictsNext]_conflictVars
    PROVE  ConflictsInv'
  <1>1. StoreTyped' /\ IdsRise'  BY StoreStays DEF ConflictsInv
  <1>2. PICK c, o, w : c = cm' /\ o = out' /\ w = restore' /\ StepsWell(c, o, w)
    BY AScreenSteps
  <1>3. /\ PressMoves(c, o, w) /\ Reports(w) /\ (o # Nobody => o \in LateCalls)
        /\ ScreenFits(c) /\ ShowsItsOwn(c) /\ LinkSays(c)
    BY <1>2 DEF StepsWell
  <1>4. PressInv'  BY <1>2, <1>3, PressesKeep DEF ConflictsInv
  <1>5. ScreenFits(cm)' /\ ShowsItsOwn(cm)' /\ LinkSays(cm)'
    BY <1>2, <1>3 DEF ScreenFits, Pointed, Models, ShowsItsOwn, LinkSays
  <1>6. w \in Restores /\ (w.phase = "done" => w.report.of = w.entry)  BY <1>3 DEF Reports
  <1>7. ScreenTyped'  BY <1>2, <1>3, <1>5, <1>6 DEF ScreenTyped
  <1>8. ReportsItsEntry'  BY <1>2, <1>6 DEF ReportsItsEntry
  <1>9. (~cm.stale => RowsHold(cm))'  BY RowsStay
  <1>10. ScreenInv'  BY <1>5, <1>8, <1>9 DEF ScreenInv
  <1>11. QED  BY <1>1, <1>4, <1>7, <1>10 DEF ConflictsInv

\* Of the conflict screen: a press is in one place until its restore has run,
\* and the rows follow the history they are read from.
THEOREM ConflictsInvariance == ConflictsSpec => []ConflictsInv
  BY ConflictsBegin, ConflictsSteps, PTL DEF ConflictsSpec

\* The invariant has every variable of the screen in its type.
LEMMA ConflictsTypeFollows ==
    ASSUME ConflictsInv
    PROVE  ConflictsTypeOK
  <1>1. StoreTyped /\ ScreenFits(cm) /\ restore \in Restores
    BY DEF ConflictsInv, ScreenTyped
  <1>2. cm \in Models /\ Len(cm.rows) <= kMaxEntries  BY <1>1 DEF ScreenFits
  <1>3. /\ cm.rows \in Seq(Row) /\ cm.mode \in ConflictsModes /\ cm.lastRestore \in RestoreReport
        /\ cm.link \in {"ok", "slow", "gone"} /\ cm.selected \in 1 .. (kMaxEntries + 1)
    BY <1>2 DEF Models
  <1>4. restore.phase \in RestorePhases /\ restore.report \in RestoreReport
    BY <1>1 DEF Restores
  <1>5. /\ history \in Seq(Entry) /\ Len(history) <= kMaxEntries
        /\ held \subseteq Saves /\ armed \subseteq Saves /\ backups \subseteq Nat
    BY <1>1 DEF StoreTyped
  <1>6. \A i \in 1 .. Len(history) : history[i] \in Entry  BY <1>5, ElementOfSeq
  <1>7. \A i \in 1 .. Len(cm.rows) : cm.rows[i] \in Row  BY <1>3, ElementOfSeq
  <1>8. QED  BY <1>2, <1>3, <1>4, <1>5, <1>6, <1>7 DEF ConflictsTypeOK

\* The history, the restore and the screen hold what they are declared to,
\* within the size a history has, for any number of saves, presses and jolts.
THEOREM ConflictsTypeCorrect == ConflictsSpec => []ConflictsTypeOK
  <1>1. ConflictsInv => ConflictsTypeOK  BY ConflictsTypeFollows
  <1>2. QED  BY <1>1, ConflictsInvariance, PTL

\* What the screen says of a restore is of the entry it shows.
LEMMA OutcomeFollows ==
    ASSUME ConflictsInv
    PROVE  OutcomeIsItsEntrys
  <1>1. SUFFICES ASSUME Says = "outcome" PROVE cm.lastRestore.of = cm.opened
    BY DEF OutcomeIsItsEntrys
  <1>2. cm \in Models /\ ShowsItsOwn(cm)
    BY DEF ConflictsInv, ScreenTyped, ScreenFits, ScreenInv
  <1>3. cm.mode \in {"list", "detail", "confirm"}  BY <1>2 DEF Models, ConflictsModes
  <1>4. cm.link = "ok"
    <2>1. SUFFICES ASSUME cm.link # "ok" PROVE FALSE  OBVIOUS
    <2>2. Says = "unreachable"  BY <2>1, Zenon DEF Says
    <2>3. QED  BY <1>1, <2>2
  <1>5. cm.mode = "detail"
    <2>1. SUFFICES ASSUME cm.mode # "detail" PROVE FALSE  OBVIOUS
    <2>2. Says = cm.mode  BY <1>4, <2>1, Zenon DEF Says
    <2>3. QED  BY <1>1, <1>3, <2>2
  <1>6. cm.restored
    <2>1. SUFFICES ASSUME ~cm.restored PROVE FALSE  OBVIOUS
    <2>2. \/ Says = "gone" \/ Says = "restoring" \/ Says = "lost" \/ Says = "cancel"
          \/ Says = "entry"
      BY <1>4, <1>5, <2>1, Zenon DEF Says
    <2>3. QED  BY <1>1, <2>2
  <1>7. QED  BY <1>2, <1>5, <1>6 DEF ShowsItsOwn

\* An outcome a detail shows is of the entry it shows, though the sysmodule
\* keeps one restore for whoever asks.
THEOREM AnOutcomeIsItsEntrys == ConflictsSpec => []OutcomeIsItsEntrys
  <1>1. ConflictsInv => OutcomeIsItsEntrys  BY OutcomeFollows
  <1>2. QED  BY <1>1, ConflictsInvariance, PTL

\* A press runs one restore at most, however its call is delayed, refused,
\* dropped or handled twice over, and wherever a reboot falls.
THEOREM APressIsOneRestore == ConflictsSpec => []OnePressOneRestore
  <1>1. ConflictsInv => OnePressOneRestore
    BY DEF ConflictsInv, PressInv, PressesCount, OnePressOneRestore
  <1>2. QED  BY <1>1, ConflictsInvariance, PTL

\* Rows read to their end hold every entry that is old enough.
LEMMA EntriesFollow ==
    ASSUME ConflictsInv
    PROVE  NoEntrySkipped
  <1>1. SUFFICES ASSUME cm.rows # <<>>, ~cm.hasMore, cm.link = "ok", NEW e \in ToSet(history),
                        e.id <= cm.rows[1].entry.id
                 PROVE  \E i \in 1 .. Len(cm.rows) : cm.rows[i].entry.id = e.id
    BY DEF NoEntrySkipped
  <1>2. history \in Seq(Entry)  BY DEF ConflictsInv, StoreTyped
  <1>3. PICK i \in 1 .. Len(history) : e = history[i]  BY <1>1, <1>2 DEF ToSet
  <1>4. LinkSays(cm) /\ (~cm.stale => RowsHold(cm))  BY DEF ConflictsInv, ScreenInv
  <1>5. RowsHold(cm)  BY <1>1, <1>4 DEF LinkSays
  <1>6. NoNewer(cm, i)  BY <1>1, <1>3 DEF NoNewer
  <1>7. Listed(cm, history[i].id)  BY <1>1, <1>3, <1>5, <1>6 DEF RowsHold
  <1>8. QED  BY <1>3, <1>7 DEF Listed

\* No entry is missing from a list that is read to its end, whatever the
\* history gains between its pages and however short they are cut.
THEOREM NoEntryIsSkipped == ConflictsSpec => []NoEntrySkipped
  <1>1. ConflictsInv => NoEntrySkipped  BY EntriesFollow
  <1>2. QED  BY <1>1, ConflictsInvariance, PTL

-----------------------------------------------------------------------------
(* The IPC port.  A reply is armed for the client whose answer stands in   *)
(* the buffer, and the table has each session once: so a closing session   *)
(* that moves another in the table disturbs no reply.                      *)

Once(s) == \A i, j \in 1 .. Len(s) : s[i] = s[j] => i = j

IpcInv == IpcTypeOK /\ RepliesToItsAsker

\* Dropping a session leaves the others in the table, each of them once.
LEMMA DropsOne ==
    ASSUME table \in Seq(Overlays), Once(table), NEW o \in ToSet(table)
    PROVE  /\ Drops(o) \in Seq(Overlays) /\ Len(Drops(o)) = Len(table) - 1
           /\ Once(Drops(o)) /\ ToSet(Drops(o)) = ToSet(table) \ {o}
  <1>1. PICK n \in Nat : n = Len(table)  BY LenProperties
  <1>2. DOMAIN table = 1 .. n /\ \A i \in 1 .. n : table[i] \in Overlays
    BY <1>1, ElementOfSeq, LenProperties
  <1>3. ToSet(table) = {table[i] : i \in 1 .. n}  BY <1>2 DEF ToSet
  <1>4. PICK h \in 1 .. n : table[h] = o /\ IndexOf(o) = h
    <2>1. \E i \in 1 .. n : table[i] = o  BY <1>3
    <2>2. IndexOf(o) \in 1 .. n /\ table[IndexOf(o)] = o  BY <1>1, <2>1 DEF IndexOf
    <2>3. QED  BY <2>2
  <1>5. n - 1 \in Nat /\ n \in 1 .. n  BY <1>4
  <1>6. Last(table) = table[n]  BY <1>1 DEF Last
  <1>7. PICK d : d = Drops(o)  OBVIOUS
  <1>8. d = [i \in 1 .. n - 1 |-> IF i = h THEN table[n] ELSE table[i]]
    BY <1>1, <1>4, <1>6, <1>7 DEF Drops
  <1>9. \A i \in 1 .. n - 1 : i \in 1 .. n /\ i # n  BY <1>1
  <1>10. d \in [1 .. n - 1 -> Overlays]  BY <1>2, <1>5, <1>8, <1>9
  <1>11. d \in Seq(Overlays) /\ Len(d) = n - 1 /\ DOMAIN d = 1 .. n - 1
    BY <1>5, <1>10, IsASeq, LenProperties
  <1>12. \A i, j \in 1 .. n : table[i] = table[j] => i = j  BY <1>1 DEF Once
  <1>13. Once(d)
    <2>1. SUFFICES ASSUME NEW i \in 1 .. n - 1, NEW j \in 1 .. n - 1, d[i] = d[j] PROVE i = j
      BY <1>11 DEF Once
    <2>2. i \in 1 .. n /\ j \in 1 .. n /\ i # n /\ j # n  BY <1>9
    <2>3. /\ d[i] = IF i = h THEN table[n] ELSE table[i]
          /\ d[j] = IF j = h THEN table[n] ELSE table[j]
      BY <1>8
    <2>4. QED  BY <1>5, <1>12, <2>1, <2>2, <2>3
  <1>14. ToSet(d) = {d[i] : i \in 1 .. n - 1}  BY <1>11 DEF ToSet
  <1>15. ASSUME NEW x \in ToSet(d) PROVE x \in ToSet(table) \ {o}
    <2>1. PICK i \in 1 .. n - 1 : x = d[i]  BY <1>14, <1>15
    <2>2. i \in 1 .. n /\ i # n  BY <1>9
    <2>3. x = IF i = h THEN table[n] ELSE table[i]  BY <1>8, <2>1
    <2>4. CASE i = h
      <3>1. x = table[n] /\ n # h  BY <2>2, <2>3, <2>4
      <3>2. x # o  BY <1>4, <1>5, <1>12, <3>1
      <3>3. QED  BY <1>3, <1>5, <3>1, <3>2
    <2>5. CASE i # h
      <3>1. x = table[i]  BY <2>3, <2>5
      <3>2. x # o  BY <1>4, <1>12, <2>2, <2>5, <3>1
      <3>3. QED  BY <1>3, <2>2, <3>1, <3>2
    <2>6. QED  BY <2>4, <2>5
  <1>16. ASSUME NEW x \in ToSet(table) \ {o} PROVE x \in ToSet(d)
    <2>1. PICK i \in 1 .. n : x = table[i] /\ i # h  BY <1>3, <1>4, <1>16
    <2>2. CASE i = n
      <3>1. h \in 1 .. n - 1  BY <1>1, <2>1, <2>2
      <3>2. d[h] = x  BY <1>8, <2>1, <2>2, <3>1
      <3>3. QED  BY <1>14, <3>1, <3>2
    <2>3. CASE i # n
      <3>1. i \in 1 .. n - 1  BY <1>1, <2>3
      <3>2. d[i] = x  BY <1>8, <2>1, <3>1
      <3>3. QED  BY <1>14, <3>1, <3>2
    <2>4. QED  BY <2>2, <2>3
  <1>17. ToSet(d) = ToSet(table) \ {o}  BY <1>15, <1>16
  <1>18. QED  BY <1>1, <1>7, <1>11, <1>13, <1>17

\* Taking one in adds it, once.
LEMMA TakesOneIn ==
    ASSUME table \in Seq(Overlays), Once(table), NEW o \in Overlays, o \notin ToSet(table)
    PROVE  /\ Append(table, o) \in Seq(Overlays) /\ Len(Append(table, o)) = Len(table) + 1
           /\ Once(Append(table, o)) /\ ToSet(Append(table, o)) = ToSet(table) \cup {o}
  <1>1. PICK n \in Nat : n = Len(table)  BY LenProperties
  <1>2. PICK a : a = Append(table, o)  OBVIOUS
  <1>3. /\ a \in Seq(Overlays) /\ Len(a) = n + 1
        /\ \A i \in 1 .. n : a[i] = table[i]
        /\ a[n + 1] = o
    BY <1>1, <1>2, AppendProperties
  <1>4. DOMAIN table = 1 .. n /\ DOMAIN a = 1 .. n + 1  BY <1>1, <1>3, LenProperties
  <1>5. ToSet(table) = {table[i] : i \in 1 .. n} /\ ToSet(a) = {a[i] : i \in 1 .. n + 1}
    BY <1>4 DEF ToSet
  <1>6. n + 1 \in 1 .. n + 1 /\ \A i \in 1 .. n : i \in 1 .. n + 1  BY <1>1
  <1>7. \A i \in 1 .. n + 1 : i \in 1 .. n \/ i = n + 1  BY <1>1
  <1>8. ToSet(a) = ToSet(table) \cup {o}
    <2>1. ASSUME NEW x \in ToSet(a) PROVE x \in ToSet(table) \cup {o}
      <3>1. PICK i \in 1 .. n + 1 : x = a[i]  BY <1>5, <2>1
      <3>2. QED  BY <1>3, <1>5, <1>7, <3>1
    <2>2. ASSUME NEW x \in ToSet(table) PROVE x \in ToSet(a)
      <3>1. PICK i \in 1 .. n : x = table[i]  BY <1>5, <2>2
      <3>2. x = a[i] /\ i \in 1 .. n + 1  BY <1>3, <1>6, <3>1
      <3>3. QED  BY <1>5, <3>2
    <2>3. o \in ToSet(a)  BY <1>3, <1>5, <1>6
    <2>4. QED  BY <2>1, <2>2, <2>3
  <1>9. Once(a)
    <2>1. SUFFICES ASSUME NEW i \in 1 .. n + 1, NEW j \in 1 .. n + 1, a[i] = a[j] PROVE i = j
      BY <1>3 DEF Once
    <2>2. \A p, q \in 1 .. n : table[p] = table[q] => p = q  BY <1>1 DEF Once
    <2>3. \A p \in 1 .. n : table[p] # o  BY <1>5
    <2>4. QED  BY <1>3, <1>7, <2>1, <2>2, <2>3
  <1>10. QED  BY <1>1, <1>2, <1>3, <1>8, <1>9

\* A request there is.
LEMMA NoRequestIsOne == NoRequest \in Requests
  BY DEF NoRequest, Requests, Commands

\* Every answer says how it went, whatever was asked and whatever it weighs.
LEMMA AnswersSay ==
    ASSUME NEW r \in Requests, NEW answer \in HandleRequest(r)
    PROVE  answer.error \in Errors
  <1>1. ASSUME NEW e \in Errors, NEW x \in Refusal(e) PROVE x.error \in Errors
    BY <1>1 DEF Refusal
  <1>2. /\ "ok" \in Errors /\ "unknown command" \in Errors
        /\ "malformed" \in Errors /\ "too large" \in Errors
    BY DEF Errors
  <1>3. ASSUME NEW x \in DispatchCommand(r) PROVE x.error \in Errors
    <2>1. CASE r.command = "unknown"  BY <1>1, <1>2, <1>3, <2>1 DEF DispatchCommand
    <2>2. CASE r.command # "unknown" /\ r.body = "malformed"
      BY <1>1, <1>2, <1>3, <2>2 DEF DispatchCommand
    <2>3. CASE r.command # "unknown" /\ r.body # "malformed"
      <3>1. PICK weight \in Payloads(r.command) :
              x = IF weight > kMaxPayloadBytes THEN [error |-> "too large", bytes |-> 0, whole |-> 0]
                  ELSE [error |-> "ok", bytes |-> weight, whole |-> weight]
        BY <1>3, <2>3 DEF DispatchCommand
      <3>2. CASE weight > kMaxPayloadBytes
        <4>1. x = [error |-> "too large", bytes |-> 0, whole |-> 0]  BY <3>1, <3>2
        <4>2. QED  BY <1>2, <4>1
      <3>3. CASE ~(weight > kMaxPayloadBytes)
        <4>1. x = [error |-> "ok", bytes |-> weight, whole |-> weight]  BY <3>1, <3>3
        <4>2. QED  BY <1>2, <4>1
      <3>4. QED  BY <3>2, <3>3
    <2>4. QED  BY <2>1, <2>2, <2>3
  <1>4. CASE r.frame # "request" \/ r.body = "oversized"
    BY <1>1, <1>2, <1>4 DEF HandleRequest
  <1>5. CASE ~(r.frame # "request" \/ r.body = "oversized")
    <2>1. PICK x \in DispatchCommand(r) : answer = IntoBuffer(r, x)  BY <1>5 DEF HandleRequest
    <2>2. x.error \in Errors  BY <1>3
    <2>3. answer = x \/ answer.error \in {"malformed", "too large"}
      BY <2>1 DEF IntoBuffer
    <2>4. QED  BY <1>2, <2>2, <2>3
  <1>6. QED  BY <1>4, <1>5

LEMMA IpcBegins == IpcInit => IpcInv
  <1> SUFFICES ASSUME IpcInit PROVE IpcInv  OBVIOUS
  <1>1. /\ table = <<>> /\ replyTo = NoClient /\ message = Silence /\ serving = TRUE /\ touches = 0
        /\ client = [o \in Overlays |-> "away"] /\ asked = [o \in Overlays |-> NoRequest]
    BY DEF IpcInit
  <1>2. table \in Seq(Overlays) /\ Len(table) = 0  BY <1>1
  <1>3. kMaxSessions \in Nat /\ MaxTouches \in Nat  BY IpcServerConstants
  <1>4. client \in [Overlays -> ClientStates]  BY <1>1 DEF ClientStates
  <1>5. asked \in [Overlays -> Requests]  BY <1>1, NoRequestIsOne
  <1>6. message.error \in Errors /\ message.to = NoClient  BY <1>1 DEF Silence, Errors
  <1>7. Len(table) <= kMaxSessions /\ touches \in 0 .. MaxTouches  BY <1>1, <1>2, <1>3
  <1>8. IpcTypeOK  BY <1>1, <1>2, <1>4, <1>5, <1>6, <1>7 DEF IpcTypeOK
  <1>9. ToSet(table) = {}  BY <1>1 DEF ToSet
  <1>10. {o \in Overlays : client[o] \notin {"away", "knocking"}} = {}  BY <1>1
  <1>11. \A i, j \in 1 .. Len(table) : table[i] = table[j] => i = j  BY <1>2
  <1>12. RepliesToItsAsker  BY <1>1, <1>9, <1>10, <1>11 DEF RepliesToItsAsker
  <1>13. QED  BY <1>8, <1>12 DEF IpcInv

\* One overlay moves, the others stay where they are.
LEMMA OneMoves ==
    ASSUME IpcTypeOK, NEW o \in Overlays, NEW to \in ClientStates,
           client' = [client EXCEPT ![o] = to]
    PROVE  /\ client' \in [Overlays -> ClientStates] /\ client'[o] = to
           /\ \A p \in Overlays : p # o => client'[p] = client[p]
  BY DEF IpcTypeOK

\* An overlay that moves without the server's doing stays inside or outside.
LEMMA AloneKeeps ==
    ASSUME IpcInv, NEW o \in Overlays, NEW to \in ClientStates,
           client' = [client EXCEPT ![o] = to],
           (client[o] \in {"away", "knocking"}) = (to \in {"away", "knocking"}),
           client[o] \in {"served", "gone"} => to \in {"served", "gone"},
           UNCHANGED <<table, replyTo, message, serving>>,
           asked' \in [Overlays -> Requests], touches' \in 0 .. MaxTouches
    PROVE  IpcInv'
  <1>1. IpcTypeOK /\ RepliesToItsAsker  BY DEF IpcInv
  <1>2. /\ client' \in [Overlays -> ClientStates] /\ client'[o] = to
        /\ \A p \in Overlays : p # o => client'[p] = client[p]
    BY <1>1, OneMoves
  <1>3. IpcTypeOK'  BY <1>1, <1>2 DEF IpcTypeOK
  <1>4. {p \in Overlays : client'[p] \notin {"away", "knocking"}}
          = {p \in Overlays : client[p] \notin {"away", "knocking"}}
    BY <1>2
  <1>5. ToSet(table) = {p \in Overlays : client'[p] \notin {"away", "knocking"}}
    BY <1>1, <1>4 DEF RepliesToItsAsker
  <1>6. replyTo # NoClient => message.to = replyTo /\ client'[replyTo] \in {"served", "gone"}
    <2>1. SUFFICES ASSUME replyTo # NoClient
                   PROVE  message.to = replyTo /\ client'[replyTo] \in {"served", "gone"}
      OBVIOUS
    <2>2. message.to = replyTo /\ client[replyTo] \in {"served", "gone"} /\ replyTo \in Overlays
      BY <1>1, <2>1 DEF RepliesToItsAsker, IpcTypeOK
    <2>3. CASE replyTo = o  BY <1>2, <2>2, <2>3
    <2>4. CASE replyTo # o  BY <1>2, <2>2, <2>4
    <2>5. QED  BY <2>3, <2>4
  <1>7. RepliesToItsAsker'
    <2>1. serving /\ \A i, j \in 1 .. Len(table) : table[i] = table[j] => i = j
      BY <1>1 DEF RepliesToItsAsker
    <2>2. QED  BY <1>5, <1>6, <2>1 DEF RepliesToItsAsker
  <1>8. QED  BY <1>3, <1>7 DEF IpcInv

LEMMA OverlaysKeep ==
    ASSUME IpcInv, NEW o \in Overlays,
           Connect(o) \/ AskServer(o) \/ LeaveServer(o) \/ Dies(o)
    PROVE  IpcInv'
  <1>1. /\ client \in [Overlays -> ClientStates] /\ asked \in [Overlays -> Requests]
        /\ touches \in 0 .. MaxTouches
    BY DEF IpcInv, IpcTypeOK
  <1>2. touches < MaxTouches => touches + 1 \in 0 .. MaxTouches  BY <1>1, IpcServerConstants
  <1>3. /\ "away" \in ClientStates /\ "knocking" \in ClientStates /\ "open" \in ClientStates
        /\ "asking" \in ClientStates /\ "closing" \in ClientStates /\ "gone" \in ClientStates
    BY DEF ClientStates
  <1>4. CASE Connect(o)
    <2>1. /\ client[o] = "away" /\ client' = [client EXCEPT ![o] = "knocking"]
          /\ touches < MaxTouches /\ touches' = touches + 1
          /\ UNCHANGED <<table, replyTo, message, asked, serving>>
      BY <1>4 DEF Connect, Moves
    <2>2. asked' \in [Overlays -> Requests] /\ touches' \in 0 .. MaxTouches
      BY <1>1, <1>2, <2>1
    <2>3. (client[o] \in {"away", "knocking"}) = ("knocking" \in {"away", "knocking"})
      BY <2>1
    <2>4. client[o] \notin {"served", "gone"}  BY <2>1
    <2>5. QED  BY <1>3, <2>1, <2>2, <2>3, <2>4, AloneKeeps
  <1>5. CASE AskServer(o)
    <2>1. /\ client[o] = "open" /\ client' = [client EXCEPT ![o] = "asking"]
          /\ touches < MaxTouches /\ touches' = touches + 1
          /\ UNCHANGED <<table, replyTo, message, serving>>
      BY <1>5 DEF AskServer, Moves
    <2>2. PICK r \in Requests : asked' = [asked EXCEPT ![o] = r]  BY <1>5 DEF AskServer
    <2>3. asked' \in [Overlays -> Requests] /\ touches' \in 0 .. MaxTouches
      BY <1>1, <1>2, <2>1, <2>2
    <2>4. (client[o] \in {"away", "knocking"}) = ("asking" \in {"away", "knocking"})
      BY <2>1
    <2>5. client[o] \notin {"served", "gone"}  BY <2>1
    <2>6. QED  BY <1>3, <2>1, <2>3, <2>4, <2>5, AloneKeeps
  <1>6. CASE LeaveServer(o)
    <2>1. /\ client[o] = "open" /\ client' = [client EXCEPT ![o] = "closing"]
          /\ UNCHANGED <<table, replyTo, message, asked, serving, touches>>
      BY <1>6 DEF LeaveServer, Moves
    <2>2. asked' \in [Overlays -> Requests] /\ touches' \in 0 .. MaxTouches
      BY <1>1, <2>1
    <2>3. (client[o] \in {"away", "knocking"}) = ("closing" \in {"away", "knocking"})
      BY <2>1
    <2>4. client[o] \notin {"served", "gone"}  BY <2>1
    <2>5. QED  BY <1>3, <2>1, <2>2, <2>3, <2>4, AloneKeeps
  <1>7. CASE Dies(o)
    <2>1. /\ client[o] \in {"open", "asking", "served"}
          /\ client' = [client EXCEPT ![o] = "gone"]
          /\ UNCHANGED <<table, replyTo, message, asked, serving, touches>>
      BY <1>7 DEF Dies, Moves
    <2>2. asked' \in [Overlays -> Requests] /\ touches' \in 0 .. MaxTouches
      BY <1>1, <2>1
    <2>3. (client[o] \in {"away", "knocking"}) = ("gone" \in {"away", "knocking"})
      BY <2>1
    <2>4. "gone" \in {"served", "gone"}  OBVIOUS
    <2>5. QED  BY <1>3, <2>1, <2>2, <2>3, <2>4, AloneKeeps
  <1>8. QED  BY <1>4, <1>5, <1>6, <1>7

\* The server moves one overlay with nothing armed before or after.
LEMMA UnarmedKeeps ==
    ASSUME IpcInv, NEW o \in Overlays, NEW to \in ClientStates, NEW t \in Seq(Overlays),
           client' = [client EXCEPT ![o] = to], table' = t, Len(t) <= kMaxSessions, Once(t),
           ToSet(t) = IF to \in {"away", "knocking"} THEN ToSet(table) \ {o} ELSE ToSet(table) \cup {o},
           replyTo' = NoClient, UNCHANGED <<message, asked, serving, touches>>
    PROVE  IpcInv'
  <1>1. IpcTypeOK /\ RepliesToItsAsker  BY DEF IpcInv
  <1>2. /\ client' \in [Overlays -> ClientStates] /\ client'[o] = to
        /\ \A p \in Overlays : p # o => client'[p] = client[p]
    BY <1>1, OneMoves
  <1>3. IpcTypeOK'  BY <1>1, <1>2 DEF IpcTypeOK
  <1>4. ToSet(table) = {p \in Overlays : client[p] \notin {"away", "knocking"}}
    BY <1>1 DEF RepliesToItsAsker
  <1>5. ToSet(t) = {p \in Overlays : client'[p] \notin {"away", "knocking"}}
    <2>1. CASE to \in {"away", "knocking"}
      <3>1. ToSet(t) = ToSet(table) \ {o}  BY <2>1
      <3>2. QED  BY <1>2, <1>4, <2>1, <3>1
    <2>2. CASE to \notin {"away", "knocking"}
      <3>1. ToSet(t) = ToSet(table) \cup {o}  BY <2>2
      <3>2. QED  BY <1>2, <1>4, <2>2, <3>1
    <2>3. QED  BY <2>1, <2>2
  <1>6. serving  BY <1>1 DEF RepliesToItsAsker
  <1>7. \A i, j \in 1 .. Len(t) : t[i] = t[j] => i = j  BY DEF Once
  <1>8. RepliesToItsAsker'  BY <1>5, <1>6, <1>7 DEF RepliesToItsAsker
  <1>9. QED  BY <1>3, <1>8 DEF IpcInv

LEMMA ServeKeeps ==
    ASSUME IpcInv, Serve
    PROVE  IpcInv'
  <1>1. /\ table \in Seq(Overlays) /\ Len(table) <= kMaxSessions
        /\ client \in [Overlays -> ClientStates] /\ asked \in [Overlays -> Requests]
        /\ replyTo \in Overlays \cup {NoClient}
    BY DEF IpcInv, IpcTypeOK
  <1>2. /\ serving /\ Once(table)
        /\ replyTo # NoClient => message.to = replyTo /\ client[replyTo] \in {"served", "gone"}
        /\ ToSet(table) = {o \in Overlays : client[o] \notin {"away", "knocking"}}
    BY DEF IpcInv, RepliesToItsAsker, Once
  <1>3. /\ "away" \in ClientStates /\ "knocking" \in ClientStates /\ "open" \in ClientStates
        /\ "served" \in ClientStates
    BY DEF ClientStates
  <1>4. PICK n \in Nat : n = Len(table) /\ n <= kMaxSessions  BY <1>1, LenProperties
  <1>5. kMaxSessions \in Nat  BY IpcServerConstants
  <1>6. n - 1 <= kMaxSessions /\ (n < kMaxSessions => n + 1 <= kMaxSessions)  BY <1>4, <1>5
  <1>7. CASE SendReply
    <2>1. PICK o \in Overlays : o = replyTo /\ client[o] \in {"served", "gone"}
      BY <1>1, <1>2, <1>7 DEF SendReply
    <2>2. /\ serving' = (client[o] \in {"served", "gone"})
          /\ client' = [client EXCEPT ![o] = IF @ = "gone" THEN "away"
                                             ELSE IF @ = "served" THEN "open" ELSE @]
          /\ table' = IF client[o] = "gone" /\ o \in ToSet(table) THEN Drops(o) ELSE table
          /\ replyTo' = NoClient /\ UNCHANGED <<message, asked, touches>>
      BY <1>7, <2>1 DEF SendReply, Disarmed
    <2>3. serving' = TRUE /\ serving = TRUE
      BY <1>2, <2>1, <2>2 DEF IpcInv, IpcTypeOK
    <2>4. o \in ToSet(table)  BY <1>2, <2>1
    <2>5. CASE client[o] = "gone"
      <3>1. client' = [client EXCEPT ![o] = "away"] /\ table' = Drops(o)
        BY <1>1, <2>2, <2>4, <2>5
      <3>2. PICK t : t = Drops(o)  OBVIOUS
      <3>3. /\ t \in Seq(Overlays) /\ Len(t) = n - 1 /\ Once(t)
            /\ ToSet(t) = ToSet(table) \ {o}
        BY <1>1, <1>2, <1>4, <2>4, <3>2, DropsOne
      <3>4. Len(t) <= kMaxSessions  BY <1>6, <3>3
      <3>5. QED  BY <1>3, <2>2, <2>3, <3>1, <3>2, <3>3, <3>4, UnarmedKeeps
    <2>6. CASE client[o] = "served"
      <3>1. client' = [client EXCEPT ![o] = "open"] /\ table' = table
        BY <1>1, <2>2, <2>6
      <3>2. ToSet(table) = ToSet(table) \cup {o}  BY <2>4
      <3>3. QED  BY <1>1, <1>2, <1>3, <2>2, <2>3, <3>1, <3>2, UnarmedKeeps
    <2>7. QED  BY <2>1, <2>5, <2>6
  <1>8. ASSUME NEW o \in Overlays, Accept(o) PROVE IpcInv'
    <2>1. /\ client[o] = "knocking" /\ replyTo = NoClient
          /\ client' = [client EXCEPT ![o] = IF n < kMaxSessions THEN "open" ELSE "away"]
          /\ table' = IF n < kMaxSessions THEN Append(table, o) ELSE table
          /\ UNCHANGED <<replyTo, message, asked, serving, touches>>
      BY <1>4, <1>8 DEF Accept, Moves
    <2>2. o \notin ToSet(table)  BY <1>2, <2>1
    <2>3. CASE n < kMaxSessions
      <3>1. PICK t : t = Append(table, o)  OBVIOUS
      <3>2. /\ t \in Seq(Overlays) /\ Len(t) = n + 1 /\ Once(t)
            /\ ToSet(t) = ToSet(table) \cup {o}
        BY <1>1, <1>2, <1>4, <2>2, <3>1, TakesOneIn
      <3>3. Len(t) <= kMaxSessions  BY <1>6, <2>3, <3>2
      <3>4. client' = [client EXCEPT ![o] = "open"] /\ table' = t  BY <2>1, <2>3, <3>1
      <3>5. QED  BY <1>3, <2>1, <3>2, <3>3, <3>4, UnarmedKeeps
    <2>4. CASE ~(n < kMaxSessions)
      <3>1. client' = [client EXCEPT ![o] = "away"] /\ table' = table  BY <2>1, <2>4
      <3>2. ToSet(table) = ToSet(table) \ {o}  BY <2>2
      <3>3. QED  BY <1>1, <1>2, <1>3, <2>1, <3>1, <3>2, UnarmedKeeps
    <2>5. QED  BY <2>3, <2>4
  <1>9. ASSUME NEW o \in Overlays, Hangup(o) PROVE IpcInv'
    <2>1. /\ o \in ToSet(table) /\ replyTo = NoClient
          /\ client' = [client EXCEPT ![o] = "away"] /\ table' = Drops(o)
          /\ UNCHANGED <<replyTo, message, asked, serving, touches>>
      BY <1>9 DEF Hangup, Receives, Moves
    <2>2. PICK t : t = Drops(o)  OBVIOUS
    <2>3. /\ t \in Seq(Overlays) /\ Len(t) = n - 1 /\ Once(t)
          /\ ToSet(t) = ToSet(table) \ {o}
      BY <1>1, <1>2, <1>4, <2>1, <2>2, DropsOne
    <2>4. Len(t) <= kMaxSessions  BY <1>6, <2>3
    <2>5. QED  BY <1>3, <2>1, <2>2, <2>3, <2>4, UnarmedKeeps
  <1>10. ASSUME NEW o \in Overlays, Handle(o) PROVE IpcInv'
    <2>1. /\ o \in ToSet(table) /\ client' = [client EXCEPT ![o] = "served"]
          /\ asked' = [asked EXCEPT ![o] = NoRequest] /\ replyTo' = o
          /\ UNCHANGED <<table, serving, touches>>
      BY <1>10 DEF Handle, Receives, Moves, Arms
    <2>2. PICK answer \in HandleRequest(asked[o]) :
            message' = [to |-> o, error |-> answer.error, bytes |-> answer.bytes,
                        whole |-> answer.whole]
      BY <1>10 DEF Handle
    <2>3. asked[o] \in Requests  BY <1>1
    <2>4. answer.error \in Errors  BY <2>3, AnswersSay
    <2>5. message'.to = o /\ message'.error \in Errors  BY <2>2, <2>4
    <2>6. asked' \in [Overlays -> Requests]  BY <1>1, <2>1, NoRequestIsOne
    <2>7. IpcTypeOK  BY DEF IpcInv
    <2>8. /\ client' \in [Overlays -> ClientStates] /\ client'[o] = "served"
          /\ \A p \in Overlays : p # o => client'[p] = client[p]
      BY <1>3, <2>1, <2>7, OneMoves
    <2>9. IpcTypeOK'  BY <2>1, <2>5, <2>6, <2>7, <2>8 DEF IpcTypeOK
    <2>10. ToSet(table) = {p \in Overlays : client'[p] \notin {"away", "knocking"}}
      BY <1>2, <2>1, <2>8
    <2>11. RepliesToItsAsker'
      BY <1>2, <2>1, <2>5, <2>8, <2>10 DEF RepliesToItsAsker, Once
    <2>12. QED  BY <2>9, <2>11 DEF IpcInv
  <1>11. QED  BY <1>7, <1>8, <1>9, <1>10 DEF Serve

LEMMA IpcSteps ==
    ASSUME IpcInv, [IpcNext]_ipcVars
    PROVE  IpcInv'
  <1>1. CASE Serve  BY <1>1, ServeKeeps
  <1>2. CASE \E o \in Overlays : Connect(o) \/ AskServer(o) \/ LeaveServer(o) \/ Dies(o)
    BY <1>2, OverlaysKeep
  <1>3. CASE UNCHANGED ipcVars
    BY <1>3 DEF ipcVars, IpcInv, IpcTypeOK, RepliesToItsAsker
  <1>4. QED  BY <1>1, <1>2, <1>3 DEF IpcNext

\* Of the port: each session has one entry, and a reply is for who waits for it.
THEOREM IpcInvariance == IpcSpec => []IpcInv
  BY IpcBegins, IpcSteps, PTL DEF IpcSpec

\* The table, the buffer and the overlays hold what they are declared to, and
\* the table no more sessions than the port takes, for any number of overlays.
THEOREM IpcTypeCorrect == IpcSpec => []IpcTypeOK
  <1>1. IpcInv => IpcTypeOK  BY DEF IpcInv
  <1>2. QED  BY <1>1, IpcInvariance, PTL

\* The service stays up and a reply goes to the one whose answer it is, however
\* sessions open, close and die while it stands in the buffer.
THEOREM AReplyIsItsAskers == IpcSpec => []RepliesToItsAsker
  <1>1. IpcInv => RepliesToItsAsker  BY DEF IpcInv
  <1>2. QED  BY <1>1, IpcInvariance, PTL

-----------------------------------------------------------------------------
(* Remote installs.  What a console keeps a claim of is bounded: the page  *)
(* it takes stops at kMaxClaims with the ones it holds counted in.         *)

BoundedClaims == {S \in SUBSET InstallRequests : IsFiniteSet(S) /\ Cardinality(S) <= MaxClaims}
InstallJob ==
    [step : JobStep, link : Servers, on : BOOLEAN, at : Nat, since : Nat, then : JobStep,
     todo : SUBSET InstallRequests, settled : SUBSET InstallRequests,
     given_up : SUBSET InstallRequests, tracked : BoundedClaims]

BoardTyped == board \in [Roms -> {"absent", "pending"} \cup Ends]
KeptTyped ==
    /\ claims \in BoundedClaims /\ abandoned \in SUBSET InstallRequests
    /\ registered \in Switch /\ refused \in BOOLEAN
RemoteTyped == requests \in [InstallRequests -> RequestState] /\ told \in [Servers -> Switch]

\* The address changes once, and the generation counts that and the pairing.
GenerationCounts ==
    /\ address \in Servers /\ paired \in BOOLEAN /\ wanted \in BOOLEAN
    /\ address = "a" => paired /\ generation = 0
    /\ address = "b" => generation = IF paired THEN 2 ELSE 1
UpsetsCount == upsets \in 0 .. MaxUpsets /\ installTouches \in 0 .. MaxInstallTouches

InstallsInv ==
    /\ BoardTyped /\ KeptTyped /\ RemoteTyped /\ GenerationCounts /\ UpsetsCount
    /\ job \in InstallJob

LEMMA InstallsConstants ==
    /\ MaxClaims \in Nat /\ MaxClaims # 0 /\ MaxUpsets \in Nat /\ MaxInstallTouches \in Nat
    /\ ServerOf \in [InstallRequests -> Servers] /\ RomOf \in [InstallRequests -> Roms]
    /\ InstallRequests \subseteq Nat
  BY InstallsAssumption DEF Servers

LEMMA NoClaimsFit == {} \in BoundedClaims
  <1>1. IsFiniteSet({}) /\ Cardinality({}) = 0  BY FS_EmptySet
  <1>2. 0 <= MaxClaims  BY InstallsConstants
  <1>3. QED  BY <1>1, <1>2 DEF BoundedClaims

LEMMA FewerClaimsFit ==
    ASSUME NEW C \in BoundedClaims, NEW D, D \subseteq C
    PROVE  D \in BoundedClaims
  <1>1. IsFiniteSet(C) /\ Cardinality(C) <= MaxClaims /\ C \subseteq InstallRequests
    BY DEF BoundedClaims
  <1>2. /\ IsFiniteSet(D) /\ Cardinality(D) <= Cardinality(C)
        /\ Cardinality(C) \in Nat /\ Cardinality(D) \in Nat
    BY <1>1, FS_Subset, FS_CardinalityType
  <1>3. Cardinality(D) <= MaxClaims  BY <1>1, <1>2, InstallsConstants
  <1>4. QED  BY <1>1, <1>2, <1>3 DEF BoundedClaims

LEMMA OneMoreClaimFits ==
    ASSUME NEW C \in BoundedClaims, Cardinality(C) < MaxClaims, NEW q \in InstallRequests
    PROVE  C \cup {q} \in BoundedClaims
  <1>1. IsFiniteSet(C) /\ C \subseteq InstallRequests  BY DEF BoundedClaims
  <1>2. Cardinality(C) \in Nat  BY <1>1, FS_CardinalityType
  <1>3. IsFiniteSet(C \cup {q}) /\ Cardinality(C \cup {q}) \in {Cardinality(C), Cardinality(C) + 1}
    BY <1>1, FS_AddElement
  <1>4. Cardinality(C \cup {q}) <= MaxClaims  BY <1>2, <1>3, InstallsConstants
  <1>5. QED  BY <1>1, <1>3, <1>4 DEF BoundedClaims

LEMMA NoJobIsOne == NoJob \in InstallJob
  BY NoClaimsFit DEF NoJob, InstallJob, JobStep, Servers

LEMMA VerdictsAreStates ==
    ASSUME BoardTyped, NEW q \in InstallRequests, HasVerdict(q)
    PROVE  VerdictFor(q) \in RequestState
  <1>1. RomOf[q] \in Roms  BY InstallsConstants
  <1>2. board[RomOf[q]] \in {"absent", "done", "already", "failed"}
    BY <1>1 DEF BoardTyped, Ends, HasVerdict
  <1>3. QED  BY <1>2 DEF VerdictFor, RequestState

LEMMA InstallsBegin == InstallsInit => InstallsInv
  <1> SUFFICES ASSUME InstallsInit PROVE InstallsInv  OBVIOUS
  <1>1. BoardTyped  BY DEF InstallsInit, BoardTyped
  <1>2. KeptTyped  BY NoClaimsFit DEF InstallsInit, KeptTyped, Switch
  <1>3. RemoteTyped  BY DEF InstallsInit, RemoteTyped, RequestState
  <1>4. GenerationCounts  BY DEF InstallsInit, GenerationCounts, Servers
  <1>5. UpsetsCount  BY InstallsConstants DEF InstallsInit, UpsetsCount
  <1>6. job \in InstallJob  BY NoJobIsOne DEF InstallsInit
  <1>7. QED  BY <1>1, <1>2, <1>3, <1>4, <1>5, <1>6 DEF InstallsInv

\* The queue's own steps keep its type.
LEMMA BoardKeeps ==
    ASSUME BoardTyped,
           \/ \E r \in Roms : Ask(r) \/ Withdraw(r)
           \/ \E r \in Roms, end \in Ends : End(r, end)
           \/ UNCHANGED boardVars
    PROVE  BoardTyped'
  <1>1. CASE \E r \in Roms : Ask(r)
    <2>1. PICK r \in Roms : Ask(r)  BY <1>1
    <2>2. CASE board' = [board EXCEPT ![r] = "pending"]  BY <2>2 DEF BoardTyped
    <2>3. CASE \E old \in Roms \ {r} :
                 board' = [board EXCEPT ![r] = "pending", ![old] = "absent"]
      BY <2>3 DEF BoardTyped
    <2>4. QED  BY <2>1, <2>2, <2>3 DEF Ask
  <1>2. CASE \E r \in Roms : Withdraw(r)  BY <1>2 DEF Withdraw, BoardTyped
  <1>3. CASE \E r \in Roms, end \in Ends : End(r, end)  BY <1>3 DEF End, BoardTyped
  <1>4. CASE UNCHANGED boardVars  BY <1>4 DEF boardVars, BoardTyped
  <1>5. QED  BY <1>1, <1>2, <1>3, <1>4

\* An upset is counted, and what is not one leaves the count.
LEMMA UpsetsKeep ==
    ASSUME UpsetsCount, Upset \/ Smooth, Touched \/ UNCHANGED installTouches
    PROVE  UpsetsCount'
  <1>1. upsets' \in 0 .. MaxUpsets
    BY InstallsConstants DEF UpsetsCount, Upset, Smooth
  <1>2. installTouches' \in 0 .. MaxInstallTouches
    BY InstallsConstants DEF UpsetsCount, Touched
  <1>3. QED  BY <1>1, <1>2 DEF UpsetsCount

\* What a step of the worker's leaves alone keeps its type.
WorkerSteps ==
    /\ BoardTyped' /\ KeptTyped' /\ RemoteTyped' /\ UpsetsCount' /\ job' \in InstallJob
    /\ UNCHANGED console

LEMMA WorkerStepsKeep ==
    ASSUME InstallsInv, WorkerSteps
    PROVE  InstallsInv'
  <1>1. GenerationCounts'
    BY DEF InstallsInv, WorkerSteps, GenerationCounts, console
  <1>2. QED  BY <1>1 DEF InstallsInv, WorkerSteps

LEMMA OwnersKeep ==
    ASSUME InstallsInv,
           \/ \E q \in InstallRequests : WebQueues(q) \/ WebCancels(q)
           \/ \E r \in Roms : OwnerDequeues(r)
           \/ OwnerSwitches \/ ServerChanges \/ Pairs \/ Reboots
    PROVE  InstallsInv'
  <1>1. BoardTyped /\ KeptTyped /\ RemoteTyped /\ GenerationCounts /\ UpsetsCount /\ job \in InstallJob
    BY DEF InstallsInv
  <1>2. CASE \E q \in InstallRequests : WebQueues(q) \/ WebCancels(q)
    <2>1. PICK q \in InstallRequests, state \in {"pending", "failed"} :
            requests' = [requests EXCEPT ![q] = state]
      BY <1>2 DEF WebQueues, WebCancels
    <2>2. /\ UNCHANGED <<boardVars, kept, told, console, job, upsets>>
          /\ Touched \/ UNCHANGED installTouches
      BY <1>2 DEF WebQueues, WebCancels
    <2>3. state \in RequestState  BY DEF RequestState
    <2>4. RemoteTyped'  BY <1>1, <2>1, <2>2, <2>3 DEF RemoteTyped
    <2>5. BoardTyped' /\ KeptTyped'
      BY <1>1, <2>2 DEF BoardTyped, boardVars, KeptTyped, kept
    <2>6. UpsetsCount'  BY <1>1, <2>2, UpsetsKeep DEF Smooth
    <2>7. QED  BY <1>1, <2>2, <2>4, <2>5, <2>6, WorkerStepsKeep DEF WorkerSteps
  <1>3. CASE \E r \in Roms : OwnerDequeues(r)
    <2>1. /\ \E r \in Roms : Withdraw(r)
          /\ Touched /\ UNCHANGED <<kept, remote, console, job, upsets>>
      BY <1>3 DEF OwnerDequeues
    <2>2. BoardTyped'  BY <1>1, <2>1, BoardKeeps
    <2>3. KeptTyped' /\ RemoteTyped'
      BY <1>1, <2>1 DEF KeptTyped, kept, RemoteTyped, remote
    <2>4. UpsetsCount'  BY <1>1, <2>1, UpsetsKeep DEF Smooth
    <2>5. QED  BY <1>1, <2>1, <2>2, <2>3, <2>4, WorkerStepsKeep DEF WorkerSteps
  <1>4. CASE OwnerSwitches
    <2>1. /\ Touched /\ wanted' = ~wanted
          /\ UNCHANGED <<boardVars, kept, remote, address, paired, generation, job, upsets>>
      BY <1>4 DEF OwnerSwitches
    <2>2. BoardTyped' /\ KeptTyped' /\ RemoteTyped'
      BY <1>1, <2>1 DEF BoardTyped, boardVars, KeptTyped, kept, RemoteTyped, remote
    <2>3. UpsetsCount'  BY <1>1, <2>1, UpsetsKeep DEF Smooth
    <2>4. wanted' \in BOOLEAN  BY <1>1, <2>1 DEF GenerationCounts
    <2>5. GenerationCounts'  BY <1>1, <2>1, <2>4 DEF GenerationCounts
    <2>6. QED  BY <1>1, <2>1, <2>2, <2>3, <2>5 DEF InstallsInv
  <1>5. CASE ServerChanges
    <2>1. /\ Upset /\ address = "a" /\ address' = "b" /\ paired' = FALSE
          /\ generation' = generation + 1 /\ claims' = {} /\ abandoned' = {}
          /\ registered' = "unset" /\ refused' = FALSE
          /\ UNCHANGED <<boardVars, remote, wanted, job, installTouches>>
      BY <1>5 DEF ServerChanges, ForgetServerLocked
    <2>2. BoardTyped' /\ RemoteTyped'
      BY <1>1, <2>1 DEF BoardTyped, boardVars, RemoteTyped, remote
    <2>3. KeptTyped'  BY <2>1, NoClaimsFit DEF KeptTyped, Switch
    <2>4. UpsetsCount'  BY <1>1, <2>1, UpsetsKeep
    <2>5. GenerationCounts'
      <3>1. generation = 0 /\ wanted \in BOOLEAN  BY <1>1, <2>1 DEF GenerationCounts
      <3>2. address' = "b" /\ generation' = 1 /\ paired' = FALSE /\ wanted' \in BOOLEAN
        BY <2>1, <3>1
      <3>3. QED  BY <3>2 DEF GenerationCounts, Servers
    <2>6. QED  BY <1>1, <2>1, <2>2, <2>3, <2>4, <2>5 DEF InstallsInv
  <1>6. CASE Pairs
    <2>1. /\ ~paired /\ paired' = TRUE
          /\ generation' = generation + 1 /\ claims' = {} /\ abandoned' = {}
          /\ registered' = "unset" /\ refused' = FALSE
          /\ UNCHANGED <<boardVars, remote, address, wanted, job, upsets, installTouches>>
      BY <1>6 DEF Pairs, ForgetServerLocked
    <2>2. BoardTyped' /\ RemoteTyped'
      BY <1>1, <2>1 DEF BoardTyped, boardVars, RemoteTyped, remote
    <2>3. KeptTyped'  BY <2>1, NoClaimsFit DEF KeptTyped, Switch
    <2>4. UpsetsCount'  BY <1>1, <2>1, UpsetsKeep DEF Smooth
    <2>5. GenerationCounts'
      <3>1. address = "b" /\ generation = 1 /\ wanted \in BOOLEAN
        BY <1>1, <2>1 DEF GenerationCounts, Servers
      <3>2. address' = "b" /\ generation' = 2 /\ paired' = TRUE /\ wanted' \in BOOLEAN
        BY <2>1, <3>1
      <3>3. QED  BY <3>2 DEF GenerationCounts, Servers
    <2>6. QED  BY <1>1, <2>1, <2>2, <2>3, <2>4, <2>5 DEF InstallsInv
  <1>7. CASE Reboots
    <2>1. /\ Upset /\ claims' = {} /\ abandoned' = {} /\ registered' = "unset" /\ refused' = FALSE
          /\ job' = NoJob /\ UNCHANGED <<boardVars, remote, console, installTouches>>
      BY <1>7 DEF Reboots, Leaves
    <2>2. BoardTyped' /\ RemoteTyped'
      BY <1>1, <2>1 DEF BoardTyped, boardVars, RemoteTyped, remote
    <2>3. KeptTyped'  BY <2>1, NoClaimsFit DEF KeptTyped, Switch
    <2>4. UpsetsCount'  BY <1>1, <2>1, UpsetsKeep
    <2>5. QED  BY <2>1, <2>2, <2>3, <2>4, NoJobIsOne, WorkerStepsKeep DEF WorkerSteps
  <1>8. QED  BY <1>2, <1>3, <1>4, <1>5, <1>6, <1>7

\* What a server is asked for becomes what it says.
LEMMA RequestsKeep ==
    ASSUME RemoteTyped
    PROVE  /\ \A q \in InstallRequests, s \in RequestState :
                [requests EXCEPT ![q] = s] \in [InstallRequests -> RequestState]
           /\ Claimed \in [InstallRequests -> RequestState]
           /\ \A S \in SUBSET InstallRequests :
                [q \in InstallRequests |-> IF q \in S THEN "failed" ELSE Claimed[q]]
                  \in [InstallRequests -> RequestState]
           /\ \A S \in SUBSET InstallRequests :
                [q \in InstallRequests |-> IF q \in S THEN "failed" ELSE requests[q]]
                  \in [InstallRequests -> RequestState]
  <1>1. requests \in [InstallRequests -> RequestState]  BY DEF RemoteTyped
  <1>2. "taken" \in RequestState /\ "failed" \in RequestState  BY DEF RequestState
  <1>3. Claimed \in [InstallRequests -> RequestState]  BY <1>1, <1>2 DEF Claimed
  <1>4. QED  BY <1>1, <1>2, <1>3

LEMMA PagesAreRequests == Page(job.link) \subseteq InstallRequests /\ Held(job.link) \subseteq InstallRequests
  BY DEF Page, Held

LEMMA TicksKeep ==
    ASSUME InstallsInv, DrainStarts \/ DrainEnds \/ TickStarts \/ ServeInstalls
    PROVE  WorkerSteps
  <1>1. BoardTyped /\ KeptTyped /\ RemoteTyped /\ GenerationCounts /\ UpsetsCount /\ job \in InstallJob
    BY DEF InstallsInv
  <1>2. claims \in SUBSET InstallRequests /\ generation \in Nat /\ address \in Servers /\ wanted \in BOOLEAN
    BY <1>1 DEF KeptTyped, BoundedClaims, GenerationCounts, Servers
  <1>3. /\ "drain" \in JobStep /\ "settle" \in JobStep /\ "tick" \in JobStep /\ "register" \in JobStep
        /\ "claim" \in JobStep
    BY DEF JobStep
  <1>4. /\ UNCHANGED <<kept, remote, console, upsets, installTouches>>
        /\ \/ \E r \in Roms, end \in Ends : End(r, end)
           \/ UNCHANGED boardVars
    BY DEF DrainStarts, DrainEnds, TickStarts, ServeInstalls
  <1>5. BoardTyped'  BY <1>1, <1>4, BoardKeeps
  <1>6. KeptTyped' /\ RemoteTyped'
    BY <1>1, <1>4 DEF KeptTyped, kept, RemoteTyped, remote
  <1>7. UpsetsCount'  BY <1>1, <1>4, UpsetsKeep DEF Smooth
  <1>8. job' \in InstallJob
    <2>1. CASE DrainStarts
      BY <1>2, <1>3, <2>1, NoJobIsOne DEF DrainStarts, InstallJob
    <2>2. CASE DrainEnds  BY <1>1, <1>2, <1>3, <2>2 DEF DrainEnds, InstallJob
    <2>3. CASE TickStarts
      BY <1>2, <1>3, <2>3, NoJobIsOne DEF TickStarts, InstallJob
    <2>4. CASE ServeInstalls
      <3>1. \/ job' = NoJob
            \/ job' = [job EXCEPT !.step = "register", !.at = generation]
            \/ job' = [Settling("claim") EXCEPT !.at = generation]
        BY <2>4 DEF ServeInstalls, Leaves
      <3>2. Settling("claim") \in InstallJob
        BY <1>1, <1>2, <1>3 DEF Settling, InstallJob
      <3>3. QED  BY <1>1, <1>2, <1>3, <3>1, <3>2, NoJobIsOne DEF InstallJob
    <2>5. QED  BY <2>1, <2>2, <2>3, <2>4
  <1>9. QED  BY <1>4, <1>5, <1>6, <1>7, <1>8 DEF WorkerSteps

LEMMA RegisterKeeps ==
    ASSUME InstallsInv, Register
    PROVE  WorkerSteps
  <1>1. BoardTyped /\ KeptTyped /\ RemoteTyped /\ GenerationCounts /\ UpsetsCount /\ job \in InstallJob
    BY DEF InstallsInv
  <1>2. /\ claims \in BoundedClaims /\ abandoned \in SUBSET InstallRequests
        /\ registered \in Switch /\ refused \in BOOLEAN /\ claims \in SUBSET InstallRequests
        /\ generation \in Nat
    <2>1. /\ claims \in BoundedClaims /\ abandoned \in SUBSET InstallRequests
          /\ registered \in Switch /\ refused \in BOOLEAN
      BY <1>1 DEF KeptTyped
    <2>2. claims \in SUBSET InstallRequests  BY <2>1 DEF BoundedClaims
    <2>3. generation \in Nat  BY <1>1 DEF GenerationCounts, Servers
    <2>4. QED  BY <2>1, <2>2, <2>3
  <1>3. /\ "settle" \in JobStep /\ "claim" \in JobStep /\ "hand_back" \in JobStep
        /\ "on" \in Switch /\ "off" \in Switch
    BY DEF JobStep, Switch
  <1>4. UNCHANGED <<boardVars, requests, console, installTouches>>  BY DEF Register
  <1>5. BoardTyped'  BY <1>1, <1>4, BoardKeeps
  <1>6. UpsetsCount'
    <2>1. Smooth \/ Upset  BY DEF Register
    <2>2. QED  BY <1>1, <1>4, <2>1, UpsetsKeep
  <1>7. RemoteTyped'
    <2>1. UNCHANGED told \/ told' = [told EXCEPT ![job.link] = SwitchFor(job.on)]
      BY DEF Register
    <2>2. SwitchFor(job.on) \in Switch  BY <1>3 DEF SwitchFor
    <2>3. told' \in [Servers -> Switch]  BY <1>1, <2>1, <2>2 DEF RemoteTyped
    <2>4. QED  BY <1>1, <1>4, <2>3 DEF RemoteTyped
  <1>8. KeptTyped'
    <2>1. \/ IF generation = job.at
             THEN registered' = "on" /\ UNCHANGED <<claims, abandoned, refused>>
             ELSE UNCHANGED kept
          \/ UNCHANGED kept
          \/ IF generation = job.at
             THEN refused' = TRUE /\ UNCHANGED <<claims, abandoned, registered>>
             ELSE UNCHANGED kept
      BY DEF Register, RecordIfCurrent
    <2>2. QED  BY <1>1, <1>2, <1>3, <2>1 DEF KeptTyped, kept
  <1>9. job' \in InstallJob
    <2>1. job' = Settling("claim") \/ job' = Settling("hand_back") \/ job' = NoJob
      BY DEF Register, Leaves
    <2>2. Settling("claim") \in InstallJob /\ Settling("hand_back") \in InstallJob
      BY <1>1, <1>2, <1>3 DEF Settling, InstallJob
    <2>3. QED  BY <2>1, <2>2, NoJobIsOne
  <1>10. QED  BY <1>4, <1>5, <1>6, <1>7, <1>8, <1>9 DEF WorkerSteps

LEMMA SettlesKeep ==
    ASSUME InstallsInv, Settled \/ \E q \in InstallRequests : Report(q)
    PROVE  WorkerSteps
  <1>1. BoardTyped /\ KeptTyped /\ RemoteTyped /\ GenerationCounts /\ UpsetsCount /\ job \in InstallJob
    BY DEF InstallsInv
  <1>2. UNCHANGED <<boardVars, told, console, installTouches>>
    BY DEF Settled, Report, remote
  <1>3. BoardTyped'  BY <1>1, <1>2, BoardKeeps
  <1>4. /\ job.todo \in SUBSET InstallRequests /\ job.settled \in SUBSET InstallRequests
        /\ job.given_up \in SUBSET InstallRequests /\ job.then \in JobStep
    BY <1>1 DEF InstallJob
  <1>5. CASE Settled
    <2>1. /\ IF generation = job.since
             THEN /\ claims' = claims \ job.settled /\ abandoned' = abandoned \cup job.given_up
                  /\ UNCHANGED <<registered, refused>>
             ELSE UNCHANGED kept
          /\ job' = [job EXCEPT !.step = job.then, !.settled = {}, !.given_up = {}]
          /\ UNCHANGED <<remote, upsets>>
      BY <1>5 DEF Settled, RecordIfCurrent
    <2>2. claims \ job.settled \in BoundedClaims
      BY <1>1, FewerClaimsFit DEF KeptTyped
    <2>3. KeptTyped'  BY <1>1, <1>4, <2>1, <2>2 DEF KeptTyped, kept
    <2>4. job' \in InstallJob  BY <1>1, <1>4, <2>1 DEF InstallJob
    <2>5. RemoteTyped'  BY <1>1, <2>1 DEF RemoteTyped, remote
    <2>6. UpsetsCount'  BY <1>1, <1>2, <2>1, UpsetsKeep DEF Smooth
    <2>7. QED  BY <1>2, <1>3, <2>3, <2>4, <2>5, <2>6 DEF WorkerSteps
  <1>6. ASSUME NEW q \in InstallRequests, Report(q) PROVE WorkerSteps
    <2>1. UNCHANGED kept /\ (Smooth \/ Upset)  BY <1>6 DEF Report
    <2>2. KeptTyped'  BY <1>1, <2>1 DEF KeptTyped, kept
    <2>3. UpsetsCount'  BY <1>1, <1>2, <2>1, UpsetsKeep
    <2>4. requests' \in [InstallRequests -> RequestState]
      <3>1. \/ requests' = requests
            \/ HasVerdict(q) /\ requests' = [requests EXCEPT ![q] = VerdictFor(q)]
        BY <1>6 DEF Report
      <3>2. QED  BY <1>1, <3>1, VerdictsAreStates, RequestsKeep DEF RemoteTyped
    <2>5. RemoteTyped'  BY <1>1, <1>2, <2>4 DEF RemoteTyped
    <2>6. job' \in InstallJob
      <3>1. \/ job' = [job EXCEPT !.todo = @ \ {q}]
            \/ job' = [job EXCEPT !.todo = @ \ {q}, !.settled = @ \cup {q}]
            \/ job' = [job EXCEPT !.todo = {}]
            \/ job' = [job EXCEPT !.todo = @ \ {q}, !.settled = @ \cup {q},
                                  !.given_up = @ \cup {q}]
        BY <1>6 DEF Report
      <3>2. /\ job.todo \ {q} \in SUBSET InstallRequests
            /\ job.settled \cup {q} \in SUBSET InstallRequests
            /\ job.given_up \cup {q} \in SUBSET InstallRequests
        BY <1>4, <1>6
      <3>3. QED  BY <1>1, <3>1, <3>2 DEF InstallJob
    <2>7. QED  BY <1>2, <1>3, <2>1, <2>2, <2>3, <2>5, <2>6 DEF WorkerSteps
  <1>7. QED  BY <1>5, <1>6

LEMMA ClaimsKeep ==
    ASSUME InstallsInv, Claim \/ Keep \/ \E q \in InstallRequests : Take(q)
    PROVE  WorkerSteps
  <1>1. BoardTyped /\ KeptTyped /\ RemoteTyped /\ GenerationCounts /\ UpsetsCount /\ job \in InstallJob
    BY DEF InstallsInv
  <1>2. UNCHANGED <<told, console, installTouches>>  BY DEF Claim, Keep, Take, remote
  <1>3. /\ claims \in BoundedClaims /\ abandoned \in SUBSET InstallRequests
        /\ registered \in Switch /\ refused \in BOOLEAN
    BY <1>1 DEF KeptTyped
  <1>4. /\ job.todo \in SUBSET InstallRequests /\ job.tracked \in BoundedClaims
        /\ Page(job.link) \in SUBSET InstallRequests /\ "take" \in JobStep
    BY <1>1, PagesAreRequests DEF InstallJob, JobStep
  <1>5. CASE Claim
    <2>1. UNCHANGED boardVars /\ (Smooth \/ Upset)  BY <1>5 DEF Claim
    <2>2. BoardTyped' /\ UpsetsCount'  BY <1>1, <1>2, <2>1, BoardKeeps, UpsetsKeep
    <2>3. requests' = Claimed \/ requests' = requests  BY <1>5 DEF Claim
    <2>4. RemoteTyped'  BY <1>1, <1>2, <2>3, RequestsKeep DEF RemoteTyped
    <2>5. KeptTyped'
      <3>1. \/ UNCHANGED kept
            \/ IF generation = job.at
               THEN refused' = TRUE /\ UNCHANGED <<claims, abandoned, registered>>
               ELSE UNCHANGED kept
        BY <1>5 DEF Claim, RecordIfCurrent
      <3>2. QED  BY <1>3, <3>1 DEF KeptTyped, kept
    <2>6. job' \in InstallJob
      <3>1. \/ job' = NoJob
            \/ \E w \in {claims \cap Page(job.link), claims} :
                 job' = [job EXCEPT !.step = "take", !.tracked = w,
                                    !.todo = Page(job.link) \ (w \cup abandoned)]
        BY <1>5 DEF Claim, Leaves
      <3>2. ASSUME NEW w \in {claims \cap Page(job.link), claims}
            PROVE  w \in BoundedClaims /\ Page(job.link) \ (w \cup abandoned) \in SUBSET InstallRequests
        <4>1. w \subseteq claims  OBVIOUS
        <4>2. QED  BY <1>3, <1>4, <4>1, FewerClaimsFit
      <3>3. CASE job' = NoJob  BY <3>3, NoJobIsOne
      <3>4. ASSUME NEW w \in {claims \cap Page(job.link), claims},
                   job' = [job EXCEPT !.step = "take", !.tracked = w,
                                      !.todo = Page(job.link) \ (w \cup abandoned)]
            PROVE  job' \in InstallJob
        <4>1. PICK todo \in SUBSET InstallRequests : todo = Page(job.link) \ (w \cup abandoned)
          BY <3>2
        <4>2. job' = [job EXCEPT !.step = "take", !.tracked = w, !.todo = todo]
          BY <3>4, <4>1
        <4>3. w \in BoundedClaims  BY <3>2
        <4>4. QED  BY <1>1, <1>4, <4>2, <4>3 DEF InstallJob
      <3>5. QED  BY <3>1, <3>3, <3>4
    <2>7. QED  BY <1>2, <2>2, <2>4, <2>5, <2>6 DEF WorkerSteps
  <1>6. CASE Keep
    <2>1. /\ IF generation = job.at
             THEN claims' = job.tracked /\ UNCHANGED <<abandoned, registered, refused>>
             ELSE UNCHANGED kept
          /\ job' = NoJob /\ UNCHANGED <<boardVars, remote, upsets>>
      BY <1>6 DEF Keep, RecordIfCurrent, Leaves
    <2>2. BoardTyped' /\ UpsetsCount'
      BY <1>1, <1>2, <2>1, BoardKeeps, UpsetsKeep DEF Smooth
    <2>3. KeptTyped'  BY <1>3, <1>4, <2>1 DEF KeptTyped, kept
    <2>4. RemoteTyped'  BY <1>1, <2>1 DEF RemoteTyped, remote
    <2>5. QED  BY <1>2, <2>1, <2>2, <2>3, <2>4, NoJobIsOne DEF WorkerSteps
  <1>7. ASSUME NEW q \in InstallRequests, Take(q) PROVE WorkerSteps
    <2>1. /\ UNCHANGED <<kept, remote>> /\ (Smooth \/ Upset)
          /\ Cardinality(job.tracked) < MaxClaims
          /\ (\E r \in Roms : Ask(r)) \/ UNCHANGED boardVars
      BY <1>7, InstallsConstants DEF Take
    <2>2. BoardTyped' /\ UpsetsCount'  BY <1>1, <1>2, <2>1, BoardKeeps, UpsetsKeep
    <2>3. KeptTyped' /\ RemoteTyped'
      BY <1>1, <2>1 DEF KeptTyped, kept, RemoteTyped, remote
    <2>4. job' \in InstallJob
      <3>1. \/ job' = [job EXCEPT !.todo = @ \ {q}, !.tracked = @ \cup {q}]
            \/ job' = [job EXCEPT !.todo = @ \ {q}]
        BY <1>7 DEF Take
      <3>2. job.tracked \cup {q} \in BoundedClaims  BY <1>4, <1>7, <2>1, OneMoreClaimFits
      <3>3. job.todo \ {q} \in SUBSET InstallRequests  BY <1>4
      <3>4. QED  BY <1>1, <3>1, <3>2, <3>3 DEF InstallJob
    <2>5. QED  BY <1>2, <2>1, <2>2, <2>3, <2>4 DEF WorkerSteps
  <1>8. QED  BY <1>5, <1>6, <1>7

LEMMA HandBackKeeps ==
    ASSUME InstallsInv, HandBack
    PROVE  WorkerSteps
  <1>1. BoardTyped /\ KeptTyped /\ RemoteTyped /\ UpsetsCount  BY DEF InstallsInv
  <1>2. job' = NoJob /\ UNCHANGED <<boardVars, told, console, installTouches>> /\ (Smooth \/ Upset)
    BY DEF HandBack, Leaves
  <1>3. BoardTyped' /\ UpsetsCount'  BY <1>1, <1>2, BoardKeeps, UpsetsKeep
  <1>4. requests' \in [InstallRequests -> RequestState]
    <2>1. \/ requests' = requests
          \/ \E S \in SUBSET InstallRequests :
               \/ requests' = [q \in InstallRequests |-> IF q \in S THEN "failed" ELSE requests[q]]
               \/ requests' = [q \in InstallRequests |-> IF q \in S THEN "failed" ELSE Claimed[q]]
      <3>1. Held(job.link) \in SUBSET InstallRequests  BY PagesAreRequests
      <3>2. \A S : S \in SUBSET Held(job.link) => S \in SUBSET InstallRequests  BY <3>1
      <3>3. QED  BY <3>1, <3>2 DEF HandBack
    <2>2. QED  BY <1>1, <2>1, RequestsKeep DEF RemoteTyped
  <1>5. RemoteTyped'  BY <1>1, <1>2, <1>4 DEF RemoteTyped
  <1>6. KeptTyped'
    <2>1. \/ UNCHANGED kept
          \/ IF generation = job.at
             THEN claims' = {} /\ registered' = "off" /\ UNCHANGED <<abandoned, refused>>
             ELSE UNCHANGED kept
      BY DEF HandBack, RecordIfCurrent
    <2>2. "off" \in Switch  BY DEF Switch
    <2>3. QED  BY <1>1, <2>1, <2>2, NoClaimsFit DEF KeptTyped, kept
  <1>7. QED  BY <1>2, <1>3, <1>5, <1>6, NoJobIsOne DEF WorkerSteps

LEMMA InstallsSteps ==
    ASSUME InstallsInv, [InstallsNext]_installVars
    PROVE  InstallsInv'
  <1>1. CASE Works
    <2>1. WorkerSteps
      BY <1>1, TicksKeep, RegisterKeeps, SettlesKeep, ClaimsKeep, HandBackKeeps DEF Works
    <2>2. QED  BY <2>1, WorkerStepsKeep
  <1>2. CASE \/ \E q \in InstallRequests : WebQueues(q) \/ WebCancels(q)
             \/ \E r \in Roms : OwnerDequeues(r)
             \/ OwnerSwitches \/ ServerChanges \/ Pairs \/ Reboots
    BY <1>2, OwnersKeep
  <1>3. CASE UNCHANGED installVars
    <2>1. /\ UNCHANGED <<boardVars, kept, remote, console>>
          /\ UNCHANGED <<job, upsets, installTouches>>
      BY <1>3 DEF installVars
    <2>2. BoardTyped' /\ KeptTyped' /\ RemoteTyped'
      BY <2>1 DEF InstallsInv, BoardTyped, boardVars, KeptTyped, kept, RemoteTyped, remote
    <2>3. UpsetsCount' /\ job' \in InstallJob  BY <2>1 DEF InstallsInv, UpsetsCount
    <2>4. QED  BY <2>1, <2>2, <2>3, WorkerStepsKeep DEF WorkerSteps
  <1>4. QED  BY <1>1, <1>2, <1>3 DEF InstallsNext

\* Of remote installs: what is claimed, tracked and given up stays bounded.
THEOREM InstallsInvariance == InstallsSpec => []InstallsInv
  BY InstallsBegin, InstallsSteps, PTL DEF InstallsSpec

\* The invariant has every variable of the exchange in its type.
LEMMA InstallsTypeFollows ==
    ASSUME InstallsInv
    PROVE  InstallsTypeOK
  <1>1. BoardTyped /\ KeptTyped /\ RemoteTyped /\ GenerationCounts /\ UpsetsCount /\ job \in InstallJob
    BY DEF InstallsInv
  <1>2. claims \subseteq InstallRequests /\ Cardinality(claims) <= MaxClaims
    BY <1>1 DEF KeptTyped, BoundedClaims
  <1>3. generation \in 0 .. 2
    <2>1. CASE address = "a"  BY <1>1, <2>1 DEF GenerationCounts
    <2>2. CASE address = "b" /\ paired  BY <1>1, <2>2 DEF GenerationCounts
    <2>3. CASE address = "b" /\ ~paired  BY <1>1, <2>3 DEF GenerationCounts
    <2>4. QED  BY <1>1, <2>1, <2>2, <2>3 DEF GenerationCounts, Servers
  <1>4. generation \in 0 .. 2 * MaxUpsets + 2  BY <1>3, InstallsConstants
  <1>5. /\ job.step \in JobStep /\ job.link \in Servers /\ job.then \in JobStep
        /\ job.todo \subseteq InstallRequests
    BY <1>1 DEF InstallJob
  <1>6. job.tracked \subseteq InstallRequests  BY <1>1 DEF InstallJob, BoundedClaims
  <1>7. /\ address \in Servers /\ paired \in BOOLEAN /\ wanted \in BOOLEAN
        /\ abandoned \subseteq InstallRequests /\ registered \in Switch /\ refused \in BOOLEAN
    BY <1>1 DEF GenerationCounts, KeptTyped
  <1>8. /\ requests \in [InstallRequests -> RequestState] /\ told \in [Servers -> Switch]
        /\ upsets \in 0 .. MaxUpsets /\ installTouches \in 0 .. MaxInstallTouches
    BY <1>1 DEF RemoteTyped, UpsetsCount
  <1>9. QED  BY <1>2, <1>4, <1>5, <1>6, <1>7, <1>8 DEF InstallsTypeOK

\* No more than kMaxClaims requests are ever kept as claimed, and the worker's
\* exchange, the board and the server keep their types, for any requests.
THEOREM InstallsTypeCorrect == InstallsSpec => []InstallsTypeOK
  <1>1. InstallsInv => InstallsTypeOK  BY InstallsTypeFollows
  <1>2. QED  BY <1>1, InstallsInvariance, PTL

-----------------------------------------------------------------------------
(* All of them at once.  Whichever component is looked at, the others rest, *)
(* so each takes only steps of its own and keeps its invariant.            *)

ServicesInv ==
    /\ SchedulerInv /\ InstallsInv /\ IpcInv /\ PairingInv
    /\ BootInv /\ SessionInv /\ ConflictsInv /\ BrowseInv

LEMMA ServicesBegin == ServicesInit => ServicesInv
  <1> SUFFICES ASSUME ServicesInit PROVE ServicesInv  OBVIOUS
  <1>1. /\ SchedulerInit /\ InstallsInit /\ IpcInit /\ PairingInit /\ BootInit
        /\ SessionInit /\ ConflictsInit /\ BrowseInit
    BY Zenon DEF ServicesInit
  <1>2. QED
    BY <1>1, SchedulerBegins, InstallsBegin, IpcBegins, PairingBegins, BootBegins, SessionBegins,
       ConflictsBegin, BrowseBegins, Zenon DEF ServicesInv

\* A step of the composition is one of each component, or leaves it as it is.
LEMMA EachStepsAlone ==
    ASSUME [ServicesNext]_servicesVars
    PROVE  /\ [SchedulerNext]_schedulerVars /\ [InstallsNext]_installVars /\ [IpcNext]_ipcVars
           /\ [PairingNext]_pairingVars /\ [BootNext]_bootVars /\ [SessionNext]_sessionVars
           /\ [ConflictsNext]_conflictVars /\ [BrowseNext]_browseVars
  <1>1. SchedulerNext \/ UNCHANGED schedulerVars
    BY Zenon DEF ServicesNext, servicesVars, WireMoves, SchedulerMoves, InstallsMove, IpcMoves,
       PairingMoves, BootMoves, LibraryMoves, SessionMoves, ConflictsMove
  <1>2. InstallsNext \/ UNCHANGED installVars
    BY Zenon DEF ServicesNext, servicesVars, WireMoves, SchedulerMoves, InstallsMove, IpcMoves,
       PairingMoves, BootMoves, LibraryMoves, SessionMoves, ConflictsMove
  <1>3. IpcNext \/ UNCHANGED ipcVars
    BY Zenon DEF ServicesNext, servicesVars, WireMoves, SchedulerMoves, InstallsMove, IpcMoves,
       PairingMoves, BootMoves, LibraryMoves, SessionMoves, ConflictsMove
  <1>4. PairingNext \/ UNCHANGED pairingVars
    BY Zenon DEF ServicesNext, servicesVars, WireMoves, SchedulerMoves, InstallsMove, IpcMoves,
       PairingMoves, BootMoves, LibraryMoves, SessionMoves, ConflictsMove
  <1>5. BootNext \/ UNCHANGED bootVars
    BY Zenon DEF ServicesNext, servicesVars, WireMoves, SchedulerMoves, InstallsMove, IpcMoves,
       PairingMoves, BootMoves, LibraryMoves, SessionMoves, ConflictsMove
  <1>6. SessionNext \/ UNCHANGED sessionVars
    BY Zenon DEF ServicesNext, servicesVars, WireMoves, SchedulerMoves, InstallsMove, IpcMoves,
       PairingMoves, BootMoves, LibraryMoves, SessionMoves, ConflictsMove
  <1>7. ConflictsNext \/ UNCHANGED conflictVars
    BY Zenon DEF ServicesNext, servicesVars, WireMoves, SchedulerMoves, InstallsMove, IpcMoves,
       PairingMoves, BootMoves, LibraryMoves, SessionMoves, ConflictsMove
  <1>8. BrowseNext \/ UNCHANGED browseVars
    BY Zenon DEF ServicesNext, servicesVars, WireMoves, SchedulerMoves, InstallsMove, IpcMoves,
       PairingMoves, BootMoves, LibraryMoves, SessionMoves, ConflictsMove
  <1>9. QED  BY <1>1, <1>2, <1>3, <1>4, <1>5, <1>6, <1>7, <1>8

LEMMA ServicesStep ==
    ASSUME ServicesInv, [ServicesNext]_servicesVars
    PROVE  ServicesInv'
  <1>1. SchedulerInv' /\ InstallsInv' /\ IpcInv'
    BY EachStepsAlone, SchedulerSteps, InstallsSteps, IpcSteps DEF ServicesInv
  <1>2. PairingInv' /\ BootInv' /\ SessionInv' /\ ConflictsInv'
    BY EachStepsAlone, PairingSteps, BootSteps, SessionSteps, ConflictsSteps DEF ServicesInv
  <1>3. BrowseInv'  BY EachStepsAlone, BrowseStep, BrowseRests DEF ServicesInv
  <1>4. QED  BY <1>1, <1>2, <1>3 DEF ServicesInv

\* Each component's variables keep their types and its tables their sizes, for
\* every value of the constants.
THEOREM ServicesTypeCorrect == ServicesSpec => []ServicesTypeOK
  <1>1. SchedulerInv => SchedulerTypeOK  BY DEF SchedulerInv
  <1>2. InstallsInv => InstallsTypeOK  BY InstallsTypeFollows
  <1>3. IpcInv => IpcTypeOK  BY DEF IpcInv
  <1>4. PairingInv => PairingTypeOK  BY DEF PairingInv
  <1>5. BootInv => BootTypeOK  BY DEF BootInv
  <1>6. BrowseInv => BrowseTypeOK  BY BrowseIsTyped
  <1>7. SessionInv => SessionTypeOK  BY SessionTypeFollows
  <1>8. ConflictsInv => ConflictsTypeOK  BY ConflictsTypeFollows
  <1>9. ServicesInv => ServicesTypeOK
    BY <1>1, <1>2, <1>3, <1>4, <1>5, <1>6, <1>7, <1>8, Zenon DEF ServicesInv, ServicesTypeOK
  <1>10. QED  BY <1>9, ServicesBegin, ServicesStep, PTL DEF ServicesSpec

\* Whoever asks gets what is theirs, and only once, for every value of the
\* constants: a reply and an answer are their asker's, the clock owes one tick,
\* a degraded start is said, a press runs one restore, shown at its entry, and a
\* list's rows are the server's, in its order and without a hole.
THEOREM EachIsServed == ServicesSpec => []ServedFaithfully
  <1>1. SchedulerInv => OneCatchUp  BY DEF SchedulerInv, CreditsAgree, OneCatchUp
  <1>2. SchedulerInv => NoTickStorm  BY SpacedFollows
  <1>3. IpcInv => RepliesToItsAsker  BY DEF IpcInv
  <1>4. BootInv => DegradedIsSaid  BY DEF BootInv, BootFollows, DegradedIsSaid, Told
  <1>5. SessionInv => AnswersAreTheirOwn
    BY DEF SessionInv, AnswerHanded, CallsAgree, AnswersAreTheirOwn, Quiet
  <1>6. ConflictsInv => OutcomeIsItsEntrys /\ NoEntrySkipped  BY OutcomeFollows, EntriesFollow
  <1>7. ConflictsInv => OnePressOneRestore
    BY DEF ConflictsInv, PressInv, PressesCount, OnePressOneRestore
  <1>8. BrowseInv => RowsFollowTheList  BY RowsFollow
  <1>9. ServicesInv => ServedFaithfully
    BY <1>1, <1>2, <1>3, <1>4, <1>5, <1>6, <1>7, <1>8, Zenon DEF ServicesInv, ServedFaithfully
  <1>10. QED  BY <1>9, ServicesBegin, ServicesStep, PTL DEF ServicesSpec

=============================================================================
