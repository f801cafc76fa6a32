------------------------------ MODULE TickChunks ------------------------------
(***************************************************************************)
(* RunTick over a whole library: the scope cut into negotiations RomM      *)
(* accepts, a chunk too large for one plan halved until it fits, each plan *)
(* carried out and finished on its own, and what the tick is made of the   *)
(* runs: its outcome, its word on the credentials, the roms no plan        *)
(* covered.  With it, what the engine keeps from tick to tick by that: the *)
(* roms just downloaded, whose saves are still to be asked for, and the    *)
(* declines already said.  One save of SaveSync is one operation here.     *)
(***************************************************************************)
EXTENDS Integers, Sequences, FiniteSets, FiniteSetsExt

CONSTANTS
    LibraryRoms,          \* the ids of RomM's roms
    kMaxNegotiateRomIds,
    kMaxPlanOperations,
    max_attempts,         \* CallPolicy: how often one call is made
    kMaxDeclines,
    MaxTicks,             \* ticks in a behaviour
    MaxTurns              \* answers that are not the expected one, and interruptions

ASSUME TickBounds ==
    /\ LibraryRoms \subseteq Nat \ {0} /\ IsFiniteSet(LibraryRoms)
    /\ {kMaxNegotiateRomIds, kMaxPlanOperations, max_attempts} \subseteq Nat \ {0}
    /\ {kMaxDeclines, MaxTicks, MaxTurns} \subseteq Nat

VARIABLES
    weight,   \* how many operations RomM plans for a rom
    present,  \* the roms on the card
    saved,    \* the roms of the saves a scan reports
    fresh,    \* fresh_roms_: downloaded, and their saves not asked for yet
    said,     \* Declines: the roms of its entries
    round,    \* the tick: its locals and its TickResult
    cancel,   \* the tick's token was fired
    playing,  \* a game is running
    ticked,   \* ticks so far
    turns     \* bounds what goes wrong

tickVars == <<weight, present, saved, fresh, said, round, cancel, playing, ticked, turns>>
outside == <<weight, present, saved>>
between == <<fresh, said, ticked>>

Turn == turns < MaxTurns /\ turns' = turns + 1

-------------------------------------------------------------------------------
(* The scope (ChunkScope) and its halves.                                  *)

\* A chunk's roms are in ascending order, so they are a set here and Below is a
\* rom's place among them.
Chunk(roms, carried, restore) == [roms |-> roms, carries |-> carried, restore |-> restore]

Below(roms, rom) == Cardinality({r \in roms : r < rom})

\* Ascending, and each save in the chunk that names its rom.
AppendChunks(ids, offered, restore) ==
    LET count == (Cardinality(ids) + kMaxNegotiateRomIds - 1) \div kMaxNegotiateRomIds
        part(i) == {r \in ids : Below(ids, r) \div kMaxNegotiateRomIds = i - 1}
    IN [i \in 1 .. count |-> Chunk(part(i), offered \cap part(i), restore)]

\* Mutant: a rom to be restored is asked about with the others as well.
ChunkScopeTwice(offered, onCard, restoring) ==
    AppendChunks(onCard \union offered, offered, FALSE)
        \o AppendChunks(restoring, offered, TRUE)

\* Always one chunk at least: an empty card still negotiates.
ChunkScope(offered, onCard, restoring) ==
    LET chunks == AppendChunks((onCard \union offered) \ restoring, offered, FALSE)
                    \o AppendChunks(restoring, offered, TRUE)
    IN IF chunks = <<>> THEN <<Chunk({}, {}, FALSE)>> ELSE chunks

LowerHalf(roms) == {r \in roms : Below(roms, r) < Cardinality(roms) \div 2}

\* Mutant: every save goes with the first half.
HalveSavesFirst(chunk) ==
    <<Chunk(LowerHalf(chunk.roms), chunk.carries, chunk.restore),
      Chunk(chunk.roms \ LowerHalf(chunk.roms), {}, chunk.restore)>>

Halve(chunk) ==
    LET lower == LowerHalf(chunk.roms)
        upper == chunk.roms \ lower
    IN <<Chunk(lower, chunk.carries \ upper, chunk.restore),
         Chunk(upper, chunk.carries \cap upper, chunk.restore)>>

RomsIn(chunks) == UNION {chunks[i].roms : i \in DOMAIN chunks}

\* What RomM plans for: the roms named and those of the saves sent, or without
\* a scope the whole library.
Covers(chunk) ==
    IF round.scoped THEN chunk.roms \union chunk.carries ELSE LibraryRoms

Operations(chunk) == MapThenSumSet(LAMBDA r : weight[r], Covers(chunk))

-------------------------------------------------------------------------------
(* What a stage's end means for the schedule and for the gate.             *)

NegotiateErrors ==
    {"canceled", "unauthorized", "forbidden", "unreachable", "sync_disabled", "no_such_device",
     "rejected"}

OutcomeOf(error) ==
    CASE error = "canceled" -> "canceled"
      [] error \in {"unauthorized", "forbidden"} -> "unauthorized"
      [] error = "unreachable" -> "offline"
      [] error = "sync_disabled" -> "server_disabled"
      [] error \in {"no_such_device", "rejected", "plan_too_large"} -> "refused"

\* AnswerOf, of a negotiation, an operation or a completion.
AnswerOf(error) ==
    CASE error = "unauthorized" -> "rejected"
      [] error = "forbidden" -> "forbidden"
      [] error \in {"none", "no_such_device", "sync_disabled", "plan_too_large", "gone"} ->
           "accepted"
      [] OTHER -> "silent"

\* What a completion says: done, not this tick's to close (SessionGone), or not
\* recorded.
CompleteErrors == {"none", "gone", "unauthorized", "forbidden", "unreachable", "rejected"}

\* Mutant: the report is looked at before the baseline.
OutcomeAfterReportFirst(run, stored, reported) ==
    IF run.canceled \/ reported = "canceled" THEN "canceled"
    ELSE IF run.refused # "none" \/ reported \in {"unauthorized", "forbidden"} THEN "unauthorized"
    ELSE IF reported \notin {"none", "gone"} THEN "unreported"
    ELSE IF ~stored THEN "partial"
    ELSE IF run.failed # {} THEN "partial" ELSE "completed"

OutcomeAfter(run, stored, reported) ==
    IF run.canceled \/ reported = "canceled" THEN "canceled"
    ELSE IF run.refused # "none" \/ reported \in {"unauthorized", "forbidden"} THEN "unauthorized"
    ELSE IF ~stored THEN "partial"
    ELSE IF reported \notin {"none", "gone"} THEN "unreported"
    ELSE IF run.failed # {} THEN "partial" ELSE "completed"

\* Mutant: a rejection stands whatever the completion was answered.
AnswerAfterWorst(run, reported) ==
    IF run.refused # "none" THEN AnswerOf(run.refused)
    ELSE IF AnswerOf(reported) # "silent" THEN AnswerOf(reported) ELSE AnswerOf("none")

\* The last word, not the worst: the completion, the last operation, the plan.
AnswerAfter(run, reported) ==
    IF AnswerOf(reported) # "silent" THEN AnswerOf(reported)
    ELSE IF run.last # "silent" THEN run.last
    ELSE AnswerOf("none")

\* Mutant: a later plan's outcome stands for the tick.
WorseLater(left, right) == right

Severity == [completed |-> 0, partial |-> 1, unreported |-> 2, unauthorized |-> 3, canceled |-> 4]
Worse(left, right) == IF Severity[right] > Severity[left] THEN right ELSE left

-------------------------------------------------------------------------------
(* One tick.                                                               *)

NoRun == [canceled |-> FALSE, refused |-> "none", failed |-> {}, again |-> {}, reached |-> {},
          last |-> "silent"]
NoChunk == Chunk({}, {}, FALSE)

Begun(scoped, chunks, restoring) ==
    [at |-> "next", scoped |-> scoped, scope |-> present \union saved,
     pending |-> chunks, chunk |-> NoChunk, tries |-> 0, run |-> NoRun,
     plans |-> 0, asks |-> 0, outcome |-> "completed", answer |-> "silent", unasked |-> {}, oversized |-> {}, held |-> FALSE, again |-> {}, met |-> {},
     restoring |-> restoring, planned |-> {}, word |-> "silent", unstored |-> FALSE,
     unreported |-> FALSE, unreached |-> {}, failures |-> FALSE]

\* A tick that is switched off, cancelled, swept a save back, or is of a server
\* too old ends before it asks anything.
TickEndsEarly ==
    /\ round.at = "idle" /\ ticked < MaxTicks /\ ticked' = ticked + 1
    /\ \E outcome \in {"disabled", "canceled", "rescan_needed", "unsupported"} :
         round' = [Begun(TRUE, <<>>, {}) EXCEPT !.at = "idle", !.scope = {},
                                                !.outcome = outcome, !.met = round.met]
    /\ UNCHANGED <<outside, fresh, said, cancel, playing, turns>>

TickBegins ==
    /\ round.at = "idle" /\ ticked < MaxTicks /\ ticked' = ticked + 1
    /\ ~cancel /\ ~playing
    /\ round' \in
         {[begun EXCEPT !.met = round.met] : begun \in
            {Begun(FALSE, <<NoChunk>>, fresh)} \union
            {Begun(TRUE, ChunkScope(saved, present, restoring), fresh) :
               restoring \in {fresh, {}}}}  \* RomM knows restore_unlisted, or not
    /\ UNCHANGED <<outside, fresh, said, cancel, playing, turns>>

\* Mutant: the chunks a tick does not come to are not named.
StoppedHereUnnamed(r) == [r EXCEPT !.pending = <<>>, !.at = "end"]

\* stop(): the chunks left are the next tick's.
StoppedHere(r) ==
    [r EXCEPT !.unasked = @ \union RomsIn(r.pending), !.pending = <<>>, !.at = "end"]

\* Between plans: a shutdown, or a game that has read the saves the next plan
\* would replace.
NextChunk ==
    /\ round.at = "next" /\ round.pending # <<>>
    /\ round' =
         IF round.plans > 0 /\ (cancel \/ playing)
         THEN StoppedHere([round EXCEPT !.held = ~cancel,
                          !.outcome = Worse(@, IF cancel THEN "canceled" ELSE "partial")])
         ELSE [round EXCEPT !.at = "ask", !.chunk = Head(round.pending), !.tries = 0,
                            !.pending = Tail(@), !.asks = @ + 1]
    /\ UNCHANGED <<outside, between, cancel, playing, turns>>

LastChunk ==
    /\ round.at = "next" /\ round.pending = <<>>
    /\ round' = [round EXCEPT !.at = "end"]
    /\ UNCHANGED <<outside, between, cancel, playing, turns>>

\* A chunk no plan came of: the tick's failure before any plan ran, and what ran
\* stands after one.
Unplanned(error) ==
    LET failed == OutcomeOf(error)
        answer == AnswerOf(error)
        left == StoppedHere([round EXCEPT !.unasked = @ \union round.chunk.roms])
    IN IF round.plans = 0
       THEN [left EXCEPT !.outcome = failed, !.answer = answer,
                         !.word = IF answer = "silent" THEN @ ELSE answer]
       ELSE [left EXCEPT
               !.outcome = Worse(@, IF failed \in {"unauthorized", "canceled"} THEN failed
                                                                              ELSE "partial"),
               !.answer = IF answer = "silent" THEN @ ELSE answer,
               !.word = IF answer = "silent" THEN @ ELSE answer]

\* Negotiate's loop: only a lost call and a 5xx are made again, and not once the
\* caller cancelled.
NegotiateFails ==
    /\ round.at = "ask"
    /\ IF cancel THEN UNCHANGED turns ELSE Turn
    /\ round' \in
         IF cancel THEN {Unplanned("canceled")}
         ELSE {Unplanned(error) : error \in NegotiateErrors \ {"canceled", "unreachable"}}
              \union (IF round.tries + 1 < max_attempts
                      THEN {[round EXCEPT !.tries = @ + 1]} ELSE {Unplanned("unreachable")})
    /\ UNCHANGED <<outside, between, cancel, playing>>

PastOnePlan == Operations(round.chunk) > kMaxPlanOperations

\* Split in two while there are two roms, both halves before what follows; one
\* rom that is too large by itself is left out, and named.
PlanTooLarge ==
    /\ round.at = "ask" /\ ~cancel
    /\ PastOnePlan
    /\ round' =
         IF ~round.scoped THEN Unplanned("plan_too_large")
         ELSE IF Cardinality(round.chunk.roms) > 1
         THEN [round EXCEPT !.at = "next", !.pending = Halve(round.chunk) \o @]
         ELSE [round EXCEPT !.at = "next",
                            !.oversized = @ \union round.chunk.roms,
                            !.unasked = @ \union round.chunk.roms]
    /\ UNCHANGED <<outside, between, cancel, playing, turns>>

PlanArrives ==
    /\ round.at = "ask" /\ ~cancel
    /\ ~PastOnePlan
    /\ round' = [round EXCEPT !.at = "run", !.word = "accepted",
                              !.planned = @ \union Covers(round.chunk)]
    /\ UNCHANGED <<outside, between, cancel, playing, turns>>

-------------------------------------------------------------------------------
(* CarryOut: ExecutePlan, rom by rom, then FinishTick.                     *)

Ran(run, declined) ==
    /\ round' = [round EXCEPT !.at = "finish", !.run = run, !.met = @ \union declined,
                              !.again = @ \union run.again,
                              !.failures = @ \/ run.failed # {},
                              !.unreached = @ \union (Covers(round.chunk) \ run.reached),
                              !.word = IF run.refused = "none" THEN @ ELSE AnswerOf(run.refused)]
    \* Declines::Note and Forget, in the plan's order: a decline is kept while
    \* there is room, and the plan obeyed for a save lets go of its own.
    /\ LET obeyed == run.reached \ (declined \union run.failed)
           kept == said \ obeyed
       IN said' \in {kept \union new : new \in
                       {n \in SUBSET (declined \ kept) :
                          /\ Cardinality(kept \union n) <= kMaxDeclines
                          /\ \/ n = declined \ kept
                             \/ Cardinality(said \union n) >= kMaxDeclines}}

\* Every operation was come to: obeyed, declined by this console, or failed, in
\* a way the next tick may undo or not.
ExecuteAll ==
    /\ round.at = "run" /\ ~cancel
    /\ LET all == Covers(round.chunk) IN
       \/ /\ Ran([NoRun EXCEPT !.reached = all, !.last = IF all = {} THEN "silent" ELSE "accepted"], {})
          /\ UNCHANGED turns
       \/ /\ Turn
          /\ \E rom \in all :
               \/ Ran([NoRun EXCEPT !.reached = all], {rom})
               \/ \E again \in {{}, {rom}}, last \in {"silent", "accepted"} :
                    Ran([NoRun EXCEPT !.reached = all, !.failed = {rom}, !.again = again,
                                      !.last = last], {})
    /\ UNCHANGED <<outside, fresh, ticked, cancel, playing>>

\* A 401 or a 403 at one operation, and a cancellation, leave the rest unreached.
ExecuteStops ==
    /\ round.at = "run"
    /\ LET all == Covers(round.chunk) IN
       \/ /\ ~cancel /\ Turn
          /\ \E rom \in all, error \in {"unauthorized", "forbidden"} :
             \E reached \in {s \in SUBSET all : rom \in s} :
               Ran([NoRun EXCEPT !.refused = error, !.failed = {rom}, !.again = {rom},
                                 !.reached = reached, !.last = AnswerOf(error)], {})
       \/ /\ cancel /\ UNCHANGED turns
          /\ \E reached \in SUBSET all :
               Ran([NoRun EXCEPT !.canceled = TRUE, !.reached = reached], {})
    /\ UNCHANGED <<outside, fresh, ticked, cancel, playing>>

\* FinishTick: the baseline is written, then the session completed; with the
\* token fired the second is not sent.
PlanFinished(stored, reported) ==
    LET outcome == OutcomeAfter(round.run, stored, reported)
        answer == AnswerAfter(round.run, reported)
        told == AnswerOf(reported)
        done == [round EXCEPT !.at = "next", !.plans = @ + 1,
                    !.outcome = Worse(@, outcome),
                    !.answer = IF answer = "silent" THEN @ ELSE answer,
                    !.word = IF told = "silent" THEN @ ELSE told,
                    !.unstored = @ \/ ~stored,
                    !.unreported = @ \/ reported \notin {"none", "gone"}]
    IN IF outcome \in {"unauthorized", "canceled"} THEN StoppedHere(done) ELSE done

FinishPlan ==
    /\ round.at = "finish"
    /\ IF cancel
       THEN round' \in {PlanFinished(stored, "canceled") : stored \in BOOLEAN} /\ UNCHANGED turns
       ELSE \/ round' = PlanFinished(TRUE, "none") /\ UNCHANGED turns
            \/ /\ Turn
               /\ \E stored \in BOOLEAN, reported \in CompleteErrors :
                    round' = PlanFinished(stored, reported)
    /\ UNCHANGED <<outside, between, cancel, playing>>

-------------------------------------------------------------------------------
(* The end of a tick: RunTick's tail, then RunSavesHalf.                   *)

\* Mutant: a decline is swept though no plan came to its rom.
EndTickForgets(r) == said \cap r.met

\* Declines::EndTick: one not met since the last sweep is over, unless no plan
\* came to its rom.
Sweeps(r) == r.plans > 0 /\ r.outcome \notin {"canceled", "unauthorized"}
EndTick(r) == IF Sweeps(r) THEN said \cap (r.met \union r.unasked) ELSE said

\* Mutant: asked for is done, whether or not a plan came to it.
StillFreshOfAsked(r) == IF r.plans > 0 THEN fresh \ r.restoring ELSE fresh

\* A rom asked for is done, unless it is to be asked for again or was not asked.
StillFresh(r) ==
    IF r.plans > 0 /\ r.outcome # "canceled"
    THEN fresh \ (r.restoring \ (r.again \union r.unasked)) ELSE fresh

TickEnds ==
    /\ round.at = "end"
    /\ LET ended == [round EXCEPT !.at = "idle",
                        !.outcome = IF round.oversized = {} THEN @
                                    ELSE IF @ \in DOMAIN Severity THEN Worse(@, "partial") ELSE @]
       IN /\ round' = [ended EXCEPT !.met = IF Sweeps(ended) THEN {} ELSE @]
          /\ said' = EndTick(ended)
          /\ fresh' = StillFresh(ended)
    /\ cancel' = FALSE
    /\ UNCHANGED <<outside, playing, ticked, turns>>

-------------------------------------------------------------------------------
(* Around it.                                                              *)

\* RunOneDrain: a rom has arrived, and its save is to be asked for.
DownloadArrives ==
    /\ round.at = "idle" /\ Turn
    /\ \E rom \in LibraryRoms :
         /\ present' = present \union {rom}
         /\ fresh' = IF Cardinality(fresh) < kMaxNegotiateRomIds THEN fresh \union {rom} ELSE fresh
    /\ UNCHANGED <<weight, saved, said, round, cancel, playing, ticked>>

\* ForgetServerLocked, from another thread: another server's rom ids.
ServerReplaced ==
    /\ fresh # {} /\ Turn
    /\ fresh' = {}
    /\ UNCHANGED <<outside, said, round, cancel, playing, ticked>>

CancelFires ==
    /\ round.at # "idle" /\ ~cancel /\ Turn
    /\ cancel' = TRUE
    /\ UNCHANGED <<outside, between, round, playing>>

GameStarts ==
    /\ ~playing /\ Turn
    /\ playing' = TRUE
    /\ UNCHANGED <<outside, between, round, cancel>>

GameStops ==
    /\ playing
    /\ playing' = FALSE
    /\ UNCHANGED <<outside, between, round, cancel, turns>>

TickInit ==
    /\ weight \in [LibraryRoms -> {1, kMaxPlanOperations + 1}]
    /\ present \in SUBSET LibraryRoms
    /\ saved \in SUBSET LibraryRoms
    /\ fresh = {} /\ said = {}
    /\ round = [Begun(TRUE, <<>>, {}) EXCEPT !.at = "idle", !.scope = {}]
    /\ cancel = FALSE /\ playing = FALSE /\ ticked = 0 /\ turns = 0

TickNext ==
    \/ TickEndsEarly \/ TickBegins \/ NextChunk \/ LastChunk \/ NegotiateFails \/ PlanTooLarge
    \/ PlanArrives \/ ExecuteAll \/ ExecuteStops \/ FinishPlan \/ TickEnds
    \/ DownloadArrives \/ ServerReplaced \/ CancelFires \/ GameStarts \/ GameStops

TickSpec == TickInit /\ [][TickNext]_tickVars

-------------------------------------------------------------------------------
Busy == round.at # "idle"
Over == round.at = "idle" /\ round.plans > 0

(* Every variable keeps its type, and a tick asks no more than twice for   *)
(* every rom of its scope: halving ends.                                   *)
TickTypeOK ==
    /\ weight \in [LibraryRoms -> Nat]
    /\ {present, saved, fresh} \subseteq SUBSET LibraryRoms
    /\ Cardinality(fresh) <= kMaxNegotiateRomIds
    /\ said \subseteq LibraryRoms /\ Cardinality(said) <= kMaxDeclines
    /\ round.at \in {"idle", "next", "ask", "run", "finish", "end"}
    /\ round.outcome \in {"completed", "partial", "unreported", "offline", "refused",
                          "server_disabled", "unauthorized", "canceled", "disabled",
                          "rescan_needed", "unsupported"}
    /\ round.answer \in {"silent", "accepted", "rejected", "forbidden"}
    /\ round.asks <= 2 * Cardinality(LibraryRoms) + 1
    /\ {cancel, playing} \subseteq BOOLEAN
    /\ ticked \in 0 .. MaxTicks /\ turns \in 0 .. MaxTurns

\* The roms that chunks still to come, or the one being asked about, name.
Ahead == RomsIn(round.pending)
         \union (IF round.at = "ask" THEN round.chunk.roms ELSE {})

(* Every rom of the scope is planned once or named as unasked, whatever    *)
(* the halving and whatever stops the tick, and every save travels with    *)
(* its rom: a rom in two plans would have the server's copy fetched over   *)
(* the file the other plan uploads (ChunkScope, Halve, stop).              *)
EveryRomOnce ==
    round.scoped /\ (Busy \/ Over) =>
        /\ round.scope \subseteq round.planned \union round.unasked \union Ahead
        /\ round.planned \cap (round.unasked \union Ahead) = {}
        /\ Over => Ahead = {}
        /\ \A i, j \in DOMAIN round.pending :
             i # j => round.pending[i].roms \cap round.pending[j].roms = {}
        /\ \A i \in DOMAIN round.pending :
             round.pending[i].carries = saved \cap round.pending[i].roms

(* A tick that says it completed did: nothing unasked, unstored,           *)
(* unreported or failed; the only plan of one that says it was unreported  *)
(* has its baseline on the card; one that says it never began has carried  *)
(* out nothing (OutcomeAfter, Worse, RunTick).                             *)
OutcomeIsTrue ==
    ~Busy =>
        /\ round.outcome = "completed" /\ round.plans > 0 =>
             /\ round.unasked = {}
             /\ ~round.unstored /\ ~round.unreported /\ ~round.failures
        /\ round.outcome = "unreported" =>
             round.unreported /\ (round.plans = 1 => ~round.unstored)
        /\ round.outcome \in {"offline", "refused", "server_disabled"} => round.plans = 0

(* "The transfers landed and the accounting did not, and the baseline did  *)
(* reach the card ... A tick that lost both halves is `kPartial`" (the     *)
(* comment of TickOutcome::kUnreported).  Does not hold of a tick of two   *)
(* plans: Severity ranks an unreported plan past another's lost baseline.  *)
UnreportedIsStored == ~Busy /\ round.outcome = "unreported" => ~round.unstored

(* The gate hears the last word on the token and no other: a rejection the *)
(* server took back in the same tick is not counted, and one it did not    *)
(* take back is (AnswerAfter).                                             *)
GateHearsTheLastWord ==
    ~Busy =>
        /\ {round.answer, round.word} \cap {"rejected", "forbidden"} # {} =>
             round.answer = round.word
        /\ round.plans > 0 => round.answer # "silent"

(* What is owed from tick to tick is kept: a rom just downloaded stays on  *)
(* the list until a plan has come to it and has nothing to ask again, and  *)
(* a decline is forgotten only by a tick whose plans came to its rom       *)
(* (RunSavesHalf, Declines::EndTick).                                      *)
OwedIsKept ==
    [][round.at = "end" /\ round'.at = "idle" =>
         /\ fresh \ fresh' \subseteq round.planned \ round.again
         /\ said \ said' \subseteq LibraryRoms \ round.unasked]_tickVars

(* "A rom whose restore was cut off ... keeps its place in `fresh_roms_`"  *)
(* (TallyPlan's comment).  Does not hold: an operation behind the one a    *)
(* 401 or a 403 stopped has no result, so nothing asks for it again.       *)
CutOffIsAskedAgain ==
    [][round.at = "end" /\ round'.at = "idle" =>
         (fresh \ fresh') \cap round.unreached = {}]_tickVars
===============================================================================
