---------------------------- MODULE PlaySessions ----------------------------
(***************************************************************************)
(* Play time, as the ticks infer it for one save: a session per save whose *)
(* mtime moved between two looks at the card, kept in play.db until the    *)
(* server has accounted for it.  Four clocks of unequal trust meet here:   *)
(* the wall clock, which may be set back, the save's mtime, the mtime in   *)
(* state.db, which a tick that failed never moved, and the last look,      *)
(* which play.db carries and a failed write leaves behind.  The buffer is  *)
(* in the order of its ids, so it is the set of its entries here.          *)
(***************************************************************************)
EXTENDS Integers, FiniteSets

CONSTANTS
    MaxTime,       \* the last instant of the wall clock; 0 is a clock never set
    kMaxWindow, kMaxSessions,
    MaxSlips       \* failed writes, power cuts and clock corrections in one run

ASSUME PlayAssumption == {MaxTime, kMaxWindow, kMaxSessions} \subseteq Nat \ {0} /\ MaxSlips \in Nat

VARIABLES
    clock, era,          \* the wall clock, and how often it was set back
    mtime, based,        \* the save's mtime, on the card and in state.db (-1: no row)
    buffer, playDb,      \* the buffer in memory, and as play.db holds it
    play,                \* the tick's: where it is, what it saw and what it sent
    totals,              \* what the server has accounted for, and what it refused
    slips, cutBlind      \* cutBlind: power went while play.db lagged behind the buffer

playVars == <<clock, era, mtime, based, buffer, playDb, play, totals, slips, cutBlind>>

Instants == 0 .. MaxTime
Plausible(t) == t > 0

PlaySession == [from : Instants, to : Instants, era : 0 .. MaxSlips]
BufferedSession == [id : Nat, session : PlaySession]
EmptyBuffer == [sessions |-> {}, nextId |-> 1, lastSeen |-> 0]
NoTick == [at |-> "none", seen |-> 0, sent |-> {}, release |-> {}]

SessionsOf(entries) == {b.session : b \in entries}
Sessions(held) == SessionsOf(held.sessions)

--------------------------------------------------------------------------
(* Deriving a session.                                                     *)

Later(a, b) == IF a > b THEN a ELSE b

\* Mutant: the window opens where the save last stood, however often the card was looked at.
WindowStartAtSave == based

\* The later of the last look and the save's previous mtime.
WindowStart == Later(based, buffer.lastSeen)

DeriveSessions ==
    IF /\ Plausible(clock) /\ Plausible(buffer.lastSeen) /\ buffer.lastSeen <= clock
       /\ based >= 0 /\ mtime > based
       /\ Plausible(mtime) /\ mtime <= clock
       /\ mtime > WindowStart /\ mtime - WindowStart <= kMaxWindow
    THEN {[from |-> WindowStart, to |-> mtime, era |-> era]}
    ELSE {}

--------------------------------------------------------------------------
(* The buffer: every mutation writes the file, and one that cannot be      *)
(* written is still made in memory.                                        *)

Persist ==
    \/ playDb' = buffer' /\ UNCHANGED slips
    \/ slips < MaxSlips /\ slips' = slips + 1 /\ UNCHANGED playDb

\* The newest kMaxSessions.
Kept(queue) == {b \in queue : Cardinality({c \in queue : c.id >= b.id}) <= kMaxSessions}

\* At most one session, of the one save.
Record(sessions) ==
    LET added == {[id |-> buffer.nextId, session |-> s] : s \in sessions}
    IN  /\ buffer' = [sessions |-> Kept(buffer.sessions \cup added),
                      nextId |-> buffer.nextId + Cardinality(sessions), lastSeen |-> clock]
        /\ Persist

Release(ids) ==
    IF ids = {} THEN UNCHANGED <<buffer, playDb, slips>>
    ELSE /\ buffer' = [buffer EXCEPT !.sessions = {b \in @ : b.id \notin ids}]
         /\ Persist

\* A row's id at or past the counter moves the counter: two sessions never share one.
ParseBuffer(held) ==
    [held EXCEPT !.nextId = LET ids == {b.id : b \in held.sessions} \cup {@ - 1}
                            IN  1 + CHOOSE i \in ids : \A j \in ids : j <= i]

--------------------------------------------------------------------------
(* The tick.                                                               *)

\* The scan, the derivation, the stamp, and the sessions the completion will carry.
TickLooks ==
    /\ play.at = "none"
    /\ Record(DeriveSessions)
    /\ play' = [NoTick EXCEPT !.at = "sent", !.seen = mtime, !.sent = buffer'.sessions]
    /\ UNCHANGED <<clock, era, mtime, based, totals, cutBlind>>

\* A tick that gave up still looked; so did one with save sync switched off.
StampPlayWindow ==
    /\ play.at = "none"
    /\ Record({})
    /\ UNCHANGED <<clock, era, mtime, based, play, totals, cutBlind>>

\* External: what the server does with the sessions it is handed.  One it already
\* holds is a duplicate, and one it will not hold is refused.
Ingest(taken, refused) ==
    totals' = [held |-> totals.held \cup SessionsOf(taken),
               refused |-> totals.refused \cup (SessionsOf(refused) \ totals.held)]

\* Mutant: every session that was sent is released, whatever was answered.
ReconcileAll(answered) == {b.id : b \in play.sent}

\* Created, duplicate and refused are all released; what no result named is not.
Reconcile(answered) == {b.id : b \in answered}

\* The completion: it may not land, or land and its answer be lost; an answer may
\* pass over entries, and one with no ingest in it says nothing of any.
Complete ==
    /\ play.at = "sent"
    /\ \E taken \in SUBSET play.sent : \E refused \in SUBSET (play.sent \ taken) :
         /\ Ingest(taken, refused)
         /\ \/ play' = [play EXCEPT !.at = "told", !.release = Reconcile(taken \cup refused)]
            \/ play' = [play EXCEPT !.at = "told"]
    /\ UNCHANGED <<clock, era, mtime, based, buffer, playDb, slips, cutBlind>>

\* The baseline row is written only by a tick that settled the save.
SaveBaseline ==
    /\ play.at = "told"
    /\ based' \in {based, play.seen}
    /\ play' = [play EXCEPT !.at = "based"]
    /\ UNCHANGED <<clock, era, mtime, buffer, playDb, totals, slips, cutBlind>>

TickReleases ==
    /\ play.at = "based"
    /\ Release(play.release)
    /\ play' = NoTick
    /\ UNCHANGED <<clock, era, mtime, based, totals, cutBlind>>

--------------------------------------------------------------------------
(* What happens around it.                                                 *)

TimePasses ==
    /\ clock < MaxTime /\ clock' = clock + 1
    /\ UNCHANGED <<era, mtime, based, buffer, playDb, play, totals, slips, cutBlind>>

\* A game writes its save, also between two steps of a look: nothing holds a
\* game back while the tick that looks goes on to its request.
GameSaves ==
    /\ mtime # clock
    /\ mtime' = clock
    /\ UNCHANGED <<clock, era, based, buffer, playDb, play, totals, slips, cutBlind>>

ClockSetBack ==
    /\ slips < MaxSlips /\ slips' = slips + 1
    /\ \E t \in Instants : t < clock /\ clock' = t
    /\ era' = era + 1
    /\ UNCHANGED <<mtime, based, buffer, playDb, play, totals, cutBlind>>

\* state.db could not be read, or a download's bytes could not: the row goes.
RowLost ==
    /\ slips < MaxSlips /\ slips' = slips + 1
    /\ based >= 0 /\ based' = -1
    /\ UNCHANGED <<clock, era, mtime, buffer, playDb, play, totals, cutBlind>>

PowerCut ==
    /\ slips < MaxSlips /\ slips' = slips + 1
    /\ buffer' = ParseBuffer(playDb)
    /\ play' = NoTick
    /\ cutBlind' = (cutBlind \/ playDb.lastSeen # buffer.lastSeen)
    /\ UNCHANGED <<clock, era, mtime, based, playDb, totals>>

PlayInit ==
    /\ clock = 1 /\ era = 0 /\ mtime = 1 /\ based \in {-1, 1}
    /\ buffer = EmptyBuffer /\ playDb = EmptyBuffer /\ play = NoTick
    /\ totals = [held |-> {}, refused |-> {}]
    /\ slips = 0 /\ cutBlind = FALSE

PlayNext ==
    \/ TickLooks \/ StampPlayWindow \/ Complete \/ SaveBaseline \/ TickReleases
    \/ TimePasses \/ GameSaves \/ ClockSetBack \/ RowLost \/ PowerCut

PlaySpec == PlayInit /\ [][PlayNext]_playVars

--------------------------------------------------------------------------
(* The buffer and the server hold sessions of the wall clock, and a        *)
(* buffer's ids are its own (ParseRow, Buffer).                            *)
PlayTypeOK ==
    /\ clock \in Instants /\ mtime \in Instants /\ based \in {-1} \cup Instants
    /\ \A held \in {buffer, playDb} :
         /\ held.sessions \subseteq BufferedSession /\ Cardinality(held.sessions) <= kMaxSessions
         /\ held.lastSeen \in Instants
         /\ \A b \in held.sessions : b.id < held.nextId
    /\ play.at \in {"none", "sent", "told", "based"}
    /\ totals.held \subseteq PlaySession /\ totals.refused \subseteq PlaySession

Counted == totals.held \cup Sessions(buffer)

Overlap(s, t) == s # t /\ s.from < t.to /\ t.from < s.to

(* No stretch of the clock is counted as play twice, on the server and in  *)
(* the buffer together: not when a tick failed and state.db still holds    *)
(* the old mtime, not when an answer was lost and the session went again,  *)
(* not when play.db could not be written (DeriveSessions, Buffer::Record). *)
(* Only a clock set back runs through the same hours again, and only a     *)
(* power cut while play.db lagged forgets the last look.                   *)
NoHourTwice ==
    cutBlind \/ \A s, t \in Counted : Overlap(s, t) => s.era # t.era

(* A session leaves the buffer only once the server has answered for it,   *)
(* pushed out of a full one by a newer, or with power that went before it  *)
(* was on the card: an answer that passes over an entry keeps it, and so   *)
(* does one that never came (Reconcile, Buffer::Release).                  *)
LeavesOnlyAnswered ==
    [][\A s \in Sessions(buffer) \ Sessions(buffer)' :
          \/ s \in totals.held \cup totals.refused
          \/ Cardinality(buffer.sessions) = kMaxSessions /\ buffer'.nextId > buffer.nextId
          \/ s \notin Sessions(playDb)]_playVars
=============================================================================
