------------------------------- MODULE Session -------------------------------
(***************************************************************************)
(* The overlay's one session with the sysmodule.  IpcClient carries a call *)
(* on a worker thread of its own, so that the draw thread does not wait    *)
(* past kCallBudget: a call out of budget is abandoned, not cancelled, and *)
(* its late answer is dropped.  Two things hold the draw thread all the    *)
(* same: a call it dispatches itself, when no thread can be had for it,    *)
(* and an open that sm defers because the name is not registered.          *)
(* ScreenFrame, one for each screen over the shared client, does the       *)
(* version handshake and decides what a failed call says about the link.   *)
(*                                                                         *)
(* The draw thread, the worker thread and the sysmodule are three actors;  *)
(* mutex_ is never held across a dispatch, so each locked section is one   *)
(* step.  A call is its number; what it carries is not modelled.           *)
(***************************************************************************)
EXTENDS Integers, FiniteSets

CONSTANTS
    MaxScreens,       \* how many screens stand on top of one another
    NoCall,           \* no call: nothing queued, nothing dispatched
    MaxCalls, MaxRestarts

ASSUME SessionAssumption ==
    /\ MaxScreens \in Nat \ {0} /\ MaxCalls \in Nat /\ MaxRestarts \in Nat
    /\ NoCall \notin 0..MaxCalls

VARIABLES
    slot, givenUp, stopping, started,  \* the client's own, under mutex_
    command, result,    \* the call in the slot, and the call the result is of
    dispatched,         \* the call serviceDispatchOut is in
    session,            \* 0: closed; otherwise the number of the open session
    sessions,           \* how many were opened
    born,               \* the sysmodule the open session is with
    port,               \* whether sm has the service registered
    askable,            \* whether sm answers if a name is registered (65100)
    draw,               \* the draw thread, one of Places
    screen,             \* the screen on top, by its depth
    asking,             \* what the frame asks: handshake, typed, or nothing
    checked,            \* each screen's version_checked_
    got,                \* the call whose answer a caller was handed last, and what it got
    greeted,            \* the sessions a handshake was completed on
    typed,              \* the sessions a typed command was sent on
    calls, restarts

clientVars == <<slot, givenUp, stopping, started, command, result, dispatched>>
linkVars == <<session, sessions, born, port, askable, greeted, typed, restarts>>
screenVars == <<draw, screen, asking, checked, got, calls>>
sessionVars == <<clientVars, linkVars, screenVars>>

Screens == 1..MaxScreens
Slots == {"idle", "queued", "running", "done"}

\* Where the draw thread is: between frames; in smGetService, or deferred in
\* it; through Ready's open, with the handshake to come; waiting within a
\* call's budget; dispatching the call itself; or on its way out.
Places == {"free", "opening", "parked", "ready", "waiting", "calling",
           "shutting", "joining", "gone"}

\* What a call answers that ran out of budget, or that found one still out.
NotResponding == 0

Quiet == slot \notin {"queued", "running"}

\* Close does nothing while a call is out.
Closed == IF Quiet THEN 0 ELSE session

--------------------------------------------------------------------------
(* A frame: the port is opened if it is not, the handshake is done if it   *)
(* is due on this screen, then the command.                                *)

\* Open asks sm for the name unless sm answers that nobody registered it: then
\* nothing is sent, and the screen says that the sysmodule is not running.
OpensPort == port \/ ~askable

\* Ready opens the port when it is closed, for the handshake.
OpenSession ==
    /\ draw = "free" /\ session = 0 /\ calls < MaxCalls /\ OpensPort
    /\ draw' = "opening" /\ asking' = "handshake"
    /\ UNCHANGED <<clientVars, linkVars, screen, checked, got, calls>>

\* What smGetService answers: a session, or none left.  A name nobody has
\* registered by then is not refused: the request waits until it is.
Obtain ==
    /\ draw \in {"opening", "parked"}
    /\ \/ /\ port
          /\ session' = sessions + 1 /\ sessions' = sessions + 1 /\ born' = restarts
          /\ checked' = [checked EXCEPT ![screen] = FALSE]
          /\ draw' = IF asking = "handshake" THEN "ready" ELSE "free"
       \/ /\ port /\ draw' = "free"
          /\ UNCHANGED <<session, sessions, born, checked>>
       \/ /\ ~port /\ draw = "opening" /\ draw' = "parked"
          /\ UNCHANGED <<session, sessions, born, checked>>
    /\ UNCHANGED <<clientVars, port, askable, greeted, typed, restarts, screen, asking, got, calls>>

\* The call answers at once: an earlier one is still out.
CallRefused ==
    /\ draw = "free" /\ session # 0 /\ calls < MaxCalls
    /\ givenUp /\ slot # "done"
    /\ calls' = calls + 1 /\ got' = [call |-> calls + 1, of |-> NotResponding]
    /\ UNCHANGED <<clientVars, linkVars, draw, screen, asking, checked>>

\* Mutant: a late answer is not dropped, and the next call is handed it.
CallKeepsLate ==
    /\ draw = "ready" \/ (draw = "free" /\ session # 0)
    /\ calls < MaxCalls /\ (~givenUp \/ slot = "done")
    /\ calls' = calls + 1 /\ command' = calls + 1 /\ givenUp' = FALSE
    /\ asking' = IF checked[screen] THEN "typed" ELSE "handshake"
    /\ typed' = IF checked[screen] THEN typed \cup {session} ELSE typed
    /\ \/ /\ slot' = IF slot = "done" THEN "done" ELSE "queued"
          /\ started' = TRUE /\ draw' = "waiting"
          /\ UNCHANGED dispatched
       \/ /\ ~started /\ draw' = "calling" /\ dispatched' = calls + 1 /\ slot' = "idle"
          /\ UNCHANGED started
    /\ UNCHANGED <<stopping, result, session, sessions, born, port, askable, greeted,
                   restarts, screen, checked, got>>

\* A late answer nobody waits for is dropped, and the call is handed to the
\* worker.  A worker that does not run is started; when there is no thread to
\* be had, the draw thread dispatches the call itself, and without a budget.
Call ==
    /\ draw = "ready" \/ (draw = "free" /\ session # 0)
    /\ calls < MaxCalls /\ (~givenUp \/ slot = "done")
    /\ calls' = calls + 1 /\ command' = calls + 1 /\ givenUp' = FALSE
    /\ asking' = IF checked[screen] THEN "typed" ELSE "handshake"
    /\ typed' = IF checked[screen] THEN typed \cup {session} ELSE typed
    /\ \/ /\ slot' = "queued" /\ started' = TRUE /\ draw' = "waiting"
          /\ UNCHANGED dispatched
       \/ /\ ~started /\ draw' = "calling" /\ dispatched' = calls + 1 /\ slot' = "idle"
          /\ UNCHANGED started
    /\ UNCHANGED <<stopping, result, session, sessions, born, port, askable, greeted,
                   restarts, screen, checked, got>>

\* What Diagnose and Ready make of the answer.  A handshake that matches is
\* remembered.  After a transport failure, or any failure of the handshake, the
\* session is dropped and the port tried again, for nothing but to say which.
Diagnose(outcome) ==
    LET fails == outcome = "transport" \/ (asking = "handshake" /\ outcome = "malformed")
    IN /\ session' = IF fails THEN Closed ELSE session
       /\ draw' = IF fails /\ Closed = 0 /\ OpensPort THEN "opening" ELSE "free"
       /\ asking' = IF fails THEN "nothing" ELSE asking
       /\ \E matches \in BOOLEAN :
             LET greets == asking = "handshake" /\ outcome = "ok" /\ matches
             IN /\ checked' = [checked EXCEPT ![screen] = greets \/ (@ /\ ~fails)]
                /\ greeted' = IF greets THEN greeted \cup {session} ELSE greeted

\* The answer came within the budget.
Answered ==
    /\ draw = "waiting" /\ slot = "done"
    /\ slot' = "idle"
    /\ got' = [call |-> calls, of |-> result.call]
    /\ Diagnose(result.outcome)
    /\ UNCHANGED <<givenUp, stopping, started, command, result, dispatched, sessions, born, port,
                   askable, typed, restarts, screen, calls>>

\* What a dispatch comes back with: an answer, one that is larger than the
\* buffer or cannot be read, or a transport that failed because the sysmodule
\* the session is with is gone.
CameBack == IF born = restarts THEN {"ok", "malformed"} ELSE {"transport"}

\* The dispatch on the draw thread comes back.
CalledItself ==
    /\ draw = "calling"
    /\ dispatched' = NoCall /\ got' = [call |-> calls, of |-> dispatched]
    /\ \E outcome \in CameBack : Diagnose(outcome)
    /\ UNCHANGED <<slot, givenUp, stopping, started, command, result, sessions, born, port,
                   askable, typed, restarts, screen, calls>>

\* Mutant: the budget is only that of finding the worker free.
BudgetRunsOutQueued ==
    /\ draw = "waiting" /\ slot = "queued"
    /\ givenUp' = TRUE /\ draw' = "free"
    /\ got' = [call |-> calls, of |-> NotResponding]
    /\ UNCHANGED <<slot, stopping, started, command, result, dispatched, linkVars,
                   screen, asking, checked, calls>>

\* The budget ran out: the caller stops waiting, the call does not stop.
BudgetRunsOut ==
    /\ draw = "waiting" /\ slot # "done"
    /\ givenUp' = TRUE /\ draw' = "free"
    /\ got' = [call |-> calls, of |-> NotResponding]
    /\ UNCHANGED <<slot, stopping, started, command, result, dispatched, linkVars,
                   screen, asking, checked, calls>>

\* A screen is put on top with a ScreenFrame of its own, or the one on top goes
\* and the one beneath is drawn again, with the frame it had.
Show ==
    /\ draw = "free"
    /\ \/ /\ screen < MaxScreens /\ screen' = screen + 1
          /\ checked' = [checked EXCEPT ![screen + 1] = FALSE]
       \/ screen > 1 /\ screen' = screen - 1 /\ UNCHANGED checked
    /\ UNCHANGED <<clientVars, linkVars, draw, asking, got, calls>>

--------------------------------------------------------------------------
(* The worker thread.                                                      *)

WorkerTakes ==
    /\ started /\ slot = "queued" /\ ~stopping
    /\ slot' = "running" /\ dispatched' = command
    /\ UNCHANGED <<givenUp, stopping, started, command, result, linkVars, screenVars>>

\* The dispatch on the worker comes back.
Dispatch ==
    /\ slot = "running"
    /\ \E outcome \in CameBack : result' = [call |-> dispatched, outcome |-> outcome]
    /\ slot' = "done" /\ dispatched' = NoCall
    /\ UNCHANGED <<givenUp, stopping, started, command, linkVars, screenVars>>

WorkerStops ==
    /\ started /\ stopping /\ dispatched = NoCall
    /\ started' = FALSE
    /\ UNCHANGED <<slot, givenUp, stopping, command, result, dispatched, linkVars, screenVars>>

--------------------------------------------------------------------------
(* The overlay is closed: the one wait without a budget.                   *)

Shutdown ==
    /\ draw = "free" /\ draw' = "shutting"
    /\ UNCHANGED <<clientVars, linkVars, screen, asking, checked, got, calls>>

ShutdownStops ==
    /\ draw = "shutting" /\ Quiet
    /\ stopping' = TRUE /\ draw' = "joining"
    /\ UNCHANGED <<slot, givenUp, started, command, result, dispatched, linkVars,
                   screen, asking, checked, got, calls>>

ShutdownJoins ==
    /\ draw = "joining" /\ ~started
    /\ stopping' = FALSE /\ slot' = "idle" /\ givenUp' = FALSE /\ session' = 0 /\ draw' = "gone"
    /\ UNCHANGED <<started, command, result, dispatched, sessions, born, port, askable, greeted,
                   typed, restarts, screen, asking, checked, got, calls>>

\* The sysmodule goes, or comes back, possibly another version of it.
Restarts ==
    /\ restarts < MaxRestarts /\ restarts' = restarts + 1
    /\ port' = ~port
    /\ UNCHANGED <<clientVars, session, sessions, born, askable, greeted, typed, screenVars>>

--------------------------------------------------------------------------
SessionInit ==
    /\ slot = "idle" /\ givenUp = FALSE /\ stopping = FALSE /\ started = FALSE
    /\ command = NoCall /\ result = [call |-> NoCall, outcome |-> "ok"] /\ dispatched = NoCall
    /\ session = 0 /\ sessions = 0 /\ born = 0 /\ greeted = {} /\ typed = {} /\ restarts = 0
    /\ port = TRUE /\ askable \in BOOLEAN
    /\ draw = "free" /\ screen = 1 /\ asking = "handshake"
    /\ checked = [s \in Screens |-> FALSE] /\ got = [call |-> NoCall, of |-> NoCall] /\ calls = 0

SessionNext ==
    \/ OpenSession \/ Obtain \/ CallRefused \/ Call \/ Answered \/ CalledItself \/ BudgetRunsOut \/ Show
    \/ WorkerTakes \/ Dispatch \/ WorkerStops
    \/ Shutdown \/ ShutdownStops \/ ShutdownJoins \/ Restarts

\* The draw thread goes on inside a frame, and on the way out.
DrawGoesOn ==
    \/ Obtain \/ (draw = "ready" /\ Call) \/ Answered \/ BudgetRunsOut
    \/ ShutdownStops \/ ShutdownJoins

\* The overlay's threads run and sm answers; the sysmodule may never do.
SessionFair == WF_sessionVars(DrawGoesOn) /\ WF_sessionVars(WorkerTakes) /\ WF_sessionVars(WorkerStops)
SessionSpec == SessionInit /\ [][SessionNext]_sessionVars /\ SessionFair

--------------------------------------------------------------------------
\* The client's fields hold what they are declared to.
SessionTypeOK ==
    /\ slot \in Slots /\ {givenUp, stopping, started, port, askable} \subseteq BOOLEAN
    /\ {command, dispatched} \subseteq 0..MaxCalls \cup {NoCall}
    /\ draw \in Places
    /\ session \in 0..sessions /\ screen \in Screens /\ checked \in [Screens -> BOOLEAN]
    /\ greeted \cup typed \subseteq 1..sessions

\* A caller is never handed the answer of another call, however late an
\* abandoned one comes back; a session is never closed under a dispatch; and
\* the draw thread dispatches a call itself only when the worker has none, so
\* that the one buffer and the one session carry one request at a time.
AnswersAreTheirOwn ==
    /\ got.of \in {got.call, NotResponding}
    /\ dispatched # NoCall => session # 0
    /\ draw = "calling" => Quiet

\* The draw thread is inside a frame.
MidFrame == draw \in {"opening", "parked", "ready", "waiting", "calling"}

\* What holds it for as long as the sysmodule likes: a call it dispatches
\* itself, and a request that sm defers.
HeldUp == draw = "calling" \/ (draw = "parked" /\ ~port)

\* The draw thread gets its frame back even if the sysmodule never answers,
\* unless one of the two unbounded waits of the client holds it, and then once
\* that lets go; closing the overlay ends with the worker joined unless a call
\* is still out.
OverlayGetsBack ==
    /\ MidFrame ~> draw = "free" \/ HeldUp
    /\ draw \in {"shutting", "joining"} ~> draw = "gone" \/ dispatched # NoCall

\* screen_frame.hpp: the contract check is "Reset with every session, because a
\* session that came back is a sysmodule that may have been replaced". Does not
\* hold: the check is each screen's own, and the session may be another's.
TypedAfterHandshake == typed \subseteq greeted
=============================================================================
