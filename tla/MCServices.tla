------------------------------ MODULE MCServices ------------------------------
(***************************************************************************)
(* Nine components that serve somebody who waits - the transport, the      *)
(* scheduler, remote installs, the IPC port, pairing, the process's start, *)
(* and the overlay's session and two of its screens - model-checked in one *)
(* run.  They share no state here, so the run looks at one of them at a    *)
(* time: `subject` is the one an initial state picks and it alone moves.   *)
(***************************************************************************)
EXTENDS HttpWire, Scheduler, Installs, IpcServer, Pairing, Boot, Library, Session, Conflicts

CONSTANTS r1, r2

MCServerOf == <<"a", "b", "a">>
MCRomOf == <<r1, r2, r1>>
MCPlatformList == <<1, 2>>
MCRomsOf == <<<<11, 12, 13, 14>>, <<21, 22>>>>

VARIABLES
    subject,
    waiter    \* of several who may wait in the subject, the one that is watched

fixed == <<subject, waiter>>

servicesVars ==
    <<fixed, wireVars, schedulerVars, installVars, ipcVars, pairingVars, bootVars,
      browseVars, sessionVars, conflictVars>>

Waiters ==
    CASE subject = "installs" -> {CHOOSE q \in InstallRequests : \A p \in InstallRequests : p <= q}
      [] subject = "ipc" -> {CHOOSE o \in Overlays : TRUE}
      [] subject \in {"pairing", "session"} -> {1, 2}
      [] OTHER -> {1}

\* A component that is not looked at rests in one of its initial states.
ServicesInit ==
    /\ subject \in {"wire", "scheduler", "installs", "ipc", "pairing", "boot",
                    "library", "session", "conflicts"}
    /\ waiter \in Waiters
    /\ WireInit /\ (subject # "wire" => part = <<>> /\ network.ssl /\ network.online)
    /\ SchedulerInit /\ (subject # "scheduler" => onBoot /\ timed)
    /\ IpcInit /\ PairingInit /\ BootInit
    /\ BrowseInit /\ (subject # "library" => browser = NewBrowser)
    /\ SessionInit /\ (subject # "session" => askable)
    /\ ConflictsInit /\ (subject # "conflicts" => ~persisted.newer)
    /\ InstallsInit
    /\ subject # "installs" => wanted /\ \A q \in InstallRequests : requests[q] = "none"
    /\ subject # "installs" => told["a"] = "unset"

WireMoves(A) ==
    /\ subject = "wire" /\ A
    /\ UNCHANGED <<fixed, schedulerVars, installVars, ipcVars, pairingVars, bootVars,
                   browseVars, sessionVars, conflictVars>>

SchedulerMoves(A) ==
    /\ subject = "scheduler" /\ A
    /\ UNCHANGED <<fixed, wireVars, installVars, ipcVars, pairingVars, bootVars,
                   browseVars, sessionVars, conflictVars>>

InstallsMove(A) ==
    /\ subject = "installs" /\ A
    /\ UNCHANGED <<fixed, wireVars, schedulerVars, ipcVars, pairingVars, bootVars,
                   browseVars, sessionVars, conflictVars>>

IpcMoves(A) ==
    /\ subject = "ipc" /\ A
    /\ UNCHANGED <<fixed, wireVars, schedulerVars, installVars, pairingVars, bootVars,
                   browseVars, sessionVars, conflictVars>>

PairingMoves(A) ==
    /\ subject = "pairing" /\ A
    /\ UNCHANGED <<fixed, wireVars, schedulerVars, installVars, ipcVars, bootVars,
                   browseVars, sessionVars, conflictVars>>

BootMoves(A) ==
    /\ subject = "boot" /\ A
    /\ UNCHANGED <<fixed, wireVars, schedulerVars, installVars, ipcVars, pairingVars,
                   browseVars, sessionVars, conflictVars>>

LibraryMoves(A) ==
    /\ subject = "library" /\ A
    /\ UNCHANGED <<fixed, wireVars, schedulerVars, installVars, ipcVars, pairingVars,
                   bootVars, sessionVars, conflictVars>>

SessionMoves(A) ==
    /\ subject = "session" /\ A
    /\ UNCHANGED <<fixed, wireVars, schedulerVars, installVars, ipcVars, pairingVars,
                   bootVars, browseVars, conflictVars>>

ConflictsMove(A) ==
    /\ subject = "conflicts" /\ A
    /\ UNCHANGED <<fixed, wireVars, schedulerVars, installVars, ipcVars, pairingVars,
                   bootVars, browseVars, sessionVars>>

ServicesNext ==
    \/ WireMoves(WireNext) \/ SchedulerMoves(SchedulerNext) \/ InstallsMove(InstallsNext)
    \/ IpcMoves(IpcNext) \/ PairingMoves(PairingNext) \/ BootMoves(BootNext)
    \/ LibraryMoves(BrowseNext) \/ SessionMoves(SessionNext) \/ ConflictsMove(ConflictsNext)

\* What moves: the subject's variables.
moving ==
    CASE subject = "wire" -> wireVars
      [] subject = "scheduler" -> schedulerVars
      [] subject = "installs" -> installVars
      [] subject = "ipc" -> ipcVars
      [] subject = "pairing" -> pairingVars
      [] subject = "boot" -> bootVars
      [] subject = "library" -> browseVars
      [] subject = "session" -> sessionVars
      [] subject = "conflicts" -> conflictVars

Of(component, A) == subject = component /\ UNCHANGED fixed /\ A

\* The fairness of the components' own specifications.  The subject never
\* changes, so one condition stands for an action of each of them.
ServicesFair ==
    /\ WF_moving(\/ Of("wire", Connects \/ OpenFails) \/ Of("scheduler", Poll)
                 \/ Of("installs", Works) \/ Of("ipc", Serve)
                 \/ Of("pairing", PairingThread) \/ Of("boot", BootStep)
                 \/ Of("library", Frames) \/ Of("session", DrawGoesOn)
                 \/ Of("conflicts", RunRestore))
    /\ WF_moving(\/ Of("wire", SendBlock \/ SentAll) \/ Of("scheduler", Finished)
                 \/ Of("pairing", SecondPasses) \/ Of("library", PumpTakes)
                 \/ Of("session", WorkerTakes) \/ Of("conflicts", LateHandled))
    /\ WF_moving(\/ Of("wire", Expired /\ Slice) \/ Of("library", PumpAnswers)
                 \/ Of("session", WorkerStops) \/ Of("conflicts", FrameAnswered \/ FrameIdle))
    /\ WF_moving(Of("wire", Tick))
    /\ WF_moving(Of("wire", BodyEnds))
    /\ WF_moving(Of("wire", Settle))
    /\ WF_moving(Of("wire", Returns))
    /\ SF_moving(Of("scheduler", Starts) \/ Of("installs", TickStarts))
    /\ SF_moving(Of("installs", DrainStarts))

ServicesSpec == ServicesInit /\ [][ServicesNext]_servicesVars /\ ServicesFair

-------------------------------------------------------------------------------
(* Each component's variables keep their types and its tables their sizes. *)
ServicesTypeOK ==
    /\ subject = "scheduler" => SchedulerTypeOK
    /\ subject = "installs" => InstallsTypeOK
    /\ subject = "ipc" => IpcTypeOK
    /\ subject = "pairing" => PairingTypeOK
    /\ subject = "boot" => BootTypeOK
    /\ subject = "library" => BrowseTypeOK
    /\ subject = "session" => SessionTypeOK
    /\ subject = "conflicts" => ConflictsTypeOK

(* Whoever asks gets what is theirs, and only once.  The port replies to   *)
(* its asker; a late answer is nobody else's; the clock owes one catch-up  *)
(* and no storm of ticks; a degraded start is said; the conflict screen    *)
(* skips no entry, runs one restore for a press and shows it at its entry; *)
(* and a list's rows are the server's, in order and without a hole.        *)
ServedFaithfully ==
    /\ subject = "ipc" => RepliesToItsAsker
    /\ subject = "session" => AnswersAreTheirOwn
    /\ subject = "scheduler" => OneCatchUp /\ NoTickStorm
    /\ subject = "boot" => DegradedIsSaid
    /\ subject = "conflicts" => OutcomeIsItsEntrys /\ OnePressOneRestore /\ NoEntrySkipped
    /\ subject = "library" => RowsFollowTheList

(* Nothing is left half done.  An answer of the port is never a part of    *)
(* one, and says what it leaves out; a screen that is left leaves no       *)
(* cursor.                                                                 *)
ShownWhole ==
    /\ subject = "ipc" => AnswersAreWhole
    /\ subject = "library" => LeavesNoCursor

\* Somebody waits on the subject.
Waits ==
    \/ subject = "wire" /\ call.at # "idle"
    \/ subject = "scheduler" /\ onDemand
    \/ /\ subject = "installs"
       /\ requests[waiter] \in Open /\ ServerOf[waiter] = address
    \/ subject = "ipc" /\ client[waiter] \in {"asking", "served"}
    \/ subject = "pairing" /\ attempt.state = <<"starting", "pending">>[waiter]
    \/ subject = "boot" /\ boot.phase \notin {"serving", "aborted"}
    \/ subject = "library" /\ Render(browser) = "loading"
    \/ /\ subject = "session"
       /\ IF waiter = 1 THEN MidFrame ELSE draw \in {"shutting", "joining"}
    \/ subject = "conflicts" /\ cm.restoring # 0

\* ...and got an answer, or is told that there is none.
IsAnswered ==
    \/ subject = "wire" /\ call.at = "idle"
    \/ subject = "scheduler" /\ ((running /\ tick = "on_demand") \/ ~enabled)
    \/ /\ subject = "installs"
       /\ \/ requests[waiter] \notin Open \/ waiter \in abandoned \/ refused
          \/ ServerOf[waiter] # address \/ ~paired \/ Cardinality(abandoned) >= MaxClaims
    \/ subject = "ipc" /\ client[waiter] \notin {"asking", "served"}
    \/ subject = "pairing" /\ attempt.state # <<"starting", "pending">>[waiter]
    \/ subject = "boot" /\ (boot.phase \in {"serving", "aborted"} \/ (unaskable /\ Parked))
    \/ subject = "library" /\ (Render(browser) # "loading" \/ browser.closed)
    \/ /\ subject = "session"
       /\ IF waiter = 1 THEN draw = "free" \/ HeldUp ELSE draw = "gone" \/ dispatched # NoCall
    \/ subject = "conflicts" /\ cm.restoring = 0

(* Nobody waits for ever: CallEnds, PressRuns, RequestEnds,                *)
(* AskedIsAnswered, AttemptSettles, BootEnds, LoadingEnds, OverlayGetsBack *)
(* and RestoringEnds of the components' modules, as one formula.  Where    *)
(* the code waits without a bound, being held there is the answer: at boot *)
(* a request to an sm that cannot be asked first, in the overlay a call    *)
(* without a worker thread and an open whose name is not registered.       *)
NobodyWaitsForEver == Waits ~> IsAnswered
=============================================================================
