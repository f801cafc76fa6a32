-------------------------------- MODULE Boot --------------------------------
(***************************************************************************)
(* The start of sys-rommsync: libnx calls __appInit, which opens nine      *)
(* services, and then main, which opens the log, says what went wrong and  *)
(* starts serving (sysmodule/source/main.cpp, boot_wait.{hpp,cpp}).        *)
(*                                                                         *)
(* Asking sm for a service that is not registered is never refused: the    *)
(* request is deferred, and the process parks in it.  So every acquisition *)
(* is preceded by a bounded wait that asks sm *whether* the service is     *)
(* registered (AtmosphereHasService), and a service that does not come is  *)
(* either fatal or noted in a journal that main writes to the log.         *)
(*                                                                         *)
(* Other processes register their services at any time or never; the one   *)
(* thread of this process takes a step at a time.  Time is counted in      *)
(* poll intervals.                                                         *)
(***************************************************************************)
EXTENDS Naturals, Sequences, FiniteSets

CONSTANTS
    Budget,     \* kServiceBudget, in intervals of kPollInterval
    kMaxNotes   \* the lines the journal keeps

ASSUME BootAssumption == Budget \in Nat /\ kMaxNotes \in Nat \ {0}

VARIABLES
    inSm,       \* the services sm has been told of
    boot,       \* where the thread is: its phase, the service it is at and
                \* what it has slept for that one
    opened,     \* what __appInit brought up: g_time_up, g_psc_up, g_pm_up, ...
    unaskable,  \* g_sm_unaskable
    journal,    \* g_boot: the notes kept, and how many were dropped
    logged      \* what main has written to the log

bootVars == <<inSm, boot, opened, unaskable, journal, logged>>

-----------------------------------------------------------------------------
\* The services, in the order __appInit waits for them.
Services == <<"set:sys", "fsp-srv", "time:s", "psc:m", "pm:dmnt",
              "nifm:u", "bsd:u", "sfdnsres", "ssl">>

\* The four NetworkInitialize opens by itself, behind one short-circuited test.
NetworkServices == {"nifm:u", "bsd:u", "sfdnsres", "ssl"}

\* WaitForServiceOrAbort rather than WaitForService.
Required == {"set:sys", "fsp-srv"}

BootPhases == {"asking", "opening", "registering", "logging", "building",
               "subscribing", "serving", "aborted"}

\* What a degraded start goes without: the card's mount, the clock, the word
\* that the console sleeps, the word that a game runs, and the transport.
Facilities == {"card", "clock", "power", "foreground", "transport"}

Service(n) == Services[n]

Provides(service) ==
    CASE service = "time:s" -> "clock"
      [] service = "psc:m" -> "power"
      [] service = "pm:dmnt" -> "foreground"
      [] service \in NetworkServices -> "transport"
      [] service \in Required -> service

-----------------------------------------------------------------------------
\* boot::Note and Claim: the first notes are kept, the others counted.
Note(what) ==
    journal' = IF Len(journal.notes) < kMaxNotes
                 THEN [journal EXCEPT !.notes = Append(@, what)]
                 ELSE [journal EXCEPT !.dropped = @ + 1]

\* WaitFor gives a service up when one more interval would pass the budget.
BudgetSpent == boot.waited + 1 > Budget

Goes(phase) == boot' = [boot EXCEPT !.phase = phase]

\* The wait for the n-th service begins, or the port is registered after the
\* last of them.
Reaches(n) ==
    boot' = [phase |-> IF n > Len(Services) THEN "registering" ELSE "asking",
             at |-> n, waited |-> 0]

\* A service of the transport that did not come ends the chain of four.
Skips == Reaches(IF Service(boot.at) \in NetworkServices
                   THEN Len(Services) + 1 ELSE boot.at + 1)

\* The service may be asked for: the next of the transport's four is waited
\* for, or what the wait was for is opened.
MayProceed ==
    IF Service(boot.at) \in NetworkServices /\ boot.at < Len(Services)
      THEN Reaches(boot.at + 1)
      ELSE Goes("opening")

\* An sm that would not answer once is not asked again: MayProceedWith
\* answers true at once.
NotAsked ==
    /\ boot.phase = "asking" /\ unaskable
    /\ MayProceed
    /\ UNCHANGED <<inSm, opened, unaskable, journal, logged>>

\* SmWaiter::Ready is answered yes.
AnsweredYes ==
    /\ boot.phase = "asking" /\ ~unaskable
    /\ Service(boot.at) \in inSm
    /\ MayProceed
    /\ UNCHANGED <<inSm, opened, unaskable, journal, logged>>

\* It could not be asked at all: noted once, and the acquisition goes ahead
\* with no bound on it.
CannotAsk ==
    /\ boot.phase = "asking" /\ ~unaskable
    /\ unaskable' = TRUE
    /\ Note("unaskable")
    /\ MayProceed
    /\ UNCHANGED <<inSm, opened, logged>>

\* It is answered no, and there is budget left: an interval is slept.
SleepsOn ==
    /\ boot.phase = "asking" /\ ~unaskable
    /\ Service(boot.at) \notin inSm
    /\ ~BudgetSpent
    /\ boot' = [boot EXCEPT !.waited = @ + 1]
    /\ UNCHANGED <<inSm, opened, unaskable, journal, logged>>

\* It is answered no for the last time: the note names the service, and a
\* required one aborts (RequireService).
GivesUpOn ==
    /\ boot.phase = "asking" /\ ~unaskable
    /\ Service(boot.at) \notin inSm
    /\ BudgetSpent
    /\ Note(Provides(Service(boot.at)))
    /\ IF Service(boot.at) \in Required THEN Goes("aborted") ELSE Skips
    /\ UNCHANGED <<inSm, opened, unaskable, logged>>

-----------------------------------------------------------------------------
\* What the acquisition at hand asks sm for: NetworkInitialize asks for its
\* four, every other initialiser for its one.
Acquires ==
    IF Service(boot.at) \in NetworkServices THEN NetworkServices
                                            ELSE {Service(boot.at)}

\* The process is parked in sm: the request is deferred until the service is
\* registered, which may be never.
Parked == boot.phase = "opening" /\ ~(Acquires \subseteq inSm)

\* Every acquisition of __appInit, once sm answers it.  A failure of the first
\* two aborts.  fsInitialize is followed by the mount of the card, whose
\* failure is noted, as that of the others is.
Acquire ==
    /\ boot.phase = "opening" /\ ~Parked
    /\ \E works, mounts \in BOOLEAN :
         LET what == Provides(Service(boot.at)) IN
         IF Service(boot.at) \in Required
           THEN /\ IF works THEN Reaches(boot.at + 1) ELSE Goes("aborted")
                /\ IF works /\ what = "fsp-srv" /\ ~mounts
                     THEN Note("card") /\ UNCHANGED opened
                     ELSE /\ opened' = opened \cup
                              (IF works /\ what = "fsp-srv" THEN {"card"} ELSE {})
                          /\ UNCHANGED journal
           ELSE /\ Reaches(boot.at + 1)
                /\ IF works THEN opened' = opened \cup {what} /\ UNCHANGED journal
                            ELSE Note(what) /\ UNCHANGED opened
    /\ UNCHANGED <<inSm, unaskable, logged>>

\* RegisterPort is last, and a process nothing could reach aborts.
RegistersPort ==
    /\ boot.phase = "registering"
    /\ \/ Goes("logging")
       \/ Goes("aborted")
    /\ UNCHANGED <<inSm, opened, unaskable, journal, logged>>

-----------------------------------------------------------------------------
\* The journal's lines, and one more for what it dropped.
Flush ==
    {journal.notes[n] : n \in 1 .. Len(journal.notes)}
      \cup (IF journal.dropped # 0 THEN {"dropped"} ELSE {})

\* The lines that say which build this is, where its identity comes from and
\* whether it has a transport (NetworkReady): only the last tells a degraded
\* console from another.
Introduction == IF "transport" \in opened THEN {} ELSE {"no transport"}

\* main opens the log and writes the journal to it before anything else, then
\* a line for a configuration directory that could not be made, which it
\* cannot on a card that is not mounted, and the introduction.
OpensLog ==
    /\ boot.phase = "logging"
    /\ \E made \in {FALSE} \cup {"card" \in opened} :
         logged' = Flush \cup (IF made THEN {} ELSE {"directory"})
                         \cup Introduction
    /\ Goes("building")
    /\ UNCHANGED <<inSm, opened, unaskable, journal>>

\* The engine is loaded and handed its seams, the probe of a running game only
\* when pm:dmnt is open, and the worker is started.
BuildsEngine ==
    /\ boot.phase = "building"
    /\ logged' = logged \cup (IF "foreground" \in opened THEN {} ELSE {"no probe"})
    /\ Goes("subscribing")
    /\ UNCHANGED <<inSm, opened, unaskable, journal>>

\* The subscription to sleep, attempted only on an open session, and the
\* service loop, which never returns.
SubscribesAndServes ==
    /\ boot.phase = "subscribing"
    /\ \E subscribed \in {FALSE} \cup {"power" \in opened} :
         /\ logged' = logged \cup (IF subscribed THEN {} ELSE {"no subscription"})
         /\ opened' = IF subscribed THEN opened ELSE opened \ {"power"}
    /\ Goes("serving")
    /\ UNCHANGED <<inSm, unaskable, journal>>

-----------------------------------------------------------------------------
\* Another process registers its service.  One this process has already given
\* up, or already has, no longer matters to it.
Registers ==
    /\ boot.phase \in {"asking", "opening"}
    /\ \E n \in boot.at .. Len(Services) :
         /\ Service(n) \notin inSm
         /\ inSm' = inSm \cup {Service(n)}
    /\ UNCHANGED <<boot, opened, unaskable, journal, logged>>

BootInit ==
    /\ inSm = {}
    /\ boot = [phase |-> "asking", at |-> 1, waited |-> 0]
    /\ opened = {}
    /\ unaskable = FALSE
    /\ journal = [notes |-> <<>>, dropped |-> 0]
    /\ logged = {}

\* One step of the process's one thread.
BootStep ==
    \/ NotAsked \/ AnsweredYes \/ CannotAsk \/ SleepsOn \/ GivesUpOn
    \/ Acquire \/ RegistersPort
    \/ OpensLog \/ BuildsEngine \/ SubscribesAndServes

BootNext == BootStep \/ Registers

\* The thread runs: the kernel schedules it whenever it is not parked in sm.
BootFair == WF_bootVars(BootStep)

BootSpec == BootInit /\ [][BootNext]_bootVars /\ BootFair

-----------------------------------------------------------------------------
BootNotes == Facilities \cup {"unaskable"} \cup Required

\* Every variable keeps its type; the notes stay within the journal.
BootTypeOK ==
    /\ inSm \subseteq {Service(n) : n \in 1 .. Len(Services)}
    /\ boot \in [phase : BootPhases, at : 1 .. Len(Services) + 1, waited : 0 .. Budget]
    /\ opened \subseteq Facilities
    /\ unaskable \in BOOLEAN
    /\ journal.notes \in Seq(BootNotes) /\ Len(journal.notes) <= kMaxNotes
    /\ journal.dropped \in Nat
    /\ logged \subseteq BootNotes \cup {"dropped", "directory", "no transport",
                                         "no probe", "no subscription"}

\* A console that comes up degraded says why: when the service loop runs,
\* every facility that is missing has its reason in the log (main.cpp,
\* the flush of g_boot), or the log says that reasons were dropped
\* (boot_wait.cpp, Claim).
DegradedIsSaid ==
    boot.phase = "serving" =>
        \A f \in Facilities \ opened :
            f \in logged \/ "dropped" \in logged
              \/ (f = "power" /\ "no subscription" \in logged)

\* Boot is never blocked: whatever the other processes register, the thread
\* ends up serving or in a crash report, unless sm will not answer whether a
\* service is registered, the one case MayProceedWith lets through unbounded.
BootEnds ==
    <>[](boot.phase \in {"serving", "aborted"} \/ (unaskable /\ Parked))
=============================================================================
