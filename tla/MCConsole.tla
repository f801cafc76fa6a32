------------------------------ MODULE MCConsole ------------------------------
(***************************************************************************)
(* Nine components that keep the console's own records, or bring what     *)
(* they record over the network, model-checked in one run.  They share no  *)
(* state, so the run looks at one of them at a time: `subject` is the one  *)
(* an initial state picks, it alone moves, and the others rest.            *)
(***************************************************************************)
EXTENDS StateSync, SaveScan, RomIndex, PlaySessions, Log, ConfigFile, HttpWire,
        TickChunks, StateDb

VARIABLE subject

consoleVars ==
    <<subject, stateVars, scanVars, indexVars, playVars, logVars, configFileVars, wireVars,
      tickVars, dbVars>>

\* rc1's slots of two folders, one save of which both folders held.
MCMigratedSlot == <<1, 1, 2>>

ScanRests == want = 0 /\ files = 0 /\ stayed = 0 /\ scan = 0 /\ stirs = 0

IndexRests == width = 0 /\ shelf = 0 /\ newest = 0 /\ steady = 0 /\ fetch = 0 /\ stopping = 0 /\ moves = 0

ConfigRests == ini = 0 /\ inForce = 0 /\ pane = 0 /\ edits = 0 /\ shocks = 0

\* A bound on the tick's start: a save of every rom, or of one, on the card or not.
ScannedSaves == {{2}, LibraryRoms}

ConsoleInit ==
    /\ subject \in {"states", "scan", "index", "play", "log", "config", "wire", "tick", "baseline"}
    /\ StateDbInit /\ (subject # "baseline" => truth.file = NoFile)
    /\ StateInit /\ LogInit
    /\ IF subject = "scan" THEN SaveScanInit ELSE ScanRests
    /\ IF subject = "index" THEN RomIndexInit ELSE IndexRests
    /\ subject # "play" => based = 1
    /\ PlayInit
    /\ IF subject = "config" THEN ConfigInit ELSE ConfigRests
    /\ WireInit /\ (subject # "wire" => part = <<>> /\ network.ssl /\ network.online)
    /\ IF subject = "tick" THEN saved \in ScannedSaves
       ELSE weight = [r \in LibraryRoms |-> 1] /\ present = {} /\ saved = {}
    /\ TickInit

ConsoleNext ==
    \/ /\ subject = "states" /\ StateNext
       /\ UNCHANGED <<subject, scanVars, indexVars, playVars, logVars, configFileVars,
                      wireVars, tickVars, dbVars>>
    \/ /\ subject = "scan" /\ SaveScanNext
       /\ UNCHANGED <<subject, stateVars, indexVars, playVars, logVars, configFileVars,
                      wireVars, tickVars, dbVars>>
    \/ /\ subject = "index" /\ RomIndexNext
       /\ UNCHANGED <<subject, stateVars, scanVars, playVars, logVars, configFileVars,
                      wireVars, tickVars, dbVars>>
    \/ /\ subject = "play" /\ PlayNext
       /\ UNCHANGED <<subject, stateVars, scanVars, indexVars, logVars, configFileVars,
                      wireVars, tickVars, dbVars>>
    \/ /\ subject = "log" /\ LogNext
       /\ UNCHANGED <<subject, stateVars, scanVars, indexVars, playVars, configFileVars,
                      wireVars, tickVars, dbVars>>
    \/ /\ subject = "config" /\ ConfigNext
       /\ UNCHANGED <<subject, stateVars, scanVars, indexVars, playVars, logVars,
                      wireVars, tickVars, dbVars>>
    \/ /\ subject = "wire" /\ WireNext
       /\ UNCHANGED <<subject, stateVars, scanVars, indexVars, playVars, logVars,
                      configFileVars, tickVars, dbVars>>
    \/ /\ subject = "tick" /\ TickNext
       /\ UNCHANGED <<subject, stateVars, scanVars, indexVars, playVars, logVars,
                      configFileVars, wireVars, dbVars>>
    \/ /\ subject = "baseline" /\ StateDbNext
       /\ UNCHANGED <<subject, stateVars, scanVars, indexVars, playVars, logVars,
                      configFileVars, wireVars, tickVars>>

ConsoleSpec == ConsoleInit /\ [][ConsoleNext]_consoleVars

------------------------------------------------------------------------------
(* Each component's variables keep their types, and what it counts stays   *)
(* within the bounds the code names (StateSync::Run, ScanSaves,            *)
(* FetchRomIndex, Buffer, FileSink, Config, Exchange, RunTick, Parser).    *)
ConsoleTypeOK ==
    /\ subject = "states" => StateTypeOK
    /\ subject = "scan" => SaveScanTypeOK
    /\ subject = "index" => RomIndexTypeOK
    /\ subject = "play" => PlayTypeOK
    /\ subject = "log" => LogTypeOK
    /\ subject = "config" => ConfigTypeOK
    /\ subject = "wire" => WireTypeOK
    /\ subject = "tick" => TickTypeOK
    /\ subject = "baseline" => StateDbTypeOK

(* What a tick sets out from is what is there, and it comes to all of it:  *)
(* the scan syncs the copy the player plays and drops nothing without      *)
(* saying so, while files come and go; an index that is not marked         *)
(* truncated has no rom twice and every one that was there all along,      *)
(* while roms are added - of a removal it says nothing, see NoneVanishes - *)
(* every rom of the scope is in one plan or named as not asked about,      *)
(* whatever halving or stop it meets, and a baseline is read whole, or as  *)
(* far as the heap holds it (ScanSaves, FetchRomIndex, ChunkScope, Halve,  *)
(* RunTick, MakeRoom).                                                     *)
NothingIsOverlooked ==
    /\ subject = "scan" => PlayedCopyIsSynced /\ NothingIsDroppedUnsaid
    /\ subject = "index" => IndexIsTheLibrary
    /\ subject = "tick" => EveryRomOnce
    /\ subject = "baseline" => FirstRowsAreKept

(* What the console holds stays true and stays its own, through failed     *)
(* writes, power cuts, redirects and two writers at once: no hour is       *)
(* counted twice; the token goes to no other origin, and no answer         *)
(* outgrows the heap; a tick that says it completed, never began, or, with *)
(* one plan, only went unreported did that - of several plans one may be   *)
(* unreported and another's baseline lost, see UnreportedIsStored - and    *)
(* its word on the token is the server's last; the baseline found is the   *)
(* last one stored (Buffer, Exchange, RunTick, SaveBaseline).              *)
StaysTrueAndHome ==
    /\ subject = "play" => NoHourTwice
    /\ subject = "wire" => TokenStaysHome /\ AnswerFitsHeap
    /\ subject = "tick" => OutcomeIsTrue /\ GateHearsTheLastWord
    /\ subject = "baseline" => LastStoredIsFound

(* The texts on the card are kept: the log holds no secret, no gap and no  *)
(* more than its two files; the settings in force are those on the card,   *)
(* and an edit of one leaves the others (FileSink, ApplyEdit).             *)
TextsAreKept ==
    /\ subject = "log" => NoSecretWritten /\ TailIsNewest /\ FilesAreBounded
    /\ subject = "config" => InForceIsOnCard /\ EditKeepsTheRest

(* Nothing is thrown away for something lesser: a state on the card is     *)
(* backed up before it is replaced, but for what the game writes after the *)
(* last comparison; a state on the server is replaced only by a console    *)
(* that has held it, but for what came after the listing or left the row's *)
(* mark as it was; a session leaves the buffer only once                   *)
(* the server has answered for it, a download that is put in place is the  *)
(* whole file, and a save still to be asked for, or a decline already      *)
(* said, is let go only by a tick that came to it (StateSync::Run,         *)
(* Reconcile, Download, RunSavesHalf, Declines::EndTick).                  *)
NothingIsThrownAway ==
    /\ ReplacedIsBackedUp /\ OverwritesOnlyItsOwn /\ LeavesOnlyAnswered /\ OnlyWholeFiles
    /\ OwedIsKept
=============================================================================
