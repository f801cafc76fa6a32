------------------------------- MODULE SaveScan -------------------------------
(***************************************************************************)
(* The walk that turns a card into the records one tick negotiates:        *)
(* ScanSaves and ScanStates (core/src/save_scan.cpp) over the folders      *)
(* PlanFolders chooses from the configuration, RetroArch's layout and      *)
(* Tico's accounts.                                                        *)
(*                                                                         *)
(* The server pairs on a key -- (rom, slot) for a save, (rom, file name)   *)
(* for a state -- so of two files on one key one is synced and the other   *)
(* only reported: the copy in the frontend play_with names, else the first *)
(* in the scan's order. Nothing may be dropped without being said: a save  *)
(* that is neither a record nor a skip looks, to the rest of the tick,     *)
(* like a save the user deleted. Games write and delete files meanwhile.   *)
(***************************************************************************)
EXTENDS Integers, Sequences, FiniteSets, SequencesExt, Functions

CONSTANTS
    kMaxSaves,             \* records one scan emits
    kMaxRetroArchFolders,  \* RetroArch core folders one scan reads
    MaxFiles,              \* files on the card when a scan starts
    MaxStirs               \* faults of the card, and files changed, in one scan

ASSUME SaveScanConstants ==
    /\ {kMaxSaves, kMaxRetroArchFolders} \subseteq Nat \ {0}
    /\ {MaxFiles, MaxStirs} \subseteq Nat

VARIABLES
    want,   \* the configuration, RetroArch's settings and what Tico resolves to
    files,  \* the files on the card
    stayed, \* the files that were there from the scan's start until now
    scan,   \* the walk's locals and its ScanResult
    stirs   \* faults and changes so far

scanVars == <<want, files, stayed, scan, stirs>>

\* Files' names, as what is left without the extension and that extension, in
\* the order `Walk` sorts a listing into, whatever the card's own was.
FileOrder ==
    <<[base |-> "game", ext |-> "ra"], [base |-> "game", ext |-> "tico"],
      [base |-> "game", ext |-> "tmp"], [base |-> "gameUSA", ext |-> "ra"],
      [base |-> "game_2", ext |-> "mcd"]>>

FileNames == {FileOrder[i] : i \in 1 .. 5}

\* The next of a folder's entries that are still to be considered.
NextOf(entries) == FileOrder[Min({i \in 1 .. 5 : FileOrder[i] \in entries})]

\* The roms of the tick's index.
Roms ==
    {[id |-> 1, noExt |-> "gameUSA", noTags |-> "game", platform |-> "psx"],
     [id |-> 2, noExt |-> "gameUSA", noTags |-> "game", platform |-> "gb"],
     [id |-> 3, noExt |-> "game", noTags |-> "game", platform |-> "gb"]}

Wants ==
    [which : {"saves", "states"}, play : {"tico", "retroarch", "none"},
     enabled : BOOLEAN, layout : {"flat", "core", "content"},
     tico : {"legacy", "account", "undecided"}, mapSlots : BOOLEAN]

SkipReasons ==
    {"unmatched", "ambiguous", "duplicate", "unusable", "directory failed", "too many",
     "outside layout", "tico account"}

Skip(reason, dir, name) == [reason |-> reason, dir |-> dir, name |-> name]

NoName == [base |-> "", ext |-> ""]

At(dir) == {file.name : file \in {f \in files : f.dir = dir}}

(***************************************************************************)
(* Which files a folder's walk reads: in a rom folder only what RetroArch  *)
(* writes, and nowhere a `.tmp` being staged.                              *)
(***************************************************************************)
NeverSynced(name) == name.ext = "tmp"

IsRetroArchFile(name) == name.ext = "ra"

PassedOver(folder, name) ==
    (folder.besideRoms /\ ~IsRetroArchFile(name)) \/ NeverSynced(name)

(***************************************************************************)
(* PlanFolders: RetroArch's folder, its core folders or the rom folders,   *)
(* by its own settings; then Tico's, where its layout says they are. The   *)
(* files the layouts leave behind are reported and not read.               *)
(***************************************************************************)
Folder(dir, source, hint, beside) ==
    [dir |-> dir, source |-> source, hint |-> hint, besideRoms |-> beside,
     cards |-> source = "tico" /\ hint = "psx"]

CoreFolders == <<Folder("coreA", "retroarch", "", FALSE), Folder("coreB", "retroarch", "", FALSE)>>

RetroArchPlan ==
    IF ~want.enabled THEN <<>>
    ELSE IF want.layout = "flat" THEN <<Folder("flat", "retroarch", "", FALSE)>>
    ELSE IF want.layout = "content" THEN <<Folder("roms", "retroarch", "psx", TRUE)>>
    ELSE SubSeq(CoreFolders, 1, IF kMaxRetroArchFolders < 2 THEN kMaxRetroArchFolders ELSE 2)

TicoPlan ==
    CASE want.tico = "legacy" -> <<Folder("tico", "tico", "psx", FALSE)>>
      [] want.tico = "account" -> <<Folder("account", "tico", "psx", FALSE)>>
      [] want.tico = "undecided" -> <<>>

PlanFolders == RetroArchPlan \o TicoPlan

\* What planning reports: files outside the layout, core folders past the
\* bound, an account nobody can be shown to be playing as.
PlanSkips ==
    LET byCore == want.enabled /\ want.layout = "core"
    IN {Skip("outside layout", "flat", n) : n \in {n \in At("flat") : byCore /\ ~NeverSynced(n)}}
       \union {Skip("directory failed", CoreFolders[i].dir, NoName) :
                 i \in {i \in 1 .. 2 : byCore /\ i > kMaxRetroArchFolders}}
       \union {Skip("outside layout", "tico", n) :
                 n \in {n \in At("tico") : want.tico = "account" /\ ~NeverSynced(n)}}
       \union (IF want.tico = "undecided" THEN {Skip("tico account", "tico", NoName)} ELSE {})

(***************************************************************************)
(* RomIndex::Find: by the whole name, and only when no rom has it by the   *)
(* name without its tags; a folder's platform scopes both. Two hits are an *)
(* ambiguity, never a guess.                                               *)
(***************************************************************************)
Hits(base, hint, tags) ==
    {r \in Roms : /\ (IF tags THEN r.noTags ELSE r.noExt) = base
                   /\ hint \in {"", r.platform}}

Find(base, hint) ==
    LET whole == Hits(base, hint, FALSE)
    IN IF whole # {} THEN whole ELSE Hits(base, hint, TRUE)

\* MatchSave: DuckStation's second card is read as a card of the rom it names.
Matches(folder, name) ==
    LET plain == Find(name.base, folder.hint)
    IN IF Cardinality(plain) # 1 /\ folder.cards /\ name.ext = "mcd"
       THEN LET asCard == Find("game", folder.hint) IN IF asCard = {} THEN plain ELSE asCard
       ELSE plain

CardOf(folder, name) ==
    IF Cardinality(Find(name.base, folder.hint)) # 1 /\ folder.cards /\ name.ext = "mcd" THEN 2 ELSE 1

\* Whether a copy is in the frontend the platform is played in.
PlayedIn(folder) == want.play = folder.source

(***************************************************************************)
(* The key the server pairs on. A save's slot is its extension's, with the *)
(* second memory card apart; a state's key is its name, which for a Tico   *)
(* slot is RetroArch's when the user asked for the mapping.                *)
(***************************************************************************)
Mapped(folder, name) ==
    IF want.mapSlots /\ folder.source = "tico" /\ name.ext = "tico"
    THEN [name EXCEPT !.ext = "ra"] ELSE name

SlotFor(folder, name) == <<name.ext, CardOf(folder, name)>>

KeyOf(folder, name, rom) ==
    IF want.which = "saves" THEN <<rom.id, SlotFor(folder, name)>>
                            ELSE <<rom.id, Mapped(folder, name)>>

FreshScan ==
    [at |-> "plan", plan |-> <<>>, left |-> {}, records |-> <<>>, held |-> <<>>,
     skips |-> {}, unhashed |-> {}, stopped |-> FALSE, swept |-> {}]

\* Where files are: RetroArch's folder, a core folder in it or a rom folder, and
\* Tico's folder as 0.7 and as an account of 0.8 has it; those that the
\* configuration has anything to do with.
Concerned ==
    (IF ~want.enabled THEN {} ELSE
        CASE want.layout = "flat" -> {"flat"} [] want.layout = "content" -> {"roms"}
          [] want.layout = "core" -> {"flat", "coreA"})
    \union (IF want.tico = "account" THEN {"tico", "account"} ELSE {"tico"})

SaveScanInit ==
    /\ want \in {w \in Wants : /\ w.mapSlots => w.which = "states"
                               /\ ~w.enabled => w.layout = "flat"}
    /\ files \in {fs \in SUBSET [dir : Concerned, name : FileNames] : Cardinality(fs) <= MaxFiles}
    /\ stayed = files
    /\ scan = FreshScan
    /\ stirs = 0

Plan ==
    /\ scan.at = "plan"
    /\ scan' = [scan EXCEPT !.at = "list", !.plan = PlanFolders, !.skips = PlanSkips]
    /\ UNCHANGED <<want, files, stayed, stirs>>

(***************************************************************************)
(* Walk, one folder: it is listed and its entries sorted. A folder that    *)
(* does not read is reported, and so is one that reads only in part, whose *)
(* files are still scanned.                                                *)
(***************************************************************************)
ListFolder ==
    /\ scan.at = "list" /\ scan.plan # <<>>
    /\ LET folder == scan.plan[1]
           entered == [scan EXCEPT !.at = "walk",
                          !.swept = IF folder.besideRoms THEN @ ELSE @ \union {folder.dir}]
       IN \/ /\ scan' = [entered EXCEPT !.left = At(folder.dir)]
             /\ UNCHANGED stirs
          \/ /\ stirs < MaxStirs
             /\ stirs' = stirs + 1
             /\ \E read \in SUBSET At(folder.dir) :
                   scan' = [entered EXCEPT !.left = read,
                               !.skips = @ \union {Skip("directory failed", folder.dir, NoName)}]
    /\ UNCHANGED <<want, files, stayed>>

FolderDone ==
    /\ scan.at = "walk" /\ scan.left = {}
    /\ scan' = [scan EXCEPT !.at = "list", !.plan = Tail(@)]
    /\ UNCHANGED <<want, files, stayed, stirs>>

ScanDone ==
    /\ scan.at = "list" /\ scan.plan = <<>>
    /\ scan' = [scan EXCEPT !.at = "done"]
    /\ UNCHANGED <<want, files, stayed, stirs>>

Told(s, reason, folder, name) ==
    [s EXCEPT !.left = @ \ {name}, !.skips = @ \union {Skip(reason, folder.dir, name)}]

\* Mutant: the first copy in the scan's order keeps the key, wherever it is.
ClaimFirst(s, key, played) == IF key \in DOMAIN s.held THEN "held" ELSE "free"

\* Claims: nobody holds the key, its holder keeps it, or this copy takes it.
Claim(s, key, played) ==
    IF key \notin DOMAIN s.held THEN "free"
    ELSE IF ~played \/ s.held[key].played THEN "held" ELSE "taken"

Hold(s, key, at, played) ==
    [s EXCEPT !.held = [k \in DOMAIN @ \union {key} |->
                           IF k = key THEN [at |-> at, played |-> played] ELSE @[k]]]

\* The record, and whether its digest could be read (RecordUnhashed).
Hashed(s, record) ==
    IF record.hashed THEN s
    ELSE [s EXCEPT !.unhashed = @ \union {Skip("unhashed", record.dir, record.name)}]

\* A record replaced after it was reported unhashed is no longer reported.
ForgetUnhashed(s, old) == [s EXCEPT !.unhashed = @ \ {Skip("unhashed", old.dir, old.name)}]

\* Mutant: the copy a played-in one takes the key from is overwritten unsaid.
DisplaceUnsaid(s, at, record) ==
    [ForgetUnhashed(s, s.records[at]) EXCEPT !.records[at] = record]

Displace(s, at, record) ==
    LET old == s.records[at]
    IN [ForgetUnhashed(s, old) EXCEPT
           !.records[at] = record,
           !.skips = @ \union {Skip("duplicate", old.dir, old.name)}]

Emit(s, key, record) ==
    LET t == Hold(s, key, Len(s.records) + 1, record.played)
    IN Hashed([t EXCEPT !.left = @ \ {record.name}, !.records = Append(@, record)], record)

Replace(s, key, record) ==
    LET at == s.held[key].at
    IN [Hold(Hashed(Displace(s, at, record), record), key, at, TRUE)
           EXCEPT !.left = @ \ {record.name}]

\* Mutant: the walk never stops for the records it holds.
PastBoundNever(s, claim) == FALSE

\* The bound counts records: a copy that only replaces one is still read.
PastBound(s, claim) == claim = "free" /\ Len(s.records) >= kMaxSaves

StopAtBound(s, folder, name) ==
    [s EXCEPT !.at = "done", !.stopped = TRUE,
              !.skips = @ \union {Skip("too many", folder.dir, name)}]

(***************************************************************************)
(* What the walk makes of one file, given whether its digest reads.        *)
(***************************************************************************)
Considered(s, folder, name, hashed) ==
    LET matches == Matches(folder, name) IN
    IF PassedOver(folder, name) THEN [s EXCEPT !.left = @ \ {name}]
    ELSE IF Cardinality(matches) > 1 THEN Told(s, "ambiguous", folder, name)
    ELSE IF matches = {} THEN Told(s, "unmatched", folder, name)
    ELSE LET rom == CHOOSE r \in matches : TRUE
             key == KeyOf(folder, name, rom)
             record == [dir |-> folder.dir, name |-> name, key |-> key,
                        played |-> PlayedIn(folder), hashed |-> hashed]
             claim == Claim(s, key, record.played)
         IN IF claim = "held" THEN Told(s, "duplicate", folder, name)
            ELSE IF PastBound(s, claim) THEN StopAtBound(s, folder, name)
            ELSE IF claim = "taken" THEN Replace(s, key, record)
            ELSE Emit(s, key, record)

ConsiderFile ==
    /\ scan.at = "walk" /\ scan.left # {}
    /\ scan' = Considered(scan, scan.plan[1], NextOf(scan.left), TRUE)
    /\ UNCHANGED <<want, files, stayed, stirs>>

\* A file whose digest does not read, or whose mtime no record can carry.
ConsiderFaulty ==
    /\ scan.at = "walk" /\ scan.left # {} /\ stirs < MaxStirs
    /\ stirs' = stirs + 1
    /\ LET folder == scan.plan[1]
           name == NextOf(scan.left)
       IN \/ scan' = Considered(scan, folder, name, FALSE)
          \/ /\ ~PassedOver(folder, name)
             /\ scan' = Told(scan, "unusable", folder, name)
    /\ UNCHANGED <<want, files, stayed>>

(***************************************************************************)
(* Meanwhile a game writes its first save, or a user deletes one.          *)
(***************************************************************************)
FileAppears ==
    /\ scan.at # "done" /\ stirs < MaxStirs
    /\ \E file \in [dir : {f.dir : f \in Range(scan.plan)}, name : FileNames] \ files : files' = files \union {file}
    /\ stirs' = stirs + 1
    /\ UNCHANGED <<want, stayed, scan>>

FileGoes ==
    /\ scan.at # "done" /\ stirs < MaxStirs
    /\ \E file \in files : files' = files \ {file} /\ stayed' = stayed \ {file}
    /\ stirs' = stirs + 1
    /\ UNCHANGED <<want, scan>>

SaveScanNext ==
    Plan \/ ListFolder \/ FolderDone \/ ScanDone \/ ConsiderFile \/ ConsiderFaulty
    \/ FileAppears \/ FileGoes

SaveScanSpec == SaveScanInit /\ [][SaveScanNext]_scanVars

-------------------------------------------------------------------------------
Records == Range(scan.records)

(***************************************************************************)
(* Every variable keeps its type, and a scan never holds more records than *)
(* the tick has room for.                                                  *)
(***************************************************************************)
SaveScanTypeOK ==
    /\ want \in Wants
    /\ stayed \subseteq files
    /\ scan.at \in {"plan", "list", "walk", "done"}
    /\ Len(scan.records) <= kMaxSaves
    /\ \A s \in scan.skips : s.reason \in SkipReasons
    /\ stirs \in 0 .. MaxStirs

\* The folder of the plan a path is in.
FolderAt(dir) == CHOOSE f \in Range(PlanFolders) : f.dir = dir

KeyAt(s) ==
    LET folder == FolderAt(s.dir)
    IN KeyOf(folder, s.name, CHOOSE r \in Matches(folder, s.name) : TRUE)

(***************************************************************************)
(* No two records of a tick share the key the server pairs on -- they      *)
(* would overwrite each other through RomM, tick about -- and the copy     *)
(* that was left out for it is never the one in the frontend the platform  *)
(* is played in while the record is not, in whatever order the folders     *)
(* were walked and whether or not the bound was already reached.           *)
(***************************************************************************)
PlayedCopyIsSynced ==
    /\ \A i, j \in 1 .. Len(scan.records) :
          scan.records[i].key = scan.records[j].key => i = j
    /\ \A s \in scan.skips : s.reason = "duplicate" =>
          \E r \in Records : /\ r.key = KeyAt(s)
                             /\ PlayedIn(FolderAt(s.dir)) => r.played
    /\ (scan.at = "done" /\ scan.stopped) =>
          \A s \in scan.skips : s.reason = "too many" => \A r \in Records : r.key # KeyAt(s)

(***************************************************************************)
(* A file that was on the card for the whole of a scan, in a folder that   *)
(* the scan reads, is a record, or is named in a skip, or is in a folder   *)
(* named as not read; only a scan that says it stopped at its bound leaves *)
(* any out. And the saves reported as having no digest are exactly the     *)
(* records that have none.                                                 *)
(***************************************************************************)
NothingIsDroppedUnsaid ==
    scan.at = "done" =>
        /\ \A file \in stayed :
              \/ scan.stopped
              \/ file.dir \notin {f.dir : f \in Range(PlanFolders)}
              \/ PassedOver(FolderAt(file.dir), file.name)
              \/ \E r \in Records : r.dir = file.dir /\ r.name = file.name
              \/ \E s \in scan.skips : s.dir = file.dir /\ s.name \in {file.name, NoName}
        /\ scan.unhashed = {Skip("unhashed", r.dir, r.name) : r \in {r \in Records : ~r.hashed}}
===============================================================================
