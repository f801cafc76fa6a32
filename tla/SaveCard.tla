------------------------------ MODULE SaveCard ------------------------------
(***************************************************************************)
(* One emulator save on a card that does not journal, the `.backup/`       *)
(* folder beside it, and the three operations of the engine that replace   *)
(* or remove that save: a `download` (or the losing side of a conflict),   *)
(* a `delete`, and the Restore / Keep local of a history entry.  A game    *)
(* may write the save between any two calls, any call may be refused by    *)
(* the card, and the power may go at any instant.  Every tick begins with  *)
(* the sweep of what an earlier run left behind.                           *)
(*                                                                         *)
(* The card.  A folder is a function from names to files.  Beside the      *)
(* folder as it reads now the model keeps the set of folders a power cut   *)
(* may leave: every state since the folder's last successful `Sync`, since *)
(* a folder's own updates land in order and two folders are independent.   *)
(* A file whose data was never synced may come back torn.  This is the     *)
(* model the repository's own crash replay uses (tests/crash_disk.hpp).    *)
(*                                                                         *)
(* Abstractions.  The bytes of a file are a member of Bytes, or Junk for   *)
(* anything that is not a whole save; a digest is the bytes themselves.    *)
(* `<save>.tmp.part` and `<save>.tmp` are one name, "tmp": neither is read *)
(* by anything but the operation that wrote it and the sweep discards      *)
(* both.  The conflict's archival upload and the confirmation change       *)
(* nothing on the card and are left out.                                   *)
(***************************************************************************)
EXTENDS Naturals

CONSTANTS
  Bytes,      \* contents a whole save may have
  Junk,       \* a torn, truncated or wrong body
  NoBytes,    \* the content of a name that is not there
  Slots,      \* names a backup may take under .backup/ (kMaxBackupAttempts of them)
  NoSlot,     \* no backup was made: there was nothing to back up
  MaxFaults   \* refused calls and power cuts, together, in one behaviour

ASSUME BytesAssumption == Junk \notin Bytes /\ NoBytes \notin Bytes /\ Junk # NoBytes
ASSUME SlotsAssumption == NoSlot \notin Slots /\ "tmp" \notin Slots
ASSUME FaultsAssumption == MaxFaults \in Nat

VARIABLES
  card,        \* the save folder: the save, its `.old` and its `.tmp`
  cardHist,    \* the save folders a power cut may leave
  backup,      \* the `.backup/` folder: one file per name, and a `.tmp`
  backupHist,  \* the `.backup/` folders a power cut may leave
  pc,          \* the call the worker makes next
  op,          \* the operation it is carrying out
  want,        \* the digest the plan names (download) or the tick reported (delete)
  slot,        \* the backup made by this operation, or NoSlot
  replacing,   \* CommitStaged: was there a file to move aside
  rescan,      \* RecoverStaging put a save back, so this tick stops before the network
  faults,      \* refused calls and power cuts so far
  owed,        \* ghost: bytes the game left that nobody but the engine displaced
  raced,       \* ghost: bytes the game wrote after the last check and before the commit
  deleted      \* ghost: the save is absent because a `delete` removed it

folders == <<card, cardHist, backup, backupHist>>
ghosts  == <<owed, raced, deleted>>
frame   == <<op, want, slot, replacing, rescan>>
vars    == <<folders, pc, frame, faults, ghosts>>

Names  == {"save", "old", "tmp"}
BackupNames == Slots \cup {"tmp"}
Ops    == {"none", "download", "delete", "restore"}
Points == {"idle", "sweepOld", "sweepTmp", "sweepBackup", "plan",
           "fetch", "land", "verify",
           "copy", "copySync", "name", "nameSync", "unname", "compare",
           "stage", "stageSync", "check",
           "aside", "moveAside", "publish", "putBack", "tidy", "syncDir",
           "remove", "syncRemoved", "discard"}

Files == [bytes : Bytes \cup {Junk, NoBytes}, synced : BOOLEAN]

\* A file whose bytes are on the card, one whose bytes are still in a cache, and none.
Settled(b) == [bytes |-> b, synced |-> TRUE]
Loose(b)   == [bytes |-> b, synced |-> FALSE]
Absent     == Settled(NoBytes)
Exists(f)  == f.bytes # NoBytes

TypeOK ==
  /\ card \in [Names -> Files]
  /\ cardHist \subseteq [Names -> Files]
  /\ backup \in [BackupNames -> Files]
  /\ backupHist \subseteq [BackupNames -> Files]
  /\ pc \in Points
  /\ op \in Ops
  /\ want \in Bytes \cup {NoBytes}
  /\ slot \in Slots \cup {NoSlot}
  /\ replacing \in BOOLEAN
  /\ rescan \in BOOLEAN
  /\ faults \in 0 .. MaxFaults
  /\ owed \subseteq Bytes
  /\ raced \in Bytes \cup {NoBytes}
  /\ deleted \in BOOLEAN

-----------------------------------------------------------------------------
(* Calls on a folder.  A name change is a new state a cut may leave; a sync  *)
(* of the folder leaves only the current one; a sync of a file settles its   *)
(* bytes wherever that file is.                                              *)

Card(c)   == card' = c /\ cardHist' = cardHist \cup {c}
Backup(b) == backup' = b /\ backupHist' = backupHist \cup {b}

Settle(folder, name) == [folder EXCEPT ![name] = Settled(folder[name].bytes)]
SettleTmp(hist, f) == {IF m["tmp"] = f THEN Settle(m, "tmp") ELSE m : m \in hist}

Put(folder, name, f) == [folder EXCEPT ![name] = f]
Move(folder, from, to) == [folder EXCEPT ![to] = folder[from], ![from] = Absent]

\* A call the card refuses, and one it does not.
Refused == faults < MaxFaults /\ faults' = faults + 1
Granted == faults' = faults

\* The next call of the operation, whose locals go when it returns.
Return ==
  /\ op' = "none" /\ want' = NoBytes /\ slot' = NoSlot
  /\ replacing' = FALSE /\ rescan' = FALSE
Step(p) ==
  /\ pc' = p
  /\ IF p = "idle" THEN Return ELSE UNCHANGED frame

\* io::Remove: a name that is not there stays so.
RemoveCard(name) ==
  \/ /\ Exists(card[name]) /\ Granted
     /\ Card(Put(card, name, Absent))
  \/ /\ Exists(card[name]) /\ Refused
     /\ UNCHANGED <<card, cardHist>>
  \/ /\ ~Exists(card[name]) /\ Granted
     /\ UNCHANGED <<card, cardHist>>

RemoveBackup(name) ==
  \/ /\ Exists(backup[name]) /\ Granted
     /\ Backup(Put(backup, name, Absent))
  \/ /\ Exists(backup[name]) /\ Refused
     /\ UNCHANGED <<backup, backupHist>>
  \/ /\ ~Exists(backup[name]) /\ Granted
     /\ UNCHANGED <<backup, backupHist>>

\* io::Rename as Horizon does it: refused where the destination exists.
RenameCard(from, to) ==
  /\ Exists(card[from]) /\ ~Exists(card[to])
  /\ Granted
  /\ Card(Move(card, from, to))

RenameCardRefused(from, to) ==
  /\ \/ Refused
     \/ Exists(card[to]) /\ Granted
     \/ ~Exists(card[from]) /\ Granted
  /\ UNCHANGED <<card, cardHist>>

-----------------------------------------------------------------------------
Init ==
  /\ card \in {[n \in Names |-> IF n = "save" THEN Settled(b) ELSE Absent] :
                 b \in Bytes \cup {NoBytes}}
  /\ cardHist = {card}
  /\ backup = [n \in BackupNames |-> Absent]
  /\ backupHist = {backup}
  /\ pc = "idle"
  /\ op = "none" /\ want = NoBytes /\ slot = NoSlot
  /\ replacing = FALSE /\ rescan = FALSE
  /\ faults = 0
  /\ owed = {card["save"].bytes} \ {NoBytes}
  /\ raced = NoBytes
  /\ deleted = FALSE

(* A tick begins with the sweep: RecoverStaging over the save folder and    *)
(* `.backup/`, whose names come back in order, `.old` before `.tmp`.        *)

\* Bytes that survived the race they were in are owed like any other.
Survived == IF \A m \in cardHist : m["save"].bytes = raced THEN NoBytes ELSE raced

StartTick ==
  /\ pc = "idle"
  /\ Step("sweepOld")
  /\ raced' = Survived
  /\ UNCHANGED <<folders, faults, owed, deleted>>

\* Mutant: the sweep counts a `.old` without its save and leaves it.
SweepOldLeft ==
  /\ pc = "sweepOld" /\ pc' = "sweepTmp"
  /\ UNCHANGED <<folders, frame, faults, ghosts>>

\* `<save>.old` without a save is the save of an interrupted commit, and goes back.
\* Beside a save it is left alone.
SweepOld ==
  /\ pc = "sweepOld"
  /\ pc' = "sweepTmp"
  /\ \/ /\ ~Exists(card["save"])
        /\ RenameCard("old", "save")
        /\ rescan' = TRUE
        /\ deleted' = FALSE
     \/ /\ ~Exists(card["save"]) /\ Exists(card["old"])
        /\ Refused
        /\ UNCHANGED <<card, cardHist, rescan, deleted>>
     \/ /\ Exists(card["save"]) \/ ~Exists(card["old"])
        /\ Granted
        /\ UNCHANGED <<card, cardHist, rescan, deleted>>
  /\ UNCHANGED <<backup, backupHist, op, want, slot, replacing, owed, raced>>

\* A `.tmp` is a body nothing verified: discarded, never committed.
SweepTmp ==
  /\ pc = "sweepTmp"
  /\ RemoveCard("tmp")
  /\ Step("sweepBackup")
  /\ UNCHANGED <<backup, backupHist, ghosts>>

\* Of `.backup/` only the `.tmp` of an interrupted copy goes.  A tick that put a save
\* back stops here: the scan it was given never saw that save.
SweepBackup ==
  /\ pc = "sweepBackup"
  /\ RemoveBackup("tmp")
  /\ Step(IF rescan THEN "idle" ELSE "plan")
  /\ UNCHANGED <<card, cardHist, ghosts>>

\* The plan the server answered with has at most one operation that touches this save.
PlanNothing ==
  /\ pc = "plan"
  /\ Step("idle")
  /\ UNCHANGED <<folders, faults, ghosts>>

\* Mutant: a plan whose digest is not one is carried out.
PlanDownloadUndigested ==
  /\ pc = "plan" /\ pc' = "fetch"
  /\ op' = "download" /\ \E b \in Bytes \cup {Junk} : want' = b
  /\ UNCHANGED <<folders, slot, replacing, rescan, faults, ghosts>>

PlanDownload ==
  /\ pc = "plan"
  /\ op' = "download" /\ \E b \in Bytes : want' = b
  /\ pc' = "fetch"
  /\ UNCHANGED <<folders, slot, replacing, rescan, faults, ghosts>>

PlanDelete ==
  /\ pc = "plan"
  /\ op' = "delete" /\ \E b \in Bytes : want' = b
  /\ pc' = "copy"
  /\ UNCHANGED <<folders, slot, replacing, rescan, faults, ghosts>>

\* A press in the overlay, between two ticks and with no sweep before it.
StartRestore ==
  /\ pc = "idle"
  /\ \E s \in Slots : Exists(backup[s])
  /\ op' = "restore"
  /\ pc' = "copy"
  /\ raced' = Survived
  /\ UNCHANGED <<folders, want, slot, replacing, rescan, faults, owed, deleted>>

-----------------------------------------------------------------------------
(* Fetch, up to the backup: the body is staged beside the save, synced by   *)
(* the HTTP backend, and held to the plan's digest.                         *)

FetchBody ==
  /\ pc = "fetch"
  /\ UNCHANGED <<backup, backupHist, ghosts>>
  /\ \/ /\ Granted
        /\ \E b \in Bytes \cup {Junk} : Card(Put(card, "tmp", Loose(b)))
        /\ Step("land")
     \/ /\ Refused
        /\ UNCHANGED <<card, cardHist>>
        /\ Step("discard")

\* Mutant: the backend renames `.tmp.part` without the sync.
FetchLandUnsynced ==
  /\ pc = "land" /\ Step("verify")
  /\ UNCHANGED <<folders, faults, ghosts>>

FetchLand ==
  /\ pc = "land"
  /\ UNCHANGED <<backup, backupHist, ghosts>>
  /\ \/ /\ Granted
        /\ card' = Settle(card, "tmp")
        /\ cardHist' = SettleTmp(cardHist, card["tmp"])
        /\ Step("verify")
     \/ /\ Refused
        /\ UNCHANGED <<card, cardHist>>
        /\ Step("discard")

FetchVerify ==
  /\ pc = "verify"
  /\ \/ Granted /\ Step(IF card["tmp"].bytes = want THEN "copy" ELSE "discard")
     \/ Refused /\ Step("discard")
  /\ UNCHANGED <<folders, ghosts>>

-----------------------------------------------------------------------------
(* BackUpFirst: the previous bytes copied to a fresh name under `.backup/`, *)
(* synced, named, and the name synced as well.                              *)

BackupFailed == IF op = "download" THEN "discard" ELSE "idle"

\* Nothing at the save's path: nothing to preserve.  A `delete` is then already done.
NothingToBackUp ==
  /\ pc = "copy"
  /\ ~Exists(card["save"])
  /\ \E s \in Slots : ~Exists(backup[s])
  /\ Step(IF op = "download" THEN "check" ELSE IF op = "restore" THEN "stage" ELSE "idle")
  /\ UNCHANGED <<folders, faults, ghosts>>

BackUpCopy ==
  /\ pc = "copy"
  /\ UNCHANGED <<card, cardHist, ghosts>>
  /\ \/ \E s \in Slots :
          /\ Exists(card["save"]) /\ ~Exists(backup[s])
          /\ Granted
          /\ slot' = s
          /\ Backup(Put(backup, "tmp", Loose(card["save"].bytes)))
          /\ pc' = "copySync"
          /\ UNCHANGED <<op, want, replacing, rescan>>
     \/ /\ \/ Refused
           \/ (\A s \in Slots : Exists(backup[s])) /\ Granted
        /\ Step(BackupFailed)
        /\ UNCHANGED <<backup, backupHist>>

\* Remove(temp) after a failure: its own answer is not read.
DropCopy == Backup(Put(backup, "tmp", Absent)) \/ UNCHANGED <<backup, backupHist>>

BackUpCopySync ==
  /\ pc = "copySync"
  /\ UNCHANGED <<card, cardHist, ghosts>>
  /\ \/ /\ Granted
        /\ backup' = Settle(backup, "tmp")
        /\ backupHist' = SettleTmp(backupHist, backup["tmp"])
        /\ Step("name")
     \/ /\ Refused
        /\ DropCopy
        /\ Step(BackupFailed)

BackUpName ==
  /\ pc = "name"
  /\ UNCHANGED <<card, cardHist, ghosts>>
  /\ \/ /\ Granted
        /\ Backup(Move(backup, "tmp", slot))
        /\ Step("nameSync")
     \/ /\ Refused
        /\ DropCopy
        /\ Step(BackupFailed)

AfterBackUp ==
  IF op = "download" THEN "check" ELSE IF op = "restore" THEN "stage" ELSE "compare"

\* Mutant: a sync of the folder the card refuses is not a failed backup.
BackUpNameUnconfirmed ==
  /\ pc = "nameSync" /\ Step(AfterBackUp)
  /\ \/ Granted /\ backupHist' = {backup}
     \/ Refused /\ UNCHANGED backupHist
  /\ UNCHANGED <<card, cardHist, backup, ghosts>>

BackUpNameSync ==
  /\ pc = "nameSync"
  /\ UNCHANGED <<card, cardHist, backup, ghosts>>
  /\ \/ /\ Granted
        /\ backupHist' = {backup}
        /\ Step(AfterBackUp)
     \/ /\ Refused
        /\ UNCHANGED backupHist
        /\ Step("unname")

\* The card would not confirm the name, so this is not a backup, and it goes.
BackUpUnname ==
  /\ pc = "unname"
  /\ RemoveBackup(slot)
  /\ Step(BackupFailed)
  /\ UNCHANGED <<card, cardHist, ghosts>>

-----------------------------------------------------------------------------
(* What stands between the backup and the commit.                           *)

\* Mutant: the delete does not ask which bytes the server ruled on.
DeleteUncompared ==
  /\ pc = "compare" /\ Step("check")
  /\ UNCHANGED <<folders, faults, ghosts>>

\* Remove: the server ruled on the bytes this tick reported, and on no others.  A backup
\* of other bytes, or one that cannot be read back, goes again.
DeleteCompare ==
  /\ pc = "compare"
  /\ UNCHANGED <<card, cardHist, ghosts>>
  /\ \/ /\ backup[slot].bytes = want
        /\ Granted
        /\ Step("check")
        /\ UNCHANGED <<backup, backupHist>>
     \/ /\ backup[slot].bytes # want
        /\ RemoveBackup(slot)
        /\ Step("idle")
     \/ /\ Refused
        /\ Backup(Put(backup, slot, Absent)) \/ UNCHANGED <<backup, backupHist>>
        /\ Step("idle")

\* Restore: CopyStaged from the entry's backup to `<save>.tmp`, and its sync.
RestoreStage ==
  /\ pc = "stage"
  /\ UNCHANGED <<backup, backupHist, ghosts>>
  /\ \/ \E s \in Slots \ {slot} :
          /\ Exists(backup[s])
          /\ Granted
          /\ Card(Put(card, "tmp", Loose(backup[s].bytes)))
          /\ Step("stageSync")
     \/ /\ Refused
        /\ UNCHANGED <<card, cardHist>>
        /\ Step("discard")

RestoreStageSync ==
  /\ pc = "stageSync"
  /\ UNCHANGED <<backup, backupHist, ghosts>>
  /\ \/ /\ Granted
        /\ card' = Settle(card, "tmp")
        /\ cardHist' = SettleTmp(cardHist, card["tmp"])
        /\ Step("check")
     \/ /\ Refused
        /\ UNCHANGED <<card, cardHist>>
        /\ Step("discard")

Unchanged == IF slot = NoSlot THEN ~Exists(card["save"])
                              ELSE card["save"].bytes = backup[slot].bytes

CheckFailed == IF op = "delete" THEN "idle" ELSE "discard"

\* Mutant: nothing looks at the save again between the backup and the commit.
UncheckedSinceBackup ==
  /\ pc = "check" /\ Step(IF op = "delete" THEN "remove" ELSE "aside")
  /\ UNCHANGED <<folders, faults, ghosts>>

UnchangedSinceBackup ==
  /\ pc = "check"
  /\ UNCHANGED <<folders, ghosts>>
  /\ \/ Unchanged /\ Granted /\ Step(IF op = "delete" THEN "remove" ELSE "aside")
     \/ ~Unchanged /\ Granted /\ Step(CheckFailed)
     \/ Refused /\ Step(CheckFailed)

-----------------------------------------------------------------------------
(* CommitStaged.                                                            *)

\* Exists(staged), Exists(path) and, when there is a file to move aside, the removal of
\* a stale `.old` first.  An open the card refuses reads as absence.
CommitLook ==
  /\ pc = "aside"
  /\ UNCHANGED <<backup, backupHist, ghosts>>
  /\ \/ /\ Exists(card["save"])
        /\ replacing' = TRUE
        /\ RemoveCard("old")
        /\ pc' = "moveAside"
        /\ UNCHANGED <<op, want, slot, rescan>>
     \/ /\ \/ Exists(card["save"]) /\ Refused
           \/ ~Exists(card["save"]) /\ Granted
        /\ replacing' = FALSE
        /\ pc' = "publish"
        /\ UNCHANGED <<card, cardHist, op, want, slot, rescan>>
     \/ /\ Refused
        /\ Step("idle")
        /\ UNCHANGED <<card, cardHist>>

CommitMoveAside ==
  /\ pc = "moveAside"
  /\ UNCHANGED <<backup, backupHist, ghosts>>
  /\ \/ RenameCard("save", "old") /\ Step("publish")
     \/ RenameCardRefused("save", "old") /\ Step("discard")

CommitPublish ==
  /\ pc = "publish"
  /\ UNCHANGED <<backup, backupHist, owed, raced>>
  /\ \/ /\ RenameCard("tmp", "save")
        /\ deleted' = FALSE
        /\ Step("tidy")
     \/ /\ RenameCardRefused("tmp", "save")
        /\ deleted' = deleted
        /\ Step(IF replacing THEN "putBack" ELSE "discard")

CommitPutBack ==
  /\ pc = "putBack"
  /\ RenameCard("old", "save") \/ RenameCardRefused("old", "save")
  /\ Step("discard")
  /\ UNCHANGED <<backup, backupHist, ghosts>>

CommitTidy ==
  /\ pc = "tidy"
  /\ RemoveCard("old")
  /\ Step("syncDir")
  /\ UNCHANGED <<backup, backupHist, ghosts>>

\* Asked and not required, here and after a removal: the rename has happened.
SyncFolder ==
  /\ pc \in {"syncDir", "syncRemoved"}
  /\ \/ Granted /\ cardHist' = {card}
     \/ Refused /\ UNCHANGED cardHist
  /\ Step("idle")
  /\ UNCHANGED <<card, backup, backupHist, ghosts>>

DeleteRemove ==
  /\ pc = "remove"
  /\ UNCHANGED <<backup, backupHist, owed, raced>>
  /\ \/ /\ Granted
        /\ Card(Put(card, "save", Absent))
        /\ deleted' = TRUE
        /\ Step("syncRemoved")
     \/ /\ Refused
        /\ UNCHANGED <<card, cardHist, deleted>>
        /\ Step("idle")

\* The staged file of an operation that failed: StagedFile's destructor, or CommitStaged.
Discard ==
  /\ pc = "discard"
  /\ RemoveCard("tmp")
  /\ Step("idle")
  /\ UNCHANGED <<backup, backupHist, ghosts>>

-----------------------------------------------------------------------------
(* The game and the power.                                                  *)

\* The read of UnchangedSinceBackup is over and the save is still to be moved or removed.
InWindow == pc \in {"aside", "moveAside", "remove"}

\* An emulator writes its save, whole and on the card: that is its own business, and
\* what it replaces thereby nobody owes it.
GameWrite ==
  /\ \E b \in Bytes :
       /\ b # card["save"].bytes
       /\ card' = Put(card, "save", Settled(b))
       /\ cardHist' = {card'}
       /\ IF InWindow
          THEN /\ raced' = b
               /\ owed' = (owed \ {card["save"].bytes, raced}) \cup {b}
          ELSE /\ raced' = IF b = raced THEN NoBytes ELSE raced
               /\ owed' = (owed \ {card["save"].bytes}) \cup {b}
  /\ deleted' = FALSE
  /\ UNCHANGED <<backup, backupHist, pc, frame, faults>>

Unsynced(folder) == {n \in DOMAIN folder : ~folder[n].synced}

\* What a cut may leave of a folder: unsynced files whole or torn.
Torn(folder, torn) ==
  [n \in DOMAIN folder |->
     IF folder[n].synced THEN folder[n]
     ELSE IF n \in torn THEN Settled(Junk) ELSE Settled(folder[n].bytes)]

PowerCut ==
  /\ Refused
  /\ \E m \in cardHist : \E t \in SUBSET Unsynced(m) :
       card' = Torn(m, t) /\ cardHist' = {card'}
  /\ \E m \in backupHist : \E t \in SUBSET Unsynced(m) :
       backup' = Torn(m, t) /\ backupHist' = {backup'}
  /\ Step("idle")
  /\ deleted' = (deleted /\ \A n \in {"save", "old"} : card'[n] = card[n])
  /\ UNCHANGED <<owed, raced>>

Engine ==
  \/ StartTick \/ SweepOld \/ SweepTmp \/ SweepBackup
  \/ PlanNothing \/ PlanDownload \/ PlanDelete \/ StartRestore
  \/ FetchBody \/ FetchLand \/ FetchVerify
  \/ NothingToBackUp \/ BackUpCopy \/ BackUpCopySync
  \/ BackUpName \/ BackUpNameSync \/ BackUpUnname
  \/ DeleteCompare \/ RestoreStage \/ RestoreStageSync \/ UnchangedSinceBackup
  \/ CommitLook \/ CommitMoveAside \/ CommitPublish \/ CommitPutBack
  \/ CommitTidy \/ SyncFolder \/ DeleteRemove \/ Discard

Next == Engine \/ GameWrite \/ PowerCut

Spec == Init /\ [][Next]_vars

\* The worker thread keeps running, and a scheduled tick keeps coming round however many
\* restores are pressed in between.
FairSpec == Spec /\ WF_vars(Engine) /\ SF_vars(StartTick)

-----------------------------------------------------------------------------
(* Properties.                                                              *)

\* What the sweep makes of a save folder: the save, or the one moved aside.
Recovered(m) == IF Exists(m["save"]) THEN m["save"] ELSE m["old"]

\* The guarantee of docs/SYNC_PROTOCOL.md, "Backups": whatever the instant of a power
\* cut, once the next boot has swept, every byte the game left is the save itself or in
\* full under `.backup/`.  The one exception is what the game wrote between the last
\* comparison and the commit's rename (UnchangedSinceBackup narrows that window and
\* cannot close it).
NoSaveLost ==
  \A b \in owed \ {raced}, m \in cardHist, n \in backupHist :
    Recovered(m).bytes = b \/ \E s \in Slots : n[s].bytes = b

\* No power cut leaves a torn, unsynced or unverified body under the name of a save, of
\* the save moved aside, or of a backup: WriteStaged, CopyStaged and the HTTP backend
\* sync before CommitStaged renames, Fetch verifies before it commits, and the sweep
\* never finishes a `.tmp`.
OnlyWholeSaves ==
  /\ \A m \in cardHist : \A n \in {"save", "old"} : m[n].bytes # Junk /\ m[n].synced
  /\ \A m \in backupHist : \A s \in Slots : m[s].bytes # Junk /\ m[s].synced

\* Hard rule 2 as an order of persistence: when CommitStaged or Remove takes bytes off
\* the save's name, whoever wrote them, every `.backup/` a cut could leave holds them.
BackedUp(b) == \A n \in backupHist : \E s \in Slots : n[s] = Settled(b)
TakenIsBackedUp ==
  [][ (pc \in {"moveAside", "remove"} /\ Exists(card["save"]) /\ ~Exists(card'["save"]))
      => card["save"].bytes = raced \/ BackedUp(card["save"].bytes) ]_vars

\* The argument behind NoSaveLost, as one inductive invariant.  A backup counts from the
\* moment no later step of the operation that made it can withdraw it.
Pending == IF pc \in {"nameSync", "unname", "compare"} THEN {slot} ELSE {}
Kept(b) == \E s \in Slots \ Pending : \A n \in backupHist : n[s] = Settled(b)
Owed    == owed \ {raced}

\* The folders as they read now are among those a cut may leave.
CurrentIn == card \in cardHist /\ backup \in backupHist

\* Owed bytes are what every swept save folder holds, or are kept.
OwedIsSafe ==
  \A b \in Owed : (\A m \in cardHist : Recovered(m) = Settled(b)) \/ Kept(b)

\* Owed bytes that survive only as a `.old` without a save are kept: a commit over that
\* hole makes no backup and its tidy-up removes the `.old`.
AsideIsKept ==
  \A m \in cardHist : ~Exists(m["save"]) /\ m["old"].bytes \in Owed => Kept(m["old"].bytes)

\* Between the last check and the commit, what the commit displaces is kept, and so is
\* the save itself unless the game wrote it in between, whoever put it there.
DisplacedIsKept ==
  /\ (InWindow \/ (pc = "publish" /\ ~Exists(card["save"]))) /\ Recovered(card).bytes \in Owed
       => Kept(Recovered(card).bytes)
  /\ InWindow /\ Exists(card["save"]) /\ card["save"].bytes # raced => Kept(card["save"].bytes)

\* The copy being made, the fresh name it is to take, and the backup under that name.
BackupInHand ==
  /\ pc \in {"idle", "sweepOld", "sweepTmp", "sweepBackup", "plan",
             "fetch", "land", "verify", "copy"} => slot = NoSlot
  /\ pc \in {"copySync", "name"} =>
       slot \in Slots /\ ~Exists(backup[slot]) /\ backup["tmp"].bytes \in Bytes
  /\ pc = "name" => backup["tmp"].synced
  /\ pc \in {"nameSync", "unname", "compare"} => slot \in Slots /\ Exists(backup[slot])
  /\ pc \in {"compare", "stage", "stageSync", "check"} /\ slot # NoSlot =>
       backupHist = {backup} /\ Exists(backup[slot])
  /\ pc = "check" /\ op = "delete" => slot # NoSlot

\* The staged bytes are whole and on the card from the moment they are verified, and
\* there is a save wherever one is about to be moved aside or has just been put.
StagedInHand ==
  /\ pc \in {"fetch", "land", "verify"} => op = "download"
  /\ pc \in {"stage", "stageSync"} => op = "restore"
  /\ pc = "compare" => op = "delete"
  /\ pc \in {"copy", "copySync", "name", "nameSync", "unname", "compare", "check"} =>
       op \in {"download", "delete", "restore"}
  /\ op = "download" => want \in Bytes
  /\ pc = "verify" => card["tmp"].synced
  /\ pc \in {"copy", "copySync", "name", "nameSync", "unname", "check"} /\ op = "download"
       => card["tmp"].synced /\ card["tmp"].bytes = want
  /\ pc = "stageSync" => card["tmp"].bytes \in Bytes
  /\ pc = "check" /\ op = "restore" => card["tmp"].synced /\ card["tmp"].bytes \in Bytes
  /\ pc \in {"aside", "moveAside", "publish"} =>
       /\ card["tmp"].synced /\ card["tmp"].bytes \in Bytes
       /\ op = "download" => card["tmp"].bytes = want
  /\ pc = "check" /\ op = "delete" => backup[slot].bytes = want
  /\ pc = "remove" => card["save"].bytes \in {want, raced}
  /\ pc \in {"moveAside", "remove", "tidy"} => Exists(card["save"])

IInv ==
  /\ TypeOK
  /\ OnlyWholeSaves
  /\ CurrentIn
  /\ OwedIsSafe
  /\ AsideIsKept
  /\ DisplacedIsKept
  /\ BackupInHand
  /\ StagedInHand

\* A download puts exactly the plan's bytes at the save, and a delete takes exactly the
\* bytes the server ruled on, through every step in between (Fetch, Remove).
ActsOnThePlan ==
  [][ /\ (pc = "publish" /\ pc' = "tidy" /\ op = "download") => card'["save"].bytes = want
      /\ (pc = "remove" /\ pc' = "syncRemoved") => card["save"].bytes \in {want, raced}
    ]_vars

\* A save an interrupted commit left under `.old` comes back: by the commit, by its
\* rollback, or by a later tick's sweep (RecoverStaging).  It is a save no power cut can
\* take off the card again: one whose folder refused its sync may go with a second cut,
\* and is then under `.backup/` only.
AsideReturns ==
  /\ ~Exists(card["save"]) /\ Exists(card["old"])
  /\ \A m \in cardHist : Exists(Recovered(m))
  ~> Exists(card["save"])

\* docs/SYNC_PROTOCOL.md on a `.old` without its save: "it is then the only copy of the
\* save".  A save that a `delete` removed is not one the sweep has to bring back.
SweepRestoresOnlyTheSave ==
  [][ (pc = "sweepOld" /\ pc' = "sweepTmp" /\ deleted) => ~Exists(card'["save"]) ]_vars
=============================================================================
