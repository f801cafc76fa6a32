------------------------------ MODULE SaveSync ------------------------------
(***************************************************************************)
(* One save (one rom, one slot) between the card, the row state.db keeps   *)
(* of it and the RomM server: the scan, the negotiation, the plan's one    *)
(* operation, the second negotiation after a 409, the baseline and the     *)
(* Keep local override.  Another device uploads and deletes, games write,  *)
(* requests and replies are lost, and the power goes, between any two      *)
(* steps.  SaveCard has what happens on the card inside one operation;     *)
(* here a backup, a commit and a removal are one step each.                *)
(*                                                                         *)
(* A digest is the bytes it is the digest of (MD5 taken as injective).     *)
(***************************************************************************)
EXTENDS Naturals, FiniteSets

CONSTANTS
    Bytes,        \* what a save may hold
    None,         \* no save, no digest, no sync row
    Unhashed,     \* a save reported without a digest
    MaxRows,      \* bound: save rows the server ever makes for the slot
    MaxMoves,     \* bound: writes, presses, other devices' uploads, deletions
    MaxFaults,    \* bound: refused or lost calls and power cuts
    Policies,     \* the values [sync] on_server_delete may have
    SameSecond,   \* TRUE: two writes may share their mtime second and size
    WriteInUpload \* TRUE: a game may write between Upload's hash and its send

ASSUME ConstantsAssumption ==
    /\ None \notin Bytes
    /\ Unhashed \notin Bytes
    /\ Unhashed # None
    /\ MaxRows \in Nat
    /\ MaxMoves \in Nat
    /\ MaxFaults \in Nat
    /\ Policies \subseteq {"keep", "backup_and_remove"}
    /\ SameSecond \in BOOLEAN
    /\ WriteInUpload \in BOOLEAN

VARIABLES
    card,      \* the bytes of the save, or None
    backups,   \* what .backup/ holds for this save
    row,       \* the save's row in state.db, or None
    twin,      \* the file has the mtime second and size of that row
    since,     \* the file has the mtime second and size the scan saw
    entry,     \* the save's newest entry in conflicts.db, or None
    armed,     \* the engine's keep_local_ holds this save (memory only)
    made,      \* server: rows 1..made were made for the slot
    body,      \* server: the bytes of each row
    hash,      \* server: the digest each row is listed with
    live,      \* server: the rows not deleted
    head,      \* server: the slot's newest row, 0 when it is empty
    sync,      \* server: this device's last_sync_hash per row, or None
    stale,     \* server: rows that moved after this device synced them
    lost,      \* server: digests the slot lost to a deletion
    archive,   \* server: archival saves this device left (no slot)
    pc,        \* where the tick is
    reported,  \* the digest step 0 reported, Unhashed, or None for no save
    override,  \* this tick's options carry the Keep local
    op,        \* the plan's operation for this save
    digest,    \* what Upload hashed
    staged,    \* what Fetch downloaded and verified
    saved,     \* what the operation backed up
    outcome,   \* the operation's result
    met,       \* ghost: rows whose bytes this console has held
    moves,
    faults

server == <<made, body, hash, live, head, sync, stale, lost, archive>>
local == <<card, backups, row, twin, since, entry>>
plan == <<reported, override, op>>
work == <<digest, staged, saved>>
vars == <<local, server, plan, work, armed, pc, outcome, met, moves, faults>>

Ids == 1 .. MaxRows
Digests == Bytes \cup {None}
NoOp == [action |-> "none", id |-> 0, hash |-> None]
Ops == [action : {"none", "no_op", "upload", "download", "conflict", "delete"},
        id : Ids \cup {0}, hash : Digests]
Entries == [bytes : Digests, conflict : BOOLEAN]
Rows == [hash : Bytes, server : Digests, deleted : BOOLEAN]

Hashed(r) == r \in Bytes

Init ==
    /\ card \in Bytes \cup {None}
    /\ backups = {}
    /\ row = None
    /\ twin = FALSE
    /\ since = FALSE
    /\ entry = None
    /\ armed = FALSE
    /\ made = 0
    /\ body = [i \in Ids |-> None]
    /\ hash = [i \in Ids |-> None]
    /\ live = {}
    /\ head = 0
    /\ sync = [i \in Ids |-> None]
    /\ stale = {}
    /\ lost = {}
    /\ archive = {}
    /\ pc = "idle"
    /\ reported = None
    /\ override = FALSE
    /\ op = NoOp
    /\ digest = None
    /\ staged = None
    /\ saved = None
    /\ outcome = "none"
    /\ met = {}
    /\ moves = 0
    /\ faults = 0

-----------------------------------------------------------------------------
(* The server, as docs/API_CONTRACT.md describes RomM 5.4.0 and as the      *)
(* client relies on it.                                                     *)

(* negotiate_sync for one save, as the set of actions it may plan: where    *)
(* RomM goes by timestamps, which no clock here orders, every action the    *)
(* timestamps could give.  "none" is a plan that does not name the save.    *)
Verdicts(r) ==
    IF head = 0 THEN
        IF r = None THEN {"none"}
        ELSE {"upload"} \cup (IF r \in lost THEN {"delete"} ELSE {})
    ELSE IF r = None THEN
        IF sync[head] = None THEN {"download"} ELSE {"none"}
    ELSE IF r = hash[head] THEN {"no_op"}
    ELSE IF r = Unhashed THEN {"no_op", "upload", "download"}
    ELSE IF sync[head] = None THEN {"upload", "download", "conflict"}
    ELSE {IF r # sync[head] THEN "upload" ELSE "no_op"}
            \cup (IF r \in lost THEN {"download"} ELSE {})

Plan(a) ==
    IF a = "none" THEN NoOp
    ELSE [action |-> a, id |-> head, hash |-> IF head = 0 THEN None ELSE hash[head]]

Arbitrate(r) == {Plan(a) : a \in Verdicts(r)}

(* record_identical_content: a report that equals the head leaves history. *)
RecordIdentical(r) ==
    IF head # 0 /\ r = hash[head]
    THEN /\ sync' = [sync EXCEPT ![head] = r]
         /\ stale' = stale \ {head}
         /\ met' = met \cup {head}
    ELSE UNCHANGED <<sync, stale, met>>

(* The slot guard: no sync row for the newest save, or an older one.        *)
SlotHasNewer == head # 0 /\ (sync[head] = None \/ head \in stale)

(* POST /api/saves with a slot: bytes the slot holds are promoted, others   *)
(* are a new row, and this device has history against the new head.         *)
TakeUpload(b, d, overwrite) ==
    /\ \/ /\ ~overwrite
          /\ \E i \in live :
                /\ hash[i] = d
                /\ head' = i
          /\ UNCHANGED <<made, body, hash, live>>
       \/ /\ overwrite \/ \A i \in live : hash[i] # d
          /\ made < MaxRows
          /\ made' = made + 1
          /\ head' = made'
          /\ live' = live \cup {made'}
          /\ body' = [body EXCEPT ![made'] = b]
          /\ hash' = [hash EXCEPT ![made'] = d]
    /\ sync' = [sync EXCEPT ![head'] = d]
    /\ stale' = stale \ {head'}
    /\ met' = met \cup {head'}
    /\ UNCHANGED <<lost, archive>>

(* Another device uploads bytes of its own, or bytes the slot holds.        *)
OtherDeviceUploads(b) ==
    /\ moves < MaxMoves
    /\ moves' = moves + 1
    /\ \/ /\ \A i \in live : hash[i] # b
          /\ made < MaxRows
          /\ made' = made + 1
          /\ head' = made'
          /\ live' = live \cup {made'}
          /\ body' = [body EXCEPT ![made'] = b]
          /\ hash' = [hash EXCEPT ![made'] = b]
          /\ UNCHANGED stale
       \/ /\ \E i \in live :
                /\ hash[i] = b
                /\ head' = i
                /\ stale' = stale \cup {i}
          /\ UNCHANGED <<made, live, body, hash>>
    /\ UNCHANGED <<local, sync, lost, archive, plan, work, armed, pc, outcome, met, faults>>

(* A row deleted in RomM: the slot remembers losing it, and an older row is *)
(* the head, if there is one.                                               *)
DeletedInRomM(i) ==
    /\ moves < MaxMoves
    /\ moves' = moves + 1
    /\ i \in live
    /\ live' = live \ {i}
    /\ lost' = lost \cup {hash[i]}
    /\ sync' = [sync EXCEPT ![i] = None]
    /\ stale' = stale \ {i}
    /\ IF i # head THEN head' = head
       ELSE IF live' = {} THEN head' = 0
       ELSE head' \in live'
    /\ UNCHANGED <<local, made, body, hash, archive, plan, work, armed, pc, outcome, met, faults>>

-----------------------------------------------------------------------------
(* The console.                                                             *)

(* Whether a write leaves the file's stamp (mtime second and size) alone.   *)
Stamped ==
    \/ twin' = FALSE /\ since' = FALSE
    \/ SameSecond /\ twin' = twin /\ since' = since

(* A game writes its save, at any moment.                                   *)
GameWrite(b) ==
    /\ moves < MaxMoves
    /\ moves' = moves + 1
    /\ pc = "send" => WriteInUpload
    /\ card' = b
    /\ Stamped
    /\ UNCHANGED <<backups, row, entry, server, plan, work, armed, pc, outcome, met, faults>>

(* The player takes the save off the card, with the console off or idle.    *)
PlayerDeletes ==
    /\ moves < MaxMoves
    /\ moves' = moves + 1
    /\ pc # "send"
    /\ card # None
    /\ card' = None
    /\ Stamped
    /\ UNCHANGED <<backups, row, entry, server, plan, work, armed, pc, outcome, met, faults>>

(* Restore, between two ticks: the backup of the save's newest entry goes   *)
(* back to the card, what is there backed up first.                         *)
Restore ==
    /\ moves < MaxMoves
    /\ moves' = moves + 1
    /\ pc = "idle"
    /\ entry # None
    /\ entry.bytes # None
    /\ backups' = IF card = None THEN backups ELSE backups \cup {card}
    /\ card' = entry.bytes
    /\ Stamped
    /\ UNCHANGED <<row, entry, server, plan, work, pc, outcome, met, faults>>

RestoreBackup == Restore /\ UNCHANGED armed

(* The player's Keep local, of a conflict only: a restore that arms the     *)
(* override.                                                                *)
KeepLocal ==
    /\ Restore
    /\ entry.conflict
    /\ armed' = TRUE

Fault ==
    /\ faults < MaxFaults
    /\ faults' = faults + 1

(* ContentHashFor: a row whose mtime second and size match is believed.     *)
ContentHash == IF row # None /\ twin THEN row.hash ELSE card

(* Step 0, and the options of the tick: the digest reported, and whether a  *)
(* Keep local is armed.                                                     *)
Scan(r) ==
    /\ pc = "idle"
    /\ pc' = "scanned"
    /\ reported' = r
    /\ since' = TRUE
    /\ override' = armed
    /\ op' = NoOp
    /\ digest' = None
    /\ staged' = None
    /\ saved' = None
    /\ outcome' = "none"
    /\ UNCHANGED <<card, backups, row, twin, entry, server, armed, met, moves>>

ScanReads ==
    /\ Scan(IF card = None THEN None ELSE ContentHash)
    /\ UNCHANGED faults

(* The file was there and could not be hashed: reported without a digest.   *)
ScanUnhashed ==
    /\ card # None
    /\ Fault
    /\ Scan(Unhashed)

(* Mutant of Withheld: the mark in the row is never read.                   *)
WithheldNever == FALSE

(* RunTick's withheld: the bytes RomM deleted and this console kept are not *)
(* offered again.                                                           *)
Withheld == row # None /\ row.deleted /\ Hashed(reported) /\ reported = row.hash
Offered == IF Withheld THEN None ELSE reported

NegotiateOk ==
    /\ pc = "scanned"
    /\ op' \in Arbitrate(Offered)
    /\ RecordIdentical(Offered)
    /\ pc' = "op"
    /\ UNCHANGED <<local, made, body, hash, live, head, lost, archive, reported, override,
                   work, armed, outcome, moves, faults>>

(* Unreachable, refused, or the answer lost after the server recorded it:   *)
(* the tick ends with nothing written.                                      *)
NegotiateFails ==
    /\ pc = "scanned"
    /\ Fault
    /\ \/ RecordIdentical(Offered)
       \/ UNCHANGED <<sync, stale, met>>
    /\ pc' = "idle"
    /\ UNCHANGED <<local, made, body, hash, live, head, lost, archive, plan, work, armed,
                   outcome, moves>>

Ends(o) == pc' = "finish" /\ outcome' = o

(* A shutdown or a sleep, met at the operation boundary.                    *)
CancelPlan ==
    /\ pc = "op"
    /\ op.action # "none"
    /\ Fault
    /\ Ends("canceled")
    /\ UNCHANGED <<local, server, plan, work, armed, met, moves>>

ExecuteNothing ==
    /\ pc = "op"
    /\ op.action \in {"none", "no_op"}
    /\ Ends(IF op.action = "none" THEN "none" ELSE "no_op")
    /\ UNCHANGED <<local, server, plan, work, armed, met, moves, faults>>

-----------------------------------------------------------------------------
(* Upload.                                                                  *)

(* The digest of the file as it is now, not as the scan found it.           *)
UploadHash ==
    /\ pc = "op"
    /\ op.action = "upload"
    /\ card # None
    /\ digest' = card
    /\ pc' = "send"
    /\ UNCHANGED <<local, server, plan, staged, saved, armed, outcome, met, moves, faults>>

UploadUnreadable ==
    /\ pc = "op"
    /\ op.action = "upload"
    /\ \/ card = None /\ UNCHANGED faults
       \/ Fault
    /\ Ends("unsent")
    /\ UNCHANGED <<local, server, plan, work, armed, met, moves>>

(* Mutant of Overwrite: the guard is lifted for every upload.               *)
OverwriteAlways == TRUE

(* overwrite=false, unless the player chose Keep local for this save.       *)
Overwrite == override

UploadSend ==
    /\ pc = "send"
    /\ Overwrite \/ ~SlotHasNewer
    /\ TakeUpload(card, digest, Overwrite)
    /\ Ends("uploaded")
    /\ UNCHANGED <<local, plan, work, armed, moves, faults>>

(* The request never arrived, or it did and the answer was lost.            *)
UploadSendFails ==
    /\ pc = "send"
    /\ Fault
    /\ \/ /\ Overwrite \/ ~SlotHasNewer
          /\ TakeUpload(card, digest, Overwrite)
       \/ UNCHANGED <<server, met>>
    /\ Ends("unsent")
    /\ UNCHANGED <<local, plan, work, armed, moves>>

UploadRefused ==
    /\ pc = "send"
    /\ ~Overwrite
    /\ SlotHasNewer
    /\ pc' = "resolve"
    /\ outcome' = "failed"
    /\ UNCHANGED <<local, server, plan, work, armed, met, moves, faults>>

-----------------------------------------------------------------------------
(* ResolveRefusedUploads: one second negotiation, whose answer replaces the *)
(* refused operation and is never another upload.                           *)

UnchangedSinceSync ==
    Hashed(reported) /\ row # None /\ row.server # None /\ reported = row.server

(* Mutant of Resolved: every 409 is left to the next tick.                  *)
ResolvedNever(h) == NoOp

(* ResolveNewerOnServer: the answer as this step obeys it, or NoOp when it  *)
(* is left to the next tick.                                                *)
Resolved(h) ==
    IF h.action = "no_op" THEN h
    ELSE IF h.action \in {"upload", "download", "conflict"} /\ h.id # 0 THEN
        [h EXCEPT !.action =
            IF h.action # "conflict" /\ UnchangedSinceSync THEN "download" ELSE "conflict"]
    ELSE NoOp

Resolve ==
    /\ pc = "resolve"
    /\ \E h \in Arbitrate(Offered) :
          LET r == Resolved(h) IN
          IF r = NoOp
          THEN /\ pc' = "finish"
               /\ UNCHANGED op
          ELSE /\ op' = r
               /\ pc' = "op"
    /\ RecordIdentical(Offered)
    /\ UNCHANGED <<local, made, body, hash, live, head, lost, archive, reported, override,
                   work, armed, outcome, moves, faults>>

(* A game launched since the tick's own check, or the negotiation failed.   *)
ResolveFails ==
    /\ pc = "resolve"
    /\ Fault
    /\ pc' = "finish"
    /\ UNCHANGED <<local, server, plan, work, armed, outcome, met, moves>>

-----------------------------------------------------------------------------
(* Fetch, for a download and for a conflict.                                *)

Fetches == op.action \in {"download", "conflict"}

(* A save the scan did not report is only ever created, never written over. *)
Placeable == reported # None \/ card = None

(* GET .../content, verified against the digest the plan named.             *)
FetchBody ==
    /\ pc = "op"
    /\ Fetches
    /\ IF Placeable /\ op.id \in live /\ body[op.id] = op.hash
       THEN /\ staged' = body[op.id]
            /\ pc' = "backup"
            /\ UNCHANGED outcome
       ELSE /\ Ends("failed")
            /\ UNCHANGED staged
    /\ UNCHANGED <<local, server, plan, digest, saved, armed, met, moves, faults>>

(* A transfer, a backup, a comparison or a commit the card or the network   *)
(* refuses: the save is as it was.                                          *)
OperationFails ==
    /\ \/ pc = "op" /\ (Fetches \/ op.action = "delete")
       \/ pc \in {"backup", "commit", "unlink"}
    /\ Fault
    /\ Ends("failed")
    /\ UNCHANGED <<local, server, plan, work, armed, met, moves>>

(* BackUpFirst: the save as it is now, if there is one.                     *)
BackUp ==
    /\ pc = "backup"
    /\ saved' = card
    /\ backups' = IF card = None THEN backups ELSE backups \cup {card}
    /\ pc' = IF op.action = "delete" THEN "unlink"
             ELSE IF op.action = "conflict" /\ reported # None /\ card # None THEN "archive"
             ELSE "commit"
    /\ UNCHANGED <<card, row, twin, since, entry, server, plan, digest, staged, armed, outcome, met,
                   moves, faults>>

(* The losing side of a conflict, left on the server without a slot.  A     *)
(* failure is said and never stops the conflict.                            *)
Archive ==
    /\ pc = "archive"
    /\ \/ archive' = archive \cup {saved} /\ UNCHANGED faults
       \/ Fault /\ UNCHANGED archive
    /\ pc' = "commit"
    /\ UNCHANGED <<local, made, body, hash, live, head, sync, stale, lost, plan, work, armed,
                   outcome, met, moves>>

(* Mutant of UnchangedSinceBackup: the comparison is left out.              *)
UnchangedUnasked == TRUE

(* UnchangedSinceBackup: the save still is what was backed up.              *)
UnchangedSinceBackup == card = saved

Commit ==
    /\ pc = "commit"
    /\ IF UnchangedSinceBackup
       THEN /\ card' = staged
            /\ Stamped
            /\ met' = met \cup {op.id}
            /\ pc' = "confirm"
            /\ UNCHANGED outcome
       ELSE /\ Ends("failed")
            /\ UNCHANGED <<card, twin, since, met>>
    /\ UNCHANGED <<backups, row, entry, server, plan, work, armed, moves, faults>>

(* POST .../downloaded: the server records that this device holds the row.  *)
RecordDownloaded ==
    /\ op.id \in live
    /\ sync' = [sync EXCEPT ![op.id] = op.hash]
    /\ stale' = stale \ {op.id}

Confirm ==
    /\ pc = "confirm"
    /\ RecordDownloaded
    /\ Ends(IF op.action = "download" THEN "downloaded" ELSE "kept_both")
    /\ UNCHANGED <<local, made, body, hash, live, head, lost, archive, plan, work, armed,
                   met, moves, faults>>

(* The row is gone, the request was lost, or its answer was.                *)
ConfirmFails ==
    /\ pc = "confirm"
    /\ \/ op.id \notin live /\ UNCHANGED <<sync, stale, faults>>
       \/ Fault /\ UNCHANGED <<sync, stale>>
       \/ Fault /\ RecordDownloaded
    /\ Ends("failed")
    /\ UNCHANGED <<local, made, body, hash, live, head, lost, archive, plan, work, armed,
                   met, moves>>

-----------------------------------------------------------------------------
(* Remove, for a delete.                                                    *)

RemoveStart(policy) ==
    /\ pc = "op"
    /\ op.action = "delete"
    /\ policy \in Policies
    /\ IF policy = "keep" THEN Ends("kept")
       ELSE IF ~Hashed(reported) THEN Ends("failed")
       ELSE pc' = "backup" /\ UNCHANGED outcome
    /\ UNCHANGED <<local, server, plan, work, armed, met, moves, faults>>

(* The backup is the bytes this tick reported, and the save still is the    *)
(* backup: only then does it go.                                            *)
RemoveIsRuledOn == saved = reported

RemoveUnlink ==
    /\ pc = "unlink"
    /\ IF saved = None
       THEN /\ Ends("removed")
            /\ UNCHANGED card
       ELSE IF RemoveIsRuledOn /\ UnchangedSinceBackup
       THEN /\ card' = None
            /\ Ends("removed")
       ELSE /\ Ends("failed")
            /\ UNCHANGED card
    /\ UNCHANGED <<backups, row, twin, since, entry, server, plan, work, armed, met, moves,
                   faults>>

-----------------------------------------------------------------------------
(* FinishTick: the baseline, then the Keep local this plan answered.        *)

Row(h, s, d) == [hash |-> h, server |-> s, deleted |-> d]

(* ApplyServerHalf: what the row says of the server's copy.                 *)
ServerHalf ==
    IF outcome = "uploaded" THEN reported
    ELSE IF outcome = "no_op" /\ op.hash = None THEN IF row = None THEN None ELSE row.server
    ELSE op.hash

(* Mutant of Advance: a report without a digest still makes a row.          *)
AdvanceUnhashed ==
    IF outcome = "uploaded" THEN Row(reported, reported, FALSE) ELSE row

(* Mutant of Advance: what is marked as deleted is read off the card again. *)
AdvanceMarksCard ==
    IF outcome = "kept" /\ card # None THEN Row(card, None, TRUE) ELSE row

(* AdvanceBaseline for this save: the row as the plan's outcome leaves it.  *)
Advance ==
    IF outcome \in {"uploaded", "no_op"} /\ Hashed(reported)
        THEN Row(reported, ServerHalf, FALSE)
    ELSE IF outcome \in {"downloaded", "kept_both"}
        THEN IF card = None THEN None ELSE Row(card, ServerHalf, FALSE)
    ELSE IF outcome = "kept" /\ Hashed(reported)
        THEN Row(reported, None, TRUE)
    ELSE IF outcome \in {"kept", "removed"}
        THEN None
    ELSE row

(* A row read back off the card has the file's stamp, one made of the       *)
(* report has the stamp the scan saw.                                       *)
AdvanceStamp ==
    IF outcome \in {"downloaded", "kept_both"} THEN TRUE
    ELSE IF outcome \in {"uploaded", "no_op", "kept"} /\ Hashed(reported) THEN since
    ELSE twin

(* Mutant of Spent: only an upload spends the override.                     *)
SpentByUpload == override /\ outcome = "uploaded"

(* SpendKeepLocal: an override this plan carried is spent by any result but *)
(* a cancelled one, and an upload that never reached the server.            *)
Spent == override /\ outcome \notin {"none", "canceled", "unsent"}

(* RecordSaves: the history's entry for what the plan did to this save.     *)
Recorded ==
    IF outcome = "kept_both" THEN [bytes |-> saved, conflict |-> TRUE]
    ELSE IF outcome \in {"downloaded", "removed"} /\ saved # None
        THEN [bytes |-> saved, conflict |-> FALSE]
    ELSE entry

FinishStored ==
    /\ pc = "finish"
    /\ row' = Advance
    /\ twin' = AdvanceStamp
    /\ armed' = (armed /\ ~Spent)
    /\ entry' = Recorded
    /\ pc' = "idle"
    /\ UNCHANGED <<card, backups, since, server, plan, work, outcome, met, moves, faults>>

FinishUnstored ==
    /\ pc = "finish"
    /\ Fault
    /\ armed' = (armed /\ ~Spent)
    /\ entry' = Recorded
    /\ pc' = "idle"
    /\ UNCHANGED <<card, backups, row, twin, since, server, plan, work, outcome, met, moves>>

(* What was only in memory is gone: the tick, and an override not yet spent.*)
PowerCut ==
    /\ Fault
    /\ pc' = "idle"
    /\ armed' = FALSE
    /\ UNCHANGED <<local, server, plan, work, outcome, met, moves>>

-----------------------------------------------------------------------------
(* What the console does when nothing fails.                                *)
Work ==
    \/ ScanReads \/ NegotiateOk \/ ExecuteNothing
    \/ UploadHash \/ UploadUnreadable \/ UploadSend \/ UploadRefused \/ Resolve
    \/ FetchBody \/ BackUp \/ Archive \/ Commit \/ Confirm \/ ConfirmFails
    \/ \E p \in Policies : RemoveStart(p)
    \/ RemoveUnlink \/ FinishStored

Fails ==
    \/ ScanUnhashed \/ NegotiateFails \/ CancelPlan \/ UploadSendFails
    \/ ResolveFails \/ OperationFails \/ FinishUnstored \/ PowerCut

World ==
    \/ \E b \in Bytes : OtherDeviceUploads(b) \/ GameWrite(b)
    \/ PlayerDeletes \/ RestoreBackup \/ KeepLocal
    \/ \E i \in Ids : DeletedInRomM(i)

Next == Work \/ Fails \/ World

Spec == Init /\ [][Next]_vars

(* Ticks keep coming round (the interval and the backoff of the scheduler), *)
(* and one that has begun goes on.                                          *)
FairSpec == Spec /\ WF_vars(Work)

-----------------------------------------------------------------------------
(* Every variable has its type (state.db's row, RomM's rows, the tick).     *)
TypeOK ==
    /\ card \in Bytes \cup {None}
    /\ backups \subseteq Bytes
    /\ row \in Rows \cup {None}
    /\ entry \in Entries \cup {None}
    /\ twin \in BOOLEAN
    /\ since \in BOOLEAN
    /\ armed \in BOOLEAN
    /\ override \in BOOLEAN
    /\ made \in 0 .. MaxRows
    /\ body \in [Ids -> Digests]
    /\ hash \in [Ids -> Digests]
    /\ live \subseteq 1 .. made
    /\ head \in live \cup {0}
    /\ sync \in [Ids -> Digests]
    /\ stale \subseteq Ids
    /\ lost \subseteq Bytes
    /\ archive \subseteq Bytes
    /\ pc \in {"idle", "scanned", "op", "send", "resolve", "backup", "archive", "commit",
               "confirm", "unlink", "finish"}
    /\ reported \in Bytes \cup {None, Unhashed}
    /\ op \in Ops
    /\ digest \in Digests
    /\ staged \in Digests
    /\ saved \in Digests
    /\ outcome \in {"none", "no_op", "uploaded", "downloaded", "kept_both", "removed", "kept",
                    "failed", "unsent", "canceled"}
    /\ met \subseteq Ids
    /\ moves \in 0 .. MaxMoves
    /\ faults \in 0 .. MaxFaults

(* Upload (sync_execute.cpp) sends overwrite=false, and a sync row is only  *)
(* ever written for a copy this console held: no upload of this console     *)
(* takes the head of the slot from a save it never held, unless the player  *)
(* chose Keep local for it.                                                 *)
SupersedesOnlyWhatItMet ==
    [][(UploadSend \/ UploadSendFails) /\ head' # head
          => head = 0 \/ head \in met \/ override]_vars

(* RunTick's withheld and AdvanceBaseline's mark: bytes RomM deleted and    *)
(* this console kept are not given back to RomM by a tick that reported     *)
(* them, for as long as the stored row says so.                             *)
DeletedStaysDeleted ==
    [][(UploadSend \/ UploadSendFails) /\ made' # made
          => ~(row # None /\ row.deleted /\ row.hash = reported)]_vars

(* AdvanceBaseline marks a row only for a digest the slot lost, so no save  *)
(* is withheld from RomM that RomM did not delete.                          *)
MarkedWasLost == row # None /\ row.deleted => row.hash \in lost

(* The inductive invariant behind the properties above and the refinement   *)
(* below: what each step of the tick may rely on from the steps before it.  *)
Given == {body[i] : i \in 1 .. made}

RowsGiven == \A i \in 1 .. made : hash[i] \in Bytes /\ body[i] \in Bytes
SyncMet == \A i \in Ids : sync[i] # None => i \in met
Sending == pc = "send" => card \in Bytes /\ digest \in Bytes /\ op.action = "upload"
Fetching ==
    /\ Fetches => op.id \in Ids
    /\ pc = "backup" => op.action = "delete" \/ (Fetches /\ staged \in Given)
    /\ pc \in {"archive", "commit"} => Fetches /\ staged \in Given
    /\ pc = "archive" => saved \in Bytes
    /\ pc = "confirm" => Fetches /\ op.id \in met
    /\ pc = "unlink" => op.action = "delete"
CopiesKept ==
    /\ saved \in backups \cup {None}
    /\ entry # None => entry.bytes \in backups \cup {None}
Ruled ==
    /\ op.action = "delete" => reported \in lost
    /\ outcome = "kept" => op.action = "delete"
    /\ pc = "resolve" => outcome = "failed"
    /\ pc = "scanned" => outcome = "none"
NotOffered ==
    op.action = "upload" /\ pc \in {"op", "send"}
        => ~(row # None /\ row.deleted /\ row.hash = reported)

IInv ==
    /\ TypeOK
    /\ RowsGiven
    /\ SyncMet
    /\ Sending
    /\ Fetching
    /\ CopiesKept
    /\ Ruled
    /\ NotOffered
    /\ MarkedWasLost

(* The console offers nothing: the save is off the card, or it is the copy  *)
(* RomM deleted and this console kept.                                      *)
Silent == card = None \/ (row # None /\ row.deleted /\ row.hash = card)

(* The two sides agree: the same save, or nothing offered for a slot that   *)
(* is empty or whose head this console has already had.                     *)
InStep ==
    \/ head # 0 /\ card = hash[head]
    \/ head = 0 /\ Silent
    \/ head # 0 /\ Silent /\ sync[head] # None

(* A write within the second its row was stamped in, at the same size: the  *)
(* scan believes the row (ContentHashFor), and nobody sees the new bytes.   *)
Misread == card # None /\ row # None /\ twin /\ row.hash # card

(* A write between Upload's hash and its send: RomM lists other bytes under *)
(* the digest it was given, and no download of that row verifies.           *)
Mislabelled == head # 0 /\ body[head] # hash[head]

(* Once nobody writes and nothing fails, the ticks (RunTick) bring the card *)
(* and the slot's head together and leave them so, unless the last write is *)
(* one no scan can tell from the bytes before it, or the slot's head was    *)
(* written under its own upload.                                            *)
Converges == <>[](InStep \/ Misread \/ Mislabelled)

(* SpendKeepLocal: a Keep local does not stay armed for ever, so no later   *)
(* upload goes over the guard on the strength of an old choice, except      *)
(* while no plan names the save: it is off the card, withheld, or taken for *)
(* bytes that are.                                                          *)
KeepLocalIsAnswered ==
    armed ~> ~armed \/ Silent \/ Misread

(* "Once the bytes are on the card ... that tick's upload of the save goes  *)
(* with overwrite=true" (docs/SYNC_PROTOCOL.md, Keep local): an armed choice*)
(* whose bytes stay on the card is spent.  Does not hold: the bytes the row *)
(* marks as deleted are withheld by every tick, and stay armed.            *)
KeepLocalIsSpent == armed ~> ~armed \/ card = None

(* What the console promises, without the server's arbitration.             *)
Promise == INSTANCE KeepBoth WITH
    kept <- backups,
    given <- Given,
    world <- moves

(* Every step of the console is one KeepBoth allows (BackUpFirst,           *)
(* UnchangedSinceBackup, Fetch's verification and Remove's comparison).     *)
KeepsBoth == Promise!Spec
=============================================================================
