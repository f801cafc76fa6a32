------------------------------ MODULE Conflicts ------------------------------
(***************************************************************************)
(* The conflict screen and the sysmodule it asks.  ConflictsModel pages    *)
(* through a history that grows at the front while it is read, asks for    *)
(* one restore at a time and polls until it is told how that ended.  The   *)
(* session may be slow: a call out of budget is handled later, its answer  *)
(* is dropped, and until it is handled no other call is sent.  It may also *)
(* break, with the call handled or not.                                    *)
(*                                                                         *)
(* A command is sent and answered within one frame, so loading_,           *)
(* cancelling_ and issued_ are back at nothing when a frame ends; they,    *)
(* and what is only drawn (total_, kept_server_, last_kept_local_), are    *)
(* not state here.  What a restore does to the card is SaveCard's.         *)
(***************************************************************************)
EXTENDS Integers, Sequences, FiniteSets, SequencesExt

CONSTANTS
    Saves,            \* the saves the history is about, each a (rom, slot)
    Nobody,           \* no call: nothing is out
    kMaxEntries,      \* how many entries a history keeps
    kMaxConflictPage, \* how many rows one page holds
    kConflictPrefetchRows,
    MaxPresses, MaxJolts \* syncs, reboots, lost, late and refused calls

ASSUME ConflictsAssumption ==
    /\ kMaxEntries \in Nat \ {0} /\ kMaxConflictPage \in Nat \ {0}
    /\ {kConflictPrefetchRows, MaxPresses, MaxJolts} \subseteq Nat
    /\ IsFiniteSet(Saves)

VARIABLES
    history, nextId,   \* entries_, newest first, and next_id_
    persisted,         \* what conflicts.db holds: the entries and the next id
    backups,           \* the entries whose backup is on the card
    restore,           \* restore_: the one restore the sysmodule knows about
    held, armed,       \* the saves of a Keep local held for a game, and waiting for a sync
    cm,                \* the overlay's ConflictsModel
    out,               \* the call that ran out of budget and is not handled yet
    presses, jolts,
    runs               \* how many restores were run for each press

storeVars == <<history, nextId, persisted, backups, held, armed>>
conflictBounds == <<presses, jolts>>
conflictVars == <<storeVars, restore, cm, out, conflictBounds, runs>>

ConflictsModes == {"list", "detail", "confirm"}
ConflictChoices == <<"keep_server", "keep_local", "skip">>
ConflictEvents == {"conflict", "replaced", "kept_both"}
Overwrote(event) == event \in {"conflict", "replaced"}
RestorePhases == {"idle", "running", "done"}
KeepLocalStates == {"open", "held", "waiting"}
RestoreOutcomes == {"restored", "no_such_entry", "nothing_to_restore", "backup_missing",
                    "write_failed", "not_a_conflict", "superseded", "keep_local_full", "held",
                    "none"}
Entry == [id: Nat, save: Saves, event: ConflictEvents]
RestoreReport == [outcome: RestoreOutcomes, of: Nat, press: Nat]

\* The report of the model's own making, and the one before there is any.  "press"
\* is a history variable: how many presses there were when the report was made.
OwnReport(outcome, of) == [outcome |-> outcome, of |-> of, press |-> presses]
NoReport == [outcome |-> "none", of |-> 0, press |-> 0]

NoRestore == [phase |-> "idle", entry |-> 0, keeps |-> FALSE, press |-> 0, report |-> NoReport]

\* The model as it is constructed, and as Reset leaves it.
Fresh == [rows |-> <<>>, hasMore |-> TRUE, pageError |-> FALSE, selected |-> 1, mode |-> "list",
          opened |-> 0, restoreWanted |-> 0, restoring |-> 0, awaiting |-> FALSE, lost |-> 0,
          restored |-> FALSE, lastRestore |-> NoReport, keepLocalWanted |-> FALSE,
          keepingLocal |-> FALSE, choice |-> 1, cancelWanted |-> 0, cancelAnswered |-> 0,
          link |-> "ok", stale |-> FALSE]

--------------------------------------------------------------------------
(* The history, and what the sysmodule answers.                            *)

\* What a boot reads: a newer release's file is not read, an id past the header's
\* counter moves the counter, and no more than a history keeps is taken.
ParseHistory(file) ==
    IF file.newer THEN [entries |-> <<>>, next |-> 1]
    ELSE LET nexts == {file.next} \cup {e.id + 1: e \in ToSet(file.entries)}
         IN [entries |-> SubSeq(file.entries, 1, IF Len(file.entries) < kMaxEntries
                                                 THEN Len(file.entries) ELSE kMaxEntries),
             next |-> CHOOSE n \in nexts: \A m \in nexts: m <= n]

\* The whole file is written, or it stays as it is; a newer release's is left alone.
Persist(file, entries, next, written) ==
    IF written /\ ~file.newer THEN [newer |-> FALSE, entries |-> entries, next |-> next] ELSE file

Found(id) == {e \in ToSet(history): e.id = id}

\* Only the newest entry of a save carries its choice, and only if it is a conflict.
CarriesChoice(e) ==
    /\ e.event = "conflict"
    /\ \A f \in ToSet(history): f.save = e.save => f.id <= e.id

KeepLocalOf(e) ==
    IF ~CarriesChoice(e) THEN "open"
    ELSE IF restore.phase = "running" /\ restore.keeps /\ restore.entry = e.id THEN "waiting"
    ELSE IF e.save \in held THEN "held"
    ELSE IF e.save \in armed THEN "waiting" ELSE "open"

\* A page of at most the limit, cut short where the next row would not fit.
BuildConflictPage(offset, fits) ==
    LET last == IF offset + fits < Len(history) THEN offset + fits ELSE Len(history)
    IN [entries |-> [i \in 1..(IF last > offset THEN last - offset ELSE 0) |->
                        LET e == history[offset + i]
                        IN [entry |-> e, backup |-> e.id \in backups, keepLocal |-> KeepLocalOf(e)]],
        hasMore |-> last < Len(history)]

\* One restore at a time: asked for another, the one that runs is the answer.
TakeRestore(id, keeps, press) ==
    IF restore.phase = "running" THEN restore
    ELSE [phase |-> "running", entry |-> id, keeps |-> keeps, press |-> press,
          report |-> NoReport]

\* What a cancel says, and what the row's choice is then.
CancelKeepLocal(id) ==
    IF \A e \in Found(id): ~CarriesChoice(e) THEN [outcome |-> "not_held", keepLocal |-> "open"]
    ELSE LET e == CHOOSE e \in Found(id): TRUE
             was == KeepLocalOf(e)
         IN IF was = "held" THEN [outcome |-> "cancelled", keepLocal |-> "open"]
            ELSE [outcome |-> IF was = "open" THEN "not_held" ELSE "landed", keepLocal |-> was]

\* What a cancel that is taken leaves held.
UnholdLocked(id) ==
    IF CancelKeepLocal(id).outcome = "cancelled"
    THEN held \ {e.save: e \in Found(id)} ELSE held

\* What the restore of an entry may come to: Keep local is refused before
\* anything is written, and held while a game runs.
Outcomes(id, keeps) ==
    IF Found(id) = {} THEN {"no_such_entry"}
    ELSE LET e == CHOOSE e \in Found(id): TRUE
         IN IF keeps /\ e.event # "conflict" THEN {"not_a_conflict"}
            ELSE IF keeps /\ ~CarriesChoice(e) THEN {"superseded"}
            ELSE IF ~Overwrote(e.event) THEN {"nothing_to_restore"}
            ELSE (IF keeps THEN {"held"} ELSE {})
                 \cup IF id \in backups THEN {"restored", "write_failed"} ELSE {"backup_missing"}

\* The worker runs the restore that is pending.
RunRestore ==
    /\ restore.phase = "running"
    /\ \E outcome \in Outcomes(restore.entry, restore.keeps):
         LET saves == {e.save: e \in Found(restore.entry)}
         IN /\ restore' = [restore EXCEPT !.phase = "done",
                             !.report = [outcome |-> outcome, of |-> restore.entry,
                                         press |-> presses]]
            /\ held' = IF outcome = "held" THEN held \cup saves ELSE held
            /\ armed' = IF restore.keeps /\ outcome = "restored" THEN armed \cup saves ELSE armed
    /\ runs' = [runs EXCEPT ![restore.press] = @ + 1]
    /\ UNCHANGED <<history, nextId, persisted, backups, cm, out, conflictBounds>>

\* The game closed and a held choice lands, if a newer entry has not replaced it.
LandHeld ==
    /\ \E s \in held:
         LET newest == {e \in ToSet(history): e.save = s
                            /\ \A f \in ToSet(history): f.save = s => f.id <= e.id}
         IN /\ held' = held \ {s}
            /\ armed' = IF \E e \in newest: e.event = "conflict" /\ e.id \in backups
                        THEN armed \cup {s} ELSE armed
    /\ UNCHANGED <<history, nextId, persisted, backups, restore, cm, out, conflictBounds, runs>>

\* A sync overwrites a save and records it: newest first, the oldest past the
\* cap dropped, an armed choice of the save spent.  The file may fail to be
\* written, and then the entry is in memory alone.
HistoryAppend ==
    /\ jolts < MaxJolts
    /\ \E s \in Saves, event \in ConflictEvents, written \in BOOLEAN:
         LET entries == <<[id |-> nextId, save |-> s, event |-> event]>> \o history
             keep == IF Len(entries) > kMaxEntries THEN kMaxEntries ELSE Len(entries)
         IN /\ history' = SubSeq(entries, 1, keep)
            /\ persisted' = Persist(persisted, SubSeq(entries, 1, keep), nextId + 1, written)
            /\ backups' = IF Overwrote(event) THEN backups \cup {nextId} ELSE backups
            /\ armed' = armed \ {s}
    /\ nextId' = nextId + 1 /\ jolts' = jolts + 1
    /\ UNCHANGED <<restore, held, cm, out, presses, runs>>

\* The player deletes a backup from the card.
BackupDeleted ==
    /\ jolts < MaxJolts
    /\ \E id \in backups: backups' = backups \ {id}
    /\ jolts' = jolts + 1
    /\ UNCHANGED <<history, nextId, persisted, restore, held, armed, cm, out, presses, runs>>

--------------------------------------------------------------------------
(* The model: what an answer makes of it.                                  *)

Current == {i \in 1..Len(cm.rows): cm.rows[i].entry.id = cm.opened}
CurrentRow == cm.rows[CHOOSE i \in Current: \A j \in Current: i <= j]

Restorability(row) ==
    IF ~Overwrote(row.entry.event) THEN "nothing_to_restore"
    ELSE IF ~row.backup THEN "backup_gone" ELSE "ready"

\* Where an entry is found: an entry paged twice, at its first row.
FirstRow(rows, id) ==
    {i \in DOMAIN rows: rows[i].entry.id = id /\ \A j \in 1..i - 1: rows[j].entry.id # id}

\* Confirming is over once the entry it is about is answered for.
AfterConfirm(c, id) == IF c.mode = "confirm" /\ c.opened = id THEN "detail" ELSE c.mode

FinishRestore(c, report) ==
    LET learns(row) ==
            IF report.outcome = "backup_missing" THEN [row EXCEPT !.backup = FALSE]
            ELSE IF c.keepingLocal /\ report.outcome = "held" THEN [row EXCEPT !.keepLocal = "held"]
            ELSE IF c.keepingLocal /\ report.outcome = "restored"
            THEN [row EXCEPT !.keepLocal = "waiting"] ELSE row
    IN [c EXCEPT !.restoring = 0, !.keepingLocal = FALSE, !.awaiting = FALSE,
                 !.restored = IF c.opened = c.restoring THEN TRUE ELSE @,
                 !.lastRestore = IF c.opened = c.restoring THEN report ELSE @,
                 !.mode = AfterConfirm(c, c.restoring),
                 !.rows = [i \in DOMAIN @ |->
                           IF i \in FirstRow(@, c.restoring) THEN learns(@[i]) ELSE @[i]]]

\* The sysmodule restarted and forgot: the screen says it lost track.
LoseTrack(c) ==
    [c EXCEPT !.lost = c.restoring, !.restoring = 0, !.awaiting = FALSE, !.restored = FALSE,
              !.mode = AfterConfirm(c, c.restoring)]

\* The answer to a press or to a poll.  Another entry's restore, running, is an
\* answer to a press: this one started nothing.
OnRestoreState(was, pressed, state) ==
    LET c == [was EXCEPT !.restoreWanted = 0]
        mine == state.entry = c.restoring
    IN CASE mine /\ state.phase = "running" ->
              [c EXCEPT !.awaiting = TRUE, !.mode = AfterConfirm(c, c.restoring)]
         [] mine /\ state.phase = "done" -> FinishRestore(c, state.report)
         [] ~mine /\ state.phase = "running" /\ pressed ->
              FinishRestore(c, OwnReport("write_failed", c.restoring))
         [] OTHER -> LoseTrack(c)

\* Mutant: the next page is asked for past a full one, short or not.
OnPageFull(c, page) ==
    [c EXCEPT !.rows = SubSeq(@ \o page.entries, 1,
                              IF Len(@) + Len(page.entries) < kMaxEntries
                              THEN Len(@) + Len(page.entries) ELSE kMaxEntries),
              !.hasMore = page.hasMore /\ Len(page.entries) = kMaxConflictPage]

\* A page is added after the rows there are; offset_ is how many there are then.
OnHistoryPage(c, page) ==
    LET rows == c.rows \o page.entries
        keep == IF Len(rows) < kMaxEntries THEN Len(rows) ELSE kMaxEntries
    IN IF page.entries = <<>> THEN [c EXCEPT !.hasMore = FALSE]
       ELSE [c EXCEPT !.rows = SubSeq(rows, 1, keep), !.hasMore = page.hasMore /\ keep < kMaxEntries]

OnCancelKeepLocal(c, result) ==
    [c EXCEPT !.cancelWanted = 0, !.cancelAnswered = c.cancelWanted,
              !.rows = [i \in DOMAIN @ |->
                        IF i \in FirstRow(@, c.cancelWanted)
                        THEN [@[i] EXCEPT !.keepLocal = result.keepLocal] ELSE @[i]]]

\* The command was refused: a cancel and a restore say so, a page is not asked for again.
OnRefused(c, kind) ==
    CASE kind = "cancel" -> [c EXCEPT !.cancelAnswered = c.cancelWanted, !.cancelWanted = 0]
      [] kind \in {"restore", "poll"} ->
           FinishRestore([c EXCEPT !.restoreWanted = 0, !.keepLocalWanted = FALSE],
                         OwnReport("write_failed", c.restoring))
      [] kind = "page" -> [c EXCEPT !.pageError = TRUE]

\* Mutant: a press out of budget is still wanted, so the next frame sends it again.
OnNotRespondingAgain(c, kind) ==
    IF kind = "cancel" THEN [c EXCEPT !.link = "slow", !.cancelWanted = 0]
    ELSE [c EXCEPT !.link = "slow"]

\* Slow is not gone: a press may have been taken, so it is asked about and never
\* sent again; a cancel is dropped, a page is asked for again.
OnNotResponding(c, kind) ==
    CASE kind = "restore" -> [c EXCEPT !.link = "slow", !.restoreWanted = 0,
                                       !.keepLocalWanted = FALSE, !.awaiting = TRUE]
      [] kind = "cancel" -> [c EXCEPT !.link = "slow", !.cancelWanted = 0]
      [] kind \in {"page", "poll"} -> [c EXCEPT !.link = "slow"]

\* The session is gone: everything that was out is dropped, and what is loaded is stale.
OnConflictsUnreachable(c) ==
    [c EXCEPT !.link = "gone", !.restoreWanted = 0, !.keepLocalWanted = FALSE, !.restoring = 0,
              !.keepingLocal = FALSE, !.awaiting = FALSE, !.cancelWanted = 0, !.stale = TRUE]

\* After an outage that dropped the session the list is read from the start.
OnLinkRestored(c) == IF c.stale THEN Fresh ELSE [c EXCEPT !.link = "ok"]

--------------------------------------------------------------------------
(* A frame: the command that is due, and what comes of sending it.         *)

NextConflictCommand(c) ==
    CASE c.restoreWanted # 0 -> "restore"
      [] c.restoreWanted = 0 /\ c.cancelWanted # 0 -> "cancel"
      [] c.restoreWanted = 0 /\ c.cancelWanted = 0 /\ c.awaiting -> "poll"
      [] OTHER -> IF c.hasMore /\ ~c.pageError
                     /\ c.selected - 1 + kConflictPrefetchRows >= Len(c.rows)
                  THEN "page" ELSE "none"

\* The model with its command handed out: a press becomes the restore that is out.
Handed(c) ==
    IF c.restoreWanted = 0 THEN c
    ELSE [c EXCEPT !.restoring = c.restoreWanted, !.keepingLocal = c.keepLocalWanted]

Resumed == OnLinkRestored(cm)
Kind == NextConflictCommand(Resumed)
Sent == Handed(Resumed)

\* What handling a command does to the sysmodule.
Handles(kind, id, keeps, press) ==
    /\ restore' = IF kind = "restore" THEN TakeRestore(id, keeps, press) ELSE restore
    /\ held' = IF kind = "cancel" THEN UnholdLocked(id) ELSE held

\* The entry a command names.
Names(c, kind) == IF kind = "restore" THEN c.restoring ELSE c.cancelWanted

FrameAnswered ==
    /\ out = Nobody /\ Kind # "none"
    /\ Handles(Kind, Names(Sent, Kind), Sent.keepingLocal, presses)
    /\ \E fits \in 1..kMaxConflictPage:
         cm' = CASE Kind = "restore" -> OnRestoreState(Sent, TRUE,
                                            TakeRestore(Sent.restoring, Sent.keepingLocal, presses))
                 [] Kind = "poll" -> OnRestoreState(Sent, FALSE, restore)
                 [] Kind = "cancel" -> OnCancelKeepLocal(Sent, CancelKeepLocal(Sent.cancelWanted))
                 [] Kind = "page" -> OnHistoryPage(Sent, BuildConflictPage(Len(Sent.rows), fits))
    /\ UNCHANGED <<history, nextId, persisted, backups, armed, out, conflictBounds, runs>>

\* Nothing is due: the frame only finds the link there again.
FrameIdle ==
    /\ Kind = "none" /\ cm.link # "ok"
    /\ cm' = Resumed
    /\ UNCHANGED <<storeVars, restore, out, conflictBounds, runs>>

FrameRefused ==
    /\ out = Nobody /\ Kind # "none" /\ jolts < MaxJolts
    /\ cm' = OnRefused(Sent, Kind)
    /\ jolts' = jolts + 1
    /\ UNCHANGED <<storeVars, restore, out, presses, runs>>

\* The budget runs out: the command is out, and its answer will be dropped.
FrameLate ==
    /\ out = Nobody /\ Kind # "none" /\ jolts < MaxJolts
    /\ out' = [kind |-> Kind, id |-> Names(Sent, Kind), keeps |-> Sent.keepingLocal,
               press |-> presses]
    /\ cm' = OnNotResponding(Sent, Kind)
    /\ jolts' = jolts + 1
    /\ UNCHANGED <<storeVars, restore, presses, runs>>

\* A call is still out: this one is not sent, and says the same.
FrameUnsent ==
    /\ out # Nobody /\ Kind # "none"
    /\ cm' = OnNotResponding(Sent, Kind)
    /\ UNCHANGED <<storeVars, restore, out, conflictBounds, runs>>

\* The call that was out of budget is handled after all.
LateHandled ==
    /\ out # Nobody
    /\ Handles(out.kind, out.id, out.keeps, out.press)
    /\ out' = Nobody
    /\ UNCHANGED <<history, nextId, persisted, backups, armed, cm, conflictBounds, runs>>

\* The session breaks under a call, handled or not.
FrameBreaks ==
    /\ out = Nobody /\ Kind # "none" /\ jolts < MaxJolts
    /\ \/ Handles(Kind, Names(Sent, Kind), Sent.keepingLocal, presses)
       \/ UNCHANGED <<restore, held>>
    /\ cm' = OnConflictsUnreachable(Sent)
    /\ jolts' = jolts + 1
    /\ UNCHANGED <<history, nextId, persisted, backups, armed, out, presses, runs>>

\* The sysmodule starts again: what it kept in memory is gone and the history is
\* what the file holds.  The frame finds its session broken.
Reboot ==
    /\ jolts < MaxJolts
    /\ jolts' = jolts + 1
    /\ history' = ParseHistory(persisted).entries /\ nextId' = ParseHistory(persisted).next
    /\ restore' = NoRestore /\ held' = {} /\ armed' = {} /\ out' = Nobody
    /\ cm' = OnConflictsUnreachable(cm)
    /\ UNCHANGED <<persisted, backups, presses, runs>>

--------------------------------------------------------------------------
(* The player.  Keys are dropped while the view says the link is down.     *)

\* A move, and a press toward the end that cannot move, is the retry of a failed page.
MoveEntry ==
    /\ cm.link = "ok"
    /\ \/ /\ cm.mode = "list" /\ cm.rows # <<>>
          /\ \E by \in {-1, 1}:
               LET to == IF cm.selected + by \in DOMAIN cm.rows THEN cm.selected + by
                         ELSE cm.selected
               IN cm' = [cm EXCEPT !.selected = to,
                                   !.pageError = @ /\ to = cm.selected /\ by < 0]
       \/ /\ cm.mode = "confirm" /\ Current # {} /\ CurrentRow.entry.event = "conflict"
          /\ \E to \in {cm.choice - 1, cm.choice + 1} \cap DOMAIN ConflictChoices:
               cm' = [cm EXCEPT !.choice = to]
    /\ UNCHANGED <<storeVars, restore, out, conflictBounds, runs>>

\* A on the list opens the row, or asks again for a list that failed.
ActivateList ==
    /\ cm.link = "ok" /\ cm.mode = "list"
    /\ cm' = IF cm.rows = <<>> THEN [cm EXCEPT !.pageError = FALSE]
             ELSE LET id == cm.rows[cm.selected].entry.id
                  IN [cm EXCEPT !.opened = id, !.restored = FALSE, !.cancelAnswered = 0,
                                !.lost = IF @ = id THEN @ ELSE 0, !.mode = "detail"]
    /\ UNCHANGED <<storeVars, restore, out, conflictBounds, runs>>

\* A on a detail withdraws a held choice, or asks for confirmation.
ActivateDetail ==
    /\ cm.link = "ok" /\ cm.mode = "detail" /\ Current # {}
    /\ \/ /\ CurrentRow.keepLocal = "held" /\ cm.restoring = 0 /\ cm.cancelWanted = 0
          /\ cm' = [cm EXCEPT !.cancelWanted = cm.opened, !.restored = FALSE, !.lost = 0,
                              !.cancelAnswered = 0]
       \/ /\ CurrentRow.keepLocal = "open" /\ Restorability(CurrentRow) = "ready"
          /\ cm.restoring = 0
          /\ cm' = [cm EXCEPT !.restored = FALSE, !.lost = 0, !.cancelAnswered = 0,
                              !.choice = 1, !.mode = "confirm"]
    /\ UNCHANGED <<storeVars, restore, out, conflictBounds, runs>>

\* A on the confirmation: Keep server and Skip send nothing, the rest is a press.
ActivateConfirm ==
    /\ cm.link = "ok" /\ cm.mode = "confirm" /\ presses < MaxPresses
    /\ IF Current = {} \/ Restorability(CurrentRow) # "ready"
       THEN cm' = [cm EXCEPT !.mode = "detail"] /\ UNCHANGED presses
       ELSE LET conflict == CurrentRow.entry.event = "conflict"
                chosen == ConflictChoices[cm.choice]
            IN CASE conflict /\ chosen = "keep_server" ->
                      cm' = [cm EXCEPT !.mode = "detail"] /\ UNCHANGED presses
                 [] conflict /\ chosen = "skip" ->
                      cm' = [cm EXCEPT !.mode = "list", !.opened = 0] /\ UNCHANGED presses
                 [] ~conflict \/ chosen = "keep_local" ->
                      /\ cm.restoring = 0 /\ cm.restoreWanted = 0
                      /\ cm' = [cm EXCEPT !.restoreWanted = cm.opened, !.keepLocalWanted = conflict]
                      /\ presses' = presses + 1
    /\ UNCHANGED <<storeVars, restore, out, jolts, runs>>

BackKey ==
    /\ cm.link = "ok" /\ cm.mode # "list"
    /\ cm' = IF cm.mode = "confirm" THEN [cm EXCEPT !.mode = "detail"]
             ELSE [cm EXCEPT !.mode = "list", !.opened = 0, !.restored = FALSE,
                             !.cancelAnswered = 0]
    /\ UNCHANGED <<storeVars, restore, out, conflictBounds, runs>>

\* What Render says: a detail has one headline, and these go before one another.
Says ==
    CASE cm.link # "ok" -> "unreachable"
      [] cm.link = "ok" /\ cm.mode # "detail" -> cm.mode
      [] OTHER ->
           IF Current = {} THEN "gone"
           ELSE IF cm.restoring = cm.opened THEN "restoring"
           ELSE IF cm.lost = cm.opened THEN "lost"
           ELSE IF cm.opened \in {cm.cancelWanted, cm.cancelAnswered} THEN "cancel"
           ELSE IF cm.restored THEN "outcome" ELSE "entry"

--------------------------------------------------------------------------
\* A console whose history has entries of an earlier boot, this release's or a newer one's.
ConflictsInit ==
    /\ \E s \in Saves, t \in Saves, newer \in BOOLEAN:
         persisted = [newer |-> newer, next |-> 3,
                      entries |-> <<[id |-> 2, save |-> s, event |-> "conflict"],
                                    [id |-> 1, save |-> t, event |-> "replaced"]>>]
    /\ history = ParseHistory(persisted).entries /\ nextId = ParseHistory(persisted).next
    /\ backups = {1, 2}
    /\ restore = NoRestore /\ held = {} /\ armed = {}
    /\ cm = Fresh /\ out = Nobody
    /\ presses = 0 /\ jolts = 0
    /\ runs = [p \in 0..MaxPresses |-> 0]

ConflictsFrame == FrameAnswered \/ FrameIdle \/ FrameRefused \/ FrameLate \/ FrameUnsent \/ FrameBreaks

ConflictsNext ==
    \/ RunRestore \/ LandHeld \/ HistoryAppend \/ BackupDeleted \/ LateHandled \/ Reboot
    \/ ConflictsFrame
    \/ MoveEntry \/ ActivateList \/ ActivateDetail \/ ActivateConfirm \/ BackKey

\* The worker runs what it was handed, the screen draws frames, and a call that
\* was sent is handled: what those may do, they do in the end.
ConflictsFair ==
    /\ WF_conflictVars(RunRestore)
    /\ WF_conflictVars(LateHandled)
    /\ WF_conflictVars(FrameAnswered \/ FrameIdle)

ConflictsSpec == ConflictsInit /\ [][ConflictsNext]_conflictVars /\ ConflictsFair

--------------------------------------------------------------------------
(* Properties.                                                             *)

Row == [entry: Entry, backup: BOOLEAN, keepLocal: KeepLocalStates]

ConflictsTypeOK ==
    /\ \A i \in 1..Len(history): history[i] \in Entry
    /\ \A i \in 1..Len(cm.rows): cm.rows[i] \in Row
    /\ restore.phase \in RestorePhases /\ restore.report \in RestoreReport
    /\ held \subseteq Saves /\ armed \subseteq Saves /\ backups \subseteq Nat
    /\ cm.mode \in ConflictsModes /\ cm.lastRestore \in RestoreReport
    /\ cm.link \in {"ok", "slow", "gone"} /\ cm.selected \in 1..(kMaxEntries + 1)
    /\ Len(cm.rows) <= kMaxEntries /\ Len(history) <= kMaxEntries

(* What a detail says of a restore is about the entry it shows, though the
   sysmodule keeps one restore and hands whoever asks the state of that one:
   entries opened while another's restore runs, presses whose answer is lost
   and restores the sysmodule forgot included. *)
OutcomeIsItsEntrys ==
    Says = "outcome" => cm.lastRestore.of = cm.opened

(* A press of Restore or Keep local writes a save at most once, whatever becomes
   of the call that carries it ("a second press the user did not make is a
   second overwrite of their save"). *)
OnePressOneRestore == \A p \in 1..MaxPresses: runs[p] <= 1

(* A list read to its end has every entry that was in the history when it was
   begun and still is: the history grows at the front while it is paged by
   offset, and a page may be short. *)
NoEntrySkipped ==
    cm.rows # <<>> /\ ~cm.hasMore /\ cm.link = "ok" =>
        \A e \in ToSet(history):
            e.id <= cm.rows[1].entry.id => \E i \in 1..Len(cm.rows): cm.rows[i].entry.id = e.id

(* A restore the screen waits for comes to an end on the screen: an outcome, a
   lost track, or a session that broke. *)
RestoringEnds == cm.restoring # 0 ~> cm.restoring = 0

(* The outcome a detail shows is no older than the press it answers: a screen
   that cannot know how its press ended says that it lost track "rather than
   waiting for ever or inventing an outcome". Does not hold: a press whose
   answer was late polls, and may read how an earlier restore ended. *)
OutcomeIsThePresses ==
    Says = "outcome" => cm.lastRestore.press = presses
=============================================================================
