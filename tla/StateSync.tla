------------------------------ MODULE StateSync ------------------------------
(***************************************************************************)
(* The states half of a tick.  RomM arbitrates no save state, so the       *)
(* console decides alone, from the row its baseline keeps of each: upload, *)
(* download, place, or keep both.  One rom; its states are the emulator's  *)
(* slots on the card and names on the server, and `map_state_slots` moves  *)
(* a slot one name along.  The game writes slots and another client posts  *)
(* states between any two steps of a run.                                  *)
(*                                                                         *)
(* A state's bytes are a version number, 0 for none; a digest is the       *)
(* version.  What the server says of a row is its id and its mark, the     *)
(* second it was written in together with its length: a rewrite within the *)
(* second to the same length leaves the mark as it was.  The card's own    *)
(* commit protocol is SaveCard's, so a commit is one step here.            *)
(***************************************************************************)
EXTENDS Integers, Sequences, FiniteSets, FiniteSetsExt

CONSTANTS
    LastSlot,                 \* the emulator's slots are 0 .. LastSlot
    kMaxRecords,              \* rows a state.db is read back with
    kMaxStatePlacements,
    MaxWrites,                \* states the game and the other client write
    MaxMishaps                \* refused requests, card faults and power cuts

ASSUME StateSyncAssumption ==
    /\ {LastSlot, kMaxRecords, kMaxStatePlacements, MaxWrites, MaxMishaps} \subseteq Nat

VARIABLES
    slots,        \* the card: the version in each slot
    backed,       \* the versions under .backup/
    romm,         \* the server's row under each name
    rows,         \* the baseline's row under each name, in memory
    stateDb,      \* ...and on the card
    mapped,       \* [sync] map_state_slots
    run,          \* the run in flight
    writes, mishaps,
    had,          \* ghost: the versions this console has held
    blurred,      \* ghost: what another client wrote and left its row's mark as it was
    unlisted,     \* ghost: what another client wrote since this run's listing
    raced         \* ghost: what the game wrote between the comparison and the commit

ghosts == <<had, blurred, unlisted, raced>>
stateVars == <<slots, backed, romm, rows, stateDb, mapped, run, writes, mishaps, ghosts>>

Slots == 0 .. LastSlot
Versions == 0 .. MaxWrites
Names == 0 .. Cardinality(Slots)

\* place::StateNameFor and back: the name a slot has on the server.
NameOf(slot) == IF mapped THEN slot + 1 ELSE slot
SlotOf(name) == {s \in Slots : NameOf(s) = name}

NoRow == [v |-> 0, id |-> 0, mark |-> 0]

\* The server's row: its version, its id, its mark, and whose emulator wrote it.
NoState == [v |-> 0, id |-> 0, mark |-> 0, ours |-> TRUE]

Rest == [at |-> "rest", scan |-> [s \in Slots |-> 0], list |-> [n \in Names |-> NoState],
         todo |-> {}, slot |-> 0, name |-> 0, got |-> 0, copied |-> 0, left |-> 0,
         touched |-> {}]

--------------------------------------------------------------------------
(* Arbitration.                                                            *)

Actions == {"no op", "upload", "download", "keep both"}

ServerUnmoved(row, server) == server.id = row.id /\ server.mark = row.mark

LocalUnmoved(row, version) == row.v # 0 /\ row.v = version

\* The row under the name was taken of another slot, still as it was.
RowDescribesAnother(row, slot) ==
    \E other \in Slots \ {slot} : LocalUnmoved(row, run.scan[other])

\* Mutant: a state the server has and this console has no row for is written over.
DecideUnpaired(row, server, version) ==
    IF row = NoRow THEN "upload" ELSE IF LocalUnmoved(row, version) THEN "no op" ELSE "upload"

Decide(row, server, version) ==
    CASE row = NoRow -> IF server = NoState THEN "upload" ELSE "keep both"
      [] row # NoRow /\ server = NoState -> "upload"
      [] row # NoRow /\ server # NoState /\ server.id # row.id -> "keep both"
      [] OTHER ->
           LET serverMoved == ~ServerUnmoved(row, server)
               localMoved == ~LocalUnmoved(row, version)
           IN  CASE ~serverMoved /\ ~localMoved -> "no op"
                 [] ~serverMoved /\ localMoved -> "upload"
                 [] serverMoved /\ ~localMoved -> IF server.ours THEN "download" ELSE "keep both"
                 [] OTHER -> "keep both"

ActionFor(slot) ==
    LET name == NameOf(slot)
        decided == Decide(rows[name], run.list[name], run.scan[slot])
    IN  IF /\ decided = "upload" /\ rows[name] # NoRow /\ run.list[name] # NoState
           /\ RowDescribesAnother(rows[name], slot)
        THEN "keep both" ELSE decided

--------------------------------------------------------------------------
(* A run.                                                                  *)

Elsewhere == UNCHANGED <<mapped, writes, blurred>>

\* A request refused, a card that fails, a cancel, a power cut.
Fault == mishaps < MaxMishaps /\ mishaps' = mishaps + 1

\* The slot is done with, and the run goes on to the next.
Next1(touched) ==
    run' = [run EXCEPT !.at = "slot", !.todo = @ \ {run.slot}, !.touched = @ \cup touched]

\* A 401, a 403 or a cancel ends the run where it stands.
RunStops(touched) == run' = [run EXCEPT !.at = "end", !.touched = @ \cup touched]

\* A request that failed is recorded: on to the next state, or the end.
RequestFails == Fault /\ (Next1({run.name}) \/ RunStops({run.name}))

\* SyncStates up to its listing: the card is scanned, then the server asked.
ScanStates ==
    /\ run.at = "rest"
    /\ run' = [Rest EXCEPT !.at = "list", !.scan = slots, !.todo = {s \in Slots : slots[s] # 0},
                           !.left = kMaxStatePlacements]
    /\ UNCHANGED <<slots, backed, romm, rows, stateDb, mishaps, had, unlisted, raced>> /\ Elsewhere

\* The listing, all of it or none: the other client may post right after it.
ListServerStates ==
    /\ run.at = "list"
    /\ \/ run' = [run EXCEPT !.at = "slot", !.list = romm] /\ UNCHANGED mishaps
       \/ Fault /\ RunStops({})
    /\ unlisted' = {}
    /\ UNCHANGED <<slots, backed, romm, rows, stateDb, had, raced>> /\ Elsewhere

\* A cancel is looked for before each state, never within one.
Canceled ==
    /\ run.at = "slot" /\ Fault /\ RunStops({})
    /\ UNCHANGED <<slots, backed, romm, rows, stateDb, had, unlisted, raced>> /\ Elsewhere

\* The next local state, in the scan's order.
Consider ==
    /\ run.at = "slot" /\ run.todo # {}
    /\ LET slot == Min(run.todo)
           action == ActionFor(slot)
       IN  run' = CASE action = "upload" ->
                          [run EXCEPT !.at = "post", !.slot = slot, !.name = NameOf(slot)]
                    [] action = "download" ->
                          [run EXCEPT !.at = "fetch", !.slot = slot, !.name = NameOf(slot)]
                    [] OTHER -> [run EXCEPT !.todo = @ \ {slot}, !.touched = @ \cup {NameOf(slot)}]
    /\ UNCHANGED <<slots, backed, romm, rows, stateDb, mishaps, had, unlisted, raced>> /\ Elsewhere

\* POST /api/states, external: an upsert by name that keeps the row's id.
Upsert(version, ours, mark) ==
    romm' = [romm EXCEPT ![run.name] =
                [v |-> version, ours |-> ours, mark |-> mark,
                 id |-> IF @ = NoState THEN mark ELSE @.id]]

\* The next second: after the mark of every row, the server's and this console's.
Marks ==
    {0} \cup UNION {{romm[n].mark, rows[n].mark, stateDb[n].mark, run.list[n].mark} : n \in Names}
Latest == Max(Marks) + 1

\* Upload: the bytes the slot holds now, and AdvanceUploaded with what the scan
\* knew of them.  An answer that is lost leaves the row as it was.
Upload ==
    /\ run.at = "post"
    /\ IF slots[run.slot] = 0
       THEN /\ Next1({run.name}) /\ UNCHANGED <<romm, rows, mishaps, had>>
       ELSE \/ /\ Upsert(slots[run.slot], TRUE, Latest)
               /\ had' = had \cup {slots[run.slot]}
               /\ \/ /\ rows' = [rows EXCEPT ![run.name] =
                                    [v |-> run.scan[run.slot], id |-> romm'[run.name].id,
                                     mark |-> Latest]]
                     /\ Next1({run.name}) /\ UNCHANGED mishaps
                  \/ RequestFails /\ UNCHANGED rows
            \/ RequestFails /\ UNCHANGED <<romm, rows, had>>
    /\ UNCHANGED <<slots, backed, stateDb, unlisted, raced>> /\ Elsewhere

\* The server's rows no slot claimed: at most so many are placed, on a slot that
\* is free; a row that is not this console's to load is passed over.
Unclaimed == {n \in Names : run.list[n] # NoState /\ n \notin run.touched}

PlaceNext ==
    /\ run.at = "slot" /\ run.todo = {}
    /\ LET free == {n \in Unclaimed : run.list[n].ours /\ \E s \in SlotOf(n) : slots[s] = 0}
       IN  IF free # {} /\ run.left > 0
           THEN LET n == Min(free)
                IN  run' = [run EXCEPT !.at = "fetch", !.name = n, !.left = @ - 1,
                                       !.slot = CHOOSE s \in SlotOf(n) : TRUE]
           ELSE RunStops(Unclaimed)
    /\ UNCHANGED <<slots, backed, romm, rows, stateDb, mishaps, had, unlisted, raced>> /\ Elsewhere

\* Fetch: the row's bytes as they are now, staged; a row that moved since the
\* listing may be gone, or of another length.
Fetch ==
    /\ run.at = "fetch"
    /\ \/ /\ romm[run.name] # NoState
          /\ run' = [run EXCEPT !.at = "backup", !.got = romm[run.name].v]
          /\ UNCHANGED mishaps
       \/ /\ romm[run.name].mark # run.list[run.name].mark
          /\ Next1({run.name}) /\ UNCHANGED mishaps
       \/ RequestFails
    /\ UNCHANGED <<slots, backed, romm, rows, stateDb, had, unlisted, raced>> /\ Elsewhere

BackUpFirst ==
    /\ run.at = "backup"
    /\ \/ /\ run' = [run EXCEPT !.at = "compare", !.copied = slots[run.slot]]
          /\ backed' = IF slots[run.slot] = 0 THEN backed ELSE backed \cup {slots[run.slot]}
          /\ UNCHANGED mishaps
       \/ Fault /\ Next1({run.name}) /\ UNCHANGED backed
    /\ UNCHANGED <<slots, romm, rows, stateDb, had, unlisted, raced>> /\ Elsewhere

\* Mutant: nothing looks at the state again after its backup.
UnchangedSinceBackupUnread == TRUE

\* The state is still what the backup copied.
UnchangedSinceBackup == slots[run.slot] = run.copied

\* The comparison, and the commit after it: two calls, and a write between
\* them is not seen (SYNC_PROTOCOL.md, "What this does not close").
Compare ==
    /\ run.at = "compare"
    /\ raced' = 0
    /\ \/ /\ UnchangedSinceBackup
          /\ run' = [run EXCEPT !.at = "commit"] /\ UNCHANGED mishaps
       \/ ~UnchangedSinceBackup /\ Next1({run.name}) /\ UNCHANGED mishaps
       \/ Fault /\ Next1({run.name})
    /\ UNCHANGED <<slots, backed, romm, rows, stateDb, had, unlisted>> /\ Elsewhere

CommitStaged ==
    /\ run.at = "commit"
    /\ \/ /\ slots' = [slots EXCEPT ![run.slot] = run.got] /\ had' = had \cup {run.got}
          /\ run' = [run EXCEPT !.at = "record"] /\ UNCHANGED mishaps
       \/ Fault /\ Next1({run.name}) /\ UNCHANGED <<slots, had>>
    /\ UNCHANGED <<backed, romm, rows, stateDb, unlisted, raced>> /\ Elsewhere

\* AdvanceWritten: the row pairs what the card reads back with what was listed.
AdvanceWritten ==
    /\ run.at = "record"
    /\ \/ /\ rows' = [rows EXCEPT ![run.name] = [v |-> slots[run.slot],
                        id |-> run.list[run.name].id, mark |-> run.list[run.name].mark]]
          /\ UNCHANGED mishaps
       \/ Fault /\ rows' = [rows EXCEPT ![run.name] = NoRow]
    /\ Next1({run.name})
    /\ UNCHANGED <<slots, backed, romm, stateDb, had, unlisted, raced>> /\ Elsewhere

Recorded(baseline) == {n \in Names : baseline[n] # NoRow}

\* TrimStates: the rows this run met last, the others first.
TrimStates(baseline) ==
    LET over == Cardinality(Recorded(baseline)) - kMaxRecords
        strangers == Recorded(baseline) \ run.touched
        First(set, k) == {n \in set : Cardinality({x \in set : x < n}) < k}
        gone == First(strangers, over)
                \cup First(Recorded(baseline) \cap run.touched, over - Cardinality(strangers))
    IN  [n \in Names |-> IF n \in gone THEN NoRow ELSE baseline[n]]

\* The run is over: the baseline is trimmed and the tick saves it.
EndRun ==
    /\ run.at = "end"
    /\ rows' = TrimStates(rows)
    /\ \/ stateDb' = rows' /\ UNCHANGED mishaps
       \/ Fault /\ UNCHANGED stateDb
    /\ run' = Rest
    /\ UNCHANGED <<slots, backed, romm, had, unlisted, raced>> /\ Elsewhere

--------------------------------------------------------------------------
(* Around it.                                                              *)

\* The emulator writes a slot on a hotkey, or the player removes one.
GameWrites ==
    /\ writes < MaxWrites /\ writes' = writes + 1
    /\ \E s \in Slots, v \in {0, writes + 1} :
        /\ slots' = [slots EXCEPT ![s] = v] /\ had' = had \cup {v}
        /\ raced' = IF run.at = "commit" /\ run.slot = s THEN v ELSE raced
    /\ UNCHANGED <<backed, romm, rows, stateDb, mapped, run, mishaps, blurred, unlisted>>

\* Another client posts a state: in a later second, or in the row's own and of
\* the same length, so that its mark stays.
OtherPosts ==
    /\ writes < MaxWrites /\ writes' = writes + 1
    /\ \E n \in Names, ours \in BOOLEAN, same \in BOOLEAN :
        /\ same => romm[n] # NoState
        /\ LET mark == IF same THEN romm[n].mark ELSE Latest
           IN  romm' = [romm EXCEPT ![n] = [v |-> writes + 1, ours |-> ours, mark |-> mark,
                                            id |-> IF @ = NoState THEN mark ELSE @.id]]
        /\ blurred' = IF same THEN blurred \cup {writes + 1} ELSE blurred
        /\ unlisted' = unlisted \cup {writes + 1}
    /\ UNCHANGED <<slots, backed, rows, stateDb, mapped, run, mishaps, had, raced>>

OtherDeletes ==
    /\ writes < MaxWrites /\ writes' = writes + 1
    /\ \E n \in Names : romm[n] # NoState /\ romm' = [romm EXCEPT ![n] = NoState]
    /\ UNCHANGED <<slots, backed, rows, stateDb, mapped, run, mishaps, ghosts>>

\* The user turns map_state_slots on or off between two ticks.
MapsSlots ==
    /\ run.at = "rest" /\ writes < MaxWrites /\ writes' = writes + 1
    /\ mapped' = ~mapped
    /\ UNCHANGED <<slots, backed, romm, rows, stateDb, run, mishaps, ghosts>>

PowerCutInRun ==
    /\ run.at # "rest" /\ Fault
    /\ run' = Rest /\ rows' = stateDb
    /\ UNCHANGED <<slots, backed, romm, stateDb, mapped, writes, ghosts>>

StateInit ==
    /\ slots = [s \in Slots |-> 0] /\ backed = {}
    /\ romm = [n \in Names |-> NoState]
    /\ rows = [n \in Names |-> NoRow] /\ stateDb = rows
    /\ mapped = FALSE /\ run = Rest
    /\ writes = 0 /\ mishaps = 0 /\ had = {0}
    /\ blurred = {} /\ unlisted = {} /\ raced = 0

RunStep ==
    \/ ScanStates \/ ListServerStates \/ Canceled \/ Consider \/ Upload \/ PlaceNext
    \/ Fetch \/ BackUpFirst \/ Compare \/ CommitStaged \/ AdvanceWritten \/ EndRun

StateNext ==
    RunStep \/ GameWrites \/ OtherPosts \/ OtherDeletes \/ MapsSlots \/ PowerCutInRun

StateSpec == StateInit /\ [][StateNext]_stateVars

--------------------------------------------------------------------------

\* The card, the server, the baseline and the run are what their types allow.
StateTypeOK ==
    /\ slots \in [Slots -> Versions] /\ backed \subseteq Versions
    /\ had \cup blurred \cup unlisted \subseteq Versions /\ raced \in Versions
    /\ \A n \in Names : /\ romm[n].v \in Versions /\ romm[n].ours \in BOOLEAN
                        /\ rows[n].v \in Versions /\ stateDb[n].v \in Versions
    /\ mapped \in BOOLEAN /\ writes \in 0 .. MaxWrites /\ mishaps \in 0 .. MaxMishaps
    /\ run.at \in {"rest", "list", "slot", "post", "fetch", "backup", "compare", "commit",
                  "record", "end"}
    /\ run.scan \in [Slots -> Versions] /\ run.todo \subseteq Slots
    /\ run.slot \in Slots /\ run.name \in Names /\ run.left \in 0 .. kMaxStatePlacements
    /\ run.touched \subseteq Names
    /\ \A slot \in run.todo : ActionFor(slot) \in Actions

\* A run replaces no state on the card whose bytes are not under .backup/ by
\* then: whatever the game wrote before the last comparison is there, also a
\* write between the backup and the comparison.  Only what it writes between that
\* comparison and the commit is lost (BackUpFirst, UnchangedSinceBackup).
ReplacedIsBackedUp ==
    [][run' # run => \A s \in Slots : slots'[s] # slots[s] /\ slots[s] # 0
                                        => slots[s] \in backed' \cup {raced}]_stateVars

\* A POST replaces at the server no state this console never held: not after a
\* lost answer, a crash, a trimmed baseline or a renamed slot.  What another
\* client writes after this run's listing, or within a row's own second to the
\* same length, is beyond a client that has only the listing (Decide;
\* state_sync.hpp's "this client only ever issues one for a name the rom does
\* not have or for the row its own baseline names").
OverwritesOnlyItsOwn ==
    [][run' # run => \A n \in Names :
            romm'[n] # romm[n] => romm[n].v \in had \cup blurred \cup unlisted]_stateVars

\* A state that is found to need nothing is the same on both sides, or was
\* never told apart by the server's own row: state_sync.hpp's "Both sides are
\* where the last sync left them." Does not hold of a state rewritten to the same
\* length within the second, nor of one the game writes between the commit and
\* AdvanceWritten's reading of it, whose bytes the row takes for the server's.
NoOpIsInSync ==
    [][\A s \in run.todo :
        run.at = "slot" /\ s \notin run'.todo /\ run'.at = "slot" /\ ActionFor(s) = "no op"
            => run.list[NameOf(s)].v \in {run.scan[s]} \cup blurred]_stateVars

=============================================================================
