------------------------------- MODULE StateDb -------------------------------
(***************************************************************************)
(* state.db, the baseline's file: how one is read, a line at a time, into  *)
(* a heap that holds no more than kMaxBaseline rows; how one rc1 wrote, at *)
(* four times as many, is cut down to them and its saves moved to the      *)
(* slots they are synced in now; and how a tick's rows are trimmed to the  *)
(* bound, written, and found again after a refused call or a power cut.    *)
(*                                                                         *)
(* A row is its key and its digest.  A slotted save's key is its place in  *)
(* the order of (rom_id, slot); archival saves and states have keys of     *)
(* their own.  A row's fields, and the text of a line, are left out: one   *)
(* that does not read is BadLine.  What the card keeps of calls it has not *)
(* synced is SaveCard's; here each call is one step, and is done or not.   *)
(***************************************************************************)
EXTENDS Integers, Sequences, FiniteSets, SequencesExt

CONSTANTS
    LastSlotted,               \* the slotted saves' keys are 1 .. LastSlotted
    Archival, States,          \* the keys of null-slot saves, and of states
    MigratedSlot,              \* the key a slotted row of rc1 is synced under now
    kMaxBaseline,              \* state::kMaxRecords
    kRc1MaxRecords,
    NoFile, BadLine, BlankLine,
    MaxReads, MaxDbFaults      \* bounds on reads, and on refused calls and power cuts

Slotted == 1 .. LastSlotted
Saves == Slotted \cup Archival

\* The rows nothing rebuilds: a state's, and an archival save's.
Lasting == Archival \cup States
BaselineRow == [key : Slotted \cup Lasting, hash : {1, 2}]

\* Its version line, its other lines, and whether they fit kMaxStateBytes ("small"),
\* rc1's bound ("large") or neither.
StateFiles == [head : {"now", "rc1", "newer", "none"},
               lines : Seq(BaselineRow \cup {BadLine, BlankLine}),
               weight : {"small", "large", "vast"}]

ASSUME StateDbAssumption ==
    /\ LastSlotted \in Nat /\ {kMaxBaseline, kRc1MaxRecords} \subseteq Nat \ {0}
    /\ kMaxBaseline <= kRc1MaxRecords /\ {MaxReads, MaxDbFaults} \subseteq Nat
    /\ IsFiniteSet(Archival) /\ IsFiniteSet(States)
    /\ Archival \cap States = {} /\ Lasting \cap Slotted = {}
    /\ MigratedSlot \in [Slotted -> Slotted]
    /\ BadLine \notin BaselineRow /\ BlankLine \notin BaselineRow /\ BadLine # BlankLine
    /\ NoFile \notin StateFiles

VARIABLES
    db,         \* state.db and its .old and .tmp: each a file or NoFile
    desk,       \* where the tick is, the file it has open and the lines it has read
    parser,     \* what the lines came to (Parser)
    baseline,   \* the baseline the tick works on
    truth,      \* ghost: the last file committed, and whether this build wrote it
    reads, dbFaults

dbVars == <<db, desk, parser, baseline, truth, reads, dbFaults>>

KeysIn(rows) == {r.key : r \in rows}

StateFile(head, lines, weight) == [head |-> head, lines |-> lines, weight |-> weight]

DbFault == dbFaults < MaxDbFaults /\ dbFaults' = dbFaults + 1
DbCalm == UNCHANGED dbFaults

Idle == [at |-> "rest", file |-> NoFile, n |-> 0]

\* kept: rows in force as they are; held: rc1's slotted rows, to be moved; gone: the
\* fingerprints of rows let go.
NoLines == [kept |-> {}, held |-> {}, gone |-> {}, rows |-> 0, blank |-> FALSE,
            bad |-> FALSE, over |-> FALSE]

--------------------------------------------------------------------------
(* Reading.                                                                *)

\* The rows are read of a file of this version or of rc1's, each within the bytes it
\* was written at; any other file is an empty baseline (Load, Parser::Finish).
RowsAreRead(file) ==
    \/ file.head \in {"now", "rc1"} /\ file.weight = "small"
    \/ file.head = "rc1" /\ file.weight = "large"

\* LoadBaseline's way in: `.old` only when there is no state.db.
Found == IF db.path # NoFile THEN db.path ELSE db.old

\* Opened, once; or there is none, none of its rows are wanted, or it does not read.
LoadBaseline ==
    /\ desk.at = "rest" /\ reads < MaxReads /\ reads' = reads + 1
    /\ parser' = NoLines /\ baseline' = {}
    /\ \/ /\ Found # NoFile /\ RowsAreRead(Found) /\ DbCalm
          /\ desk' = [at |-> "lines", file |-> Found, n |-> 0]
       \/ /\ IF Found # NoFile /\ RowsAreRead(Found) THEN DbFault ELSE DbCalm
          /\ desk' = [Idle EXCEPT !.at = "ready"]
    /\ UNCHANGED <<db, truth>>

NextLine == desk.file.lines[desk.n + 1]

LineComes == desk.at = "lines" /\ desk.n < Len(desk.file.lines)
Onward1 == desk' = [desk EXCEPT !.n = @ + 1] /\ UNCHANGED <<db, baseline, truth, reads, dbFaults>>

\* A blank line is the end, unless a row follows it; past the bound nothing matters.
SkipLine ==
    /\ LineComes /\ Onward1
    /\ parser.over \/ NextLine = BlankLine
    /\ parser' = IF parser.over THEN parser ELSE [parser EXCEPT !.blank = TRUE]

RowBound == IF desk.file.head = "rc1" THEN kRc1MaxRecords ELSE kMaxBaseline

RowArrives == LineComes /\ Onward1 /\ ~parser.over /\ NextLine # BlankLine

PastRowBound ==
    /\ RowArrives /\ parser.rows = RowBound
    /\ parser' = [parser EXCEPT !.over = TRUE]

\* Mutant: a row is compared with those that were kept, not with those let go.
SecondOfKept(row) == row.key \in KeysIn(parser.kept \cup parser.held)

\* Another row for a key, whether its first was kept or let go.
Second(row) == row.key \in KeysIn(parser.kept \cup parser.held) \cup parser.gone

\* The row's place among the rows: counted, and after a blank line a complaint.
Counted1 == [parser EXCEPT !.rows = @ + 1, !.bad = @ \/ parser.blank, !.blank = FALSE]

Complain ==
    /\ RowArrives /\ parser.rows < RowBound
    /\ NextLine # BadLine => Second(NextLine)
    /\ parser' = [Counted1 EXCEPT !.bad = TRUE]

HeldApart(row) == desk.file.head = "rc1" /\ row.key \in Slotted

Room == Cardinality(parser.kept) + Cardinality(parser.held) < kMaxBaseline

\* The largest key held apart.
Back == CHOOSE r \in parser.held : \A other \in parser.held : other.key <= r.key

\* Mutant: whoever comes first stays.
GivesWayToNone(row) == FALSE

\* MakeRoom: the back makes way for a row that lasts, or for one of a smaller key.
GivesWay(row) == parser.held # {} /\ (HeldApart(row) => row.key < Back.key)

Keep(p, row) ==
    IF HeldApart(row) THEN [p EXCEPT !.held = @ \cup {row}] ELSE [p EXCEPT !.kept = @ \cup {row}]

TakeRow ==
    /\ RowArrives /\ parser.rows < RowBound
    /\ NextLine # BadLine /\ ~Second(NextLine)
    /\ parser' =
         IF Room THEN Keep(Counted1, NextLine)
         ELSE IF GivesWay(NextLine)
         THEN Keep([Counted1 EXCEPT !.held = @ \ {Back}, !.gone = @ \cup {Back.key}], NextLine)
         ELSE [Counted1 EXCEPT !.gone = @ \cup {NextLine.key}]

\* AdoptLegacySaves: in key order, the first for a slot has it.
Adopted(p) ==
    p.kept \cup
    {[key |-> MigratedSlot[r.key], hash |-> r.hash] :
        r \in {r \in p.held : \A other \in p.held :
                  other.key < r.key => MigratedSlot[other.key] # MigratedSlot[r.key]}}

\* Parser::Finish: all of it, or none.
FinishLines ==
    /\ desk.at = "lines" /\ desk.n = Len(desk.file.lines)
    /\ parser' = IF parser.over \/ parser.bad THEN NoLines ELSE parser
    /\ baseline' = Adopted(parser')
    /\ desk' = [desk EXCEPT !.at = "ready"]
    /\ UNCHANGED <<db, truth, reads, dbFaults>>

--------------------------------------------------------------------------
(* What a tick makes of it.                                                *)

\* The row of one save or state after its operation: there with its digest, or not.
WithRow(rows, key, there) ==
    {r \in rows : r.key # key} \cup (IF there THEN {[key |-> key, hash |-> 2]} ELSE {})

Excess(rows) == Cardinality(rows) - kMaxBaseline

\* TrimToFit: saves nothing mentioned, then states, as many as it takes.  Which of
\* them is the key order's to say and is left open.
TrimToFit(rows, met) ==
    LET stale == {r \in rows : r.key \in Saves \ met}
        states == {r \in rows : r.key \in States}
    IN  {rows \ gone : gone \in {g \in SUBSET (stale \cup states) :
            /\ Cardinality(g) <= Excess(rows) \/ g = {}
            /\ Cardinality(g) >= Excess(rows) \/ g = stale \cup states
            /\ g \cap states # {} => stale \subseteq g}}

\* TrimStates: states the half did not come to, then those it did, never a save.
TrimStateRows(rows, met) ==
    LET states == {r \in rows : r.key \in States}
    IN  {rows \ gone : gone \in {g \in SUBSET states :
            /\ Cardinality(g) <= Excess(rows) \/ g = {}
            /\ Cardinality(g) >= Excess(rows) \/ g = states
            /\ met \cap KeysIn(g) # {} => \A r \in states : r.key \in met \/ r \in g}}

Store == desk' = [desk EXCEPT !.at = "store"] /\ UNCHANGED <<db, parser, truth, reads, dbFaults>>

\* The saves half: one operation, among the saves that were reported.
AdvanceBaseline ==
    /\ desk.at = "ready" /\ Store
    /\ \E key \in Saves, there \in BOOLEAN, reported \in SUBSET (Saves \cap KeysIn(baseline)) :
         baseline' \in TrimToFit(WithRow(baseline, key, there), reported \cup {key})

\* The states half, which reads the file again.
AdvanceStates ==
    /\ desk.at = "ready" /\ Store
    /\ \E key \in States, there \in BOOLEAN :
         baseline' \in TrimStateRows(WithRow(baseline, key, there), {key})

--------------------------------------------------------------------------
(* SaveBaseline: checked against the bounds it is read back with, staged,  *)
(* and committed by two renames (WriteAtomically).                         *)

Steps == UNCHANGED <<parser, baseline, reads>>
Goes1(at) == desk' = [desk EXCEPT !.at = at]
Ends1 == desk' = Idle

\* Too many rows, or text past the bytes a file may have, or no staging file.
SaveRefused ==
    /\ desk.at = "store" /\ Ends1 /\ Steps
    /\ IF Excess(baseline) > 0 THEN DbCalm ELSE DbFault
    /\ UNCHANGED <<db, truth>>

\* Mutant: the bound is not looked at before the file is written.
FitsUnchecked == TRUE

Fits == Excess(baseline) <= 0

\* SerializeBaseline, into the staging file.
WriteStaged ==
    /\ desk.at = "store" /\ Steps /\ Fits /\ DbCalm
    /\ db' = [db EXCEPT !.tmp = StateFile("now", SetToSeq(baseline), "small")]
    /\ Goes1(IF db.path # NoFile THEN "drop" ELSE "publish")
    /\ UNCHANGED truth

\* A stale .old goes first, when there is a state.db to move there.
CommitDrops ==
    /\ desk.at = "drop" /\ Goes1("aside") /\ Steps
    /\ \/ db' = [db EXCEPT !.old = NoFile] /\ DbCalm
       \/ UNCHANGED db /\ DbFault
    /\ UNCHANGED truth

\* A rename to a name that is taken is refused.
CommitMovesAside ==
    /\ desk.at = "aside" /\ Steps
    /\ \/ /\ db.old = NoFile /\ DbCalm
          /\ db' = [db EXCEPT !.old = db.path, !.path = NoFile] /\ Goes1("replace")
       \/ /\ IF db.old # NoFile THEN DbCalm ELSE DbFault
          /\ db' = [db EXCEPT !.tmp = NoFile] /\ Ends1
    /\ UNCHANGED truth

\* Mutant: nothing of a commit that was refused is left, the previous file included.
CommitPublishesOrClears ==
    /\ desk.at \in {"publish", "replace"} /\ Steps
    /\ \/ /\ db' = [db EXCEPT !.path = db.tmp, !.tmp = NoFile] /\ DbCalm
          /\ truth' = [file |-> db.tmp, ours |-> TRUE]
          /\ Goes1("tidy")
       \/ /\ DbFault /\ UNCHANGED truth /\ Ends1
          /\ db' = [db EXCEPT !.tmp = NoFile, !.old = NoFile]

\* Refused, what was moved aside is put back, unless that is refused as well.
CommitPublishes ==
    /\ desk.at \in {"publish", "replace"} /\ Steps
    /\ \/ /\ db' = [db EXCEPT !.path = db.tmp, !.tmp = NoFile] /\ DbCalm
          /\ truth' = [file |-> db.tmp, ours |-> TRUE]
          /\ Goes1("tidy")
       \/ /\ DbFault /\ UNCHANGED truth /\ Ends1
          /\ \/ db' = [db EXCEPT !.tmp = NoFile]
             \/ /\ desk.at = "replace"
                /\ db' = [path |-> db.old, old |-> NoFile, tmp |-> NoFile]

CommitTidies ==
    /\ desk.at = "tidy" /\ Ends1 /\ Steps
    /\ \/ db' = [db EXCEPT !.old = NoFile] /\ DbCalm
       \/ UNCHANGED db /\ DbFault
    /\ UNCHANGED truth

\* Power is lost; the next boot's tick reads what the card has.
DbPowerCut ==
    /\ desk.at # "rest" /\ DbFault
    /\ desk' = Idle /\ parser' = NoLines /\ baseline' = {}
    /\ UNCHANGED <<db, truth, reads>>

--------------------------------------------------------------------------
\* Cards: none yet, rc1's rows in any order, a row twice, one that does not read, a
\* blank line; a later release's file; one cut in its first line; or past the bytes.
OldRow(k) == [key |-> k, hash |-> 1]
OldLines == {OldRow(k) : k \in Slotted \cup Lasting} \cup {BadLine, BlankLine}

FewLines == UNION {[1 .. n -> OldLines] : n \in 0 .. 2}
FourLines == {s \o <<OldRow(k)>> : s \in {s \in [1 .. 3 -> OldLines] : IsInjective(s)},
                                   k \in Slotted \cup Lasting}
InOrderLines == {[i \in 1 .. n |-> OldRow(i)] : n \in {2, 3} \cap Slotted}

Cards ==
    {StateFile("rc1", s, "small") : s \in FewLines \cup FourLines}
    \cup {StateFile(head, s, weight) : head \in {"now", "rc1", "newer", "none"},
                                       s \in InOrderLines, weight \in {"small", "large", "vast"}}

StateDbInit ==
    /\ \E file \in Cards \cup {NoFile} :
         /\ db \in {[path |-> file, old |-> NoFile, tmp |-> NoFile],
                    [path |-> NoFile, old |-> file, tmp |-> NoFile]}
         /\ truth = [file |-> file, ours |-> FALSE]
    /\ desk = Idle /\ parser = NoLines /\ baseline = {}
    /\ reads = 0 /\ dbFaults = 0

StateDbNext ==
    \/ LoadBaseline \/ SkipLine \/ PastRowBound \/ Complain \/ TakeRow \/ FinishLines
    \/ AdvanceBaseline \/ AdvanceStates
    \/ SaveRefused \/ WriteStaged \/ CommitDrops \/ CommitMovesAside \/ CommitPublishes
    \/ CommitTidies \/ DbPowerCut

StateDbSpec == StateDbInit /\ [][StateDbNext]_dbVars

--------------------------------------------------------------------------
(* The heap holds no more rows of a baseline than the table counts it at,  *)
(* while one is read as when it is adopted, and of no key two (Parser,     *)
(* Baseline).                                                              *)
StateDbTypeOK ==
    /\ desk.at \in {"rest", "lines", "ready", "store", "drop", "aside", "publish",
                   "replace", "tidy"}
    /\ parser.kept \cup parser.held \subseteq BaselineRow /\ baseline \subseteq BaselineRow
    /\ Cardinality(parser.kept) + Cardinality(parser.held) <= kMaxBaseline
    /\ desk.at = "ready" => Cardinality(baseline) <= kMaxBaseline
    /\ \A r, s \in baseline : r.key = s.key => r = s
    /\ reads \in 0 .. MaxReads /\ dbFaults \in 0 .. MaxDbFaults

\* The rows of a file, and whether it is one a writer may have written: a row for a
\* key, none unreadable, no blank line before one and no more than its version's.
RowsOf(file) == {file.lines[i] : i \in DOMAIN file.lines} \ {BadLine, BlankLine}

Intact(file) ==
    LET isRow == {i \in DOMAIN file.lines : file.lines[i] # BlankLine}
    IN  /\ \A i \in isRow : file.lines[i] # BadLine
        /\ \A i, j \in isRow : i < j => file.lines[i].key # file.lines[j].key
        /\ \A i \in isRow : \A j \in 1 .. i - 1 : j \in isRow
        /\ Cardinality(isRow) <= IF file.head = "rc1" THEN kRc1MaxRecords ELSE kMaxBaseline

\* Which of two rows of rc1 goes first: a row that lasts, then the smaller key.
Precedes(r, s) == s.key \in Slotted /\ (r.key \in Lasting \/ r.key < s.key)

(* What is read of an intact file is all of it, or as many of its rows as  *)
(* the heap holds and the first of them, whatever order they were written  *)
(* in; and of any other, nothing, not even when a row repeats one that was *)
(* let go and forgotten but for its fingerprint (Parser, #255).            *)
FirstRowsAreKept ==
    desk.at = "ready" /\ desk.file # NoFile =>
        LET rows == parser.kept \cup parser.held
        IN  IF ~Intact(desk.file) THEN rows = {}
            ELSE /\ rows \subseteq RowsOf(desk.file)
                 /\ \A gone \in RowsOf(desk.file) \ rows :
                       /\ Cardinality(rows) = kMaxBaseline
                       /\ desk.file.head = "rc1"
                       /\ \A r \in rows : ~Precedes(gone, r)

(* The baseline the next read finds is the last that was committed, through *)
(* every refused call and power cut between two renames and with any stale  *)
(* .old beside it; and one this build wrote reads back whole (CommitStaged, *)
(* SaveBaseline, LoadBaseline).                                             *)
LastStoredIsFound ==
    /\ Found = truth.file
    /\ truth.ours => Intact(truth.file) /\ RowsAreRead(truth.file)
=============================================================================
