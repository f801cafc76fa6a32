------------------------------ MODULE Downloads ------------------------------
(***************************************************************************)
(* The download queue, its file, the card it fills and the worker that     *)
(* drains it.  A row is changed under the queue's lock and written to the  *)
(* card before the lock is given up, so one step changes both or neither;  *)
(* the drain works between those steps while the owner presses, the        *)
(* library is edited, the link breaks and the power is cut.                *)
(***************************************************************************)
EXTENDS Naturals, Sequences, SequencesExt

CONSTANTS
    Roms,
    MaxQueueEntries,  \* kMaxQueueEntries
    Kinds,            \* what the library may hold
    Libraries,        \* what it may hold for each rom at the start
    Queued,           \* the lists queue.json may hold at the start, as roms in order
    Held,             \* the roms of which the card has another copy at the start
    None,             \* no file, no row, nothing to say
    Settings,         \* the [downloads] settings and the budget a drain may run under
    MaxPresses,       \* bound: rows the owner adds or takes out
    MaxFaults,        \* bound: broken calls, refused writes and power cuts
    MaxEdits          \* bound: files the library replaces

ASSUME DownloadsAssumption ==
    /\ MaxQueueEntries \in Nat \ {0}
    /\ Kinds \subseteq {"hashed", "unhashed", "sizeless", "set", "missing"}
    /\ Libraries \subseteq [Roms -> Kinds] /\ Held \subseteq Roms
    /\ Queued \subseteq UNION {[1..n -> Roms] : n \in 0..MaxQueueEntries}
    /\ \A roms \in Queued : IsInjective(roms)
    /\ Settings \subseteq [resume : BOOLEAN, verify : BOOLEAN, max_attempts : Nat \ {0}]
    /\ None \notin {"v1", "v2", "other"}
    /\ MaxPresses \in Nat /\ MaxFaults \in Nat /\ MaxEdits \in Nat

VARIABLES
    queue,     \* the rows in memory, oldest first
    file,      \* what queue.json holds
    trusted,   \* queue_trusted_: the file was read back at the start
    library,   \* the server's file for each rom, and what it says of it
    card,      \* the rom's own file, its staged body and its partial one
    drain,     \* the Drainer of the drain that is running
    cancel,    \* its CancelToken has fired
    owes,      \* a Dequeue has removed a row in flight and not yet cancelled
    backoff,   \* the worker waits for download_due_
    woken,     \* WakeDownloads ran since the drain registered
    presses, faults, edits

vars == <<queue, file, trusted, library, card, drain, cancel, owes, backoff, woken,
          presses, faults, edits>>

\* A body is one of the two contents the library has held, or neither: a seam of both.
Versions == {"v1", "v2"}
Bodies == Versions \cup {"other"}

QueueState == {"queued", "active", "verifying", "done", "failed", "skipped"}
Terminal(state) == state \in {"done", "failed", "skipped"}

\* What a row's message tells apart, and the digest it was last described by.
Notes == {None, "already", "verified", "unchecked"}
Row == [rom : Roms, state : QueueState, sha : Versions \cup {None}, note : Notes]
NewRow(r) == [rom |-> r, state |-> "queued", sha |-> None, note |-> None]

RomDetail == [kind : Kinds, ver : Versions]
OnCard == [dest : Bodies \cup {None}, staged : Bodies \cup {None}, part : Bodies \cup {None}]

DrainStep == {"off", "pick", "detail", "place", "begin", "body", "verify",
              "check", "settle", "requeue"}
DrainOutcome == {"completed", "retryable", "unauthorized", "canceled", "store_failed"}

NoDrain == [pc |-> "off", entry |-> None, detail |-> None, deferred |-> {}, spent |-> 0,
            inherited |-> "no", outcome |-> "completed", set |-> None]

Drainer == [pc : DrainStep, entry : Row \cup {None}, detail : RomDetail \cup {None},
            deferred : SUBSET Roms, spent : Nat, inherited : {"no", "body", "salvage"},
            outcome : DrainOutcome, set : Settings \cup {None}]

Rows == UNION {[1..n -> Row] : n \in 0..MaxQueueEntries}

\* Every variable has its type, and the queue holds a rom once.
DownloadsTypeOK ==
    /\ queue \in Rows /\ IsInjective([i \in DOMAIN queue |-> queue[i].rom])
    /\ file \in Rows
    /\ trusted \in BOOLEAN /\ cancel \in BOOLEAN /\ owes \in BOOLEAN /\ backoff \in BOOLEAN
    /\ woken \in BOOLEAN
    /\ library \in [Roms -> RomDetail] /\ card \in [Roms -> OnCard]
    /\ drain \in Drainer
    /\ presses \in 0..MaxPresses /\ faults \in 0..MaxFaults /\ edits \in 0..MaxEdits

-----------------------------------------------------------------------------
(* The list.                                                                *)

Find(q, r) == SelectInSeq(q, LAMBDA row : row.rom = r)
Holds(q, r) == Find(q, r) # 0
Pending(q) == {q[i].rom : i \in {j \in DOMAIN q : ~Terminal(q[j].state)}}
\* Mutant: the oldest row makes room, ended or not.
OldestOfAll(q) == SelectInSeq(q, LAMBDA row : row.rom \in Roms)
OldestEnded(q) == SelectInSeq(q, LAMBDA row : Terminal(row.state))

\* Mutant: the ended row of this rom stays beside the new one.
EnqueueBeside(q, r) ==
    LET gone == IF Len(q) >= MaxQueueEntries THEN OldestEnded(q) ELSE 0
    IN  Append(IF gone = 0 THEN q ELSE RemoveAt(q, gone), NewRow(r))

\* EnqueueLocked: an ended row of this rom goes, or at the limit the oldest ended one.
CanEnqueue(q, r) ==
    IF Holds(q, r) THEN Terminal(q[Find(q, r)].state)
                   ELSE Len(q) < MaxQueueEntries \/ OldestEnded(q) # 0
EnqueueLocked(q, r) ==
    LET gone == IF Holds(q, r) THEN Find(q, r)
                ELSE IF Len(q) >= MaxQueueEntries THEN OldestEnded(q) ELSE 0
    IN  Append(IF gone = 0 THEN q ELSE RemoveAt(q, gone), NewRow(r))

RemoveLocked(q, r) == RemoveAt(q, Find(q, r))
UpdateLocked(q, row) == ReplaceAt(q, Find(q, row.rom), row)

\* Mutant: a row left active is taken for one in flight.
NextQueued(q, skip) == SelectInSeq(q, LAMBDA row : row.state = "queued" /\ row.rom \notin skip)

\* NextPending: the oldest row that has not ended and was not put off by this drain.
NextPending(q, skip) ==
    SelectInSeq(q, LAMBDA row : ~Terminal(row.state) /\ row.rom \notin skip)

\* The write inside the lock: memory and card change together, or neither does.
Stored(q) == queue' = q /\ file' = q

\* Load: what was in flight when the power went is queued again.
Reloaded(q) ==
    [i \in DOMAIN q |-> IF q[i].state \in {"active", "verifying"}
                        THEN [q[i] EXCEPT !.state = "queued"] ELSE q[i]]

Fault == faults < MaxFaults /\ faults' = faults + 1
Calm == UNCHANGED faults

-----------------------------------------------------------------------------
(* The owner, over IPC, and the world.                                      *)

owner == <<library, card, drain, edits>>

\* The pacing is forgotten, and a drain in flight will find it was asked again.
WakeDownloads == backoff' = FALSE /\ woken' = TRUE

\* SdEngine::Enqueue.  A refused write is undone and answered, and wakes nobody.
Enqueue(r) ==
    /\ trusted /\ ~owes /\ presses < MaxPresses
    /\ CanEnqueue(queue, r)
    /\ presses' = presses + 1
    /\ \/ Stored(EnqueueLocked(queue, r)) /\ WakeDownloads /\ Calm
       \/ Fault /\ UNCHANGED <<queue, file, backoff, woken>>
    /\ UNCHANGED <<trusted, cancel, owes, owner>>

\* SdEngine::Dequeue: the row goes first; the drain is stopped in a slice of its own.
Dequeue(r) ==
    /\ trusted /\ ~owes /\ presses < MaxPresses
    /\ Holds(queue, r)
    /\ presses' = presses + 1
    /\ \/ /\ Stored(RemoveLocked(queue, r)) /\ Calm
          /\ IF queue[Find(queue, r)].state \in {"active", "verifying"}
             THEN owes' = TRUE /\ UNCHANGED <<backoff, woken>>
             ELSE WakeDownloads /\ UNCHANGED owes
       \/ Fault /\ UNCHANGED <<queue, file, owes, backoff, woken>>
    /\ UNCHANGED <<trusted, cancel, owner>>

\* CancelDrainLocked, whatever the drain is on by now, and WakeDownloads.
DequeueCancels ==
    /\ owes /\ owes' = FALSE
    /\ cancel' = (drain.pc # "off")
    /\ WakeDownloads
    /\ UNCHANGED <<queue, file, trusted, presses, faults, owner>>

\* The library replaces a rom's file.
Replaced(r) ==
    /\ edits < MaxEdits /\ edits' = edits + 1
    /\ \E ver \in Versions \ {library[r].ver} : library' = [library EXCEPT ![r].ver = ver]
    /\ UNCHANGED <<queue, file, trusted, card, drain, cancel, owes, backoff, woken, presses, faults>>

\* LoadQueue: a list the card gives back is taken up; one it does not is left for another boot.
LoadQueue(readable) ==
    /\ trusted' = readable
    /\ queue' = IF readable THEN Reloaded(file) ELSE <<>>
    /\ UNCHANGED file

\* The power goes, and the next boot reads the list.
PowerCut ==
    /\ Fault
    /\ \E readable \in BOOLEAN : LoadQueue(readable)
    /\ drain' = NoDrain /\ cancel' = FALSE /\ owes' = FALSE
    /\ backoff' = FALSE /\ woken' = FALSE
    /\ UNCHANGED <<library, card, presses, edits>>

-----------------------------------------------------------------------------
(* The drain.                                                               *)

around == <<library, trusted, owes, presses, edits>>

Goes(pc) == drain' = [drain EXCEPT !.pc = pc]
Settles(state, note) ==
    drain' = [drain EXCEPT !.pc = "settle", !.entry.state = state, !.entry.note = note]
Requeues(outcome) ==
    drain' = [drain EXCEPT !.pc = "requeue", !.entry.state = "queued", !.entry.note = None,
                           !.outcome = outcome]

Rom == drain.entry.rom
Here == card[Rom]
Leaves(files) == card' = [card EXCEPT ![Rom] = files]

Sized == drain.detail.kind # "sizeless"
Checkable == drain.set.verify /\ drain.detail.kind # "unhashed"
Resumes == drain.set.resume /\ Sized
Inherits == Resumes /\ Here.part # None
Budget == drain.set.max_attempts
Spent == drain.spent + 1
More == Spent < Budget

\* RunOneDrain: past its backoff and with rows to do, it registers a token and drains.
RunOneDrain ==
    /\ drain.pc = "off" /\ ~backoff
    /\ Pending(queue) # {}
    /\ \E set \in Settings : drain' = [NoDrain EXCEPT !.pc = "pick", !.set = set]
    /\ cancel' = FALSE /\ woken' = FALSE
    /\ UNCHANGED <<queue, file, card, backoff, faults, around>>

\* The drain ends: what it could not do waits out a backoff, what it finished does not.
Ends(outcome) ==
    /\ drain' = NoDrain /\ cancel' = FALSE
    /\ backoff' = (~woken /\ outcome \in {"retryable", "unauthorized", "store_failed"})
    /\ UNCHANGED woken

\* The top of Drainer::Run.
Pick ==
    /\ drain.pc = "pick"
    /\ LET next == NextPending(queue, drain.deferred) IN
       \/ cancel /\ Ends("canceled")
       \/ /\ ~cancel /\ next = 0
          /\ Ends(IF drain.deferred = {} THEN "completed" ELSE "retryable")
       \/ /\ ~cancel /\ next # 0
          /\ drain' = [drain EXCEPT !.pc = "detail", !.entry = queue[next], !.spent = 0]
          /\ UNCHANGED <<cancel, backoff, woken>>
    /\ UNCHANGED <<queue, file, card, faults, around>>

\* Judge: what an exchange that brought nothing means, and what the drain makes of it.
Judge == {"retry", "fatal", "refused"}
OutcomeFor(verdict) == IF verdict = "retry" THEN "retryable" ELSE "unauthorized"

\* FetchDetail: a broken call is tried again within the budget, a refusal ends the drain.
FetchDetail ==
    /\ drain.pc = "detail"
    /\ \/ /\ drain' = [drain EXCEPT !.pc = "place", !.detail = library[Rom], !.spent = Spent]
          /\ Calm
       \/ cancel /\ Requeues("canceled") /\ Calm
       \/ \E verdict \in Judge :
            /\ ~cancel /\ Fault
            /\ \/ verdict = "fatal" /\ Settles("failed", None)
               \/ verdict = "retry" /\ More /\ drain' = [drain EXCEPT !.spent = Spent]
               \/ /\ verdict = "refused" \/ (verdict = "retry" /\ ~More)
                  /\ Requeues(OutcomeFor(verdict))
    /\ UNCHANGED <<queue, file, card, cancel, backoff, woken, around>>

\* What One refuses to fetch, and where a name on the card is not to be had.
NotFetched == drain.detail.kind \in {"set", "missing"}
AlreadyOnTheCard == Checkable /\ Sized /\ Here.dest = drain.detail.ver

\* RoomOnTheCard finds none: what was fetched so far goes, and so does the rom.
NoRoomOnTheCard ==
    /\ Sized /\ Fault
    /\ Leaves([Here EXCEPT !.staged = None, !.part = None])
    /\ drain' = [drain EXCEPT !.pc = "settle", !.entry.sha = drain.detail.ver,
                              !.entry.state = "failed", !.entry.note = None]

\* Transfer's head: a whole body an earlier boot left is checked before it is fetched again.
Salvages == Checkable /\ Sized /\ Here.staged # None

\* One, from the answer to the transfer: what is refused, what the card has, what fits.
Place ==
    /\ drain.pc = "place"
    /\ \/ /\ NotFetched
          /\ Settles(IF drain.detail.kind = "set" THEN "skipped" ELSE "failed", None)
          /\ UNCHANGED card /\ Calm
       \/ /\ ~NotFetched /\ AlreadyOnTheCard
          /\ Leaves([Here EXCEPT !.staged = None, !.part = None])
          /\ drain' = [drain EXCEPT !.pc = "settle", !.entry.sha = drain.detail.ver,
                                    !.entry.state = "done", !.entry.note = "already"]
          /\ Calm
       \/ ~NotFetched /\ ~AlreadyOnTheCard /\ NoRoomOnTheCard
       \/ /\ ~NotFetched /\ ~AlreadyOnTheCard /\ Salvages /\ Calm
          /\ drain' = [drain EXCEPT !.pc = "verify", !.entry.sha = drain.detail.ver,
                                    !.inherited = "salvage"]
          /\ UNCHANGED card
       \/ /\ ~NotFetched /\ ~AlreadyOnTheCard /\ ~Salvages /\ Calm
          /\ drain' = [drain EXCEPT !.pc = "begin", !.entry.sha = drain.detail.ver]
          /\ Leaves([Here EXCEPT !.staged = None])
    /\ UNCHANGED <<queue, file, cancel, backoff, woken, around>>

\* Persist: the row takes the entry, is gone, or the write is refused and ends the drain.
Persist(row) == Holds(queue, row.rom) /\ Stored(UpdateLocked(queue, row)) /\ Calm
Gone == ~Holds(queue, Rom) /\ UNCHANGED <<queue, file>> /\ Calm
StoreFailed == Holds(queue, Rom) /\ Fault /\ UNCHANGED <<queue, file>>
EndsHere == Ends("store_failed")
Onward == drain' = [drain EXCEPT !.pc = "pick"] /\ UNCHANGED <<cancel, backoff, woken>>

\* Transfer's loop: the row is active on the card before a byte is asked for.
Begin ==
    LET row == [drain.entry EXCEPT !.state = "active", !.note = None] IN
    /\ drain.pc = "begin"
    /\ \/ /\ Persist(row)
          /\ drain' = [drain EXCEPT !.pc = "body", !.entry = row,
                           !.inherited = IF Inherits THEN "body" ELSE "no"]
          /\ UNCHANGED <<cancel, backoff, woken>>
       \/ Gone /\ Onward
       \/ StoreFailed /\ EndsHere
    /\ UNCHANGED <<card, around>>

\* What the transfer would leave: the rest of the file behind the partial bytes, or all of it.
Fetched ==
    LET whole == library[Rom].ver IN
    {whole} \cup (IF Inherits THEN {IF Here.part = whole THEN whole ELSE "other"} ELSE {})

\* What a transfer that broke off leaves of it, a body begun anew included.
Leftovers == Fetched \cup {None} \cup (IF Inherits THEN {Here.part} ELSE {})

\* Transfer's verdict on a call that brought no body.
BrokeOff(verdict) ==
    \/ /\ verdict = "fatal"
       /\ Leaves([Here EXCEPT !.part = None]) /\ Settles("failed", None)
    \/ /\ verdict = "refused"
       /\ Leaves([Here EXCEPT !.part = IF Inherits THEN @ ELSE None])
       /\ Requeues(IF cancel THEN "canceled" ELSE OutcomeFor(verdict))
    \/ /\ verdict = "retry"
       /\ \E part \in Leftovers : Leaves([Here EXCEPT !.part = part])
       /\ \/ cancel /\ Requeues("canceled")
          \/ ~cancel /\ ~More /\ Requeues(OutcomeFor(verdict))
          \/ ~cancel /\ More /\ drain' = [drain EXCEPT !.pc = "begin", !.spent = Spent]

\* Transfer, one call of Download and its verdict.
Body ==
    /\ drain.pc = "body"
    /\ \/ \E body \in Fetched :
            /\ Leaves([Here EXCEPT !.staged = body, !.part = None])
            /\ drain' = [drain EXCEPT !.pc = "verify", !.spent = Spent]
            /\ Calm
       \/ \E verdict \in Judge : Fault /\ BrokeOff(verdict)
       \/ /\ cancel /\ Calm                                 \* stopped
          /\ \E part \in Leftovers : Leaves([Here EXCEPT !.part = part])
          /\ Requeues("canceled")
    /\ UNCHANGED <<queue, file, cancel, backoff, woken, around>>

\* Verify: the row says so first; a row that is gone or refused takes the body with it.
Verify ==
    LET row == [drain.entry EXCEPT !.state = "verifying", !.note = None] IN
    /\ drain.pc = "verify"
    /\ \/ /\ Persist(row) /\ drain' = [drain EXCEPT !.pc = "check", !.entry = row]
          /\ UNCHANGED <<card, cancel, backoff, woken>>
       \/ Gone /\ Leaves([Here EXCEPT !.staged = None]) /\ Onward
       \/ StoreFailed /\ Leaves([Here EXCEPT !.staged = None]) /\ EndsHere
    /\ UNCHANGED around

\* Check, and what Verify does with it: a mismatch throws the bytes away.
\* Mutant: only bytes that were resumed are checked.
MismatchedWhenResumed == Checkable /\ drain.inherited = "body" /\ Here.staged # drain.detail.ver
Mismatched == Checkable /\ Here.staged # drain.detail.ver
Check ==
    /\ drain.pc = "check"
    /\ \/ /\ Mismatched /\ Calm
          /\ Leaves([Here EXCEPT !.staged = None, !.part = None])
          /\ \/ drain.inherited = "no" /\ Settles("failed", None)
             \/ drain.inherited = "salvage" /\ Goes("begin")
             \/ /\ drain.inherited = "body"
                /\ \/ cancel /\ Requeues("canceled")
                   \/ ~cancel /\ drain.spent >= Budget /\ Requeues("retryable")
                   \/ ~cancel /\ drain.spent < Budget /\ Goes("begin")
       \/ /\ ~Mismatched /\ Calm                            \* CommitStaged
          /\ Leaves([Here EXCEPT !.dest = Here.staged, !.staged = None])
          /\ Settles("done", IF Checkable THEN "verified" ELSE "unchecked")
       \/ /\ ~Mismatched /\ Fault
          /\ \E dest \in {Here.dest, None} :
                Leaves([Here EXCEPT !.dest = dest, !.staged = None, !.part = None])
          /\ Settles("failed", None)
    /\ UNCHANGED <<queue, file, cancel, backoff, woken, around>>

\* Settle: the row ends, on the card too, and the drain goes on.
Settle ==
    /\ drain.pc = "settle"
    /\ \/ Persist(drain.entry) /\ Onward
       \/ Gone /\ Onward
       \/ StoreFailed /\ EndsHere
    /\ UNCHANGED <<card, around>>

\* Requeue: the row waits; a retry is put off to the next drain, the rest ends this one.
Requeue ==
    /\ drain.pc = "requeue"
    /\ \/ /\ Persist(drain.entry)
          /\ IF drain.outcome = "retryable"
             THEN /\ drain' = [drain EXCEPT !.pc = "pick", !.deferred = @ \cup {Rom}]
                  /\ UNCHANGED <<cancel, backoff, woken>>
             ELSE Ends(drain.outcome)
       \/ Gone /\ IF drain.outcome = "retryable" THEN Onward ELSE Ends(drain.outcome)
       \/ StoreFailed /\ EndsHere
    /\ UNCHANGED <<card, around>>

Drain ==
    \/ RunOneDrain \/ Pick \/ FetchDetail \/ Place \/ Begin \/ Body \/ Verify \/ Check
    \/ Settle \/ Requeue

\* download_due_ comes.
BackoffEnds ==
    /\ backoff /\ backoff' = FALSE
    /\ UNCHANGED <<queue, file, card, drain, cancel, woken, faults, around>>

-----------------------------------------------------------------------------
Init ==
    /\ file \in {[i \in DOMAIN roms |-> NewRow(roms[i])] : roms \in Queued}
    /\ trusted \in BOOLEAN /\ queue = IF trusted THEN Reloaded(file) ELSE <<>>
    /\ \E kinds \in Libraries :
          library = [r \in Roms |-> [kind |-> kinds[r], ver |-> "v1"]]
    /\ card = [r \in Roms |-> [dest |-> IF r \in Held THEN "other" ELSE None,
                               staged |-> None, part |-> None]]
    /\ drain = NoDrain /\ cancel = FALSE /\ owes = FALSE
    /\ backoff = FALSE /\ woken = FALSE
    /\ presses = 0 /\ faults = 0 /\ edits = 0

Next ==
    \/ \E r \in Roms : Enqueue(r) \/ Dequeue(r) \/ Replaced(r)
    \/ DequeueCancels \/ PowerCut \/ Drain \/ BackoffEnds

Spec == Init /\ [][Next]_vars
FairSpec == Spec /\ WF_vars(Drain) /\ WF_vars(DequeueCancels) /\ WF_vars(BackoffEnds)

-----------------------------------------------------------------------------
(* Properties.                                                              *)

(* A row that says done is about a file that is there: the bytes the server *)
(* gave a digest for when the row says they were checked, with no staged or *)
(* partial body left beside them.  Verify commits before Settle writes the  *)
(* row, and a cut, a dequeue or a new library file may fall between.        *)
OnTheCard(row) ==
    LET files == card[row.rom]
    IN  /\ files.dest # None /\ files.staged = None /\ files.part = None
        /\ row.note # "unchecked" => files.dest = row.sha
DoneIsOnCard == \A row \in ToSet(queue) : row.state = "done" => OnTheCard(row)

\* The rows as everyone else reads them, VerdictFor's reading of a row included.
Says(row) ==
    IF ~Terminal(row.state) THEN "pending"
    ELSE IF row.state # "done" THEN "failed"
    ELSE IF row.note = "already" THEN "already" ELSE "done"
BoardOf(q) == [r \in Roms |-> IF Holds(q, r) THEN Says(q[Find(q, r)]) ELSE "absent"]
ListKept == IF trusted THEN queue ELSE file

Board == INSTANCE DownloadBoard WITH board <- BoardOf(ListKept), readable <- trusted

(* The queue is the board it promises: across drains, dequeues of the rom   *)
(* in flight, refused writes and power cuts, a pending rom leaves the list  *)
(* only by the owner's hand or by ending, an ended one never wakes up by    *)
(* itself, and a list a boot could not read is as it was for the next one.  *)
BoardIsKept == Board!BoardSpec

(* A rom that is asked for is not left pending: the drain that is stopped   *)
(* for another rom's sake, put off, backed off or cut short is followed by  *)
(* one that ends it, or the owner takes the rom out.                        *)
PendingEnds == \A r \in Roms : (r \in Pending(queue)) ~> (r \notin Pending(queue))

-----------------------------------------------------------------------------
(* What the steps rely on, as one inductive invariant.                      *)

Working == drain.pc \notin {"off", "pick"}
Fetching == {"begin", "body", "verify", "check"}

\* The drain knows what it works on, and there is none where the list was not read.
DrainFits ==
    /\ drain.pc = "off" \/ (trusted /\ drain.set \in Settings)
    /\ Working => drain.entry \in Row
    /\ drain.pc \in Fetching \cup {"place"} => drain.detail \in RomDetail
    /\ drain.pc \in Fetching => drain.entry.sha = drain.detail.ver
    /\ drain.pc = "settle" => Terminal(drain.entry.state)
    /\ drain.pc = "requeue" => drain.entry.state = "queued"

\* A whole body has taken the partial one's place, and is there to be checked.
FilesFit ==
    /\ \A r \in Roms : card[r].staged = None \/ card[r].part = None
    /\ drain.pc \in {"begin", "body"} => Here.staged = None
    /\ drain.pc \in {"verify", "check"} => Here.staged # None
    /\ drain.pc = "settle" /\ drain.entry.state = "done" => OnTheCard(drain.entry)

\* queue.json holds a rom once and says what the list in memory says, but for what a
\* boot queued again; no rom that is worked on has ended in either.
ListsFit ==
    /\ IsInjective([i \in DOMAIN file |-> file[i].rom])
    /\ IF trusted THEN queue \in {file, Reloaded(file)} ELSE queue = <<>>
    /\ \A row \in ToSet(queue) \cup ToSet(file) :
          /\ row.state = "done" => OnTheCard(row)
          /\ Working /\ row.rom = Rom => ~Terminal(row.state)

IInv == DownloadsTypeOK /\ DrainFits /\ FilesFit /\ ListsFit
=============================================================================
