----------------------------- MODULE EngineProofs -----------------------------
(***************************************************************************)
(* What the engine keeps: the pass over one save, and the threads that run *)
(* it.                                                                     *)
(*                                                                         *)
(* IInv is an invariant of SaveSync, and with it, for every set of bytes   *)
(* and every bound: the type invariant, MarkedWasLost, the two action      *)
(* properties, and the step simulation of KeepBoth.  One lemma per action; *)
(* where an action touches the server's rows or a Boolean the lemma says   *)
(* so first.                                                               *)
(*                                                                         *)
(* WorkerInv is an invariant of Worker, and with it, for every schedule    *)
(* and every bound: the type invariant, AckMeansQuiet and StoppedIsTold.   *)
(* The step lemmas have one case per action; where an action assigns a     *)
(* Boolean its type is a step of its own.                                  *)
(***************************************************************************)
EXTENDS SaveSync, Worker, TLAPS

USE ConstantsAssumption DEF local, server, plan, work, Ids, Digests, Ops, Rows, Entries

-----------------------------------------------------------------------------
(* What the server's answers guarantee.                                    *)

(* One more row, after the last: the rows there were are as they were.      *)
LEMMA NewRowKeeps ==
    ASSUME NEW m \in Nat, m < MaxRows, NEW f \in [Ids -> Digests], NEW b \in Bytes,
           NEW g, g = [f EXCEPT ![m + 1] = b], \A i \in 1 .. m : f[i] \in Bytes
    PROVE  /\ m + 1 \in Ids
           /\ g \in [Ids -> Digests]
           /\ \A i \in 1 .. m : i \in 1 .. (m + 1) /\ g[i] = f[i]
           /\ \A i \in 1 .. (m + 1) : g[i] \in Bytes
<1>1. m + 1 \in Ids /\ g \in [Ids -> Digests] /\ g[m + 1] = b
  OBVIOUS
<1>2. \A i \in 1 .. m : i \in Ids /\ i # m + 1 /\ g[i] = f[i]
  OBVIOUS
<1>3. \A i \in 1 .. (m + 1) : i = m + 1 \/ i \in 1 .. m
  OBVIOUS
<1> QED
  BY <1>1, <1>2, <1>3

(* An operation RomM may plan for a report (ReadOperation): it deletes only *)
(* what the slot lost, takes an upload only of what was offered, and names  *)
(* a row to fetch.                                                          *)
LEMMA PlanNames ==
    ASSUME IInv, NEW r \in Bytes \cup {None, Unhashed}, NEW h \in Arbitrate(r)
    PROVE  /\ h \in Ops
           /\ h.action = "delete" => r \in lost
           /\ h.action = "upload" => r # None
           /\ h.action \in {"download", "conflict"} => h.id \in Ids
<1>1. PICK a \in Verdicts(r) : h = Plan(a)
  BY DEF Arbitrate
<1>2. /\ a \in {"none", "no_op", "upload", "download", "conflict", "delete"}
      /\ a = "delete" => r \in lost
      /\ a = "upload" => r # None
      /\ a \in {"download", "conflict"} => head # 0
  BY <1>1 DEF Verdicts
<1>3. head \in Ids \cup {0} /\ hash \in [Ids -> Digests]
  BY DEF IInv, TypeOK
<1> QED
  BY <1>1, <1>2, <1>3 DEF Plan, NoOp

(* What Resolved makes of such an operation deletes and uploads nothing.    *)
LEMMA ResolvedNames ==
    ASSUME IInv, NEW r \in Bytes \cup {None, Unhashed}, NEW h \in Arbitrate(r),
           Resolved(h) # NoOp
    PROVE  /\ Resolved(h) \in Ops
           /\ Resolved(h).action \in {"no_op", "download", "conflict"}
           /\ Resolved(h).action \in {"download", "conflict"} => Resolved(h).id \in Ids
<1>1. h \in Ops /\ (h.id # 0 => h.id \in Ids)
  BY PlanNames
<1> QED
  BY <1>1 DEF Resolved, NoOp

(* What is offered is the report or nothing (RunTick's withheld).           *)
LEMMA OfferedType ==
    ASSUME IInv
    PROVE  /\ Offered \in Bytes \cup {None, Unhashed}
           /\ Offered # None => Offered = reported
           /\ Offered # None => ~(row # None /\ row.deleted /\ row.hash = reported)
BY DEF IInv, TypeOK, Offered, Withheld, Hashed

(* record_identical_content writes history only for a head whose bytes the  *)
(* console reported, and so held.                                           *)
LEMMA RecordKeeps ==
    ASSUME IInv, NEW r \in Bytes \cup {None, Unhashed}, RecordIdentical(r)
    PROVE  /\ sync' \in [Ids -> Digests]
           /\ stale' \subseteq Ids
           /\ met \subseteq met'
           /\ met' \subseteq Ids
           /\ SyncMet'
<1>1. CASE head # 0 /\ r = hash[head]
  <2>1. head \in Ids /\ r \in Bytes
    BY <1>1 DEF IInv, TypeOK, RowsGiven
  <2>2. sync' = [sync EXCEPT ![head] = r] /\ stale' = stale \ {head} /\ met' = met \cup {head}
    BY <1>1 DEF RecordIdentical
  <2> QED
    BY <2>1, <2>2 DEF IInv, TypeOK, SyncMet
<1>2. CASE ~(head # 0 /\ r = hash[head])
  <2>1. sync' = sync /\ stale' = stale /\ met' = met
    BY <1>2, Zenon DEF RecordIdentical
  <2>2. sync \in [Ids -> Digests] /\ stale \subseteq Ids /\ met \subseteq Ids /\ SyncMet
    BY Zenon DEF IInv, TypeOK
  <2>3. SyncMet'
    BY <2>1, <2>2, Zenon DEF SyncMet
  <2> QED
    BY <2>1, <2>2, <2>3, Zenon
<1> QED
  BY <1>1, <1>2

(* One more row, or none: what the server was given stays given.            *)
LEMMA GivenKept ==
    ASSUME IInv, NEW b \in Bytes,
           \/ made' = made /\ body' = body
           \/ made < MaxRows /\ made' = made + 1 /\ body' = [body EXCEPT ![made + 1] = b]
    PROVE  Given \subseteq Given'
<1>1. CASE made' = made /\ body' = body
  BY <1>1 DEF Given
<1>2. CASE made < MaxRows /\ made' = made + 1 /\ body' = [body EXCEPT ![made + 1] = b]
  <2>1. made \in Nat /\ body \in [Ids -> Digests] /\ \A i \in 1 .. made : body[i] \in Bytes
    BY DEF IInv, TypeOK, RowsGiven
  <2>2. \A i \in 1 .. made : i \in 1 .. made' /\ body'[i] = body[i]
    BY <1>2, <2>1, NewRowKeeps
  <2> QED
    BY <2>2 DEF Given
<1> QED
  BY <1>1, <1>2

(* An upload the server takes leaves whole rows, and history only for the   *)
(* row it made or promoted (add_save).                                      *)
LEMMA TakeUploadKeeps ==
    ASSUME IInv, pc = "send", TakeUpload(card, digest, Overwrite)
    PROVE  /\ made' \in 0 .. MaxRows
           /\ body' \in [Ids -> Digests]
           /\ hash' \in [Ids -> Digests]
           /\ live' \subseteq 1 .. made'
           /\ head' \in live'
           /\ sync' \in [Ids -> Digests]
           /\ stale' \subseteq Ids
           /\ met \subseteq met'
           /\ met' \subseteq Ids
           /\ RowsGiven'
           /\ SyncMet'
           /\ Given \subseteq Given'
<1>1. card \in Bytes /\ digest \in Bytes
  BY DEF IInv, Sending
<1>2. \/ /\ head' \in live
          /\ UNCHANGED <<made, body, hash, live>>
      \/ /\ made < MaxRows
          /\ made' = made + 1
          /\ head' = made + 1
          /\ live' = live \cup {made + 1}
          /\ body' = [body EXCEPT ![made + 1] = card]
          /\ hash' = [hash EXCEPT ![made + 1] = digest]
  BY DEF TakeUpload
<1>3. /\ made' \in 0 .. MaxRows
      /\ body' \in [Ids -> Digests]
      /\ hash' \in [Ids -> Digests]
      /\ live' \subseteq 1 .. made'
      /\ head' \in live'
      /\ head' \in Ids
      /\ RowsGiven'
  <2>1. CASE head' \in live /\ UNCHANGED <<made, body, hash, live>>
    <3>1. head' \in live' /\ head' \in Ids
      BY <2>1 DEF IInv, TypeOK
    <3> QED
      BY <2>1, <3>1 DEF IInv, TypeOK, RowsGiven
  <2>2. CASE /\ made < MaxRows
             /\ made' = made + 1
             /\ head' = made + 1
             /\ live' = live \cup {made + 1}
             /\ body' = [body EXCEPT ![made + 1] = card]
             /\ hash' = [hash EXCEPT ![made + 1] = digest]
    <3>1. made \in Nat /\ live \subseteq 1 .. made
      BY DEF IInv, TypeOK
    <3>2. /\ \A i \in 1 .. made : body[i] \in Bytes /\ hash[i] \in Bytes
          /\ body \in [Ids -> Digests] /\ hash \in [Ids -> Digests]
      BY DEF IInv, TypeOK, RowsGiven
    <3>3. /\ made + 1 \in Ids
          /\ body' \in [Ids -> Digests]
          /\ \A i \in 1 .. (made + 1) : body'[i] \in Bytes
      BY <1>1, <2>2, <3>1, <3>2, NewRowKeeps
    <3>4. /\ hash' \in [Ids -> Digests]
          /\ \A i \in 1 .. (made + 1) : hash'[i] \in Bytes
      BY <1>1, <2>2, <3>1, <3>2, NewRowKeeps
    <3>5. live' \subseteq 1 .. made' /\ head' \in live' /\ made' \in 0 .. MaxRows
      BY <2>2, <3>1
    <3> QED
      BY <2>2, <3>3, <3>4, <3>5 DEF RowsGiven
  <2> QED
    BY <1>2, <2>1, <2>2
<1>5. Given \subseteq Given'
  BY <1>1, <1>2, GivenKept
<1>6. PICK n \in Ids : n = head'
  BY <1>3
<1>7. /\ sync' = [sync EXCEPT ![n] = digest]
      /\ stale' = stale \ {n}
      /\ met' = met \cup {n}
  BY <1>6 DEF TakeUpload
<1>8. /\ sync' \in [Ids -> Digests]
      /\ stale' \subseteq Ids
      /\ met \subseteq met'
      /\ met' \subseteq Ids
      /\ SyncMet'
  BY <1>1, <1>6, <1>7 DEF IInv, TypeOK, SyncMet
<1> QED
  BY <1>3, <1>5, <1>8

(* POST .../downloaded writes history for the row the tick committed.       *)
LEMMA RecordDownloadedKeeps ==
    ASSUME IInv, pc = "confirm", RecordDownloaded, met' = met
    PROVE  /\ sync' \in [Ids -> Digests]
           /\ stale' \subseteq Ids
           /\ SyncMet'
<1>1. op.id \in Ids /\ op.id \in met /\ op.hash \in Digests
  BY DEF IInv, TypeOK, Fetching, Fetches
<1> QED
  BY <1>1 DEF IInv, TypeOK, SyncMet, RecordDownloaded

-----------------------------------------------------------------------------
(* Every action keeps IInv.                                                *)

(* Another device makes a row or promotes one: history is left alone.       *)
LEMMA KeepsOtherDeviceUploads ==
    ASSUME IInv, NEW b \in Bytes, OtherDeviceUploads(b)
    PROVE  IInv'
<1>1. \/ /\ head' \in live
          /\ stale' = stale \cup {head'}
          /\ UNCHANGED <<made, body, hash, live>>
      \/ /\ made < MaxRows
          /\ made' = made + 1
          /\ head' = made + 1
          /\ live' = live \cup {made + 1}
          /\ body' = [body EXCEPT ![made + 1] = b]
          /\ hash' = [hash EXCEPT ![made + 1] = b]
          /\ stale' = stale
  BY DEF OtherDeviceUploads
<1>2. /\ made' \in 0 .. MaxRows
      /\ body' \in [Ids -> Digests]
      /\ hash' \in [Ids -> Digests]
      /\ live' \subseteq 1 .. made'
      /\ head' \in live'
      /\ stale' \subseteq Ids
      /\ RowsGiven'
  <2>1. CASE /\ head' \in live
             /\ stale' = stale \cup {head'}
             /\ UNCHANGED <<made, body, hash, live>>
    <3>1. live \subseteq Ids /\ stale \subseteq Ids
      BY DEF IInv, TypeOK
    <3>2. head' \in live' /\ stale' \subseteq Ids
      BY <2>1, <3>1
    <3> QED
      BY <2>1, <3>2 DEF IInv, TypeOK, RowsGiven
  <2>2. CASE /\ made < MaxRows
             /\ made' = made + 1
             /\ head' = made + 1
             /\ live' = live \cup {made + 1}
             /\ body' = [body EXCEPT ![made + 1] = b]
             /\ hash' = [hash EXCEPT ![made + 1] = b]
             /\ stale' = stale
    <3>1. made \in Nat /\ live \subseteq 1 .. made
      BY DEF IInv, TypeOK
    <3>2. /\ \A i \in 1 .. made : body[i] \in Bytes /\ hash[i] \in Bytes
          /\ body \in [Ids -> Digests] /\ hash \in [Ids -> Digests]
      BY DEF IInv, TypeOK, RowsGiven
    <3>3. /\ made + 1 \in Ids
          /\ body' \in [Ids -> Digests]
          /\ \A i \in 1 .. (made + 1) : body'[i] \in Bytes
      BY <2>2, <3>1, <3>2, NewRowKeeps
    <3>4. /\ hash' \in [Ids -> Digests]
          /\ \A i \in 1 .. (made + 1) : hash'[i] \in Bytes
      BY <2>2, <3>1, <3>2, NewRowKeeps
    <3>5. live' \subseteq 1 .. made' /\ head' \in live' /\ made' \in 0 .. MaxRows
      BY <2>2, <3>1
    <3> QED
      BY <2>2, <3>3, <3>4, <3>5 DEF RowsGiven, IInv, TypeOK
  <2> QED
    BY <1>1, <2>1, <2>2
<1>4. Given \subseteq Given'
  BY <1>1, GivenKept
<1>5. /\ moves' \in 0 .. MaxMoves
      /\ UNCHANGED <<local, sync, lost, archive, plan, work, armed, pc, outcome, met, faults>>
  BY DEF OtherDeviceUploads, IInv, TypeOK
<1>6. TypeOK'
  BY <1>2, <1>5 DEF IInv, TypeOK
<1>7. Fetching'
  BY <1>4, <1>5 DEF IInv, Fetching, Fetches
<1> QED
  BY <1>2, <1>5, <1>6, <1>7 DEF IInv, SyncMet, Sending, CopiesKept, Ruled, NotOffered,
    MarkedWasLost

(* A row deleted in RomM takes its history with it.                         *)
LEMMA KeepsDeletedInRomM ==
    ASSUME IInv, NEW i \in Ids, DeletedInRomM(i)
    PROVE  IInv'
<1>1. /\ live' = live \ {i}
      /\ head' \in live' \cup {0}
      /\ lost' = lost \cup {hash[i]}
      /\ hash[i] \in Bytes
      /\ sync' = [sync EXCEPT ![i] = None]
      /\ stale' = stale \ {i}
      /\ moves' \in 0 .. MaxMoves
      /\ UNCHANGED <<local, made, body, hash, archive, plan, work, armed, pc, outcome, met,
                     faults>>
  BY DEF DeletedInRomM, IInv, TypeOK, RowsGiven
<1>2. TypeOK' /\ SyncMet'
  BY <1>1 DEF IInv, TypeOK, SyncMet
<1> QED
  BY <1>1, <1>2 DEF IInv, RowsGiven, Sending, Fetching, Fetches, Given, CopiesKept, Ruled,
    NotOffered, MarkedWasLost

(* A game's write touches the card and its stamp only.                       *)
LEMMA KeepsGameWrite ==
    ASSUME IInv, NEW b \in Bytes, GameWrite(b)
    PROVE  IInv'
<1>1. twin' \in BOOLEAN /\ since' \in BOOLEAN
  BY Zenon DEF IInv, TypeOK, GameWrite, Stamped
<1>2. TypeOK'
  BY <1>1 DEF IInv, TypeOK, RowsGiven, SyncMet, Sending, Fetching, CopiesKept, Ruled, NotOffered,
    MarkedWasLost, Given, Fetches, Fault, Ends,
    GameWrite
<1> QED
  BY <1>2 DEF IInv, TypeOK, RowsGiven, SyncMet, Sending, Fetching, CopiesKept, Ruled, NotOffered,
    MarkedWasLost, Given, Fetches, Fault, Ends,
    GameWrite

(* So does the player's deletion.                                            *)
LEMMA KeepsPlayerDeletes ==
    ASSUME IInv, PlayerDeletes
    PROVE  IInv'
<1>1. twin' \in BOOLEAN /\ since' \in BOOLEAN
  BY Zenon DEF IInv, TypeOK, PlayerDeletes, Stamped
<1>2. TypeOK'
  BY <1>1 DEF IInv, TypeOK, RowsGiven, SyncMet, Sending, Fetching, CopiesKept, Ruled, NotOffered,
    MarkedWasLost, Given, Fetches, Fault, Ends,
    PlayerDeletes
<1> QED
  BY <1>2 DEF IInv, TypeOK, RowsGiven, SyncMet, Sending, Fetching, CopiesKept, Ruled, NotOffered,
    MarkedWasLost, Given, Fetches, Fault, Ends,
    PlayerDeletes

(* A restore backs up what it replaces.                                      *)
LEMMA KeepsRestoreBackup ==
    ASSUME IInv, RestoreBackup
    PROVE  IInv'
<1>1. twin' \in BOOLEAN /\ since' \in BOOLEAN
  BY Zenon DEF IInv, TypeOK, RestoreBackup, Restore, Stamped
<1>2. TypeOK'
  BY <1>1 DEF IInv, TypeOK, RowsGiven, SyncMet, Sending, Fetching, CopiesKept, Ruled, NotOffered,
    MarkedWasLost, Given, Fetches, Fault, Ends,
    RestoreBackup, Restore
<1> QED
  BY <1>2 DEF IInv, TypeOK, RowsGiven, SyncMet, Sending, Fetching, CopiesKept, Ruled, NotOffered,
    MarkedWasLost, Given, Fetches, Fault, Ends,
    RestoreBackup, Restore

(* And so does a Keep local.                                                 *)
LEMMA KeepsKeepLocal ==
    ASSUME IInv, KeepLocal
    PROVE  IInv'
<1>1. twin' \in BOOLEAN /\ since' \in BOOLEAN /\ armed' \in BOOLEAN
  BY Zenon DEF IInv, TypeOK, KeepLocal, Restore, Stamped
<1>2. TypeOK'
  BY <1>1 DEF IInv, TypeOK, RowsGiven, SyncMet, Sending, Fetching, CopiesKept, Ruled, NotOffered,
    MarkedWasLost, Given, Fetches, Fault, Ends,
    KeepLocal, Restore
<1> QED
  BY <1>2 DEF IInv, TypeOK, RowsGiven, SyncMet, Sending, Fetching, CopiesKept, Ruled, NotOffered,
    MarkedWasLost, Given, Fetches, Fault, Ends,
    KeepLocal, Restore

(* A scan starts a tick with nothing planned.                                *)
LEMMA KeepsScanReads ==
    ASSUME IInv, ScanReads
    PROVE  IInv'
BY DEF IInv, TypeOK, RowsGiven, SyncMet, Sending, Fetching, CopiesKept, Ruled, NotOffered,
    MarkedWasLost, Given, Fetches, Fault, Ends,
    ScanReads, Scan, ContentHash, NoOp

(* So does one that could not hash the file.                                 *)
LEMMA KeepsScanUnhashed ==
    ASSUME IInv, ScanUnhashed
    PROVE  IInv'
BY DEF IInv, TypeOK, RowsGiven, SyncMet, Sending, Fetching, CopiesKept, Ruled, NotOffered,
    MarkedWasLost, Given, Fetches, Fault, Ends,
    ScanUnhashed, Scan, NoOp

(* The plan names what PlanNames says, of what OfferedType says.            *)
LEMMA KeepsNegotiateOk ==
    ASSUME IInv, NegotiateOk
    PROVE  IInv'
<1> DEFINE r == Offered
<1>1. /\ r \in Bytes \cup {None, Unhashed}
      /\ r # None => r = reported
      /\ r # None => ~(row # None /\ row.deleted /\ row.hash = reported)
  BY OfferedType
<1>2. PICK h \in Arbitrate(r) : op' = h
  BY DEF NegotiateOk
<1>3. /\ h \in Ops
      /\ h.action = "delete" => r \in lost
      /\ h.action = "upload" => r # None
      /\ h.action \in {"download", "conflict"} => h.id \in Ids
  BY <1>1, PlanNames
<1>4. /\ sync' \in [Ids -> Digests]
      /\ stale' \subseteq Ids
      /\ met' \subseteq Ids
      /\ SyncMet'
  BY <1>1, RecordKeeps DEF NegotiateOk
<1>5. /\ pc = "scanned" /\ pc' = "op"
      /\ UNCHANGED <<local, made, body, hash, live, head, lost, archive, reported, override,
                     work, armed, outcome, moves, faults>>
  BY DEF NegotiateOk
<1> HIDE DEF r
<1>6. TypeOK'
  BY <1>2, <1>3, <1>4, <1>5 DEF IInv, TypeOK
<1>7. h.action = "delete" => reported \in lost
  BY <1>1, <1>3 DEF IInv, TypeOK
<1>8. Ruled' /\ NotOffered'
  <2>1. outcome = "kept" => reported \in lost
    BY DEF IInv, Ruled
  <2> QED
    BY <1>1, <1>2, <1>3, <1>5, <1>7, <2>1 DEF IInv, Ruled, NotOffered
<1> QED
  BY <1>2, <1>3, <1>4, <1>5, <1>6, <1>8 DEF IInv, RowsGiven, Sending, Fetching, Fetches, Given,
    CopiesKept, MarkedWasLost

(* A lost answer may have left history for a head the console reported.     *)
LEMMA KeepsNegotiateFails ==
    ASSUME IInv, NegotiateFails
    PROVE  IInv'
<1>1. /\ sync' \in [Ids -> Digests]
      /\ stale' \subseteq Ids
      /\ met' \subseteq Ids
      /\ SyncMet'
  <2>1. CASE RecordIdentical(Offered)
    BY <2>1, OfferedType, RecordKeeps
  <2>2. CASE UNCHANGED <<sync, stale, met>>
    BY <2>2 DEF IInv, TypeOK, SyncMet
  <2> QED
    BY <2>1, <2>2 DEF NegotiateFails
<1>2. /\ pc' = "idle" /\ faults' \in 0 .. MaxFaults
      /\ UNCHANGED <<local, made, body, hash, live, head, lost, archive, plan, work, armed,
                     outcome, moves>>
  BY DEF NegotiateFails, Fault, IInv, TypeOK
<1>3. TypeOK'
  BY <1>1, <1>2 DEF IInv, TypeOK
<1> QED
  BY <1>1, <1>2, <1>3 DEF IInv, RowsGiven, Sending, Fetching, Fetches, Given, CopiesKept, Ruled,
    NotOffered, MarkedWasLost

(* A plan cut short changes nothing but the tick.                            *)
LEMMA KeepsCancelPlan ==
    ASSUME IInv, CancelPlan
    PROVE  IInv'
BY DEF IInv, TypeOK, RowsGiven, SyncMet, Sending, Fetching, CopiesKept, Ruled, NotOffered,
    MarkedWasLost, Given, Fetches, Fault, Ends,
    CancelPlan

(* Neither does a plan with nothing to do.                                   *)
LEMMA KeepsExecuteNothing ==
    ASSUME IInv, ExecuteNothing
    PROVE  IInv'
BY DEF IInv, TypeOK, RowsGiven, SyncMet, Sending, Fetching, CopiesKept, Ruled, NotOffered,
    MarkedWasLost, Given, Fetches, Fault, Ends,
    ExecuteNothing

(* Upload hashes a save that is there.                                       *)
LEMMA KeepsUploadHash ==
    ASSUME IInv, UploadHash
    PROVE  IInv'
BY DEF IInv, TypeOK, RowsGiven, SyncMet, Sending, Fetching, CopiesKept, Ruled, NotOffered,
    MarkedWasLost, Given, Fetches, Fault, Ends,
    UploadHash

(* An unreadable save is not sent.                                           *)
LEMMA KeepsUploadUnreadable ==
    ASSUME IInv, UploadUnreadable
    PROVE  IInv'
BY DEF IInv, TypeOK, RowsGiven, SyncMet, Sending, Fetching, CopiesKept, Ruled, NotOffered,
    MarkedWasLost, Given, Fetches, Fault, Ends,
    UploadUnreadable

(* What an upload leaves when the server took it.                           *)
LEMMA SentKeeps ==
    ASSUME IInv, pc = "send", TakeUpload(card, digest, Overwrite), pc' = "finish",
           outcome' \in {"uploaded", "unsent"}, faults' \in 0 .. MaxFaults,
           UNCHANGED <<local, plan, work, armed, moves>>
    PROVE  IInv'
<1>1. TypeOK'
  <2>1. /\ made' \in 0 .. MaxRows
        /\ body' \in [Ids -> Digests]
        /\ hash' \in [Ids -> Digests]
        /\ live' \subseteq 1 .. made'
        /\ head' \in live'
        /\ sync' \in [Ids -> Digests]
        /\ stale' \subseteq Ids
        /\ met' \subseteq Ids
    BY TakeUploadKeeps
  <2>2. lost' = lost /\ archive' = archive
    BY DEF TakeUpload
  <2> QED
    BY <2>1, <2>2 DEF IInv, TypeOK
<1>2. RowsGiven' /\ SyncMet'
  BY TakeUploadKeeps
<1>3. lost' = lost
  BY DEF TakeUpload
<1>4. CopiesKept' /\ Ruled' /\ NotOffered' /\ MarkedWasLost'
  BY <1>3 DEF IInv, CopiesKept, Ruled, NotOffered, MarkedWasLost
<1>5. Sending' /\ Fetching'
  BY DEF IInv, Sending, Fetching, Fetches
<1> QED
  BY <1>1, <1>2, <1>4, <1>5 DEF IInv

(* The server takes the upload.                                             *)
LEMMA KeepsUploadSend ==
    ASSUME IInv, UploadSend
    PROVE  IInv'
<1>1. faults' \in 0 .. MaxFaults
  BY DEF UploadSend, IInv, TypeOK
<1> QED
  BY <1>1, SentKeeps DEF UploadSend, Ends

(* The request is lost, or the server took it and its answer is lost.       *)
LEMMA KeepsUploadSendFails ==
    ASSUME IInv, UploadSendFails
    PROVE  IInv'
<1>1. /\ pc = "send" /\ pc' = "finish" /\ outcome' = "unsent" /\ faults' \in 0 .. MaxFaults
      /\ UNCHANGED <<local, plan, work, armed, moves>>
  BY DEF UploadSendFails, Fault, Ends, IInv, TypeOK
<1>2. CASE TakeUpload(card, digest, Overwrite)
  BY <1>1, <1>2, SentKeeps
<1>3. CASE UNCHANGED <<server, met>>
  BY <1>1, <1>3 DEF IInv, TypeOK, RowsGiven, SyncMet, Sending, Fetching, CopiesKept, Ruled, NotOffered,
    MarkedWasLost, Given, Fetches, Fault, Ends
<1> QED
  BY <1>2, <1>3 DEF UploadSendFails

(* A 409 sends the tick to the second negotiation.                           *)
LEMMA KeepsUploadRefused ==
    ASSUME IInv, UploadRefused
    PROVE  IInv'
BY DEF IInv, TypeOK, RowsGiven, SyncMet, Sending, Fetching, CopiesKept, Ruled, NotOffered,
    MarkedWasLost, Given, Fetches, Fault, Ends,
    UploadRefused, SlotHasNewer, Overwrite

(* The second negotiation's answer is never an upload or a deletion.        *)
LEMMA KeepsResolve ==
    ASSUME IInv, Resolve
    PROVE  IInv'
<1> DEFINE r == Offered
<1>1. r \in Bytes \cup {None, Unhashed}
  BY OfferedType
<1>2. PICK h \in Arbitrate(r) :
        \/ /\ pc' = "finish"
           /\ op' = op
        \/ /\ Resolved(h) # NoOp
           /\ op' = Resolved(h)
           /\ pc' = "op"
  BY DEF Resolve
<1>3. Resolved(h) # NoOp
        => /\ Resolved(h) \in Ops
           /\ Resolved(h).action \in {"no_op", "download", "conflict"}
           /\ Resolved(h).action \in {"download", "conflict"} => Resolved(h).id \in Ids
  BY <1>1, ResolvedNames
<1>4. /\ sync' \in [Ids -> Digests]
      /\ stale' \subseteq Ids
      /\ met' \subseteq Ids
      /\ SyncMet'
  BY <1>1, RecordKeeps DEF Resolve
<1>5. /\ pc = "resolve"
      /\ UNCHANGED <<local, made, body, hash, live, head, lost, archive, reported, override,
                     work, armed, outcome, moves, faults>>
  BY DEF Resolve
<1> HIDE DEF r
<1>6. TypeOK'
  BY <1>2, <1>3, <1>4, <1>5 DEF IInv, TypeOK
<1>7. outcome # "kept"
  BY <1>5 DEF IInv, Ruled
<1>8. Ruled' /\ NotOffered'
  BY <1>2, <1>3, <1>5, <1>7 DEF IInv, Ruled, NotOffered
<1> QED
  BY <1>2, <1>3, <1>4, <1>5, <1>6, <1>7, <1>8 DEF IInv, RowsGiven, Sending, Fetching, Fetches,
    Given, CopiesKept, MarkedWasLost

(* A second negotiation that fails leaves the tick to finish.                *)
LEMMA KeepsResolveFails ==
    ASSUME IInv, ResolveFails
    PROVE  IInv'
BY DEF IInv, TypeOK, RowsGiven, SyncMet, Sending, Fetching, CopiesKept, Ruled, NotOffered,
    MarkedWasLost, Given, Fetches, Fault, Ends,
    ResolveFails

(* What is staged is a row's bytes.                                          *)
LEMMA KeepsFetchBody ==
    ASSUME IInv, FetchBody
    PROVE  IInv'
BY DEF IInv, TypeOK, RowsGiven, SyncMet, Sending, Fetching, CopiesKept, Ruled, NotOffered,
    MarkedWasLost, Given, Fetches, Fault, Ends,
    FetchBody, Placeable

(* An operation that fails ends the plan.                                    *)
LEMMA KeepsOperationFails ==
    ASSUME IInv, OperationFails
    PROVE  IInv'
BY DEF IInv, TypeOK, RowsGiven, SyncMet, Sending, Fetching, CopiesKept, Ruled, NotOffered,
    MarkedWasLost, Given, Fetches, Fault, Ends,
    OperationFails

(* BackUpFirst keeps what it read.                                           *)
LEMMA KeepsBackUp ==
    ASSUME IInv, BackUp
    PROVE  IInv'
BY DEF IInv, TypeOK, RowsGiven, SyncMet, Sending, Fetching, CopiesKept, Ruled, NotOffered,
    MarkedWasLost, Given, Fetches, Fault, Ends,
    BackUp

(* The archive takes what was backed up.                                     *)
LEMMA KeepsArchive ==
    ASSUME IInv, Archive
    PROVE  IInv'
BY DEF IInv, TypeOK, RowsGiven, SyncMet, Sending, Fetching, CopiesKept, Ruled, NotOffered,
    MarkedWasLost, Given, Fetches, Fault, Ends,
    Archive

(* A commit puts a fetched row's bytes on the card: the console has met it.  *)
LEMMA KeepsCommit ==
    ASSUME IInv, Commit
    PROVE  IInv'
<1>1. twin' \in BOOLEAN /\ since' \in BOOLEAN
  BY Zenon DEF IInv, TypeOK, Commit, Stamped, Ends
<1>2. TypeOK'
  BY <1>1 DEF IInv, TypeOK, RowsGiven, SyncMet, Sending, Fetching, CopiesKept, Ruled, NotOffered,
    MarkedWasLost, Given, Fetches, Fault, Ends,
    Commit, UnchangedSinceBackup
<1> QED
  BY <1>2 DEF IInv, TypeOK, RowsGiven, SyncMet, Sending, Fetching, CopiesKept, Ruled, NotOffered,
    MarkedWasLost, Given, Fetches, Fault, Ends,
    Commit, UnchangedSinceBackup

(* The confirmation is recorded.                                            *)
LEMMA KeepsConfirm ==
    ASSUME IInv, Confirm
    PROVE  IInv'
<1>1. /\ sync' \in [Ids -> Digests]
      /\ stale' \subseteq Ids
      /\ SyncMet'
  BY RecordDownloadedKeeps DEF Confirm
<1>2. TypeOK'
  BY <1>1 DEF Confirm, Ends, IInv, TypeOK
<1> QED
  BY <1>1, <1>2 DEF IInv, TypeOK, RowsGiven, SyncMet, Sending, Fetching, CopiesKept, Ruled, NotOffered,
    MarkedWasLost, Given, Fetches, Fault, Ends, Confirm

(* The confirmation fails, recorded or not.                                 *)
LEMMA KeepsConfirmFails ==
    ASSUME IInv, ConfirmFails
    PROVE  IInv'
<1>1. /\ pc = "confirm" /\ pc' = "finish" /\ outcome' = "failed"
      /\ UNCHANGED <<local, made, body, hash, live, head, lost, archive, plan, work, armed,
                     met, moves>>
  BY DEF ConfirmFails, Ends
<1>2. faults' \in 0 .. MaxFaults
  BY DEF ConfirmFails, Fault, IInv, TypeOK
<1>3. /\ sync' \in [Ids -> Digests]
      /\ stale' \subseteq Ids
      /\ SyncMet'
  <2>1. CASE RecordDownloaded
    BY <1>1, <2>1, RecordDownloadedKeeps
  <2>2. CASE UNCHANGED <<sync, stale>>
    BY <1>1, <2>2 DEF IInv, TypeOK, SyncMet
  <2> QED
    BY <2>1, <2>2 DEF ConfirmFails
<1>4. TypeOK'
  BY <1>1, <1>2, <1>3 DEF IInv, TypeOK
<1> QED
  BY <1>1, <1>3, <1>4 DEF IInv, RowsGiven, Sending, Fetching, Fetches, Given, CopiesKept, Ruled,
    NotOffered, MarkedWasLost

(* A removal starts by backing up, or keeps the save.                        *)
LEMMA KeepsRemoveStart ==
    ASSUME IInv, NEW p \in Policies, RemoveStart(p)
    PROVE  IInv'
BY DEF IInv, TypeOK, RowsGiven, SyncMet, Sending, Fetching, CopiesKept, Ruled, NotOffered,
    MarkedWasLost, Given, Fetches, Fault, Ends,
    RemoveStart, Hashed

(* The save goes.                                                            *)
LEMMA KeepsRemoveUnlink ==
    ASSUME IInv, RemoveUnlink
    PROVE  IInv'
BY DEF IInv, TypeOK, RowsGiven, SyncMet, Sending, Fetching, CopiesKept, Ruled, NotOffered,
    MarkedWasLost, Given, Fetches, Fault, Ends,
    RemoveUnlink, RemoveIsRuledOn, UnchangedSinceBackup

(* AdvanceBaseline marks only what the plan ruled deleted.                   *)
LEMMA KeepsFinishStored ==
    ASSUME IInv, FinishStored
    PROVE  IInv'
<1>1. armed' \in BOOLEAN /\ twin' \in BOOLEAN
  BY Zenon DEF IInv, TypeOK, FinishStored, AdvanceStamp
<1>2. TypeOK'
  BY <1>1 DEF IInv, TypeOK, RowsGiven, SyncMet, Sending, Fetching, CopiesKept, Ruled, NotOffered,
    MarkedWasLost, Given, Fetches, Fault, Ends,
    FinishStored, Recorded, Advance, Row, ServerHalf, Hashed
<1> QED
  BY <1>2 DEF IInv, TypeOK, RowsGiven, SyncMet, Sending, Fetching, CopiesKept, Ruled, NotOffered,
    MarkedWasLost, Given, Fetches, Fault, Ends,
    FinishStored, Recorded, Advance, Row, ServerHalf, Hashed

(* A baseline that was not stored is as it was.                              *)
LEMMA KeepsFinishUnstored ==
    ASSUME IInv, FinishUnstored
    PROVE  IInv'
<1>1. armed' \in BOOLEAN
  BY Zenon DEF IInv, TypeOK, FinishUnstored
<1>2. TypeOK'
  BY <1>1 DEF IInv, TypeOK, RowsGiven, SyncMet, Sending, Fetching, CopiesKept, Ruled, NotOffered,
    MarkedWasLost, Given, Fetches, Fault, Ends,
    FinishUnstored, Recorded
<1> QED
  BY <1>2 DEF IInv, TypeOK, RowsGiven, SyncMet, Sending, Fetching, CopiesKept, Ruled, NotOffered,
    MarkedWasLost, Given, Fetches, Fault, Ends,
    FinishUnstored, Recorded

(* A power cut ends the tick.                                                *)
LEMMA KeepsPowerCut ==
    ASSUME IInv, PowerCut
    PROVE  IInv'
<1>1. armed' \in BOOLEAN
  BY Zenon DEF IInv, TypeOK, PowerCut
<1>2. TypeOK'
  BY <1>1 DEF IInv, TypeOK, RowsGiven, SyncMet, Sending, Fetching, CopiesKept, Ruled, NotOffered,
    MarkedWasLost, Given, Fetches, Fault, Ends,
    PowerCut
<1> QED
  BY <1>2 DEF IInv, TypeOK, RowsGiven, SyncMet, Sending, Fetching, CopiesKept, Ruled, NotOffered,
    MarkedWasLost, Given, Fetches, Fault, Ends,
    PowerCut

-----------------------------------------------------------------------------
(* The theorems.                                                           *)

(* A console that has not synced yet: nothing planned, nothing in flight.   *)
LEMMA InitIInv == Init => IInv
<1> SUFFICES ASSUME Init PROVE IInv
  OBVIOUS
<1>1. op \in Ops /\ pc = "idle" /\ outcome = "none"
  BY DEF Init, NoOp
<1>2. /\ body \in [Ids -> Digests]
      /\ hash \in [Ids -> Digests]
      /\ sync \in [Ids -> Digests]
  BY DEF Init
<1>3. twin \in BOOLEAN /\ since \in BOOLEAN /\ armed \in BOOLEAN /\ override \in BOOLEAN
  BY Zenon DEF Init
<1>4. /\ live \subseteq 1 .. made /\ head \in live \cup {0} /\ made \in 0 .. MaxRows
  BY DEF Init
<1>5. moves \in 0 .. MaxMoves /\ faults \in 0 .. MaxFaults
  BY DEF Init
<1>6. TypeOK
  BY <1>1, <1>2, <1>3, <1>4, <1>5 DEF Init, TypeOK
<1> QED
  BY <1>6 DEF Init, IInv, RowsGiven, SyncMet, Sending, Fetching, Fetches, CopiesKept, Ruled,
    NotOffered, MarkedWasLost, NoOp

(* Every step of the tick, of the server and of the world keeps IInv.       *)
LEMMA NextIInv == IInv /\ [Next]_vars => IInv'
<1> SUFFICES ASSUME IInv, [Next]_vars PROVE IInv'
  OBVIOUS
<1>1. CASE Work
  BY <1>1, KeepsOtherDeviceUploads, KeepsDeletedInRomM, KeepsGameWrite, KeepsPlayerDeletes,
    KeepsRestoreBackup, KeepsKeepLocal, KeepsScanReads, KeepsScanUnhashed,
    KeepsNegotiateOk, KeepsNegotiateFails, KeepsCancelPlan, KeepsExecuteNothing,
    KeepsUploadHash, KeepsUploadUnreadable, KeepsUploadSend, KeepsUploadSendFails,
    KeepsUploadRefused, KeepsResolve, KeepsResolveFails, KeepsFetchBody,
    KeepsOperationFails, KeepsBackUp, KeepsArchive, KeepsCommit, KeepsConfirm,
    KeepsConfirmFails, KeepsRemoveStart, KeepsRemoveUnlink, KeepsFinishStored,
    KeepsFinishUnstored, KeepsPowerCut DEF Work
<1>2. CASE Fails
  BY <1>2, KeepsOtherDeviceUploads, KeepsDeletedInRomM, KeepsGameWrite, KeepsPlayerDeletes,
    KeepsRestoreBackup, KeepsKeepLocal, KeepsScanReads, KeepsScanUnhashed,
    KeepsNegotiateOk, KeepsNegotiateFails, KeepsCancelPlan, KeepsExecuteNothing,
    KeepsUploadHash, KeepsUploadUnreadable, KeepsUploadSend, KeepsUploadSendFails,
    KeepsUploadRefused, KeepsResolve, KeepsResolveFails, KeepsFetchBody,
    KeepsOperationFails, KeepsBackUp, KeepsArchive, KeepsCommit, KeepsConfirm,
    KeepsConfirmFails, KeepsRemoveStart, KeepsRemoveUnlink, KeepsFinishStored,
    KeepsFinishUnstored, KeepsPowerCut DEF Fails
<1>3. CASE World
  BY <1>3, KeepsOtherDeviceUploads, KeepsDeletedInRomM, KeepsGameWrite, KeepsPlayerDeletes,
    KeepsRestoreBackup, KeepsKeepLocal, KeepsScanReads, KeepsScanUnhashed,
    KeepsNegotiateOk, KeepsNegotiateFails, KeepsCancelPlan, KeepsExecuteNothing,
    KeepsUploadHash, KeepsUploadUnreadable, KeepsUploadSend, KeepsUploadSendFails,
    KeepsUploadRefused, KeepsResolve, KeepsResolveFails, KeepsFetchBody,
    KeepsOperationFails, KeepsBackUp, KeepsArchive, KeepsCommit, KeepsConfirm,
    KeepsConfirmFails, KeepsRemoveStart, KeepsRemoveUnlink, KeepsFinishStored,
    KeepsFinishUnstored, KeepsPowerCut DEF World
<1>4. CASE UNCHANGED vars
  BY <1>4 DEF vars, IInv, TypeOK, RowsGiven, SyncMet, Sending, Fetching, CopiesKept, Ruled, NotOffered,
    MarkedWasLost, Given, Fetches, Fault, Ends
<1> QED
  BY <1>1, <1>2, <1>3, <1>4 DEF Next


(* IInv holds in every reachable state: the strengthening the theorems      *)
(* below rest on.                                                           *)
THEOREM Invariance == Spec => []IInv
<1> QED
  BY InitIInv, NextIInv, PTL DEF Spec

(* Every variable keeps its type: the row, RomM's rows and the tick.        *)
THEOREM TypeCorrect == Spec => []TypeOK
<1>1. IInv => TypeOK
  BY DEF IInv
<1> QED
  BY <1>1, Invariance, PTL

(* AdvanceBaseline's mark is only ever on a digest the slot lost.           *)
THEOREM OnlyLostIsMarked == Spec => []MarkedWasLost
<1>1. IInv => MarkedWasLost
  BY DEF IInv
<1> QED
  BY <1>1, Invariance, PTL

(* No upload takes the head of the slot from a save this console never      *)
(* held, unless the player chose Keep local (Upload's overwrite=false and   *)
(* the histories the console causes to be written).                         *)
THEOREM NothingUnseenIsSuperseded == Spec => SupersedesOnlyWhatItMet
<1>1. ASSUME IInv, UploadSend \/ UploadSendFails, head' # head
      PROVE  head = 0 \/ head \in met \/ override
  <2>1. Overwrite \/ ~SlotHasNewer
    BY <1>1 DEF UploadSend, UploadSendFails, server
  <2>2. head # 0 => head \in Ids
    BY <1>1 DEF IInv, TypeOK
  <2> QED
    BY <1>1, <2>1, <2>2 DEF Overwrite, SlotHasNewer, IInv, SyncMet
<1>2. IInv => [(UploadSend \/ UploadSendFails) /\ head' # head
                 => head = 0 \/ head \in met \/ override]_vars
  BY <1>1
<1> QED
  BY <1>2, Invariance, PTL DEF SupersedesOnlyWhatItMet

(* Bytes the row marks as deleted on the server are not given back to it by *)
(* a tick that reported them (RunTick's withheld).                          *)
THEOREM DeletionsStand == Spec => DeletedStaysDeleted
<1>1. ASSUME IInv, UploadSend \/ UploadSendFails
      PROVE  ~(row # None /\ row.deleted /\ row.hash = reported)
  <2>1. pc = "send" /\ op.action = "upload"
    BY <1>1 DEF UploadSend, UploadSendFails, IInv, Sending
  <2> QED
    BY <1>1, <2>1 DEF IInv, NotOffered
<1>2. IInv => [(UploadSend \/ UploadSendFails) /\ made' # made
                 => ~(row # None /\ row.deleted /\ row.hash = reported)]_vars
  BY <1>1
<1> QED
  BY <1>2, Invariance, PTL DEF DeletedStaysDeleted

-----------------------------------------------------------------------------
(* KeepBoth: what the server was given, and the step each action takes.    *)

(* An upload the server takes gives it the card's bytes, or nothing new.    *)
LEMMA GivenByUpload ==
    ASSUME IInv, pc = "send", TakeUpload(card, digest, Overwrite)
    PROVE  Given' = Given \/ Given' = Given \cup {card}
<1>1. CASE UNCHANGED <<made, body>>
  BY <1>1 DEF Given
<1>2. CASE /\ made < MaxRows
           /\ made' = made + 1
           /\ body' = [body EXCEPT ![made + 1] = card]
  <2>1. made \in Nat /\ body \in [Ids -> Digests] /\ card \in Bytes
    BY DEF IInv, TypeOK, Sending
  <2>2. body'[made + 1] = card /\ \A i \in 1 .. made : body'[i] = body[i]
    BY <1>2, <2>1
  <2>3. \A i \in 1 .. (made + 1) : i = made + 1 \/ i \in 1 .. made
    BY <2>1
  <2>4. (made + 1) \in 1 .. made' /\ \A i \in 1 .. made : i \in 1 .. made'
    BY <1>2, <2>1
  <2> QED
    BY <1>2, <2>2, <2>3, <2>4 DEF Given
<1> QED
  BY <1>1, <1>2 DEF TakeUpload

(* Games, players and other devices take Outside and Recall steps.          *)
LEMMA WorldSimulates ==
    ASSUME IInv, World
    PROVE  Promise!Next
<1>1. ASSUME NEW b \in Bytes, OtherDeviceUploads(b)
      PROVE  Promise!Outside
  <2>1. Given \subseteq Given'
    BY <1>1, GivenKept DEF OtherDeviceUploads
  <2> QED
    BY <1>1, <2>1 DEF OtherDeviceUploads, Promise!Outside, IInv, TypeOK
<1>2. ASSUME NEW b \in Bytes, GameWrite(b)
      PROVE  Promise!Outside
  <2>1. Given' = Given
    BY <1>2 DEF GameWrite, Given
  <2> QED
    BY <1>2, <2>1 DEF GameWrite, Promise!Outside, IInv, TypeOK
<1>3. ASSUME PlayerDeletes
      PROVE  Promise!Outside
  <2>1. Given' = Given
    BY <1>3 DEF PlayerDeletes, Given
  <2> QED
    BY <1>3, <2>1 DEF PlayerDeletes, Promise!Outside, IInv, TypeOK
<1>4. ASSUME NEW i \in Ids, DeletedInRomM(i)
      PROVE  Promise!Outside
  <2>1. Given' = Given
    BY <1>4 DEF DeletedInRomM, Given
  <2> QED
    BY <1>4, <2>1 DEF DeletedInRomM, Promise!Outside, IInv, TypeOK
<1>5. ASSUME Restore
      PROVE  Promise!Recall
  <2>1. Given' = Given
    BY <1>5 DEF Restore, Given
  <2>2. entry.bytes \in backups
    BY <1>5 DEF Restore, IInv, CopiesKept
  <2> QED
    BY <1>5, <2>1, <2>2 DEF Restore, Promise!Recall
<1> QED
  BY <1>1, <1>2, <1>3, <1>4, <1>5 DEF World, RestoreBackup, KeepLocal, Promise!Next

(* The steps that leave the card, its copies and the server's rows alone.   *)
LEMMA Stutters ==
    ASSUME UNCHANGED <<card, backups, made, body, lost, moves>>
    PROVE  UNCHANGED Promise!vars
BY DEF Promise!vars, Given

(* The console's own steps: Keep, Give, Adopt, Withdraw, or none of them.   *)
LEMMA ConsoleSimulates ==
    ASSUME IInv, Work \/ Fails
    PROVE  Promise!Next \/ UNCHANGED Promise!vars
<1>1. CASE BackUp
  <2>1. Given' = Given
    BY <1>1 DEF BackUp, Given
  <2>2. CASE card = None
    BY <1>1, <2>2, Stutters DEF BackUp
  <2>3. CASE card # None
    BY <1>1, <2>1, <2>3 DEF BackUp, Promise!Keep, Promise!Next
  <2> QED
    BY <2>2, <2>3
<1>2. CASE UploadSend \/ UploadSendFails
  <2>1. CASE TakeUpload(card, digest, Overwrite)
    <3>1. Given' = Given \/ Given' = Given \cup {card}
      BY <1>2, <2>1, GivenByUpload DEF UploadSend, UploadSendFails
    <3>2. UNCHANGED <<card, backups, lost, moves>>
      BY <1>2, <2>1 DEF UploadSend, UploadSendFails, TakeUpload
    <3> QED
      BY <3>1, <3>2 DEF Promise!Give, Promise!Next, Promise!vars
  <2>2. CASE UNCHANGED server
    BY <1>2, <2>2, Stutters DEF UploadSend, UploadSendFails
  <2> QED
    BY <1>2, <2>1, <2>2 DEF UploadSend, UploadSendFails
<1>3. CASE Commit
  <2>1. Given' = Given
    BY <1>3 DEF Commit, Given
  <2>2. CASE UnchangedSinceBackup
    <3>1. card \in backups \cup {None} /\ staged \in Given
      BY <1>3, <2>2 DEF Commit, UnchangedSinceBackup, IInv, CopiesKept, Fetching
    <3> QED
      BY <1>3, <2>1, <2>2, <3>1 DEF Commit, Promise!Adopt, Promise!Next
  <2>3. CASE ~UnchangedSinceBackup
    BY <1>3, <2>3, Stutters DEF Commit
  <2> QED
    BY <2>2, <2>3
<1>4. CASE RemoveUnlink
  <2>1. Given' = Given
    BY <1>4 DEF RemoveUnlink, Given
  <2>2. CASE saved # None /\ RemoveIsRuledOn /\ UnchangedSinceBackup
    <3>1. card \in backups /\ card \in lost
      BY <1>4, <2>2 DEF RemoveUnlink, RemoveIsRuledOn, UnchangedSinceBackup, IInv, CopiesKept,
        Fetching, Ruled
    <3> QED
      BY <1>4, <2>1, <2>2, <3>1 DEF RemoveUnlink, Promise!Withdraw, Promise!Next
  <2>3. CASE ~(saved # None /\ RemoveIsRuledOn /\ UnchangedSinceBackup)
    BY <1>4, <2>3, Stutters DEF RemoveUnlink
  <2> QED
    BY <2>2, <2>3
<1>5. CASE \/ ScanReads \/ NegotiateOk \/ ExecuteNothing \/ UploadHash \/ UploadUnreadable
           \/ UploadRefused \/ Resolve \/ FetchBody \/ Archive \/ Confirm \/ ConfirmFails
           \/ FinishStored
  BY <1>5, Stutters DEF ScanReads, Scan, NegotiateOk, ExecuteNothing, UploadHash,
    UploadUnreadable, UploadRefused, Resolve, FetchBody, Archive, Confirm, ConfirmFails,
    FinishStored
<1>6. CASE \E p \in Policies : RemoveStart(p)
  BY <1>6, Stutters DEF RemoveStart
<1>7. CASE \/ ScanUnhashed \/ NegotiateFails \/ CancelPlan \/ ResolveFails \/ OperationFails
           \/ FinishUnstored \/ PowerCut
  BY <1>7, Stutters DEF ScanUnhashed, Scan, NegotiateFails, CancelPlan, ResolveFails,
    OperationFails, FinishUnstored, PowerCut
<1> QED
  BY <1>1, <1>2, <1>3, <1>4, <1>5, <1>6, <1>7 DEF Work, Fails

(* SaveSync implements KeepBoth: the card only ever takes bytes the server  *)
(* was given or a copy the console kept, only loses what is kept, and is    *)
(* emptied only of what the slot lost.                                      *)
THEOREM Refinement == Spec => KeepsBoth
<1>1. Init => Promise!Init
  <2> SUFFICES ASSUME Init PROVE Promise!Init
    OBVIOUS
  <2>1. Given = {}
    BY DEF Init, Given
  <2> QED
    BY <2>1 DEF Init, Promise!Init
<1>2. ASSUME IInv, [Next]_vars
      PROVE  [Promise!Next]_Promise!vars
  <2>1. CASE Work \/ Fails
    BY <1>2, <2>1, ConsoleSimulates
  <2>2. CASE World
    BY <1>2, <2>2, WorldSimulates
  <2>3. CASE UNCHANGED vars
    BY <2>3, Stutters DEF vars
  <2> QED
    BY <1>2, <2>1, <2>2, <2>3 DEF Next
<1> QED
  BY <1>1, <1>2, Invariance, PTL DEF Spec, KeepsBoth, Promise!Spec

-----------------------------------------------------------------------------
(* The worker's loop, the port's thread, pairing and the power watcher.    *)

USE WorkerAssumption DEF sched, tick, drain, keeps, pairing, psc, bounds, shared, loop,
  Points, Triggers

(* The parts of WorkerInv that relate two threads.                         *)
Told ==
    /\ BusyIsAsking
    /\ AsleepIsSuspended
    /\ AsleepIsQuiet
    /\ Awake
    /\ DrainHasToken
    /\ StoppedIsTold

(* StartWorker leaves the engine awake, with nothing in flight.            *)
LEMMA WorkerBegins == WorkerInit => WorkerInv
<1>1. WorkerInit => WorkerTypeOK
  <2>1. /\ 0 \in 0 .. MaxRescans /\ 0 \in 0 .. MaxCommands
        /\ 0 \in 0 .. MaxGames /\ 0 \in 0 .. MaxClock /\ 0 \in 0 .. MaxSleeps
    OBVIOUS
  <2> QED
    BY <2>1, Zenon DEF WorkerInit, WorkerTypeOK
<1>2. WorkerInit => Told
  BY DEF WorkerInit, Told, BusyIsAsking, AsleepIsSuspended, AsleepIsQuiet, Awake, DrainHasToken,
    StoppedIsTold
<1> QED
  BY <1>1, <1>2 DEF WorkerInv, Told

(* No slice of any thread gives a variable a value outside its type.        *)
LEMMA WorkerTypeStep ==
    ASSUME WorkerTypeOK, [WorkerNext]_workerVars
    PROVE  WorkerTypeOK'
<1>1. CASE NetworkUp
  BY <1>1 DEF WorkerTypeOK, NetworkUp
<1>2. CASE NetworkGivenUp
  <2>1. networkSeen' \in BOOLEAN
    BY <1>2, Zenon DEF WorkerTypeOK, NetworkGivenUp
  <2> QED
    BY <1>2, <2>1 DEF WorkerTypeOK, NetworkGivenUp
<1>3. CASE NetworkRestore
  BY <1>3 DEF WorkerTypeOK, NetworkRestore, Goes
<1>4. CASE Leave
  BY <1>4 DEF WorkerTypeOK, Leave, Goes
<1>5. CASE Park
  BY <1>5 DEF WorkerTypeOK, Park, Goes
<1>6. CASE Unpark
  BY <1>6 DEF WorkerTypeOK, Unpark, Goes
<1>7. CASE StartRestore
  BY <1>7 DEF WorkerTypeOK, StartRestore, Goes
<1>8. CASE RestoreEnds
  <2>1. keepHeld' \in BOOLEAN /\ heldDue' \in BOOLEAN /\ onDemand' \in BOOLEAN /\ signalled' \in
    BOOLEAN
    BY <1>8, Zenon DEF WorkerTypeOK, RestoreEnds, Goes
  <2> QED
    BY <1>8, <2>1 DEF WorkerTypeOK, RestoreEnds, Goes
<1>9. CASE AskHeld
  BY <1>9 DEF WorkerTypeOK, AskHeld, Goes
<1>10. CASE HeldIsFree
  BY <1>10 DEF WorkerTypeOK, HeldIsFree, Goes
<1>11. CASE HeldStaysHeld
  <2>1. heldDue' \in BOOLEAN /\ signalled' \in BOOLEAN /\ onDemand' \in
    BOOLEAN /\ rerun' \in BOOLEAN /\ booted' \in BOOLEAN /\ due' \in BOOLEAN /\ deadline' \in
    BOOLEAN
    BY <1>11, Zenon DEF WorkerTypeOK, HeldStaysHeld, Poll, PollDisabled, PollOnDemand, PollHeld,
      PollRerun, PollBoot, PollTimer, Runs, Waits
  <2> QED
    BY <1>11, <2>1 DEF WorkerTypeOK, HeldStaysHeld, Poll, PollDisabled, PollOnDemand, PollHeld,
      PollRerun, PollBoot, PollTimer, Runs, Waits
<1>12. CASE Land
  <2>1. keepHeld' \in BOOLEAN /\ heldDue' \in BOOLEAN /\ onDemand' \in BOOLEAN /\ signalled' \in
    BOOLEAN
    BY <1>12, Zenon DEF WorkerTypeOK, Land, Goes
  <2> QED
    BY <1>12, <2>1 DEF WorkerTypeOK, Land, Goes
<1>13. CASE Decide
  <2>1. heldDue' \in BOOLEAN /\ signalled' \in BOOLEAN /\ onDemand' \in
    BOOLEAN /\ rerun' \in BOOLEAN /\ booted' \in BOOLEAN /\ due' \in BOOLEAN /\ deadline' \in
    BOOLEAN
    BY <1>13, Zenon DEF WorkerTypeOK, Decide, Poll, PollDisabled, PollOnDemand, PollHeld, PollRerun,
      PollBoot, PollTimer, Runs, Waits
  <2> QED
    BY <1>13, <2>1 DEF WorkerTypeOK, Decide, Poll, PollDisabled, PollOnDemand, PollHeld, PollRerun,
      PollBoot, PollTimer, Runs, Waits
<1>14. CASE TickWaitsForGame
  BY <1>14 DEF WorkerTypeOK, TickWaitsForGame, Defer, Waits
<1>15. CASE TickMayRun
  <2>1. syncing' \in BOOLEAN
    BY <1>15, Zenon DEF WorkerTypeOK, TickMayRun, Goes
  <2> QED
    BY <1>15, <2>1 DEF WorkerTypeOK, TickMayRun, Goes
<1>16. CASE LandAheadOfTick
  <2>1. keepHeld' \in BOOLEAN /\ heldDue' \in BOOLEAN /\ syncing' \in BOOLEAN
    BY <1>16, Zenon DEF WorkerTypeOK, LandAheadOfTick, Goes
  <2> QED
    BY <1>16, <2>1 DEF WorkerTypeOK, LandAheadOfTick, Goes
<1>17. CASE StartTick
  BY <1>17 DEF WorkerTypeOK, StartTick, Goes
<1>18. CASE TickEnds
  <2>1. failing' \in BOOLEAN /\ due' \in BOOLEAN /\ tls' \in BOOLEAN /\ rerun' \in BOOLEAN /\ off'
    \in BOOLEAN /\ tickCancel' \in BOOLEAN /\ queued' \in BOOLEAN /\ backoff' \in BOOLEAN /\
    signalled' \in BOOLEAN
    BY <1>18, Zenon DEF WorkerTypeOK, TickEnds, Goes, ClaimInstalls, TickRan, TickFailed, TickRescans,
      TickCancelled, TickFoundDisabled
  <2>2. rescans' \in 0 .. MaxRescans /\ owed' \in {"no", "press", "stopped"}
    <3>1. CASE TickRan
      BY <1>18, <3>1 DEF WorkerTypeOK, TickEnds, TickRan
    <3>2. CASE TickFailed
      BY <1>18, <3>2 DEF WorkerTypeOK, TickEnds, TickFailed
    <3>3. CASE TickRescans
      BY <1>18, <3>3 DEF WorkerTypeOK, TickEnds, TickRescans
    <3>4. CASE TickCancelled
      BY <1>18, <3>4 DEF WorkerTypeOK, TickEnds, TickCancelled
    <3>5. CASE TickFoundDisabled
      BY <1>18, <3>5 DEF WorkerTypeOK, TickEnds, TickFoundDisabled
    <3> QED
      BY <1>18, <3>1, <3>2, <3>3, <3>4, <3>5 DEF TickEnds
  <2> QED
    BY <1>18, <2>1, <2>2 DEF WorkerTypeOK, TickEnds, Goes
<1>19. CASE TickIsHeld
  <2>1. syncing' \in BOOLEAN /\ off' \in BOOLEAN /\ tickCancel' \in BOOLEAN /\ onDemand' \in
    BOOLEAN /\ deadline' \in BOOLEAN
    BY <1>19, Zenon DEF WorkerTypeOK, TickIsHeld, Defer, Waits
  <2> QED
    BY <1>19, <2>1 DEF WorkerTypeOK, TickIsHeld, Defer, Waits
<1>20. CASE TickDone
  <2>1. syncing' \in BOOLEAN
    BY <1>20, Zenon DEF WorkerTypeOK, TickDone, Goes
  <2> QED
    BY <1>20, <2>1 DEF WorkerTypeOK, TickDone, Goes
<1>21. CASE StartPump
  BY <1>21 DEF WorkerTypeOK, StartPump, Goes
<1>22. CASE PumpEnds
  <2>1. page' \in BOOLEAN /\ deadline' \in BOOLEAN
    BY <1>22, Zenon DEF WorkerTypeOK, PumpEnds
  <2> QED
    BY <1>22, <2>1 DEF WorkerTypeOK, PumpEnds
<1>23. CASE DrainLooks
  <2>1. networkSeen' \in BOOLEAN /\ deadline' \in BOOLEAN
    BY <1>23, Zenon DEF WorkerTypeOK, DrainLooks, Goes
  <2> QED
    BY <1>23, <2>1 DEF WorkerTypeOK, DrainLooks, Goes
<1>24. CASE DrainCounts
  BY <1>24 DEF WorkerTypeOK, DrainCounts, Goes
<1>25. CASE Register
  <2>1. drainWoken' \in BOOLEAN
    BY <1>25, Zenon DEF WorkerTypeOK, Register, Goes
  <2> QED
    BY <1>25, <2>1 DEF WorkerTypeOK, Register, Goes
<1>26. CASE DrainEnds
  <2>1. deadline' \in BOOLEAN /\ drainWoken' \in BOOLEAN /\ rerun' \in BOOLEAN /\ queued' \in
    BOOLEAN /\ backoff' \in BOOLEAN
    BY <1>26, Zenon DEF WorkerTypeOK, DrainEnds
  <2> QED
    BY <1>26, <2>1 DEF WorkerTypeOK, DrainEnds
<1>27. CASE Settle
  <2>1. deadline' \in BOOLEAN
    BY <1>27, Zenon DEF WorkerTypeOK, Settle
  <2> QED
    BY <1>27, <2>1 DEF WorkerTypeOK, Settle
<1>28. CASE Woken
  <2>1. deadline' \in BOOLEAN
    BY <1>28, Zenon DEF WorkerTypeOK, Woken
  <2> QED
    BY <1>28, <2>1 DEF WorkerTypeOK, Woken
<1>29. CASE Wake
  BY <1>29 DEF WorkerTypeOK, Wake
<1>30. CASE WakeDownloads
  <2>1. signalled' \in BOOLEAN /\ drainWoken' \in BOOLEAN /\ backoff' \in BOOLEAN
    BY <1>30, Zenon DEF WorkerTypeOK, WakeDownloads
  <2> QED
    BY <1>30, <2>1 DEF WorkerTypeOK, WakeDownloads
<1>31. CASE PairingBegins
  BY <1>31 DEF WorkerTypeOK, PairingBegins, Others
<1>32. CASE PairingAnswered
  <2>1. busy' \in BOOLEAN
    BY <1>32, Zenon DEF WorkerTypeOK, PairingAnswered, Others
  <2> QED
    BY <1>32, <2>1 DEF WorkerTypeOK, PairingAnswered, Others
<1>33. CASE PairingCommits
  <2>1. busy' \in BOOLEAN
    BY <1>33, Zenon DEF WorkerTypeOK, PairingCommits, Others
  <2> QED
    BY <1>33, <2>1 DEF WorkerTypeOK, PairingCommits, Others
<1>34. CASE PairingPolls
  BY <1>34 DEF WorkerTypeOK, PairingPolls, Others
<1>35. CASE PairingSuperseded
  <2>1. busy' \in BOOLEAN
    BY <1>35, Zenon DEF WorkerTypeOK, PairingSuperseded, Others
  <2> QED
    BY <1>35, <2>1 DEF WorkerTypeOK, PairingSuperseded, Others
<1>36. CASE PairingLeaves
  BY <1>36 DEF WorkerTypeOK, PairingLeaves, Others
<1>37. CASE RequestSync
  BY <1>37 DEF WorkerTypeOK, RequestSync, Command, CancelDrain
<1>38. CASE SetEnabled
  <2>1. enabled' \in BOOLEAN /\ tls' \in BOOLEAN
    BY <1>38, Zenon DEF WorkerTypeOK, SetEnabled, Command
  <2> QED
    BY <1>38, <2>1 DEF WorkerTypeOK, SetEnabled, Command
<1>39. CASE TakeRestore
  BY <1>39 DEF WorkerTypeOK, TakeRestore, Command, CancelDrain
<1>40. CASE CancelKeepLocal
  <2>1. keepHeld' \in BOOLEAN /\ heldDue' \in BOOLEAN
    BY <1>40, Zenon DEF WorkerTypeOK, CancelKeepLocal
  <2> QED
    BY <1>40, <2>1 DEF WorkerTypeOK, CancelKeepLocal
<1>41. CASE Enqueue
  BY <1>41 DEF WorkerTypeOK, Enqueue, Command
<1>42. CASE Dequeue
  <2>1. queued' \in BOOLEAN
    BY <1>42, Zenon DEF WorkerTypeOK, Dequeue, Command, CancelDrain
  <2> QED
    BY <1>42, <2>1 DEF WorkerTypeOK, Dequeue, Command, CancelDrain
<1>43. CASE ListNext
  BY <1>43 DEF WorkerTypeOK, ListNext, Command
<1>44. CASE StartPairing
  BY <1>44 DEF WorkerTypeOK, StartPairing, Others
<1>45. CASE AbandonPairing
  BY <1>45 DEF WorkerTypeOK, AbandonPairing, Others
<1>46. CASE Acknowledge
  BY <1>46 DEF WorkerTypeOK, Acknowledge, Still, Quiet
<1>47. CASE MinimumAwake
  <2>1. suspended' \in BOOLEAN /\ late' \in BOOLEAN /\ signalled' \in BOOLEAN
    BY <1>47, Zenon DEF WorkerTypeOK, MinimumAwake, Still
  <2> QED
    BY <1>47, <2>1 DEF WorkerTypeOK, MinimumAwake, Still
<1>48. CASE SleepReady
  <2>1. late' \in BOOLEAN /\ suspended' \in BOOLEAN /\ signalled' \in BOOLEAN /\ tickCancel' \in
    BOOLEAN
    BY <1>48, Zenon DEF WorkerTypeOK, SleepReady, Still, CancelDrain, CancelTick
  <2> QED
    BY <1>48, <2>1 DEF WorkerTypeOK, SleepReady, Still, CancelDrain, CancelTick
<1>49. CASE Stop
  BY <1>49 DEF WorkerTypeOK, Stop, Still, CancelDrain, CancelTick
<1>50. CASE GameOpens
  BY <1>50 DEF WorkerTypeOK, GameOpens, Quietly
<1>51. CASE GameCloses
  <2>1. game' \in BOOLEAN
    BY <1>51, Zenon DEF WorkerTypeOK, GameCloses, Quietly
  <2> QED
    BY <1>51, <2>1 DEF WorkerTypeOK, GameCloses, Quietly
<1>52. CASE TimerElapses
  <2>1. due' \in BOOLEAN /\ backoff' \in BOOLEAN
    BY <1>52, Zenon DEF WorkerTypeOK, TimerElapses, Quietly
  <2> QED
    BY <1>52, <2>1 DEF WorkerTypeOK, TimerElapses, Quietly
<1>53. CASE HeldPollDue
  BY <1>53 DEF WorkerTypeOK, HeldPollDue
<1>54. CASE UNCHANGED workerVars
  BY <1>54 DEF WorkerTypeOK, workerVars
<1> QED
  BY <1>1, <1>2, <1>3, <1>4, <1>5, <1>6, <1>7, <1>8, <1>9, <1>10, <1>11, <1>12, <1>13, <1>14,
    <1>15, <1>16, <1>17, <1>18, <1>19, <1>20, <1>21, <1>22, <1>23, <1>24, <1>25, <1>26, <1>27,
    <1>28, <1>29, <1>30, <1>31, <1>32, <1>33, <1>34, <1>35, <1>36, <1>37, <1>38, <1>39, <1>40,
    <1>41, <1>42, <1>43, <1>44, <1>45, <1>46, <1>47, <1>48, <1>49, <1>50, <1>51, <1>52, <1>53,
    <1>54 DEF WorkerNext, WorkerStep, IpcWakes, PairingStep, Commands, PowerStep

(* What a sleep or a shutdown finds in flight has been told, and what has    *)
(* been acknowledged stays quiet, whichever thread moves.                   *)
LEMMA WorkerToldStep ==
    ASSUME WorkerInv, [WorkerNext]_workerVars
    PROVE  Told'
<1> USE DEF BusyIsAsking, AsleepIsSuspended, AsleepIsQuiet, Awake, DrainHasToken, StoppedIsTold,
  Quiet, WorkerInv, Told
<1>1. CASE NetworkUp
  BY <1>1 DEF NetworkUp
<1>2. CASE NetworkGivenUp
  BY <1>2 DEF NetworkGivenUp
<1>3. CASE NetworkRestore
  BY <1>3 DEF NetworkRestore, Goes
<1>4. CASE Leave
  BY <1>4 DEF Leave, Goes
<1>5. CASE Park
  BY <1>5 DEF Park, Goes
<1>6. CASE Unpark
  BY <1>6 DEF Unpark, Goes
<1>7. CASE StartRestore
  BY <1>7 DEF StartRestore, Goes
<1>8. CASE RestoreEnds
  BY <1>8 DEF RestoreEnds, Goes
<1>9. CASE AskHeld
  BY <1>9 DEF AskHeld, Goes
<1>10. CASE HeldIsFree
  BY <1>10 DEF HeldIsFree, Goes
<1>11. CASE HeldStaysHeld
  BY <1>11 DEF HeldStaysHeld, Poll, PollDisabled, PollOnDemand, PollHeld, PollRerun, PollBoot,
    PollTimer, Runs, Waits
<1>12. CASE Land
  BY <1>12 DEF Land, Goes
<1>13. CASE Decide
  BY <1>13 DEF Decide, Poll, PollDisabled, PollOnDemand, PollHeld, PollRerun, PollBoot, PollTimer,
    Runs, Waits
<1>14. CASE TickWaitsForGame
  BY <1>14 DEF TickWaitsForGame, Defer, Waits
<1>15. CASE TickMayRun
  BY <1>15 DEF TickMayRun, Goes
<1>16. CASE LandAheadOfTick
  BY <1>16 DEF LandAheadOfTick, Goes
<1>17. CASE StartTick
  BY <1>17 DEF StartTick, Goes
<1>18. CASE TickEnds
  BY <1>18 DEF TickEnds, Goes, ClaimInstalls, TickRan, TickFailed, TickRescans, TickCancelled,
    TickFoundDisabled
<1>19. CASE TickIsHeld
  BY <1>19 DEF TickIsHeld, Defer, Waits
<1>20. CASE TickDone
  BY <1>20 DEF TickDone, Goes
<1>21. CASE StartPump
  BY <1>21 DEF StartPump, Goes
<1>22. CASE PumpEnds
  BY <1>22 DEF PumpEnds
<1>23. CASE DrainLooks
  BY <1>23 DEF DrainLooks, Goes
<1>24. CASE DrainCounts
  BY <1>24 DEF DrainCounts, Goes
<1>25. CASE Register
  BY <1>25 DEF Register, Goes
<1>26. CASE DrainEnds
  BY <1>26 DEF DrainEnds
<1>27. CASE Settle
  BY <1>27 DEF Settle
<1>28. CASE Woken
  BY <1>28 DEF Woken
<1>29. CASE Wake
  BY <1>29 DEF Wake
<1>30. CASE WakeDownloads
  BY <1>30 DEF WakeDownloads
<1>31. CASE PairingBegins
  BY <1>31 DEF PairingBegins, Others
<1>32. CASE PairingAnswered
  BY <1>32 DEF PairingAnswered, Others
<1>33. CASE PairingCommits
  BY <1>33 DEF PairingCommits, Others
<1>34. CASE PairingPolls
  BY <1>34 DEF PairingPolls, Others
<1>35. CASE PairingSuperseded
  BY <1>35 DEF PairingSuperseded, Others
<1>36. CASE PairingLeaves
  BY <1>36 DEF PairingLeaves, Others
<1>37. CASE RequestSync
  BY <1>37 DEF RequestSync, Command, CancelDrain
<1>38. CASE SetEnabled
  BY <1>38 DEF SetEnabled, Command
<1>39. CASE TakeRestore
  BY <1>39 DEF TakeRestore, Command, CancelDrain
<1>40. CASE CancelKeepLocal
  BY <1>40 DEF CancelKeepLocal
<1>41. CASE Enqueue
  BY <1>41 DEF Enqueue, Command
<1>42. CASE Dequeue
  BY <1>42 DEF Dequeue, Command, CancelDrain
<1>43. CASE ListNext
  BY <1>43 DEF ListNext, Command
<1>44. CASE StartPairing
  BY <1>44 DEF StartPairing, Others
<1>45. CASE AbandonPairing
  BY <1>45 DEF AbandonPairing, Others
<1>46. CASE Acknowledge
  BY <1>46 DEF Acknowledge, Still
<1>47. CASE MinimumAwake
  BY <1>47 DEF MinimumAwake, Still
<1>48. CASE SleepReady
  BY <1>48 DEF SleepReady, Still, CancelDrain, CancelTick
<1>49. CASE Stop
  BY <1>49 DEF Stop, Still, CancelDrain, CancelTick
<1>50. CASE GameOpens
  BY <1>50 DEF GameOpens, Quietly
<1>51. CASE GameCloses
  BY <1>51 DEF GameCloses, Quietly
<1>52. CASE TimerElapses
  BY <1>52 DEF TimerElapses, Quietly
<1>53. CASE HeldPollDue
  BY <1>53 DEF HeldPollDue
<1>54. CASE UNCHANGED workerVars
  BY <1>54 DEF workerVars
<1> QED
  BY <1>1, <1>2, <1>3, <1>4, <1>5, <1>6, <1>7, <1>8, <1>9, <1>10, <1>11, <1>12, <1>13, <1>14,
    <1>15, <1>16, <1>17, <1>18, <1>19, <1>20, <1>21, <1>22, <1>23, <1>24, <1>25, <1>26, <1>27,
    <1>28, <1>29, <1>30, <1>31, <1>32, <1>33, <1>34, <1>35, <1>36, <1>37, <1>38, <1>39, <1>40,
    <1>41, <1>42, <1>43, <1>44, <1>45, <1>46, <1>47, <1>48, <1>49, <1>50, <1>51, <1>52, <1>53,
    <1>54 DEF WorkerNext, WorkerStep, IpcWakes, PairingStep, Commands, PowerStep

(* WorkerInv holds in every reachable state.                               *)
THEOREM WorkerInvariance == WorkerSpec => []WorkerInv
<1>1. WorkerInv /\ [WorkerNext]_workerVars => WorkerInv'
  BY WorkerTypeStep, WorkerToldStep DEF WorkerInv, Told
<1> QED
  BY WorkerBegins, <1>1, PTL DEF WorkerSpec

(* Every variable the threads share keeps its type; the rescans among them   *)
(* stay within their bound.                                                 *)
THEOREM WorkerTypeCorrect == WorkerSpec => []WorkerTypeOK
<1>1. WorkerInv => WorkerTypeOK
  BY DEF WorkerInv
<1> QED
  BY <1>1, WorkerInvariance, PTL

(* Quiesce: a sleep acknowledged inside its budget finds, and keeps, nothing *)
(* in flight on the worker or the pairing thread.                           *)
THEOREM AcknowledgedIsQuiet == WorkerSpec => []AckMeansQuiet
<1>1. WorkerInv => AckMeansQuiet
  BY DEF WorkerInv, AckMeansQuiet, InFlight, AsleepIsQuiet, Quiet, BusyIsAsking
<1> QED
  BY <1>1, WorkerInvariance, PTL

(* StartTick and RunOneDrain: no tick and no drain runs on under a sleep or  *)
(* a shutdown without its token fired.                                      *)
THEOREM EverythingIsTold == WorkerSpec => []StoppedIsTold
<1>1. WorkerInv => StoppedIsTold
  BY DEF WorkerInv
<1> QED
  BY <1>1, WorkerInvariance, PTL

=============================================================================
