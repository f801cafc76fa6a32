----------------------------- MODULE Credentials -----------------------------
(***************************************************************************)
(* The console's credentials: token.dat, auth.json and config.ini on the   *)
(* card, the copies the engine keeps of them, and the four paths that      *)
(* change them: a change of server (ApplyConfigEdit), Unpair, a grant      *)
(* (CommitGrant) and the answers that close the gate (ObserveAnswer).      *)
(*                                                                         *)
(* card_mutex_ is held for the whole of each path, so one program counter, *)
(* pc, serves its holder.  mutex_ is taken in slices; a slice is a step.   *)
(* A call on the card is a step too, may be refused, and is lost to a      *)
(* power cut until the folder has been synced: hist holds every card a cut *)
(* may leave.  All requests that carry the token are made by the worker.   *)
(***************************************************************************)
EXTENDS Integers, FiniteSets

CONSTANTS
    Servers,      \* the addresses a [server] url may hold
    None,         \* no file, no token, no attempt, no address
    Junk,         \* a file overwritten with zeroes and not unlinked
    Budget,       \* GateConfig::max_consecutive_rejections
    MaxAttempts,  \* bound: pairings begun
    MaxEdits,     \* bound: edits of the configuration and Unpairs
    MaxFaults,    \* bound: refused calls
    MaxCuts       \* bound: power cuts

ASSUME ValuesAssumption ==
    /\ None \notin Servers /\ Junk \notin Servers /\ None # Junk
    /\ None \notin [server : Servers, id : Nat] /\ Junk \notin [server : Servers, id : Nat]
    /\ {None, Junk} \cap {"revoked", "scope_denied"} = {}

ASSUME BoundsAssumption ==
    /\ Budget \in Nat /\ Budget > 0
    /\ MaxAttempts \in Nat /\ MaxEdits \in Nat /\ MaxFaults \in Nat /\ MaxCuts \in Nat

VARIABLES
    card,      \* the three records: each a file and the `.old` beside it
    hist,      \* every card a power cut may leave
    pc,        \* what the holder of card_mutex_ is doing, "free" when nobody holds it
    step,      \* where its call into atomic_file is, "done" when it has returned
    good,      \* what that call answered
    body,      \* what is being written
    config,    \* config_: the address in force
    token,     \* token_ and list_token_
    auth,      \* auth_
    gate,      \* gate_
    attempt,   \* attempt_
    driven,    \* driven_: the attempt the pairing thread has
    ppc,       \* where the pairing thread is
    ask,       \* the worker's request in flight, with what it copied
    persist,   \* the verdict ObserveAnswer has reached and not yet written
    kept,      \* ghost: the newest token the card is known to hold
    about,     \* ghost: whose rejections are in the gate's count
    restored,  \* ghost: the gate's verdict came off the card
    attempts, edits, faults, cuts

disk == <<card, hist>>
call == <<pc, step, good, body>>
pairing == <<driven, ppc>>
worker == <<ask, persist>>
standing == <<auth, gate, about, restored>>
bounds == <<attempts, edits, cuts>>
vars == <<card, hist, pc, step, good, body, config, token, auth, gate, attempt, driven, ppc, ask,
          persist, kept, about, restored, attempts, edits, faults, cuts>>

Files == {"token", "auth", "config"}
Blocks == {"revoked", "scope_denied"}
AuthStates == {"never_paired", "paired", "unauthenticated"}
Answers == {"accepted", "rejected", "forbidden", "silent"}
(* A pairing and the token it is granted go by one name.                    *)
Tokens == [server : Servers, id : 1 .. MaxAttempts]
Urls == Servers \cup {None}

Discards == {"editDiscard", "unpairDiscard"}
Clears == {"editClear", "unpairClear", "commitClear"}
Writes == {"editWrite", "editKeep", "commitSave", "observeSave"}
Slices == {"editForget", "editReset", "editNever", "editAdopt", "unpairSlice", "commitSlice"}
Pcs == {"free"} \cup Discards \cup Clears \cup Writes \cup Slices
Steps == {"none", "stage", "dropOld", "moveAside", "swap", "publish", "tidy", "sync",
          "shred", "shredOld", "done"}
IpcBusy == pc \in {"editDiscard", "unpairDiscard", "editClear", "unpairClear", "editWrite",
                   "editKeep", "editForget", "editReset", "editNever", "editAdopt", "unpairSlice"}

-----------------------------------------------------------------------------
(* What the three records say.                                              *)

(* ReadConfigText and LoadConfig: the file, or its `.old` when it is gone.  *)
Url(c) == IF c["config"].main # None THEN c["config"].main ELSE c["config"].old

(* LoadToken: the record, or its `.old` when it is missing or malformed.    *)
LoadToken(c) ==
    IF c["token"].main \in Tokens THEN c["token"].main
    ELSE IF c["token"].old \in Tokens THEN c["token"].old
    ELSE None

(* LoadBlock: the `.old` only when the file is missing.                     *)
LoadBlock(c) ==
    LET said == IF c["auth"].main # None THEN c["auth"].main ELSE c["auth"].old
    IN  IF said \in Blocks THEN said ELSE "none"

(* The file the call in progress is about.                                  *)
File == IF pc \in Discards \cup {"commitSave"} THEN "token"
        ELSE IF pc \in Clears \cup {"observeSave"} THEN "auth"
        ELSE "config"

-----------------------------------------------------------------------------
(* The gate.                                                                *)

Reset == [rev |-> 0, den |-> 0, block |-> "none"]

Restore(b) == [rev |-> IF b = "revoked" THEN Budget ELSE 0,
               den |-> IF b = "scope_denied" THEN Budget ELSE 0,
               block |-> b]

(* Mutant: a blocked gate goes on counting.                                *)
ObserveUncapped(g, answer) ==
    LET rev == IF answer = "rejected" THEN g.rev + 1 ELSE g.rev
        den == IF answer = "forbidden" THEN g.den + 1 ELSE g.den
    IN  IF answer = "silent" THEN g
        ELSE IF answer = "accepted" THEN [rev |-> 0, den |-> 0, block |-> g.block]
        ELSE [rev |-> rev, den |-> den,
              block |-> IF rev + den < Budget THEN "none"
                        ELSE IF rev >= den THEN "revoked" ELSE "scope_denied"]

(* Gate::Observe: one budget for both kinds, the majority names the verdict,*)
(* and an acceptance clears the count and never the verdict.                *)
Observe(g, answer) ==
    LET rev == IF answer = "rejected" THEN g.rev + 1 ELSE g.rev
        den == IF answer = "forbidden" THEN g.den + 1 ELSE g.den
    IN  IF answer = "silent" THEN g
        ELSE IF answer = "accepted" THEN [rev |-> 0, den |-> 0, block |-> g.block]
        ELSE IF g.block # "none" THEN g
        ELSE [rev |-> rev, den |-> den,
              block |-> IF rev + den < Budget THEN "none"
                        ELSE IF rev >= den THEN "revoked" ELSE "scope_denied"]

-----------------------------------------------------------------------------
Init ==
    /\ \E url \in Urls :
          /\ card = [f \in Files |-> [main |-> IF f = "config" THEN url ELSE None, old |-> None]]
          /\ config = url
    /\ hist = {card}
    /\ pc = "free" /\ step = "none" /\ good = TRUE /\ body = None
    /\ token = None /\ auth = "never_paired" /\ gate = Reset
    /\ attempt = None /\ driven = None /\ ppc = "idle"
    /\ ask = None /\ persist = "none"
    /\ kept = None /\ about = {} /\ restored = FALSE
    /\ attempts = 0 /\ edits = 0 /\ faults = 0 /\ cuts = 0

Refused == faults < MaxFaults /\ faults' = faults + 1
Granted == faults' = faults

(* The card after a call that changed the record f.                         *)
Put(f, main, old) ==
    /\ card' = [card EXCEPT ![f] = [main |-> main, old |-> old]]
    /\ hist' = hist \cup {card'}

Returns(answer) == step' = "done" /\ good' = answer

-----------------------------------------------------------------------------
(* io::WriteAtomically, on the file of the call in progress.                *)

(* WriteStaged: the temp file is written, flushed and synced.               *)
WriteStaged ==
    /\ step = "stage"
    /\ \/ /\ Granted
          /\ step' = IF card[File].main # None THEN "dropOld" ELSE "publish"
          /\ good' = good
       \/ Refused /\ Returns(FALSE)
    /\ UNCHANGED <<disk, pc, body, config, token, standing, attempt, pairing, worker, kept, bounds>>

(* CommitStaged: a stale `.old` has to go before the record is moved aside. *)
DropPrevious ==
    /\ step = "dropOld"
    /\ \/ Granted /\ Put(File, card[File].main, None)
       \/ Refused /\ UNCHANGED disk
    /\ step' = "moveAside"
    /\ UNCHANGED <<pc, good, body, config, token, standing, attempt, pairing, worker, kept, bounds>>

(* A rename onto a name that exists is refused.                             *)
MoveAside ==
    /\ step = "moveAside"
    /\ \/ /\ card[File].old = None
          /\ Granted
          /\ Put(File, None, card[File].main)
          /\ step' = "swap" /\ good' = good
       \/ /\ card[File].old # None
          /\ Granted
          /\ UNCHANGED disk
          /\ Returns(FALSE)
       \/ Refused /\ UNCHANGED disk /\ Returns(FALSE)
    /\ UNCHANGED <<pc, body, config, token, standing, attempt, pairing, worker, kept, bounds>>

(* The staged body takes the name, or what was moved aside goes back, or    *)
(* that is refused as well.                                                 *)
Publish ==
    /\ step \in {"swap", "publish"}
    /\ \/ /\ Granted
          /\ Put(File, body, card[File].old)
          /\ step' = "tidy" /\ good' = good
       \/ /\ Refused
          /\ \/ step = "swap" /\ Put(File, card[File].old, None)
             \/ UNCHANGED disk
          /\ Returns(FALSE)
    /\ UNCHANGED <<pc, body, config, token, standing, attempt, pairing, worker, kept, bounds>>

TidyPrevious ==
    /\ step = "tidy"
    /\ \/ Granted /\ Put(File, card[File].main, None)
       \/ Refused /\ UNCHANGED disk
    /\ step' = "sync"
    /\ UNCHANGED <<pc, good, body, config, token, standing, attempt, pairing, worker, kept, bounds>>

(* The name is made durable; a refusal is not a failed write.               *)
SyncName ==
    /\ step = "sync"
    /\ \/ /\ Granted
          /\ hist' = {card}
          /\ kept' = IF pc = "commitSave" THEN body ELSE kept
       \/ Refused /\ UNCHANGED <<hist, kept>>
    /\ Returns(TRUE)
    /\ UNCHANGED <<card, pc, body, config, token, standing, attempt, pairing, worker, bounds>>

-----------------------------------------------------------------------------
(* io::Shred: zeroes over the bytes, then the unlink, of the file and then  *)
(* of its `.old`.                                                           *)

ShredMain ==
    /\ step = "shred"
    /\ LET zeroed == [card EXCEPT ![File].main = IF @ = None THEN None ELSE Junk]
           gone == [card EXCEPT ![File].main = None]
       IN  \/ /\ Granted
              /\ card' = gone
              /\ hist' = hist \cup {zeroed, gone}
              /\ good' = TRUE
           \/ /\ Refused
              /\ card[File].main # None
              /\ \/ card' = zeroed /\ hist' = hist \cup {zeroed}
                 \/ UNCHANGED disk
              /\ good' = FALSE
    /\ step' = "shredOld"
    /\ UNCHANGED <<pc, body, config, token, standing, attempt, pairing, worker, kept, bounds>>

ShredOld ==
    /\ step = "shredOld"
    /\ LET zeroed == [card EXCEPT ![File].old = IF @ = None THEN None ELSE Junk]
           gone == [card EXCEPT ![File].old = None]
       IN  \/ /\ Granted
              /\ card' = gone
              /\ hist' = hist \cup {zeroed, gone}
              /\ good' = good
           \/ /\ Refused
              /\ card[File].old # None
              /\ \/ card' = zeroed /\ hist' = hist \cup {zeroed}
                 \/ UNCHANGED disk
              /\ good' = FALSE
    /\ step' = "done"
    /\ UNCHANGED <<pc, body, config, token, standing, attempt, pairing, worker, kept, bounds>>

-----------------------------------------------------------------------------
(* The holder of card_mutex_ goes on to its next call, slice, or end.       *)

Calls(next, first) == pc' = next /\ step' = first /\ good' = TRUE
Slice(next) == pc' = next /\ step' = "none" /\ good' = TRUE
Release == pc' = "free" /\ step' = "none" /\ good' = TRUE
Returned(at) == pc = at /\ step = "done"

(* Mutant: compared with the configuration in force.                       *)
ServerChangedInMemory(url) == url # config

(* ApplyConfigEdit compares with the card, since config is empty when       *)
(* config.ini could not be read at boot.                                    *)
ServerChanged(url) == url # Url(card)

ConfigEdit(url) ==
    /\ pc = "free"
    /\ edits < MaxEdits
    /\ edits' = edits + 1
    /\ IF ServerChanged(url) THEN Calls("editDiscard", "shred") ELSE Calls("editKeep", "stage")
    /\ body' = url
    /\ kept' = IF url # Url(card) THEN None ELSE kept
    /\ UNCHANGED <<disk, config, token, standing, attempt, pairing, worker, attempts, faults, cuts>>

(* Mutant: the answer of the discard is not read.                          *)
EditDiscardUnasked ==
    /\ Returned("editDiscard")
    /\ Slice("editForget")
    /\ UNCHANGED <<disk, body, config, token, standing, attempt, pairing, worker, kept, bounds, faults>>

(* A token that would not go is a refused edit.                             *)
EditDiscarded ==
    /\ Returned("editDiscard")
    /\ IF good THEN Slice("editForget") ELSE Release
    /\ UNCHANGED <<disk, body, config, token, standing, attempt, pairing, worker, kept, bounds, faults>>

(* AbandonPairingLocked, and the copies in memory; the drain is cancelled.  *)
EditForgets ==
    /\ pc = "editForget"
    /\ attempt' = None
    /\ token' = None
    /\ Calls("editClear", "shred")
    /\ UNCHANGED <<disk, body, config, standing, pairing, worker, kept, bounds, faults>>

EditCleared ==
    /\ Returned("editClear")
    /\ Slice("editReset")
    /\ UNCHANGED <<disk, body, config, token, standing, attempt, pairing, worker, kept, bounds, faults>>

EditResets ==
    /\ pc = "editReset"
    /\ gate' = Reset /\ about' = {} /\ restored' = FALSE
    /\ Calls("editWrite", "stage")
    /\ UNCHANGED <<disk, body, config, token, auth, attempt, pairing, worker, kept, bounds, faults>>

(* The write failed: the pairing is gone and the server did not change.     *)
EditUnwritten ==
    /\ pc \in {"editWrite", "editKeep"} /\ step = "done" /\ ~good
    /\ auth' = IF pc = "editWrite" THEN "never_paired" ELSE auth
    /\ Release
    /\ UNCHANGED <<disk, body, config, token, gate, about, restored, attempt, pairing, worker, kept,
                   bounds, faults>>

EditWritten ==
    /\ pc \in {"editWrite", "editKeep"} /\ step = "done" /\ good
    /\ Slice(IF pc = "editWrite" THEN "editNever" ELSE "editAdopt")
    /\ UNCHANGED <<disk, body, config, token, standing, attempt, pairing, worker, kept, bounds, faults>>

EditUnpairs ==
    /\ pc = "editNever"
    /\ auth' = "never_paired"
    /\ Slice("editAdopt")
    /\ UNCHANGED <<disk, body, config, token, gate, about, restored, attempt, pairing, worker, kept,
                   bounds, faults>>

(* AdoptConfigLocked.                                                       *)
EditAdopts ==
    /\ pc = "editAdopt"
    /\ config' = body
    /\ Release
    /\ UNCHANGED <<disk, body, token, standing, attempt, pairing, worker, kept, bounds, faults>>

-----------------------------------------------------------------------------
(* Unpair.  It does not abandon an attempt.                                 *)

Unpair ==
    /\ pc = "free"
    /\ edits < MaxEdits
    /\ edits' = edits + 1
    /\ Calls("unpairDiscard", "shred")
    /\ kept' = None
    /\ UNCHANGED <<disk, body, config, token, standing, attempt, pairing, worker, attempts, faults, cuts>>

UnpairDiscarded ==
    /\ Returned("unpairDiscard")
    /\ IF good THEN Calls("unpairClear", "shred") ELSE Release
    /\ UNCHANGED <<disk, body, config, token, standing, attempt, pairing, worker, kept, bounds, faults>>

UnpairCleared ==
    /\ Returned("unpairClear")
    /\ Slice("unpairSlice")
    /\ UNCHANGED <<disk, body, config, token, standing, attempt, pairing, worker, kept, bounds, faults>>

UnpairSlice ==
    /\ pc = "unpairSlice"
    /\ gate' = Reset /\ about' = {} /\ restored' = FALSE
    /\ auth' = "never_paired"
    /\ token' = None
    /\ Release
    /\ UNCHANGED <<disk, body, config, attempt, pairing, worker, kept, bounds, faults>>

-----------------------------------------------------------------------------
(* Pairing.                                                                 *)

(* StartPairing takes mutex_ alone: it may land inside a commit.            *)
StartPairing ==
    /\ ~IpcBusy
    /\ config # None
    /\ attempts < MaxAttempts
    /\ attempts' = attempts + 1
    /\ attempt' = [server |-> config, id |-> attempts']
    /\ UNCHANGED <<disk, call, config, token, standing, pairing, worker, kept, edits, faults, cuts>>

(* DrivePairing picks up the attempt of the moment.                         *)
PairingTakes ==
    /\ ppc = "idle"
    /\ driven # attempt
    /\ driven' = attempt
    /\ ppc' = IF attempt = None THEN "idle" ELSE "polling"
    /\ UNCHANGED <<disk, call, config, token, standing, attempt, worker, kept, bounds, faults>>

(* Denied, expired, failed or superseded.                                   *)
PairingEnds ==
    /\ ppc = "polling"
    /\ ppc' = "idle"
    /\ UNCHANGED <<disk, call, config, token, standing, attempt, driven, worker, kept, bounds, faults>>

PairingApproved ==
    /\ ppc = "polling"
    /\ ppc' = "granted"
    /\ UNCHANGED <<disk, call, config, token, standing, attempt, driven, worker, kept, bounds, faults>>

(* CommitGrant: whether the attempt still stands is asked under the card    *)
(* lock.                                                                    *)
CommitBegins ==
    /\ ppc = "granted"
    /\ pc = "free"
    /\ IF attempt = driven
       THEN Calls("commitSave", "stage") /\ body' = driven /\ ppc' = "saving"
       ELSE UNCHANGED call /\ ppc' = "idle"
    /\ UNCHANGED <<disk, config, token, standing, attempt, driven, worker, kept, bounds, faults>>

CommitSaved ==
    /\ Returned("commitSave")
    /\ IF good THEN Calls("commitClear", "shred") /\ ppc' = ppc ELSE Release /\ ppc' = "idle"
    /\ UNCHANGED <<disk, body, config, token, standing, attempt, driven, worker, kept, bounds, faults>>

(* A verdict that would not go is left for the next boot.                   *)
CommitCleared ==
    /\ Returned("commitClear")
    /\ Slice("commitSlice")
    /\ UNCHANGED <<disk, body, config, token, standing, attempt, pairing, worker, kept, bounds, faults>>

(* Mutant: the count is not reset.                                         *)
CommitSliceCounting ==
    /\ pc = "commitSlice"
    /\ gate' = [gate EXCEPT !.block = "none"] /\ about' = about /\ restored' = FALSE
    /\ auth' = "paired"
    /\ token' = driven
    /\ ppc' = "idle"
    /\ Release
    /\ UNCHANGED <<disk, body, config, attempt, driven, worker, kept, bounds, faults>>

CommitSlice ==
    /\ pc = "commitSlice"
    /\ gate' = Reset /\ about' = {} /\ restored' = FALSE
    /\ auth' = "paired"
    /\ token' = driven
    /\ ppc' = "idle"
    /\ Release
    /\ UNCHANGED <<disk, body, config, attempt, driven, worker, kept, bounds, faults>>

-----------------------------------------------------------------------------
(* The worker's requests.                                                   *)

Request(kind, url, bearer, stage) == [kind |-> kind, url |-> url, token |-> bearer, stage |-> stage]

(* StartTick reads the configuration before it takes mutex_ ...             *)
TickReadsConfig ==
    /\ ask = None
    /\ ask' = Request("tick", config, None, "config")
    /\ UNCHANGED <<disk, call, config, token, standing, attempt, pairing, persist, kept, bounds, faults>>

(* ... and the token and the gate under it.                                 *)
TickReadsToken ==
    /\ ask # None /\ ask.stage = "config"
    /\ ask' = IF gate.block # "none" \/ token = None \/ ask.url = None
              THEN None ELSE Request("tick", ask.url, token, "library")
    /\ UNCHANGED <<disk, call, config, token, standing, attempt, pairing, persist, kept, bounds, faults>>

(* Mutant: the address was read before the slice, as the tick's is.        *)
DrainStartsApart ==
    /\ ask # None /\ ask.stage = "config"
    /\ gate.block = "none" /\ token # None /\ ask.url # None
    /\ ask' = Request("drain", ask.url, token, "last")
    /\ UNCHANGED <<disk, call, config, token, standing, attempt, pairing, persist, kept, bounds, faults>>

(* DrainDownloads reads all of it in one slice.                             *)
DrainStarts ==
    /\ ask = None
    /\ gate.block = "none" /\ token # None /\ config # None
    /\ ask' = Request("drain", config, token, "last")
    /\ UNCHANGED <<disk, call, config, token, standing, attempt, pairing, persist, kept, bounds, faults>>

(* lists::Service::Pump asks neither the gate nor whether there is a token. *)
PageStarts ==
    /\ ask = None
    /\ config # None
    /\ ask' = Request("page", config, token, "last")
    /\ UNCHANGED <<disk, call, config, token, standing, attempt, pairing, persist, kept, bounds, faults>>

(* A library that was not read ends the tick; the states half follows the   *)
(* saves half unless its outcome rules it out.                              *)
After(stage, answer) ==
    CASE stage = "library" -> IF answer = "accepted" THEN {"saves"} ELSE {"end"}
      [] stage = "saves" -> {"states", "end"}
      [] OTHER -> {"end"}

(* ObserveAnswer's first slice.                                             *)
Answered(answer) ==
    /\ ask # None /\ ask.stage # "config"
    /\ persist = "none"
    /\ gate' = Observe(gate, answer)
    /\ about' = IF gate.block # "none" \/ answer = "silent" THEN about
                ELSE IF answer = "accepted" THEN {} ELSE about \cup {ask.token}
    /\ auth' = IF gate'.block # "none" THEN "unauthenticated" ELSE auth
    /\ persist' = IF gate.block = "none" THEN gate'.block ELSE "none"
    /\ \E stage \in After(ask.stage, answer) :
          ask' = IF stage = "end" THEN None ELSE [ask EXCEPT !.stage = stage]
    /\ UNCHANGED <<disk, call, config, token, restored, attempt, pairing, kept, bounds, faults>>

(* Mutant: the gate is not asked again under the card lock.                *)
PersistUnread ==
    /\ persist # "none"
    /\ pc = "free"
    /\ Calls("observeSave", "stage") /\ body' = persist /\ persist' = persist
    /\ UNCHANGED <<disk, config, token, standing, attempt, pairing, ask, kept, bounds, faults>>

(* ... and the file, under the card lock.  A gate reset in between has      *)
(* nothing to write.                                                        *)
PersistBegins ==
    /\ persist # "none"
    /\ pc = "free"
    /\ IF gate.block = "none"
       THEN UNCHANGED call /\ persist' = "none"
       ELSE Calls("observeSave", "stage") /\ body' = gate.block /\ persist' = persist
    /\ UNCHANGED <<disk, config, token, standing, attempt, pairing, ask, kept, bounds, faults>>

PersistEnds ==
    /\ Returned("observeSave")
    /\ Release
    /\ persist' = "none"
    /\ UNCHANGED <<disk, body, config, token, standing, attempt, pairing, ask, kept, bounds, faults>>

-----------------------------------------------------------------------------
(* The power goes and Load reads what is left; a file may refuse to open.   *)
Load(c, unread) ==
    LET verdict == IF "auth" \in unread THEN "none" ELSE LoadBlock(c)
        paired == c["token"].main # None
    IN  /\ card' = c /\ hist' = {c}
        /\ config' = IF "config" \in unread THEN None ELSE Url(c)
        /\ token' = IF "token" \in unread THEN None ELSE LoadToken(c)
        /\ gate' = IF paired THEN Restore(verdict) ELSE Reset
        /\ auth' = IF ~paired THEN "never_paired"
                   ELSE IF verdict # "none" THEN "unauthenticated" ELSE "paired"
        /\ about' = {} /\ restored' = (gate'.block # "none")
        /\ Release /\ body' = None
        /\ attempt' = None /\ driven' = None /\ ppc' = "idle"
        /\ ask' = None /\ persist' = "none"

PowerCut ==
    /\ cuts < MaxCuts
    /\ cuts' = cuts + 1
    /\ \E c \in hist :
          \/ Granted /\ Load(c, {})
          \/ Refused /\ \E f \in Files : Load(c, {f})
    /\ UNCHANGED <<kept, attempts, edits>>

CardStep == WriteStaged \/ DropPrevious \/ MoveAside \/ Publish \/ TidyPrevious \/ SyncName
            \/ ShredMain \/ ShredOld
EditStep == (\E url \in Servers : ConfigEdit(url)) \/ EditDiscarded \/ EditForgets \/ EditCleared
            \/ EditResets \/ EditUnwritten \/ EditWritten \/ EditUnpairs \/ EditAdopts
UnpairStep == Unpair \/ UnpairDiscarded \/ UnpairCleared \/ UnpairSlice
PairingStep == StartPairing \/ PairingTakes \/ PairingEnds \/ PairingApproved \/ CommitBegins
               \/ CommitSaved \/ CommitCleared \/ CommitSlice
WorkerStep == TickReadsConfig \/ TickReadsToken \/ DrainStarts \/ PageStarts
              \/ (\E answer \in Answers : Answered(answer)) \/ PersistBegins \/ PersistEnds

Next == CardStep \/ EditStep \/ UnpairStep \/ PairingStep \/ WorkerStep \/ PowerCut

Spec == Init /\ [][Next]_vars

-----------------------------------------------------------------------------
Record(contents) == [main : contents \cup {None}, old : contents \cup {None}]
CardOK(c) ==
    /\ DOMAIN c = Files
    /\ c["token"] \in Record(Tokens \cup {Junk})
    /\ c["auth"] \in Record(Blocks \cup {Junk})
    /\ c["config"] \in Record(Servers)
Gates == [rev : 0 .. Budget, den : 0 .. Budget, block : Blocks \cup {"none"}]
Requests == [kind : {"tick", "drain", "page"}, url : Urls, token : Tokens \cup {None},
             stage : {"config", "library", "saves", "states", "last"}]

(* The state has its type; in particular the gate's count never passes the  *)
(* budget it is compared with (Gate::Observe).                              *)
TypeOK ==
    /\ CardOK(card) /\ \A c \in hist : CardOK(c)
    /\ pc \in Pcs /\ step \in Steps /\ good \in BOOLEAN
    /\ config \in Urls
    /\ token \in Tokens \cup {None} /\ attempt \in Tokens \cup {None}
    /\ driven \in Tokens \cup {None} /\ kept \in Tokens \cup {None}
    /\ auth \in AuthStates
    /\ gate \in Gates /\ gate.rev + gate.den <= Budget
    /\ ppc \in {"idle", "polling", "granted", "saving"}
    /\ ask \in Requests \cup {None}
    /\ persist \in Blocks \cup {"none"}
    /\ about \subseteq Tokens \cup {None} /\ restored \in BOOLEAN
    /\ attempts \in 0 .. MaxAttempts /\ edits \in 0 .. MaxEdits
    /\ faults \in 0 .. MaxFaults /\ cuts \in 0 .. MaxCuts

(* What one recoverable card, and the engine, say of token and server.      *)
CardMatches(c) ==
    \A t \in {c["token"].main, c["token"].old} : t \in Tokens => t.server = Url(c)

(* No card a power cut may leave, at any point of a change of server or of  *)
(* a commit, holds a token of another server than the one it names, under   *)
(* any name LoadToken reads; nor does the engine (ApplyConfigEdit discards  *)
(* before it writes, CommitGrant asks under the card lock).                 *)
TokenIsItsServers ==
    /\ \A c \in hist : CardMatches(c)
    /\ token # None => config \in {token.server, None}

(* A drain and a list page send a token to the server that issued it, and   *)
(* to no other (DrainDownloads' one slice, Pump's one lock).  A tick reads  *)
(* the two apart.                                                           *)
SliceAsksItsServer ==
    ask # None /\ ask.kind \in {"drain", "page"} /\ ask.token # None => ask.url = ask.token.server

(* A pairing the card confirmed outlasts every refused call and power cut,  *)
(* and no cut brings back an older one, until the player unpairs or names   *)
(* another server (WriteAtomically's two renames, LoadToken's fallback,     *)
(* ApplyConfigEdit comparing with the card).                                *)
PairingSurvives ==
    kept # None => \A c \in hist : LoadToken(c) # None /\ LoadToken(c).id >= kept.id

(* While every call succeeds, auth.json says what the gate says whenever    *)
(* nobody holds the card lock and no verdict waits for it (ObserveAnswer    *)
(* asks the gate again under that lock).                                    *)
VerdictFileAgrees ==
    pc = "free" /\ faults = 0 /\ cuts = 0 /\ persist = "none" => LoadBlock(card) = gate.block

(* A verdict reached since boot over a token counts a rejection of that     *)
(* token: the answers still due to an older one cannot spend the budget     *)
(* (ObserveAnswer after CommitGrant's Reset).                               *)
VerdictIsEarned ==
    gate.block # "none" /\ ~restored /\ token # None => token \in about

(* "Load already declines to honour a verdict over a token it is not about" *)
(* (engine.cpp, CommitGrant): a boot that finds the grant a power cut caught*)
(* being committed is not blocked over it.  Does not hold: auth.json does   *)
(* not say which token it is about (Load).                                  *)
VerdictIsAboutItsToken ==
    [][ppc = "saving" /\ cuts' # cuts /\ token' = driven => gate'.block = "none"]_vars

-----------------------------------------------------------------------------
(* What the paths rely on from one call to the next, as one inductive       *)
(* invariant.                                                               *)

WriteSteps == {"stage", "dropOld", "moveAside", "swap", "publish", "tidy", "sync"}
Editing == {"editDiscard", "editForget", "editClear", "editReset", "editWrite", "editKeep",
            "editNever", "editAdopt"}
(* The edit has taken the token off the card ...                            *)
Discarded == {"editForget", "editClear", "editReset", "editWrite", "editNever"}
(* ... and out of memory.                                                   *)
Forgotten == Discarded \ {"editForget"}
Committing == {"commitSave", "commitClear", "commitSlice"}

StepFits ==
    /\ step \in WriteSteps => pc \in Writes
    /\ step \in {"shred", "shredOld"} => pc \in Discards \cup Clears
    /\ step = "done" => pc \in Writes \cup Discards \cup Clears
    /\ pc \in Slices \cup {"free"} => step = "none"

BodyFits ==
    /\ pc \in Editing => body \in Servers
    /\ pc = "commitSave" => body = driven
    /\ pc = "observeSave" => body \in Blocks
    /\ pc = "editKeep" => body = Url(card)
    /\ pc \in Committing => ppc = "saving" /\ driven.server = config
    /\ ppc # "idle" => driven # None

(* An open gate has budget left.                                            *)
GateFits == gate.block = "none" => gate.rev + gate.den < Budget

(* Where CommitStaged is, the names are as it left them.                    *)
NamesFit ==
    /\ step \in {"dropOld", "moveAside"} => card[File].main # None
    /\ step \in {"swap", "publish"} => card[File].main = None
    /\ step = "swap" => card[File].old # None
    /\ step \in {"tidy", "sync"} => card[File].main = body
    /\ pc \in Discards /\ step \in {"shredOld", "done"} /\ good => card["token"].main = None
    /\ pc \in Discards /\ step = "done" /\ good => card["token"].old = None
    /\ pc \in Discarded => card["token"].main = None /\ card["token"].old = None

(* The configuration in force, the attempt and the token are the card's     *)
(* server's, but where an edit has published and not yet adopted.           *)
Published ==
    \/ pc = "editWrite" /\ step \in {"tidy", "sync"}
    \/ pc = "editWrite" /\ step = "done" /\ good
    \/ pc = "editNever"
ConfigFits ==
    /\ ~Published /\ pc # "editAdopt" => config \in {None, Url(card)}
    /\ Published \/ pc = "editAdopt" => Url(card) = body
    /\ pc \in Forgotten => token = None /\ attempt = None
    /\ attempt # None => attempt.server = config /\ config = Url(card)
    /\ token # None => token.server = Url(card)

(* What the card holds while a confirmed pairing is kept, and which pairing *)
(* may replace it.                                                          *)
Holds(c) ==
    \/ c["token"].main \in Tokens /\ c["token"].main.id >= kept.id
    \/ c["token"].main = None /\ c["token"].old \in Tokens /\ c["token"].old.id >= kept.id
KeptFits ==
    /\ kept # None => /\ \A c \in hist : Holds(c)
                      /\ pc \notin Discards \cup Discarded
                      /\ kept.id <= attempts
    /\ attempt # None => attempt.id <= attempts
    /\ driven # None => driven.id <= attempts
    /\ attempt # None /\ driven # None => attempt.id >= driven.id
    /\ attempt # None /\ kept # None => attempt.id >= kept.id
    /\ driven # None /\ kept # None => driven.id >= kept.id

IInv ==
    /\ TypeOK
    /\ card \in hist
    /\ StepFits
    /\ BodyFits
    /\ GateFits
    /\ NamesFit
    /\ ConfigFits
    /\ TokenIsItsServers
    /\ SliceAsksItsServer
    /\ KeptFits

(* While every call succeeds: what auth.json says at each point of the calls*)
(* that erase it and of the one that writes it.  Elsewhere it says what the *)
(* gate says, and nothing while a verdict waits for the card lock.          *)
Emptied == {"editReset", "unpairSlice", "commitSlice"}
Faultless == faults = 0 /\ cuts = 0
AuthFits ==
    /\ card["auth"].main \in Blocks \cup {None} /\ card["auth"].old = None
    /\ pc \in Clears /\ step # "shred" => card["auth"].main = None
    /\ pc \in Emptied => card["auth"].main = None
    /\ pc = "observeSave" =>
          /\ persist # "none" /\ body = gate.block
          /\ step \in {"stage", "publish", "tidy", "sync", "done"}
          /\ card["auth"].main = IF step \in {"stage", "publish"} THEN None ELSE body
    /\ pc \notin Clears \cup Emptied \cup {"observeSave"} =>
          LoadBlock(card) = IF persist = "none" THEN gate.block ELSE "none"

(* The answers still due to the request in flight, where it carries another *)
(* token than the engine's.  Only they can count against a token that no    *)
(* answer has been about, and they are fewer than the budget.               *)
Due == IF ask = None \/ ask.token = token \/ ask.stage = "config" THEN 0
       ELSE IF ask.stage \in {"library", "saves"} THEN 2
       ELSE 1
EarnedFits ==
    token # None /\ ~restored /\ token \notin about =>
        gate.block = "none" /\ gate.rev + gate.den + Due <= 2

VInv == (Faultless => AuthFits) /\ EarnedFits
=============================================================================
