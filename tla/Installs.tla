------------------------------ MODULE Installs ------------------------------
(***************************************************************************)
(* Remote installs: what RomM's web UI queues for this console, claimed by *)
(* a tick into the download queue and reported back when its row has       *)
(* ended.  The queue is `DownloadBoard`, which `Downloads` implements.  The *)
(* worker's exchanges are steps of their own: the owner presses, changes   *)
(* the server and pairs between them, and what the worker keeps it keeps   *)
(* only if the server's generation did not move.                           *)
(***************************************************************************)
EXTENDS DownloadBoard, FiniteSets

CONSTANTS
    InstallRequests,        \* the ids of install requests, numbered in the order they are made
    ServerOf,        \* ServerOf[q]: the server q was made on
    RomOf,           \* RomOf[q]: the rom it asks for
    MaxClaims,       \* install::kMaxClaims
    MaxUpsets,       \* bound: exchanges that fail, cuts and changes of server
    MaxInstallTouches       \* bound: rows the owner takes out, requests the web user cancels

ASSUME InstallsAssumption ==
    /\ InstallRequests \subseteq Nat
    /\ MaxClaims \in Nat \ {0} /\ MaxUpsets \in Nat /\ MaxInstallTouches \in Nat
    /\ ServerOf \in [InstallRequests -> {"a", "b"}] /\ RomOf \in [InstallRequests -> Roms]

VARIABLES
    address,      \* [server] url in force
    paired,       \* there is a token for it
    wanted,       \* [downloads] enabled
    generation,   \* server_generation_, as far as a worker can tell two apart
    claims, abandoned, registered, refused,   \* install_*_
    requests,     \* requests[q] on its server
    told,         \* told[s]: the capability server s was last given
    job,          \* what the worker is doing, with what it captured
    upsets, installTouches

kept == <<claims, abandoned, registered, refused>>
remote == <<requests, told>>
console == <<address, paired, wanted, generation>>
installVars == <<boardVars, kept, remote, console, job, upsets, installTouches>>

Servers == {"a", "b"}
RequestState == {"none", "pending", "taken", "done", "already", "failed"}
Open == {"pending", "taken"}
Switch == {"unset", "on", "off"}
JobStep == {"idle", "drain", "tick", "register", "settle", "claim", "take", "hand_back"}

NoJob == [step |-> "idle", link |-> "a", on |-> FALSE, at |-> 0, since |-> 0, then |-> "idle",
          todo |-> {}, settled |-> {}, given_up |-> {}, tracked |-> {}]

InstallsTypeOK ==
    /\ address \in Servers /\ paired \in BOOLEAN /\ wanted \in BOOLEAN
    /\ generation \in 0..2 * MaxUpsets + 2
    /\ claims \subseteq InstallRequests /\ Cardinality(claims) <= MaxClaims
    /\ abandoned \subseteq InstallRequests /\ registered \in Switch /\ refused \in BOOLEAN
    /\ requests \in [InstallRequests -> RequestState] /\ told \in [Servers -> Switch]
    /\ job.step \in JobStep /\ job.link \in Servers /\ job.then \in JobStep
    /\ job.todo \subseteq InstallRequests /\ job.tracked \subseteq InstallRequests
    /\ upsets \in 0..MaxUpsets /\ installTouches \in 0..MaxInstallTouches

InstallsInit ==
    /\ board = [r \in Roms |-> "absent"] /\ readable = TRUE
    /\ address = "a" /\ paired = TRUE /\ wanted \in BOOLEAN /\ generation = 0
    /\ claims = {} /\ abandoned = {} /\ registered = "unset" /\ refused = FALSE
    /\ told \in [Servers -> Switch] /\ told["b"] = "unset"
    /\ requests \in [InstallRequests -> {"none", "pending", "taken"}]
    /\ \A q \in InstallRequests : requests[q] # "none" => told[ServerOf[q]] = "on"
    /\ job = NoJob /\ upsets = 0 /\ installTouches = 0

Upset == upsets < MaxUpsets /\ upsets' = upsets + 1
Smooth == UNCHANGED upsets
Touched == installTouches < MaxInstallTouches /\ installTouches' = installTouches + 1

Leaves == job' = NoJob

\* RecordIfCurrent: what is learned is kept unless the server changed since `at` was read.
RecordIfCurrent(at, Write) == IF generation = at THEN Write ELSE UNCHANGED kept

-----------------------------------------------------------------------------
(* The web user, the owner, the drain and the power.                        *)

WebQueues(q) ==
    /\ requests[q] = "none" /\ told[ServerOf[q]] = "on"
    /\ \A p \in InstallRequests : p < q => requests[p] # "none" \/ ServerOf[p] # ServerOf[q]
    /\ requests' = [requests EXCEPT ![q] = "pending"]
    /\ UNCHANGED <<boardVars, kept, told, console, job, upsets, installTouches>>

WebCancels(q) ==
    /\ requests[q] \in Open /\ Touched
    /\ requests' = [requests EXCEPT ![q] = "failed"]
    /\ UNCHANGED <<boardVars, kept, told, console, job, upsets>>

OwnerDequeues(r) ==
    /\ Withdraw(r) /\ Touched
    /\ UNCHANGED <<kept, remote, console, job, upsets>>

OwnerSwitches ==
    /\ Touched /\ wanted' = ~wanted
    /\ UNCHANGED <<boardVars, kept, remote, address, paired, generation, job, upsets>>

\* ForgetServerLocked.
ForgetServerLocked ==
    /\ generation' = generation + 1
    /\ claims' = {} /\ abandoned' = {} /\ registered' = "unset" /\ refused' = FALSE

\* The address is edited, which gives the token up; a pairing brings one for the new address.
ServerChanges ==
    /\ Upset /\ address = "a"
    /\ address' = "b" /\ paired' = FALSE
    /\ ForgetServerLocked
    /\ UNCHANGED <<boardVars, remote, wanted, job, installTouches>>

Pairs ==
    /\ ~paired /\ paired' = TRUE
    /\ ForgetServerLocked
    /\ UNCHANGED <<boardVars, remote, address, wanted, job, upsets, installTouches>>

\* Nothing of this outlives the process: the server holds what was taken.
Reboots ==
    /\ Upset
    /\ claims' = {} /\ abandoned' = {} /\ registered' = "unset" /\ refused' = FALSE
    /\ Leaves
    /\ UNCHANGED <<boardVars, remote, console, installTouches>>

\* A drain on the worker ends rows, and settles what it ended.
DrainStarts ==
    /\ job.step = "idle" /\ paired /\ wanted
    /\ \E r \in Roms : board[r] = "pending"
    /\ job' = [NoJob EXCEPT !.step = "drain", !.link = address]
    /\ UNCHANGED <<boardVars, kept, remote, console, upsets, installTouches>>

DrainEnds ==
    /\ job.step = "drain"
    /\ \/ \E r \in Roms, end \in Ends : End(r, end) /\ UNCHANGED job
       \/ /\ \A r \in Roms : board[r] # "pending"
          /\ job' = [job EXCEPT !.step = "settle", !.todo = claims, !.since = generation]
          /\ UNCHANGED boardVars
    /\ UNCHANGED <<kept, remote, console, upsets, installTouches>>

-----------------------------------------------------------------------------
(* ServeInstalls, on a tick.                                                *)

\* StartTick: the address, the token and the switch are captured; the library is read next.
TickStarts ==
    /\ job.step = "idle" /\ paired
    /\ job' = [NoJob EXCEPT !.step = "tick", !.link = address, !.on = wanted]
    /\ UNCHANGED <<boardVars, kept, remote, console, upsets, installTouches>>

SwitchFor(on) == IF on THEN "on" ELSE "off"

\* SettleInstalls begins: the claims and the generation are read in one slice.
Settling(then) ==
    [job EXCEPT !.step = "settle", !.then = then, !.todo = claims, !.since = generation]

\* ServeInstalls' first slice: is there anything to say, and is there anything to claim.
ServeInstalls ==
    /\ job.step = "tick"
    /\ \/ refused /\ Leaves
       \/ /\ ~refused /\ registered # SwitchFor(job.on)
          /\ job' = [job EXCEPT !.step = "register", !.at = generation]
       \/ /\ ~refused /\ registered = SwitchFor(job.on)
          /\ job' = IF job.on THEN [Settling("claim") EXCEPT !.at = generation] ELSE NoJob
    /\ UNCHANGED <<boardVars, kept, remote, console, upsets, installTouches>>

\* link.Register, and what its answer leaves.
Register ==
    /\ job.step = "register"
    /\ \/ /\ Smooth
          /\ told' = [told EXCEPT ![job.link] = SwitchFor(job.on)]
          /\ IF job.on
             THEN /\ RecordIfCurrent(job.at, registered' = "on" /\ UNCHANGED <<claims, abandoned, refused>>)
                  /\ job' = Settling("claim")
             ELSE /\ UNCHANGED kept
                  /\ job' = Settling("hand_back")
       \/ Upset /\ Leaves /\ UNCHANGED <<kept, told>>                 \* transient
       \/ /\ Upset /\ Leaves /\ UNCHANGED told                        \* refused for good
          /\ RecordIfCurrent(job.at, refused' = TRUE /\ UNCHANGED <<claims, abandoned, registered>>)
    /\ UNCHANGED <<boardVars, requests, console, installTouches>>

\* VerdictFor: a row that is gone failed, one that has not ended has no verdict.
HasVerdict(q) == board[RomOf[q]] # "pending"
VerdictFor(q) == IF board[RomOf[q]] = "absent" THEN "failed" ELSE board[RomOf[q]]

\* A report reaches the server the worker is linked to, which knows only its own requests.
Takes(q) == ServerOf[q] = job.link /\ requests[q] = "taken"

\* SettleInstalls, one claim: reported, found ended, put off, or refused for good.
Report(q) ==
    /\ job.step = "settle" /\ q \in job.todo
    /\ \/ /\ ~HasVerdict(q) /\ Smooth
          /\ job' = [job EXCEPT !.todo = @ \ {q}] /\ UNCHANGED requests
       \/ /\ HasVerdict(q) /\ Smooth
          /\ requests' = IF Takes(q) THEN [requests EXCEPT ![q] = VerdictFor(q)] ELSE requests
          /\ job' = [job EXCEPT !.todo = @ \ {q}, !.settled = @ \cup {q}]
       \/ /\ HasVerdict(q) /\ Upset /\ UNCHANGED requests
          /\ \/ job' = [job EXCEPT !.todo = {}]
             \/ job' = [job EXCEPT !.todo = @ \ {q}, !.settled = @ \cup {q},
                                   !.given_up = @ \cup {q}]
    /\ UNCHANGED <<boardVars, kept, told, console, installTouches>>

\* SettleInstalls ends: what was settled is forgotten, what was refused is not claimed again.
Settled ==
    /\ job.step = "settle" /\ job.todo = {}
    /\ RecordIfCurrent(job.since, /\ claims' = claims \ job.settled
                                  /\ abandoned' = abandoned \cup job.given_up
                                  /\ UNCHANGED <<registered, refused>>)
    /\ job' = [job EXCEPT !.step = job.then, !.settled = {}, !.given_up = {}]
    /\ UNCHANGED <<boardVars, remote, console, upsets, installTouches>>

\* link.Claim answers every request the device holds taken, the oldest kMaxClaims of them.
Held(s) == {q \in InstallRequests : ServerOf[q] = s /\ requests[q] \in Open}
Page(s) == {q \in Held(s) : Cardinality({p \in Held(s) : p < q}) < MaxClaims}
Claimed == [q \in InstallRequests |-> IF q \in Held(job.link) THEN "taken" ELSE requests[q]]

\* ClaimInstalls: the claim, and the slice that reads what is tracked already.
Claim ==
    /\ job.step = "claim"
    /\ \/ /\ Smooth /\ requests' = Claimed
          /\ LET page == Page(job.link)
                 tracked == IF page = Held(job.link) THEN claims \cap page ELSE claims
             IN  job' = [job EXCEPT !.step = "take", !.tracked = tracked,
                                    !.todo = page \ (tracked \cup abandoned)]
          /\ UNCHANGED kept
       \/ Upset /\ Leaves /\ UNCHANGED <<requests, kept>>
       \/ /\ Upset /\ Leaves /\ UNCHANGED requests                    \* 404
          /\ RecordIfCurrent(job.at, refused' = TRUE /\ UNCHANGED <<claims, abandoned, registered>>)
    /\ UNCHANGED <<boardVars, told, console, installTouches>>

\* One request of the page into the queue: new, already there, or refused and left for later.
Take(q) ==
    /\ job.step = "take" /\ q \in job.todo
    /\ Cardinality(job.tracked) < MaxClaims
    /\ \/ /\ Ask(RomOf[q]) /\ Smooth
          /\ job' = [job EXCEPT !.todo = @ \ {q}, !.tracked = @ \cup {q}]
       \/ /\ board[RomOf[q]] = "pending" /\ Smooth /\ UNCHANGED boardVars
          /\ job' = [job EXCEPT !.todo = @ \ {q}, !.tracked = @ \cup {q}]
       \/ /\ board[RomOf[q]] # "pending" /\ Upset /\ UNCHANGED boardVars
          /\ job' = [job EXCEPT !.todo = @ \ {q}]
    /\ UNCHANGED <<kept, remote, console, installTouches>>

Keep ==
    /\ job.step = "take" /\ (job.todo = {} \/ Cardinality(job.tracked) >= MaxClaims)
    /\ RecordIfCurrent(job.at, claims' = job.tracked /\ UNCHANGED <<abandoned, registered, refused>>)
    /\ Leaves
    /\ UNCHANGED <<boardVars, remote, console, upsets, installTouches>>

\* WithdrawInstalls: nothing may wait with a verdict; every request held goes back as failed
\* (the contract has no refusal of that which is not `ended`).
HandBack ==
    /\ job.step = "hand_back"
    /\ Leaves
    /\ IF \E q \in claims : HasVerdict(q) THEN UNCHANGED <<kept, requests>> /\ Smooth
       ELSE \/ /\ Smooth
               /\ requests' = [q \in InstallRequests |->
                                 IF q \in Held(job.link) THEN "failed" ELSE requests[q]]
               /\ RecordIfCurrent(job.at, /\ claims' = {} /\ registered' = "off"
                                          /\ UNCHANGED <<abandoned, refused>>)
            \/ /\ Upset /\ UNCHANGED kept                             \* one of them broke off
               /\ \E back \in SUBSET Held(job.link) :
                     requests' = [q \in InstallRequests |-> IF q \in back THEN "failed" ELSE Claimed[q]]
    /\ UNCHANGED <<boardVars, told, console, installTouches>>

Works ==
    \/ DrainStarts \/ DrainEnds \/ TickStarts \/ ServeInstalls \/ Register
    \/ Settled \/ Claim \/ Keep \/ HandBack
    \/ \E q \in InstallRequests : Report(q) \/ Take(q)

InstallsNext ==
    \/ \E q \in InstallRequests : WebQueues(q) \/ WebCancels(q)
    \/ \E r \in Roms : OwnerDequeues(r)
    \/ OwnerSwitches \/ ServerChanges \/ Pairs \/ Reboots \/ Works

\* The worker's loop comes round to a due tick and to a pending row, and each step is taken.
InstallsFair ==
    /\ WF_installVars(Works)
    /\ SF_installVars(TickStarts) /\ SF_installVars(DrainStarts)

InstallsSpec == InstallsInit /\ [][InstallsNext]_installVars /\ InstallsFair

-----------------------------------------------------------------------------
(* Properties.                                                              *)

(* A request made on the server this console is paired with does not stay   *)
(* open: whatever is dequeued, cancelled, switched off, cut short or asked  *)
(* twice in between, it is reported, handed back or given up for good.  A   *)
(* page full of requests given up on shows no other.                        *)
RequestEnds ==
    \A q \in InstallRequests :
        (requests[q] \in Open /\ ServerOf[q] = address)
            ~> \/ requests[q] \notin Open \/ q \in abandoned \/ refused
               \/ ServerOf[q] # address \/ ~paired \/ Cardinality(abandoned) >= MaxClaims

(* What the console remembers having registered, the server it is paired    *)
(* with was told ("what the old server answered must not overwrite the      *)
(* 'ask again' that stands for the new one").  Does not hold: the address   *)
(* and the token are read before the generation that would tell a change.   *)
RegistrationReachedServer ==
    paired /\ registered # "unset" => told[address] # "unset"
=============================================================================
