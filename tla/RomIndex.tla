------------------------------- MODULE RomIndex -------------------------------
(***************************************************************************)
(* The library a tick matches its files against, as FetchRomIndex          *)
(* (core/src/rom_index.cpp) reads it: page by page, in the order of the    *)
(* ids, from a server that adds and removes roms while it is being read,   *)
(* over a link that loses pages, into a heap that takes neither a page     *)
(* wider than the transport's ceiling nor more than max_roms roms.         *)
(*                                                                         *)
(* A page refused as too large is asked for again at half the rows; a rom  *)
(* too large by itself is left out; and the page grows back afterwards,    *)
(* more slowly each time a larger one is refused. What the caller has to   *)
(* be able to trust is the truncated mark: an index without it is the      *)
(* library, and a save it does not match is a save of nothing.             *)
(***************************************************************************)
EXTENDS Integers, Sequences, FiniteSets, SequencesExt

CONSTANTS
    MaxRom,            \* the largest id a rom is given: ids are never reused
    Ceiling,           \* kMaxResponseBytes: the width one answer may have
    kDefaultPageSize,  \* the rows a page is asked for at first
    ServerCap,         \* the rows the server gives at most
    kMaxPages,         \* answers, and apart from them refusals, of one fetch
    kMaxIndexRoms,     \* roms one tick holds
    kMaxAttempts,      \* CallPolicy.max_attempts: tries of one page
    MaxMoves           \* changes to the library while it is read

ASSUME RomIndexConstants ==
    /\ {MaxRom, Ceiling, kDefaultPageSize, ServerCap, kMaxPages, kMaxIndexRoms,
        kMaxAttempts} \subseteq Nat \ {0}
    /\ MaxMoves \in Nat

VARIABLES
    width,     \* how wide each rom's row is
    shelf,     \* the ids in the server's library
    newest,    \* the largest id the server has given
    steady,    \* the ids that were in it from the fetch's start until now
    fetch,     \* FetchRomIndex's locals and its FetchResult
    stopping,  \* the policy's cancel token has fired
    moves      \* changes made to the library so far

indexVars == <<width, shelf, newest, steady, fetch, stopping, moves>>

RomIds == 1 .. MaxRom

\* A row of the list: most are narrow, some fill an answer, some exceed it.
Widths == {1, Ceiling, Ceiling + 1}

\* The ways a fetch ends: FetchResult's ok() and its three failures.
FetchEndings == {"ok", "canceled", "transport", "status", "shape"}

\* What the server may answer besides a page of the library.
BadAnswers == {"status", "shape"}

\* The total order the request asks for: order_by=id, ascending.
PlaceOf(id) == Cardinality({other \in shelf : other <= id})
InOrder == [k \in 1 .. Cardinality(shelf) |-> CHOOSE id \in shelf : PlaceOf(id) = k]

Narrower(a, b) == IF a < b THEN a ELSE b

(***************************************************************************)
(* The locals as the loop is entered.                                      *)
(***************************************************************************)
Fresh ==
    [at |-> "asking", size |-> kDefaultPageSize, wait |-> 1, streak |-> 0,
     probing |-> FALSE, offset |-> 0, room |-> 0, failures |-> 0, pages |-> 0,
     refused |-> 0, leftOut |-> 0, truncated |-> FALSE, index |-> <<>>]

RomIndexInit ==
    /\ width \in [RomIds -> Widths]
    /\ newest \in 0 .. MaxRom
    /\ shelf = 1 .. newest /\ steady = shelf
    /\ fetch = Fresh
    /\ stopping = FALSE
    /\ moves = 0

\* The page the server cuts for the request: by offset, as it stands now.
PageAt(f) ==
    LET rows == Narrower(f.size, ServerCap)
        last == Narrower(f.offset + rows, Len(InOrder))
    IN SubSeq(InOrder, f.offset + 1, last)

WidthOf(page) == FoldLeft(LAMBDA sum, id : sum + width[id], 0, page)

AnsweredTooLarge == WidthOf(PageAt(fetch)) > Ceiling

\* The loop's own condition, and the cancel it looks at first.
Asking ==
    /\ fetch.at = "asking"
    /\ fetch.pages < kMaxPages
    /\ fetch.refused < kMaxPages

Asks == Asking /\ ~stopping

Finished(f, how) == [f EXCEPT !.at = how]

(***************************************************************************)
(* Between requests: the caller has given up, and no other page is sent.   *)
(***************************************************************************)
Stopped ==
    /\ Asking
    /\ stopping
    /\ fetch' = Finished(fetch, "canceled")
    /\ UNCHANGED <<width, shelf, newest, steady, stopping, moves>>

\* The page's attempts are spent.
GivesUp(f) == f.failures + 1 >= kMaxAttempts

(***************************************************************************)
(* A page lost in transit, or a status that says try again: the same page  *)
(* once more after the wait, unless its attempts are spent. A token fired  *)
(* meanwhile makes it a cancelled fetch rather than a server that is down. *)
(***************************************************************************)
PageLost ==
    /\ Asks
    /\ \/ /\ ~GivesUp(fetch)
          /\ fetch' = [fetch EXCEPT !.failures = @ + 1]
       \/ /\ GivesUp(fetch)
          /\ \E how \in {"transport", "status"} : fetch' = Finished(fetch, how)
    /\ UNCHANGED <<width, shelf, newest, steady, stopping, moves>>

(***************************************************************************)
(* A page wider than one answer may be: half the rows, or -- at one row -- *)
(* the rom is left out, the index marked, and the page back at its largest.*)
(***************************************************************************)
Halved(f) == [f EXCEPT !.size = @ \div 2]

\* Mutant: a rom left out is only counted for the log's sentence.
LeftOutUnmarked(f) ==
    [f EXCEPT !.leftOut = @ + 1, !.offset = @ + 1, !.size = kDefaultPageSize, !.wait = 1]

LeftOut(f) ==
    [f EXCEPT !.truncated = TRUE, !.leftOut = @ + 1, !.offset = @ + 1,
              !.size = kDefaultPageSize, !.wait = 1]

TooLarge ==
    /\ Asks
    /\ AnsweredTooLarge
    /\ LET slower == IF fetch.probing THEN Narrower(fetch.wait * 2, kMaxPages)
                                      ELSE fetch.wait
           f == [fetch EXCEPT !.failures = 0, !.refused = @ + 1, !.streak = 0,
                              !.wait = slower, !.probing = FALSE]
       IN fetch' = IF f.size > 1 THEN Halved(f) ELSE LeftOut(f)
    /\ UNCHANGED <<width, shelf, newest, steady, stopping, moves>>

\* A status that is an answer, or a body ParsePage does not read: it ends here.
Refused ==
    /\ Asks
    /\ ~AnsweredTooLarge
    /\ \E how \in BadAnswers : fetch' = Finished([fetch EXCEPT !.pages = @ + 1], how)
    /\ UNCHANGED <<width, shelf, newest, steady, stopping, moves>>

(***************************************************************************)
(* A page of nothing: the end, and when the server counts more roms than   *)
(* were read, a library that changed under the fetch -- which is marked.   *)
(***************************************************************************)
RanOut(f) == Finished([f EXCEPT !.truncated = @ \/ f.offset < Cardinality(shelf)], "ok")

(***************************************************************************)
(* After a page that came back, a page that was halved grows again once    *)
(* `wait` of them have, and a doubled one that fits forgets the slowness.  *)
(***************************************************************************)
Grown(f) ==
    LET calm == IF f.probing THEN [f EXCEPT !.wait = 1, !.probing = FALSE] ELSE f
        seen == calm.streak + 1
    IN IF calm.size >= kDefaultPageSize THEN calm
       ELSE IF seen < calm.wait THEN [calm EXCEPT !.streak = seen]
       ELSE [calm EXCEPT !.size = Narrower(@ * 2, kDefaultPageSize),
                         !.streak = 0, !.probing = TRUE]

\* The index is sized once, from the first page's total.
Reserved(f) ==
    IF f.room > 0 THEN f
    ELSE [f EXCEPT !.room = Narrower(Cardinality(shelf), kMaxIndexRoms)]

\* The roms are added, and the offset moves by what actually arrived.
Advance(f, page) == [f EXCEPT !.index = @ \o page, !.offset = @ + Len(page)]

(***************************************************************************)
(* Adding a page: whole while there is room, else the part that fits, and  *)
(* the mark; then on to the next page or to the end the total announces.   *)
(***************************************************************************)
Added(f, page) ==
    LET free == f.room - Len(f.index) IN
    IF Len(page) > free
    THEN Finished([f EXCEPT !.index = @ \o SubSeq(page, 1, free), !.truncated = TRUE], "ok")
    ELSE LET g == Advance(f, page)
         IN IF g.offset >= Cardinality(shelf) THEN Finished(g, "ok") ELSE g

PageRead ==
    /\ Asks
    /\ ~AnsweredTooLarge
    /\ LET page == PageAt(fetch)
           f == [fetch EXCEPT !.failures = 0, !.pages = @ + 1]
       IN fetch' = IF page = <<>> THEN RanOut(f) ELSE Added(Reserved(Grown(f)), page)
    /\ UNCHANGED <<width, shelf, newest, steady, stopping, moves>>

\* The requests of one fetch are spent: what was read, marked.
Exhausted ==
    /\ fetch.at = "asking"
    /\ ~Asking
    /\ fetch' = Finished([fetch EXCEPT !.truncated = TRUE], "ok")
    /\ UNCHANGED <<width, shelf, newest, steady, stopping, moves>>

(***************************************************************************)
(* The server's library changes while it is read: a new rom has a larger   *)
(* id than any before it had, and a removed one moves the rest up.         *)
(***************************************************************************)
RomAdded ==
    /\ fetch.at = "asking" /\ moves < MaxMoves
    /\ \E id \in RomIds : id > newest /\ newest' = id /\ shelf' = shelf \union {id}
    /\ moves' = moves + 1
    /\ UNCHANGED <<width, steady, fetch, stopping>>

RomRemoved ==
    /\ fetch.at = "asking" /\ moves < MaxMoves
    /\ \E id \in shelf : shelf' = shelf \ {id} /\ steady' = steady \ {id}
    /\ moves' = moves + 1
    /\ UNCHANGED <<width, newest, fetch, stopping>>

\* The tick is cancelled: sleep, a press, or the sysmodule going.
TokenFires ==
    /\ fetch.at = "asking" /\ ~stopping
    /\ stopping' = TRUE
    /\ UNCHANGED <<width, shelf, newest, steady, fetch, moves>>

Fetches == Stopped \/ PageLost \/ TooLarge \/ Refused \/ PageRead \/ Exhausted

RomIndexNext == Fetches \/ RomAdded \/ RomRemoved \/ TokenFires

RomIndexSpec == RomIndexInit /\ [][RomIndexNext]_indexVars

-------------------------------------------------------------------------------
(***************************************************************************)
(* Every variable keeps its type, the counters stay within the bounds the  *)
(* code names, and no index outgrows the room it was sized for.            *)
(***************************************************************************)
RomIndexTypeOK ==
    /\ width \in [RomIds -> Widths]
    /\ newest \in 0 .. MaxRom /\ shelf \subseteq 1 .. newest /\ steady \subseteq shelf
    /\ fetch.at \in {"asking"} \union FetchEndings
    /\ fetch.size \in 1 .. kDefaultPageSize
    /\ fetch.wait \in 1 .. kMaxPages
    /\ fetch.pages \in 0 .. kMaxPages /\ fetch.refused \in 0 .. kMaxPages
    /\ Len(fetch.index) <= fetch.room /\ fetch.room <= kMaxIndexRoms
    /\ stopping \in BOOLEAN /\ moves \in 0 .. MaxMoves

Holds(f) == {f.index[i] : i \in 1 .. Len(f.index)}

(***************************************************************************)
(* No rom is in an index twice, and one that is not marked truncated has   *)
(* every rom that was on the server for the whole of the fetch, however    *)
(* many are added meanwhile, but only if none is removed. Without it a     *)
(* save that stopped matching would be reported as a save of no rom, and a *)
(* rom read twice would make its own name ambiguous.                       *)
(***************************************************************************)
IndexIsTheLibrary ==
    /\ \A i, j \in 1 .. Len(fetch.index) : i # j => fetch.index[i] # fetch.index[j]
    /\ (fetch.at = "ok" /\ ~fetch.truncated /\ Cardinality(shelf) = Cardinality(steady) + moves)
          => steady \subseteq Holds(fetch)

(***************************************************************************)
(* A rom that was on the server for the whole of the fetch is in an index  *)
(* that is not marked, even when another was removed while it was read: of *)
(* a rom returned twice and another never, rom_index.cpp says "An id is    *)
(* unique, so neither happens". Does not hold: pages are read by offset,   *)
(* so the removal shifts the rest and one is skipped.                      *)
(***************************************************************************)
NoneVanishes == (fetch.at = "ok" /\ ~fetch.truncated) => steady \subseteq Holds(fetch)
===============================================================================
