------------------------------- MODULE Library -------------------------------
(***************************************************************************)
(* The library browser and the lists it pages through.  The overlay's      *)
(* LibraryBrowserModel keeps a stack of levels (platforms, the roms of one *)
(* platform, the download queue), asks for one thing a frame and is told   *)
(* what came back.  The sysmodule's lists::Service keeps the cursors behind *)
(* them: at most kMaxCursors, reclaimed when idle, evicted oldest first,   *)
(* and filled by Pump on the worker's thread, which lets go of the lock    *)
(* for the length of one request.                                          *)
(*                                                                         *)
(* A command from the overlay is one synchronous call, so a frame is one   *)
(* step: the command, the service's answer and what the model makes of it. *)
(* Names, sizes and wording are left out; a row is its id and its state.   *)
(***************************************************************************)
EXTENDS Integers, Sequences, FiniteSets

CONSTANTS
    PlatformList,    \* the platforms in the server's order
    Mapped,          \* the ones config.ini has a folder for
    RomsOf,          \* each platform's roms in id order (order_by=id, order_dir=asc)
    Multi, Shelved,  \* disc sets; roms already on the card
    Huge,            \* roms whose row alone is past what an answer may hold
    kPageSize, kPrefetchRows, kMaxLoadedRows, kMaxEmptyPages,
    kMaxCursors, kMaxRowsStepped,
    NoFetch,         \* Pump has nothing in hand
    MaxKeys, MaxCuts, MaxExpiries, MaxVisits   \* bounds on what the run tries

ASSUME LibraryAssumption ==
    /\ PlatformList \in Seq(DOMAIN RomsOf)
    /\ \A i, j \in DOMAIN PlatformList : PlatformList[i] = PlatformList[j] => i = j
    /\ \A p \in DOMAIN RomsOf :
         /\ RomsOf[p] \in Seq(Nat)
         /\ \A i, j \in DOMAIN RomsOf[p] : i < j => RomsOf[p][i] < RomsOf[p][j]
    /\ kPageSize \in Nat \ {0} /\ kMaxLoadedRows \in Nat \ {0}
    /\ kMaxCursors \in Nat \ {0} /\ kMaxRowsStepped \in Nat /\ kPrefetchRows \in Nat
    /\ {MaxKeys, MaxCuts, MaxExpiries, MaxVisits, kMaxEmptyPages} \subseteq Nat

VARIABLES
    browser,    \* the overlay's model: stack, closing, wanted, closed, link
    cursors,    \* the service's entries, least recently touched first
    nextCursor, \* the id the next entry gets
    fetch,      \* the request Pump is making outside the lock
    wishes,     \* the download queue: rom ids in order
    keys, cuts, expiries, visits

browseVars == <<browser, cursors, nextCursor, fetch, wishes, keys, cuts, expiries, visits>>

RowStates == {"ready", "queued", "on_disk", "unmapped", "multi_file", "refused", "inert"}
LevelKinds == {"platforms", "roms", "queue"}
Fetches == {"idle", "running", "ready", "failed"}
PageErrors == {"ok", "offline", "internal"}

\* The list a request names, as the server or the queue holds it.
Items(kind, platform) ==
    CASE kind = "platforms" -> PlatformList
      [] kind = "roms"      -> RomsOf[platform]
      [] kind = "queue"     -> wishes

--------------------------------------------------------------------------
(* The browser's own state.                                                *)

NewLevel(kind, platform, mapped) ==
    [kind |-> kind, platform |-> platform, mapped |-> mapped, cursor |-> 0, rows |-> <<>>,
     selected |-> 0, has_more |-> TRUE, loading |-> FALSE, replace_rows |-> FALSE,
     page_error |-> "ok", truncated |-> FALSE, empty_pages |-> 0]

NewBrowser ==
    [stack |-> <<NewLevel("platforms", 0, TRUE)>>, closing |-> <<>>, wanted |-> 0,
     closed |-> FALSE, link |-> "ok"]

Top(b) == b.stack[Len(b.stack)]
WithTop(b, level) == [b EXCEPT !.stack[Len(b.stack)] = level]

HasMoreRow(level) ==
    level.has_more \/ level.loading \/ level.page_error # "ok" \/ level.truncated

LastRowIndex(level) == IF level.rows = <<>> THEN 0 ELSE Len(level.rows) - 1

\* A file of the rom's name and size is in one of its platform's folders.
OnDisk(rom) == rom \in Shelved

PredictEnqueue(rom, mapped, queued) ==
    IF rom \in Multi THEN "multi_file"
    ELSE IF ~mapped THEN "unmapped"
    ELSE IF OnDisk(rom) THEN "on_disk"
    ELSE IF queued THEN "queued"
    ELSE "ready"

ReadPlatform(item) == [id |-> item.id, state |-> IF item.id \in Mapped THEN "inert" ELSE "unmapped"]
ReadRom(item, mapped) == [id |-> item.id, state |-> PredictEnqueue(item.id, mapped, item.queued)]
ReadQueueEntry(item) == [id |-> item.id, state |-> "inert"]

ReadRow(level, item) ==
    CASE level.kind = "platforms" -> ReadPlatform(item)
      [] level.kind = "roms"      -> ReadRom(item, level.mapped)
      [] level.kind = "queue"     -> ReadQueueEntry(item)

\* What the screen says of the level on top.
Render(b) ==
    LET level == Top(b)
    IN IF b.link # "ok" THEN "unreachable"
       ELSE IF level.page_error # "ok" THEN "failed"
       ELSE IF level.rows # <<>> THEN "rows"
       ELSE IF level.loading \/ level.has_more THEN "loading"
       ELSE "empty"

--------------------------------------------------------------------------
(* What the model makes of an answer.                                      *)

NearTheEnd(level) == level.rows = <<>> \/ level.selected + kPrefetchRows >= Len(level.rows)

\* The one command a frame sends.
NextCommand(b) ==
    IF b.closing # <<>> THEN "list_end"
    ELSE IF b.wanted # 0 THEN "enqueue"
    ELSE IF Top(b).cursor = 0 THEN IF Top(b).page_error # "ok" THEN "none" ELSE "list_begin"
    ELSE IF Top(b).has_more /\ Top(b).page_error = "ok" /\ NearTheEnd(Top(b)) THEN "list_next"
    ELSE "none"

OnCursor(level, id) ==
    [level EXCEPT !.cursor = id, !.loading = TRUE, !.page_error = "ok", !.empty_pages = 0,
                  !.replace_rows = level.rows # <<>>, !.has_more = TRUE]

\* Where the selection lands once a page's rows are in: a user waiting on the
\* last row ("Loading...") stays on the last row.
Reselected(level, was_on_more) ==
    [level EXCEPT !.selected =
        IF was_on_more
        THEN IF HasMoreRow(level) THEN Len(level.rows) ELSE LastRowIndex(level)
        ELSE IF @ >= Len(level.rows) THEN LastRowIndex(level) ELSE @]

OnPage(level, page) ==
    LET kept == IF level.replace_rows THEN <<>> ELSE level.rows
        rows == kept \o [i \in 1..Len(page.items) |-> ReadRow(level, page.items[i])]
        dry == page.items = <<>> /\ page.has_more
        shown == [level EXCEPT !.rows = rows, !.replace_rows = FALSE, !.loading = FALSE,
                     !.truncated = IF level.replace_rows THEN FALSE ELSE @,
                     !.empty_pages = IF dry THEN @ + 1 ELSE 0]
    IN IF page.pending THEN [level EXCEPT !.loading = TRUE, !.page_error = "ok"]
       ELSE IF dry /\ shown.empty_pages >= kMaxEmptyPages
       THEN [shown EXCEPT !.has_more = FALSE, !.page_error = "internal"]
       ELSE Reselected(
              IF Len(rows) >= kMaxLoadedRows
              THEN [shown EXCEPT !.page_error = "ok", !.has_more = FALSE,
                       !.truncated = page.has_more \/ Len(rows) > kMaxLoadedRows,
                       !.rows = SubSeq(rows, 1, kMaxLoadedRows)]
              ELSE [shown EXCEPT !.page_error = "ok", !.has_more = page.has_more],
              level.rows # <<>> /\ level.selected >= Len(level.rows))

OnListRefused(level, error) ==
    IF error = "bad_cursor"
    THEN [level EXCEPT !.loading = FALSE, !.cursor = 0, !.replace_rows = level.rows # <<>>,
                       !.has_more = TRUE, !.page_error = "ok"]
    ELSE [level EXCEPT !.loading = FALSE, !.page_error = error]

\* The row of a rom that was asked for says what came of it.
MarkRow(level, rom, state) ==
    [level EXCEPT !.rows =
        [i \in DOMAIN @ |-> IF level.kind = "roms" /\ @[i].id = rom
                            THEN [@[i] EXCEPT !.state = state] ELSE @[i]]]

OnUnreachable(b) == [b EXCEPT !.link = "down", !.wanted = 0]

--------------------------------------------------------------------------
(* The service's half of a command, each under its lock.                   *)

NewEntry(id, level) ==
    [id |-> id, kind |-> level.kind, platform |-> level.platform, offset |-> 0,
     exhausted |-> FALSE, fetch |-> "idle", ready |-> <<>>, has_more |-> FALSE,
     failure |-> "ok", waiting |-> FALSE, loaded |-> FALSE]

Find(id) == {i \in DOMAIN cursors : cursors[i].id = id}
Without(i) == SubSeq(cursors, 1, i - 1) \o SubSeq(cursors, i + 1, Len(cursors))

\* The entries once the oldest is evicted to make room for one more.
\* Mutant: no cursor makes room for a new one.
EvictNever == cursors

EvictOldest == IF Len(cursors) >= kMaxCursors THEN Tail(cursors) ELSE cursors

\* As many rows as the payload holds: at least one, at most a page.
FillPage(left) == IF left <= 0 THEN {0} ELSE 1..(IF left < kPageSize THEN left ELSE kPageSize)

\* A page served from what the service holds, from the cursor's offset on.
PagesOf(entry, list) ==
    {[entry |-> [entry EXCEPT !.offset = @ + n], error |-> "ok", pending |-> FALSE,
      items |-> [i \in 1..n |-> [id |-> list[entry.offset + i], queued |-> FALSE]],
      has_more |-> entry.offset + n < Len(list)] : n \in FillPage(Len(list) - entry.offset)}

\* The queue's rows as they stand at this call; platforms from what was fetched.
FillFromQueue(entry) == PagesOf(entry, wishes)
FillFromPlatforms(entry) ==
    PagesOf([entry EXCEPT !.fetch = "idle", !.loaded = TRUE], PlatformList)

Answer(entry, items, has_more, pending, error) ==
    [entry |-> entry, items |-> items, has_more |-> has_more, pending |-> pending, error |-> error]

ListNext(entry) ==
    IF entry.kind = "queue" THEN FillFromQueue(entry)
    ELSE IF entry.kind = "platforms" /\ (entry.loaded \/ entry.fetch = "ready")
    THEN FillFromPlatforms(entry)
    ELSE IF entry.fetch = "ready"
    THEN {Answer([entry EXCEPT !.fetch = "idle", !.ready = <<>>, !.exhausted = ~entry.has_more,
                               !.offset = @ + Len(entry.ready)],
                 entry.ready, entry.has_more, FALSE, "ok")}
    ELSE IF entry.fetch = "failed"
    THEN {Answer([entry EXCEPT !.fetch = "idle"], <<>>, FALSE, FALSE, entry.failure)}
    ELSE IF entry.fetch = "running" THEN {Answer(entry, <<>>, FALSE, TRUE, "ok")}
    ELSE IF entry.exhausted THEN {Answer(entry, <<>>, FALSE, FALSE, "ok")}
    ELSE IF entry.waiting THEN {Answer(entry, <<>>, FALSE, FALSE, entry.failure)}
    ELSE {Answer([entry EXCEPT !.fetch = "running"], <<>>, FALSE, TRUE, "ok")}

--------------------------------------------------------------------------
(* One frame of the screen.                                                *)

\* The link was found up: after an outage the model starts over.
Ready == IF browser.link = "ok" THEN browser ELSE NewBrowser

Frame(command) == ~browser.closed /\ NextCommand(Ready) = command

\* The answer reaches the screen, or it is late, lost or unreadable and the link
\* is not what it was; the service has done its half either way.
Send(b, answered) ==
    \/ browser' = answered /\ UNCHANGED cuts
    \/ /\ cuts < MaxCuts /\ cuts' = cuts + 1
       /\ browser' = OnUnreachable(b)

FrameBegins ==
    LET b == Ready
        sent == WithTop(b, [Top(b) EXCEPT !.loading = TRUE])
    IN /\ Frame("list_begin")
       /\ cursors' = Append(EvictOldest, NewEntry(nextCursor, Top(b)))
       /\ nextCursor' = nextCursor + 1
       /\ Send(sent, WithTop(b, OnCursor(Top(b), nextCursor)))
       /\ UNCHANGED <<fetch, wishes, keys, expiries, visits>>

FrameNexts ==
    LET level == [Top(browser) EXCEPT !.loading = TRUE]
        sent == WithTop(browser, level)
    IN /\ browser.link = "ok" /\ Frame("list_next")
       /\ \/ /\ Find(level.cursor) = {}
             /\ Send(sent, WithTop(browser, OnListRefused(level, "bad_cursor")))
             /\ UNCHANGED cursors
          \/ \E i \in Find(level.cursor) : \E answer \in ListNext(cursors[i]) :
                /\ cursors' = Append(Without(i), answer.entry)
                /\ Send(sent, WithTop(browser,
                       IF answer.error = "ok" THEN OnPage(level, answer)
                       ELSE OnListRefused(level, answer.error)))
       /\ UNCHANGED <<nextCursor, fetch, wishes, keys, expiries, visits>>

FrameEnds ==
    LET ended == [browser EXCEPT !.closing = Tail(@)]
        gone == Find(Head(browser.closing))
    IN /\ browser.link = "ok" /\ Frame("list_end")
       /\ cursors' = IF gone = {} THEN cursors ELSE Without(CHOOSE i \in gone : TRUE)
       /\ Send(browser, ended)
       /\ UNCHANGED <<nextCursor, fetch, wishes, keys, expiries, visits>>

Wished(rom) == \E i \in DOMAIN wishes : wishes[i] = rom

\* What Enqueue may answer: a place in the queue, or why not.
EnqueueAnswers(rom) == IF Wished(rom) THEN {"duplicate"} ELSE {"ok", "queue_full", "offline"}

EnqueueRefusalState(error) ==
    CASE error = "duplicate"  -> "queued"
      [] error = "multi_file" -> "multi_file"
      [] OTHER                -> "refused"

FrameEnqueues ==
    LET rom == browser.wanted
        Marked(state) == [WithTop(browser, MarkRow(Top(browser), rom, state)) EXCEPT !.wanted = 0]
    IN /\ browser.link = "ok" /\ Frame("enqueue")
       /\ \E answer \in EnqueueAnswers(rom) :
             /\ wishes' = IF answer = "ok" THEN Append(wishes, rom) ELSE wishes
             /\ Send(browser, Marked(IF answer = "ok" THEN "queued"
                                     ELSE EnqueueRefusalState(answer)))
       /\ UNCHANGED <<cursors, nextCursor, fetch, keys, expiries, visits>>

FrameRests ==
    /\ browser.link = "ok" /\ Frame("none")
    /\ browser' = IF Top(browser).cursor = 0 THEN browser
                  ELSE WithTop(browser, [Top(browser) EXCEPT !.loading = FALSE])
    /\ UNCHANGED <<cursors, nextCursor, fetch, wishes, keys, cuts, expiries, visits>>

\* The frame finds the sysmodule gone.
FrameLost ==
    /\ ~browser.closed /\ cuts < MaxCuts /\ cuts' = cuts + 1
    /\ browser' = OnUnreachable(browser)
    /\ UNCHANGED <<cursors, nextCursor, fetch, wishes, keys, expiries, visits>>

--------------------------------------------------------------------------
(* What the user presses.                                                  *)

Press(after) ==
    /\ keys < MaxKeys /\ keys' = keys + 1
    /\ ~browser.closed /\ browser.link = "ok" /\ browser' = after
    /\ UNCHANGED <<cursors, nextCursor, fetch, wishes, cuts, expiries, visits>>

MoveSelection(delta) ==
    LET level == Top(browser)
        last == Len(level.rows) + (IF HasMoreRow(level) THEN 1 ELSE 0) - 1
        to == level.selected + delta
    IN Press(IF level.rows = <<>> /\ level.page_error = "ok" /\ ~level.has_more THEN browser
             ELSE WithTop(browser, [level EXCEPT !.selected =
                      IF to > last THEN IF last < 0 THEN 0 ELSE last ELSE IF to < 0 THEN 0 ELSE to]))

\* On the last row a press tries the page again; on a platform it goes in; on a
\* rom that can be had it asks for it.
Activate ==
    LET level == Top(browser)
        row == level.rows[level.selected + 1]
    IN Press(IF level.selected >= Len(level.rows)
             THEN IF level.page_error = "ok" THEN browser
                  ELSE WithTop(browser, [level EXCEPT !.page_error = "ok", !.empty_pages = 0,
                                                      !.has_more = TRUE])
             ELSE CASE level.kind = "platforms" ->
                         [browser EXCEPT !.stack =
                             Append(@, NewLevel("roms", row.id, row.state # "unmapped"))]
                    [] level.kind = "roms" ->
                         IF row.state \in {"ready", "refused"}
                         THEN [browser EXCEPT !.wanted = row.id] ELSE browser
                    [] level.kind = "queue" -> browser)

\* Mutant: going back forgets the cursor of the level it leaves.
BackForgets ==
    /\ Len(browser.stack) > 1
    /\ Press([browser EXCEPT !.stack = SubSeq(@, 1, Len(@) - 1)])

Back ==
    /\ Len(browser.stack) > 1
    /\ Press([browser EXCEPT !.stack = SubSeq(@, 1, Len(@) - 1),
                             !.closing = IF Top(browser).cursor = 0 THEN @
                                         ELSE Append(@, Top(browser).cursor)])

OpenQueue ==
    /\ Top(browser).kind # "queue"
    /\ Press([browser EXCEPT !.stack = Append(@, NewLevel("queue", 0, TRUE))])

\* The cursors an overlay about to go still has open.
OpenCursors(b) ==
    {b.closing[i] : i \in DOMAIN b.closing} \cup ({b.stack[i].cursor : i \in DOMAIN b.stack} \ {0})

\* The entries left, in their order, once these cursors are ended.
Remaining(ended) ==
    LET kept == {i \in DOMAIN cursors : cursors[i].id \notin ended}
    IN {[i \in DOMAIN at |-> cursors[at[i]]] :
        at \in {f \in [1..Cardinality(kept) -> kept] : \A i, j \in DOMAIN f : i < j => f[i] < f[j]}}

\* The screen is left: every cursor is ended on the way out, if the sysmodule
\* answers.  The model is closed and nothing more is drawn.
Leave ==
    /\ ~browser.closed
    /\ \E answers \in BOOLEAN :
          /\ ~answers => cuts < MaxCuts
          /\ cuts' = IF answers THEN cuts ELSE cuts + 1
          /\ IF answers /\ browser.link = "ok" THEN cursors' \in Remaining(OpenCursors(browser))
             ELSE UNCHANGED cursors
    /\ browser' = [NewBrowser EXCEPT !.closed = TRUE]
    /\ UNCHANGED <<nextCursor, fetch, wishes, keys, expiries, visits>>

Visit ==
    /\ browser.closed /\ visits < MaxVisits /\ visits' = visits + 1
    /\ browser' = NewBrowser
    /\ UNCHANGED <<cursors, nextCursor, fetch, wishes, keys, cuts, expiries>>

--------------------------------------------------------------------------
(* The worker's half, and time.                                            *)

\* Pump takes the oldest cursor that waits for a page, and makes room: another
\* cursor of the kind gives up what was built for it and will ask again.
PumpTakes ==
    LET waiting == {i \in DOMAIN cursors : cursors[i].fetch = "running"}
        first == CHOOSE i \in waiting : \A j \in waiting : cursors[i].id <= cursors[j].id
        mine == cursors[first]
    IN /\ fetch = NoFetch /\ waiting # {}
       /\ cursors' = [i \in DOMAIN cursors |->
             IF i = first \/ cursors[i].kind # mine.kind THEN cursors[i]
             ELSE [cursors[i] EXCEPT !.fetch = IF @ = "ready" THEN "idle" ELSE @,
                                     !.ready = <<>>, !.loaded = FALSE]]
       /\ fetch' = [id |-> mine.id, kind |-> mine.kind, platform |-> mine.platform,
                    offset |-> mine.offset]
       /\ UNCHANGED <<browser, nextCursor, wishes, keys, cuts, expiries, visits>>

\* The sizes an answer that is too large is asked for again at, down to one row.
Limits == {l \in 1..kPageSize : l = 1 \/ \E k \in 0..kPageSize : l = kPageSize \div 2^k}
TooLarge(list, from, limit) ==
    \E i \in (from + 1)..(from + limit) : i <= Len(list) /\ list[i] \in Huge

\* A single row that is too large is stepped over, kMaxRowsStepped of them at most.
Steps(list, from) == {s \in 0..kMaxRowsStepped : ~TooLarge(list, from + s, 1)}

Stepped(list, from) == CHOOSE s \in Steps(list, from) : \A t \in Steps(list, from) : s <= t

\* The rows answered at an offset, at the largest limit whose answer is not too large.
RomsAt(list, from) ==
    LET limit == CHOOSE l \in Limits : /\ ~TooLarge(list, from, l)
                                       /\ \A k \in Limits : k > l => TooLarge(list, from, k)
    IN SubSeq(list, from + 1, IF from + limit < Len(list) THEN from + limit ELSE Len(list))

\* Mutant: the rows stepped over are not added to the offset.
RomPageUnstepped(list, from) ==
    [stepped |-> 0, roms |-> RomsAt(list, from + Stepped(list, from)), total |-> Len(list)]

RomPage(list, from) ==
    [stepped |-> Stepped(list, from), roms |-> RomsAt(list, from + Stepped(list, from)),
     total |-> Len(list)]

\* The page built of an answer: what fits, with the marks as they stand now.
BuildRomPage(page, from) ==
    {[items |-> [i \in 1..n |-> [id |-> page.roms[i],
                                 queued |-> Wished(page.roms[i])]],
      has_more |-> page.roms # <<>>
                   /\ (n < Len(page.roms) \/ from + page.stepped + n < page.total)] :
     n \in FillPage(Len(page.roms))}

PumpFails(i, failure) ==
    cursors' = [cursors EXCEPT ![i].fetch = "failed", ![i].failure = failure, ![i].waiting = TRUE]

\* The answer lands on the cursor it was asked for, if that still waits for it.
PumpAnswers ==
    /\ fetch # NoFetch /\ fetch' = NoFetch
    /\ LET found == {i \in Find(fetch.id) : cursors[i].fetch = "running"}
           list == Items(fetch.kind, fetch.platform)
       IN \/ found = {} /\ UNCHANGED cursors
          \/ \E i \in found : \E failure \in {"offline", "internal"} : PumpFails(i, failure)
          \/ \E i \in found :
                /\ fetch.kind = "platforms"
                /\ cursors' = [cursors EXCEPT ![i].fetch = "ready", ![i].waiting = FALSE,
                                              ![i].failure = "ok"]
          \/ \E i \in found :
                /\ fetch.kind = "roms" /\ Steps(list, fetch.offset) = {}
                /\ PumpFails(i, "internal")
          \/ \E i \in found :
                /\ fetch.kind = "roms" /\ Steps(list, fetch.offset) # {}
                /\ LET page == RomPage(list, fetch.offset)
                   IN \E built \in BuildRomPage(page, fetch.offset) :
                        cursors' = [cursors EXCEPT ![i].fetch = "ready", ![i].waiting = FALSE,
                                       ![i].failure = "ok", ![i].offset = @ + page.stepped,
                                       ![i].ready = built.items, ![i].has_more = built.has_more]
    /\ UNCHANGED <<browser, nextCursor, wishes, keys, cuts, expiries, visits>>

\* The wait after a failed page runs out.
RetryFallsDue ==
    /\ \E i \in DOMAIN cursors :
          cursors[i].waiting /\ cursors' = [cursors EXCEPT ![i].waiting = FALSE]
    /\ UNCHANGED <<browser, nextCursor, fetch, wishes, keys, cuts, expiries, visits>>

\* The cursor nobody touched for longest is older than kCursorTtl: the next
\* command, or the next Pump, does not find it.
Reap ==
    /\ cursors # <<>> /\ expiries < MaxExpiries /\ expiries' = expiries + 1
    /\ cursors' = Tail(cursors)
    /\ UNCHANGED <<browser, nextCursor, fetch, wishes, keys, cuts, visits>>

--------------------------------------------------------------------------
\* The platforms are in and one of them was just opened.
Entered(p) ==
    [NewBrowser EXCEPT !.stack =
        <<[NewLevel("platforms", 0, TRUE) EXCEPT !.cursor = 1, !.has_more = FALSE,
              !.rows = [i \in DOMAIN PlatformList |-> ReadPlatform([id |-> PlatformList[i]])]],
          NewLevel("roms", p, p \in Mapped)>>]

\* The screen was just opened, or is past its first list.
BrowseInit ==
    /\ \/ browser = NewBrowser /\ cursors = <<>> /\ nextCursor = 1
       \/ /\ Len(PlatformList) < kMaxLoadedRows /\ \E p \in DOMAIN RomsOf : browser = Entered(p)
          /\ cursors = <<[NewEntry(1, NewLevel("platforms", 0, TRUE)) EXCEPT !.loaded = TRUE,
                                                            !.offset = Len(PlatformList)]>>
          /\ nextCursor = 2
    /\ fetch = NoFetch /\ wishes = <<>>
    /\ keys = 0 /\ cuts = 0 /\ expiries = 0 /\ visits = 0

Frames == FrameBegins \/ FrameNexts \/ FrameEnds \/ FrameEnqueues \/ FrameRests

BrowseNext ==
    \/ FrameBegins \/ FrameNexts \/ FrameEnds \/ FrameEnqueues \/ FrameRests \/ FrameLost
    \/ MoveSelection(1) \/ MoveSelection(-1) \/ Activate \/ Back \/ OpenQueue
    \/ Leave \/ Visit
    \/ PumpTakes \/ PumpAnswers \/ RetryFallsDue \/ Reap

\* The overlay draws every frame while it is open, and the worker pumps a page
\* that is waited for (the Worker module's AskedIsServed).
BrowseFair == WF_browseVars(Frames) /\ WF_browseVars(PumpTakes) /\ WF_browseVars(PumpAnswers)
BrowseSpec == BrowseInit /\ [][BrowseNext]_browseVars /\ BrowseFair

--------------------------------------------------------------------------
Levels ==
    [kind : LevelKinds, platform : {0} \cup DOMAIN RomsOf, mapped : BOOLEAN, cursor : 0..nextCursor,
     rows : Seq([id : Nat \cup DOMAIN RomsOf, state : RowStates]), selected : 0..kMaxLoadedRows,
     has_more : BOOLEAN, loading : BOOLEAN, replace_rows : BOOLEAN, truncated : BOOLEAN,
     page_error : PageErrors, empty_pages : 0..kMaxEmptyPages]

\* The browser's and the service's state stays in shape: the selection is on a
\* row or on the one below the last, ids are never reused, and the cursors
\* stay within kMaxCursors.
BrowseTypeOK ==
    /\ \A i \in DOMAIN browser.stack :
          LET level == browser.stack[i]
          IN level \in Levels /\ (level.selected <= Len(level.rows) \/ level.replace_rows)
    /\ \A i \in DOMAIN cursors : cursors[i].id < nextCursor /\ cursors[i].fetch \in Fetches
    /\ \A i, j \in DOMAIN cursors : cursors[i].id = cursors[j].id => i = j
    /\ Len(cursors) <= kMaxCursors

\* The rows of a level are the list's, in its order and each once, whatever
\* cursors were evicted, reclaimed or opened again on the way; a row that is
\* missing before the last one shown is one no answer could hold; and a level
\* that says it has no more shows everything else.
RowsFollowTheList ==
    \A i \in DOMAIN browser.stack :
       LET level == browser.stack[i]
           list == Items(level.kind, level.platform)
           At(r) == CHOOSE n \in DOMAIN list : list[n] = level.rows[r].id
           rows == {level.rows[r].id : r \in DOMAIN level.rows}
       IN level.kind # "queue" =>
          /\ \A r, s \in DOMAIN level.rows : r < s => At(r) < At(s)
          /\ \A r \in DOMAIN level.rows, n \in DOMAIN list :
                n < At(r) => list[n] \in rows \cup Huge
          /\ (level.cursor # 0 /\ ~level.has_more /\ ~level.truncated /\ level.page_error = "ok")
                => \A n \in DOMAIN list : list[n] \in rows \cup Huge

\* A list that is loading comes to rows, to an empty list or to a failure the
\* user can retry, unless the link or the screen goes first.
LoadingEnds == (Render(browser) = "loading") ~> (Render(browser) # "loading" \/ browser.closed)

\* An overlay that leaves with the sysmodule answering leaves no cursor open.
LeavesNoCursor == browser.closed /\ cuts = 0 => cursors = <<>>
=============================================================================
