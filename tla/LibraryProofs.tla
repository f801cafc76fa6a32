---------------------------- MODULE LibraryProofs ----------------------------
(***************************************************************************)
(* The overlay's library keeps its types, and the rows it shows are the    *)
(* server's list, for every list, page size, limit and order of presses,   *)
(* pages, losses and expiries.  How far a cursor has read is how far its   *)
(* level's rows go: what lies before is shown or could not be sent, and    *)
(* what a press, a page or an eviction changes is on both sides or on      *)
(* neither.                                                                *)
(***************************************************************************)
EXTENDS Library, FiniteSetTheorems, SequenceTheorems, WellFoundedInduction, TLAPS

RowIds == Nat \cup DOMAIN RomsOf
ShownRow == [id : RowIds, state : RowStates]
SentItem == [id : RowIds, queued : BOOLEAN]

\* A list the server has, and its list.
Served(kind, platform) == kind = "platforms" \/ (kind = "roms" /\ platform \in DOMAIN RomsOf)
ListOf(kind, platform) == IF kind = "platforms" THEN PlatformList ELSE RomsOf[platform]

EachOnce(list) == \A m, n \in 1 .. Len(list) : list[m] = list[n] => m = n

\* Rows are the list's up to a place, in its order, but for what is too large.
FollowsTo(rows, list, o) ==
    /\ o \in 0 .. Len(list)
    /\ \A r \in 1 .. Len(rows) : \E n \in 1 .. o : rows[r].id = list[n]
    /\ \A r, s \in 1 .. Len(rows) : r < s =>
         \A m, n \in 1 .. Len(list) : rows[r].id = list[m] /\ rows[s].id = list[n] => m < n
    /\ \A n \in 1 .. o : list[n] \in Huge \/ \E r \in 1 .. Len(rows) : rows[r].id = list[n]

LEMMA LibraryConstants ==
    /\ kPageSize \in Nat \ {0} /\ kMaxLoadedRows \in Nat \ {0} /\ kMaxCursors \in Nat \ {0}
    /\ kMaxRowsStepped \in Nat /\ kPrefetchRows \in Nat /\ kMaxEmptyPages \in Nat
    /\ MaxKeys \in Nat /\ MaxCuts \in Nat /\ MaxExpiries \in Nat /\ MaxVisits \in Nat
  BY LibraryAssumption

(* What the server lists is a sequence of ids, each once.                   *)
LEMMA ServedLists ==
    ASSUME NEW kind, NEW platform, Served(kind, platform)
    PROVE  /\ ListOf(kind, platform) \in Seq(RowIds) /\ Len(ListOf(kind, platform)) \in Nat
           /\ DOMAIN ListOf(kind, platform) = 1 .. Len(ListOf(kind, platform))
           /\ EachOnce(ListOf(kind, platform))
           /\ kind = "platforms" => ListOf(kind, platform) \in Seq(DOMAIN RomsOf)
           /\ Items(kind, platform) = ListOf(kind, platform)
  <1>1. CASE kind = "platforms"
    <2>1. ListOf(kind, platform) = PlatformList /\ Items(kind, platform) = PlatformList
      BY <1>1 DEF ListOf, Items
    <2>2. PlatformList \in Seq(DOMAIN RomsOf)  BY LibraryAssumption
    <2>3. PlatformList \in Seq(RowIds)
      <3>1. \A i \in 1 .. Len(PlatformList) : PlatformList[i] \in RowIds  BY <2>2 DEF RowIds
      <3>2. QED  BY <2>2, <3>1
    <2>4. EachOnce(PlatformList)  BY <2>2, LibraryAssumption DEF EachOnce
    <2>5. QED  BY <1>1, <2>1, <2>2, <2>3, <2>4
  <1>2. CASE kind = "roms" /\ platform \in DOMAIN RomsOf
    <2>1. PICK list : list = RomsOf[platform]  OBVIOUS
    <2>2. ListOf(kind, platform) = list /\ Items(kind, platform) = list
      BY <1>2, <2>1 DEF ListOf, Items
    <2>3. /\ list \in Seq(Nat)
          /\ \A i, j \in DOMAIN list : i < j => list[i] < list[j]
      BY <1>2, <2>1, LibraryAssumption
    <2>4. list \in Seq(RowIds)
      <3>1. \A i \in 1 .. Len(list) : list[i] \in RowIds  BY <2>3 DEF RowIds
      <3>2. QED  BY <2>3, <3>1
    <2>5. EachOnce(list)
      <3>1. SUFFICES ASSUME NEW m \in 1 .. Len(list), NEW n \in 1 .. Len(list), list[m] = list[n]
                     PROVE  m = n
        BY DEF EachOnce
      <3>2. m \in Nat /\ n \in Nat /\ list[m] \in Nat /\ list[n] \in Nat /\ DOMAIN list = 1 .. Len(list)
        BY <2>3
      <3>3. (m < n => list[m] < list[n]) /\ (n < m => list[n] < list[m])  BY <2>3, <3>2
      <3>4. QED  BY <3>1, <3>2, <3>3
    <2>6. QED  BY <1>2, <2>2, <2>3, <2>4, <2>5
  <1>3. QED  BY <1>1, <1>2 DEF Served

LEMMA FollowsNone ==
    ASSUME NEW list, Len(list) \in Nat
    PROVE  FollowsTo(<<>>, list, 0)
  BY DEF FollowsTo

(* A page that takes the list up where the rows end.                        *)
LEMMA FollowsMore ==
    ASSUME NEW S, NEW T, NEW list \in Seq(S), EachOnce(list), NEW rows \in Seq(T), NEW more \in Seq(T),
           NEW o, FollowsTo(rows, list, o), o + Len(more) <= Len(list),
           \A k \in 1 .. Len(more) : more[k].id = list[o + k]
    PROVE  FollowsTo(rows \o more, list, o + Len(more))
  <1>1. PICK all : all = rows \o more  OBVIOUS
  <1>2. PICK w \in Nat : w = Len(rows)  OBVIOUS
  <1>3. PICK x \in Nat : x = Len(more)  OBVIOUS
  <1>4. o \in 0 .. Len(list) /\ Len(list) \in Nat  BY DEF FollowsTo
  <1>5. /\ Len(all) = w + x
        /\ \A r \in 1 .. w : all[r] = rows[r]
        /\ \A r \in w + 1 .. w + x : all[r] = more[r - w]
    BY <1>1, <1>2, <1>3
  <1>6. \A r \in w + 1 .. w + x : all[r].id = list[o + (r - w)]
    <2>1. ASSUME NEW r \in w + 1 .. w + x PROVE all[r].id = list[o + (r - w)]
      <3>1. r - w \in 1 .. x  OBVIOUS
      <3>2. QED  BY <1>3, <1>5, <3>1
    <2>2. QED  BY <2>1
  <1>7. \A r \in 1 .. w : \E n \in 1 .. o : all[r].id = list[n]
    <2>1. \A r \in 1 .. w : \E n \in 1 .. o : rows[r].id = list[n]  BY <1>2 DEF FollowsTo
    <2>2. QED  BY <1>5, <2>1
  <1>8. ASSUME NEW r \in 1 .. w + x PROVE \E n \in 1 .. o + x : all[r].id = list[n]
    <2>1. CASE r <= w
      <3>1. r \in 1 .. w  BY <2>1
      <3>2. PICK n \in 1 .. o : all[r].id = list[n]  BY <1>7, <3>1
      <3>3. n \in 1 .. o + x  BY <1>4
      <3>4. QED  BY <3>2, <3>3
    <2>2. CASE r > w
      <3>1. r \in w + 1 .. w + x /\ o + (r - w) \in 1 .. o + x  BY <1>4, <2>2
      <3>2. QED  BY <1>6, <3>1
    <2>3. QED  BY <2>1, <2>2
  <1>9. ASSUME NEW r \in 1 .. w + x, NEW s \in 1 .. w + x, r < s,
               NEW m \in 1 .. Len(list), NEW n \in 1 .. Len(list),
               all[r].id = list[m], all[s].id = list[n]
        PROVE  m < n
    <2>1. CASE s <= w
      <3>1. r \in 1 .. w /\ s \in 1 .. w  BY <1>9, <2>1
      <3>2. rows[r].id = list[m] /\ rows[s].id = list[n]  BY <1>5, <1>9, <3>1
      <3>3. QED  BY <1>2, <1>9, <3>1, <3>2 DEF FollowsTo
    <2>2. CASE s > w
      <3>1. s \in w + 1 .. w + x /\ o + (s - w) \in 1 .. Len(list)  BY <1>3, <1>4, <2>2
      <3>2. n = o + (s - w)  BY <1>6, <1>9, <3>1 DEF EachOnce
      <3>3. CASE r <= w
        <4>1. r \in 1 .. w  BY <3>3
        <4>2. PICK p \in 1 .. o : all[r].id = list[p]  BY <1>7, <4>1
        <4>3. p \in 1 .. Len(list)  BY <1>4
        <4>4. m = p  BY <1>9, <4>2, <4>3 DEF EachOnce
        <4>5. QED  BY <1>4, <3>1, <3>2, <4>4
      <3>4. CASE r > w
        <4>1. r \in w + 1 .. w + x /\ o + (r - w) \in 1 .. Len(list)  BY <1>3, <1>4, <3>4
        <4>2. m = o + (r - w)  BY <1>6, <1>9, <4>1 DEF EachOnce
        <4>3. QED  BY <1>4, <1>9, <3>2, <4>2
      <3>5. QED  BY <3>3, <3>4
    <2>3. QED  BY <2>1, <2>2
  <1>10. ASSUME NEW n \in 1 .. o + x PROVE list[n] \in Huge \/ \E r \in 1 .. w + x : all[r].id = list[n]
    <2>1. CASE n <= o
      <3>1. n \in 1 .. o  BY <1>4, <2>1
      <3>2. list[n] \in Huge \/ \E r \in 1 .. w : rows[r].id = list[n]  BY <1>2, <3>1 DEF FollowsTo
      <3>3. \A r \in 1 .. w : r \in 1 .. w + x  OBVIOUS
      <3>4. QED  BY <1>5, <3>2, <3>3
    <2>2. CASE n > o
      <3>1. PICK r \in w + 1 .. w + x : r = w + (n - o)  BY <1>4, <2>2
      <3>2. o + (r - w) = n /\ r \in 1 .. w + x  BY <1>4, <3>1
      <3>3. QED  BY <1>6, <3>2
    <2>3. n <= o \/ n > o  BY <1>4
    <2>4. QED  BY <2>1, <2>2, <2>3
  <1>11. o + x \in 0 .. Len(list)  BY <1>3, <1>4
  <1>12. FollowsTo(all, list, o + x)  BY <1>5, <1>8, <1>9, <1>10, <1>11 DEF FollowsTo
  <1>13. QED  BY <1>1, <1>3, <1>12

(* What was stepped over is read, and not shown.                            *)
LEMMA FollowsPast ==
    ASSUME NEW rows, NEW list, Len(list) \in Nat, NEW o, NEW q \in 0 .. Len(list), FollowsTo(rows, list, o), o <= q,
           \A n \in o + 1 .. q : list[n] \in Huge
    PROVE  FollowsTo(rows, list, q)
  <1>1. o \in 0 .. Len(list)  BY DEF FollowsTo
  <1>2. \A n \in 1 .. o : n \in 1 .. q  BY <1>1
  <1>3. \A r \in 1 .. Len(rows) : \E n \in 1 .. q : rows[r].id = list[n]  BY <1>2 DEF FollowsTo
  <1>4. ASSUME NEW n \in 1 .. q PROVE list[n] \in Huge \/ \E r \in 1 .. Len(rows) : rows[r].id = list[n]
    <2>1. n \in 1 .. o \/ n \in o + 1 .. q  BY <1>1
    <2>2. QED  BY <2>1 DEF FollowsTo
  <1>5. QED  BY <1>3, <1>4 DEF FollowsTo

\* The same ids, whatever else the rows say.
SameIds(rows, more) == Len(more) = Len(rows) /\ \A r \in 1 .. Len(rows) : more[r].id = rows[r].id

LEMMA FollowsAlike ==
    ASSUME NEW rows, NEW more, NEW list, NEW o, SameIds(rows, more), FollowsTo(rows, list, o)
    PROVE  FollowsTo(more, list, o)
  BY DEF FollowsTo, SameIds

(* Rows cut short follow the list to the last of them.                      *)
LEMMA FollowsCut ==
    ASSUME NEW S, NEW T, NEW list \in Seq(S), EachOnce(list), NEW rows \in Seq(T), NEW o, FollowsTo(rows, list, o),
           NEW w \in 1 .. Len(rows)
    PROVE  \E q \in Nat : FollowsTo(SubSeq(rows, 1, w), list, q)
  <1>1. PICK cut : cut = SubSeq(rows, 1, w)  OBVIOUS
  <1>2. Len(cut) = w /\ \A r \in 1 .. w : cut[r] = rows[r]
    BY <1>1, SubSeqProperties
  <1>3. w \in Nat /\ w <= Len(rows) /\ Len(rows) \in Nat /\ Len(list) \in Nat  OBVIOUS
  <1>4. o \in 0 .. Len(list)  BY DEF FollowsTo
  <1>5. PICK q \in 1 .. o : rows[w].id = list[q]  BY DEF FollowsTo
  <1>6. q \in 1 .. Len(list)  BY <1>4
  <1>7. ASSUME NEW r \in 1 .. w PROVE \E n \in 1 .. q : rows[r].id = list[n]
    <2>1. r \in 1 .. Len(rows)  BY <1>3
    <2>2. PICK n \in 1 .. o : rows[r].id = list[n]  BY <2>1 DEF FollowsTo
    <2>3. n \in 1 .. Len(list)  BY <1>4
    <2>4. CASE r = w  BY <1>5, <2>4
    <2>5. CASE r < w
      <3>1. n < q  BY <1>5, <1>6, <2>1, <2>2, <2>3, <2>5 DEF FollowsTo
      <3>2. n \in 1 .. q  BY <3>1
      <3>3. QED  BY <2>2, <3>2
    <2>6. QED  BY <2>4, <2>5
  <1>8. ASSUME NEW n \in 1 .. q PROVE list[n] \in Huge \/ \E r \in 1 .. w : rows[r].id = list[n]
    <2>1. n \in 1 .. o /\ n \in 1 .. Len(list)  BY <1>4
    <2>2. SUFFICES ASSUME NEW r \in 1 .. Len(rows), rows[r].id = list[n] PROVE r <= w
      <3>1. list[n] \in Huge \/ \E r \in 1 .. Len(rows) : rows[r].id = list[n]  BY <2>1 DEF FollowsTo
      <3>2. \A r \in 1 .. Len(rows) : r <= w => r \in 1 .. w  BY <1>3
      <3>3. QED  BY <2>2, <3>1, <3>2
    <2>3. w < r => q < n  BY <1>5, <1>6, <2>1, <2>2 DEF FollowsTo
    <2>4. QED  BY <1>3, <2>3
  <1>9. \A r, s \in 1 .. w : r < s =>
          \A m, n \in 1 .. Len(list) : rows[r].id = list[m] /\ rows[s].id = list[n] => m < n
    <2>1. \A r \in 1 .. w : r \in 1 .. Len(rows)  BY <1>3
    <2>2. QED  BY <2>1 DEF FollowsTo
  <1>10. FollowsTo(cut, list, q)
    <2>1. q \in 0 .. Len(list)  BY <1>6
    <2>2. \A r \in 1 .. w : \E n \in 1 .. q : cut[r].id = list[n]  BY <1>2, <1>7
    <2>3. \A n \in 1 .. q : list[n] \in Huge \/ \E r \in 1 .. w : cut[r].id = list[n]  BY <1>2, <1>8
    <2>4. \A r, s \in 1 .. w : r < s =>
            \A m, n \in 1 .. Len(list) : cut[r].id = list[m] /\ cut[s].id = list[n] => m < n
      BY <1>2, <1>9
    <2>5. QED  BY <1>2, <2>1, <2>2, <2>3, <2>4 DEF FollowsTo
  <1>11. q \in Nat  OBVIOUS
  <1>12. QED  BY <1>1, <1>10, <1>11

\* A level of the browser's stack, and what its rows are of the list.
LevelRec ==
    [kind : LevelKinds, platform : {0} \cup DOMAIN RomsOf, mapped : BOOLEAN, cursor : Nat,
     rows : Seq(ShownRow), selected : Nat, has_more : BOOLEAN, loading : BOOLEAN,
     replace_rows : BOOLEAN, page_error : PageErrors, truncated : BOOLEAN, empty_pages : {0}]

ShowsAll(rows, list) ==
    \A n \in 1 .. Len(list) : list[n] \in Huge \/ \E r \in 1 .. Len(rows) : rows[r].id = list[n]

LevelFits(v) ==
    /\ v \in LevelRec /\ v.selected <= Len(v.rows) /\ Len(v.rows) <= kMaxLoadedRows
    /\ v.kind = "roms" => v.platform \in DOMAIN RomsOf
    /\ v.truncated => ~v.has_more /\ v.page_error = "ok" /\ v.cursor # 0

LevelFollows(v) ==
    v.kind # "queue" =>
        /\ \E o \in Nat : FollowsTo(v.rows, ListOf(v.kind, v.platform), o)
        /\ v.cursor # 0 /\ ~v.has_more /\ ~v.truncated /\ v.page_error = "ok" =>
             ShowsAll(v.rows, ListOf(v.kind, v.platform))

LevelGood(v) == LevelFits(v) /\ LevelFollows(v)

LEMMA LevelIsServed ==
    ASSUME NEW v, LevelFits(v), v.kind # "queue"
    PROVE  Served(v.kind, v.platform)
  BY DEF LevelFits, LevelRec, LevelKinds, Served

(* What the property says of one level.                                     *)
LEMMA LevelShown ==
    ASSUME NEW v, LevelGood(v), v.kind # "queue", NEW list, list = Items(v.kind, v.platform)
    PROVE  /\ \A r, s \in DOMAIN v.rows : r < s =>
                (CHOOSE n \in DOMAIN list : list[n] = v.rows[r].id) <
                (CHOOSE n \in DOMAIN list : list[n] = v.rows[s].id)
           /\ \A r \in DOMAIN v.rows, n \in DOMAIN list :
                n < (CHOOSE m \in DOMAIN list : list[m] = v.rows[r].id) =>
                    list[n] \in {v.rows[s].id : s \in DOMAIN v.rows} \cup Huge
           /\ (v.cursor # 0 /\ ~v.has_more /\ ~v.truncated /\ v.page_error = "ok") =>
                \A n \in DOMAIN list : list[n] \in {v.rows[s].id : s \in DOMAIN v.rows} \cup Huge
  <1>1. Served(v.kind, v.platform)  BY LevelIsServed DEF LevelGood
  <1>2. /\ list = ListOf(v.kind, v.platform) /\ list \in Seq(RowIds) /\ Len(list) \in Nat
        /\ DOMAIN list = 1 .. Len(list) /\ EachOnce(list)
    BY <1>1, ServedLists
  <1>3. v.rows \in Seq(ShownRow) /\ DOMAIN v.rows = 1 .. Len(v.rows) /\ Len(v.rows) \in Nat
    BY DEF LevelGood, LevelFits, LevelRec
  <1>4. PICK o \in Nat : FollowsTo(v.rows, list, o)  BY <1>2 DEF LevelGood, LevelFollows
  <1>5. o \in 0 .. Len(list)  BY <1>4 DEF FollowsTo
  <1>6. ASSUME NEW r \in DOMAIN v.rows
        PROVE  /\ (CHOOSE n \in DOMAIN list : list[n] = v.rows[r].id) \in 1 .. o
               /\ list[CHOOSE n \in DOMAIN list : list[n] = v.rows[r].id] = v.rows[r].id
    <2>1. PICK n \in 1 .. o : v.rows[r].id = list[n]  BY <1>3, <1>4 DEF FollowsTo
    <2>2. n \in DOMAIN list  BY <1>2, <1>5
    <2>3. PICK m : m = CHOOSE n_1 \in DOMAIN list : list[n_1] = v.rows[r].id  OBVIOUS
    <2>4. m \in DOMAIN list /\ list[m] = v.rows[r].id  BY <2>1, <2>2, <2>3
    <2>5. m = n  BY <1>2, <2>1, <2>2, <2>4 DEF EachOnce
    <2>6. QED  BY <2>3, <2>4, <2>5
  <1>7. ASSUME NEW r \in DOMAIN v.rows, NEW s \in DOMAIN v.rows, r < s
        PROVE  (CHOOSE n \in DOMAIN list : list[n] = v.rows[r].id) <
               (CHOOSE n \in DOMAIN list : list[n] = v.rows[s].id)
    <2>1. PICK m : m = CHOOSE n \in DOMAIN list : list[n] = v.rows[r].id  OBVIOUS
    <2>2. PICK p : p = CHOOSE n \in DOMAIN list : list[n] = v.rows[s].id  OBVIOUS
    <2>3. m \in 1 .. o /\ list[m] = v.rows[r].id /\ p \in 1 .. o /\ list[p] = v.rows[s].id
      BY <1>6, <2>1, <2>2
    <2>4. m \in 1 .. Len(list) /\ p \in 1 .. Len(list)  BY <1>5, <2>3
    <2>5. m < p  BY <1>3, <1>4, <1>7, <2>3, <2>4 DEF FollowsTo
    <2>6. QED  BY <2>1, <2>2, <2>5
  <1>8. ASSUME NEW r \in DOMAIN v.rows, NEW n \in DOMAIN list,
               n < (CHOOSE m \in DOMAIN list : list[m] = v.rows[r].id)
        PROVE  list[n] \in {v.rows[s].id : s \in DOMAIN v.rows} \cup Huge
    <2>1. PICK m : m = CHOOSE p \in DOMAIN list : list[p] = v.rows[r].id  OBVIOUS
    <2>2. m \in 1 .. o /\ n < m  BY <1>6, <1>8, <2>1
    <2>3. n \in 1 .. o  BY <1>2, <1>5, <2>2
    <2>4. list[n] \in Huge \/ \E s \in 1 .. Len(v.rows) : v.rows[s].id = list[n]
      BY <1>4, <2>3 DEF FollowsTo
    <2>5. QED  BY <1>3, <2>4
  <1>9. ASSUME v.cursor # 0, ~v.has_more, ~v.truncated, v.page_error = "ok", NEW n \in DOMAIN list
        PROVE  list[n] \in {v.rows[s].id : s \in DOMAIN v.rows} \cup Huge
    <2>1. ShowsAll(v.rows, list)  BY <1>2, <1>9 DEF LevelGood, LevelFollows
    <2>2. QED  BY <1>2, <1>3, <2>1 DEF ShowsAll
  <1>10. QED  BY <1>7, <1>8, <1>9

(* The rows a page's items are drawn as.                                    *)
LEMMA RowsRead ==
    ASSUME NEW v, v.kind \in LevelKinds, NEW items \in Seq(SentItem)
    PROVE  \E more \in Seq(ShownRow) :
             /\ more = [i \in 1 .. Len(items) |-> ReadRow(v, items[i])]
             /\ Len(more) = Len(items) /\ \A i \in 1 .. Len(items) : more[i].id = items[i].id
  <1>1. ASSUME NEW i \in 1 .. Len(items)
        PROVE  ReadRow(v, items[i]) \in ShownRow /\ ReadRow(v, items[i]).id = items[i].id
    <2>1. PICK x \in SentItem : x = items[i]  OBVIOUS
    <2>2. x.id \in RowIds  BY DEF SentItem
    <2>3. CASE v.kind = "platforms"
      <3>1. ReadRow(v, x) = ReadPlatform(x)  BY <2>3 DEF ReadRow
      <3>2. PICK w : w = IF x.id \in Mapped THEN "inert" ELSE "unmapped"  OBVIOUS
      <3>3. w \in RowStates  BY <3>2 DEF RowStates
      <3>4. ReadPlatform(x) = [id |-> x.id, state |-> w]  BY <3>2 DEF ReadPlatform
      <3>5. QED  BY <2>1, <2>2, <3>1, <3>3, <3>4 DEF ShownRow
    <2>4. CASE v.kind = "roms"
      <3>1. ReadRow(v, x) = ReadRom(x, v.mapped)  BY <2>4 DEF ReadRow
      <3>2. PICK w : w = PredictEnqueue(x.id, v.mapped, x.queued)  OBVIOUS
      <3>3. w \in RowStates  BY <3>2 DEF PredictEnqueue, RowStates
      <3>4. ReadRom(x, v.mapped) = [id |-> x.id, state |-> w]  BY <3>2 DEF ReadRom
      <3>5. QED  BY <2>1, <2>2, <3>1, <3>3, <3>4 DEF ShownRow
    <2>5. CASE v.kind = "queue"
      <3>1. ReadRow(v, x) = ReadQueueEntry(x)  BY <2>5 DEF ReadRow
      <3>2. QED  BY <2>1, <2>2, <3>1 DEF ReadQueueEntry, ShownRow, RowStates
    <2>6. QED  BY <2>3, <2>4, <2>5 DEF LevelKinds
  <1>2. PICK more : more = [i \in 1 .. Len(items) |-> ReadRow(v, items[i])]  OBVIOUS
  <1>3. \A i \in 1 .. Len(items) : more[i] \in ShownRow /\ more[i].id = items[i].id  BY <1>1, <1>2
  <1>4. more \in Seq(ShownRow) /\ Len(more) = Len(items)
    <2>1. Len(items) \in Nat /\ DOMAIN more = 1 .. Len(items)  BY <1>2
    <2>2. more \in [1 .. Len(items) -> ShownRow]  BY <1>2, <1>3
    <2>3. QED  BY <2>1, <2>2
  <1>5. QED  BY <1>2, <1>3, <1>4

\* The rows a page is put behind.
RowsBefore(v) == IF v.replace_rows THEN <<>> ELSE v.rows

LEMMA BaseIsRows ==
    ASSUME NEW v, LevelFits(v)
    PROVE  RowsBefore(v) \in Seq(ShownRow)
  <1>1. v.rows \in Seq(ShownRow) /\ <<>> \in Seq(ShownRow)  BY DEF LevelFits, LevelRec
  <1>2. QED  BY <1>1 DEF RowsBefore

(* Where the selection is left, it is on a row or on the one below.         *)
LEMMA SelectionStays ==
    ASSUME NEW v \in LevelRec, NEW more \in BOOLEAN
    PROVE  \E k \in Nat : k <= Len(v.rows) /\ Reselected(v, more) = [v EXCEPT !.selected = k]
  <1>1. v.rows \in Seq(ShownRow) /\ Len(v.rows) \in Nat /\ v.selected \in Nat  BY DEF LevelRec
  <1>2. LastRowIndex(v) \in Nat /\ LastRowIndex(v) <= Len(v.rows)
    <2>1. CASE v.rows = <<>>  BY <1>1, <2>1 DEF LastRowIndex
    <2>2. CASE v.rows # <<>>
      <3>1. Len(v.rows) # 0  BY <1>1, <2>2
      <3>2. LastRowIndex(v) = Len(v.rows) - 1  BY <2>2 DEF LastRowIndex
      <3>3. QED  BY <1>1, <3>1, <3>2
    <2>3. QED  BY <2>1, <2>2
  <1>3. PICK k : k = IF more THEN IF HasMoreRow(v) THEN Len(v.rows) ELSE LastRowIndex(v)
                     ELSE IF v.selected >= Len(v.rows) THEN LastRowIndex(v) ELSE v.selected
    OBVIOUS
  <1>4. k \in Nat /\ k <= Len(v.rows)
    <2>1. CASE v.selected >= Len(v.rows)  BY <1>1, <1>2, <1>3, <2>1
    <2>2. CASE v.selected < Len(v.rows)  BY <1>1, <1>2, <1>3, <2>2
    <2>3. QED  BY <1>1, <2>1, <2>2
  <1>5. Reselected(v, more) = [v EXCEPT !.selected = k]  BY <1>3 DEF Reselected
  <1>6. QED  BY <1>4, <1>5

\* What a level is after a page: the rows there were, or as many as a screen may hold.
Drawn(v, d, all, more) ==
    /\ LevelFits(d)
    /\ d.kind = v.kind /\ d.platform = v.platform /\ d.cursor = v.cursor
    /\ ~d.replace_rows /\ d.page_error = "ok"
    /\ \/ d.rows = all /\ ~d.truncated /\ d.has_more = more
       \/ /\ kMaxLoadedRows <= Len(all) /\ d.rows = SubSeq(all, 1, kMaxLoadedRows)
          /\ ~d.has_more /\ d.truncated = (more \/ kMaxLoadedRows < Len(all))

LEMMA PageDrawn ==
    ASSUME NEW v, LevelFits(v), v.has_more, v.cursor # 0, NEW page, page.items \in Seq(SentItem),
           page.has_more \in BOOLEAN, page.pending = FALSE, page.has_more => page.items # <<>>
    PROVE  \E more \in Seq(ShownRow) :
             /\ Len(more) = Len(page.items)
             /\ \A i \in 1 .. Len(page.items) : more[i].id = page.items[i].id
             /\ Drawn(v, OnPage(v, page), RowsBefore(v) \o more, page.has_more)
  <1>1. v \in LevelRec /\ v.kind \in LevelKinds /\ v.truncated = FALSE /\ v.empty_pages = 0
    BY DEF LevelFits, LevelRec
  <1>2. PICK more \in Seq(ShownRow) :
          /\ more = [i \in 1 .. Len(page.items) |-> ReadRow(v, page.items[i])]
          /\ Len(more) = Len(page.items) /\ \A i \in 1 .. Len(page.items) : more[i].id = page.items[i].id
    BY <1>1, RowsRead
  <1>3. PICK all \in Seq(ShownRow) : all = RowsBefore(v) \o more
    <2>1. RowsBefore(v) \o more \in Seq(ShownRow)  BY BaseIsRows
    <2>2. QED  BY <2>1
  <1>4. PICK was \in BOOLEAN : was = (v.rows # <<>> /\ v.selected >= Len(v.rows))  OBVIOUS
  <1>5. PICK shown : shown = [v EXCEPT !.rows = all, !.replace_rows = FALSE, !.loading = FALSE,
                                !.truncated = FALSE, !.empty_pages = 0]
    OBVIOUS
  <1>6. shown = [v EXCEPT !.rows = all, !.replace_rows = FALSE, !.loading = FALSE,
                     !.truncated = IF v.replace_rows THEN FALSE ELSE @, !.empty_pages = 0]
    BY <1>1, <1>5
  <1>7. ~(page.items = <<>> /\ page.has_more)  OBVIOUS
  <1>8. OnPage(v, page) =
          Reselected(
              IF Len(all) >= kMaxLoadedRows
              THEN [shown EXCEPT !.page_error = "ok", !.has_more = FALSE,
                       !.truncated = page.has_more \/ Len(all) > kMaxLoadedRows,
                       !.rows = SubSeq(all, 1, kMaxLoadedRows)]
              ELSE [shown EXCEPT !.page_error = "ok", !.has_more = page.has_more], was)
    BY <1>2, <1>3, <1>4, <1>6, <1>7, Zenon DEF OnPage, RowsBefore
  <1>9. Len(all) \in Nat /\ kMaxLoadedRows \in Nat /\ kMaxLoadedRows >= 1  BY LibraryConstants
  <1>10. shown \in LevelRec
    <2>1. 0 \in {0}  OBVIOUS
    <2>2. QED  BY <1>1, <1>5 DEF LevelRec
  <1>11. "ok" \in PageErrors  BY DEF PageErrors
  <1>12. CASE Len(all) >= kMaxLoadedRows
    <2>1. PICK over \in BOOLEAN : over = (page.has_more \/ Len(all) > kMaxLoadedRows)  OBVIOUS
    <2>2. PICK cut \in Seq(ShownRow) : cut = SubSeq(all, 1, kMaxLoadedRows) /\ Len(cut) = kMaxLoadedRows
      <3>1. PICK cut : cut = SubSeq(all, 1, kMaxLoadedRows)  OBVIOUS
      <3>2. \A i \in 1 .. kMaxLoadedRows : all[i] \in ShownRow  BY <1>9, <1>12
      <3>3. cut \in Seq(ShownRow) /\ Len(cut) = kMaxLoadedRows
        BY <1>9, <1>12, <3>1, <3>2, SubSeqProperties
      <3>4. QED  BY <3>1, <3>3
    <2>3. PICK e : e = [shown EXCEPT !.page_error = "ok", !.has_more = FALSE, !.truncated = over, !.rows = cut]
      OBVIOUS
    <2>4. e \in LevelRec  BY <1>10, <1>11, <2>1, <2>2, <2>3 DEF LevelRec
    <2>5. OnPage(v, page) = Reselected(e, was)  BY <1>8, <1>12, <2>1, <2>2, <2>3
    <2>6. PICK k \in Nat : k <= Len(e.rows) /\ Reselected(e, was) = [e EXCEPT !.selected = k]
      BY <2>4, SelectionStays
    <2>7. PICK d : d = [e EXCEPT !.selected = k]  OBVIOUS
    <2>8. d \in LevelRec  BY <2>4, <2>7 DEF LevelRec
    <2>9. /\ e.rows = cut /\ ~e.has_more /\ e.truncated = over /\ e.page_error = "ok" /\ ~e.replace_rows
          /\ e.kind = v.kind /\ e.platform = v.platform /\ e.cursor = v.cursor
      BY <1>1, <1>5, <2>3 DEF LevelRec
    <2>10. /\ d.rows = cut /\ ~d.has_more /\ d.truncated = over /\ d.page_error = "ok" /\ ~d.replace_rows
           /\ d.kind = v.kind /\ d.platform = v.platform /\ d.cursor = v.cursor /\ d.selected = k
      BY <2>4, <2>7, <2>9 DEF LevelRec
    <2>11. LevelFits(d)
      BY <1>9, <2>2, <2>6, <2>8, <2>9, <2>10 DEF LevelFits
    <2>12. Drawn(v, d, all, page.has_more)
      BY <1>9, <1>12, <2>1, <2>2, <2>10, <2>11 DEF Drawn
    <2>13. QED  BY <1>2, <1>3, <2>5, <2>6, <2>7, <2>12
  <1>13. CASE Len(all) < kMaxLoadedRows
    <2>1. PICK e : e = [shown EXCEPT !.page_error = "ok", !.has_more = page.has_more]
      OBVIOUS
    <2>2. e \in LevelRec  BY <1>10, <1>11, <2>1 DEF LevelRec
    <2>3. OnPage(v, page) = Reselected(e, was)
      <3>1. ~(Len(all) >= kMaxLoadedRows)  BY <1>9, <1>13
      <3>2. QED  BY <1>8, <2>1, <3>1
    <2>4. PICK k \in Nat : k <= Len(e.rows) /\ Reselected(e, was) = [e EXCEPT !.selected = k]
      BY <2>2, SelectionStays
    <2>5. PICK d : d = [e EXCEPT !.selected = k]  OBVIOUS
    <2>6. d \in LevelRec  BY <2>2, <2>5 DEF LevelRec
    <2>7. /\ e.rows = all /\ e.has_more = page.has_more /\ ~e.truncated /\ e.page_error = "ok"
          /\ ~e.replace_rows
          /\ e.kind = v.kind /\ e.platform = v.platform /\ e.cursor = v.cursor
      BY <1>1, <1>5, <2>1 DEF LevelRec
    <2>8. /\ d.rows = all /\ d.has_more = page.has_more /\ ~d.truncated /\ d.page_error = "ok"
          /\ ~d.replace_rows /\ d.kind = v.kind /\ d.platform = v.platform /\ d.cursor = v.cursor
          /\ d.selected = k
      BY <2>2, <2>5, <2>7 DEF LevelRec
    <2>9. LevelFits(d)
      BY <1>9, <1>13, <2>4, <2>6, <2>7, <2>8 DEF LevelFits
    <2>10. Drawn(v, d, all, page.has_more)  BY <2>8, <2>9 DEF Drawn
    <2>11. QED  BY <1>2, <1>3, <2>3, <2>4, <2>5, <2>10
  <1>14. QED  BY <1>9, <1>12, <1>13

(* A page that goes on where the rows end leaves a level that follows.      *)
LEMMA PageContinues ==
    ASSUME NEW v, LevelFits(v), v.kind # "queue", NEW more \in Seq(ShownRow), NEW o, NEW has \in BOOLEAN, NEW d,
           NEW list, list = ListOf(v.kind, v.platform),
           FollowsTo(RowsBefore(v), list, o), o + Len(more) <= Len(list),
           \A k \in 1 .. Len(more) : more[k].id = list[o + k],
           ~has => o + Len(more) = Len(list),
           Drawn(v, d, RowsBefore(v) \o more, has)
    PROVE  LevelGood(d) /\ (~d.truncated => FollowsTo(d.rows, list, o + Len(more)))
  <1>1. Served(v.kind, v.platform)  BY LevelIsServed
  <1>2. list \in Seq(RowIds) /\ EachOnce(list) /\ Len(list) \in Nat  BY <1>1, ServedLists
  <1>3. PICK q : q = o + Len(more)  OBVIOUS
  <1>4. o \in 0 .. Len(list) /\ Len(more) \in Nat /\ q \in Nat /\ q <= Len(list)
    BY <1>2, <1>3 DEF FollowsTo
  <1>5. PICK all : all = RowsBefore(v) \o more  OBVIOUS
  <1>6. all \in Seq(ShownRow) /\ Len(all) \in Nat  BY <1>5, BaseIsRows
  <1>7. FollowsTo(all, list, q)  BY <1>2, <1>3, <1>5, BaseIsRows, FollowsMore
  <1>8. q = Len(list) => ShowsAll(all, list)  BY <1>7 DEF FollowsTo, ShowsAll
  <1>9. Drawn(v, d, all, has)  BY <1>5
  <1>10. LevelFits(d) /\ d.kind = v.kind /\ d.platform = v.platform  BY <1>9 DEF Drawn
  <1>11. CASE d.rows = all /\ ~d.truncated /\ d.has_more = has
    <2>1. ~d.has_more => ShowsAll(d.rows, list)  BY <1>3, <1>8, <1>11
    <2>2. FollowsTo(d.rows, list, q)  BY <1>7, <1>11
    <2>3. LevelFollows(d)  BY <1>4, <1>10, <2>1, <2>2 DEF LevelFollows
    <2>4. QED  BY <1>3, <1>10, <2>2, <2>3 DEF LevelGood
  <1>12. CASE /\ kMaxLoadedRows <= Len(all) /\ d.rows = SubSeq(all, 1, kMaxLoadedRows)
              /\ ~d.has_more /\ d.truncated = (has \/ kMaxLoadedRows < Len(all))
    <2>1. kMaxLoadedRows \in 1 .. Len(all)  BY <1>6, <1>12, LibraryConstants
    <2>2. CASE d.truncated
      <3>1. \E p \in Nat : FollowsTo(d.rows, list, p)  BY <1>2, <1>6, <1>7, <1>12, <2>1, FollowsCut
      <3>2. LevelFollows(d)  BY <1>10, <2>2, <3>1 DEF LevelFollows
      <3>3. QED  BY <1>10, <2>2, <3>2 DEF LevelGood
    <2>3. CASE ~d.truncated
      <3>0. ~has /\ ~(kMaxLoadedRows < Len(all))  BY <1>12, <2>3, Zenon
      <3>1. ~has /\ kMaxLoadedRows = Len(all)  BY <1>6, <1>12, <2>1, <3>0
      <3>2. d.rows = all  BY <1>6, <1>12, <3>1
      <3>3. FollowsTo(d.rows, list, q) /\ ShowsAll(d.rows, list)  BY <1>3, <1>7, <1>8, <3>1, <3>2
      <3>4. LevelFollows(d)  BY <1>4, <1>10, <3>3 DEF LevelFollows
      <3>5. QED  BY <1>3, <1>10, <3>3, <3>4 DEF LevelGood
    <2>4. QED  BY <2>2, <2>3
  <1>13. QED  BY <1>9, <1>11, <1>12 DEF Drawn

-----------------------------------------------------------------------------
(* The service's entries, and what they answer.                             *)

EntryRec ==
    [id : Nat \ {0}, kind : LevelKinds, platform : {0} \cup DOMAIN RomsOf, offset : Nat,
     exhausted : BOOLEAN, fetch : Fetches, ready : Seq(SentItem), has_more : BOOLEAN,
     failure : PageErrors, waiting : BOOLEAN, loaded : BOOLEAN]

\* Items that go on where the list was read to, and say truly whether it goes on.
GoesOn(items, list, o, more) ==
    /\ o + Len(items) <= Len(list)
    /\ \A k \in 1 .. Len(items) : items[k].id = list[o + k]
    /\ ~more => o + Len(items) = Len(list)

EntryGood(e) ==
    /\ e \in EntryRec
    /\ e.kind = "roms" => e.platform \in DOMAIN RomsOf
    /\ e.waiting \/ e.fetch = "failed" => e.failure # "ok"
    /\ e.fetch = "running" =>
         (e.kind = "platforms" => ~e.loaded) /\ ~e.exhausted /\ e.kind # "queue"
    /\ e.kind # "queue" => e.offset <= Len(ListOf(e.kind, e.platform))
    /\ e.exhausted => e.kind = "roms" /\ e.offset = Len(ListOf(e.kind, e.platform))
    /\ e.kind = "roms" /\ e.fetch = "ready" =>
         /\ GoesOn(e.ready, ListOf(e.kind, e.platform), e.offset, e.has_more)
         /\ e.has_more => e.ready # <<>>

LEMMA EntryIsServed ==
    ASSUME NEW e, EntryGood(e), e.kind # "queue"
    PROVE  Served(e.kind, e.platform)
  BY DEF EntryGood, EntryRec, LevelKinds, Served

(* An entry's answer: what is delivered goes on from its offset, and moves it.*)
EntryAnswers(e, a) ==
    /\ EntryGood(a.entry) /\ a.entry.id = e.id
    /\ a.entry.kind = e.kind /\ a.entry.platform = e.platform
    /\ a.error \in PageErrors /\ a.pending \in BOOLEAN /\ a.has_more \in BOOLEAN
    /\ a.items \in Seq(SentItem)
    /\ a.error = "ok" /\ ~a.pending =>
         /\ a.has_more => a.items # <<>>
         /\ e.kind # "queue" =>
              /\ GoesOn(a.items, ListOf(e.kind, e.platform), e.offset, a.has_more)
              /\ a.entry.offset = e.offset + Len(a.items)
    /\ (a.error # "ok" \/ a.pending) /\ e.kind # "queue" => a.entry.offset = e.offset
    /\ e.fetch = "running" => a.entry = e

(* A page of what the service holds.                                        *)
LEMMA HeldPages ==
    ASSUME NEW e, e \in EntryRec, NEW list \in Seq(RowIds), NEW a \in PagesOf(e, list)
    PROVE  \E n \in Nat :
             /\ a.entry = [e EXCEPT !.offset = e.offset + n] /\ a.error = "ok" /\ a.pending = FALSE
             /\ a.items \in Seq(SentItem) /\ Len(a.items) = n
             /\ \A k \in 1 .. n : a.items[k].id = list[e.offset + k]
             /\ a.has_more \in BOOLEAN /\ (a.has_more <=> e.offset + n < Len(list))
             /\ (a.has_more => a.items # <<>>)
             /\ (e.offset <= Len(list) => e.offset + n <= Len(list))
  <1>1. e.offset \in Nat /\ Len(list) \in Nat /\ kPageSize \in Nat \ {0}
    BY LibraryConstants DEF EntryRec
  <1>2. PICK left \in Int : left = Len(list) - e.offset  BY <1>1
  <1>3. PICK n \in FillPage(left) :
          a = [entry |-> [e EXCEPT !.offset = @ + n], error |-> "ok", pending |-> FALSE,
               items |-> [i \in 1..n |-> [id |-> list[e.offset + i], queued |-> FALSE]],
               has_more |-> e.offset + n < Len(list)]
    BY <1>2 DEF PagesOf
  <1>4. /\ n \in Nat
        /\ left <= 0 => n = 0
        /\ left > 0 => n >= 1 /\ n <= left
    <2>1. CASE left <= 0  BY <1>3, <2>1 DEF FillPage
    <2>2. CASE left > 0 /\ left < kPageSize
      <3>1. n \in 1 .. left  BY <1>3, <2>2 DEF FillPage
      <3>2. QED  BY <2>2, <3>1
    <2>3. CASE left > 0 /\ ~(left < kPageSize)
      <3>1. n \in 1 .. kPageSize  BY <1>3, <2>3 DEF FillPage
      <3>2. QED  BY <1>1, <2>3, <3>1
    <2>4. QED  BY <2>1, <2>2, <2>3
  <1>5. PICK items : items = [i \in 1..n |-> [id |-> list[e.offset + i], queued |-> FALSE]]
    OBVIOUS
  <1>6. \A i \in 1 .. n : e.offset + i \in 1 .. Len(list)
    BY <1>1, <1>2, <1>4
  <1>7. \A i \in 1 .. n : items[i] = [id |-> list[e.offset + i], queued |-> FALSE]  BY <1>5
  <1>8. \A i \in 1 .. n : list[e.offset + i] \in RowIds  BY <1>6
  <1>9. ASSUME NEW i \in 1 .. n PROVE items[i] \in SentItem /\ items[i].id = list[e.offset + i]
    <2>1. PICK id \in RowIds : id = list[e.offset + i]  BY <1>8
    <2>2. items[i] = [id |-> id, queued |-> FALSE]  BY <1>7, <2>1
    <2>3. QED  BY <2>1, <2>2 DEF SentItem
  <1>10. items \in Seq(SentItem) /\ Len(items) = n
    <2>1. items \in [1 .. n -> SentItem]
      <3>1. items = [i \in 1 .. n |-> items[i]]  BY <1>5
      <3>2. QED  BY <1>9, <3>1
    <2>2. QED  BY <1>4, <2>1
  <1>11. e.offset + n < Len(list) => items # <<>>
    <2>1. e.offset + n < Len(list) => left > 0  BY <1>1, <1>2, <1>4
    <2>2. QED  BY <1>4, <1>10, <2>1
  <1>12. e.offset <= Len(list) => e.offset + n <= Len(list)  BY <1>1, <1>2, <1>4
  <1>13. PICK more \in BOOLEAN : more = (e.offset + n < Len(list))
    <2>1. PICK w \in Int : w = e.offset + n  BY <1>1, <1>4
    <2>2. PICK x \in Int : x = Len(list)  BY <1>1
    <2>3. PICK more \in BOOLEAN : more = (w < x)
      <3>1. (w < x) \in BOOLEAN  OBVIOUS
      <3>2. QED  BY <3>1, Zenon
    <2>4. QED  BY <2>1, <2>2, <2>3
  <1>14. a = [entry |-> [e EXCEPT !.offset = @ + n], error |-> "ok", pending |-> FALSE,
              items |-> items, has_more |-> more]
    BY <1>3, <1>5, <1>13
  <1>15. a.entry = [e EXCEPT !.offset = e.offset + n] /\ a.error = "ok" /\ a.pending = FALSE
         /\ a.items = items /\ a.has_more = more
    BY <1>14
  <1>16. QED  BY <1>4, <1>9, <1>10, <1>11, <1>12, <1>13, <1>15

LEMMA AnswersFollow ==
    ASSUME NEW e, EntryGood(e), wishes \in Seq(RowIds), NEW a \in ListNext(e)
    PROVE  EntryAnswers(e, a)
  <1>1. /\ e \in EntryRec /\ e.offset \in Nat /\ e.kind \in LevelKinds /\ e.fetch \in Fetches
        /\ e.ready \in Seq(SentItem) /\ e.has_more \in BOOLEAN /\ e.failure \in PageErrors
    BY DEF EntryGood, EntryRec
  <1>2. PICK list : list = ListOf(e.kind, e.platform)  OBVIOUS
  <1>3. e.kind # "queue" =>
          list \in Seq(RowIds) /\ Len(list) \in Nat /\ e.offset <= Len(list)
    BY <1>2, EntryIsServed, ServedLists DEF EntryGood
  <1>4. "idle" \in Fetches /\ "running" \in Fetches /\ "ok" \in PageErrors /\ <<>> \in Seq(SentItem)
    BY DEF Fetches, PageErrors
  <1>5. CASE e.kind = "queue"
    <2>1. a \in PagesOf(e, wishes)  BY <1>5 DEF ListNext, FillFromQueue
    <2>2. PICK n \in Nat :
             /\ a.entry = [e EXCEPT !.offset = e.offset + n] /\ a.error = "ok" /\ a.pending = FALSE
             /\ a.items \in Seq(SentItem) /\ Len(a.items) = n
             /\ \A k \in 1 .. n : a.items[k].id = wishes[e.offset + k]
             /\ a.has_more \in BOOLEAN /\ (a.has_more <=> e.offset + n < Len(wishes))
             /\ (a.has_more => a.items # <<>>)
             /\ (e.offset <= Len(wishes) => e.offset + n <= Len(wishes))
      BY <1>1, <2>1, HeldPages
    <2>3. PICK m \in Nat : m = e.offset + n  BY <1>1
    <2>4. PICK x : x = [e EXCEPT !.offset = m]  OBVIOUS
    <2>5. x \in EntryRec  BY <1>1, <2>4 DEF EntryRec
    <2>6. /\ x.id = e.id /\ x.kind = e.kind /\ x.platform = e.platform /\ x.waiting = e.waiting
          /\ x.fetch = e.fetch /\ x.failure = e.failure /\ x.loaded = e.loaded
          /\ x.exhausted = e.exhausted
      BY <1>1, <2>4 DEF EntryRec
    <2>7. EntryGood(x)  BY <1>5, <2>5, <2>6 DEF EntryGood
    <2>8. a.entry = x  BY <2>2, <2>3, <2>4
    <2>9. e.fetch # "running"  BY <1>5 DEF EntryGood
    <2>10. a.has_more \in BOOLEAN /\ a.pending \in BOOLEAN  BY <2>2
    <2>11. QED  BY <1>4, <1>5, <2>2, <2>6, <2>7, <2>8, <2>9, <2>10 DEF EntryAnswers
  <1>6. CASE e.kind = "platforms" /\ (e.loaded \/ e.fetch = "ready")
    <2>1. PICK b : b = [e EXCEPT !.fetch = "idle", !.loaded = TRUE]  OBVIOUS
    <2>2. b \in EntryRec  BY <1>1, <1>4, <2>1 DEF EntryRec
    <2>3. /\ b.id = e.id /\ b.kind = e.kind /\ b.platform = e.platform /\ b.waiting = e.waiting
          /\ b.fetch = "idle" /\ b.failure = e.failure /\ b.loaded = TRUE
          /\ b.exhausted = e.exhausted /\ b.offset = e.offset
      BY <1>1, <2>1 DEF EntryRec
    <2>4. list = PlatformList  BY <1>2, <1>6 DEF ListOf
    <2>5. a \in PagesOf(b, list)  BY <1>6, <2>1, <2>4 DEF ListNext, FillFromPlatforms
    <2>6. PICK n \in Nat :
             /\ a.entry = [b EXCEPT !.offset = b.offset + n] /\ a.error = "ok" /\ a.pending = FALSE
             /\ a.items \in Seq(SentItem) /\ Len(a.items) = n
             /\ \A k \in 1 .. n : a.items[k].id = list[b.offset + k]
             /\ a.has_more \in BOOLEAN /\ (a.has_more <=> b.offset + n < Len(list))
             /\ (a.has_more => a.items # <<>>)
             /\ (b.offset <= Len(list) => b.offset + n <= Len(list))
      BY <1>3, <1>6, <2>2, <2>5, HeldPages
    <2>7. PICK m \in Nat : m = e.offset + n  BY <1>1
    <2>8. PICK x : x = [b EXCEPT !.offset = m]  OBVIOUS
    <2>9. x \in EntryRec  BY <2>2, <2>8 DEF EntryRec
    <2>10. /\ x.id = e.id /\ x.kind = e.kind /\ x.platform = e.platform /\ x.waiting = e.waiting
           /\ x.fetch = "idle" /\ x.failure = e.failure /\ x.offset = m /\ x.exhausted = e.exhausted
      BY <2>2, <2>3, <2>8 DEF EntryRec
    <2>11. m <= Len(list) /\ (a.has_more <=> m < Len(list))  BY <1>3, <1>6, <2>3, <2>6, <2>7
    <2>12. EntryGood(x)
      <3>1. ~e.exhausted  BY <1>6 DEF EntryGood
      <3>2. QED  BY <1>2, <1>6, <2>9, <2>10, <2>11, <3>1 DEF EntryGood
    <2>13. a.entry = x  BY <2>3, <2>6, <2>7, <2>8
    <2>14. GoesOn(a.items, list, e.offset, a.has_more)
      BY <1>1, <1>3, <1>6, <2>3, <2>6, <2>7, <2>11 DEF GoesOn
    <2>15. e.fetch # "running"  BY <1>6 DEF EntryGood
    <2>16. a.has_more \in BOOLEAN /\ a.pending \in BOOLEAN  BY <2>6
    <2>17. QED
      BY <1>2, <1>4, <2>6, <2>7, <2>10, <2>12, <2>13, <2>14, <2>15, <2>16 DEF EntryAnswers
  <1>7. CASE e.kind = "roms" /\ e.fetch = "ready"
    <2>1. PICK m \in Nat : m = e.offset + Len(e.ready)  BY <1>1
    <2>2. PICK done \in BOOLEAN : done = ~e.has_more  OBVIOUS
    <2>3. PICK x : x = [e EXCEPT !.fetch = "idle", !.ready = <<>>, !.exhausted = done, !.offset = m]
      OBVIOUS
    <2>4. x \in EntryRec  BY <1>1, <1>4, <2>3 DEF EntryRec
    <2>5. /\ x.id = e.id /\ x.kind = e.kind /\ x.platform = e.platform /\ x.waiting = e.waiting
          /\ x.fetch = "idle" /\ x.failure = e.failure /\ x.offset = m /\ x.exhausted = done
      BY <1>1, <2>3 DEF EntryRec
    <2>6. a = Answer(x, e.ready, e.has_more, FALSE, "ok")
      BY <1>7, <2>1, <2>2, <2>3 DEF ListNext
    <2>7. /\ a.entry = x /\ a.items = e.ready /\ a.has_more = e.has_more /\ a.pending = FALSE
          /\ a.error = "ok"
      BY <2>6 DEF Answer
    <2>8. GoesOn(e.ready, list, e.offset, e.has_more) /\ (e.has_more => e.ready # <<>>)
      BY <1>2, <1>7 DEF EntryGood
    <2>9. m <= Len(list) /\ (done => m = Len(list))  BY <2>1, <2>2, <2>8 DEF GoesOn
    <2>10. EntryGood(x)  BY <1>2, <1>7, <2>4, <2>5, <2>9 DEF EntryGood
    <2>11. QED  BY <1>1, <1>2, <1>4, <1>7, <2>1, <2>5, <2>7, <2>8, <2>10 DEF EntryAnswers
  <1>8. CASE ~(e.kind = "queue" \/ (e.kind = "platforms" /\ (e.loaded \/ e.fetch = "ready"))
               \/ (e.kind = "roms" /\ e.fetch = "ready"))
    <2>1. e.fetch # "ready" /\ e.kind # "queue" /\ ~(e.kind = "platforms" /\ e.loaded)
      BY <1>1, <1>8 DEF LevelKinds
    <2>2. CASE e.fetch = "failed"
      <3>1. PICK x : x = [e EXCEPT !.fetch = "idle"]  OBVIOUS
      <3>2. x \in EntryRec  BY <1>1, <1>4, <3>1 DEF EntryRec
      <3>3. /\ x.id = e.id /\ x.kind = e.kind /\ x.platform = e.platform /\ x.waiting = e.waiting
            /\ x.fetch = "idle" /\ x.failure = e.failure /\ x.offset = e.offset
            /\ x.exhausted = e.exhausted
        BY <1>1, <3>1 DEF EntryRec
      <3>4. EntryGood(x)  BY <3>2, <3>3 DEF EntryGood
      <3>5. a = Answer(x, <<>>, FALSE, FALSE, e.failure)  BY <2>1, <2>2, <3>1 DEF ListNext
      <3>6. /\ a.entry = x /\ a.items = <<>> /\ a.has_more = FALSE /\ a.pending = FALSE
            /\ a.error = e.failure
        BY <3>5 DEF Answer
      <3>7. e.failure # "ok"  BY <2>2 DEF EntryGood
      <3>8. QED  BY <1>1, <1>4, <2>2, <3>3, <3>4, <3>6, <3>7 DEF EntryAnswers
    <2>3. CASE e.fetch = "running"
      <3>1. a = Answer(e, <<>>, FALSE, TRUE, "ok")  BY <2>1, <2>3 DEF ListNext
      <3>2. a.entry = e /\ a.items = <<>> /\ a.has_more = FALSE /\ a.pending = TRUE /\ a.error = "ok"
        BY <3>1 DEF Answer
      <3>3. QED  BY <1>4, <3>2 DEF EntryAnswers
    <2>4. CASE e.fetch = "idle" /\ e.exhausted
      <3>1. a = Answer(e, <<>>, FALSE, FALSE, "ok")  BY <2>1, <2>4 DEF ListNext
      <3>2. a.entry = e /\ a.items = <<>> /\ a.has_more = FALSE /\ a.pending = FALSE /\ a.error = "ok"
        BY <3>1 DEF Answer
      <3>3. e.offset = Len(list)  BY <1>2, <2>4 DEF EntryGood
      <3>4. GoesOn(<<>>, list, e.offset, FALSE)  BY <1>1, <3>3 DEF GoesOn
      <3>5. a.entry.offset = e.offset + Len(a.items)  BY <1>1, <3>2
      <3>6. QED  BY <1>2, <1>4, <3>2, <3>4, <3>5 DEF EntryAnswers
    <2>5. CASE e.fetch = "idle" /\ ~e.exhausted /\ e.waiting
      <3>1. a = Answer(e, <<>>, FALSE, FALSE, e.failure)  BY <2>1, <2>5 DEF ListNext
      <3>2. a.entry = e /\ a.items = <<>> /\ a.has_more = FALSE /\ a.pending = FALSE /\ a.error = e.failure
        BY <3>1 DEF Answer
      <3>3. e.failure # "ok"  BY <2>5 DEF EntryGood
      <3>4. QED  BY <1>1, <1>4, <3>2, <3>3 DEF EntryAnswers
    <2>6. CASE e.fetch = "idle" /\ ~e.exhausted /\ ~e.waiting
      <3>1. PICK x : x = [e EXCEPT !.fetch = "running"]  OBVIOUS
      <3>2. x \in EntryRec  BY <1>1, <1>4, <3>1 DEF EntryRec
      <3>3. /\ x.id = e.id /\ x.kind = e.kind /\ x.platform = e.platform /\ x.waiting = e.waiting
            /\ x.fetch = "running" /\ x.failure = e.failure /\ x.offset = e.offset
            /\ x.exhausted = e.exhausted /\ x.loaded = e.loaded
        BY <1>1, <3>1 DEF EntryRec
      <3>4. a = Answer(x, <<>>, FALSE, TRUE, "ok")  BY <2>1, <2>6, <3>1 DEF ListNext
      <3>5. a.entry = x /\ a.items = <<>> /\ a.has_more = FALSE /\ a.pending = TRUE /\ a.error = "ok"
        BY <3>4 DEF Answer
      <3>6. e.kind = "platforms" => ~x.loaded  BY <1>1, <2>1, <3>3
      <3>7. EntryGood(x)  BY <2>1, <2>6, <3>2, <3>3, <3>6 DEF EntryGood
      <3>8. QED  BY <1>4, <2>6, <3>3, <3>5, <3>7 DEF EntryAnswers
    <2>7. QED  BY <1>1, <2>1, <2>2, <2>3, <2>4, <2>5, <2>6 DEF Fetches
  <1>9. QED  BY <1>5, <1>6, <1>7, <1>8

-----------------------------------------------------------------------------
(* The browser and the service together.                                    *)

\* An entry has read as far as the rows of the level that asks it for more.
Tied(v, e) ==
    v.cursor = e.id =>
        /\ e.kind = v.kind /\ e.platform = v.platform
        /\ v.kind # "queue" /\ ~v.truncated =>
             FollowsTo(RowsBefore(v), ListOf(v.kind, v.platform), e.offset)

BrowserRec ==
    [stack : Seq(LevelRec), closing : Seq(Nat), wanted : RowIds, closed : BOOLEAN,
     link : {"ok", "down"}]

StackGood(stack, next) ==
    /\ stack \in Seq(LevelRec) /\ Len(stack) > 0
    /\ \A i \in 1 .. Len(stack) : LevelGood(stack[i]) /\ stack[i].cursor < next

EntriesGood(es, next) ==
    /\ es \in Seq(EntryRec) /\ Len(es) <= kMaxCursors
    /\ \A j \in 1 .. Len(es) : EntryGood(es[j]) /\ es[j].id < next
    /\ \A i, j \in 1 .. Len(es) : es[i].id = es[j].id => i = j

\* No two levels ask the same entry.
Apart(stack) ==
    \A i, j \in 1 .. Len(stack) :
        stack[i].cursor = stack[j].cursor /\ stack[i].cursor # 0 => i = j

AllTied(stack, es) == \A i \in 1 .. Len(stack), j \in 1 .. Len(es) : Tied(stack[i], es[j])

Shaped(b, next) == b \in BrowserRec /\ StackGood(b.stack, next)

\* Only a browser whose link held knows what its cursors have read.
Sound(b, es, next) ==
    Shaped(b, next) /\ (b.link = "ok" => Apart(b.stack) /\ AllTied(b.stack, es))

\* The entry a request was made for, if it is still there, waits for it unmoved.
InHand(f, es, next) ==
    f # NoFetch =>
        /\ f.id \in Nat /\ f.id < next
        /\ \A j \in 1 .. Len(es) : es[j].id = f.id =>
             es[j].fetch = "running" /\ es[j].kind = f.kind /\ es[j].platform = f.platform
                 /\ es[j].offset = f.offset

LEMMA NewLevelGood ==
    ASSUME NEW kind \in LevelKinds, NEW platform \in {0} \cup DOMAIN RomsOf,
           kind = "roms" => platform \in DOMAIN RomsOf, NEW mapped \in BOOLEAN
    PROVE  /\ LevelGood(NewLevel(kind, platform, mapped)) /\ NewLevel(kind, platform, mapped) \in LevelRec
           /\ NewLevel(kind, platform, mapped).cursor = 0
  <1>1. PICK v : v = NewLevel(kind, platform, mapped)  OBVIOUS
  <1>2. /\ v.kind = kind /\ v.platform = platform /\ v.cursor = 0 /\ v.rows = <<>> /\ v.selected = 0
        /\ v.has_more /\ ~v.truncated
    BY <1>1 DEF NewLevel
  <1>3. v \in LevelRec
    <2>1. <<>> \in Seq(ShownRow) /\ 0 \in Nat /\ "ok" \in PageErrors  BY DEF PageErrors
    <2>2. QED  BY <1>1, <2>1 DEF NewLevel, LevelRec
  <1>4. LevelFits(v)  BY <1>2, <1>3, LibraryConstants DEF LevelFits
  <1>5. v.kind # "queue" => FollowsTo(v.rows, ListOf(v.kind, v.platform), 0)
    <2>1. SUFFICES ASSUME v.kind # "queue" PROVE FollowsTo(v.rows, ListOf(v.kind, v.platform), 0)
      OBVIOUS
    <2>2. Len(ListOf(v.kind, v.platform)) \in Nat  BY <1>4, <2>1, LevelIsServed, ServedLists
    <2>3. QED  BY <1>2, <2>2, FollowsNone
  <1>6. LevelFollows(v)  BY <1>2, <1>5 DEF LevelFollows
  <1>7. QED  BY <1>1, <1>2, <1>3, <1>4, <1>6 DEF LevelGood

LEMMA OneLevel ==
    ASSUME NEW v \in LevelRec, LevelGood(v), v.cursor = 0, NEW b \in BrowserRec, b.stack = <<v>>,
           NEW next \in Nat \ {0}, NEW es \in Seq(EntryRec)
    PROVE  Sound(b, es, next)
  <1>1. Len(b.stack) = 1 /\ b.stack[1] = v /\ b.stack \in Seq(LevelRec)  OBVIOUS
  <1>2. StackGood(b.stack, next)  BY <1>1 DEF StackGood
  <1>3. Apart(b.stack)  BY <1>1 DEF Apart
  <1>4. AllTied(b.stack, es)
    <2>1. ASSUME NEW j \in 1 .. Len(es) PROVE Tied(v, es[j])
      <3>0. es[j] \in EntryRec  OBVIOUS
      <3>1. es[j].id # 0  BY <3>0 DEF EntryRec
      <3>2. QED  BY <3>1 DEF Tied
    <2>2. QED  BY <1>1, <2>1 DEF AllTied
  <1>5. QED  BY <1>2, <1>3, <1>4 DEF Sound, Shaped

(* A browser just opened, or closed, asks nothing.                          *)
LEMMA FreshIsSound ==
    ASSUME NEW next \in Nat \ {0}, NEW es \in Seq(EntryRec)
    PROVE  /\ Sound(NewBrowser, es, next) /\ Sound([NewBrowser EXCEPT !.closed = TRUE], es, next)
           /\ NewBrowser.link = "ok" /\ Top(NewBrowser).cursor = 0
  <1>1. PICK v \in LevelRec : v = NewLevel("platforms", 0, TRUE) /\ LevelGood(v) /\ v.cursor = 0
    BY NewLevelGood DEF LevelKinds
  <1>2. PICK b : b = NewBrowser  OBVIOUS
  <1>3. PICK c : c = [NewBrowser EXCEPT !.closed = TRUE]  OBVIOUS
  <1>4. <<v>> \in Seq(LevelRec) /\ <<>> \in Seq(Nat) /\ 0 \in RowIds  BY DEF RowIds
  <1>5. b = [stack |-> <<v>>, closing |-> <<>>, wanted |-> 0, closed |-> FALSE, link |-> "ok"]
    BY <1>1, <1>2 DEF NewBrowser
  <1>6. c = [stack |-> <<v>>, closing |-> <<>>, wanted |-> 0, closed |-> TRUE, link |-> "ok"]
    <2>1. c = [b EXCEPT !.closed = TRUE]  BY <1>2, <1>3
    <2>2. QED  BY <1>5, <2>1
  <1>7. b \in BrowserRec /\ b.stack = <<v>>  BY <1>4, <1>5 DEF BrowserRec
  <1>8. c \in BrowserRec /\ c.stack = <<v>>  BY <1>4, <1>6 DEF BrowserRec
  <1>9. Sound(b, es, next) /\ Sound(c, es, next)  BY <1>1, <1>7, <1>8, OneLevel
  <1>10. Top(b).cursor = 0
    <2>1. Len(b.stack) = 1 /\ b.stack[1] = v  BY <1>7
    <2>2. QED  BY <1>1, <2>1 DEF Top
  <1>11. QED  BY <1>2, <1>3, <1>5, <1>9, <1>10

LEMMA TopOf ==
    ASSUME NEW b, NEW next \in Nat, Shaped(b, next)
    PROVE  /\ Len(b.stack) \in Nat /\ Len(b.stack) \in 1 .. Len(b.stack) /\ Top(b) = b.stack[Len(b.stack)]
           /\ Top(b) \in LevelRec /\ LevelGood(Top(b)) /\ LevelFits(Top(b)) /\ LevelFollows(Top(b))
           /\ Top(b).cursor < next /\ Top(b).cursor \in Nat
  <1>1. b.stack \in Seq(LevelRec) /\ Len(b.stack) > 0 /\ Len(b.stack) \in Nat
    BY DEF Shaped, StackGood
  <1>2. Len(b.stack) \in 1 .. Len(b.stack)  BY <1>1
  <1>3. Top(b) = b.stack[Len(b.stack)]  BY DEF Top
  <1>4. LevelGood(Top(b)) /\ Top(b).cursor < next  BY <1>2, <1>3 DEF Shaped, StackGood
  <1>5. Top(b) \in LevelRec  BY <1>4 DEF LevelGood, LevelFits
  <1>6. Top(b).cursor \in Nat  BY <1>5 DEF LevelRec
  <1>7. QED  BY <1>1, <1>2, <1>3, <1>4, <1>5, <1>6 DEF LevelGood

(* The level on top, and nothing else, is another.                          *)
LEMMA TopShaped ==
    ASSUME NEW b, NEW next \in Nat, Shaped(b, next), NEW later \in Nat, next <= later,
           NEW v, LevelGood(v), v.cursor < later
    PROVE  /\ Shaped(WithTop(b, v), later) /\ Len(WithTop(b, v).stack) = Len(b.stack)
           /\ WithTop(b, v).stack[Len(b.stack)] = v
           /\ \A i \in 1 .. Len(b.stack) : i # Len(b.stack) => WithTop(b, v).stack[i] = b.stack[i]
           /\ WithTop(b, v).link = b.link /\ WithTop(b, v).closing = b.closing
           /\ WithTop(b, v).wanted = b.wanted /\ WithTop(b, v).closed = b.closed
  <1>1. PICK n \in Nat : n = Len(b.stack) /\ n \in 1 .. n  BY TopOf
  <1>2. b \in BrowserRec /\ b.stack \in Seq(LevelRec)  BY DEF Shaped, StackGood
  <1>3. v \in LevelRec  BY DEF LevelGood, LevelFits
  <1>4. PICK new : new = [b.stack EXCEPT ![n] = v]  OBVIOUS
  <1>5. /\ new \in Seq(LevelRec) /\ Len(new) = n /\ new[n] = v
        /\ \A i \in 1 .. n : i # n => new[i] = b.stack[i]
    BY <1>1, <1>2, <1>3, <1>4
  <1>6. WithTop(b, v) = [b EXCEPT !.stack = new]
    BY <1>1, <1>2, <1>4 DEF WithTop, BrowserRec
  <1>7. PICK c : c = [b EXCEPT !.stack = new]  OBVIOUS
  <1>8. /\ c \in BrowserRec /\ c.stack = new /\ c.link = b.link /\ c.closing = b.closing
        /\ c.wanted = b.wanted /\ c.closed = b.closed
    BY <1>2, <1>5, <1>7 DEF BrowserRec
  <1>9. StackGood(new, later)
    <2>1. ASSUME NEW i \in 1 .. n PROVE LevelGood(new[i]) /\ new[i].cursor < later
      <3>1. CASE i = n  BY <1>5, <3>1
      <3>2. CASE i # n
        <4>1. new[i] = b.stack[i]  BY <1>5, <3>2
        <4>2. LevelGood(b.stack[i]) /\ b.stack[i].cursor < next /\ b.stack[i] \in LevelRec
          BY <1>1, <1>2 DEF Shaped, StackGood
        <4>3. b.stack[i].cursor \in Nat  BY <4>2 DEF LevelRec
        <4>4. QED  BY <4>1, <4>2, <4>3
      <3>3. QED  BY <3>1, <3>2
    <2>2. QED  BY <1>1, <1>5, <2>1 DEF StackGood
  <1>10. Shaped(c, later)  BY <1>8, <1>9 DEF Shaped
  <1>11. QED  BY <1>1, <1>5, <1>6, <1>7, <1>8, <1>10

(* It stays tied to the entries, if the levels below it and it itself are.  *)
LEMMA TopSound ==
    ASSUME NEW b, NEW next \in Nat, Shaped(b, next), NEW later \in Nat, next <= later,
           NEW v, LevelGood(v), v.cursor < later, NEW es, Apart(b.stack),
           \A i \in 1 .. Len(b.stack) : i # Len(b.stack) /\ v.cursor = b.stack[i].cursor => v.cursor = 0,
           \A i \in 1 .. Len(b.stack), j \in 1 .. Len(es) : i # Len(b.stack) => Tied(b.stack[i], es[j]),
           \A j \in 1 .. Len(es) : Tied(v, es[j])
    PROVE  Sound(WithTop(b, v), es, later)
  <1>1. PICK n \in Nat : n = Len(b.stack) /\ n \in 1 .. n  BY TopOf
  <1>2. PICK new : new = WithTop(b, v).stack  OBVIOUS
  <1>3. /\ Shaped(WithTop(b, v), later) /\ Len(new) = n /\ new[n] = v
        /\ \A i \in 1 .. n : i # n => new[i] = b.stack[i]
    BY <1>1, <1>2, TopShaped
  <1>4. Apart(new)
    <2>1. ASSUME NEW i \in 1 .. n, NEW j \in 1 .. n, new[i].cursor = new[j].cursor, new[i].cursor # 0
          PROVE  i = j
      <3>1. CASE i = n /\ j # n  BY <1>1, <1>3, <2>1, <3>1
      <3>2. CASE j = n /\ i # n  BY <1>1, <1>3, <2>1, <3>2
      <3>3. CASE i # n /\ j # n
        <4>1. new[i] = b.stack[i] /\ new[j] = b.stack[j]  BY <1>3, <3>3
        <4>2. QED  BY <1>1, <2>1, <4>1 DEF Apart
      <3>4. QED  BY <3>1, <3>2, <3>3
    <2>2. QED  BY <1>3, <2>1 DEF Apart
  <1>5. AllTied(new, es)
    <2>1. ASSUME NEW i \in 1 .. n, NEW j \in 1 .. Len(es) PROVE Tied(new[i], es[j])
      <3>1. CASE i = n  BY <1>3, <3>1
      <3>2. CASE i # n  BY <1>1, <1>3, <3>2
      <3>3. QED  BY <3>1, <3>2
    <2>2. QED  BY <1>3, <2>1 DEF AllTied
  <1>6. QED  BY <1>2, <1>3, <1>4, <1>5 DEF Sound

LEMMA LinkLost ==
    ASSUME NEW b, NEW next, Shaped(b, next), NEW es
    PROVE  Sound(OnUnreachable(b), es, next)
  <1>1. PICK c : c = OnUnreachable(b)  OBVIOUS
  <1>2. b \in BrowserRec /\ 0 \in RowIds  BY DEF Shaped, RowIds
  <1>3. c \in BrowserRec /\ c.stack = b.stack /\ c.link = "down"
    BY <1>1, <1>2 DEF OnUnreachable, BrowserRec
  <1>4. QED  BY <1>1, <1>3 DEF Sound, Shaped

(* Answered or not, the browser is sound.                                   *)
LEMMA SentIsSound ==
    ASSUME NEW b, NEW answered, NEW next, NEW es, Shaped(b, next), Sound(answered, es, next),
           Send(b, answered)
    PROVE  Sound(browser', es, next)
  <1>1. PICK c : c = browser'  OBVIOUS
  <1>2. c = answered \/ c = OnUnreachable(b)  BY <1>1 DEF Send
  <1>3. Sound(c, es, next)  BY <1>2, LinkLost
  <1>4. QED  BY <1>1, <1>3

\* Some of the entries, in whatever places.
Thinned(more, es) ==
    /\ more \in Seq(EntryRec) /\ Len(more) <= Len(es)
    /\ \E at \in [1 .. Len(more) -> 1 .. Len(es)] :
         /\ \A i, j \in 1 .. Len(more) : at[i] = at[j] => i = j
         /\ \A i \in 1 .. Len(more) : more[i] = es[at[i]]

LEMMA ThinnedBy ==
    ASSUME NEW more, more \in Seq(EntryRec), NEW es, Len(more) <= Len(es),
           NEW at, at \in [1 .. Len(more) -> 1 .. Len(es)],
           \A i, j \in 1 .. Len(more) : at[i] = at[j] => i = j,
           \A i \in 1 .. Len(more) : more[i] = es[at[i]]
    PROVE  Thinned(more, es)
  BY DEF Thinned

LEMMA ThinnedGood ==
    ASSUME NEW next, NEW es, EntriesGood(es, next), NEW more, Thinned(more, es)
    PROVE  /\ EntriesGood(more, next)
           /\ \A f : InHand(f, es, next) => InHand(f, more, next)
           /\ \A j \in 1 .. Len(more) : \E i \in 1 .. Len(es) : more[j] = es[i]
  <1>1. /\ more \in Seq(EntryRec) /\ Len(more) \in Nat /\ Len(more) <= Len(es)
        /\ es \in Seq(EntryRec) /\ Len(es) \in Nat /\ Len(es) <= kMaxCursors /\ kMaxCursors \in Nat
    BY LibraryConstants DEF Thinned, EntriesGood
  <1>2. PICK at \in [1 .. Len(more) -> 1 .. Len(es)] :
         /\ \A i, j \in 1 .. Len(more) : at[i] = at[j] => i = j
         /\ \A i \in 1 .. Len(more) : more[i] = es[at[i]]
    BY DEF Thinned
  <1>3. \A i \in 1 .. Len(more) : at[i] \in 1 .. Len(es)  OBVIOUS
  <1>4. \A i, j \in 1 .. Len(more) : more[i].id = more[j].id => i = j
    <2>1. ASSUME NEW i \in 1 .. Len(more), NEW j \in 1 .. Len(more), more[i].id = more[j].id PROVE i = j
      <3>1. es[at[i]].id = es[at[j]].id  BY <1>2, <2>1
      <3>2. at[i] = at[j]  BY <1>3, <3>1 DEF EntriesGood
      <3>3. QED  BY <1>2, <3>2
    <2>2. QED  BY <2>1
  <1>5. \A i \in 1 .. Len(more) : EntryGood(more[i]) /\ more[i].id < next
    BY <1>2, <1>3 DEF EntriesGood
  <1>6. EntriesGood(more, next)  BY <1>1, <1>4, <1>5 DEF EntriesGood
  <1>7. \A j \in 1 .. Len(more) : \E i \in 1 .. Len(es) : more[j] = es[i]  BY <1>2, <1>3
  <1>8. ASSUME NEW f, InHand(f, es, next) PROVE InHand(f, more, next)
    BY <1>7, <1>8 DEF InHand
  <1>9. QED  BY <1>6, <1>7, <1>8

LEMMA ThinnedTied ==
    ASSUME NEW es, NEW more, \A j \in 1 .. Len(more) : \E i \in 1 .. Len(es) : more[j] = es[i],
           NEW stack, AllTied(stack, es)
    PROVE  AllTied(stack, more)
  BY DEF AllTied

LEMMA AllOfThem ==
    ASSUME NEW es \in Seq(EntryRec)
    PROVE  Thinned(es, es)
  <1>1. PICK at : at = [i \in 1 .. Len(es) |-> i]  OBVIOUS
  <1>2. at \in [1 .. Len(es) -> 1 .. Len(es)] /\ \A i \in 1 .. Len(es) : at[i] = i  BY <1>1
  <1>3. QED  BY <1>2 DEF Thinned

LEMMA TailThins ==
    ASSUME NEW es \in Seq(EntryRec), es # <<>>
    PROVE  Thinned(Tail(es), es) /\ Len(Tail(es)) = Len(es) - 1
  <1>1. PICK n \in Nat : n = Len(es) /\ n > 0  OBVIOUS
  <1>2. PICK more : more = Tail(es)  OBVIOUS
  <1>3. more \in Seq(EntryRec) /\ Len(more) = n - 1 /\ \A i \in 1 .. n - 1 : more[i] = es[i + 1]
    BY <1>1, <1>2
  <1>4. PICK at : at = [i \in 1 .. n - 1 |-> i + 1]  OBVIOUS
  <1>5. at \in [1 .. n - 1 -> 1 .. n] /\ \A i \in 1 .. n - 1 : at[i] = i + 1  BY <1>1, <1>4
  <1>6. \A i, j \in 1 .. n - 1 : at[i] = at[j] => i = j  BY <1>1, <1>5
  <1>7. \A i \in 1 .. n - 1 : more[i] = es[at[i]]  BY <1>3, <1>5
  <1>8. Thinned(more, es)
    <2>1. PICK m \in Nat : m = n - 1 /\ m <= n  BY <1>1
    <2>2. Len(es) = n /\ Len(more) = m /\ at \in [1 .. m -> 1 .. n]  BY <1>1, <1>3, <1>5, <2>1
    <2>3. \A i, j \in 1 .. m : at[i] = at[j] => i = j  BY <1>6, <2>1
    <2>4. \A i \in 1 .. m : more[i] = es[at[i]]  BY <1>7, <2>1
    <2>5. Len(more) <= Len(es) /\ at \in [1 .. Len(more) -> 1 .. Len(es)]  BY <2>1, <2>2
    <2>6. more \in Seq(EntryRec)  BY <1>3
    <2>7. \A i, j \in 1 .. Len(more) : at[i] = at[j] => i = j  BY <2>2, <2>3
    <2>8. \A i \in 1 .. Len(more) : more[i] = es[at[i]]  BY <2>2, <2>4
    <2>9. QED  BY <2>5, <2>6, <2>7, <2>8, ThinnedBy
  <1>9. QED  BY <1>1, <1>2, <1>3, <1>8

LEMMA WithoutThins ==
    ASSUME NEW es \in Seq(EntryRec), es = cursors, NEW k \in 1 .. Len(es)
    PROVE  /\ Thinned(Without(k), es) /\ Len(Without(k)) = Len(es) - 1
           /\ \A j \in 1 .. Len(Without(k)) : \E i \in 1 .. Len(es) : i # k /\ Without(k)[j] = es[i]
  <1>1. PICK n \in Nat : n = Len(es) /\ n > 0  OBVIOUS
  <1>2. PICK a : a = SubSeq(es, 1, k - 1)  OBVIOUS
  <1>3. PICK b : b = SubSeq(es, k + 1, n)  OBVIOUS
  <1>4. k \in Nat /\ k >= 1 /\ k <= n  BY <1>1
  <1>5. \A i \in 1 .. n : es[i] \in EntryRec  BY <1>1
  <1>6. a \in Seq(EntryRec) /\ Len(a) = k - 1 /\ \A i \in 1 .. k - 1 : a[i] = es[i]
    <2>1. \A i \in 1 .. k - 1 : es[i] \in EntryRec  BY <1>4, <1>5
    <2>2. QED  BY <1>2, <1>4, <2>1, SubSeqProperties
  <1>7. b \in Seq(EntryRec) /\ Len(b) = n - k /\ \A i \in 1 .. n - k : b[i] = es[k + i]
    <2>1. CASE k < n
      <3>1. \A i \in k + 1 .. n : es[i] \in EntryRec  BY <1>4, <1>5
      <3>2. QED  BY <1>1, <1>3, <1>4, <2>1, <3>1, SubSeqProperties
    <2>2. CASE k = n
      <3>1. b = <<>>  BY <1>1, <1>3, <1>4, <2>2, SubSeqProperties
      <3>2. QED  BY <1>4, <2>2, <3>1
    <2>3. QED  BY <1>4, <2>1, <2>2
  <1>8. PICK more : more = a \o b  OBVIOUS
  <1>9. more \in Seq(EntryRec) /\ Len(more) = n - 1
    <2>0. a \in Seq(EntryRec) /\ b \in Seq(EntryRec)  BY <1>6, <1>7
    <2>1. Len(more) = Len(a) + Len(b) /\ more \in Seq(EntryRec)  BY <1>8, <2>0
    <2>2. (k - 1) + (n - k) = n - 1  BY <1>4
    <2>3. QED  BY <1>6, <1>7, <2>1, <2>2
  <1>10. PICK at : at = [i \in 1 .. n - 1 |-> IF i < k THEN i ELSE i + 1]  OBVIOUS
  <1>11. ASSUME NEW i \in 1 .. n - 1
         PROVE  at[i] \in 1 .. n /\ at[i] # k /\ more[i] = es[at[i]]
    <2>1. CASE i < k
      <3>1. at[i] = i /\ i \in 1 .. k - 1  BY <1>4, <1>10, <2>1
      <3>2. more[i] = a[i]  BY <1>6, <1>7, <1>8, <3>1
      <3>3. QED  BY <1>4, <1>6, <2>1, <3>1, <3>2
    <2>2. CASE ~(i < k)
      <3>1. at[i] = i + 1 /\ i - (k - 1) \in 1 .. n - k /\ k + (i - (k - 1)) = i + 1
        BY <1>1, <1>4, <1>10, <2>2
      <3>2. more[i] = b[i - (k - 1)]  BY <1>4, <1>6, <1>7, <1>8, <2>2
      <3>3. more[i] = es[i + 1]  BY <1>7, <3>1, <3>2
      <3>4. QED  BY <1>4, <2>2, <3>1, <3>3
    <2>3. QED  BY <2>1, <2>2
  <1>12. at \in [1 .. n - 1 -> 1 .. n]
    <2>1. at = [i \in 1 .. n - 1 |-> at[i]]  BY <1>10
    <2>2. QED  BY <1>11, <2>1
  <1>13. \A i, j \in 1 .. n - 1 : at[i] = at[j] => i = j  BY <1>4, <1>10
  <1>14. Thinned(more, es)
    <2>1. PICK m \in Nat : m = n - 1 /\ m <= n  BY <1>1
    <2>2. Len(es) = n /\ Len(more) = m /\ at \in [1 .. m -> 1 .. n]  BY <1>1, <1>9, <1>12, <2>1
    <2>3. \A i, j \in 1 .. m : at[i] = at[j] => i = j  BY <1>13, <2>1
    <2>4. \A i \in 1 .. m : more[i] = es[at[i]]  BY <1>11, <2>1
    <2>5. Len(more) <= Len(es) /\ at \in [1 .. Len(more) -> 1 .. Len(es)]  BY <2>1, <2>2
    <2>6. \A i, j \in 1 .. Len(more) : at[i] = at[j] => i = j  BY <2>2, <2>3
    <2>7. \A i \in 1 .. Len(more) : more[i] = es[at[i]]  BY <2>2, <2>4
    <2>8. more \in Seq(EntryRec)  BY <1>9
    <2>9. QED  BY <2>5, <2>6, <2>7, <2>8, ThinnedBy
  <1>15. Without(k) = more  BY <1>1, <1>2, <1>3, <1>8 DEF Without
  <1>16. QED  BY <1>1, <1>9, <1>11, <1>14, <1>15

LEMMA EvictedThins ==
    ASSUME NEW next, EntriesGood(cursors, next)
    PROVE  Thinned(EvictOldest, cursors) /\ Len(EvictOldest) < kMaxCursors
  <1>1. cursors \in Seq(EntryRec) /\ Len(cursors) \in Nat /\ Len(cursors) <= kMaxCursors
        /\ kMaxCursors \in Nat \ {0}
    BY LibraryConstants DEF EntriesGood
  <1>2. CASE Len(cursors) >= kMaxCursors
    <2>1. cursors # <<>>  BY <1>1, <1>2
    <2>2. EvictOldest = Tail(cursors)  BY <1>2 DEF EvictOldest
    <2>3. Thinned(EvictOldest, cursors) /\ Len(EvictOldest) = Len(cursors) - 1
      BY <1>1, <2>1, <2>2, TailThins
    <2>4. QED  BY <1>1, <2>3
  <1>3. CASE ~(Len(cursors) >= kMaxCursors)
    <2>1. EvictOldest = cursors  BY <1>3 DEF EvictOldest
    <2>2. QED  BY <1>1, <1>3, <2>1, AllOfThem
  <1>4. QED  BY <1>2, <1>3

LEMMA RemainingThins ==
    ASSUME NEW es \in Seq(EntryRec), es = cursors, NEW ended, NEW more \in Remaining(ended)
    PROVE  Thinned(more, es)
  <1>1. PICK n \in Nat : n = Len(es)  OBVIOUS
  <1>2. PICK staying : staying = {i \in DOMAIN cursors : cursors[i].id \notin ended}  OBVIOUS
  <1>3. staying \subseteq 1 .. n  BY <1>1, <1>2
  <1>4. IsFiniteSet(1 .. n) /\ Cardinality(1 .. n) = n
    <2>1. IsFiniteSet(1 .. n) /\ Cardinality(1 .. n) = IF 1 > n THEN 0 ELSE n - 1 + 1
      BY FS_Interval
    <2>2. QED  BY <2>1
  <1>5. PICK w \in Nat : w = Cardinality(staying) /\ w <= n
    <2>1. IsFiniteSet(staying) /\ Cardinality(staying) <= n  BY <1>3, <1>4, FS_Subset
    <2>2. Cardinality(staying) \in Nat  BY <2>1, FS_CardinalityType
    <2>3. QED  BY <2>1, <2>2
  <1>6. PICK at \in [1 .. w -> staying] :
          /\ \A i, j \in DOMAIN at : i < j => at[i] < at[j]
          /\ more = [i \in DOMAIN at |-> cursors[at[i]]]
    BY <1>2, <1>5 DEF Remaining
  <1>7. more = [i \in 1 .. w |-> es[at[i]]] /\ \A i \in 1 .. w : at[i] \in 1 .. n
    BY <1>3, <1>6
  <1>8. more \in Seq(EntryRec) /\ Len(more) = w
    <2>1. \A i \in 1 .. w : es[at[i]] \in EntryRec  BY <1>1, <1>7
    <2>2. more \in [1 .. w -> EntryRec]  BY <1>7, <2>1
    <2>3. QED  BY <1>5, <2>2
  <1>9. at \in [1 .. w -> 1 .. n]  BY <1>3
  <1>10. \A i, j \in 1 .. w : at[i] = at[j] => i = j
    <2>1. ASSUME NEW i \in 1 .. w, NEW j \in 1 .. w, at[i] = at[j] PROVE i = j
      <3>1. at[i] \in Nat /\ at[j] \in Nat  BY <1>7
      <3>2. ~(i < j) /\ ~(j < i)  BY <1>6, <2>1, <3>1
      <3>3. QED  BY <1>5, <3>2
    <2>2. QED  BY <2>1
  <1>11. \A i \in 1 .. w : more[i] = es[at[i]]  BY <1>7
  <1>12. Len(more) <= Len(es) /\ at \in [1 .. Len(more) -> 1 .. Len(es)]  BY <1>1, <1>5, <1>8, <1>9
  <1>13. QED  BY <1>8, <1>10, <1>11, <1>12, ThinnedBy

LEMMA OneMoreEntry ==
    ASSUME NEW next \in Nat, NEW es, EntriesGood(es, next), Len(es) < kMaxCursors, NEW later \in Nat,
           next <= later, NEW e, EntryGood(e), e.id < later, \A j \in 1 .. Len(es) : es[j].id # e.id
    PROVE  /\ EntriesGood(Append(es, e), later)
           /\ \A f : InHand(f, es, next) /\ (f # NoFetch => f.id # e.id) => InHand(f, Append(es, e), later)
           /\ \A j \in 1 .. Len(Append(es, e)) : Append(es, e)[j] = e \/ \E i \in 1 .. Len(es) : Append(es, e)[j] = es[i]
  <1>1. es \in Seq(EntryRec) /\ Len(es) \in Nat /\ kMaxCursors \in Nat /\ e \in EntryRec
    BY LibraryConstants DEF EntriesGood, EntryGood
  <1>2. PICK n \in Nat : n = Len(es)  BY <1>1
  <1>3. PICK more : more = Append(es, e)  OBVIOUS
  <1>4. more \in Seq(EntryRec) /\ Len(more) = n + 1 /\ more[n + 1] = e /\ \A i \in 1 .. n : more[i] = es[i]
    BY <1>1, <1>2, <1>3
  <1>5. \A i \in 1 .. n + 1 : i = n + 1 \/ i \in 1 .. n  BY <1>2
  <1>6. ASSUME NEW i \in 1 .. n + 1 PROVE EntryGood(more[i]) /\ more[i].id < later
    <2>1. CASE i = n + 1  BY <1>4, <2>1
    <2>2. CASE i \in 1 .. n
      <3>1. EntryGood(es[i]) /\ es[i].id < next /\ es[i] \in EntryRec  BY <1>1, <1>2, <2>2 DEF EntriesGood
      <3>2. es[i].id \in Nat  BY <3>1 DEF EntryRec
      <3>3. QED  BY <1>4, <2>2, <3>1, <3>2
    <2>3. QED  BY <1>5, <2>1, <2>2
  <1>7. ASSUME NEW i \in 1 .. n + 1, NEW j \in 1 .. n + 1, more[i].id = more[j].id PROVE i = j
    <2>1. CASE i \in 1 .. n /\ j \in 1 .. n
      <3>1. es[i].id = es[j].id  BY <1>4, <1>7, <2>1
      <3>2. QED  BY <1>2, <2>1, <3>1 DEF EntriesGood
    <2>2. CASE i = n + 1 /\ j \in 1 .. n  BY <1>2, <1>4, <1>7, <2>2
    <2>3. CASE j = n + 1 /\ i \in 1 .. n  BY <1>2, <1>4, <1>7, <2>3
    <2>4. QED  BY <1>5, <2>1, <2>2, <2>3
  <1>8. EntriesGood(more, later)
    <2>1. Len(more) <= kMaxCursors  BY <1>1, <1>2, <1>4
    <2>2. QED  BY <1>4, <1>6, <1>7, <2>1 DEF EntriesGood
  <1>9. \A j \in 1 .. n + 1 : more[j] = e \/ \E i \in 1 .. n : more[j] = es[i]  BY <1>4, <1>5
  <1>10. ASSUME NEW f, InHand(f, es, next), f # NoFetch => f.id # e.id PROVE InHand(f, more, later)
    <2>1. SUFFICES ASSUME f # NoFetch PROVE InHand(f, more, later)  BY DEF InHand
    <2>2. f.id \in Nat /\ f.id < later  BY <1>10, <2>1 DEF InHand
    <2>3. ASSUME NEW j \in 1 .. n + 1, more[j].id = f.id
          PROVE more[j].fetch = "running" /\ more[j].kind = f.kind /\ more[j].platform = f.platform
                 /\ more[j].offset = f.offset
      <3>1. PICK i \in 1 .. n : more[j] = es[i]  BY <1>9, <1>10, <2>1, <2>3
      <3>2. QED  BY <1>2, <1>10, <2>1, <2>3, <3>1 DEF InHand
    <2>4. QED  BY <1>4, <2>2, <2>3 DEF InHand
  <1>11. QED  BY <1>2, <1>3, <1>4, <1>8, <1>9, <1>10

-----------------------------------------------------------------------------
(* Every step keeps them together.                                          *)

BrowseInv ==
    /\ Sound(browser, cursors, nextCursor) /\ EntriesGood(cursors, nextCursor)
    /\ InHand(fetch, cursors, nextCursor) /\ wishes \in Seq(RowIds) /\ nextCursor \in Nat \ {0}

LEMMA AlikeLevel ==
    ASSUME NEW v, LevelGood(v), NEW w \in LevelRec, w.kind = v.kind, w.platform = v.platform,
           SameIds(v.rows, w.rows), w.selected <= Len(w.rows),
           w.truncated => ~w.has_more /\ w.page_error = "ok" /\ w.cursor # 0,
           w.cursor # 0 /\ ~w.has_more /\ ~w.truncated /\ w.page_error = "ok" =>
             v.cursor # 0 /\ ~v.has_more /\ ~v.truncated /\ v.page_error = "ok"
    PROVE  LevelGood(w)
  <1>1. PICK list : list = ListOf(v.kind, v.platform)  OBVIOUS
  <1>2. Len(w.rows) = Len(v.rows) /\ Len(v.rows) \in Nat /\ Len(v.rows) <= kMaxLoadedRows
    BY DEF SameIds, LevelGood, LevelFits, LevelRec
  <1>3. LevelFits(w)  BY <1>2 DEF LevelGood, LevelFits
  <1>4. ASSUME v.kind # "queue" PROVE \E o \in Nat : FollowsTo(w.rows, list, o)
    <2>1. PICK o \in Nat : FollowsTo(v.rows, list, o)  BY <1>1, <1>4 DEF LevelGood, LevelFollows
    <2>2. FollowsTo(w.rows, list, o)  BY <2>1, FollowsAlike
    <2>3. QED  BY <2>2
  <1>5. ASSUME v.kind # "queue", w.cursor # 0 /\ ~w.has_more /\ ~w.truncated /\ w.page_error = "ok"
        PROVE  ShowsAll(w.rows, list)
    <2>1. ShowsAll(v.rows, list)  BY <1>1, <1>5 DEF LevelGood, LevelFollows
    <2>2. QED  BY <2>1 DEF ShowsAll, SameIds
  <1>6. LevelFollows(w)  BY <1>1, <1>4, <1>5 DEF LevelFollows
  <1>7. QED  BY <1>3, <1>6 DEF LevelGood

LEMMA TiedAlike ==
    ASSUME NEW v, NEW w, NEW e, Tied(v, e), w.cursor = v.cursor, w.kind = v.kind, w.platform = v.platform,
           ~w.truncated => ~v.truncated, SameIds(RowsBefore(v), RowsBefore(w))
    PROVE  Tied(w, e)
  BY FollowsAlike DEF Tied

LEMMA SameRows ==
    ASSUME NEW S, NEW rows \in Seq(S)
    PROVE  SameIds(rows, rows)
  BY DEF SameIds

\* The command is sent, and the answer is not in yet.
LEMMA WaitingLevel ==
    ASSUME NEW v, LevelGood(v), NEW busy \in BOOLEAN, NEW w, w = [v EXCEPT !.loading = busy]
    PROVE  /\ LevelGood(w) /\ LevelFits(w) /\ w \in LevelRec /\ \A e : Tied(v, e) => Tied(w, e)
           /\ w.kind = v.kind /\ w.platform = v.platform /\ w.cursor = v.cursor /\ w.rows = v.rows
           /\ w.replace_rows = v.replace_rows /\ w.has_more = v.has_more /\ w.truncated = v.truncated
           /\ w.selected = v.selected /\ w.page_error = v.page_error /\ w.empty_pages = v.empty_pages
           /\ w.mapped = v.mapped
  <1>1. v \in LevelRec  BY DEF LevelGood, LevelFits
  <1>2. /\ w \in LevelRec /\ w.kind = v.kind /\ w.platform = v.platform /\ w.cursor = v.cursor
        /\ w.rows = v.rows /\ w.replace_rows = v.replace_rows /\ w.has_more = v.has_more
        /\ w.truncated = v.truncated /\ w.selected = v.selected /\ w.page_error = v.page_error
        /\ w.empty_pages = v.empty_pages /\ w.mapped = v.mapped
    BY <1>1 DEF LevelRec
  <1>3. v.rows \in Seq(ShownRow)  BY <1>1 DEF LevelRec
  <1>4. SameIds(v.rows, w.rows)  BY <1>2, <1>3, SameRows
  <1>5. v.selected <= Len(v.rows) /\ (v.truncated => ~v.has_more /\ v.page_error = "ok" /\ v.cursor # 0)
    BY DEF LevelGood, LevelFits
  <1>6. LevelGood(w)  BY <1>2, <1>4, <1>5, AlikeLevel
  <1>7. RowsBefore(w) = RowsBefore(v)  BY <1>2 DEF RowsBefore
  <1>8. SameIds(RowsBefore(v), RowsBefore(w))  BY <1>7, BaseIsRows, SameRows DEF LevelGood
  <1>9. \A e : Tied(v, e) => Tied(w, e)  BY <1>2, <1>8, TiedAlike
  <1>10. QED  BY <1>2, <1>6, <1>9 DEF LevelGood

LEMMA CommandSays ==
    ASSUME NEW b
    PROVE  /\ NextCommand(b) = "list_begin" => Top(b).cursor = 0
           /\ NextCommand(b) = "list_next" =>
                b.closing = <<>> /\ Top(b).cursor # 0 /\ Top(b).has_more /\ Top(b).page_error = "ok"
           /\ NextCommand(b) = "list_end" => b.closing # <<>>
           /\ NextCommand(b) = "enqueue" => b.wanted # 0
  BY DEF NextCommand

LEMMA ReadyIsSound ==
    ASSUME BrowseInv
    PROVE  Sound(Ready, cursors, nextCursor) /\ Ready.link = "ok" /\ Shaped(Ready, nextCursor)
  <1>1. cursors \in Seq(EntryRec) /\ nextCursor \in Nat \ {0}  BY DEF BrowseInv, EntriesGood
  <1>2. CASE browser.link = "ok"
    <2>1. Ready = browser  BY <1>2 DEF Ready
    <2>2. QED  BY <1>2, <2>1 DEF BrowseInv, Sound
  <1>3. CASE browser.link # "ok"
    <2>1. Ready = NewBrowser  BY <1>3 DEF Ready
    <2>2. QED  BY <1>1, <2>1, FreshIsSound DEF Sound
  <1>4. QED  BY <1>2, <1>3

(* A cursor is opened for the level on top.                                 *)
LEMMA OpenedEntry ==
    ASSUME NEW v, LevelGood(v), NEW id \in Nat \ {0}, NEW e, e = NewEntry(id, v)
    PROVE  /\ EntryGood(e) /\ e.id = id /\ e.kind = v.kind /\ e.platform = v.platform /\ e.offset = 0
  <1>1. v \in LevelRec  BY DEF LevelGood, LevelFits
  <1>2. v.kind \in LevelKinds /\ v.platform \in {0} \cup DOMAIN RomsOf  BY <1>1 DEF LevelRec
  <1>3. /\ e.id = id /\ e.kind = v.kind /\ e.platform = v.platform /\ e.offset = 0
        /\ ~e.exhausted /\ e.fetch = "idle" /\ ~e.waiting
    BY DEF NewEntry
  <1>4. e \in EntryRec
    <2>1. "idle" \in Fetches /\ "ok" \in PageErrors /\ <<>> \in Seq(SentItem) /\ 0 \in Nat
      BY DEF Fetches, PageErrors
    <2>2. QED  BY <1>2, <2>1 DEF NewEntry, EntryRec
  <1>5. e.kind = "roms" => e.platform \in DOMAIN RomsOf  BY <1>3 DEF LevelGood, LevelFits
  <1>6. e.kind # "queue" => e.offset <= Len(ListOf(e.kind, e.platform))
    <2>1. SUFFICES ASSUME e.kind # "queue" PROVE 0 <= Len(ListOf(e.kind, e.platform))  BY <1>3
    <2>2. Len(ListOf(v.kind, v.platform)) \in Nat
      BY <1>3, <2>1, LevelIsServed, ServedLists DEF LevelGood
    <2>3. QED  BY <1>3, <2>2
  <1>7. EntryGood(e)  BY <1>3, <1>4, <1>5, <1>6 DEF EntryGood
  <1>8. QED  BY <1>3, <1>7

LEMMA OpenedLevel ==
    ASSUME NEW v, LevelGood(v), v.cursor = 0, NEW id \in Nat \ {0}, NEW w, w = OnCursor(v, id)
    PROVE  LevelGood(w) /\ w.cursor = id /\ w.kind = v.kind /\ w.platform = v.platform /\ RowsBefore(w) = <<>>
  <1>1. v \in LevelRec /\ v.rows \in Seq(ShownRow) /\ ~v.truncated /\ v.selected <= Len(v.rows)
    BY DEF LevelGood, LevelFits, LevelRec
  <1>2. PICK again \in BOOLEAN : again = (v.rows # <<>>)  OBVIOUS
  <1>3. w = [v EXCEPT !.cursor = id, !.loading = TRUE, !.page_error = "ok", !.empty_pages = 0,
                      !.replace_rows = again, !.has_more = TRUE]
    BY <1>2 DEF OnCursor
  <1>4. w \in LevelRec
    <2>1. "ok" \in PageErrors /\ 0 \in {0} /\ id \in Nat  BY DEF PageErrors
    <2>2. QED  BY <1>1, <1>2, <1>3, <2>1 DEF LevelRec
  <1>5. /\ w.cursor = id /\ w.kind = v.kind /\ w.platform = v.platform /\ w.rows = v.rows
        /\ w.replace_rows = again /\ w.has_more /\ w.truncated = v.truncated /\ w.selected = v.selected
    BY <1>1, <1>3 DEF LevelRec
  <1>6. SameIds(v.rows, w.rows)  BY <1>1, <1>5, SameRows
  <1>7. LevelGood(w)  BY <1>1, <1>4, <1>5, <1>6, AlikeLevel
  <1>8. RowsBefore(w) = <<>>  BY <1>2, <1>5 DEF RowsBefore
  <1>9. QED  BY <1>5, <1>7, <1>8

LEMMA BeginsKeepsInv ==
    ASSUME BrowseInv, FrameBegins
    PROVE  BrowseInv'
  <1>1. PICK next : next = nextCursor  OBVIOUS
  <1>2. PICK later : later = next + 1  OBVIOUS
  <1>3. next \in Nat \ {0} /\ later \in Nat \ {0} /\ next <= later /\ next < later
    BY <1>1, <1>2 DEF BrowseInv
  <1>4. PICK b : b = Ready  OBVIOUS
  <1>5. Sound(b, cursors, next) /\ b.link = "ok" /\ Shaped(b, next)  BY <1>1, <1>4, ReadyIsSound
  <1>6. PICK top : top = Top(b)  OBVIOUS
  <1>7. LevelGood(top) /\ top.cursor = 0
    <2>1. NextCommand(b) = "list_begin"  BY <1>4 DEF FrameBegins, Frame
    <2>2. QED  BY <1>3, <1>5, <1>6, <2>1, TopOf, CommandSays
  <1>8. PICK e : e = NewEntry(next, top)  OBVIOUS
  <1>9. EntryGood(e) /\ e.id = next /\ e.kind = top.kind /\ e.platform = top.platform /\ e.offset = 0
    BY <1>3, <1>7, <1>8, OpenedEntry
  <1>10. PICK v : v = OnCursor(top, next)  OBVIOUS
  <1>11. LevelGood(v) /\ v.cursor = next /\ v.kind = top.kind /\ v.platform = top.platform /\ RowsBefore(v) = <<>>
    BY <1>3, <1>7, <1>10, OpenedLevel
  <1>12. PICK w : w = [top EXCEPT !.loading = TRUE]  OBVIOUS
  <1>13. LevelGood(w) /\ w.cursor = 0  BY <1>7, <1>12, WaitingLevel
  <1>14. PICK es : es = Append(EvictOldest, e)  OBVIOUS
  <1>15. EntriesGood(cursors, next) /\ InHand(fetch, cursors, next)  BY <1>1 DEF BrowseInv
  <1>16. PICK staying : staying = EvictOldest  OBVIOUS
  <1>17. Thinned(staying, cursors) /\ Len(staying) < kMaxCursors  BY <1>15, <1>16, EvictedThins
  <1>18. EntriesGood(staying, next) /\ InHand(fetch, staying, next)
         /\ \A j \in 1 .. Len(staying) : \E i \in 1 .. Len(cursors) : staying[j] = cursors[i]
    BY <1>15, <1>17, ThinnedGood
  <1>19. \A j \in 1 .. Len(staying) : staying[j].id < next /\ staying[j].id \in Nat
    <2>1. ASSUME NEW j \in 1 .. Len(staying) PROVE staying[j].id < next /\ staying[j].id \in Nat
      <3>1. staying[j] \in EntryRec /\ staying[j].id < next  BY <1>18 DEF EntriesGood, EntryGood
      <3>2. QED  BY <3>1 DEF EntryRec
    <2>2. QED  BY <2>1
  <1>20. \A j \in 1 .. Len(staying) : staying[j].id # e.id  BY <1>3, <1>9, <1>19
  <1>21. fetch # NoFetch => fetch.id # e.id  BY <1>3, <1>9, <1>15 DEF InHand
  <1>22. e.id < later  BY <1>3, <1>9
  <1>23. /\ EntriesGood(es, later) /\ InHand(fetch, es, later)
         /\ \A j \in 1 .. Len(es) : es[j] = e \/ \E i \in 1 .. Len(staying) : es[j] = staying[i]
    BY <1>3, <1>9, <1>14, <1>16, <1>17, <1>18, <1>20, <1>21, <1>22, OneMoreEntry
  <1>24. Shaped(WithTop(b, w), later)
    <2>1. w.cursor < later  BY <1>3, <1>13
    <2>2. QED  BY <1>3, <1>5, <1>13, <2>1, TopShaped
  <1>25. Apart(b.stack) /\ AllTied(b.stack, cursors)  BY <1>5 DEF Sound
  <1>26. ASSUME NEW i \in 1 .. Len(b.stack) PROVE b.stack[i].cursor < next /\ b.stack[i].cursor \in Nat
    <2>1. b.stack[i].cursor < next /\ b.stack[i] \in LevelRec  BY <1>5 DEF Shaped, StackGood, LevelGood, LevelFits
    <2>2. QED  BY <2>1 DEF LevelRec
  <1>27. ASSUME NEW i \in 1 .. Len(b.stack), NEW j \in 1 .. Len(es) PROVE Tied(b.stack[i], es[j])
    <2>1. CASE es[j] = e
      <3>1. b.stack[i].cursor # e.id  BY <1>3, <1>9, <1>26
      <3>2. QED  BY <2>1, <3>1 DEF Tied
    <2>2. CASE \E k \in 1 .. Len(staying) : es[j] = staying[k]
      <3>1. PICK m \in 1 .. Len(cursors) : es[j] = cursors[m]  BY <1>18, <2>2
      <3>2. QED  BY <1>25, <3>1 DEF AllTied
    <2>3. QED  BY <1>23, <2>1, <2>2
  <1>28. ASSUME NEW j \in 1 .. Len(es) PROVE Tied(v, es[j])
    <2>1. CASE es[j] = e
      <3>1. SUFFICES ASSUME v.kind # "queue" PROVE FollowsTo(RowsBefore(v), ListOf(v.kind, v.platform), 0)
        BY <1>9, <1>11, <2>1 DEF Tied
      <3>2. Len(ListOf(v.kind, v.platform)) \in Nat
        BY <1>11, <3>1, LevelIsServed, ServedLists DEF LevelGood
      <3>3. QED  BY <1>11, <3>2, FollowsNone
    <2>2. CASE \E k \in 1 .. Len(staying) : es[j] = staying[k]
      <3>1. es[j].id # v.cursor  BY <1>3, <1>11, <1>19, <2>2
      <3>2. QED  BY <3>1 DEF Tied
    <2>3. QED  BY <1>23, <2>1, <2>2
  <1>29. Sound(WithTop(b, v), es, later)
    <2>1. v.cursor < later  BY <1>3, <1>11
    <2>2. \A i \in 1 .. Len(b.stack) : i # Len(b.stack) /\ v.cursor = b.stack[i].cursor => v.cursor = 0
      BY <1>3, <1>11, <1>26
    <2>3. QED  BY <1>3, <1>5, <1>11, <1>25, <1>27, <1>28, <2>1, <2>2, TopSound
  <1>30. Send(WithTop(b, w), WithTop(b, v))
    BY <1>1, <1>4, <1>6, <1>10, <1>12 DEF FrameBegins
  <1>31. Sound(browser', es, later)  BY <1>24, <1>29, <1>30, SentIsSound
  <1>32. cursors' = es /\ nextCursor' = later /\ fetch' = fetch /\ wishes' = wishes
    BY <1>1, <1>2, <1>4, <1>6, <1>8, <1>14 DEF FrameBegins
  <1>33. wishes \in Seq(RowIds)  BY DEF BrowseInv
  <1>34. QED  BY <1>3, <1>23, <1>31, <1>32, <1>33 DEF BrowseInv

LEMMA RefusedLevel ==
    ASSUME NEW v, LevelGood(v), v.has_more, NEW w, NEW error, w = OnListRefused(v, error)
    PROVE  /\ error = "bad_cursor" =>
                LevelGood(w) /\ w.cursor = 0 /\ w.kind = v.kind /\ w.platform = v.platform
           /\ error \in PageErrors =>
                LevelGood(w) /\ w.cursor = v.cursor /\ \A e : Tied(v, e) => Tied(w, e)
  <1>1. v \in LevelRec /\ v.rows \in Seq(ShownRow) /\ ~v.truncated /\ v.selected <= Len(v.rows)
    BY DEF LevelGood, LevelFits, LevelRec
  <1>2. CASE error = "bad_cursor"
    <2>1. PICK again \in BOOLEAN : again = (v.rows # <<>>)  OBVIOUS
    <2>2. w = [v EXCEPT !.loading = FALSE, !.cursor = 0, !.replace_rows = again, !.has_more = TRUE,
                        !.page_error = "ok"]
      BY <1>2, <2>1 DEF OnListRefused
    <2>3. w \in LevelRec
      <3>1. "ok" \in PageErrors /\ 0 \in Nat  BY DEF PageErrors
      <3>2. QED  BY <1>1, <2>1, <2>2, <3>1 DEF LevelRec
    <2>4. /\ w.cursor = 0 /\ w.kind = v.kind /\ w.platform = v.platform /\ w.rows = v.rows
          /\ w.has_more /\ w.truncated = v.truncated /\ w.selected = v.selected
      BY <1>1, <2>2 DEF LevelRec
    <2>5. SameIds(v.rows, w.rows)  BY <1>1, <2>4, SameRows
    <2>6. LevelGood(w)  BY <1>1, <2>3, <2>4, <2>5, AlikeLevel
    <2>7. error \notin PageErrors  BY <1>2 DEF PageErrors
    <2>8. QED  BY <2>4, <2>6, <2>7
  <1>3. CASE error \in PageErrors
    <2>0. error # "bad_cursor"  BY <1>3 DEF PageErrors
    <2>1. w = [v EXCEPT !.loading = FALSE, !.page_error = error]  BY <2>0 DEF OnListRefused
    <2>2. w \in LevelRec  BY <1>1, <1>3, <2>1 DEF LevelRec
    <2>3. /\ w.cursor = v.cursor /\ w.kind = v.kind /\ w.platform = v.platform /\ w.rows = v.rows
          /\ w.has_more = v.has_more /\ w.truncated = v.truncated /\ w.selected = v.selected
          /\ w.replace_rows = v.replace_rows
      BY <1>1, <2>1 DEF LevelRec
    <2>4. SameIds(v.rows, w.rows)  BY <1>1, <2>3, SameRows
    <2>5. LevelGood(w)  BY <1>1, <2>2, <2>3, <2>4, AlikeLevel
    <2>6. RowsBefore(w) = RowsBefore(v)  BY <2>3 DEF RowsBefore
    <2>7. SameIds(RowsBefore(v), RowsBefore(w))  BY <2>6, BaseIsRows, SameRows DEF LevelGood
    <2>8. \A e : Tied(v, e) => Tied(w, e)  BY <2>3, <2>7, TiedAlike
    <2>9. QED  BY <2>0, <2>3, <2>5, <2>8
  <1>4. QED  BY <1>2, <1>3

LEMMA PendingLevel ==
    ASSUME NEW v, LevelGood(v), v.has_more, NEW w, w = [v EXCEPT !.loading = TRUE, !.page_error = "ok"]
    PROVE  LevelGood(w) /\ w.cursor = v.cursor /\ \A e : Tied(v, e) => Tied(w, e)
  <1>1. v \in LevelRec /\ v.rows \in Seq(ShownRow) /\ ~v.truncated /\ v.selected <= Len(v.rows)
    BY DEF LevelGood, LevelFits, LevelRec
  <1>2. w \in LevelRec  BY <1>1 DEF LevelRec, PageErrors
  <1>3. /\ w.cursor = v.cursor /\ w.kind = v.kind /\ w.platform = v.platform /\ w.rows = v.rows
        /\ w.has_more = v.has_more /\ w.truncated = v.truncated /\ w.selected = v.selected
        /\ w.replace_rows = v.replace_rows
    BY <1>1 DEF LevelRec
  <1>4. SameIds(v.rows, w.rows)  BY <1>1, <1>3, SameRows
  <1>5. LevelGood(w)  BY <1>1, <1>2, <1>3, <1>4, AlikeLevel
  <1>6. RowsBefore(w) = RowsBefore(v)  BY <1>3 DEF RowsBefore
  <1>7. SameIds(RowsBefore(v), RowsBefore(w))  BY <1>6, BaseIsRows, SameRows DEF LevelGood
  <1>8. \A e : Tied(v, e) => Tied(w, e)  BY <1>3, <1>7, TiedAlike
  <1>9. QED  BY <1>3, <1>5, <1>8

(* What the level makes of an answer, and the entry that gave it.           *)
LEMMA NextLevel ==
    ASSUME NEW v, LevelGood(v), v.has_more, v.cursor # 0, NEW e, EntryGood(e), e.id = v.cursor, Tied(v, e),
           NEW a, EntryAnswers(e, a), NEW w,
           w = IF a.error = "ok" THEN OnPage(v, a) ELSE OnListRefused(v, a.error)
    PROVE  LevelGood(w) /\ w.cursor = v.cursor /\ Tied(w, a.entry)
  <1>1. PICK x : x = a.entry  OBVIOUS
  <1>2. EntryGood(x) /\ x.id = e.id /\ x.kind = e.kind /\ x.platform = e.platform  BY <1>1 DEF EntryAnswers
  <1>3. LevelFits(v) /\ ~v.truncated  BY DEF LevelGood, LevelFits
  <1>4. e.kind = v.kind /\ e.platform = v.platform  BY DEF Tied
  <1>5. PICK list : list = ListOf(v.kind, v.platform)  OBVIOUS
  <1>6. ASSUME x.offset = e.offset \/ v.kind = "queue" PROVE Tied(v, x)
    BY <1>2, <1>4, <1>6 DEF Tied
  <1>7. CASE a.error # "ok"
    <2>1. x.offset = e.offset \/ v.kind = "queue"  BY <1>1, <1>4, <1>7 DEF EntryAnswers
    <2>2. a.error \in PageErrors /\ w = OnListRefused(v, a.error)  BY <1>7 DEF EntryAnswers
    <2>3. QED  BY <1>1, <1>6, <2>1, <2>2, RefusedLevel
  <1>8. CASE a.error = "ok" /\ a.pending
    <2>1. x.offset = e.offset \/ v.kind = "queue"  BY <1>1, <1>4, <1>8 DEF EntryAnswers
    <2>2. w = [v EXCEPT !.loading = TRUE, !.page_error = "ok"]  BY <1>8 DEF OnPage
    <2>3. QED  BY <1>1, <1>6, <2>1, <2>2, PendingLevel
  <1>9. CASE a.error = "ok" /\ ~a.pending
    <2>1. w = OnPage(v, a)  BY <1>9
    <2>2. a.items \in Seq(SentItem) /\ a.has_more \in BOOLEAN /\ a.pending = FALSE
          /\ (a.has_more => a.items # <<>>)
      BY <1>9 DEF EntryAnswers
    <2>3. PICK more \in Seq(ShownRow) :
             /\ Len(more) = Len(a.items)
             /\ \A i \in 1 .. Len(a.items) : more[i].id = a.items[i].id
             /\ Drawn(v, w, RowsBefore(v) \o more, a.has_more)
      BY <1>3, <2>1, <2>2, PageDrawn
    <2>4. LevelFits(w) /\ w.kind = v.kind /\ w.platform = v.platform /\ w.cursor = v.cursor /\ ~w.replace_rows
      BY <2>3 DEF Drawn
    <2>5. CASE v.kind = "queue"
      <3>1. LevelGood(w)  BY <2>4, <2>5 DEF LevelGood, LevelFollows
      <3>2. Tied(w, x)  BY <1>2, <1>4, <2>4, <2>5 DEF Tied
      <3>3. QED  BY <1>1, <2>4, <3>1, <3>2
    <2>6. CASE v.kind # "queue"
      <3>1. FollowsTo(RowsBefore(v), list, e.offset)  BY <1>3, <1>5, <2>6 DEF Tied
      <3>2. GoesOn(a.items, list, e.offset, a.has_more) /\ x.offset = e.offset + Len(a.items)
        BY <1>1, <1>4, <1>5, <1>9, <2>6 DEF EntryAnswers
      <3>3. e.offset + Len(more) <= Len(list) /\ (~a.has_more => e.offset + Len(more) = Len(list))
            /\ \A k \in 1 .. Len(more) : more[k].id = list[e.offset + k]
        BY <2>3, <3>2 DEF GoesOn
      <3>4. LevelGood(w) /\ (~w.truncated => FollowsTo(w.rows, list, e.offset + Len(more)))
        BY <1>3, <1>5, <2>2, <2>3, <2>6, <3>1, <3>3, PageContinues
      <3>5. RowsBefore(w) = w.rows  BY <2>4 DEF RowsBefore
      <3>6. Tied(w, x)  BY <1>2, <1>4, <1>5, <2>3, <2>4, <3>2, <3>4, <3>5 DEF Tied
      <3>7. QED  BY <1>1, <2>4, <3>4, <3>6
    <2>7. QED  BY <2>5, <2>6
  <1>10. QED  BY <1>7, <1>8, <1>9

LEMMA InHandBy ==
    ASSUME NEW f, NEW es, NEW next \in Nat, InHand(f, es, next), NEW more, NEW later \in Nat, next <= later,
           f # NoFetch => \A j \in 1 .. Len(more) : more[j].id # f.id \/ \E i \in 1 .. Len(es) : more[j] = es[i]
    PROVE  InHand(f, more, later)
  BY DEF InHand

LEMMA NextsKeepsInv ==
    ASSUME BrowseInv, FrameNexts
    PROVE  BrowseInv'
  <1>1. PICK next \in Nat \ {0} : next = nextCursor  BY DEF BrowseInv
  <1>2. PICK b : b = browser  OBVIOUS
  <1>3. PICK es : es = cursors  OBVIOUS
  <1>4. Sound(b, es, next) /\ EntriesGood(es, next) /\ InHand(fetch, es, next) /\ wishes \in Seq(RowIds)
    BY <1>1, <1>2, <1>3 DEF BrowseInv
  <1>5. b.link = "ok" /\ Ready = b  BY <1>2 DEF FrameNexts, Ready
  <1>6. Shaped(b, next) /\ Apart(b.stack) /\ AllTied(b.stack, es)  BY <1>4, <1>5 DEF Sound
  <1>7. PICK n \in Nat : n = Len(b.stack) /\ n \in 1 .. n /\ Top(b) = b.stack[n]  BY <1>6, TopOf
  <1>8. PICK top : top = Top(b)  OBVIOUS
  <1>9. LevelGood(top) /\ top.cursor < next /\ top.cursor \in Nat  BY <1>6, <1>8, TopOf
  <1>10. NextCommand(b) = "list_next"  BY <1>5 DEF FrameNexts, Frame
  <1>11. top.cursor # 0 /\ top.has_more  BY <1>8, <1>10, CommandSays
  <1>12. PICK v : v = [top EXCEPT !.loading = TRUE]  OBVIOUS
  <1>13. LevelGood(v) /\ v.cursor = top.cursor /\ v.has_more /\ \A e : Tied(top, e) => Tied(v, e)
    <2>1. LevelGood(v) /\ v.cursor = top.cursor /\ v.has_more = top.has_more  BY <1>9, <1>12, WaitingLevel
    <2>2. \A e : Tied(top, e) => Tied(v, e)  BY <1>9, <1>12, WaitingLevel
    <2>3. QED  BY <1>11, <2>1, <2>2
  <1>14. Shaped(WithTop(b, v), next)  BY <1>6, <1>9, <1>13, TopShaped
  <1>15. \A i \in 1 .. n : i # n => v.cursor # b.stack[i].cursor
    BY <1>6, <1>7, <1>8, <1>11, <1>13 DEF Apart
  <1>16. es \in Seq(EntryRec) /\ Len(es) \in Nat /\ DOMAIN es = 1 .. Len(es)  BY <1>4 DEF EntriesGood
  <1>17. Find(v.cursor) = {i \in 1 .. Len(es) : es[i].id = v.cursor}  BY <1>3, <1>16 DEF Find
  <1>18. nextCursor' = next /\ fetch' = fetch /\ wishes' = wishes  BY <1>1 DEF FrameNexts
  <1>19. CASE /\ Find(v.cursor) = {} /\ Send(WithTop(b, v), WithTop(b, OnListRefused(v, "bad_cursor")))
              /\ cursors' = cursors
    <2>1. PICK w : w = OnListRefused(v, "bad_cursor")  OBVIOUS
    <2>2. LevelGood(w) /\ w.cursor = 0  BY <1>13, <2>1, RefusedLevel
    <2>3. \A j \in 1 .. Len(es) : Tied(w, es[j])
      <3>1. ASSUME NEW j \in 1 .. Len(es) PROVE Tied(w, es[j])
        <4>1. es[j] \in EntryRec  BY <1>16
        <4>2. es[j].id # 0  BY <4>1 DEF EntryRec
        <4>3. QED  BY <2>2, <4>2 DEF Tied
      <3>2. QED  BY <3>1
    <2>4. Sound(WithTop(b, w), es, next)
      <3>1. \A i \in 1 .. Len(b.stack), j \in 1 .. Len(es) : i # Len(b.stack) => Tied(b.stack[i], es[j])
        BY <1>6 DEF AllTied
      <3>2. w.cursor < next  BY <2>2
      <3>3. QED  BY <1>6, <2>2, <2>3, <3>1, <3>2, TopSound
    <2>5. Sound(browser', es, next)  BY <1>14, <1>19, <2>1, <2>4, SentIsSound
    <2>6. QED  BY <1>3, <1>4, <1>18, <1>19, <2>5 DEF BrowseInv
  <1>20. CASE \E i \in Find(v.cursor) : \E answer \in ListNext(cursors[i]) :
                /\ cursors' = Append(Without(i), answer.entry)
                /\ Send(WithTop(b, v), WithTop(b,
                       IF answer.error = "ok" THEN OnPage(v, answer)
                       ELSE OnListRefused(v, answer.error)))
    <2>1. PICK k \in 1 .. Len(es) : es[k].id = v.cursor /\ \E answer \in ListNext(es[k]) :
                /\ cursors' = Append(Without(k), answer.entry)
                /\ Send(WithTop(b, v), WithTop(b,
                       IF answer.error = "ok" THEN OnPage(v, answer)
                       ELSE OnListRefused(v, answer.error)))
      BY <1>3, <1>17, <1>20
    <2>2. PICK e : e = es[k]  OBVIOUS
    <2>3. PICK a \in ListNext(e) :
                /\ cursors' = Append(Without(k), a.entry)
                /\ Send(WithTop(b, v), WithTop(b,
                       IF a.error = "ok" THEN OnPage(v, a) ELSE OnListRefused(v, a.error)))
      BY <2>1, <2>2
    <2>4. PICK w : w = IF a.error = "ok" THEN OnPage(v, a) ELSE OnListRefused(v, a.error)  OBVIOUS
    <2>5. EntryGood(e) /\ e.id = v.cursor /\ e.id < next  BY <1>4, <2>1, <2>2 DEF EntriesGood
    <2>6. EntryAnswers(e, a)  BY <1>4, <2>3, <2>5, AnswersFollow
    <2>7. PICK x : x = a.entry  OBVIOUS
    <2>8. EntryGood(x) /\ x.id = e.id /\ (e.fetch = "running" => x = e)  BY <2>6, <2>7 DEF EntryAnswers
    <2>9. Tied(v, e)
      <3>1. Tied(top, e)  BY <1>6, <1>7, <1>8, <2>2 DEF AllTied
      <3>2. QED  BY <1>13, <3>1
    <2>10. LevelGood(w) /\ w.cursor = v.cursor /\ Tied(w, x)
      BY <1>11, <1>13, <2>4, <2>5, <2>6, <2>7, <2>9, NextLevel
    <2>11. PICK rest : rest = Without(k)  OBVIOUS
    <2>12. /\ Thinned(rest, es) /\ Len(rest) = Len(es) - 1
           /\ \A j \in 1 .. Len(rest) : \E i \in 1 .. Len(es) : i # k /\ rest[j] = es[i]
      <3>1. es \in Seq(EntryRec) /\ es = cursors /\ k \in 1 .. Len(es)  BY <1>3, <1>16, <2>1
      <3>2. /\ Thinned(Without(k), es) /\ Len(Without(k)) = Len(es) - 1
            /\ \A j \in 1 .. Len(Without(k)) : \E i \in 1 .. Len(es) : i # k /\ Without(k)[j] = es[i]
        BY <3>1, WithoutThins, Zenon
      <3>3. QED  BY <2>11, <3>2
    <2>13. EntriesGood(rest, next)  BY <1>4, <2>12, ThinnedGood
    <2>14. \A j \in 1 .. Len(rest) : rest[j].id # x.id
      <3>1. ASSUME NEW j \in 1 .. Len(rest) PROVE rest[j].id # x.id
        <4>1. PICK i \in 1 .. Len(es) : i # k /\ rest[j] = es[i]  BY <2>12
        <4>2. es[i].id # es[k].id  BY <1>4, <4>1 DEF EntriesGood
        <4>3. QED  BY <2>2, <2>8, <4>1, <4>2
      <3>2. QED  BY <3>1
    <2>15. PICK more : more = Append(rest, x)  OBVIOUS
    <2>16. Len(rest) < kMaxCursors
      <3>1. Len(es) <= kMaxCursors /\ kMaxCursors \in Nat  BY <1>4, LibraryConstants DEF EntriesGood
      <3>2. QED  BY <1>16, <2>12, <3>1
    <2>17. /\ EntriesGood(more, next)
           /\ \A j \in 1 .. Len(more) : more[j] = x \/ \E i \in 1 .. Len(rest) : more[j] = rest[i]
      BY <2>5, <2>8, <2>13, <2>14, <2>15, <2>16, OneMoreEntry
    <2>18. \A j \in 1 .. Len(more) : more[j] = x \/ \E i \in 1 .. Len(es) : i # k /\ more[j] = es[i]
      BY <2>12, <2>17
    <2>19. InHand(fetch, more, next)
      <3>1. ASSUME fetch # NoFetch, NEW j \in 1 .. Len(more)
            PROVE  more[j].id # fetch.id \/ \E i \in 1 .. Len(es) : more[j] = es[i]
        <4>1. CASE more[j] = x /\ x.id = fetch.id
          <5>1. e.fetch = "running"  BY <1>4, <2>2, <2>8, <3>1, <4>1 DEF InHand
          <5>2. QED  BY <2>2, <2>8, <4>1, <5>1
        <4>2. CASE more[j] = x /\ x.id # fetch.id  BY <4>2
        <4>3. CASE \E i \in 1 .. Len(es) : more[j] = es[i]  BY <4>3
        <4>4. QED  BY <2>18, <4>1, <4>2, <4>3
      <3>2. QED  BY <1>4, <3>1, InHandBy
    <2>20. ASSUME NEW i \in 1 .. Len(b.stack), i # Len(b.stack), NEW j \in 1 .. Len(more)
           PROVE  Tied(b.stack[i], more[j])
      <3>1. CASE more[j] = x
        <4>1. b.stack[i].cursor # x.id  BY <1>7, <1>15, <2>5, <2>8, <2>20
        <4>2. QED  BY <3>1, <4>1 DEF Tied
      <3>2. CASE \E m \in 1 .. Len(es) : more[j] = es[m]  BY <1>6, <3>2 DEF AllTied
      <3>3. QED  BY <2>18, <3>1, <3>2
    <2>21. ASSUME NEW j \in 1 .. Len(more) PROVE Tied(w, more[j])
      <3>1. CASE more[j] = x  BY <2>10, <3>1
      <3>2. CASE \E m \in 1 .. Len(es) : m # k /\ more[j] = es[m]
        <4>1. more[j].id # w.cursor  BY <1>4, <2>1, <2>10, <3>2 DEF EntriesGood
        <4>2. QED  BY <4>1 DEF Tied
      <3>3. QED  BY <2>18, <3>1, <3>2
    <2>22. Sound(WithTop(b, w), more, next)
      <3>1. \A i \in 1 .. Len(b.stack) : i # Len(b.stack) /\ w.cursor = b.stack[i].cursor => w.cursor = 0
        BY <1>7, <1>15, <2>10
      <3>2. w.cursor < next  BY <1>9, <1>13, <2>10
      <3>3. QED  BY <1>6, <2>10, <2>20, <2>21, <3>1, <3>2, TopSound
    <2>23. Sound(browser', more, next)  BY <1>14, <2>3, <2>4, <2>22, SentIsSound
    <2>24. cursors' = more  BY <2>3, <2>7, <2>11, <2>15
    <2>25. QED  BY <1>1, <1>4, <1>18, <2>17, <2>19, <2>23, <2>24 DEF BrowseInv
  <1>21. QED  BY <1>2, <1>8, <1>12, <1>19, <1>20 DEF FrameNexts

(* What changes nothing of the stack keeps it sound.                        *)
LEMMA SameStack ==
    ASSUME NEW b, NEW es, NEW next, Sound(b, es, next), NEW c \in BrowserRec, c.stack = b.stack, c.link = b.link
    PROVE  Sound(c, es, next)
  BY DEF Sound, Shaped

LEMMA InvUnfolds ==
    ASSUME BrowseInv
    PROVE  /\ Sound(browser, cursors, nextCursor) /\ EntriesGood(cursors, nextCursor)
           /\ InHand(fetch, cursors, nextCursor) /\ wishes \in Seq(RowIds) /\ nextCursor \in Nat \ {0}
           /\ Shaped(browser, nextCursor) /\ browser \in BrowserRec /\ cursors \in Seq(EntryRec)
           /\ browser.stack \in Seq(LevelRec) /\ browser.closing \in Seq(Nat) /\ browser.wanted \in RowIds
           /\ DOMAIN cursors = 1 .. Len(cursors)
           /\ browser.link = "ok" => Apart(browser.stack) /\ AllTied(browser.stack, cursors) /\ Ready = browser
  BY DEF BrowseInv, Sound, Shaped, EntriesGood, BrowserRec, Ready

LEMMA EndsKeepsInv ==
    ASSUME BrowseInv, FrameEnds
    PROVE  BrowseInv'
  <1>1. PICK next \in Nat \ {0} : next = nextCursor  BY InvUnfolds
  <1>2. PICK b \in BrowserRec : b = browser  BY InvUnfolds
  <1>3. PICK es \in Seq(EntryRec) : es = cursors /\ DOMAIN es = 1 .. Len(es)  BY InvUnfolds
  <1>4. Sound(b, es, next) /\ EntriesGood(es, next) /\ InHand(fetch, es, next) /\ Shaped(b, next)
    BY <1>1, <1>2, <1>3, InvUnfolds
  <1>5. b.link = "ok" /\ Ready = b  BY <1>2 DEF FrameEnds, Ready
  <1>6. Apart(b.stack) /\ AllTied(b.stack, es)  BY <1>2, <1>3, <1>5, InvUnfolds
  <1>7. b.closing \in Seq(Nat) /\ b.closing # <<>>
    <2>1. NextCommand(b) = "list_end"  BY <1>5 DEF FrameEnds, Frame
    <2>2. QED  BY <1>2, <2>1, InvUnfolds, CommandSays
  <1>8. PICK tail \in Seq(Nat) : tail = Tail(b.closing)
    <2>1. PICK all \in Seq(Nat) : all = b.closing /\ all # <<>>  BY <1>7
    <2>2. Tail(all) \in Seq(Nat)  BY <2>1
    <2>3. QED  BY <2>1, <2>2
  <1>9. PICK c : c = [b EXCEPT !.closing = tail]  OBVIOUS
  <1>10. c \in BrowserRec /\ c.stack = b.stack /\ c.link = b.link  BY <1>9 DEF BrowserRec
  <1>11. PICK gone : gone = Find(Head(browser.closing))  OBVIOUS
  <1>12. gone \subseteq 1 .. Len(es)  BY <1>3, <1>11 DEF Find
  <1>13. PICK more : more = IF gone = {} THEN cursors ELSE Without(CHOOSE i \in gone : TRUE)  OBVIOUS
  <1>14. Thinned(more, es)
    <2>1. CASE gone = {}  BY <1>3, <1>13, <2>1, AllOfThem
    <2>2. CASE gone # {}
      <3>1. PICK k : k = CHOOSE i \in gone : TRUE  OBVIOUS
      <3>2. k \in 1 .. Len(es)  BY <1>12, <2>2, <3>1
      <3>3. Thinned(Without(k), es)  BY <1>3, <3>2, WithoutThins
      <3>4. QED  BY <1>13, <2>2, <3>1, <3>3
    <2>3. QED  BY <2>1, <2>2
  <1>15. EntriesGood(more, next) /\ InHand(fetch, more, next)
         /\ \A j \in 1 .. Len(more) : \E i \in 1 .. Len(es) : more[j] = es[i]
    BY <1>4, <1>14, ThinnedGood
  <1>16. AllTied(b.stack, more)  BY <1>6, <1>15, ThinnedTied
  <1>17. Sound(b, more, next)  BY <1>4, <1>6, <1>16 DEF Sound
  <1>18. Sound(c, more, next)  BY <1>10, <1>17, SameStack
  <1>19. Send(b, c)  BY <1>2, <1>8, <1>9 DEF FrameEnds
  <1>20. Sound(browser', more, next)  BY <1>4, <1>18, <1>19, SentIsSound
  <1>21. cursors' = more /\ nextCursor' = next /\ fetch' = fetch /\ wishes' = wishes
    BY <1>1, <1>11, <1>13 DEF FrameEnds
  <1>22. QED  BY <1>15, <1>20, <1>21, InvUnfolds DEF BrowseInv

(* The row that was asked for says so; the rows are the same ones.          *)
LEMMA MarkedLevel ==
    ASSUME NEW v, LevelGood(v), NEW rom, NEW state \in RowStates, NEW w, w = MarkRow(v, rom, state)
    PROVE  LevelGood(w) /\ w.cursor = v.cursor /\ \A e : Tied(v, e) => Tied(w, e)
  <1>1. /\ v \in LevelRec /\ v.rows \in Seq(ShownRow) /\ v.selected <= Len(v.rows)
        /\ Len(v.rows) \in Nat /\ DOMAIN v.rows = 1 .. Len(v.rows)
        /\ v.truncated => ~v.has_more /\ v.page_error = "ok" /\ v.cursor # 0
    BY DEF LevelGood, LevelFits, LevelRec
  <1>2. PICK rows : rows = [i \in DOMAIN v.rows |->
                              IF v.kind = "roms" /\ v.rows[i].id = rom
                              THEN [v.rows[i] EXCEPT !.state = state] ELSE v.rows[i]]
    OBVIOUS
  <1>3. ASSUME NEW i \in 1 .. Len(v.rows)
        PROVE  rows[i] \in ShownRow /\ rows[i].id = v.rows[i].id
    <2>1. PICK x \in ShownRow : x = v.rows[i]  BY <1>1
    <2>2. PICK y : y = [x EXCEPT !.state = state]  OBVIOUS
    <2>3. y \in ShownRow /\ y.id = x.id  BY <2>2 DEF ShownRow
    <2>4. rows[i] = x \/ rows[i] = y  BY <1>1, <1>2, <2>1, <2>2
    <2>5. QED  BY <2>1, <2>3, <2>4
  <1>4. rows \in Seq(ShownRow) /\ Len(rows) = Len(v.rows)
    <2>1. rows = [i \in 1 .. Len(v.rows) |-> rows[i]]  BY <1>1, <1>2
    <2>2. rows \in [1 .. Len(v.rows) -> ShownRow]  BY <1>3, <2>1
    <2>3. QED  BY <1>1, <2>2
  <1>5. SameIds(v.rows, rows)  BY <1>3, <1>4 DEF SameIds
  <1>6. w = [v EXCEPT !.rows = rows]  BY <1>2 DEF MarkRow
  <1>7. w \in LevelRec  BY <1>1, <1>4, <1>6 DEF LevelRec
  <1>8. /\ w.cursor = v.cursor /\ w.kind = v.kind /\ w.platform = v.platform /\ w.rows = rows
        /\ w.has_more = v.has_more /\ w.truncated = v.truncated /\ w.selected = v.selected
        /\ w.replace_rows = v.replace_rows /\ w.page_error = v.page_error
    BY <1>1, <1>6 DEF LevelRec
  <1>9. LevelGood(w)  BY <1>1, <1>4, <1>5, <1>7, <1>8, AlikeLevel
  <1>10. SameIds(RowsBefore(v), RowsBefore(w))
    <2>1. CASE v.replace_rows
      <3>1. RowsBefore(v) = <<>> /\ RowsBefore(w) = <<>>  BY <1>8, <2>1 DEF RowsBefore
      <3>2. QED  BY <3>1 DEF SameIds
    <2>2. CASE ~v.replace_rows
      <3>1. RowsBefore(v) = v.rows /\ RowsBefore(w) = rows  BY <1>8, <2>2 DEF RowsBefore
      <3>2. QED  BY <1>5, <3>1
    <2>3. QED  BY <2>1, <2>2
  <1>11. \A e : Tied(v, e) => Tied(w, e)  BY <1>8, <1>10, TiedAlike
  <1>12. QED  BY <1>8, <1>9, <1>11

(* The level on top is shown otherwise, and has read what it had read.      *)
LEMMA ToppedAlike ==
    ASSUME NEW b, NEW es, NEW next \in Nat \ {0}, Sound(b, es, next), b.link = "ok",
           NEW w, LevelGood(w), w.cursor = Top(b).cursor, \A e : Tied(Top(b), e) => Tied(w, e)
    PROVE  Sound(WithTop(b, w), es, next)
  <1>1. Shaped(b, next) /\ Apart(b.stack) /\ AllTied(b.stack, es)  BY DEF Sound
  <1>2. PICK n \in Nat : n = Len(b.stack) /\ n \in 1 .. n /\ Top(b) = b.stack[n]  BY <1>1, TopOf
  <1>3. Top(b).cursor < next  BY <1>1, TopOf
  <1>4. \A j \in 1 .. Len(es) : Tied(w, es[j])  BY <1>1, <1>2 DEF AllTied
  <1>5. \A i \in 1 .. Len(b.stack), j \in 1 .. Len(es) : i # Len(b.stack) => Tied(b.stack[i], es[j])
    BY <1>1 DEF AllTied
  <1>6. \A i \in 1 .. Len(b.stack) : i # Len(b.stack) /\ w.cursor = b.stack[i].cursor => w.cursor = 0
    BY <1>1, <1>2 DEF Apart
  <1>7. w.cursor < next  BY <1>3
  <1>8. QED  BY <1>1, <1>4, <1>5, <1>6, <1>7, TopSound

LEMMA EnqueuesKeepsInv ==
    ASSUME BrowseInv, FrameEnqueues
    PROVE  BrowseInv'
  <1>1. PICK next \in Nat \ {0} : next = nextCursor  BY InvUnfolds
  <1>2. PICK b \in BrowserRec : b = browser  BY InvUnfolds
  <1>3. PICK es \in Seq(EntryRec) : es = cursors  BY InvUnfolds
  <1>4. Sound(b, es, next) /\ EntriesGood(es, next) /\ InHand(fetch, es, next) /\ Shaped(b, next)
    BY <1>1, <1>2, <1>3, InvUnfolds
  <1>5. b.link = "ok"  BY <1>2 DEF FrameEnqueues
  <1>6. PICK top : top = Top(b)  OBVIOUS
  <1>7. LevelGood(top)  BY <1>4, <1>6, TopOf
  <1>8. PICK rom \in RowIds : rom = b.wanted  BY DEF BrowserRec
  <1>9. PICK answer \in {"duplicate", "ok", "queue_full", "offline"} :
             /\ wishes' = IF answer = "ok" THEN Append(wishes, rom) ELSE wishes
             /\ Send(b, [WithTop(b, MarkRow(top, rom, IF answer = "ok" THEN "queued"
                                     ELSE EnqueueRefusalState(answer))) EXCEPT !.wanted = 0])
    BY <1>2, <1>6, <1>8 DEF FrameEnqueues, EnqueueAnswers
  <1>10. PICK state : state = IF answer = "ok" THEN "queued" ELSE EnqueueRefusalState(answer)  OBVIOUS
  <1>11. state \in RowStates  BY <1>9, <1>10 DEF EnqueueRefusalState, RowStates
  <1>12. PICK w : w = MarkRow(top, rom, state)  OBVIOUS
  <1>13. LevelGood(w) /\ w.cursor = top.cursor /\ \A e : Tied(top, e) => Tied(w, e)
    BY <1>7, <1>11, <1>12, MarkedLevel
  <1>14. PICK c : c = WithTop(b, w)  OBVIOUS
  <1>15. Sound(c, es, next)  BY <1>4, <1>5, <1>6, <1>13, <1>14, ToppedAlike
  <1>16. PICK d : d = [c EXCEPT !.wanted = 0]  OBVIOUS
  <1>17. c \in BrowserRec /\ 0 \in RowIds  BY <1>15 DEF Sound, Shaped, RowIds
  <1>18. d \in BrowserRec /\ d.stack = c.stack /\ d.link = c.link  BY <1>16, <1>17 DEF BrowserRec
  <1>19. Sound(d, es, next)  BY <1>15, <1>18, SameStack
  <1>20. Send(b, d)  BY <1>9, <1>10, <1>12, <1>14, <1>16
  <1>21. Sound(browser', es, next)  BY <1>4, <1>19, <1>20, SentIsSound
  <1>22. wishes' \in Seq(RowIds)
    <2>1. wishes \in Seq(RowIds) /\ Append(wishes, rom) \in Seq(RowIds)  BY InvUnfolds
    <2>2. QED  BY <1>9, <2>1
  <1>23. cursors' = es /\ nextCursor' = next /\ fetch' = fetch  BY <1>1, <1>3 DEF FrameEnqueues
  <1>24. QED  BY <1>4, <1>21, <1>22, <1>23 DEF BrowseInv

LEMMA RestsKeepsInv ==
    ASSUME BrowseInv, FrameRests
    PROVE  BrowseInv'
  <1>1. PICK next \in Nat \ {0} : next = nextCursor  BY InvUnfolds
  <1>2. PICK b \in BrowserRec : b = browser  BY InvUnfolds
  <1>3. Sound(b, cursors, next) /\ Shaped(b, next)  BY <1>1, <1>2, InvUnfolds
  <1>4. b.link = "ok"  BY <1>2 DEF FrameRests
  <1>5. PICK w : w = [Top(b) EXCEPT !.loading = FALSE]  OBVIOUS
  <1>6. LevelGood(Top(b))  BY <1>3, TopOf
  <1>7. LevelGood(w) /\ w.cursor = Top(b).cursor  BY <1>5, <1>6, WaitingLevel
  <1>8. \A e : Tied(Top(b), e) => Tied(w, e)  BY <1>5, <1>6, WaitingLevel
  <1>9. PICK es : es = cursors  OBVIOUS
  <1>10. Sound(WithTop(b, w), es, next)  BY <1>3, <1>4, <1>7, <1>8, <1>9, ToppedAlike
  <1>11. PICK c : c = browser'  OBVIOUS
  <1>12. c = b \/ c = WithTop(b, w)  BY <1>2, <1>5, <1>11 DEF FrameRests
  <1>13. Sound(c, es, next)  BY <1>3, <1>9, <1>10, <1>12
  <1>14. cursors' = es /\ nextCursor' = next /\ fetch' = fetch /\ wishes' = wishes
    BY <1>1, <1>9 DEF FrameRests
  <1>15. QED  BY <1>1, <1>9, <1>11, <1>13, <1>14, InvUnfolds DEF BrowseInv

-----------------------------------------------------------------------------
(* What the user presses.                                                   *)

LEMMA LostKeepsInv ==
    ASSUME BrowseInv, FrameLost
    PROVE  BrowseInv'
  <1>1. PICK next : next = nextCursor  OBVIOUS
  <1>2. PICK es : es = cursors  OBVIOUS
  <1>3. PICK b : b = browser  OBVIOUS
  <1>4. Sound(OnUnreachable(b), es, next)  BY <1>1, <1>3, InvUnfolds, LinkLost
  <1>5. browser' = OnUnreachable(b) /\ cursors' = es /\ nextCursor' = next /\ fetch' = fetch /\ wishes' = wishes
    BY <1>1, <1>2, <1>3 DEF FrameLost
  <1>6. QED  BY <1>1, <1>2, <1>4, <1>5, InvUnfolds DEF BrowseInv

(* A press that leaves a sound browser.                                     *)
LEMMA PressKeepsInv ==
    ASSUME BrowseInv, NEW after, Press(after),
           browser.link = "ok" => Sound(after, cursors, nextCursor)
    PROVE  BrowseInv'
  <1>1. PICK next : next = nextCursor  OBVIOUS
  <1>2. PICK es : es = cursors  OBVIOUS
  <1>3. PICK c : c = browser'  OBVIOUS
  <1>4. c = after /\ browser.link = "ok"  BY <1>3 DEF Press
  <1>5. Sound(c, es, next)  BY <1>1, <1>2, <1>4
  <1>6. cursors' = es /\ nextCursor' = next /\ fetch' = fetch /\ wishes' = wishes
    BY <1>1, <1>2 DEF Press
  <1>7. QED  BY <1>1, <1>2, <1>3, <1>5, <1>6, InvUnfolds DEF BrowseInv

LEMMA SelectedLevel ==
    ASSUME NEW v, LevelGood(v), NEW k \in Nat, k <= Len(v.rows), NEW w, w = [v EXCEPT !.selected = k]
    PROVE  LevelGood(w) /\ w.cursor = v.cursor /\ \A e : Tied(v, e) => Tied(w, e)
  <1>1. /\ v \in LevelRec /\ v.rows \in Seq(ShownRow)
        /\ v.truncated => ~v.has_more /\ v.page_error = "ok" /\ v.cursor # 0
    BY DEF LevelGood, LevelFits, LevelRec
  <1>2. w \in LevelRec  BY <1>1 DEF LevelRec
  <1>3. /\ w.cursor = v.cursor /\ w.kind = v.kind /\ w.platform = v.platform /\ w.rows = v.rows
        /\ w.has_more = v.has_more /\ w.truncated = v.truncated /\ w.selected = k
        /\ w.replace_rows = v.replace_rows /\ w.page_error = v.page_error
    BY <1>1 DEF LevelRec
  <1>4. SameIds(v.rows, w.rows)  BY <1>1, <1>3, SameRows
  <1>5. LevelGood(w)  BY <1>1, <1>2, <1>3, <1>4, AlikeLevel
  <1>6. RowsBefore(w) = RowsBefore(v)  BY <1>3 DEF RowsBefore
  <1>7. SameIds(RowsBefore(v), RowsBefore(w))  BY <1>6, BaseIsRows, SameRows DEF LevelGood
  <1>8. \A e : Tied(v, e) => Tied(w, e)  BY <1>3, <1>7, TiedAlike
  <1>9. QED  BY <1>3, <1>5, <1>8

LEMMA MovesKeepInv ==
    ASSUME BrowseInv, NEW delta \in {1, -1}, MoveSelection(delta)
    PROVE  BrowseInv'
  <1>1. PICK next \in Nat \ {0} : next = nextCursor  BY InvUnfolds
  <1>2. PICK b \in BrowserRec : b = browser  BY InvUnfolds
  <1>3. PICK es : es = cursors  OBVIOUS
  <1>4. Sound(b, es, next) /\ Shaped(b, next)  BY <1>1, <1>2, <1>3, InvUnfolds
  <1>5. PICK v : v = Top(b)  OBVIOUS
  <1>6. LevelGood(v) /\ v \in LevelRec /\ v.selected \in Nat /\ v.rows \in Seq(ShownRow) /\ Len(v.rows) \in Nat
    BY <1>4, <1>5, TopOf DEF LevelRec
  <1>7. PICK last \in Int : last = Len(v.rows) + (IF HasMoreRow(v) THEN 1 ELSE 0) - 1 /\ last <= Len(v.rows)
    <2>1. PICK one : one = IF HasMoreRow(v) THEN 1 ELSE 0  OBVIOUS
    <2>2. one \in Int /\ one <= 1  BY <2>1
    <2>3. Len(v.rows) + one - 1 \in Int /\ Len(v.rows) + one - 1 <= Len(v.rows)  BY <1>6, <2>2
    <2>4. QED  BY <2>1, <2>3
  <1>8. last <= Len(v.rows)  BY <1>7
  <1>9. PICK to \in Int : to = v.selected + delta  BY <1>6
  <1>10. PICK k : k = IF to > last THEN IF last < 0 THEN 0 ELSE last ELSE IF to < 0 THEN 0 ELSE to  OBVIOUS
  <1>11. k \in Nat /\ k <= Len(v.rows)
    <2>1. CASE to > last  BY <1>6, <1>8, <1>10, <2>1
    <2>2. CASE ~(to > last)  BY <1>6, <1>8, <1>10, <2>2
    <2>3. QED  BY <2>1, <2>2
  <1>12. PICK w : w = [v EXCEPT !.selected = k]  OBVIOUS
  <1>13. LevelGood(w) /\ w.cursor = v.cursor /\ \A e : Tied(v, e) => Tied(w, e)
    BY <1>6, <1>11, <1>12, SelectedLevel
  <1>14. b.link = "ok" => Sound(WithTop(b, w), es, next)  BY <1>4, <1>5, <1>13, ToppedAlike
  <1>15. PICK after : after = IF v.rows = <<>> /\ v.page_error = "ok" /\ ~v.has_more THEN b ELSE WithTop(b, w)
    OBVIOUS
  <1>16. Press(after)
    BY <1>2, <1>5, <1>7, <1>9, <1>10, <1>12, <1>15 DEF MoveSelection
  <1>17. browser.link = "ok" => Sound(after, cursors, nextCursor)
    BY <1>1, <1>2, <1>3, <1>4, <1>14, <1>15
  <1>18. QED  BY <1>16, <1>17, PressKeepsInv

(* A level pushed on the stack has not asked for anything.                  *)
LEMMA PushedIsSound ==
    ASSUME NEW b, NEW es \in Seq(EntryRec), NEW next \in Nat \ {0}, Sound(b, es, next), b.link = "ok",
           NEW v, LevelGood(v), v.cursor = 0
    PROVE  Sound([b EXCEPT !.stack = Append(b.stack, v)], es, next)
  <1>1. Shaped(b, next) /\ Apart(b.stack) /\ AllTied(b.stack, es) /\ b \in BrowserRec  BY DEF Sound, Shaped
  <1>2. PICK n \in Nat : n = Len(b.stack) /\ n > 0  BY <1>1, TopOf
  <1>3. b.stack \in Seq(LevelRec) /\ v \in LevelRec  BY <1>1 DEF Shaped, StackGood, LevelGood, LevelFits
  <1>4. PICK new : new = Append(b.stack, v)  OBVIOUS
  <1>5. new \in Seq(LevelRec) /\ Len(new) = n + 1 /\ new[n + 1] = v /\ \A i \in 1 .. n : new[i] = b.stack[i]
    BY <1>2, <1>3, <1>4
  <1>6. PICK c : c = [b EXCEPT !.stack = new]  OBVIOUS
  <1>7. c \in BrowserRec /\ c.stack = new /\ c.link = "ok"  BY <1>1, <1>5, <1>6 DEF BrowserRec
  <1>8. \A i \in 1 .. n + 1 : i = n + 1 \/ i \in 1 .. n  BY <1>2
  <1>9. StackGood(new, next)
    <2>1. ASSUME NEW i \in 1 .. n + 1 PROVE LevelGood(new[i]) /\ new[i].cursor < next
      <3>1. CASE i = n + 1  BY <1>5, <3>1
      <3>2. CASE i \in 1 .. n  BY <1>1, <1>2, <1>5, <3>2 DEF Shaped, StackGood
      <3>3. QED  BY <1>8, <3>1, <3>2
    <2>2. QED  BY <1>2, <1>5, <2>1 DEF StackGood
  <1>10. Apart(new)
    <2>1. ASSUME NEW i \in 1 .. n + 1, NEW j \in 1 .. n + 1, new[i].cursor = new[j].cursor, new[i].cursor # 0
          PROVE  i = j
      <3>1. i # n + 1 /\ j # n + 1  BY <1>5, <2>1
      <3>2. i \in 1 .. n /\ j \in 1 .. n  BY <1>8, <3>1
      <3>3. b.stack[i].cursor = b.stack[j].cursor /\ b.stack[i].cursor # 0  BY <1>5, <2>1, <3>2
      <3>4. QED  BY <1>1, <1>2, <3>2, <3>3 DEF Apart
    <2>2. QED  BY <1>5, <2>1 DEF Apart
  <1>11. AllTied(new, es)
    <2>1. ASSUME NEW i \in 1 .. n + 1, NEW j \in 1 .. Len(es) PROVE Tied(new[i], es[j])
      <3>1. CASE i = n + 1
        <4>1. es[j] \in EntryRec  OBVIOUS
        <4>2. es[j].id # 0  BY <4>1 DEF EntryRec
        <4>3. QED  BY <1>5, <3>1, <4>2 DEF Tied
      <3>2. CASE i \in 1 .. n  BY <1>1, <1>2, <1>5, <3>2 DEF AllTied
      <3>3. QED  BY <1>8, <3>1, <3>2
    <2>2. QED  BY <1>5, <2>1 DEF AllTied
  <1>12. Sound(c, es, next)  BY <1>7, <1>9, <1>10, <1>11 DEF Sound, Shaped
  <1>13. QED  BY <1>4, <1>6, <1>12

LEMMA OpenQueueKeepsInv ==
    ASSUME BrowseInv, OpenQueue
    PROVE  BrowseInv'
  <1>1. PICK v : v = NewLevel("queue", 0, TRUE)  OBVIOUS
  <1>2. LevelGood(v) /\ v.cursor = 0  BY <1>1, NewLevelGood DEF LevelKinds
  <1>3. PICK b \in BrowserRec : b = browser  BY InvUnfolds
  <1>4. PICK after : after = [b EXCEPT !.stack = Append(b.stack, v)]  OBVIOUS
  <1>5. Press(after)  BY <1>1, <1>3, <1>4 DEF OpenQueue
  <1>6. browser.link = "ok" => Sound(after, cursors, nextCursor)
    <2>1. PICK es \in Seq(EntryRec) : es = cursors  BY InvUnfolds
    <2>2. PICK next \in Nat \ {0} : next = nextCursor  BY InvUnfolds
    <2>3. Sound(b, es, next)  BY <1>3, <2>1, <2>2, InvUnfolds
    <2>4. b.link = "ok" => Sound(after, es, next)  BY <1>2, <1>4, <2>3, PushedIsSound
    <2>5. QED  BY <1>3, <2>1, <2>2, <2>4
  <1>7. QED  BY <1>5, <1>6, PressKeepsInv

LEMMA BackKeepsInv ==
    ASSUME BrowseInv, Back
    PROVE  BrowseInv'
  <1>1. PICK next \in Nat \ {0} : next = nextCursor  BY InvUnfolds
  <1>2. PICK b \in BrowserRec : b = browser  BY InvUnfolds
  <1>3. PICK es : es = cursors  OBVIOUS
  <1>4. Sound(b, es, next) /\ Shaped(b, next)  BY <1>1, <1>2, <1>3, InvUnfolds
  <1>5. PICK n \in Nat : n = Len(b.stack) /\ n > 1
    <2>1. Len(b.stack) \in Nat  BY <1>4, TopOf
    <2>2. QED  BY <1>2, <2>1 DEF Back
  <1>6. PICK new : new = SubSeq(b.stack, 1, n - 1)  OBVIOUS
  <1>7. new \in Seq(LevelRec) /\ Len(new) = n - 1 /\ \A i \in 1 .. n - 1 : new[i] = b.stack[i]
    <2>1. b.stack \in Seq(LevelRec)  BY DEF BrowserRec
    <2>2. \A i \in 1 .. n - 1 : b.stack[i] \in LevelRec  BY <1>5, <2>1
    <2>3. QED  BY <1>5, <1>6, <2>2, SubSeqProperties
  <1>8. PICK closing : closing = IF Top(b).cursor = 0 THEN b.closing ELSE Append(b.closing, Top(b).cursor)
    OBVIOUS
  <1>9. closing \in Seq(Nat)
    <2>1. PICK old \in Seq(Nat) : old = b.closing  BY DEF BrowserRec
    <2>2. PICK k \in Nat : k = Top(b).cursor  BY <1>4, TopOf
    <2>3. Append(old, k) \in Seq(Nat)  OBVIOUS
    <2>4. QED  BY <1>8, <2>1, <2>2, <2>3
  <1>10. PICK c : c = [b EXCEPT !.stack = new, !.closing = closing]  OBVIOUS
  <1>11. c \in BrowserRec /\ c.stack = new /\ c.link = b.link  BY <1>7, <1>9, <1>10 DEF BrowserRec
  <1>12. \A i \in 1 .. n - 1 : i \in 1 .. n  BY <1>5
  <1>13. StackGood(new, next)
    <2>1. \A i \in 1 .. n - 1 : LevelGood(new[i]) /\ new[i].cursor < next
      BY <1>4, <1>5, <1>7, <1>12 DEF Shaped, StackGood
    <2>2. n - 1 > 0  BY <1>5
    <2>3. QED  BY <1>7, <2>1, <2>2 DEF StackGood
  <1>14. Apart(b.stack) => Apart(new)  BY <1>5, <1>7, <1>12 DEF Apart
  <1>15. AllTied(b.stack, es) => AllTied(new, es)  BY <1>5, <1>7, <1>12 DEF AllTied
  <1>16. Sound(c, es, next)  BY <1>4, <1>11, <1>13, <1>14, <1>15 DEF Sound, Shaped
  <1>17. Press(c)  BY <1>2, <1>5, <1>6, <1>8, <1>10 DEF Back
  <1>18. browser.link = "ok" => Sound(c, cursors, nextCursor)  BY <1>1, <1>3, <1>16
  <1>19. QED  BY <1>17, <1>18, PressKeepsInv

LEMMA LeaveKeepsInv ==
    ASSUME BrowseInv, Leave
    PROVE  BrowseInv'
  <1>1. PICK next \in Nat \ {0} : next = nextCursor  BY InvUnfolds
  <1>2. PICK es \in Seq(EntryRec) : es = cursors  BY InvUnfolds
  <1>3. EntriesGood(es, next) /\ InHand(fetch, es, next)  BY <1>1, <1>2, InvUnfolds
  <1>4. PICK more : more = cursors'  OBVIOUS
  <1>5. more = es \/ \E ended : more \in Remaining(ended)  BY <1>2, <1>4 DEF Leave
  <1>6. Thinned(more, es)  BY <1>2, <1>5, AllOfThem, RemainingThins
  <1>7. EntriesGood(more, next) /\ InHand(fetch, more, next)  BY <1>3, <1>6, ThinnedGood
  <1>8. more \in Seq(EntryRec)  BY <1>6 DEF Thinned
  <1>9. PICK c : c = [NewBrowser EXCEPT !.closed = TRUE]  OBVIOUS
  <1>10. Sound(c, more, next)  BY <1>8, <1>9, FreshIsSound
  <1>11. browser' = c /\ nextCursor' = next /\ fetch' = fetch /\ wishes' = wishes  BY <1>1, <1>9 DEF Leave
  <1>12. QED  BY <1>4, <1>7, <1>10, <1>11, InvUnfolds DEF BrowseInv

LEMMA VisitKeepsInv ==
    ASSUME BrowseInv, Visit
    PROVE  BrowseInv'
  <1>1. PICK next \in Nat \ {0} : next = nextCursor  BY InvUnfolds
  <1>2. PICK es \in Seq(EntryRec) : es = cursors  BY InvUnfolds
  <1>3. PICK c : c = NewBrowser  OBVIOUS
  <1>4. Sound(c, es, next)  BY <1>3, FreshIsSound
  <1>5. browser' = c /\ cursors' = es /\ nextCursor' = next /\ fetch' = fetch /\ wishes' = wishes
    BY <1>1, <1>2, <1>3 DEF Visit
  <1>6. QED  BY <1>1, <1>2, <1>4, <1>5, InvUnfolds DEF BrowseInv

LEMMA RetriedLevel ==
    ASSUME NEW v, LevelGood(v), v.page_error # "ok", NEW w,
           w = [v EXCEPT !.page_error = "ok", !.empty_pages = 0, !.has_more = TRUE]
    PROVE  LevelGood(w) /\ w.cursor = v.cursor /\ \A e : Tied(v, e) => Tied(w, e)
  <1>1. v \in LevelRec /\ v.rows \in Seq(ShownRow) /\ ~v.truncated /\ v.selected <= Len(v.rows)
    BY DEF LevelGood, LevelFits, LevelRec
  <1>2. w \in LevelRec
    <2>1. "ok" \in PageErrors /\ 0 \in {0}  BY DEF PageErrors
    <2>2. QED  BY <1>1, <2>1 DEF LevelRec
  <1>3. /\ w.cursor = v.cursor /\ w.kind = v.kind /\ w.platform = v.platform /\ w.rows = v.rows
        /\ w.has_more /\ w.truncated = v.truncated /\ w.selected = v.selected
        /\ w.replace_rows = v.replace_rows
    BY <1>1 DEF LevelRec
  <1>4. SameIds(v.rows, w.rows)  BY <1>1, <1>3, SameRows
  <1>5. LevelGood(w)  BY <1>1, <1>2, <1>3, <1>4, AlikeLevel
  <1>6. RowsBefore(w) = RowsBefore(v)  BY <1>3 DEF RowsBefore
  <1>7. SameIds(RowsBefore(v), RowsBefore(w))  BY <1>6, BaseIsRows, SameRows DEF LevelGood
  <1>8. \A e : Tied(v, e) => Tied(w, e)  BY <1>3, <1>7, TiedAlike
  <1>9. QED  BY <1>3, <1>5, <1>8

(* A row of the platforms is a platform whose roms the server has.          *)
LEMMA PlatformRow ==
    ASSUME NEW v, LevelGood(v), v.kind = "platforms", NEW r \in 1 .. Len(v.rows)
    PROVE  v.rows[r].id \in DOMAIN RomsOf
  <1>1. PICK list : list = ListOf(v.kind, v.platform)  OBVIOUS
  <1>2. list \in Seq(DOMAIN RomsOf) /\ Len(list) \in Nat
    BY <1>1, LevelIsServed, ServedLists DEF LevelGood
  <1>3. PICK o \in Nat : FollowsTo(v.rows, list, o)  BY <1>1 DEF LevelGood, LevelFollows
  <1>4. PICK n \in 1 .. o : v.rows[r].id = list[n] /\ o \in 0 .. Len(list)  BY <1>3 DEF FollowsTo
  <1>5. n \in 1 .. Len(list)  BY <1>2, <1>4
  <1>6. list[n] \in DOMAIN RomsOf  BY <1>2, <1>5
  <1>7. QED  BY <1>4, <1>6

\* What a press on the row selected makes of the browser.
Activated(b, v) ==
    LET row == v.rows[v.selected + 1]
    IN IF v.selected >= Len(v.rows)
             THEN IF v.page_error = "ok" THEN b
                  ELSE WithTop(b, [v EXCEPT !.page_error = "ok", !.empty_pages = 0,
                                                      !.has_more = TRUE])
             ELSE CASE v.kind = "platforms" ->
                         [b EXCEPT !.stack =
                             Append(@, NewLevel("roms", row.id, row.state # "unmapped"))]
                    [] v.kind = "roms" ->
                         IF row.state \in {"ready", "refused"}
                         THEN [b EXCEPT !.wanted = row.id] ELSE b
                    [] v.kind = "queue" -> b

LEMMA ActivateKeepsInv ==
    ASSUME BrowseInv, Activate
    PROVE  BrowseInv'
  <1>1. PICK next \in Nat \ {0} : next = nextCursor  BY InvUnfolds
  <1>2. PICK b \in BrowserRec : b = browser  BY InvUnfolds
  <1>3. PICK es \in Seq(EntryRec) : es = cursors  BY InvUnfolds
  <1>4. Sound(b, es, next) /\ Shaped(b, next)  BY <1>1, <1>2, <1>3, InvUnfolds
  <1>5. PICK v : v = Top(b)  OBVIOUS
  <1>6. LevelGood(v) /\ v \in LevelRec /\ v.selected \in Nat /\ v.rows \in Seq(ShownRow)
        /\ Len(v.rows) \in Nat /\ v.kind \in LevelKinds
    BY <1>4, <1>5, TopOf DEF LevelRec
  <1>7. PICK after : after = Activated(b, v)  OBVIOUS
  <1>8. Press(after)  BY <1>2, <1>5, <1>7 DEF Activate, Activated
  <1>9. ASSUME b.link = "ok" PROVE Sound(after, es, next)
    <2>1. CASE v.selected >= Len(v.rows) /\ v.page_error = "ok"
      <3>1. after = b  BY <1>7, <2>1 DEF Activated
      <3>2. QED  BY <1>4, <3>1
    <2>2. CASE v.selected >= Len(v.rows) /\ v.page_error # "ok"
      <3>1. PICK w : w = [v EXCEPT !.page_error = "ok", !.empty_pages = 0, !.has_more = TRUE]  OBVIOUS
      <3>2. LevelGood(w) /\ w.cursor = v.cursor /\ \A e : Tied(v, e) => Tied(w, e)
        BY <1>6, <2>2, <3>1, RetriedLevel
      <3>3. after = WithTop(b, w)  BY <1>7, <2>2, <3>1 DEF Activated
      <3>4. QED  BY <1>4, <1>5, <1>9, <3>2, <3>3, ToppedAlike
    <2>3. CASE ~(v.selected >= Len(v.rows))
      <3>1. PICK r \in 1 .. Len(v.rows) : r = v.selected + 1  BY <1>6, <2>3
      <3>2. PICK row \in ShownRow : row = v.rows[r]  BY <1>6
      <3>3. row.id \in RowIds  BY DEF ShownRow
      <3>4. CASE v.kind = "platforms"
        <4>1. row.id \in DOMAIN RomsOf  BY <1>6, <3>2, <3>4, PlatformRow
        <4>2. PICK mapped \in BOOLEAN : mapped = (row.state # "unmapped")  OBVIOUS
        <4>3. PICK w : w = NewLevel("roms", row.id, mapped)  OBVIOUS
        <4>4. LevelGood(w) /\ w.cursor = 0  BY <4>1, <4>3, NewLevelGood DEF LevelKinds
        <4>5. after = [b EXCEPT !.stack = Append(b.stack, w)]
          BY <1>7, <2>3, <3>1, <3>2, <3>4, <4>2, <4>3 DEF Activated
        <4>6. QED  BY <1>4, <1>9, <4>4, <4>5, PushedIsSound
      <3>5. CASE v.kind = "roms"
        <4>1. PICK c : c = [b EXCEPT !.wanted = row.id]  OBVIOUS
        <4>2. c \in BrowserRec /\ c.stack = b.stack /\ c.link = b.link  BY <3>3, <4>1 DEF BrowserRec
        <4>3. Sound(c, es, next)  BY <1>4, <4>2, SameStack
        <4>4. after = c \/ after = b
          BY <1>7, <2>3, <3>1, <3>2, <3>5, <4>1 DEF Activated
        <4>5. QED  BY <1>4, <4>3, <4>4
      <3>6. CASE v.kind = "queue"
        <4>1. after = b  BY <1>7, <2>3, <3>6 DEF Activated
        <4>2. QED  BY <1>4, <4>1
      <3>7. QED  BY <1>6, <3>4, <3>5, <3>6 DEF LevelKinds
    <2>4. QED  BY <2>1, <2>2, <2>3
  <1>10. browser.link = "ok" => Sound(after, cursors, nextCursor)  BY <1>1, <1>2, <1>3, <1>9
  <1>11. QED  BY <1>8, <1>10, PressKeepsInv

-----------------------------------------------------------------------------
(* The worker's half.                                                       *)

(* A set of numbers that is not empty has a least one.                      *)
LEMMA LeastNumber ==
    ASSUME NEW S \in SUBSET Nat, S # {}
    PROVE  \E x \in S : \A y \in S : x <= y
  <1>1. PICK x \in S : \A y \in S : ~ (<<y, x>> \in OpToRel(<, Nat))
    BY NatLessThanWellFounded, WFMin, Zenon
  <1>2. ASSUME NEW y \in S PROVE x <= y
    <2>1. ~(y < x)
      <3>1. <<y, x>> \notin OpToRel(<, Nat)  BY <1>1
      <3>2. QED  BY <3>1 DEF OpToRel
    <2>2. QED  BY <2>1
  <1>3. QED  BY <1>2

(* One entry is another, and stays tied to what asks it.                    *)
LEMMA EntryChanged ==
    ASSUME NEW next, NEW es, EntriesGood(es, next), NEW i \in 1 .. Len(es), NEW x, EntryGood(x), x.id = es[i].id,
           NEW more, more = [es EXCEPT ![i] = x]
    PROVE  /\ EntriesGood(more, next)
           /\ \A stack : AllTied(stack, es) /\ (\A v : Tied(v, es[i]) => Tied(v, x)) => AllTied(stack, more)
  <1>1. es \in Seq(EntryRec) /\ x \in EntryRec  BY DEF EntriesGood, EntryGood
  <1>2. /\ more \in Seq(EntryRec) /\ Len(more) = Len(es) /\ more[i] = x
        /\ \A j \in 1 .. Len(es) : j # i => more[j] = es[j]
    BY <1>1
  <1>3. \A j \in 1 .. Len(es) : more[j].id = es[j].id  BY <1>2
  <1>4. \A j \in 1 .. Len(es) : EntryGood(more[j])  BY <1>2 DEF EntriesGood
  <1>5. EntriesGood(more, next)  BY <1>2, <1>3, <1>4 DEF EntriesGood
  <1>6. ASSUME NEW stack, AllTied(stack, es), \A v : Tied(v, es[i]) => Tied(v, x) PROVE AllTied(stack, more)
    <2>1. ASSUME NEW k \in 1 .. Len(stack), NEW j \in 1 .. Len(es) PROVE Tied(stack[k], more[j])
      <3>1. Tied(stack[k], es[j])  BY <1>6 DEF AllTied
      <3>2. QED  BY <1>2, <1>6, <3>1
    <2>2. QED  BY <1>2, <2>1 DEF AllTied
  <1>7. QED  BY <1>5, <1>6

\* An entry that gives up what was built for it will ask again from where it was.
Yielded(e) ==
    [e EXCEPT !.fetch = IF e.fetch = "ready" THEN "idle" ELSE e.fetch, !.ready = <<>>, !.loaded = FALSE]

LEMMA YieldedEntry ==
    ASSUME NEW e, EntryGood(e)
    PROVE  EntryGood(Yielded(e)) /\ Yielded(e).id = e.id /\ \A v : Tied(v, e) => Tied(v, Yielded(e))
  <1>1. e \in EntryRec /\ e.fetch \in Fetches  BY DEF EntryGood, EntryRec
  <1>2. PICK doing : doing = IF e.fetch = "ready" THEN "idle" ELSE e.fetch  OBVIOUS
  <1>3. doing \in Fetches /\ doing # "ready" /\ (doing = "running" => e.fetch = "running")
        /\ (doing = "failed" => e.fetch = "failed")
    BY <1>1, <1>2 DEF Fetches
  <1>4. PICK x : x = Yielded(e)  OBVIOUS
  <1>5. x = [e EXCEPT !.fetch = doing, !.ready = <<>>, !.loaded = FALSE]  BY <1>2, <1>4 DEF Yielded
  <1>6. x \in EntryRec
    <2>1. <<>> \in Seq(SentItem)  OBVIOUS
    <2>2. QED  BY <1>1, <1>3, <1>5, <2>1 DEF EntryRec
  <1>7. /\ x.id = e.id /\ x.kind = e.kind /\ x.platform = e.platform /\ x.offset = e.offset
        /\ x.exhausted = e.exhausted /\ x.fetch = doing /\ x.failure = e.failure
        /\ x.waiting = e.waiting /\ x.loaded = FALSE
    BY <1>1, <1>5 DEF EntryRec
  <1>8. EntryGood(x)  BY <1>3, <1>6, <1>7 DEF EntryGood
  <1>9. \A v : Tied(v, e) => Tied(v, x)  BY <1>7 DEF Tied
  <1>10. QED  BY <1>4, <1>7, <1>8, <1>9

LEMMA TakesKeepsInv ==
    ASSUME BrowseInv, PumpTakes
    PROVE  BrowseInv'
  <1>1. PICK next \in Nat \ {0} : next = nextCursor  BY InvUnfolds
  <1>2. PICK b \in BrowserRec : b = browser  BY InvUnfolds
  <1>3. PICK es \in Seq(EntryRec) : es = cursors /\ DOMAIN es = 1 .. Len(es)  BY InvUnfolds
  <1>4. Sound(b, es, next) /\ EntriesGood(es, next)  BY <1>1, <1>2, <1>3, InvUnfolds
  <1>5. PICK waiting : waiting = {i \in 1 .. Len(es) : es[i].fetch = "running"}  OBVIOUS
  <1>6. waiting # {}  BY <1>3, <1>5 DEF PumpTakes
  <1>7. PICK first : first = CHOOSE i \in waiting : \A j \in waiting : es[i].id <= es[j].id  OBVIOUS
  <1>8. first \in waiting
    <2>1. PICK ids : ids = {es[i].id : i \in waiting}  OBVIOUS
    <2>2. ids \in SUBSET Nat /\ ids # {}
      <3>1. ASSUME NEW i \in waiting PROVE es[i].id \in Nat
        <4>1. es[i] \in EntryRec  BY <1>5
        <4>2. QED  BY <4>1 DEF EntryRec
      <3>2. QED  BY <1>6, <2>1, <3>1
    <2>3. PICK x \in ids : \A y \in ids : x <= y  BY <2>2, LeastNumber
    <2>4. PICK i \in waiting : es[i].id = x  BY <2>1
    <2>5. \A j \in waiting : es[i].id <= es[j].id  BY <2>1, <2>3, <2>4
    <2>6. QED  BY <1>7, <2>5
  <1>9. PICK mine : mine = es[first]  OBVIOUS
  <1>10. PICK more : more = cursors'  OBVIOUS
  <1>11. /\ more = [i \in 1 .. Len(es) |->
             IF i = first \/ es[i].kind # mine.kind THEN es[i]
             ELSE [es[i] EXCEPT !.fetch = IF es[i].fetch = "ready" THEN "idle" ELSE es[i].fetch,
                                     !.ready = <<>>, !.loaded = FALSE]]
         /\ fetch' = [id |-> mine.id, kind |-> mine.kind, platform |-> mine.platform,
                      offset |-> mine.offset]
         /\ browser' = browser /\ nextCursor' = nextCursor /\ wishes' = wishes
    <2>1. waiting = {i \in DOMAIN cursors : cursors[i].fetch = "running"}  BY <1>3, <1>5
    <2>2. first = CHOOSE i \in waiting : \A j \in waiting : cursors[i].id <= cursors[j].id  BY <1>3, <1>7
    <2>3. mine = cursors[first]  BY <1>3, <1>9
    <2>4. cursors' = [i \in DOMAIN cursors |->
             IF i = first \/ cursors[i].kind # mine.kind THEN cursors[i]
             ELSE [cursors[i] EXCEPT !.fetch = IF @ = "ready" THEN "idle" ELSE @,
                                     !.ready = <<>>, !.loaded = FALSE]]
      BY <2>1, <2>2, <2>3, Zenon DEF PumpTakes
    <2>5. fetch' = [id |-> mine.id, kind |-> mine.kind, platform |-> mine.platform,
                      offset |-> mine.offset]
      BY <2>1, <2>2, <2>3, Zenon DEF PumpTakes
    <2>6. browser' = browser /\ nextCursor' = nextCursor /\ wishes' = wishes  BY DEF PumpTakes
    <2>7. more = [i \in DOMAIN es |->
             IF i = first \/ es[i].kind # mine.kind THEN es[i]
             ELSE [es[i] EXCEPT !.fetch = IF @ = "ready" THEN "idle" ELSE @,
                                     !.ready = <<>>, !.loaded = FALSE]]
      BY <1>3, <1>10, <2>4
    <2>8. QED  BY <1>3, <2>5, <2>6, <2>7
  <1>12. ASSUME NEW i \in 1 .. Len(es)
         PROVE  /\ EntryGood(more[i]) /\ more[i].id = es[i].id
                /\ \A v : Tied(v, es[i]) => Tied(v, more[i])
    <2>1. EntryGood(es[i])  BY <1>4 DEF EntriesGood
    <2>2. PICK x : x = Yielded(es[i])  OBVIOUS
    <2>3. EntryGood(x) /\ x.id = es[i].id /\ \A v : Tied(v, es[i]) => Tied(v, x)
      BY <2>1, <2>2, YieldedEntry
    <2>4. more[i] = es[i] \/ more[i] = x  BY <1>11, <2>2 DEF Yielded
    <2>5. QED  BY <2>1, <2>3, <2>4
  <1>13. more \in Seq(EntryRec) /\ Len(more) = Len(es)
    <2>1. \A i \in 1 .. Len(es) : more[i] \in EntryRec  BY <1>12 DEF EntryGood
    <2>2. more = [i \in 1 .. Len(es) |-> more[i]]  BY <1>11
    <2>3. more \in [1 .. Len(es) -> EntryRec]  BY <2>1, <2>2
    <2>4. Len(es) \in Nat  OBVIOUS
    <2>5. QED  BY <2>3, <2>4
  <1>14. EntriesGood(more, next)  BY <1>4, <1>12, <1>13 DEF EntriesGood
  <1>15. AllTied(b.stack, es) => AllTied(b.stack, more)  BY <1>12, <1>13 DEF AllTied
  <1>16. Sound(b, more, next)  BY <1>4, <1>15 DEF Sound
  <1>17. PICK f : f = [id |-> mine.id, kind |-> mine.kind, platform |-> mine.platform, offset |-> mine.offset]
    OBVIOUS
  <1>18. InHand(f, more, next)
    <2>1. first \in 1 .. Len(es) /\ mine.fetch = "running"  BY <1>5, <1>8, <1>9
    <2>2. mine.id < next /\ mine \in EntryRec  BY <1>4, <1>9, <2>1 DEF EntriesGood
    <2>3. mine.id \in Nat  BY <2>2 DEF EntryRec
    <2>4. more[first] = mine  BY <1>9, <1>11, <2>1
    <2>5. \A j \in 1 .. Len(es) : more[j].id = mine.id => j = first
      BY <1>4, <1>9, <1>12, <2>1 DEF EntriesGood
    <2>6. f.id = mine.id /\ f.kind = mine.kind /\ f.platform = mine.platform /\ f.offset = mine.offset
      BY <1>17
    <2>7. \A j \in 1 .. Len(more) : more[j].id = f.id =>
             more[j].fetch = "running" /\ more[j].kind = f.kind /\ more[j].platform = f.platform
                 /\ more[j].offset = f.offset
      BY <1>13, <2>1, <2>4, <2>5, <2>6
    <2>8. QED  BY <2>2, <2>3, <2>6, <2>7 DEF InHand
  <1>19. browser' = b /\ cursors' = more /\ nextCursor' = next /\ fetch' = f  BY <1>1, <1>2, <1>10, <1>11, <1>17
  <1>20. QED  BY <1>1, <1>11, <1>14, <1>16, <1>18, <1>19, InvUnfolds DEF BrowseInv

(* The rows an answer holds are the list's after what was stepped over.     *)
LEMMA AnsweredRows ==
    ASSUME NEW list, list \in Seq(RowIds), NEW from \in Nat, from <= Len(list), Steps(list, from) # {}
    PROVE  \E s \in Nat :
             /\ s = Stepped(list, from) /\ from + s <= Len(list)
             /\ \A n \in from + 1 .. from + s : list[n] \in Huge
             /\ RomsAt(list, from + s) \in Seq(RowIds)
             /\ from + s + Len(RomsAt(list, from + s)) <= Len(list)
             /\ \A k \in 1 .. Len(RomsAt(list, from + s)) : RomsAt(list, from + s)[k] = list[from + s + k]
             /\ RomsAt(list, from + s) = <<>> => from + s = Len(list)
  <1>1. PICK n \in Nat : n = Len(list)  OBVIOUS
  <1>2. kMaxRowsStepped \in Nat /\ kPageSize \in Nat \ {0}  BY LibraryConstants
  <1>3. PICK steps : steps = Steps(list, from)  OBVIOUS
  <1>4. steps = {s \in 0..kMaxRowsStepped : ~TooLarge(list, from + s, 1)}  BY <1>3 DEF Steps
  <1>5. steps \in SUBSET Nat /\ steps # {}  BY <1>2, <1>3, <1>4
  <1>6. PICK s \in steps : \A t \in steps : s <= t /\ s = Stepped(list, from)
    <2>1. \E s \in steps : \A t \in steps : s <= t  BY <1>5, LeastNumber
    <2>2. PICK s : s = CHOOSE x \in steps : \A t \in steps : x <= t  OBVIOUS
    <2>3. s \in steps /\ \A t \in steps : s <= t  BY <2>1, <2>2
    <2>4. s = Stepped(list, from)  BY <1>3, <2>2 DEF Stepped
    <2>5. QED  BY <2>3, <2>4
  <1>7. s \in Nat /\ s <= kMaxRowsStepped /\ s = Stepped(list, from) /\ ~TooLarge(list, from + s, 1)
    BY <1>2, <1>4, <1>6
  <1>8. ASSUME NEW t \in Nat, t < s PROVE from + t + 1 <= n /\ list[from + t + 1] \in Huge
    <2>1. t \in 0 .. kMaxRowsStepped /\ t \notin steps  BY <1>2, <1>6, <1>7, <1>8
    <2>2. TooLarge(list, from + t, 1)  BY <1>4, <2>1
    <2>3. PICK i \in (from + t + 1) .. (from + t + 1) : i <= Len(list) /\ list[i] \in Huge
      BY <2>2 DEF TooLarge
    <2>4. i = from + t + 1  BY <2>3
    <2>5. QED  BY <1>1, <2>3, <2>4
  <1>9. from + s <= n
    <2>1. CASE s = 0  BY <1>1, <2>1
    <2>2. CASE s # 0
      <3>1. PICK t \in Nat : t = s - 1 /\ t < s  BY <1>7, <2>2
      <3>2. from + t + 1 <= n  BY <1>8, <3>1
      <3>3. QED  BY <1>7, <3>1, <3>2
    <2>3. QED  BY <2>1, <2>2
  <1>10. ASSUME NEW k \in from + 1 .. from + s PROVE list[k] \in Huge
    <2>1. PICK t \in Nat : t = k - from - 1 /\ t < s /\ from + t + 1 = k  BY <1>7
    <2>2. QED  BY <1>8, <2>1
  <1>11. PICK p \in Nat : p = from + s  BY <1>7
  <1>12. PICK limit : limit = CHOOSE l \in Limits : /\ ~TooLarge(list, p, l)
                                                    /\ \A k \in Limits : k > l => TooLarge(list, p, k)
    OBVIOUS
  <1>13. Limits \subseteq 1 .. kPageSize /\ 1 \in Limits  BY <1>2 DEF Limits
  <1>14. limit \in Limits
    <2>1. PICK fits : fits = {l \in Limits : ~TooLarge(list, p, l)}  OBVIOUS
    <2>2. 1 \in fits  BY <1>7, <1>11, <1>13, <2>1
    <2>3. PICK left : left = {kPageSize - l : l \in fits}  OBVIOUS
    <2>4. left \in SUBSET Nat /\ left # {}
      <3>1. \A l \in fits : kPageSize - l \in Nat  BY <1>2, <1>13, <2>1
      <3>2. QED  BY <2>2, <2>3, <3>1
    <2>5. PICK x \in left : \A y \in left : x <= y  BY <2>4, LeastNumber
    <2>6. PICK l \in fits : x = kPageSize - l  BY <2>3
    <2>7. ASSUME NEW k \in Limits, k > l PROVE TooLarge(list, p, k)
      <3>1. SUFFICES ASSUME k \in fits PROVE FALSE  BY <2>1
      <3>2. kPageSize - l <= kPageSize - k  BY <2>3, <2>5, <2>6, <3>1
      <3>3. k \in Int /\ l \in Int  BY <1>13, <2>1
      <3>4. QED  BY <1>2, <2>7, <3>2, <3>3
    <2>8. l \in Limits /\ ~TooLarge(list, p, l)  BY <2>1
    <2>9. QED  BY <1>12, <2>7, <2>8
  <1>15. limit \in Nat /\ limit >= 1  BY <1>2, <1>13, <1>14
  <1>16. PICK end : end = IF p + limit < Len(list) THEN p + limit ELSE Len(list)  OBVIOUS
  <1>17. end \in Nat /\ end <= n /\ p <= end /\ (end = p => p = n)
    BY <1>1, <1>9, <1>11, <1>15, <1>16
  <1>18. PICK roms : roms = SubSeq(list, p + 1, end)  OBVIOUS
  <1>19. RomsAt(list, p) = roms  BY <1>12, <1>16, <1>18 DEF RomsAt
  <1>20. roms \in Seq(RowIds) /\ Len(roms) = end - p /\ \A k \in 1 .. end - p : roms[k] = list[p + k]
    <2>1. CASE p < end
      <3>1. \A k \in p + 1 .. end : list[k] \in RowIds  BY <1>1, <1>17
      <3>2. QED  BY <1>17, <1>18, <2>1, <3>1, SubSeqProperties
    <2>2. CASE p = end
      <3>1. roms = <<>>  BY <1>17, <1>18, <2>2, SubSeqProperties
      <3>2. QED  BY <1>17, <2>2, <3>1
    <2>3. QED  BY <1>17, <2>1, <2>2
  <1>21. p + Len(roms) <= n /\ (roms = <<>> => p = n)
    <2>1. roms = <<>> => Len(roms) = 0  OBVIOUS
    <2>2. QED  BY <1>17, <1>20, <2>1
  <1>22. QED  BY <1>1, <1>7, <1>9, <1>10, <1>11, <1>19, <1>20, <1>21

(* A request that failed: the entry says so, and will be asked again from where it was. *)
LEMMA FailedEntry ==
    ASSUME NEW e, EntryGood(e), NEW failure \in {"offline", "internal"}, NEW x,
           x = [e EXCEPT !.fetch = "failed", !.failure = failure, !.waiting = TRUE]
    PROVE  EntryGood(x) /\ x.id = e.id /\ \A v : Tied(v, e) => Tied(v, x)
  <1>1. e \in EntryRec  BY DEF EntryGood
  <1>2. "failed" \in Fetches /\ failure \in PageErrors /\ failure # "ok"  BY DEF Fetches, PageErrors
  <1>3. x \in EntryRec  BY <1>1, <1>2 DEF EntryRec
  <1>4. /\ x.id = e.id /\ x.kind = e.kind /\ x.platform = e.platform /\ x.offset = e.offset
        /\ x.exhausted = e.exhausted /\ x.fetch = "failed" /\ x.failure = failure
    BY <1>1 DEF EntryRec
  <1>5. EntryGood(x)  BY <1>2, <1>3, <1>4 DEF EntryGood
  <1>6. QED  BY <1>4, <1>5 DEF Tied

LEMMA PlatformsEntry ==
    ASSUME NEW e, EntryGood(e), e.kind = "platforms", NEW x,
           x = [e EXCEPT !.fetch = "ready", !.waiting = FALSE, !.failure = "ok"]
    PROVE  EntryGood(x) /\ x.id = e.id /\ \A v : Tied(v, e) => Tied(v, x)
  <1>1. e \in EntryRec  BY DEF EntryGood
  <1>2. "ready" \in Fetches /\ "ok" \in PageErrors  BY DEF Fetches, PageErrors
  <1>3. x \in EntryRec  BY <1>1, <1>2 DEF EntryRec
  <1>4. /\ x.id = e.id /\ x.kind = e.kind /\ x.platform = e.platform /\ x.offset = e.offset
        /\ x.exhausted = e.exhausted /\ x.fetch = "ready" /\ ~x.waiting
    BY <1>1 DEF EntryRec
  <1>5. EntryGood(x)  BY <1>3, <1>4 DEF EntryGood
  <1>6. QED  BY <1>4, <1>5 DEF Tied

(* What is built of an answer goes on after what was stepped over.          *)
LEMMA BuiltPage ==
    ASSUME NEW list, list \in Seq(RowIds), NEW from \in Nat, from <= Len(list), Steps(list, from) # {},
           NEW page, page = RomPage(list, from), NEW built \in BuildRomPage(page, from)
    PROVE  \E q \in Nat :
             /\ q = from + page.stepped /\ from <= q /\ q <= Len(list)
             /\ \A n \in from + 1 .. q : list[n] \in Huge
             /\ built.items \in Seq(SentItem) /\ built.has_more \in BOOLEAN
             /\ GoesOn(built.items, list, q, built.has_more)
             /\ (built.has_more => built.items # <<>>)
  <1>1. PICK s \in Nat :
             /\ s = Stepped(list, from) /\ from + s <= Len(list)
             /\ \A n \in from + 1 .. from + s : list[n] \in Huge
             /\ RomsAt(list, from + s) \in Seq(RowIds)
             /\ from + s + Len(RomsAt(list, from + s)) <= Len(list)
             /\ \A k \in 1 .. Len(RomsAt(list, from + s)) : RomsAt(list, from + s)[k] = list[from + s + k]
             /\ RomsAt(list, from + s) = <<>> => from + s = Len(list)
    BY AnsweredRows
  <1>2. PICK q \in Nat : q = from + s  OBVIOUS
  <1>3. PICK roms \in Seq(RowIds) : roms = RomsAt(list, q)  BY <1>1, <1>2
  <1>4. PICK m \in Nat : m = Len(roms)  BY <1>3
  <1>5. q + m <= Len(list) /\ q <= Len(list) /\ Len(list) \in Nat /\ (m = 0 => q = Len(list))
        /\ \A k \in 1 .. m : roms[k] = list[q + k]
    <2>1. m = 0 => roms = <<>>
      <3>1. roms \in Seq(RowIds)  OBVIOUS
      <3>2. QED  BY <1>4, <3>1, EmptySeq
    <2>2. QED  BY <1>1, <1>2, <1>3, <1>4, <2>1
  <1>6. page.stepped = s /\ page.roms = roms /\ page.total = Len(list)
    BY <1>1, <1>2, <1>3 DEF RomPage
  <1>7. PICK n \in FillPage(m) :
          built = [items |-> [i \in 1..n |-> [id |-> roms[i], queued |-> Wished(roms[i])]],
                   has_more |-> roms # <<>> /\ (n < m \/ from + s + n < Len(list))]
    BY <1>4, <1>6 DEF BuildRomPage
  <1>8. n \in Nat /\ n <= m /\ (m # 0 => n >= 1)
    <2>1. kPageSize \in Nat \ {0}  BY LibraryConstants
    <2>2. CASE m <= 0  BY <1>7, <2>2 DEF FillPage
    <2>3. CASE m > 0 /\ m < kPageSize
      <3>1. n \in 1 .. m  BY <1>7, <2>3 DEF FillPage
      <3>2. QED  BY <2>3, <3>1
    <2>4. CASE m > 0 /\ ~(m < kPageSize)
      <3>1. n \in 1 .. kPageSize  BY <1>7, <2>4 DEF FillPage
      <3>2. QED  BY <2>1, <2>4, <3>1
    <2>5. QED  BY <2>2, <2>3, <2>4
  <1>9. PICK items : items = [i \in 1..n |-> [id |-> roms[i], queued |-> Wished(roms[i])]]  OBVIOUS
  <1>10. ASSUME NEW i \in 1 .. n PROVE items[i] \in SentItem /\ items[i].id = list[q + i]
    <2>1. i \in 1 .. m  BY <1>8
    <2>2. PICK id \in RowIds : id = roms[i]  BY <1>3, <1>4, <2>1
    <2>3. PICK queued \in BOOLEAN : queued = Wished(id)
      <3>1. Wished(id) \in BOOLEAN  BY Zenon DEF Wished
      <3>2. QED  BY <3>1
    <2>4. items[i] = [id |-> id, queued |-> queued]  BY <1>9, <2>2, <2>3
    <2>5. QED  BY <1>5, <2>1, <2>2, <2>4 DEF SentItem
  <1>11. items \in Seq(SentItem) /\ Len(items) = n
    <2>1. items = [i \in 1 .. n |-> items[i]]  BY <1>9
    <2>2. items \in [1 .. n -> SentItem]  BY <1>10, <2>1
    <2>3. QED  BY <1>8, <2>2
  <1>12. PICK more \in BOOLEAN : more = (roms # <<>> /\ (n < m \/ from + s + n < Len(list)))  OBVIOUS
  <1>13. built = [items |-> items, has_more |-> more]  BY <1>7, <1>9, <1>12
  <1>14. built.items = items /\ built.has_more = more  BY <1>13
  <1>15. more => n >= 1
    <2>1. more => m # 0
      <3>1. roms \in Seq(RowIds)  OBVIOUS
      <3>2. m = 0 => roms = <<>>  BY <1>4, <3>1, EmptySeq
      <3>3. more => roms # <<>>  BY <1>12, Zenon
      <3>4. QED  BY <3>2, <3>3
    <2>2. QED  BY <1>8, <2>1
  <1>16. ~more => q + n = Len(list)
    <2>1. SUFFICES ASSUME ~more PROVE q + n = Len(list)  OBVIOUS
    <2>2. CASE m = 0  BY <1>5, <1>8, <2>2
    <2>3. CASE m # 0
      <3>1. roms # <<>>  BY <1>4, <2>3
      <3>2. ~(n < m) /\ ~(from + s + n < Len(list))  BY <1>12, <2>1, <3>1, Zenon
      <3>3. QED  BY <1>2, <1>5, <1>8, <3>2
    <2>4. QED  BY <2>2, <2>3
  <1>17. GoesOn(items, list, q, more)
    <2>1. q + n <= Len(list)  BY <1>5, <1>8
    <2>2. QED  BY <1>10, <1>11, <1>16, <2>1 DEF GoesOn
  <1>18. more => items # <<>>  BY <1>11, <1>15
  <1>19. \A k \in from + 1 .. q : list[k] \in Huge  BY <1>1, <1>2
  <1>20. q = from + page.stepped /\ from <= q  BY <1>2, <1>6
  <1>21. QED  BY <1>5, <1>11, <1>12, <1>14, <1>17, <1>18, <1>19, <1>20

\* The entry once the page built for it is in.
Filled(e, q, built) ==
    [e EXCEPT !.fetch = "ready", !.waiting = FALSE, !.failure = "ok", !.offset = q,
              !.ready = built.items, !.has_more = built.has_more]

LEMMA BuiltEntry ==
    ASSUME NEW e, EntryGood(e), e.kind = "roms", ~e.exhausted, NEW list, list = ListOf(e.kind, e.platform),
           NEW q \in Nat, e.offset <= q, q <= Len(list), \A n \in e.offset + 1 .. q : list[n] \in Huge,
           NEW built, built.items \in Seq(SentItem), built.has_more \in BOOLEAN,
           GoesOn(built.items, list, q, built.has_more), built.has_more => built.items # <<>>, NEW x,
           x = Filled(e, q, built)
    PROVE  EntryGood(x) /\ x.id = e.id /\ \A v : Tied(v, e) => Tied(v, x)
  <1>0. PICK items \in Seq(SentItem), more \in BOOLEAN :
           /\ items = built.items /\ more = built.has_more
           /\ x = [e EXCEPT !.fetch = "ready", !.waiting = FALSE, !.failure = "ok", !.offset = q,
                            !.ready = items, !.has_more = more]
           /\ GoesOn(items, list, q, more) /\ (more => items # <<>>)
    BY DEF Filled
  <1>1. e \in EntryRec  BY DEF EntryGood
  <1>2. "ready" \in Fetches /\ "ok" \in PageErrors  BY DEF Fetches, PageErrors
  <1>3. x \in EntryRec  BY <1>0, <1>1, <1>2 DEF EntryRec
  <1>4. /\ x.id = e.id /\ x.kind = e.kind /\ x.platform = e.platform /\ x.offset = q
        /\ x.exhausted = e.exhausted /\ x.fetch = "ready" /\ ~x.waiting
        /\ x.ready = items /\ x.has_more = more
    BY <1>0, <1>1 DEF EntryRec
  <1>5. EntryGood(x)  BY <1>0, <1>3, <1>4 DEF EntryGood
  <1>6. ASSUME NEW v, Tied(v, e) PROVE Tied(v, x)
    <2>1. SUFFICES ASSUME v.cursor = e.id, v.kind # "queue", ~v.truncated
                   PROVE  FollowsTo(RowsBefore(v), ListOf(v.kind, v.platform), q)
      BY <1>4, <1>6 DEF Tied
    <2>2. ListOf(v.kind, v.platform) = list /\ FollowsTo(RowsBefore(v), list, e.offset)
      BY <1>6, <2>1 DEF Tied
    <2>3. Len(list) \in Nat /\ q \in 0 .. Len(list)
      <3>1. Len(list) \in Nat  BY EntryIsServed, ServedLists
      <3>2. QED  BY <3>1
    <2>4. FollowsTo(RowsBefore(v), list, q)  BY <2>2, <2>3, FollowsPast
    <2>5. QED  BY <2>2, <2>4
  <1>7. QED  BY <1>4, <1>5, <1>6

\* One entry changed for one that is as good and has read as far.
LEMMA ChangedKeepsInv ==
    ASSUME BrowseInv, NEW i \in 1 .. Len(cursors), NEW x, EntryGood(x), x.id = cursors[i].id,
           \A v : Tied(v, cursors[i]) => Tied(v, x), cursors' = [cursors EXCEPT ![i] = x],
           browser' = browser, nextCursor' = nextCursor, wishes' = wishes,
           fetch' = NoFetch \/ (fetch' = fetch /\ x.fetch = cursors[i].fetch /\ x.kind = cursors[i].kind
                                   /\ x.platform = cursors[i].platform /\ x.offset = cursors[i].offset)
    PROVE  BrowseInv'
  <1>1. PICK next \in Nat \ {0} : next = nextCursor  BY InvUnfolds
  <1>2. PICK b \in BrowserRec : b = browser  BY InvUnfolds
  <1>3. PICK es \in Seq(EntryRec) : es = cursors  BY InvUnfolds
  <1>4. Sound(b, es, next) /\ EntriesGood(es, next) /\ InHand(fetch, es, next)
    BY <1>1, <1>2, <1>3, InvUnfolds
  <1>5. PICK more : more = [es EXCEPT ![i] = x]  OBVIOUS
  <1>6. i \in 1 .. Len(es) /\ x.id = es[i].id  BY <1>3
  <1>7. EntriesGood(more, next)  BY <1>4, <1>5, <1>6, EntryChanged
  <1>8. AllTied(b.stack, es) => AllTied(b.stack, more)
    <2>1. \A v : Tied(v, es[i]) => Tied(v, x)  BY <1>3
    <2>2. QED  BY <1>4, <1>5, <1>6, <2>1, EntryChanged
  <1>9. Sound(b, more, next)  BY <1>4, <1>8 DEF Sound
  <1>10. PICK f : f = fetch'  OBVIOUS
  <1>11. InHand(f, more, next)
    <2>1. CASE f = NoFetch  BY <2>1 DEF InHand
    <2>2. CASE f = fetch /\ x.fetch = es[i].fetch /\ x.kind = es[i].kind
                         /\ x.platform = es[i].platform /\ x.offset = es[i].offset
      <3>1. Len(more) = Len(es) /\ more[i] = x /\ \A j \in 1 .. Len(es) : j # i => more[j] = es[j]
        BY <1>5, <1>6
      <3>2. \A j \in 1 .. Len(es) : more[j].id = es[j].id /\ more[j].fetch = es[j].fetch
               /\ more[j].kind = es[j].kind /\ more[j].platform = es[j].platform /\ more[j].offset = es[j].offset
        BY <1>6, <2>2, <3>1
      <3>3. QED  BY <1>4, <2>2, <3>1, <3>2 DEF InHand
    <2>3. QED  BY <1>3, <1>10, <2>1, <2>2
  <1>12. browser' = b /\ cursors' = more /\ nextCursor' = next  BY <1>1, <1>2, <1>3, <1>5
  <1>13. QED  BY <1>1, <1>7, <1>9, <1>10, <1>11, <1>12, InvUnfolds DEF BrowseInv

LEMMA RetryKeepsInv ==
    ASSUME BrowseInv, RetryFallsDue
    PROVE  BrowseInv'
  <1>1. PICK i \in DOMAIN cursors : cursors' = [cursors EXCEPT ![i].waiting = FALSE]  BY DEF RetryFallsDue
  <1>2. i \in 1 .. Len(cursors)  BY <1>1, InvUnfolds
  <1>3. PICK e : e = cursors[i]  OBVIOUS
  <1>4. EntryGood(e) /\ e \in EntryRec  BY <1>2, <1>3, InvUnfolds DEF EntriesGood, EntryGood
  <1>5. PICK x : x = [e EXCEPT !.waiting = FALSE]  OBVIOUS
  <1>6. x \in EntryRec  BY <1>4, <1>5 DEF EntryRec
  <1>7. /\ x.id = e.id /\ x.kind = e.kind /\ x.platform = e.platform /\ x.offset = e.offset
        /\ x.exhausted = e.exhausted /\ x.fetch = e.fetch /\ ~x.waiting /\ x.failure = e.failure
        /\ x.ready = e.ready /\ x.has_more = e.has_more /\ x.loaded = e.loaded
    BY <1>4, <1>5 DEF EntryRec
  <1>8. EntryGood(x)  BY <1>4, <1>6, <1>7 DEF EntryGood
  <1>9. \A v : Tied(v, e) => Tied(v, x)  BY <1>7 DEF Tied
  <1>10. cursors' = [cursors EXCEPT ![i] = x]  BY <1>1, <1>3, <1>5
  <1>11. browser' = browser /\ nextCursor' = nextCursor /\ wishes' = wishes /\ fetch' = fetch
    BY DEF RetryFallsDue
  <1>12. QED  BY <1>2, <1>3, <1>7, <1>8, <1>9, <1>10, <1>11, ChangedKeepsInv

LEMMA ReapKeepsInv ==
    ASSUME BrowseInv, Reap
    PROVE  BrowseInv'
  <1>1. PICK next \in Nat \ {0} : next = nextCursor  BY InvUnfolds
  <1>2. PICK b \in BrowserRec : b = browser  BY InvUnfolds
  <1>3. PICK es \in Seq(EntryRec) : es = cursors  BY InvUnfolds
  <1>4. Sound(b, es, next) /\ EntriesGood(es, next) /\ InHand(fetch, es, next)
    BY <1>1, <1>2, <1>3, InvUnfolds
  <1>5. PICK more : more = Tail(es)  OBVIOUS
  <1>6. es # <<>>  BY <1>3 DEF Reap
  <1>7. Thinned(more, es)  BY <1>5, <1>6, TailThins
  <1>8. EntriesGood(more, next) /\ InHand(fetch, more, next)
        /\ \A j \in 1 .. Len(more) : \E i \in 1 .. Len(es) : more[j] = es[i]
    BY <1>4, <1>7, ThinnedGood
  <1>9. AllTied(b.stack, es) => AllTied(b.stack, more)  BY <1>8, ThinnedTied
  <1>10. Sound(b, more, next)  BY <1>4, <1>9 DEF Sound
  <1>11. browser' = b /\ cursors' = more /\ nextCursor' = next /\ fetch' = fetch /\ wishes' = wishes
    BY <1>1, <1>2, <1>3, <1>5 DEF Reap
  <1>12. QED  BY <1>1, <1>8, <1>10, <1>11, InvUnfolds DEF BrowseInv

(* An answer that lands on its entry, whatever it says.                     *)
LEMMA LandsKeepsInv ==
    ASSUME BrowseInv, PumpAnswers, NEW i \in 1 .. Len(cursors), NEW x, EntryGood(x), x.id = cursors[i].id,
           \A v : Tied(v, cursors[i]) => Tied(v, x), cursors' = [cursors EXCEPT ![i] = x]
    PROVE  BrowseInv'
  <1>1. browser' = browser /\ nextCursor' = nextCursor /\ wishes' = wishes /\ fetch' = NoFetch
    BY DEF PumpAnswers
  <1>2. QED  BY <1>1, ChangedKeepsInv

LEMMA FailsKeepsInv ==
    ASSUME BrowseInv, PumpAnswers, NEW i \in 1 .. Len(cursors), NEW failure \in {"offline", "internal"},
           PumpFails(i, failure)
    PROVE  BrowseInv'
  <1>1. PICK e : e = cursors[i]  OBVIOUS
  <1>2. EntryGood(e) /\ e \in EntryRec  BY <1>1, InvUnfolds DEF EntriesGood, EntryGood
  <1>3. PICK x : x = [e EXCEPT !.fetch = "failed", !.failure = failure, !.waiting = TRUE]  OBVIOUS
  <1>4. EntryGood(x) /\ x.id = e.id /\ \A v : Tied(v, e) => Tied(v, x)  BY <1>2, <1>3, FailedEntry, ZenonT(30)
  <1>5. cursors' = [cursors EXCEPT ![i] = x]  BY <1>1, <1>2, <1>3, InvUnfolds DEF PumpFails, EntryRec
  <1>6. QED  BY <1>1, <1>4, <1>5, LandsKeepsInv

\* The cursor an answer lands on, and what it makes of it.
LandsOn(found, list) ==
    \/ UNCHANGED cursors
    \/ \E i \in found, failure \in {"offline", "internal"} : PumpFails(i, failure)
    \/ \E i \in found :
          /\ fetch.kind = "platforms"
          /\ cursors' = [cursors EXCEPT ![i].fetch = "ready", ![i].waiting = FALSE, ![i].failure = "ok"]
    \/ \E i \in found :
          /\ fetch.kind = "roms" /\ Steps(list, fetch.offset) # {}
          /\ \E built \in BuildRomPage(RomPage(list, fetch.offset), fetch.offset) :
               cursors' = [cursors EXCEPT ![i].fetch = "ready", ![i].waiting = FALSE,
                              ![i].failure = "ok", ![i].offset = @ + RomPage(list, fetch.offset).stepped,
                              ![i].ready = built.items, ![i].has_more = built.has_more]

LEMMA AnswersLand ==
    ASSUME PumpAnswers
    PROVE  LandsOn({i \in Find(fetch.id) : cursors[i].fetch = "running"}, Items(fetch.kind, fetch.platform))
  BY ZenonT(60) DEF PumpAnswers, LandsOn

LEMMA AnswersKeepInv ==
    ASSUME BrowseInv, PumpAnswers
    PROVE  BrowseInv'
  <1>1. PICK next \in Nat \ {0} : next = nextCursor  BY InvUnfolds
  <1>2. PICK b \in BrowserRec : b = browser  BY InvUnfolds
  <1>3. PICK es \in Seq(EntryRec) : es = cursors /\ DOMAIN es = 1 .. Len(es)  BY InvUnfolds
  <1>4. Sound(b, es, next) /\ EntriesGood(es, next) /\ InHand(fetch, es, next)
    BY <1>1, <1>2, <1>3, InvUnfolds
  <1>5. PICK found : found = {i \in Find(fetch.id) : cursors[i].fetch = "running"}  OBVIOUS
  <1>6. PICK list : list = Items(fetch.kind, fetch.platform)  OBVIOUS
  <1>7. fetch # NoFetch  BY DEF PumpAnswers
  <1>8. ASSUME NEW i \in found
        PROVE  /\ i \in 1 .. Len(cursors) /\ EntryGood(es[i]) /\ es[i] \in EntryRec /\ ~es[i].exhausted
               /\ es[i].kind = fetch.kind /\ es[i].platform = fetch.platform /\ es[i].offset = fetch.offset
    <2>1. i \in 1 .. Len(es) /\ es[i].id = fetch.id /\ es[i].fetch = "running"  BY <1>3, <1>5 DEF Find
    <2>2. EntryGood(es[i])  BY <1>4, <2>1 DEF EntriesGood
    <2>3. es[i] \in EntryRec /\ ~es[i].exhausted  BY <2>1, <2>2 DEF EntryGood
    <2>4. QED  BY <1>3, <1>4, <1>7, <2>1, <2>2, <2>3 DEF InHand
  <1>9. CASE UNCHANGED cursors
    <2>1. PICK f : f = fetch'  OBVIOUS
    <2>2. f = NoFetch  BY <2>1 DEF PumpAnswers
    <2>3. InHand(f, es, next)  BY <2>2 DEF InHand
    <2>4. browser' = b /\ cursors' = es /\ nextCursor' = next /\ fetch' = f /\ wishes' = wishes
      BY <1>1, <1>2, <1>3, <1>9, <2>1 DEF PumpAnswers
    <2>5. QED  BY <1>1, <1>4, <2>3, <2>4, InvUnfolds DEF BrowseInv
  <1>10. ASSUME NEW i \in found, NEW failure \in {"offline", "internal"}, PumpFails(i, failure)
         PROVE  BrowseInv'
    BY <1>8, <1>10, FailsKeepsInv
  <1>11. ASSUME NEW i \in found, fetch.kind = "platforms",
                cursors' = [cursors EXCEPT ![i].fetch = "ready", ![i].waiting = FALSE, ![i].failure = "ok"]
         PROVE  BrowseInv'
    <2>1. PICK e : e = es[i]  OBVIOUS
    <2>2. EntryGood(e) /\ e.kind = "platforms" /\ e \in EntryRec  BY <1>8, <1>11, <2>1
    <2>3. PICK x : x = [e EXCEPT !.fetch = "ready", !.waiting = FALSE, !.failure = "ok"]  OBVIOUS
    <2>4. EntryGood(x) /\ x.id = e.id /\ \A v : Tied(v, e) => Tied(v, x)  BY <2>2, <2>3, PlatformsEntry
    <2>5. cursors' = [cursors EXCEPT ![i] = x]  BY <1>3, <1>8, <1>11, <2>1, <2>2, <2>3 DEF EntryRec
    <2>6. i \in 1 .. Len(cursors) /\ e = cursors[i]  BY <1>3, <1>8, <2>1
    <2>7. QED  BY <2>4, <2>5, <2>6, LandsKeepsInv
  <1>12. ASSUME NEW i \in found, fetch.kind = "roms", Steps(list, fetch.offset) # {},
                NEW built \in BuildRomPage(RomPage(list, fetch.offset), fetch.offset),
                cursors' = [cursors EXCEPT ![i].fetch = "ready", ![i].waiting = FALSE,
                              ![i].failure = "ok", ![i].offset = @ + RomPage(list, fetch.offset).stepped,
                              ![i].ready = built.items, ![i].has_more = built.has_more]
         PROVE  BrowseInv'
    <2>1. PICK e : e = es[i]  OBVIOUS
    <2>2. /\ EntryGood(e) /\ e.kind = "roms" /\ e \in EntryRec /\ ~e.exhausted
          /\ e.platform = fetch.platform /\ e.offset = fetch.offset
      BY <1>8, <1>12, <2>1
    <2>3. Served(e.kind, e.platform)  BY <2>2, EntryIsServed
    <2>4. list = ListOf(e.kind, e.platform) /\ list \in Seq(RowIds)  BY <1>6, <1>12, <2>2, <2>3, ServedLists
    <2>5. PICK from \in Nat : from = fetch.offset /\ from = e.offset  BY <2>2 DEF EntryRec
    <2>6. from <= Len(list)  BY <2>2, <2>4, <2>5 DEF EntryGood
    <2>7. PICK p : p = RomPage(list, from)  OBVIOUS
    <2>8. built \in BuildRomPage(p, from) /\ Steps(list, from) # {}  BY <1>12, <2>5, <2>7
    <2>9. PICK q \in Nat :
             /\ q = from + p.stepped /\ from <= q /\ q <= Len(list)
             /\ \A n \in from + 1 .. q : list[n] \in Huge
             /\ built.items \in Seq(SentItem) /\ built.has_more \in BOOLEAN
             /\ GoesOn(built.items, list, q, built.has_more)
             /\ (built.has_more => built.items # <<>>)
      BY <2>4, <2>6, <2>7, <2>8, BuiltPage
    <2>10. built.items \in Seq(SentItem) /\ built.has_more \in BOOLEAN  BY <2>9
    <2>12. PICK x : x = Filled(e, q, built)  OBVIOUS
    <2>13. EntryGood(x) /\ x.id = e.id /\ \A v : Tied(v, e) => Tied(v, x)
      <3>1. \A n \in e.offset + 1 .. q : list[n] \in Huge  BY <2>5, <2>9
      <3>2. GoesOn(built.items, list, q, built.has_more)  BY <2>9
      <3>3. built.has_more => built.items # <<>>  BY <2>9
      <3>4. EntryGood(e) /\ e.kind = "roms" /\ ~e.exhausted  BY <2>2
      <3>5. list = ListOf(e.kind, e.platform)  BY <2>4
      <3>6. e.offset <= q /\ q <= Len(list)  BY <2>5, <2>9
      <3>7. QED  BY <2>10, <2>12, <3>1, <3>2, <3>3, <3>4, <3>5, <3>6, BuiltEntry
    <2>14. cursors' = [cursors EXCEPT ![i] = x]
      <3>1. i \in DOMAIN es /\ cursors = es  BY <1>3, <1>8
      <3>2. e.offset + RomPage(list, fetch.offset).stepped = q  BY <2>5, <2>7, <2>9
      <3>3. cursors' = [es EXCEPT ![i].fetch = "ready", ![i].waiting = FALSE,
                              ![i].failure = "ok", ![i].offset = q,
                              ![i].ready = built.items, ![i].has_more = built.has_more]
        BY <1>12, <2>1, <2>2, <3>1, <3>2 DEF EntryRec
      <3>4. QED  BY <2>1, <2>2, <2>12, <3>1, <3>3 DEF EntryRec, Filled
    <2>15. i \in 1 .. Len(cursors) /\ e = cursors[i]  BY <1>3, <1>8, <2>1
    <2>16. QED  BY <2>13, <2>14, <2>15, LandsKeepsInv
  <1>13. LandsOn(found, list)  BY <1>5, <1>6, AnswersLand, Zenon
  <1>14. QED  BY <1>9, <1>10, <1>11, <1>12, <1>13, ZenonT(60) DEF LandsOn

-----------------------------------------------------------------------------
(* Where it begins: at the first list, or past it.                          *)

LEMMA OpenedInv ==
    ASSUME BrowseInit, browser = NewBrowser, cursors = <<>>, nextCursor = 1
    PROVE  BrowseInv
  <1>1. cursors \in Seq(EntryRec) /\ nextCursor \in Nat \ {0}  OBVIOUS
  <1>2. Sound(browser, cursors, nextCursor)  BY <1>1, FreshIsSound
  <1>3. EntriesGood(cursors, nextCursor)  BY <1>1, LibraryConstants DEF EntriesGood
  <1>4. InHand(fetch, cursors, nextCursor)  BY DEF BrowseInit, InHand
  <1>5. wishes \in Seq(RowIds)  BY DEF BrowseInit
  <1>6. QED  BY <1>1, <1>2, <1>3, <1>4, <1>5 DEF BrowseInv

(* The platforms as they are listed once all of them are in.                *)
LEMMA PlatformRows ==
    ASSUME NEW rows, rows = [i \in DOMAIN PlatformList |-> ReadPlatform([id |-> PlatformList[i]])]
    PROVE  /\ rows \in Seq(ShownRow) /\ Len(rows) = Len(PlatformList)
           /\ FollowsTo(rows, PlatformList, Len(PlatformList)) /\ ShowsAll(rows, PlatformList)
  <1>1. PICK n \in Nat : n = Len(PlatformList) /\ DOMAIN PlatformList = 1 .. n  BY LibraryAssumption
  <1>2. PlatformList \in Seq(RowIds) /\ EachOnce(PlatformList)
    <2>1. Served("platforms", 0) /\ ListOf("platforms", 0) = PlatformList  BY DEF Served, ListOf
    <2>2. QED  BY <2>1, ServedLists
  <1>3. ASSUME NEW i \in 1 .. n PROVE rows[i] \in ShownRow /\ rows[i].id = PlatformList[i]
    <2>1. PICK id \in RowIds : id = PlatformList[i]  BY <1>1, <1>2
    <2>2. PICK state : state = IF id \in Mapped THEN "inert" ELSE "unmapped"  OBVIOUS
    <2>3. state \in RowStates  BY <2>2 DEF RowStates
    <2>4. rows[i] = [id |-> id, state |-> state]  BY <1>1, <2>1, <2>2 DEF ReadPlatform
    <2>5. QED  BY <2>1, <2>3, <2>4 DEF ShownRow
  <1>4. rows \in Seq(ShownRow) /\ Len(rows) = n
    <2>1. rows \in [1 .. n -> ShownRow]  BY <1>1, <1>3
    <2>2. QED  BY <2>1
  <1>5. \A r \in 1 .. n : \E m \in 1 .. n : rows[r].id = PlatformList[m]  BY <1>3
  <1>6. \A m \in 1 .. n : \E r \in 1 .. n : rows[r].id = PlatformList[m]  BY <1>3
  <1>7. \A r, s \in 1 .. n : r < s =>
          \A m, k \in 1 .. n : rows[r].id = PlatformList[m] /\ rows[s].id = PlatformList[k] => m < k
    <2>1. SUFFICES ASSUME NEW r \in 1 .. n, NEW s \in 1 .. n, r < s, NEW m \in 1 .. n, NEW k \in 1 .. n,
                          rows[r].id = PlatformList[m], rows[s].id = PlatformList[k]
                   PROVE  m < k
      OBVIOUS
    <2>2. m = r /\ k = s  BY <1>1, <1>2, <1>3, <2>1 DEF EachOnce
    <2>3. QED  BY <2>1, <2>2
  <1>8. n \in 0 .. n  OBVIOUS
  <1>9. FollowsTo(rows, PlatformList, n)
    <2>1. PICK list : list = PlatformList  OBVIOUS
    <2>2. Len(list) = n /\ Len(rows) = n  BY <1>1, <1>4, <2>1
    <2>3. \A r \in 1 .. Len(rows) : \E m \in 1 .. n : rows[r].id = list[m]  BY <1>5, <2>1, <2>2
    <2>4. \A m \in 1 .. n : list[m] \in Huge \/ \E r \in 1 .. Len(rows) : rows[r].id = list[m]
      BY <1>6, <2>1, <2>2
    <2>5. \A r, s \in 1 .. Len(rows) : r < s =>
            \A m, k \in 1 .. Len(list) : rows[r].id = list[m] /\ rows[s].id = list[k] => m < k
      BY <1>7, <2>1, <2>2
    <2>6. FollowsTo(rows, list, n)  BY <1>8, <2>2, <2>3, <2>4, <2>5, Zenon DEF FollowsTo
    <2>7. QED  BY <2>1, <2>6
  <1>10. QED  BY <1>1, <1>4, <1>6, <1>9 DEF ShowsAll

(* The level all the platforms are on, and the entry they came from.        *)
LEMMA PlatformsShown ==
    ASSUME Len(PlatformList) < kMaxLoadedRows, NEW n \in Nat, n = Len(PlatformList),
           NEW rows \in Seq(ShownRow), Len(rows) = n,
           FollowsTo(rows, PlatformList, n), ShowsAll(rows, PlatformList),
           NEW v, v = [kind |-> "platforms", platform |-> 0, mapped |-> TRUE, cursor |-> 1, rows |-> rows,
                       selected |-> 0, has_more |-> FALSE, loading |-> FALSE, replace_rows |-> FALSE,
                       page_error |-> "ok", truncated |-> FALSE, empty_pages |-> 0],
           NEW e, e = [id |-> 1, kind |-> "platforms", platform |-> 0, offset |-> n,
                       exhausted |-> FALSE, fetch |-> "idle", ready |-> <<>>, has_more |-> FALSE,
                       failure |-> "ok", waiting |-> FALSE, loaded |-> TRUE]
    PROVE  /\ LevelGood(v) /\ v \in LevelRec /\ v.cursor = 1
           /\ EntryGood(e) /\ e \in EntryRec /\ e.id = 1 /\ Tied(v, e)
  <1>1. "platforms" \in LevelKinds /\ "ok" \in PageErrors /\ "idle" \in Fetches /\ 0 \in {0} \cup DOMAIN RomsOf
    BY DEF LevelKinds, PageErrors, Fetches
  <1>2. v \in LevelRec  BY <1>1 DEF LevelRec
  <1>3. /\ v.kind = "platforms" /\ v.platform = 0 /\ v.cursor = 1 /\ v.rows = rows /\ v.selected = 0
        /\ ~v.has_more /\ ~v.replace_rows /\ ~v.truncated /\ v.page_error = "ok"
    OBVIOUS
  <1>4. ListOf("platforms", 0) = PlatformList  BY DEF ListOf
  <1>5. LevelFits(v)
    <2>1. kMaxLoadedRows \in Nat  BY LibraryConstants
    <2>2. QED  BY <1>2, <1>3, <2>1 DEF LevelFits
  <1>6. LevelFollows(v)  BY <1>3, <1>4 DEF LevelFollows
  <1>7. e \in EntryRec
    <2>1. <<>> \in Seq(SentItem)  OBVIOUS
    <2>2. QED  BY <1>1, <2>1 DEF EntryRec
  <1>8. /\ e.id = 1 /\ e.kind = "platforms" /\ e.platform = 0 /\ e.offset = n
        /\ ~e.exhausted /\ e.fetch = "idle" /\ ~e.waiting
    OBVIOUS
  <1>9. EntryGood(e)  BY <1>4, <1>7, <1>8 DEF EntryGood
  <1>10. RowsBefore(v) = rows  BY <1>3 DEF RowsBefore
  <1>11. Tied(v, e)  BY <1>3, <1>4, <1>8, <1>10 DEF Tied
  <1>12. QED  BY <1>2, <1>3, <1>5, <1>6, <1>7, <1>8, <1>9, <1>11 DEF LevelGood

LEMMA EnteredInv ==
    ASSUME BrowseInit, Len(PlatformList) < kMaxLoadedRows, NEW p \in DOMAIN RomsOf, browser = Entered(p),
           cursors = <<[NewEntry(1, NewLevel("platforms", 0, TRUE)) EXCEPT !.loaded = TRUE,
                                                            !.offset = Len(PlatformList)]>>,
           nextCursor = 2
    PROVE  BrowseInv
  <1>1. PICK rows : rows = [i \in DOMAIN PlatformList |-> ReadPlatform([id |-> PlatformList[i]])]  OBVIOUS
  <1>2. PICK v : v = [NewLevel("platforms", 0, TRUE) EXCEPT !.cursor = 1, !.has_more = FALSE, !.rows = rows]
    OBVIOUS
  <1>3. PICK e : e = [NewEntry(1, NewLevel("platforms", 0, TRUE)) EXCEPT !.loaded = TRUE,
                                                            !.offset = Len(PlatformList)]
    OBVIOUS
  <1>4. /\ LevelGood(v) /\ v \in LevelRec /\ v.cursor = 1
        /\ EntryGood(e) /\ e \in EntryRec /\ e.id = 1 /\ Tied(v, e)
    <2>1. PICK n \in Nat : n = Len(PlatformList)
      <3>1. rows \in Seq(ShownRow) /\ Len(rows) = Len(PlatformList)  BY <1>1, PlatformRows
      <3>2. Len(rows) \in Nat  BY <3>1, LenProperties
      <3>3. QED  BY <3>1, <3>2, Zenon
    <2>2. rows \in Seq(ShownRow) /\ Len(rows) = n  BY <1>1, <2>1, PlatformRows
    <2>3. FollowsTo(rows, PlatformList, n) /\ ShowsAll(rows, PlatformList)  BY <1>1, <2>1, PlatformRows
    <2>4. v = [kind |-> "platforms", platform |-> 0, mapped |-> TRUE, cursor |-> 1, rows |-> rows,
               selected |-> 0, has_more |-> FALSE, loading |-> FALSE, replace_rows |-> FALSE,
               page_error |-> "ok", truncated |-> FALSE, empty_pages |-> 0]
      BY <1>2 DEF NewLevel
    <2>5. e = [id |-> 1, kind |-> "platforms", platform |-> 0, offset |-> n,
               exhausted |-> FALSE, fetch |-> "idle", ready |-> <<>>, has_more |-> FALSE,
               failure |-> "ok", waiting |-> FALSE, loaded |-> TRUE]
      BY <1>3, <2>1 DEF NewEntry, NewLevel
    <2>6. QED  BY <2>1, <2>2, <2>3, <2>4, <2>5, PlatformsShown
  <1>5. PICK mapped \in BOOLEAN : mapped = (p \in Mapped)
    <2>1. (p \in Mapped) \in BOOLEAN  OBVIOUS
    <2>2. QED  BY <2>1
  <1>6. PICK w \in LevelRec : w = NewLevel("roms", p, mapped) /\ LevelGood(w) /\ w.cursor = 0
    BY NewLevelGood DEF LevelKinds
  <1>7. PICK b : b = browser  OBVIOUS
  <1>8. b = [stack |-> <<v, w>>, closing |-> <<>>, wanted |-> 0, closed |-> FALSE, link |-> "ok"]
    <2>1. b = [NewBrowser EXCEPT !.stack = <<v, w>>]
      BY <1>1, <1>2, <1>5, <1>6, <1>7 DEF Entered
    <2>2. QED  BY <2>1 DEF NewBrowser
  <1>9. PICK stack \in Seq(LevelRec) : stack = <<v, w>>
    <2>1. <<v, w>> \in Seq(LevelRec)  BY <1>4
    <2>2. QED  BY <2>1
  <1>10. Len(stack) = 2 /\ stack[1] = v /\ stack[2] = w  BY <1>9
  <1>11. b \in BrowserRec /\ b.stack = stack /\ b.link = "ok"
    <2>1. <<>> \in Seq(Nat) /\ 0 \in RowIds  BY DEF RowIds
    <2>2. QED  BY <1>8, <1>9, <2>1 DEF BrowserRec
  <1>12. StackGood(stack, 2)
    <2>1. \A i \in 1 .. 2 : LevelGood(stack[i]) /\ stack[i].cursor < 2  BY <1>4, <1>6, <1>10
    <2>2. QED  BY <1>10, <2>1 DEF StackGood
  <1>13. PICK es \in Seq(EntryRec) : es = cursors /\ es = <<e>>
    <2>1. <<e>> \in Seq(EntryRec)  BY <1>4
    <2>2. QED  BY <1>3, <2>1
  <1>14. Len(es) = 1 /\ es[1] = e  BY <1>13
  <1>15. EntriesGood(es, 2)  BY <1>4, <1>14, LibraryConstants DEF EntriesGood
  <1>16. Apart(stack)  BY <1>4, <1>6, <1>10 DEF Apart
  <1>17. AllTied(stack, es)
    <2>1. Tied(w, e)  BY <1>4, <1>6 DEF Tied
    <2>2. QED  BY <1>4, <1>10, <1>14, <2>1 DEF AllTied
  <1>18. Sound(b, es, 2)  BY <1>11, <1>12, <1>16, <1>17 DEF Sound, Shaped
  <1>19. InHand(fetch, es, 2)  BY DEF BrowseInit, InHand
  <1>20. wishes \in Seq(RowIds)  BY DEF BrowseInit
  <1>21. QED  BY <1>7, <1>13, <1>15, <1>18, <1>19, <1>20 DEF BrowseInv

LEMMA BrowseBegins ==
    ASSUME BrowseInit
    PROVE  BrowseInv
  BY OpenedInv, EnteredInv DEF BrowseInit

LEMMA BrowseStep ==
    ASSUME BrowseInv, BrowseNext
    PROVE  BrowseInv'
  <1>1. CASE MoveSelection(1)  BY <1>1, MovesKeepInv
  <1>2. CASE MoveSelection(-1)  BY <1>2, MovesKeepInv
  <1>3. QED
    BY <1>1, <1>2, BeginsKeepsInv, NextsKeepsInv, EndsKeepsInv, EnqueuesKeepsInv, RestsKeepsInv, LostKeepsInv,
       ActivateKeepsInv, BackKeepsInv, OpenQueueKeepsInv, LeaveKeepsInv, VisitKeepsInv, TakesKeepsInv,
       AnswersKeepInv, RetryKeepsInv, ReapKeepsInv
    DEF BrowseNext

(* A step of another part leaves the library as it was.                     *)
LEMMA BrowseRests ==
    ASSUME BrowseInv, UNCHANGED browseVars
    PROVE  BrowseInv'
  <1>1. PICK next : next = nextCursor  OBVIOUS
  <1>2. PICK b : b = browser  OBVIOUS
  <1>3. PICK es : es = cursors  OBVIOUS
  <1>4. browser' = b /\ cursors' = es /\ nextCursor' = next /\ fetch' = fetch /\ wishes' = wishes
    BY <1>1, <1>2, <1>3 DEF browseVars
  <1>5. QED  BY <1>1, <1>2, <1>3, <1>4, InvUnfolds DEF BrowseInv

LEMMA BrowseIsTyped ==
    ASSUME BrowseInv
    PROVE  BrowseTypeOK
  <1>1. /\ EntriesGood(cursors, nextCursor) /\ StackGood(browser.stack, nextCursor) /\ nextCursor \in Nat
        /\ browser.stack \in Seq(LevelRec) /\ cursors \in Seq(EntryRec)
    BY InvUnfolds DEF Shaped
  <1>2. ASSUME NEW i \in DOMAIN browser.stack
        PROVE  browser.stack[i] \in Levels /\ browser.stack[i].selected <= Len(browser.stack[i].rows)
    <2>1. PICK v : v = browser.stack[i]  OBVIOUS
    <2>2. i \in 1 .. Len(browser.stack)  BY <1>1
    <2>3. LevelFits(v) /\ v.cursor < nextCursor  BY <1>1, <2>1, <2>2 DEF StackGood, LevelGood
    <2>4. /\ v \in LevelRec /\ v.selected <= Len(v.rows) /\ Len(v.rows) <= kMaxLoadedRows
          /\ v.rows \in Seq(ShownRow)
      BY <2>3 DEF LevelFits, LevelRec
    <2>5. v.cursor \in 0 .. nextCursor  BY <1>1, <2>3, <2>4 DEF LevelRec
    <2>6. v.selected \in 0 .. kMaxLoadedRows
      <3>1. v.selected \in Nat /\ Len(v.rows) \in Nat /\ kMaxLoadedRows \in Nat
        BY <2>4, LibraryConstants DEF LevelRec
      <3>2. QED  BY <2>4, <3>1
    <2>7. v.empty_pages \in 0 .. kMaxEmptyPages  BY <2>4, LibraryConstants DEF LevelRec
    <2>8. v \in Levels  BY <2>4, <2>5, <2>6, <2>7 DEF LevelRec, Levels, ShownRow, RowIds
    <2>9. QED  BY <2>1, <2>4, <2>8
  <1>3. ASSUME NEW i \in DOMAIN cursors PROVE cursors[i].id < nextCursor /\ cursors[i].fetch \in Fetches
    <2>1. i \in 1 .. Len(cursors)  BY <1>1
    <2>2. cursors[i] \in EntryRec /\ cursors[i].id < nextCursor  BY <1>1, <2>1 DEF EntriesGood
    <2>3. QED  BY <2>2 DEF EntryRec
  <1>4. Len(cursors) <= kMaxCursors /\ \A i, j \in DOMAIN cursors : cursors[i].id = cursors[j].id => i = j
    BY <1>1 DEF EntriesGood
  <1>5. QED  BY <1>2, <1>3, <1>4 DEF BrowseTypeOK

LEMMA RowsFollow ==
    ASSUME BrowseInv
    PROVE  RowsFollowTheList
  <1>1. browser.stack \in Seq(LevelRec) /\ StackGood(browser.stack, nextCursor)  BY InvUnfolds DEF Shaped
  <1>2. ASSUME NEW i \in DOMAIN browser.stack, browser.stack[i].kind # "queue"
        PROVE  LevelGood(browser.stack[i])
    BY <1>1 DEF StackGood
  <1>3. QED  BY <1>2, LevelShown, Zenon DEF RowsFollowTheList

\* The browser and the service keep their types, the selection is on a row or
\* on the one below the last, and the cursors stay within kMaxCursors, whatever
\* the lists, the limits and the order of presses, pages, losses and expiries.
THEOREM BrowseTypeCorrect == BrowseSpec => []BrowseTypeOK
  <1>1. BrowseInv /\ [BrowseNext]_browseVars => BrowseInv'  BY BrowseStep, BrowseRests
  <1>2. BrowseInv => BrowseTypeOK  BY BrowseIsTyped
  <1>3. QED  BY <1>1, <1>2, BrowseBegins, PTL DEF BrowseSpec

\* The rows of a level are the server's list, in its order and each once, with
\* no hole but what no answer can hold, whatever cursors were evicted, expired or
\* opened again while the worker's request was out; and a level that says it has
\* no more shows the rest of the list.
THEOREM TheRowsFollowTheList == BrowseSpec => []RowsFollowTheList
  <1>1. BrowseInv /\ [BrowseNext]_browseVars => BrowseInv'  BY BrowseStep, BrowseRests
  <1>2. BrowseInv => RowsFollowTheList  BY RowsFollow
  <1>3. QED  BY <1>1, <1>2, BrowseBegins, PTL DEF BrowseSpec

-----------------------------------------------------------------------------
(* What is left behind.  While no answer was lost, the screen knows every   *)
(* cursor the service has: a level has it, or it waits to be ended.         *)

CursorsOwned(b, es) == \A j \in DOMAIN es : es[j].id \in OpenCursors(b)

NoneIsLeft ==
    /\ cuts \in Nat
    /\ cuts = 0 => /\ browser.link = "ok" /\ CursorsOwned(browser, cursors)
                   /\ browser.closed => cursors = <<>>

LEMMA SentOwns ==
    ASSUME NoneIsLeft, NEW b, NEW answered, Send(b, answered), NEW more, cursors' = more,
           cuts = 0 => answered.link = "ok" /\ ~answered.closed /\ CursorsOwned(answered, more)
    PROVE  NoneIsLeft'
  <1>1. CASE browser' = answered /\ cuts' = cuts  BY <1>1 DEF NoneIsLeft
  <1>2. CASE cuts' = cuts + 1
    <2>1. cuts' \in Nat /\ cuts' # 0  BY <1>2 DEF NoneIsLeft
    <2>2. QED  BY <2>1 DEF NoneIsLeft
  <1>3. QED  BY <1>1, <1>2 DEF Send

LEMMA PressOwns ==
    ASSUME NoneIsLeft, NEW after, Press(after), after.link = browser.link, after.closed = browser.closed,
           OpenCursors(browser) \subseteq OpenCursors(after)
    PROVE  NoneIsLeft'
  <1>1. cursors' = cursors /\ cuts' = cuts /\ browser' = after  BY DEF Press
  <1>2. CursorsOwned(browser, cursors) => CursorsOwned(after, cursors)  BY DEF CursorsOwned
  <1>3. QED  BY <1>1, <1>2 DEF NoneIsLeft

(* The entries change, and none of them is new.                             *)
LEMMA PumpOwns ==
    ASSUME NoneIsLeft, NEW more, cursors' = more, browser' = browser, cuts' = cuts, cursors # <<>>,
           \A j \in DOMAIN more : \E i \in DOMAIN cursors : more[j].id = cursors[i].id
    PROVE  NoneIsLeft'
  <1>1. CursorsOwned(browser, cursors) => CursorsOwned(browser, more)  BY DEF CursorsOwned
  <1>2. QED  BY <1>1 DEF NoneIsLeft

LEMMA TopOpens ==
    ASSUME NEW b, NEW next \in Nat, Shaped(b, next), NEW v, NEW c, c = WithTop(b, v)
    PROVE  /\ c.link = b.link /\ c.closed = b.closed
           /\ \A id \in OpenCursors(b) : id # Top(b).cursor => id \in OpenCursors(c)
           /\ v.cursor # 0 => v.cursor \in OpenCursors(c)
           /\ v.cursor = Top(b).cursor => OpenCursors(b) \subseteq OpenCursors(c)
  <1>1. PICK n \in Nat : n = Len(b.stack) /\ n \in 1 .. n /\ Top(b) = b.stack[n]  BY TopOf
  <1>2. b \in BrowserRec /\ DOMAIN b.stack = 1 .. n  BY <1>1 DEF Shaped, StackGood
  <1>3. PICK new : new = [b.stack EXCEPT ![n] = v]  OBVIOUS
  <1>4. DOMAIN new = 1 .. n /\ new[n] = v /\ \A i \in 1 .. n : i # n => new[i] = b.stack[i]
    BY <1>1, <1>2, <1>3
  <1>5. c = [b EXCEPT !.stack = new]  BY <1>1, <1>2, <1>3 DEF WithTop, BrowserRec
  <1>6. c.stack = new /\ c.link = b.link /\ c.closing = b.closing /\ c.closed = b.closed
    BY <1>2, <1>5 DEF BrowserRec
  <1>7. v.cursor # 0 => v.cursor \in OpenCursors(c)  BY <1>1, <1>4, <1>6 DEF OpenCursors
  <1>8. ASSUME NEW id \in OpenCursors(b) PROVE id \in OpenCursors(c) \/ (id = Top(b).cursor /\ id # 0)
    <2>1. CASE \E i \in DOMAIN b.closing : id = b.closing[i]  BY <1>6, <2>1 DEF OpenCursors
    <2>2. CASE id # 0 /\ \E i \in 1 .. n : id = b.stack[i].cursor
      <3>1. PICK i \in 1 .. n : id = b.stack[i].cursor  BY <2>2
      <3>2. CASE i = n  BY <1>1, <2>2, <3>1, <3>2
      <3>3. CASE i # n  BY <1>4, <1>6, <2>2, <3>1, <3>3 DEF OpenCursors
      <3>4. QED  BY <3>2, <3>3
    <2>3. QED  BY <1>2, <2>1, <2>2 DEF OpenCursors
  <1>9. QED  BY <1>6, <1>7, <1>8

(* What an open screen sends keeps what it knows.                           *)
LEMMA ToppedOwns ==
    ASSUME NEW b, NEW next \in Nat, Shaped(b, next), NEW es, CursorsOwned(b, es),
           NEW v, v.cursor = Top(b).cursor
    PROVE  CursorsOwned(WithTop(b, v), es)
  <1>1. OpenCursors(b) \subseteq OpenCursors(WithTop(b, v))  BY TopOpens
  <1>2. QED  BY <1>1 DEF CursorsOwned

LEMMA BeginsLeavesNone ==
    ASSUME BrowseInv, NoneIsLeft, FrameBegins
    PROVE  NoneIsLeft'
  <1>1. PICK next \in Nat \ {0} : next = nextCursor  BY InvUnfolds
  <1>2. PICK b : b = Ready  OBVIOUS
  <1>3. Shaped(b, next)  BY <1>1, <1>2, ReadyIsSound
  <1>4. PICK top : top = Top(b)  OBVIOUS
  <1>5. LevelGood(top) /\ top.cursor = 0
    <2>1. NextCommand(b) = "list_begin"  BY <1>2 DEF FrameBegins, Frame
    <2>2. QED  BY <1>3, <1>4, <2>1, TopOf, CommandSays
  <1>6. PICK e : e = NewEntry(next, top) /\ e.id = next
    <2>1. PICK x : x = NewEntry(next, top)  OBVIOUS
    <2>2. x.id = next  BY <1>1, <1>5, <2>1, OpenedEntry
    <2>3. QED  BY <2>1, <2>2
  <1>7. PICK v : v = OnCursor(top, next)  OBVIOUS
  <1>8. v.cursor = next  BY <1>5, <1>7, OpenedLevel
  <1>9. PICK staying : staying = EvictOldest  OBVIOUS
  <1>10. \A j \in 1 .. Len(staying) : \E i \in 1 .. Len(cursors) : staying[j] = cursors[i]
    <2>1. EntriesGood(cursors, next)  BY <1>1, InvUnfolds
    <2>2. Thinned(staying, cursors)  BY <1>9, <2>1, EvictedThins
    <2>3. QED  BY <2>1, <2>2, ThinnedGood
  <1>11. staying \in Seq(EntryRec)
    <2>1. EntriesGood(cursors, next)  BY <1>1, InvUnfolds
    <2>2. QED  BY <1>9, <2>1, EvictedThins DEF Thinned
  <1>12. PICK more : more = Append(staying, e)  OBVIOUS
  <1>13. PICK k \in Nat : k = Len(staying)  BY <1>11
  <1>14. DOMAIN more = 1 .. k + 1 /\ more[k + 1] = e /\ \A j \in 1 .. k : more[j] = staying[j]
    BY <1>11, <1>12, <1>13
  <1>15. PICK c : c = WithTop(b, v)  OBVIOUS
  <1>16. c.link = b.link /\ c.closed = b.closed /\ next \in OpenCursors(c)
    BY <1>3, <1>8, <1>15, TopOpens
  <1>17. \A id \in OpenCursors(b) : id # top.cursor => id \in OpenCursors(c)
    BY <1>3, <1>4, <1>15, TopOpens
  <1>18. ASSUME cuts = 0 PROVE c.link = "ok" /\ ~c.closed /\ CursorsOwned(c, more)
    <2>1. b = browser /\ b.link = "ok" /\ CursorsOwned(b, cursors)  BY <1>2, <1>18 DEF NoneIsLeft, Ready
    <2>2. ~b.closed  BY <2>1 DEF FrameBegins, Frame
    <2>3. ASSUME NEW j \in 1 .. k + 1 PROVE more[j].id \in OpenCursors(c)
      <3>1. CASE j = k + 1  BY <1>6, <1>14, <1>16, <3>1
      <3>2. CASE j \in 1 .. k
        <4>1. PICK i \in 1 .. Len(cursors) : more[j] = cursors[i]  BY <1>10, <1>13, <1>14, <3>2
        <4>2. cursors[i] \in EntryRec /\ i \in DOMAIN cursors  BY <4>1, InvUnfolds
        <4>3. cursors[i].id \in OpenCursors(b)  BY <2>1, <4>2 DEF CursorsOwned
        <4>4. cursors[i].id # 0  BY <4>2 DEF EntryRec
        <4>5. QED  BY <1>5, <1>17, <4>1, <4>3, <4>4
      <3>3. j = k + 1 \/ j \in 1 .. k  BY <1>13
      <3>4. QED  BY <3>1, <3>2, <3>3
    <2>4. CursorsOwned(c, more)  BY <1>14, <2>3 DEF CursorsOwned
    <2>5. QED  BY <1>16, <2>1, <2>2, <2>4
  <1>19. cursors' = more  BY <1>1, <1>2, <1>4, <1>6, <1>9, <1>12 DEF FrameBegins
  <1>20. PICK w : w = WithTop(b, [top EXCEPT !.loading = TRUE])  OBVIOUS
  <1>21. Send(w, c)  BY <1>1, <1>2, <1>4, <1>7, <1>15, <1>20 DEF FrameBegins
  <1>22. QED  BY <1>18, <1>19, <1>21, SentOwns
(* A refused cursor is not the service's; an answered one stays with it.    *)
LEMMA NextsLeavesNone ==
    ASSUME BrowseInv, NoneIsLeft, FrameNexts
    PROVE  NoneIsLeft'
  <1>1. PICK next \in Nat \ {0} : next = nextCursor  BY InvUnfolds
  <1>2. PICK b \in BrowserRec : b = browser  BY InvUnfolds
  <1>3. PICK es \in Seq(EntryRec) : es = cursors /\ DOMAIN es = 1 .. Len(es)  BY InvUnfolds
  <1>4. Sound(b, es, next) /\ EntriesGood(es, next) /\ Shaped(b, next)  BY <1>1, <1>2, <1>3, InvUnfolds
  <1>5. b.link = "ok" /\ Ready = b  BY <1>2 DEF FrameNexts, Ready
  <1>6. AllTied(b.stack, es)  BY <1>2, <1>3, <1>5, InvUnfolds
  <1>7. PICK n \in Nat : n = Len(b.stack) /\ n \in 1 .. n /\ Top(b) = b.stack[n]  BY <1>4, TopOf
  <1>8. PICK top : top = Top(b)  OBVIOUS
  <1>9. LevelGood(top)  BY <1>4, <1>8, TopOf
  <1>10. NextCommand(b) = "list_next" /\ ~b.closed  BY <1>2, <1>5 DEF FrameNexts, Frame
  <1>11. top.cursor # 0 /\ top.has_more  BY <1>8, <1>10, CommandSays
  <1>12. PICK v : v = [top EXCEPT !.loading = TRUE]  OBVIOUS
  <1>13. LevelGood(v) /\ v.cursor = top.cursor /\ v.has_more /\ \A e : Tied(top, e) => Tied(v, e)
    <2>1. LevelGood(v) /\ v.cursor = top.cursor /\ v.has_more = top.has_more  BY <1>9, <1>12, WaitingLevel
    <2>2. \A e : Tied(top, e) => Tied(v, e)  BY <1>9, <1>12, WaitingLevel
    <2>3. QED  BY <1>11, <2>1, <2>2
  <1>14. Find(v.cursor) = {i \in 1 .. Len(es) : es[i].id = v.cursor}  BY <1>3 DEF Find
  <1>15. cuts = 0 => CursorsOwned(b, es)  BY <1>2, <1>3 DEF NoneIsLeft
  <1>16. CASE /\ Find(v.cursor) = {} /\ Send(WithTop(b, v), WithTop(b, OnListRefused(v, "bad_cursor")))
              /\ cursors' = cursors
    <2>1. PICK w : w = OnListRefused(v, "bad_cursor")  OBVIOUS
    <2>2. PICK c : c = WithTop(b, w)  OBVIOUS
    <2>3. c.link = b.link /\ c.closed = b.closed /\ \A id \in OpenCursors(b) : id # top.cursor => id \in OpenCursors(c)
      BY <1>4, <1>8, <2>2, TopOpens
    <2>4. \A j \in 1 .. Len(es) : es[j].id # top.cursor  BY <1>13, <1>14, <1>16
    <2>5. cuts = 0 => CursorsOwned(c, es)  BY <1>3, <1>15, <2>3, <2>4 DEF CursorsOwned
    <2>6. Send(WithTop(b, v), c) /\ cursors' = es  BY <1>3, <1>16, <2>1, <2>2
    <2>7. QED  BY <1>5, <1>10, <2>3, <2>5, <2>6, SentOwns
  <1>17. CASE \E i \in Find(v.cursor) : \E answer \in ListNext(cursors[i]) :
                /\ cursors' = Append(Without(i), answer.entry)
                /\ Send(WithTop(b, v), WithTop(b,
                       IF answer.error = "ok" THEN OnPage(v, answer)
                       ELSE OnListRefused(v, answer.error)))
    <2>1. PICK k \in 1 .. Len(es) : es[k].id = v.cursor /\ \E answer \in ListNext(es[k]) :
                /\ cursors' = Append(Without(k), answer.entry)
                /\ Send(WithTop(b, v), WithTop(b,
                       IF answer.error = "ok" THEN OnPage(v, answer)
                       ELSE OnListRefused(v, answer.error)))
      BY <1>3, <1>14, <1>17
    <2>2. PICK e : e = es[k]  OBVIOUS
    <2>3. PICK a \in ListNext(e) :
                /\ cursors' = Append(Without(k), a.entry)
                /\ Send(WithTop(b, v), WithTop(b,
                       IF a.error = "ok" THEN OnPage(v, a) ELSE OnListRefused(v, a.error)))
      BY <2>1, <2>2
    <2>4. PICK w : w = IF a.error = "ok" THEN OnPage(v, a) ELSE OnListRefused(v, a.error)  OBVIOUS
    <2>5. EntryGood(e) /\ e.id = v.cursor  BY <1>4, <2>1, <2>2 DEF EntriesGood
    <2>6. EntryAnswers(e, a)
      <3>1. wishes \in Seq(RowIds)  BY InvUnfolds
      <3>2. QED  BY <2>3, <2>5, <3>1, AnswersFollow
    <2>7. PICK x : x = a.entry  OBVIOUS
    <2>8. x.id = e.id /\ x \in EntryRec  BY <2>6, <2>7 DEF EntryAnswers, EntryGood
    <2>9. Tied(v, e)
      <3>1. Tied(top, e)  BY <1>6, <1>7, <1>8, <2>2 DEF AllTied
      <3>2. QED  BY <1>13, <3>1
    <2>10. w.cursor = top.cursor
      BY <1>11, <1>13, <2>4, <2>5, <2>6, <2>9, NextLevel
    <2>11. PICK rest : rest = Without(k)  OBVIOUS
    <2>12. Thinned(rest, es) /\ \A j \in 1 .. Len(rest) : \E i \in 1 .. Len(es) : rest[j] = es[i]
      <3>1. es \in Seq(EntryRec) /\ es = cursors /\ k \in 1 .. Len(es)  BY <1>3, <2>1
      <3>2. Thinned(Without(k), es)  BY <3>1, WithoutThins, Zenon
      <3>3. QED  BY <1>4, <2>11, <3>2, ThinnedGood
    <2>13. rest \in Seq(EntryRec)  BY <2>12 DEF Thinned
    <2>14. PICK m \in Nat : m = Len(rest)  BY <2>13
    <2>15. PICK more : more = Append(rest, x)  OBVIOUS
    <2>16. DOMAIN more = 1 .. m + 1 /\ more[m + 1] = x /\ \A j \in 1 .. m : more[j] = rest[j]
      BY <2>8, <2>13, <2>14, <2>15
    <2>17. PICK c : c = WithTop(b, w)  OBVIOUS
    <2>18. c.link = b.link /\ c.closed = b.closed /\ OpenCursors(b) \subseteq OpenCursors(c)
      BY <1>4, <1>8, <2>10, <2>17, TopOpens
    <2>19. ASSUME CursorsOwned(b, es), NEW j \in 1 .. m + 1 PROVE more[j].id \in OpenCursors(c)
      <3>1. CASE j = m + 1
        <4>1. es[k].id \in OpenCursors(b)  BY <1>3, <2>19 DEF CursorsOwned
        <4>2. more[j].id = es[k].id  BY <2>2, <2>8, <2>16, <3>1
        <4>3. QED  BY <2>18, <4>1, <4>2
      <3>2. CASE j \in 1 .. m
        <4>1. PICK i \in 1 .. Len(es) : rest[j] = es[i]  BY <2>12, <2>14, <3>2
        <4>2. es[i].id \in OpenCursors(b)  BY <1>3, <2>19 DEF CursorsOwned
        <4>3. more[j] = es[i]  BY <2>16, <3>2, <4>1
        <4>4. QED  BY <2>18, <4>2, <4>3
      <3>3. j = m + 1 \/ j \in 1 .. m  BY <2>14
      <3>4. QED  BY <3>1, <3>2, <3>3
    <2>20. cuts = 0 => CursorsOwned(c, more)  BY <1>15, <2>16, <2>19 DEF CursorsOwned
    <2>21. Send(WithTop(b, v), c) /\ cursors' = more  BY <2>3, <2>4, <2>7, <2>11, <2>15, <2>17
    <2>22. QED  BY <1>5, <1>10, <2>18, <2>20, <2>21, SentOwns
  <1>18. QED  BY <1>2, <1>8, <1>12, <1>16, <1>17 DEF FrameNexts

(* The cursor that is ended is gone from both lists.                        *)
LEMMA EndsLeavesNone ==
    ASSUME BrowseInv, NoneIsLeft, FrameEnds
    PROVE  NoneIsLeft'
  <1>1. PICK next \in Nat \ {0} : next = nextCursor  BY InvUnfolds
  <1>2. PICK b \in BrowserRec : b = browser  BY InvUnfolds
  <1>3. PICK es \in Seq(EntryRec) : es = cursors /\ DOMAIN es = 1 .. Len(es)  BY InvUnfolds
  <1>4. EntriesGood(es, next)  BY <1>1, <1>3, InvUnfolds
  <1>5. b.link = "ok" /\ Ready = b  BY <1>2 DEF FrameEnds, Ready
  <1>6. NextCommand(b) = "list_end" /\ ~b.closed  BY <1>2, <1>5 DEF FrameEnds, Frame
  <1>7. PICK all \in Seq(Nat) : all = b.closing /\ all # <<>>  BY <1>2, <1>6, InvUnfolds, CommandSays
  <1>8. PICK n \in Nat : n = Len(all) /\ n > 0  BY <1>7
  <1>9. PICK tail \in Seq(Nat) : tail = Tail(all) /\ DOMAIN tail = 1 .. n - 1 /\ \A m \in 1 .. n - 1 : tail[m] = all[m + 1]
    <2>1. PICK t : t = Tail(all)  OBVIOUS
    <2>2. t \in Seq(Nat) /\ DOMAIN t = 1 .. n - 1 /\ \A m \in 1 .. n - 1 : t[m] = all[m + 1]
      BY <1>7, <1>8, <2>1
    <2>3. QED  BY <2>1, <2>2
  <1>10. PICK head \in Nat : head = Head(all) /\ head = all[1]  BY <1>7, <1>8
  <1>11. PICK c : c = [b EXCEPT !.closing = tail]  OBVIOUS
  <1>12. c.stack = b.stack /\ c.link = b.link /\ c.closing = tail /\ c.closed = b.closed
    BY <1>2, <1>11 DEF BrowserRec
  <1>13. \A id \in OpenCursors(b) : id # head => id \in OpenCursors(c)
    <2>1. ASSUME NEW id \in OpenCursors(b), id # head PROVE id \in OpenCursors(c)
      <3>1. CASE \E m \in 1 .. n : id = all[m]
        <4>1. PICK m \in 1 .. n : id = all[m]  BY <3>1
        <4>2. m # 1  BY <1>10, <2>1, <4>1
        <4>3. PICK l \in 1 .. n - 1 : l + 1 = m
          <5>1. m - 1 \in 1 .. n - 1 /\ (m - 1) + 1 = m  BY <1>8, <4>1, <4>2
          <5>2. QED  BY <5>1
        <4>4. id = tail[l]  BY <1>9, <4>1, <4>3
        <4>5. QED  BY <1>9, <1>12, <4>3, <4>4 DEF OpenCursors
      <3>2. CASE id \in {b.stack[i].cursor : i \in DOMAIN b.stack} \ {0}
        BY <1>12, <3>2 DEF OpenCursors
      <3>3. DOMAIN b.closing = 1 .. n  BY <1>7, <1>8
      <3>4. id \in {b.closing[i] : i \in DOMAIN b.closing} \/ id \in {b.stack[i].cursor : i \in DOMAIN b.stack} \ {0}
        BY <2>1 DEF OpenCursors
      <3>5. QED  BY <1>7, <3>1, <3>2, <3>3, <3>4
    <2>2. QED  BY <2>1
  <1>14. PICK gone : gone = Find(Head(browser.closing))  OBVIOUS
  <1>15. gone = {i \in 1 .. Len(es) : es[i].id = head}  BY <1>2, <1>3, <1>7, <1>10, <1>14 DEF Find
  <1>16. PICK more : more = IF gone = {} THEN cursors ELSE Without(CHOOSE i \in gone : TRUE)  OBVIOUS
  <1>17. more \in Seq(EntryRec) /\ \A j \in 1 .. Len(more) : \E i \in 1 .. Len(es) : more[j] = es[i] /\ es[i].id # head
    <2>1. CASE gone = {}  BY <1>3, <1>15, <1>16, <2>1
    <2>2. CASE gone # {}
      <3>1. PICK k : k = CHOOSE i \in gone : TRUE  OBVIOUS
      <3>2. k \in 1 .. Len(es) /\ es[k].id = head  BY <1>15, <2>2, <3>1
      <3>3. PICK rest : rest = Without(k)  OBVIOUS
      <3>4. Thinned(rest, es) /\ \A j \in 1 .. Len(rest) : \E i \in 1 .. Len(es) : i # k /\ rest[j] = es[i]
        <4>1. es \in Seq(EntryRec) /\ es = cursors /\ k \in 1 .. Len(es)  BY <1>3, <3>2
        <4>2. /\ Thinned(Without(k), es)
              /\ \A j \in 1 .. Len(Without(k)) : \E i \in 1 .. Len(es) : i # k /\ Without(k)[j] = es[i]
          BY <4>1, WithoutThins, Zenon
        <4>3. QED  BY <3>3, <4>2
      <3>5. rest \in Seq(EntryRec)  BY <3>4 DEF Thinned
      <3>6. \A i \in 1 .. Len(es) : i # k => es[i].id # head  BY <1>4, <3>2 DEF EntriesGood
      <3>7. more = rest  BY <1>16, <2>2, <3>1, <3>3
      <3>8. QED  BY <3>4, <3>5, <3>6, <3>7
    <2>3. QED  BY <2>1, <2>2
  <1>18. CursorsOwned(b, es) => CursorsOwned(c, more)
    <2>1. DOMAIN more = 1 .. Len(more)  BY <1>17
    <2>2. QED  BY <1>3, <1>13, <1>17, <2>1, ZenonT(60) DEF CursorsOwned
  <1>19. cuts = 0 => CursorsOwned(b, es)  BY <1>2, <1>3 DEF NoneIsLeft
  <1>20. Send(b, c) /\ cursors' = more  BY <1>2, <1>7, <1>9, <1>11, <1>14, <1>16 DEF FrameEnds
  <1>21. QED  BY <1>5, <1>6, <1>12, <1>18, <1>19, <1>20, SentOwns

LEMMA EnqueuesLeavesNone ==
    ASSUME BrowseInv, NoneIsLeft, FrameEnqueues
    PROVE  NoneIsLeft'
  <1>1. PICK next \in Nat \ {0} : next = nextCursor  BY InvUnfolds
  <1>2. PICK b \in BrowserRec : b = browser  BY InvUnfolds
  <1>3. PICK es : es = cursors  OBVIOUS
  <1>4. Shaped(b, next)  BY <1>1, <1>2, InvUnfolds
  <1>5. b.link = "ok" /\ ~b.closed  BY <1>2 DEF FrameEnqueues, Frame
  <1>6. PICK top : top = Top(b)  OBVIOUS
  <1>7. LevelGood(top) /\ top.cursor < next  BY <1>4, <1>6, TopOf
  <1>8. PICK state \in RowStates : Send(b, [WithTop(b, MarkRow(top, b.wanted, state)) EXCEPT !.wanted = 0])
    <2>1. PICK answer \in {"duplicate", "ok", "queue_full", "offline"} :
             Send(b, [WithTop(b, MarkRow(top, b.wanted, IF answer = "ok" THEN "queued"
                                     ELSE EnqueueRefusalState(answer))) EXCEPT !.wanted = 0])
      BY <1>2, <1>6 DEF FrameEnqueues, EnqueueAnswers
    <2>2. PICK state : state = IF answer = "ok" THEN "queued" ELSE EnqueueRefusalState(answer)  OBVIOUS
    <2>3. state \in RowStates  BY <2>1, <2>2 DEF EnqueueRefusalState, RowStates
    <2>4. QED  BY <2>1, <2>2, <2>3
  <1>9. PICK w : w = MarkRow(top, b.wanted, state)  OBVIOUS
  <1>10. LevelGood(w) /\ w.cursor = top.cursor  BY <1>7, <1>9, MarkedLevel
  <1>11. PICK c : c = WithTop(b, w)  OBVIOUS
  <1>12. Shaped(c, next) /\ c.link = b.link /\ c.closed = b.closed
    BY <1>4, <1>7, <1>10, <1>11, TopShaped
  <1>13. CursorsOwned(b, es) => CursorsOwned(c, es)  BY <1>4, <1>6, <1>10, <1>11, ToppedOwns
  <1>14. PICK d : d = [c EXCEPT !.wanted = 0]  OBVIOUS
  <1>15. c \in BrowserRec  BY <1>12 DEF Shaped
  <1>16. d.link = c.link /\ d.closed = c.closed /\ d.stack = c.stack /\ d.closing = c.closing
    BY <1>14, <1>15 DEF BrowserRec
  <1>17. CursorsOwned(c, es) => CursorsOwned(d, es)  BY <1>16 DEF CursorsOwned, OpenCursors
  <1>18. cuts = 0 => CursorsOwned(b, es)  BY <1>2, <1>3 DEF NoneIsLeft
  <1>19. Send(b, d) /\ cursors' = es  BY <1>3, <1>8, <1>9, <1>11, <1>14 DEF FrameEnqueues
  <1>20. QED  BY <1>5, <1>12, <1>13, <1>16, <1>17, <1>18, <1>19, SentOwns

(* The screen changes, with no cursor fewer.                                *)
LEMMA ScreenOwns ==
    ASSUME NoneIsLeft, NEW after, browser' = after, cursors' = cursors, cuts' = cuts,
           after.link = browser.link, after.closed = browser.closed,
           OpenCursors(browser) \subseteq OpenCursors(after)
    PROVE  NoneIsLeft'
  <1>1. CursorsOwned(browser, cursors) => CursorsOwned(after, cursors)  BY DEF CursorsOwned
  <1>2. QED  BY <1>1 DEF NoneIsLeft

LEMMA RestsLeavesNone ==
    ASSUME BrowseInv, NoneIsLeft, FrameRests
    PROVE  NoneIsLeft'
  <1>1. PICK next \in Nat \ {0} : next = nextCursor  BY InvUnfolds
  <1>2. PICK b \in BrowserRec : b = browser  BY InvUnfolds
  <1>3. Shaped(b, next)  BY <1>1, <1>2, InvUnfolds
  <1>4. PICK w : w = [Top(b) EXCEPT !.loading = FALSE]  OBVIOUS
  <1>5. LevelGood(Top(b))  BY <1>3, TopOf
  <1>6. w.cursor = Top(b).cursor  BY <1>4, <1>5, WaitingLevel
  <1>7. PICK c : c = WithTop(b, w)  OBVIOUS
  <1>8. c.link = b.link /\ c.closed = b.closed /\ OpenCursors(b) \subseteq OpenCursors(c)
    BY <1>3, <1>6, <1>7, TopOpens
  <1>9. PICK after : after = browser'  OBVIOUS
  <1>10. after = b \/ after = c  BY <1>2, <1>4, <1>7, <1>9 DEF FrameRests
  <1>11. after.link = b.link /\ after.closed = b.closed /\ OpenCursors(b) \subseteq OpenCursors(after)
    BY <1>8, <1>10
  <1>12. cursors' = cursors /\ cuts' = cuts  BY DEF FrameRests
  <1>13. QED  BY <1>2, <1>9, <1>11, <1>12, ScreenOwns

LEMMA LostLeavesNone ==
    ASSUME NoneIsLeft, FrameLost
    PROVE  NoneIsLeft'
  <1>1. cuts' = cuts + 1 /\ cuts \in Nat  BY DEF FrameLost, NoneIsLeft
  <1>2. cuts' \in Nat /\ cuts' # 0  BY <1>1
  <1>3. QED  BY <1>2 DEF NoneIsLeft

(* The top of the stack is shown otherwise, and is still asked with the     *)
(* cursor it had.                                                           *)
LEMMA TopPressOwns ==
    ASSUME BrowseInv, NoneIsLeft, NEW w, w.cursor = Top(browser).cursor, Press(WithTop(browser, w))
    PROVE  NoneIsLeft'
  <1>1. PICK next \in Nat \ {0} : next = nextCursor  BY InvUnfolds
  <1>2. Shaped(browser, next)  BY <1>1, InvUnfolds
  <1>3. PICK c : c = WithTop(browser, w)  OBVIOUS
  <1>4. c.link = browser.link /\ c.closed = browser.closed /\ OpenCursors(browser) \subseteq OpenCursors(c)
    BY <1>2, <1>3, TopOpens
  <1>5. QED  BY <1>3, <1>4, PressOwns

(* A level pushed on the stack hides no cursor.                             *)
LEMMA PushOwns ==
    ASSUME BrowseInv, NoneIsLeft, NEW v \in LevelRec, Press([browser EXCEPT !.stack = Append(browser.stack, v)])
    PROVE  NoneIsLeft'
  <1>1. PICK b \in BrowserRec : b = browser  BY InvUnfolds
  <1>2. PICK old \in Seq(LevelRec) : old = b.stack  BY <1>1, InvUnfolds
  <1>3. PICK new : new = Append(old, v)  OBVIOUS
  <1>4. \A i \in DOMAIN old : i \in DOMAIN new /\ new[i] = old[i]  BY <1>2, <1>3
  <1>5. PICK c : c = [b EXCEPT !.stack = new]  OBVIOUS
  <1>6. c.stack = new /\ c.closing = b.closing /\ c.link = b.link /\ c.closed = b.closed  BY <1>5 DEF BrowserRec
  <1>7. OpenCursors(b) \subseteq OpenCursors(c)  BY <1>2, <1>4, <1>6 DEF OpenCursors
  <1>8. Press(c)  BY <1>1, <1>2, <1>3, <1>5
  <1>9. QED  BY <1>1, <1>6, <1>7, <1>8, PressOwns

LEMMA MovesLeaveNone ==
    ASSUME BrowseInv, NoneIsLeft, NEW delta, MoveSelection(delta)
    PROVE  NoneIsLeft'
  <1>1. PICK next \in Nat \ {0} : next = nextCursor  BY InvUnfolds
  <1>2. Top(browser) \in LevelRec
    <2>1. Shaped(browser, next)  BY <1>1, InvUnfolds
    <2>2. QED  BY <2>1, TopOf
  <1>3. PICK v \in LevelRec : v = Top(browser)  BY <1>2
  <1>4. \E k : Press(IF v.rows = <<>> /\ v.page_error = "ok" /\ ~v.has_more THEN browser
                     ELSE WithTop(browser, [v EXCEPT !.selected = k]))
    BY <1>3 DEF MoveSelection
  <1>5. PICK k : Press(IF v.rows = <<>> /\ v.page_error = "ok" /\ ~v.has_more THEN browser
                       ELSE WithTop(browser, [v EXCEPT !.selected = k]))
    BY <1>4
  <1>6. PICK w : w = [v EXCEPT !.selected = k]  OBVIOUS
  <1>7. w.cursor = Top(browser).cursor  BY <1>3, <1>6 DEF LevelRec
  <1>8. Press(browser) \/ Press(WithTop(browser, w))  BY <1>5, <1>6
  <1>9. QED  BY <1>7, <1>8, PressOwns, TopPressOwns

LEMMA ActivateLeavesNone ==
    ASSUME BrowseInv, NoneIsLeft, Activate
    PROVE  NoneIsLeft'
  <1>1. PICK next \in Nat \ {0} : next = nextCursor  BY InvUnfolds
  <1>2. PICK b \in BrowserRec : b = browser  BY InvUnfolds
  <1>3. Shaped(b, next)  BY <1>1, <1>2, InvUnfolds
  <1>4. PICK v : v = Top(b)  OBVIOUS
  <1>5. LevelGood(v) /\ v \in LevelRec /\ v.selected \in Nat /\ v.rows \in Seq(ShownRow)
        /\ Len(v.rows) \in Nat /\ v.kind \in LevelKinds
    BY <1>3, <1>4, TopOf DEF LevelRec
  <1>6. PICK after : after = Activated(b, v)  OBVIOUS
  <1>7. Press(after)  BY <1>2, <1>4, <1>6 DEF Activate, Activated
  <1>8. CASE after = b  BY <1>2, <1>7, <1>8, PressOwns
  <1>9. CASE v.selected >= Len(v.rows) /\ v.page_error # "ok"
    <2>1. PICK w : w = [v EXCEPT !.page_error = "ok", !.empty_pages = 0, !.has_more = TRUE]  OBVIOUS
    <2>2. w.cursor = v.cursor  BY <1>5, <2>1 DEF LevelRec
    <2>3. after = WithTop(b, w)  BY <1>6, <1>9, <2>1 DEF Activated
    <2>4. QED  BY <1>2, <1>4, <1>7, <2>2, <2>3, TopPressOwns
  <1>10. CASE ~(v.selected >= Len(v.rows)) /\ v.kind = "platforms"
    <2>1. PICK r \in 1 .. Len(v.rows) : r = v.selected + 1  BY <1>5, <1>10
    <2>2. v.rows[r].id \in DOMAIN RomsOf  BY <1>5, <1>10, PlatformRow
    <2>3. PICK mapped \in BOOLEAN : mapped = (v.rows[r].state # "unmapped")  OBVIOUS
    <2>4. PICK w \in LevelRec : w = NewLevel("roms", v.rows[r].id, mapped)
      BY <2>2, NewLevelGood DEF LevelKinds
    <2>5. after = [b EXCEPT !.stack = Append(b.stack, w)]
      BY <1>6, <1>10, <2>1, <2>3, <2>4 DEF Activated
    <2>6. Press([browser EXCEPT !.stack = Append(browser.stack, w)])  BY <1>2, <1>7, <2>5
    <2>7. QED  BY <2>6, PushOwns
  <1>11. CASE ~(v.selected >= Len(v.rows)) /\ v.kind = "roms"
    <2>1. PICK rom : rom = v.rows[v.selected + 1].id  OBVIOUS
    <2>2. PICK c : c = [b EXCEPT !.wanted = rom]  OBVIOUS
    <2>3. c.stack = b.stack /\ c.closing = b.closing /\ c.link = b.link /\ c.closed = b.closed
      BY <2>2 DEF BrowserRec
    <2>4. OpenCursors(b) \subseteq OpenCursors(c)  BY <2>3 DEF OpenCursors
    <2>5. after = c \/ after = b  BY <1>6, <1>11, <2>1, <2>2 DEF Activated
    <2>6. CASE after = c  BY <1>2, <1>7, <2>3, <2>4, <2>6, PressOwns
    <2>7. QED  BY <1>8, <2>5, <2>6
  <1>12. after = b \/ (v.selected >= Len(v.rows) /\ v.page_error # "ok")
         \/ (~(v.selected >= Len(v.rows)) /\ v.kind = "platforms")
         \/ (~(v.selected >= Len(v.rows)) /\ v.kind = "roms")
    <2>1. CASE v.selected >= Len(v.rows) /\ v.page_error = "ok"  BY <1>6, <2>1 DEF Activated
    <2>2. CASE ~(v.selected >= Len(v.rows)) /\ v.kind = "queue"  BY <1>6, <2>2 DEF Activated
    <2>3. v.kind \in {"platforms", "roms", "queue"}  BY <1>5 DEF LevelKinds
    <2>4. QED  BY <2>1, <2>2, <2>3
  <1>13. QED  BY <1>8, <1>9, <1>10, <1>11, <1>12

LEMMA OpenQueueLeavesNone ==
    ASSUME BrowseInv, NoneIsLeft, OpenQueue
    PROVE  NoneIsLeft'
  <1>1. PICK v \in LevelRec : v = NewLevel("queue", 0, TRUE)  BY NewLevelGood DEF LevelKinds
  <1>2. Press([browser EXCEPT !.stack = Append(browser.stack, v)])  BY <1>1 DEF OpenQueue
  <1>3. QED  BY <1>2, PushOwns

(* The cursor of the level that is left waits to be ended.                  *)
LEMMA BackLeavesNone ==
    ASSUME BrowseInv, NoneIsLeft, Back
    PROVE  NoneIsLeft'
  <1>1. PICK next \in Nat \ {0} : next = nextCursor  BY InvUnfolds
  <1>2. PICK b \in BrowserRec : b = browser  BY InvUnfolds
  <1>3. Shaped(b, next)  BY <1>1, <1>2, InvUnfolds
  <1>4. PICK n \in Nat : n = Len(b.stack) /\ n > 1 /\ Top(b) = b.stack[n]
    <2>1. Len(b.stack) \in Nat /\ Top(b) = b.stack[Len(b.stack)]  BY <1>3, TopOf
    <2>2. QED  BY <1>2, <2>1 DEF Back
  <1>5. PICK old \in Seq(LevelRec) : old = b.stack /\ DOMAIN old = 1 .. n  BY <1>2, <1>4, InvUnfolds
  <1>6. PICK new : new = SubSeq(old, 1, n - 1)  OBVIOUS
  <1>7. DOMAIN new = 1 .. n - 1 /\ \A i \in 1 .. n - 1 : new[i] = old[i]
    <2>1. \A i \in 1 .. n - 1 : old[i] \in LevelRec  BY <1>4, <1>5
    <2>2. PICK m \in Int : m = n - 1 /\ 1 <= m  BY <1>4
    <2>3. \A i \in 1 .. m : old[i] \in LevelRec  BY <2>1, <2>2
    <2>4. /\ SubSeq(old, 1, m) \in Seq(LevelRec)
          /\ Len(SubSeq(old, 1, m)) = IF 1 <= m THEN m - 1 + 1 ELSE 0
          /\ \A i \in 1 .. m - 1 + 1 : SubSeq(old, 1, m)[i] = old[1 + i - 1]
      BY <2>3, SubSeqProperties
    <2>5. new \in Seq(LevelRec) /\ Len(new) = m /\ \A i \in 1 .. m : new[i] = old[i]
      BY <1>6, <2>2, <2>4
    <2>6. QED  BY <2>2, <2>5
  <1>8. PICK waiting \in Seq(Nat) : waiting = b.closing  BY <1>2, InvUnfolds
  <1>9. PICK k \in Nat : k = Top(b).cursor  BY <1>3, TopOf
  <1>10. PICK closing : closing = IF k = 0 THEN waiting ELSE Append(waiting, k)  OBVIOUS
  <1>11. \A i \in DOMAIN waiting : i \in DOMAIN closing /\ closing[i] = waiting[i]
    <2>1. PICK longer : longer = Append(waiting, k)  OBVIOUS
    <2>2. \A i \in DOMAIN waiting : i \in DOMAIN longer /\ longer[i] = waiting[i]  BY <2>1
    <2>3. QED  BY <1>10, <2>1, <2>2
  <1>12. k # 0 => \E i \in DOMAIN closing : closing[i] = k
    <2>1. PICK longer : longer = Append(waiting, k)  OBVIOUS
    <2>2. Len(waiting) + 1 \in DOMAIN longer /\ longer[Len(waiting) + 1] = k  BY <2>1
    <2>3. QED  BY <1>10, <2>1, <2>2
  <1>13. PICK c : c = [b EXCEPT !.stack = new, !.closing = closing]  OBVIOUS
  <1>14. c.stack = new /\ c.closing = closing /\ c.link = b.link /\ c.closed = b.closed
    BY <1>13 DEF BrowserRec
  <1>15. ASSUME NEW id \in OpenCursors(b) PROVE id \in OpenCursors(c)
    <2>1. CASE \E i \in DOMAIN waiting : id = waiting[i]  BY <1>11, <1>14, <2>1 DEF OpenCursors
    <2>2. CASE id # 0 /\ \E i \in 1 .. n : id = old[i].cursor
      <3>1. PICK i \in 1 .. n : id = old[i].cursor  BY <2>2
      <3>2. CASE i = n  BY <1>4, <1>5, <1>9, <1>12, <1>14, <2>2, <3>1, <3>2 DEF OpenCursors
      <3>3. CASE i # n
        <4>1. i \in 1 .. n - 1  BY <1>4, <3>3
        <4>2. id = new[i].cursor  BY <1>7, <3>1, <4>1
        <4>3. QED  BY <1>7, <1>14, <2>2, <4>1, <4>2 DEF OpenCursors
      <3>4. QED  BY <3>2, <3>3
    <2>3. QED  BY <1>5, <1>8, <2>1, <2>2 DEF OpenCursors
  <1>16. Press(c)  BY <1>2, <1>4, <1>5, <1>6, <1>8, <1>9, <1>10, <1>13 DEF Back
  <1>17. QED  BY <1>2, <1>14, <1>15, <1>16, PressOwns

(* Every cursor the screen knows is ended, and it knows them all.           *)
LEMMA AllAreEnded ==
    ASSUME NEW es, es = cursors, NEW ended, \A j \in DOMAIN es : es[j].id \in ended,
           NEW more \in Remaining(ended)
    PROVE  more = <<>>
  <1>1. PICK staying : staying = {i \in DOMAIN cursors : cursors[i].id \notin ended}  OBVIOUS
  <1>2. staying = {}  BY <1>1
  <1>3. Cardinality(staying) = 0  BY <1>2, FS_EmptySet
  <1>4. PICK at \in [1 .. 0 -> staying] : more = [i \in DOMAIN at |-> cursors[at[i]]]
    BY <1>1, <1>3 DEF Remaining
  <1>5. DOMAIN at = {}  BY <1>4
  <1>6. more = [i \in {} |-> cursors[at[i]]]  BY <1>4, <1>5
  <1>7. QED  BY <1>6

LEMMA FreshScreen ==
    /\ NewBrowser.link = "ok" /\ ~NewBrowser.closed
    /\ [NewBrowser EXCEPT !.closed = TRUE].link = "ok"
  BY DEF NewBrowser

LEMMA LeaveLeavesNone ==
    ASSUME NoneIsLeft, Leave
    PROVE  NoneIsLeft'
  <1>1. PICK answers \in BOOLEAN :
          /\ cuts' = IF answers THEN cuts ELSE cuts + 1
          /\ IF answers /\ browser.link = "ok" THEN cursors' \in Remaining(OpenCursors(browser))
             ELSE UNCHANGED cursors
    BY DEF Leave
  <1>2. PICK c : c = [NewBrowser EXCEPT !.closed = TRUE]  OBVIOUS
  <1>3. browser' = c /\ c.link = "ok"  BY <1>2, FreshScreen DEF Leave
  <1>4. cuts \in Nat  BY DEF NoneIsLeft
  <1>5. CASE answers /\ cuts = 0
    <2>1. browser.link = "ok" /\ CursorsOwned(browser, cursors)  BY <1>5 DEF NoneIsLeft
    <2>2. PICK ended : ended = OpenCursors(browser)  OBVIOUS
    <2>3. PICK more : more = cursors'  OBVIOUS
    <2>4. more \in Remaining(ended)  BY <1>1, <1>5, <2>1, <2>2, <2>3
    <2>5. \A j \in DOMAIN cursors : cursors[j].id \in ended  BY <2>1, <2>2 DEF CursorsOwned
    <2>6. more = <<>>  BY <2>4, <2>5, AllAreEnded
    <2>7. CursorsOwned(c, more)  BY <2>6 DEF CursorsOwned
    <2>8. cuts' = 0  BY <1>1, <1>5
    <2>9. QED  BY <1>3, <2>3, <2>6, <2>7, <2>8 DEF NoneIsLeft
  <1>6. CASE ~(answers /\ cuts = 0)
    <2>1. cuts' \in Nat /\ cuts' # 0  BY <1>1, <1>4, <1>6
    <2>2. QED  BY <2>1 DEF NoneIsLeft
  <1>7. QED  BY <1>5, <1>6

LEMMA VisitLeavesNone ==
    ASSUME NoneIsLeft, Visit
    PROVE  NoneIsLeft'
  <1>1. PICK c : c = NewBrowser  OBVIOUS
  <1>2. browser' = c /\ cursors' = cursors /\ cuts' = cuts /\ browser.closed  BY <1>1 DEF Visit
  <1>3. c.link = "ok" /\ ~c.closed  BY <1>1, FreshScreen
  <1>4. cursors = <<>> => CursorsOwned(c, cursors)  BY DEF CursorsOwned
  <1>5. QED  BY <1>2, <1>3, <1>4 DEF NoneIsLeft

-----------------------------------------------------------------------------
(* The worker's half never makes an entry.                                  *)

LEMMA TakesLeavesNone ==
    ASSUME BrowseInv, NoneIsLeft, PumpTakes
    PROVE  NoneIsLeft'
  <1>1. PICK es \in Seq(EntryRec) : es = cursors /\ DOMAIN es = 1 .. Len(es)  BY InvUnfolds
  <1>2. PICK more : more = cursors'  OBVIOUS
  <1>3. PICK waiting : waiting = {i \in DOMAIN cursors : cursors[i].fetch = "running"}  OBVIOUS
  <1>4. DOMAIN more = DOMAIN es /\ \A i \in DOMAIN es : more[i] = es[i] \/ more[i] = Yielded(es[i])
    <2>1. PICK first : first = CHOOSE i \in waiting : \A j \in waiting : cursors[i].id <= cursors[j].id
      OBVIOUS
    <2>2. PICK mine : mine = cursors[first]  OBVIOUS
    <2>3. cursors' = [i \in DOMAIN cursors |->
             IF i = first \/ cursors[i].kind # mine.kind THEN cursors[i]
             ELSE [cursors[i] EXCEPT !.fetch = IF @ = "ready" THEN "idle" ELSE @,
                                     !.ready = <<>>, !.loaded = FALSE]]
      BY <1>3, <2>1, <2>2, Zenon DEF PumpTakes
    <2>4. more = [i \in DOMAIN es |->
                 IF i = first \/ es[i].kind # mine.kind THEN es[i]
                 ELSE [es[i] EXCEPT !.fetch = IF @ = "ready" THEN "idle" ELSE @,
                                         !.ready = <<>>, !.loaded = FALSE]]
      BY <1>1, <1>2, <2>3
    <2>5. QED  BY <2>4 DEF Yielded
  <1>5. es # <<>>
    <2>1. waiting # {}  BY <1>3 DEF PumpTakes
    <2>2. PICK i \in DOMAIN es : TRUE  BY <1>1, <1>3, <2>1
    <2>3. QED  BY <2>2
  <1>6. ASSUME NEW i \in DOMAIN es PROVE i \in DOMAIN more /\ more[i].id = es[i].id
    <2>1. PICK e \in EntryRec : e = es[i]  BY <1>1
    <2>2. PICK x : x = Yielded(e)  OBVIOUS
    <2>3. x.id = e.id  BY <2>2 DEF Yielded, EntryRec
    <2>4. more[i] = e \/ more[i] = x  BY <1>4, <2>1, <2>2
    <2>5. QED  BY <1>4, <2>1, <2>3, <2>4
  <1>7. DOMAIN more = DOMAIN es  BY <1>4
  <1>8. browser' = browser /\ cuts' = cuts  BY DEF PumpTakes
  <1>9. QED  BY <1>1, <1>2, <1>5, <1>6, <1>7, <1>8, PumpOwns

LEMMA ChangedLeavesNone ==
    ASSUME BrowseInv, NoneIsLeft, NEW i \in DOMAIN cursors, NEW x, x.id = cursors[i].id,
           cursors' = [cursors EXCEPT ![i] = x], browser' = browser, cuts' = cuts
    PROVE  NoneIsLeft'
  <1>1. PICK es \in Seq(EntryRec) : es = cursors /\ DOMAIN es = 1 .. Len(es)  BY InvUnfolds
  <1>2. PICK more : more = [es EXCEPT ![i] = x]  OBVIOUS
  <1>3. DOMAIN more = DOMAIN es /\ \A j \in DOMAIN es : more[j].id = es[j].id  BY <1>1, <1>2
  <1>4. es # <<>>  BY <1>1
  <1>5. QED  BY <1>1, <1>2, <1>3, <1>4, PumpOwns

LEMMA RetryLeavesNone ==
    ASSUME BrowseInv, NoneIsLeft, RetryFallsDue
    PROVE  NoneIsLeft'
  <1>1. PICK i \in DOMAIN cursors : cursors' = [cursors EXCEPT ![i].waiting = FALSE]  BY DEF RetryFallsDue
  <1>2. PICK e \in EntryRec : e = cursors[i]  BY <1>1, InvUnfolds
  <1>3. PICK x : x = [e EXCEPT !.waiting = FALSE]  OBVIOUS
  <1>4. x.id = e.id  BY <1>3 DEF EntryRec
  <1>5. cursors' = [cursors EXCEPT ![i] = x]  BY <1>1, <1>2, <1>3
  <1>6. browser' = browser /\ cuts' = cuts  BY DEF RetryFallsDue
  <1>7. QED  BY <1>2, <1>4, <1>5, <1>6, ChangedLeavesNone

LEMMA ReapLeavesNone ==
    ASSUME BrowseInv, NoneIsLeft, Reap
    PROVE  NoneIsLeft'
  <1>1. PICK next \in Nat \ {0} : next = nextCursor  BY InvUnfolds
  <1>2. PICK es \in Seq(EntryRec) : es = cursors /\ DOMAIN es = 1 .. Len(es)  BY InvUnfolds
  <1>3. EntriesGood(es, next)  BY <1>1, <1>2, InvUnfolds
  <1>4. es # <<>>  BY <1>2 DEF Reap
  <1>5. PICK more : more = Tail(es)  OBVIOUS
  <1>6. Thinned(more, es)  BY <1>4, <1>5, TailThins
  <1>7. \A j \in 1 .. Len(more) : \E i \in 1 .. Len(es) : more[j] = es[i]  BY <1>3, <1>6, ThinnedGood
  <1>8. DOMAIN more = 1 .. Len(more)
    <2>1. more \in Seq(EntryRec)  BY <1>6 DEF Thinned
    <2>2. QED  BY <2>1
  <1>9. cursors' = more /\ browser' = browser /\ cuts' = cuts  BY <1>2, <1>5 DEF Reap
  <1>10. QED  BY <1>2, <1>4, <1>7, <1>8, <1>9, PumpOwns

LEMMA StillLeavesNone ==
    ASSUME NoneIsLeft, browser' = browser, cursors' = cursors, cuts' = cuts
    PROVE  NoneIsLeft'
  BY DEF NoneIsLeft

LEMMA AnswersLeaveNone ==
    ASSUME BrowseInv, NoneIsLeft, PumpAnswers
    PROVE  NoneIsLeft'
  <1>1. browser' = browser /\ cuts' = cuts  BY DEF PumpAnswers
  <1>2. PICK found : found = {i \in Find(fetch.id) : cursors[i].fetch = "running"}  OBVIOUS
  <1>3. PICK list : list = Items(fetch.kind, fetch.platform)  OBVIOUS
  <1>4. \A i \in found : i \in DOMAIN cursors  BY <1>2 DEF Find
  <1>5. ASSUME NEW i \in found, NEW failure, PumpFails(i, failure) PROVE NoneIsLeft'
    <2>1. PICK e \in EntryRec : e = cursors[i]  BY <1>4, InvUnfolds
    <2>2. PICK x : x = [e EXCEPT !.fetch = "failed", !.failure = failure, !.waiting = TRUE]  OBVIOUS
    <2>3. x.id = e.id  BY <2>2 DEF EntryRec
    <2>4. cursors' = [cursors EXCEPT ![i] = x]  BY <1>4, <1>5, <2>1, <2>2, InvUnfolds DEF PumpFails, EntryRec
    <2>5. QED  BY <1>1, <1>4, <2>1, <2>3, <2>4, ChangedLeavesNone
  <1>6. ASSUME NEW i \in found,
               cursors' = [cursors EXCEPT ![i].fetch = "ready", ![i].waiting = FALSE, ![i].failure = "ok"]
        PROVE  NoneIsLeft'
    <2>1. PICK e \in EntryRec : e = cursors[i]  BY <1>4, InvUnfolds
    <2>2. PICK x : x = [e EXCEPT !.fetch = "ready", !.waiting = FALSE, !.failure = "ok"]  OBVIOUS
    <2>3. x.id = e.id  BY <2>2 DEF EntryRec
    <2>4. cursors' = [cursors EXCEPT ![i] = x]  BY <1>4, <1>6, <2>1, <2>2, InvUnfolds DEF EntryRec
    <2>5. QED  BY <1>1, <1>4, <2>1, <2>3, <2>4, ChangedLeavesNone
  <1>7. ASSUME NEW i \in found, NEW stepped, NEW built,
               cursors' = [cursors EXCEPT ![i].fetch = "ready", ![i].waiting = FALSE,
                              ![i].failure = "ok", ![i].offset = @ + stepped,
                              ![i].ready = built.items, ![i].has_more = built.has_more]
        PROVE  NoneIsLeft'
    <2>1. PICK e \in EntryRec : e = cursors[i]  BY <1>4, InvUnfolds
    <2>2. PICK to : to = e.offset + stepped  OBVIOUS
    <2>3. PICK x : x = Filled(e, to, built)  OBVIOUS
    <2>4. x.id = e.id  BY <2>3 DEF EntryRec, Filled
    <2>5. cursors' = [cursors EXCEPT ![i].fetch = "ready", ![i].waiting = FALSE,
                              ![i].failure = "ok", ![i].offset = to,
                              ![i].ready = built.items, ![i].has_more = built.has_more]
      BY <1>4, <1>7, <2>1, <2>2, InvUnfolds DEF EntryRec
    <2>6. cursors' = [cursors EXCEPT ![i] = x]  BY <1>4, <2>1, <2>3, <2>5, InvUnfolds DEF EntryRec, Filled
    <2>7. QED  BY <1>1, <1>4, <2>1, <2>4, <2>6, ChangedLeavesNone
  <1>8. LandsOn(found, list)  BY <1>2, <1>3, AnswersLand, Zenon
  <1>9. CASE UNCHANGED cursors  BY <1>1, <1>9, StillLeavesNone
  <1>10. QED  BY <1>5, <1>6, <1>7, <1>8, <1>9, ZenonT(60) DEF LandsOn

-----------------------------------------------------------------------------
LEMMA BeginsOwned ==
    ASSUME BrowseInit
    PROVE  NoneIsLeft
  <1>1. cuts = 0  BY DEF BrowseInit
  <1>2. CASE browser = NewBrowser /\ cursors = <<>>
    <2>1. CursorsOwned(browser, cursors)  BY <1>2 DEF CursorsOwned
    <2>2. QED  BY <1>1, <1>2, <2>1, FreshScreen DEF NoneIsLeft
  <1>3. ASSUME NEW p, browser = Entered(p),
               cursors = <<[NewEntry(1, NewLevel("platforms", 0, TRUE)) EXCEPT !.loaded = TRUE,
                                                            !.offset = Len(PlatformList)]>>
        PROVE  NoneIsLeft
    <2>1. PICK e : e = [NewEntry(1, NewLevel("platforms", 0, TRUE)) EXCEPT !.loaded = TRUE,
                                                            !.offset = Len(PlatformList)]
      OBVIOUS
    <2>2. e.id = 1  BY <2>1 DEF NewEntry
    <2>3. PICK v : v = [NewLevel("platforms", 0, TRUE) EXCEPT !.cursor = 1, !.has_more = FALSE,
              !.rows = [i \in DOMAIN PlatformList |-> ReadPlatform([id |-> PlatformList[i]])]]
      OBVIOUS
    <2>4. v.cursor = 1  BY <2>3 DEF NewLevel
    <2>5. PICK w : w = NewLevel("roms", p, p \in Mapped)  OBVIOUS
    <2>6. browser = [NewBrowser EXCEPT !.stack = <<v, w>>]  BY <1>3, <2>3, <2>5 DEF Entered
    <2>7. browser.stack = <<v, w>> /\ browser.link = "ok" /\ ~browser.closed  BY <2>6 DEF NewBrowser
    <2>8. 1 \in OpenCursors(browser)
      <3>1. 1 \in DOMAIN browser.stack /\ browser.stack[1] = v  BY <2>7
      <3>2. QED  BY <2>4, <3>1 DEF OpenCursors
    <2>9. DOMAIN cursors = {1} /\ cursors[1] = e  BY <1>3, <2>1
    <2>10. CursorsOwned(browser, cursors)  BY <2>2, <2>8, <2>9 DEF CursorsOwned
    <2>11. QED  BY <1>1, <2>7, <2>10 DEF NoneIsLeft
  <1>4. QED  BY <1>2, <1>3 DEF BrowseInit

LEMMA OwnedStep ==
    ASSUME BrowseInv, NoneIsLeft, BrowseNext
    PROVE  NoneIsLeft'
  BY BeginsLeavesNone, NextsLeavesNone, EndsLeavesNone, EnqueuesLeavesNone, RestsLeavesNone, LostLeavesNone,
     MovesLeaveNone, ActivateLeavesNone, OpenQueueLeavesNone, BackLeavesNone, LeaveLeavesNone, VisitLeavesNone,
     TakesLeavesNone, RetryLeavesNone, ReapLeavesNone, AnswersLeaveNone
  DEF BrowseNext

\* An overlay that leaves while nothing was lost on the link leaves no cursor
\* behind in the service: each one it opened is on a level, or waits to be
\* ended, until the service has dropped it.
THEOREM NoCursorIsLeft == BrowseSpec => []LeavesNoCursor
  <1>1. BrowseInv /\ [BrowseNext]_browseVars => BrowseInv'  BY BrowseStep, BrowseRests
  <1>2. BrowseInv /\ NoneIsLeft /\ [BrowseNext]_browseVars => NoneIsLeft'
    <2>1. CASE UNCHANGED browseVars
      <3>1. browser' = browser /\ cursors' = cursors /\ cuts' = cuts  BY <2>1 DEF browseVars
      <3>2. QED  BY <3>1, StillLeavesNone
    <2>2. QED  BY <2>1, OwnedStep
  <1>3. NoneIsLeft => LeavesNoCursor  BY DEF NoneIsLeft, LeavesNoCursor
  <1>4. QED  BY <1>1, <1>2, <1>3, BrowseBegins, BeginsOwned, PTL DEF BrowseSpec

=============================================================================
