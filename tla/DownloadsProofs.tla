--------------------------- MODULE DownloadsProofs ---------------------------
(***************************************************************************)
(* The download queue keeps its promises for every set of roms, every      *)
(* length of the list and every number of presses, faults and edits: the   *)
(* list's own facts first, then one lemma for each step, the invariant the *)
(* steps preserve, and the board the list implements.                      *)
(***************************************************************************)
EXTENDS Downloads, SequenceTheorems, WellFoundedInduction, TLAPS

-----------------------------------------------------------------------------
(* Lists.                                                                   *)

(* A set of positions that is not empty has a first one.                    *)
LEMMA FirstOf ==
    ASSUME NEW S \in SUBSET Nat, S # {}
    PROVE  Min(S) \in S /\ \A y \in S : Min(S) <= y
<1>1. PICK x \in S : \A y \in S : ~ (<<y, x>> \in OpToRel(<, Nat))
  BY NatLessThanWellFounded, WFMin, Zenon
<1>2. ASSUME NEW y \in S PROVE x <= y
  <2>1. ~ (y < x)
    <3> SUFFICES ASSUME y < x PROVE <<y, x>> \in OpToRel(<, Nat)
      BY <1>1
    <3>1. <<y, x>> \in Nat \X Nat /\ <<y, x>>[1] = y /\ <<y, x>>[2] = x
      OBVIOUS
    <3> QED  BY <3>1, Zenon DEF OpToRel
  <2> QED  BY <2>1
<1> QED  BY <1>1, <1>2 DEF Min

(* A list of rows is a sequence of rows of a bounded length.                *)
LEMMA RowsAreSeqs ==
    \A q : q \in Rows <=> q \in Seq(Row) /\ Len(q) <= MaxQueueEntries
<1>1. ASSUME NEW q \in Rows PROVE q \in Seq(Row) /\ Len(q) <= MaxQueueEntries
  BY DownloadsAssumption DEF Rows
<1>2. ASSUME NEW q \in Seq(Row), Len(q) <= MaxQueueEntries PROVE q \in Rows
  <2>1. Len(q) \in 0 .. MaxQueueEntries /\ q \in [1 .. Len(q) -> Row]
    BY <1>2, DownloadsAssumption
  <2> QED  BY <2>1 DEF Rows
<1> QED  BY <1>1, <1>2

(* One list after the other.                                                *)
LEMMA Joined ==
    ASSUME NEW S, NEW a \in Seq(S), NEW b \in Seq(S)
    PROVE  /\ a \o b \in Seq(S) /\ Len(a \o b) = Len(a) + Len(b)
           /\ \A i \in 1 .. Len(a) + Len(b) : (a \o b)[i] = IF i <= Len(a) THEN a[i] ELSE b[i - Len(a)]
<1>1. a \o b \in Seq(S) /\ Len(a \o b) = Len(a) + Len(b)
  BY ConcatProperties
<1>2. \A i \in 1 .. Len(a) + Len(b) : (a \o b)[i] = IF i <= Len(a) THEN a[i] ELSE b[i - Len(a)]
  BY ConcatProperties
<1> QED  BY <1>1, <1>2

(* Taking a position out moves what is behind it up by one.                 *)
LEMMA RemovedAt ==
    ASSUME NEW S, NEW q \in Seq(S), NEW k \in DOMAIN q
    PROVE  /\ RemoveAt(q, k) \in Seq(S)
           /\ Len(RemoveAt(q, k)) = Len(q) - 1
           /\ \A i \in 1 .. Len(q) - 1 : RemoveAt(q, k)[i] = q[IF i < k THEN i ELSE i + 1]
<1>1. k \in 1 .. Len(q) /\ Len(q) \in Nat /\ \A i \in 1 .. Len(q) : q[i] \in S
  OBVIOUS
<1>2. PICK a : a = SubSeq(q, 1, k - 1)
  OBVIOUS
<1>3. PICK b : b = SubSeq(q, k + 1, Len(q))
  OBVIOUS
<1>4. a \in Seq(S) /\ Len(a) = k - 1 /\ \A i \in 1 .. k - 1 : a[i] = q[i]
  <2>1. \A i \in 1 .. k - 1 : q[i] \in S
    BY <1>1
  <2> QED  BY <1>1, <1>2, <2>1, SubSeqProperties
<1>5. b \in Seq(S) /\ Len(b) = Len(q) - k /\ \A i \in 1 .. Len(q) - k : b[i] = q[k + i]
  <2>1. \A i \in k + 1 .. Len(q) : q[i] \in S
    BY <1>1
  <2> QED  BY <1>1, <1>3, <2>1, SubSeqProperties
<1>6. RemoveAt(q, k) = a \o b
  BY <1>2, <1>3, Zenon DEF RemoveAt
<1>7. PICK p : p = a \o b
  OBVIOUS
<1>8. /\ p \in Seq(S) /\ Len(p) = Len(a) + Len(b)
      /\ \A i \in 1 .. Len(a) + Len(b) : p[i] = IF i <= Len(a) THEN a[i] ELSE b[i - Len(a)]
  BY <1>4, <1>5, <1>7, Joined
<1>9. Len(p) = Len(q) - 1
  BY <1>1, <1>4, <1>5, <1>8
<1>10. ASSUME NEW i \in 1 .. Len(q) - 1 PROVE p[i] = q[IF i < k THEN i ELSE i + 1]
  <2>1. CASE i < k
    <3>1. i \in 1 .. Len(a) + Len(b) /\ i <= Len(a) /\ i \in 1 .. k - 1
      BY <1>1, <1>4, <1>5, <2>1
    <3> QED  BY <1>4, <1>8, <2>1, <3>1
  <2>2. CASE i >= k
    <3>1. i \in 1 .. Len(a) + Len(b) /\ ~(i <= Len(a)) /\ i - Len(a) = i - (k - 1)
      BY <1>1, <1>4, <1>5, <2>2
    <3>2. p[i] = b[i - (k - 1)]
      BY <1>8, <3>1
    <3>3. i - (k - 1) \in 1 .. Len(q) - k /\ k + (i - (k - 1)) = i + 1
      BY <1>1, <2>2
    <3> QED  BY <1>5, <2>2, <3>2, <3>3
  <2> QED  BY <1>1, <2>1, <2>2
<1> QED  BY <1>6, <1>7, <1>8, <1>9, <1>10

-----------------------------------------------------------------------------
(* The list of rows.                                                        *)

ListOK(q) == q \in Rows /\ \A i, j \in DOMAIN q : q[i].rom = q[j].rom => i = j

(* The type invariant's way of saying it.                                   *)
LEMMA ListOKIsInjective ==
    ASSUME NEW q
    PROVE  ListOK(q) <=> q \in Rows /\ IsInjective([i \in DOMAIN q |-> q[i].rom])
BY DEF ListOK, IsInjective

(* What a list is made of.                                                  *)
LEMMA ListFacts ==
    ASSUME NEW q \in Rows
    PROVE  /\ q \in Seq(Row) /\ Len(q) \in 0 .. MaxQueueEntries /\ DOMAIN q = 1 .. Len(q)
           /\ \A i \in DOMAIN q : q[i] \in Row /\ i \in Nat /\ i # 0
<1>1. q \in Seq(Row) /\ Len(q) <= MaxQueueEntries
  BY RowsAreSeqs
<1>2. Len(q) \in Nat /\ DOMAIN q = 1 .. Len(q) /\ \A i \in 1 .. Len(q) : q[i] \in Row
  BY <1>1
<1> QED  BY <1>1, <1>2

(* FindLocked finds the one row of a rom.                                   *)
LEMMA FindIs ==
    ASSUME NEW q, ListOK(q), NEW i \in DOMAIN q
    PROVE  Find(q, q[i].rom) = i /\ Holds(q, q[i].rom)
<1>1. q \in Rows /\ i \in 1 .. Len(q) /\ i # 0 /\ i \in Nat /\ DOMAIN q = 1 .. Len(q)
  BY ListFacts DEF ListOK
<1>2. {j \in 1 .. Len(q) : q[j].rom = q[i].rom} = {i}
  BY <1>1 DEF ListOK
<1>3. Min({i}) = i
  BY <1>1 DEF Min
<1>4. Find(q, q[i].rom) = i
  BY <1>2, <1>3 DEF Find, SelectInSeq
<1> QED  BY <1>1, <1>4 DEF Holds

(* ... and nothing where there is none.                                     *)
LEMMA FindNone ==
    ASSUME NEW q \in Rows, NEW r, \A i \in DOMAIN q : q[i].rom # r
    PROVE  ~Holds(q, r)
<1>1. {j \in 1 .. Len(q) : q[j].rom = r} = {}
  BY ListFacts
<1> QED  BY <1>1 DEF Holds, Find, SelectInSeq

(* A rom the list holds has its row where FindLocked says.                  *)
LEMMA FindIn ==
    ASSUME NEW q, ListOK(q), NEW r, Holds(q, r)
    PROVE  Find(q, r) \in DOMAIN q /\ q[Find(q, r)].rom = r
<1>1. PICK i \in DOMAIN q : q[i].rom = r
  BY FindNone DEF ListOK
<1> QED  BY <1>1, FindIs

(* The oldest row that has ended is one that has.                           *)
LEMMA OldestEndedIn ==
    ASSUME NEW q \in Rows
    PROVE  \/ OldestEnded(q) = 0
           \/ OldestEnded(q) \in DOMAIN q /\ Terminal(q[OldestEnded(q)].state)
<1> DEFINE S == {j \in 1 .. Len(q) : Terminal(q[j].state)}
<1>1. OldestEnded(q) = IF S # {} THEN Min(S) ELSE 0
  BY DEF OldestEnded, SelectInSeq
<1>2. S \in SUBSET Nat /\ DOMAIN q = 1 .. Len(q)
  BY ListFacts
<1>3. S # {} => Min(S) \in S
  BY <1>2, FirstOf
<1> QED  BY <1>1, <1>2, <1>3

(* NextPending answers a row that has not ended, or none.                   *)
LEMMA NextPendingIn ==
    ASSUME NEW q \in Rows, NEW skip
    PROVE  \/ NextPending(q, skip) = 0
           \/ /\ NextPending(q, skip) \in DOMAIN q
              /\ ~Terminal(q[NextPending(q, skip)].state)
<1> DEFINE S == {j \in 1 .. Len(q) : ~Terminal(q[j].state) /\ q[j].rom \notin skip}
<1>1. NextPending(q, skip) = IF S # {} THEN Min(S) ELSE 0
  BY DEF NextPending, SelectInSeq
<1>2. S \in SUBSET Nat /\ DOMAIN q = 1 .. Len(q)
  BY ListFacts
<1>3. S # {} => Min(S) \in S
  BY <1>2, FirstOf
<1> QED  BY <1>1, <1>2, <1>3

(* A list without one of its rows.                                          *)
LEMMA RemovedMembers ==
    ASSUME NEW q, ListOK(q), NEW k \in DOMAIN q
    PROVE  /\ ListOK(RemoveAt(q, k)) /\ Len(RemoveAt(q, k)) = Len(q) - 1
           /\ ToSet(RemoveAt(q, k)) = ToSet(q) \ {q[k]}
<1>1. /\ q \in Seq(Row) /\ Len(q) \in 0 .. MaxQueueEntries /\ DOMAIN q = 1 .. Len(q)
      /\ \A i, j \in 1 .. Len(q) : q[i].rom = q[j].rom => i = j
  BY ListFacts DEF ListOK
<1>2. PICK p : p = RemoveAt(q, k)
  OBVIOUS
<1>3. /\ p \in Seq(Row) /\ Len(p) = Len(q) - 1
      /\ \A i \in 1 .. Len(q) - 1 : p[i] = q[IF i < k THEN i ELSE i + 1]
  BY <1>1, <1>2, RemovedAt
<1>4. p \in Rows /\ DOMAIN p = 1 .. Len(q) - 1
  BY <1>1, <1>3, RowsAreSeqs, DownloadsAssumption
<1>5. ASSUME NEW i \in 1 .. Len(q) - 1, NEW j \in 1 .. Len(q) - 1, p[i].rom = p[j].rom PROVE i = j
  BY <1>1, <1>3, <1>5
<1>6. ASSUME NEW i \in 1 .. Len(q) - 1 PROVE p[i] \in ToSet(q) \ {q[k]}
  <2>1. PICK j \in 1 .. Len(q) : j # k /\ p[i] = q[j]
    <3>1. (IF i < k THEN i ELSE i + 1) \in 1 .. Len(q) /\ (IF i < k THEN i ELSE i + 1) # k
      BY <1>1
    <3> QED  BY <1>3, <3>1
  <2>2. q[j] # q[k]
    BY <1>1, <2>1
  <2> QED  BY <1>1, <2>1, <2>2 DEF ToSet
<1>7. ASSUME NEW j \in 1 .. Len(q), q[j] # q[k] PROVE \E i \in 1 .. Len(q) - 1 : p[i] = q[j]
  <2>1. CASE j < k
    BY <1>1, <1>3, <2>1
  <2>2. CASE j > k
    <3>1. j - 1 \in 1 .. Len(q) - 1 /\ p[j - 1] = q[j]
      BY <1>1, <1>3, <2>2
    <3> QED  BY <3>1
  <2> QED  BY <1>1, <1>7, <2>1, <2>2
<1>8. ToSet(p) = ToSet(q) \ {q[k]}
  <2>1. ASSUME NEW m \in ToSet(p) PROVE m \in ToSet(q) \ {q[k]}
    BY <1>4, <1>6 DEF ToSet
  <2>2. ASSUME NEW m \in ToSet(q) \ {q[k]} PROVE m \in ToSet(p)
    BY <1>1, <1>4, <1>7 DEF ToSet
  <2> QED  BY <2>1, <2>2
<1> QED  BY <1>2, <1>3, <1>4, <1>5, <1>8 DEF ListOK

(* A list with a row of a rom it did not hold.                              *)
LEMMA AppendedMembers ==
    ASSUME NEW q, ListOK(q), Len(q) < MaxQueueEntries, NEW row \in Row,
           \A m \in ToSet(q) : m.rom # row.rom
    PROVE  ListOK(Append(q, row)) /\ ToSet(Append(q, row)) = ToSet(q) \cup {row}
<1>1. /\ q \in Seq(Row) /\ Len(q) \in 0 .. MaxQueueEntries /\ DOMAIN q = 1 .. Len(q)
      /\ \A i, j \in 1 .. Len(q) : q[i].rom = q[j].rom => i = j
  BY ListFacts DEF ListOK
<1>2. PICK p : p = Append(q, row)
  OBVIOUS
<1>3. /\ p \in Seq(Row) /\ Len(p) = Len(q) + 1
      /\ (\A i \in 1 .. Len(q) : p[i] = q[i]) /\ p[Len(q) + 1] = row
  BY <1>1, <1>2, AppendProperties
<1>4. p \in Rows /\ DOMAIN p = 1 .. Len(q) + 1
  BY <1>1, <1>3, RowsAreSeqs, DownloadsAssumption
<1>5. \A i \in 1 .. Len(q) : q[i].rom # row.rom
  BY <1>1 DEF ToSet
<1>6. ASSUME NEW i \in 1 .. Len(q) + 1, NEW j \in 1 .. Len(q) + 1, p[i].rom = p[j].rom PROVE i = j
  BY <1>1, <1>3, <1>5, <1>6
<1>7. ToSet(p) = ToSet(q) \cup {row}
  BY <1>1, <1>3, <1>4 DEF ToSet
<1> QED  BY <1>2, <1>4, <1>6, <1>7 DEF ListOK

(* A list with the row of a rom replaced.                                   *)
LEMMA ReplacedMembers ==
    ASSUME NEW q, ListOK(q), NEW k \in DOMAIN q, NEW row \in Row, row.rom = q[k].rom
    PROVE  /\ ListOK(ReplaceAt(q, k, row))
           /\ ToSet(ReplaceAt(q, k, row)) = (ToSet(q) \ {q[k]}) \cup {row}
<1>1. /\ q \in Seq(Row) /\ Len(q) \in 0 .. MaxQueueEntries /\ DOMAIN q = 1 .. Len(q)
      /\ \A i, j \in 1 .. Len(q) : q[i].rom = q[j].rom => i = j
  BY ListFacts DEF ListOK
<1>2. PICK p : p = [q EXCEPT ![k] = row]
  OBVIOUS
<1>3. /\ DOMAIN p = 1 .. Len(q) /\ p \in Seq(Row) /\ Len(p) = Len(q)
      /\ \A i \in 1 .. Len(q) : p[i] = IF i = k THEN row ELSE q[i]
  BY <1>1, <1>2
<1>4. p \in Rows
  BY <1>1, <1>3, RowsAreSeqs, DownloadsAssumption
<1>5. \A i, j \in 1 .. Len(q) : p[i].rom = p[j].rom => i = j
  BY <1>1, <1>3
<1>6. ToSet(p) = (ToSet(q) \ {q[k]}) \cup {row}
  BY <1>1, <1>3 DEF ToSet
<1> QED  BY <1>2, <1>3, <1>4, <1>5, <1>6 DEF ListOK, ReplaceAt

(* List p is q with a new row of r in the place of the rows gone: at most   *)
(* one, and one that has ended.                                             *)
MakesRoom(p, q, r, gone) ==
    /\ ListOK(p) /\ ToSet(p) = (ToSet(q) \ gone) \cup {NewRow(r)}
    /\ \A m, n \in gone : m = n
    /\ \A m \in gone : Terminal(m.state)
    /\ \A m \in ToSet(q) \ gone : m.rom # r

(* EnqueueLocked takes out at most one row, an ended one, and adds the new  *)
(* one.                                                                     *)
LEMMA EnqueuedMembers ==
    ASSUME NEW q, ListOK(q), NEW r \in Roms, CanEnqueue(q, r)
    PROVE  \E gone \in SUBSET ToSet(q) : MakesRoom(EnqueueLocked(q, r), q, r, gone)
<1>1. q \in Rows /\ NewRow(r) \in Row /\ NewRow(r).rom = r
  BY DEF ListOK, NewRow, Row, QueueState, Notes
<1>2. PICK gone : gone = IF Holds(q, r) THEN Find(q, r)
                        ELSE IF Len(q) >= MaxQueueEntries THEN OldestEnded(q) ELSE 0
  OBVIOUS
<1>3. EnqueueLocked(q, r) = Append(IF gone = 0 THEN q ELSE RemoveAt(q, gone), NewRow(r))
  BY <1>2 DEF EnqueueLocked
<1>4. \/ gone = 0 /\ Len(q) < MaxQueueEntries /\ ~Holds(q, r)
      \/ gone \in DOMAIN q /\ Terminal(q[gone].state) /\ (~Holds(q, r) \/ q[gone].rom = r)
  <2>1. CASE Holds(q, r)
    BY <1>2, <2>1, FindIn DEF CanEnqueue
  <2>2. CASE ~Holds(q, r) /\ Len(q) >= MaxQueueEntries
    <3>1. OldestEnded(q) # 0
      BY <1>1, <2>2, ListFacts, DownloadsAssumption DEF CanEnqueue
    <3> QED  BY <1>1, <1>2, <2>2, <3>1, OldestEndedIn
  <2>3. CASE ~Holds(q, r) /\ ~(Len(q) >= MaxQueueEntries)
    BY <1>1, <1>2, <2>3, ListFacts, DownloadsAssumption
  <2> QED  BY <2>1, <2>2, <2>3
<1>5. \A i \in DOMAIN q : ~Holds(q, r) => q[i].rom # r
  BY FindIs
<1>6. CASE gone = 0 /\ Len(q) < MaxQueueEntries /\ ~Holds(q, r)
  <2>1. \A m \in ToSet(q) : m.rom # r
    BY <1>5, <1>6 DEF ToSet
  <2>2. ListOK(Append(q, NewRow(r))) /\ ToSet(Append(q, NewRow(r))) = ToSet(q) \cup {NewRow(r)}
    BY <1>1, <1>6, <2>1, AppendedMembers
  <2>3. EnqueueLocked(q, r) = Append(q, NewRow(r))
    BY <1>3, <1>6
  <2> WITNESS {} \in SUBSET ToSet(q)
  <2> QED  BY <2>1, <2>2, <2>3 DEF MakesRoom
<1>7. CASE /\ gone \in DOMAIN q /\ Terminal(q[gone].state)
           /\ ~Holds(q, r) \/ q[gone].rom = r
  <2>1. PICK p : p = RemoveAt(q, gone)
    OBVIOUS
  <2>2. ListOK(p) /\ Len(p) = Len(q) - 1 /\ ToSet(p) = ToSet(q) \ {q[gone]}
    BY <1>7, <2>1, RemovedMembers
  <2>3. Len(p) < MaxQueueEntries /\ gone # 0
    BY <1>1, <1>7, <2>2, ListFacts, DownloadsAssumption
  <2>4. \A m \in ToSet(q) \ {q[gone]} : m.rom # r
    BY <1>5, <1>7, FindIs DEF ToSet, ListOK
  <2>5. ListOK(Append(p, NewRow(r))) /\ ToSet(Append(p, NewRow(r))) = ToSet(p) \cup {NewRow(r)}
    BY <1>1, <2>2, <2>3, <2>4, AppendedMembers
  <2>6. EnqueueLocked(q, r) = Append(p, NewRow(r))
    BY <1>3, <2>1, <2>3
  <2>7. {q[gone]} \in SUBSET ToSet(q)
    BY <1>7 DEF ToSet
  <2> WITNESS {q[gone]} \in SUBSET ToSet(q)
  <2> QED  BY <1>7, <2>2, <2>4, <2>5, <2>6 DEF MakesRoom
<1> QED  BY <1>4, <1>6, <1>7

(* A row taken out, and a row changed, by its rom.                          *)
LEMMA RemovedRow ==
    ASSUME NEW q, ListOK(q), NEW r, Holds(q, r)
    PROVE  \E old \in ToSet(q) :
              /\ old = q[Find(q, r)] /\ old.rom = r
              /\ ListOK(RemoveLocked(q, r)) /\ ToSet(RemoveLocked(q, r)) = ToSet(q) \ {old}
<1>1. Find(q, r) \in DOMAIN q /\ q[Find(q, r)].rom = r
  BY FindIn
<1>2. q[Find(q, r)] \in ToSet(q)
  BY <1>1 DEF ToSet
<1>3. ListOK(RemoveLocked(q, r)) /\ ToSet(RemoveLocked(q, r)) = ToSet(q) \ {q[Find(q, r)]}
  BY <1>1, RemovedMembers DEF RemoveLocked
<1> QED  BY <1>1, <1>2, <1>3

(* ... and with the row replaced where it stands.                           *)
LEMMA UpdatedRow ==
    ASSUME NEW q, ListOK(q), NEW row \in Row, Holds(q, row.rom)
    PROVE  \E old \in ToSet(q) :
              /\ old.rom = row.rom
              /\ ListOK(UpdateLocked(q, row))
              /\ ToSet(UpdateLocked(q, row)) = (ToSet(q) \ {old}) \cup {row}
<1>1. Find(q, row.rom) \in DOMAIN q /\ q[Find(q, row.rom)].rom = row.rom
  BY FindIn
<1>2. q[Find(q, row.rom)] \in ToSet(q)
  BY <1>1 DEF ToSet
<1>3. ListOK(UpdateLocked(q, row))
      /\ ToSet(UpdateLocked(q, row)) = (ToSet(q) \ {q[Find(q, row.rom)]}) \cup {row}
  BY <1>1, ReplacedMembers DEF UpdateLocked
<1> QED  BY <1>1, <1>2, <1>3

(* A rom is in a list once.                                                 *)
LEMMA OneRow ==
    ASSUME NEW q, ListOK(q), NEW m \in ToSet(q), NEW n \in ToSet(q), m.rom = n.rom
    PROVE  m = n
BY DEF ListOK, ToSet

(* Load's list has the same roms, and the same rows where they have ended.  *)
Again(row) == IF row.state \in {"active", "verifying"} THEN [row EXCEPT !.state = "queued"] ELSE row
LEMMA ReloadedMembers ==
    ASSUME NEW q, ListOK(q)
    PROVE  ListOK(Reloaded(q)) /\ ToSet(Reloaded(q)) = {Again(row) : row \in ToSet(q)}
<1>1. PICK p : p = Reloaded(q)
  OBVIOUS
<1>2. /\ q \in Seq(Row) /\ Len(q) \in 0 .. MaxQueueEntries /\ DOMAIN q = 1 .. Len(q)
      /\ \A i, j \in 1 .. Len(q) : q[i].rom = q[j].rom => i = j
  BY ListFacts DEF ListOK
<1>3. DOMAIN p = 1 .. Len(q) /\ \A i \in 1 .. Len(q) : p[i] = Again(q[i])
  BY <1>1, <1>2 DEF Reloaded, Again
<1>4. \A row \in Row : Again(row) \in Row /\ Again(row).rom = row.rom
  BY DEF Again, Row, QueueState
<1>5. \A i \in 1 .. Len(q) : q[i] \in Row
  BY <1>2
<1>6. p \in [1 .. Len(q) -> Row]
  BY <1>1, <1>2, <1>3, <1>4, <1>5 DEF Reloaded
<1>7. p \in Rows
  BY <1>2, <1>6 DEF Rows
<1>8. \A i, j \in DOMAIN p : p[i].rom = p[j].rom => i = j
  BY <1>2, <1>3, <1>4, <1>5
<1>9. ToSet(p) = {Again(row) : row \in ToSet(q)}
  BY <1>2, <1>3 DEF ToSet
<1> QED  BY <1>1, <1>7, <1>8, <1>9 DEF ListOK

-----------------------------------------------------------------------------
(* The owner and the world.                                                 *)

USE DownloadsAssumption
USE DEF vars, owner, around, Calm, Fault, Stored, WakeDownloads, Working, Fetching

(* The invariant's lists.                                                   *)
LEMMA ListsOf ==
    ASSUME IInv
    PROVE  /\ ListOK(queue) /\ ListOK(file)
           /\ \A row \in ToSet(queue) \cup ToSet(file) : row \in Row /\ row.rom \in Roms
<1>1. ListOK(queue) /\ ListOK(file)
  BY ListOKIsInjective DEF IInv, DownloadsTypeOK, ListsFit
<1>2. \A q \in {queue, file} : \A row \in ToSet(q) : row \in Row
  BY <1>1, ListFacts DEF ListOK, ToSet
<1> QED  BY <1>1, <1>2 DEF Row

(* Where neither a list nor the drain's place changes, the lists fit as     *)
(* long as no other rom's files do.                                         *)
LEMMA ListsKept ==
    ASSUME IInv, UNCHANGED <<queue, file, trusted>>, Working' => Working /\ Rom' = Rom,
           \A r \in Roms : card'[r] = card[r] \/ (Working /\ r = Rom)
    PROVE  ListsFit'
<1>1. \A row \in ToSet(queue) \cup ToSet(file) : row \in Row /\ row.rom \in Roms
  BY ListsOf
<1>2. ASSUME NEW row \in ToSet(queue) \cup ToSet(file), row.state = "done" PROVE OnTheCard(row)'
  <2>1. OnTheCard(row) /\ card'[row.rom] = card[row.rom]
    BY <1>1, <1>2 DEF IInv, ListsFit, Terminal
  <2> QED  BY <2>1 DEF OnTheCard
<1> QED  BY <1>2 DEF IInv, ListsFit

(* Once the list in memory is what the card holds, it fits if its rows do.  *)
LEMMA ListsStored ==
    ASSUME trusted', NEW q, ListOK(q), queue' = q, file' = q,
           \A row \in ToSet(q) : /\ row.state = "done" => OnTheCard(row)'
                                 /\ Working' /\ row.rom = Rom' => ~Terminal(row.state)
    PROVE  ListsFit' /\ queue' \in Rows /\ file' \in Rows
           /\ IsInjective([i \in DOMAIN queue' |-> queue'[i].rom])
<1>1. q \in Rows /\ IsInjective([i \in DOMAIN q |-> q[i].rom])
  BY ListOKIsInjective
<1> QED  BY <1>1 DEF ListsFit

(* A press that is stored is a row more, and one that is refused none.      *)
LEMMA EnqueueInv == ASSUME NEW r \in Roms, IInv, Enqueue(r) PROVE IInv'
<1> USE DEF Enqueue
<1>1. CASE UNCHANGED <<queue, file>>
  <2>1. DownloadsTypeOK'
    <3>1. cancel' \in BOOLEAN /\ owes' \in BOOLEAN /\ backoff' \in BOOLEAN /\ woken' \in BOOLEAN
          /\ trusted' \in BOOLEAN
      BY Zenon DEF IInv, DownloadsTypeOK
    <3> QED  BY <1>1, <3>1 DEF IInv, DownloadsTypeOK
  <2>2. ListsFit'
    BY <1>1, ListsKept DEF Rom
  <2> QED  BY <2>1, <2>2 DEF IInv, DrainFits, FilesFit, OnTheCard, Here, Rom
<1>2. CASE Stored(EnqueueLocked(queue, r))
  <2>1. PICK q : /\ q = EnqueueLocked(queue, r) /\ ListOK(q)
                 /\ ToSet(q) \subseteq ToSet(queue) \cup {NewRow(r)}
    <3>1. ListOK(queue) /\ CanEnqueue(queue, r)
      BY ListsOf
    <3>2. PICK gone \in SUBSET ToSet(queue) : MakesRoom(EnqueueLocked(queue, r), queue, r, gone)
      BY <3>1, EnqueuedMembers
    <3> QED  BY <3>2 DEF MakesRoom
  <2>2. ASSUME NEW row \in ToSet(q)
        PROVE  /\ row.state = "done" => OnTheCard(row)'
               /\ Working' /\ row.rom = Rom' => ~Terminal(row.state)
    <3>1. CASE row = NewRow(r)
      BY <3>1 DEF NewRow, Terminal
    <3>2. CASE row \in ToSet(queue)
      BY <3>2 DEF IInv, ListsFit, OnTheCard, Rom
    <3> QED  BY <2>1, <3>1, <3>2
  <2>3. ListsFit' /\ queue' \in Rows /\ file' \in Rows
        /\ IsInjective([i \in DOMAIN queue' |-> queue'[i].rom])
    BY <1>2, <2>1, <2>2, ListsStored
  <2>4. DownloadsTypeOK'
    <3>1. cancel' \in BOOLEAN /\ owes' \in BOOLEAN /\ backoff' \in BOOLEAN /\ woken' \in BOOLEAN
          /\ trusted' \in BOOLEAN
      BY Zenon DEF IInv, DownloadsTypeOK
    <3> QED  BY <2>3, <3>1 DEF IInv, DownloadsTypeOK
  <2> QED  BY <2>3, <2>4 DEF IInv, DrainFits, FilesFit, OnTheCard, Here, Rom
<1> QED  BY <1>1, <1>2

(* A row taken out is one less, whatever the drain is on.                   *)
LEMMA DequeueInv == ASSUME NEW r \in Roms, IInv, Dequeue(r) PROVE IInv'
<1> USE DEF Dequeue
<1>1. CASE UNCHANGED <<queue, file>>
  <2>1. DownloadsTypeOK'
    <3>1. cancel' \in BOOLEAN /\ owes' \in BOOLEAN /\ backoff' \in BOOLEAN /\ woken' \in BOOLEAN
          /\ trusted' \in BOOLEAN
      BY Zenon DEF IInv, DownloadsTypeOK
    <3> QED  BY <1>1, <3>1 DEF IInv, DownloadsTypeOK
  <2>2. ListsFit'
    BY <1>1, ListsKept DEF Rom
  <2> QED  BY <2>1, <2>2 DEF IInv, DrainFits, FilesFit, OnTheCard, Here, Rom
<1>2. CASE Stored(RemoveLocked(queue, r))
  <2>1. PICK q : q = RemoveLocked(queue, r) /\ ListOK(q) /\ ToSet(q) \subseteq ToSet(queue)
    BY RemovedRow, ListsOf
  <2>2. \A row \in ToSet(q) : /\ row.state = "done" => OnTheCard(row)'
                              /\ Working' /\ row.rom = Rom' => ~Terminal(row.state)
    BY <2>1 DEF IInv, ListsFit, OnTheCard, Rom
  <2>3. ListsFit' /\ queue' \in Rows /\ file' \in Rows
        /\ IsInjective([i \in DOMAIN queue' |-> queue'[i].rom])
    BY <1>2, <2>1, <2>2, ListsStored
  <2>4. DownloadsTypeOK'
    <3>1. cancel' \in BOOLEAN /\ owes' \in BOOLEAN /\ backoff' \in BOOLEAN /\ woken' \in BOOLEAN
          /\ trusted' \in BOOLEAN
      BY Zenon DEF IInv, DownloadsTypeOK
    <3> QED  BY <2>3, <3>1 DEF IInv, DownloadsTypeOK
  <2> QED  BY <2>3, <2>4 DEF IInv, DrainFits, FilesFit, OnTheCard, Here, Rom
<1> QED  BY <1>1, <1>2

(* The token fires for whatever drain there is.                             *)
LEMMA DequeueCancelsInv == ASSUME IInv, DequeueCancels PROVE IInv'
<1> USE DEF DequeueCancels
<1>1. DownloadsTypeOK'
  <2>1. cancel' \in BOOLEAN /\ owes' \in BOOLEAN /\ backoff' \in BOOLEAN /\ woken' \in BOOLEAN
        /\ trusted' \in BOOLEAN
    BY Zenon DEF IInv, DownloadsTypeOK
  <2> QED  BY <2>1 DEF IInv, DownloadsTypeOK
<1>2. ListsFit'
  BY ListsKept DEF Rom
<1> QED  BY <1>1, <1>2 DEF IInv, DrainFits, FilesFit, OnTheCard, Here, Rom

(* A new file of the library is nothing on the card.                        *)
LEMMA ReplacedInv == ASSUME NEW r \in Roms, IInv, Replaced(r) PROVE IInv'
<1> USE DEF Replaced
<1>1. DownloadsTypeOK'
  <2>1. cancel' \in BOOLEAN /\ owes' \in BOOLEAN /\ backoff' \in BOOLEAN /\ woken' \in BOOLEAN
        /\ trusted' \in BOOLEAN
    BY Zenon DEF IInv, DownloadsTypeOK
  <2>2. library' \in [Roms -> RomDetail] /\ edits' \in 0 .. MaxEdits
    BY DEF IInv, DownloadsTypeOK, RomDetail
  <2> QED  BY <2>1, <2>2 DEF IInv, DownloadsTypeOK
<1>2. ListsFit'
  BY ListsKept DEF Rom
<1> QED  BY <1>1, <1>2 DEF IInv, DrainFits, FilesFit, OnTheCard, Here, Rom

(* The list of a boot that could not read one.                              *)
LEMMA EmptyList == ListOK(<<>>) /\ ToSet(<<>>) = {}
<1>1. <<>> \in Seq(Row) /\ Len(<<>>) = 0 /\ DOMAIN <<>> = {}
  OBVIOUS
<1>2. <<>> \in Rows
  <2>1. Len(<<>>) <= MaxQueueEntries
    BY <1>1
  <2> QED  BY <1>1, <2>1, RowsAreSeqs, Zenon
<1> QED  BY <1>1, <1>2 DEF ListOK, ToSet

(* The next boot's list says done of the rows the last one's did.           *)
LEMMA PowerCutInv == ASSUME IInv, PowerCut PROVE IInv'
<1> USE DEF PowerCut, LoadQueue
<1>1. PICK q : q = Reloaded(file) /\ ListOK(q) /\ ToSet(q) = {Again(row) : row \in ToSet(file)}
  BY ListsOf, ReloadedMembers
<1>2. q \in Rows /\ IsInjective([i \in DOMAIN q |-> q[i].rom])
  BY <1>1, ListOKIsInjective
<1>3. <<>> \in Rows /\ IsInjective([i \in DOMAIN <<>> |-> <<>>[i].rom]) /\ ToSet(<<>>) = {}
  BY EmptyList, ListOKIsInjective DEF ListOK
<1>4. /\ trusted' \in BOOLEAN /\ queue' = IF trusted' THEN q ELSE <<>>
      /\ UNCHANGED <<file, card>> /\ drain' = NoDrain
  BY <1>1
<1>5. DownloadsTypeOK'
  <2>1. cancel' \in BOOLEAN /\ owes' \in BOOLEAN /\ backoff' \in BOOLEAN /\ woken' \in BOOLEAN
    BY Zenon
  <2>2. NoDrain \in Drainer
    BY DEF NoDrain, Drainer, DrainStep, DrainOutcome
  <2>3. queue' \in Rows /\ IsInjective([i \in DOMAIN queue' |-> queue'[i].rom])
    BY <1>2, <1>3, <1>4
  <2> QED  BY <1>4, <2>1, <2>2, <2>3 DEF IInv, DownloadsTypeOK
<1>6. ~Working' /\ drain'.pc = "off"
  BY <1>4 DEF NoDrain
<1>7. ListsFit'
  <2>1. ASSUME NEW row \in ToSet(queue') \cup ToSet(file'), row.state = "done" PROVE OnTheCard(row)'
    <3>1. CASE row \in ToSet(file)
      BY <1>4, <2>1, <3>1 DEF IInv, ListsFit, OnTheCard
    <3>2. CASE row \in ToSet(q)
      <4>1. PICK m \in ToSet(file) : row = Again(m)
        BY <1>1, <3>2
      <4>2. row = m
        BY <2>1, <4>1, ListsOf DEF Again, Row
      <4> QED  BY <3>1, <4>2
    <3> QED  BY <1>3, <1>4, <2>1, <3>1, <3>2
  <2>2. IsInjective([i \in DOMAIN file' |-> file'[i].rom])
    BY <1>4 DEF IInv, ListsFit
  <2>3. IF trusted' THEN queue' \in {file', Reloaded(file')} ELSE queue' = <<>>
    BY <1>1, <1>4
  <2> QED  BY <1>6, <2>1, <2>2, <2>3 DEF ListsFit
<1> QED  BY <1>4, <1>5, <1>6, <1>7 DEF IInv, DrainFits, FilesFit

(* The backoff is the worker's own affair.                                  *)
LEMMA BackoffEndsInv == ASSUME IInv, BackoffEnds PROVE IInv'
<1> USE DEF BackoffEnds
<1>1. DownloadsTypeOK'
  <2>1. cancel' \in BOOLEAN /\ owes' \in BOOLEAN /\ backoff' \in BOOLEAN /\ woken' \in BOOLEAN
        /\ trusted' \in BOOLEAN
    BY Zenon DEF IInv, DownloadsTypeOK
  <2> QED  BY <2>1 DEF IInv, DownloadsTypeOK
<1>2. ListsFit'
  BY ListsKept DEF Rom
<1> QED  BY <1>1, <1>2 DEF IInv, DrainFits, FilesFit, OnTheCard, Here, Rom

-----------------------------------------------------------------------------
(* The drain.                                                               *)

(* A drain begins where there are rows to do, and so a list that was read.  *)
LEMMA RunOneDrainInv == ASSUME IInv, RunOneDrain PROVE IInv'
<1> USE DEF RunOneDrain
<1>1. trusted
  BY DEF IInv, ListsFit, Pending
<1>2. PICK set \in Settings : drain' = [NoDrain EXCEPT !.pc = "pick", !.set = set]
  OBVIOUS
<1>3. drain' \in Drainer /\ drain'.pc = "pick" /\ drain'.set \in Settings
  BY <1>2 DEF NoDrain, Drainer, DrainStep, DrainOutcome
<1>4. DownloadsTypeOK'
  <2>1. cancel' \in BOOLEAN /\ owes' \in BOOLEAN /\ backoff' \in BOOLEAN /\ woken' \in BOOLEAN
        /\ trusted' \in BOOLEAN
    BY Zenon DEF IInv, DownloadsTypeOK
  <2> QED  BY <1>3, <2>1 DEF IInv, DownloadsTypeOK
<1>5. ListsFit'
  BY <1>3, ListsKept
<1> QED  BY <1>1, <1>3, <1>4, <1>5 DEF IInv, DrainFits, FilesFit

(* A row that was put in the drain's hands has not ended.                   *)
LEMMA PickInv == ASSUME IInv, Pick PROVE IInv'
<1> USE DEF Pick
<1>1. trusted /\ drain \in Drainer /\ drain.pc = "pick" /\ drain.set \in Settings
  BY DEF IInv, DrainFits, DownloadsTypeOK
<1>2. PICK next : next = NextPending(queue, drain.deferred)
  OBVIOUS
<1>3. \/ drain' = NoDrain
      \/ /\ next # 0 /\ UNCHANGED <<cancel, backoff, woken>>
         /\ drain' = [drain EXCEPT !.pc = "detail", !.entry = queue[next], !.spent = 0]
  BY <1>2 DEF Ends
<1>4. cancel' \in BOOLEAN /\ owes' \in BOOLEAN /\ backoff' \in BOOLEAN /\ woken' \in BOOLEAN
      /\ trusted' \in BOOLEAN
  BY Zenon DEF IInv, DownloadsTypeOK, Ends
<1>5. CASE drain' = NoDrain
  <2>1. drain' \in Drainer /\ drain'.pc = "off"
    BY <1>5 DEF NoDrain, Drainer, DrainStep, DrainOutcome
  <2>2. ListsFit'
    BY <2>1, ListsKept
  <2>3. DownloadsTypeOK'
    BY <1>4, <2>1 DEF IInv, DownloadsTypeOK
  <2> QED  BY <2>1, <2>2, <2>3 DEF IInv, DrainFits, FilesFit
<1>6. CASE /\ next # 0
           /\ drain' = [drain EXCEPT !.pc = "detail", !.entry = queue[next], !.spent = 0]
  <2>1. queue \in Rows /\ ListOK(queue)
    BY ListsOf DEF ListOK
  <2>2. next \in DOMAIN queue /\ ~Terminal(queue[next].state)
    BY <1>2, <1>6, <2>1, NextPendingIn
  <2>3. PICK row : row = queue[next] /\ row \in Row /\ row \in ToSet(queue)
    BY <2>1, <2>2, ListFacts DEF ToSet
  <2>4. /\ drain' \in Drainer /\ drain'.pc = "detail" /\ drain'.set = drain.set
        /\ drain'.entry = row
    BY <1>1, <1>6, <2>3 DEF Drainer, DrainStep
  <2>5. DownloadsTypeOK'
    BY <1>4, <2>4 DEF IInv, DownloadsTypeOK
  <2>6. ASSUME NEW m \in ToSet(queue) \cup ToSet(file), m.rom = row.rom PROVE ~Terminal(m.state)
    <3>1. CASE m \in ToSet(queue)
      BY <2>1, <2>2, <2>3, <2>6, <3>1, OneRow
    <3>2. CASE m \in ToSet(file) /\ queue = file
      BY <3>1, <3>2
    <3>3. CASE m \in ToSet(file) /\ queue = Reloaded(file)
      <4>1. Again(m) \in ToSet(queue) /\ m \in Row
        BY <3>3, ReloadedMembers, ListsOf
      <4>2. Again(m).rom = row.rom
        BY <2>6, <4>1 DEF Again, Row
      <4>3. Again(m) = row
        BY <2>1, <2>3, <4>1, <4>2, OneRow
      <4> QED  BY <2>2, <2>3, <4>1, <4>3 DEF Again, Row, Terminal
    <3> QED  BY <1>1, <2>6, <3>1, <3>2, <3>3 DEF IInv, ListsFit
  <2>7. ListsFit'
    BY <1>1, <2>4, <2>6 DEF IInv, ListsFit, OnTheCard, Rom
  <2> QED  BY <1>1, <2>3, <2>4, <2>5, <2>7 DEF IInv, DrainFits, FilesFit
<1> QED  BY <1>3, <1>5, <1>6

(* What the drain holds while it works on a rom.                            *)
LEMMA WorkingOn ==
    ASSUME IInv, Working
    PROVE  /\ trusted /\ drain \in Drainer /\ drain.set \in Settings
           /\ drain.entry \in Row /\ Rom \in Roms
           /\ card \in [Roms -> OnCard] /\ library \in [Roms -> RomDetail]
BY DEF IInv, DrainFits, DownloadsTypeOK, Rom, Row

(* Settles and Requeues say what becomes of the row, and of nothing else.   *)
LEMMA SettlesTo ==
    ASSUME IInv, Working, NEW state \in QueueState, NEW note \in Notes, Settles(state, note)
    PROVE  /\ drain' \in Drainer /\ drain'.pc = "settle" /\ drain'.set = drain.set
           /\ drain'.entry \in Row /\ Rom' = Rom /\ drain'.entry.sha = drain.entry.sha
           /\ drain'.entry.state = state /\ drain'.entry.note = note
<1>1. PICK e : e = [drain.entry EXCEPT !.state = state, !.note = note]
  OBVIOUS
<1>2. e \in Row /\ e.rom = Rom /\ e.sha = drain.entry.sha /\ e.state = state /\ e.note = note
  BY <1>1, WorkingOn DEF Row, Rom
<1>3. drain' = [drain EXCEPT !.pc = "settle", !.entry = e]
  BY <1>1, WorkingOn DEF Settles, Drainer, Row
<1> QED  BY <1>2, <1>3, WorkingOn DEF Drainer, DrainStep, Rom

(* ... and a row put back waits again.                                      *)
LEMMA RequeuesTo ==
    ASSUME IInv, Working, NEW outcome \in DrainOutcome, Requeues(outcome)
    PROVE  /\ drain' \in Drainer /\ drain'.pc = "requeue" /\ drain'.set = drain.set
           /\ drain'.entry \in Row /\ Rom' = Rom /\ drain'.entry.state = "queued"
<1>1. PICK e : e = [drain.entry EXCEPT !.state = "queued", !.note = None]
  OBVIOUS
<1>2. e \in Row /\ e.rom = Rom /\ e.state = "queued"
  BY <1>1, WorkingOn DEF Row, Rom, QueueState, Notes
<1>3. drain' = [drain EXCEPT !.pc = "requeue", !.entry = e, !.outcome = outcome]
  BY <1>1, WorkingOn DEF Requeues, Drainer, Row
<1> QED  BY <1>2, <1>3, WorkingOn DEF Drainer, DrainStep, Rom

(* A step of the drain that leaves the lists alone touches its rom's files  *)
(* only.                                                                    *)
LEMMA WorkInv ==
    ASSUME IInv, Working, UNCHANGED <<queue, file, cancel, backoff, woken, around>>,
           Calm \/ Fault, drain' \in Drainer, Working' => Rom' = Rom,
           card' = card \/ \E files \in OnCard : card' = [card EXCEPT ![Rom] = files],
           DrainFits', FilesFit'
    PROVE  IInv'
<1>1. \A r \in Roms : card'[r] = card[r] \/ (Working /\ r = Rom)
  BY WorkingOn
<1>2. ListsFit'
  BY <1>1, ListsKept
<1>3. card' \in [Roms -> OnCard]
  BY WorkingOn
<1>4. DownloadsTypeOK'
  <2>1. cancel' \in BOOLEAN /\ owes' \in BOOLEAN /\ backoff' \in BOOLEAN /\ woken' \in BOOLEAN
        /\ trusted' \in BOOLEAN
    BY Zenon DEF IInv, DownloadsTypeOK
  <2> QED  BY <1>3, <2>1 DEF IInv, DownloadsTypeOK
<1> QED  BY <1>2, <1>4 DEF IInv

(* What FilesFit needs of a step that changes one rom's files.              *)
LEMMA FilesOfRom ==
    ASSUME IInv, Working, NEW files \in OnCard, card' = [card EXCEPT ![Rom] = files],
           files.staged = None \/ files.part = None
    PROVE  /\ card'[Rom] = files
           /\ \A r \in Roms : card'[r].staged = None \/ card'[r].part = None
BY WorkingOn DEF IInv, FilesFit

(* The detail is read whole, tried again, or sets the rom aside.            *)
LEMMA FetchDetailInv == ASSUME IInv, FetchDetail PROVE IInv'
<1>1. Working /\ drain.pc = "detail" /\ (Calm \/ Fault)
      /\ UNCHANGED <<queue, file, card, cancel, backoff, woken, around>>
  BY DEF FetchDetail
<1>2. \A r \in Roms : card'[r].staged = None \/ card'[r].part = None
  BY <1>1 DEF IInv, FilesFit
<1>3. CASE drain' = [drain EXCEPT !.pc = "place", !.detail = library[Rom], !.spent = Spent]
  <2>1. /\ drain' \in Drainer /\ drain'.pc = "place" /\ drain'.set = drain.set
        /\ drain'.entry = drain.entry /\ drain'.detail \in RomDetail
    <3>1. library[Rom] \in RomDetail /\ Spent \in Nat
      BY <1>1, WorkingOn DEF Drainer, Spent
    <3> QED  BY <1>1, <1>3, <3>1, WorkingOn DEF Drainer, DrainStep
  <2>2. DrainFits' /\ FilesFit' /\ Rom' = Rom
    BY <1>1, <1>2, <2>1, WorkingOn DEF DrainFits, FilesFit, Rom
  <2> QED  BY <1>1, <2>1, <2>2, WorkInv
<1>4. ASSUME NEW outcome \in DrainOutcome, Requeues(outcome) PROVE IInv'
  <2>1. /\ drain' \in Drainer /\ drain'.pc = "requeue" /\ drain'.set = drain.set
        /\ drain'.entry \in Row /\ Rom' = Rom /\ drain'.entry.state = "queued"
    BY <1>1, <1>4, RequeuesTo
  <2>2. DrainFits' /\ FilesFit'
    BY <1>1, <1>2, <2>1, WorkingOn DEF DrainFits, FilesFit
  <2> QED  BY <1>1, <2>1, <2>2, WorkInv
<1>5. CASE Settles("failed", None)
  <2>1. /\ drain' \in Drainer /\ drain'.pc = "settle" /\ drain'.set = drain.set
        /\ drain'.entry \in Row /\ Rom' = Rom /\ drain'.entry.state = "failed"
    BY <1>1, <1>5, SettlesTo DEF QueueState, Notes
  <2>2. DrainFits' /\ FilesFit'
    BY <1>1, <1>2, <2>1, WorkingOn DEF DrainFits, FilesFit, Terminal
  <2> QED  BY <1>1, <2>1, <2>2, WorkInv
<1>6. CASE drain' = [drain EXCEPT !.spent = Spent]
  <2>1. /\ drain' \in Drainer /\ drain'.pc = "detail" /\ drain'.set = drain.set
        /\ drain'.entry = drain.entry
    BY <1>1, <1>6, WorkingOn DEF Drainer, DrainStep, Spent
  <2>2. DrainFits' /\ FilesFit' /\ Rom' = Rom
    BY <1>1, <1>2, <2>1, WorkingOn DEF DrainFits, FilesFit, Rom
  <2> QED  BY <1>1, <2>1, <2>2, WorkInv
<1> QED  BY <1>3, <1>4, <1>5, <1>6 DEF OutcomeFor, DrainOutcome, FetchDetail

(* What is refused, what the card has already, what does not fit, and what  *)
(* is to be fetched or checked.                                             *)
LEMMA PlaceInv == ASSUME IInv, Place PROVE IInv'
<1> USE DEF Leaves
<1>1. Working /\ drain.pc = "place" /\ (Calm \/ Fault)
      /\ UNCHANGED <<queue, file, cancel, backoff, woken, around>>
  BY DEF Place, NoRoomOnTheCard
<1>2. Here \in OnCard /\ (Here.staged = None \/ Here.part = None)
  BY <1>1, WorkingOn DEF IInv, FilesFit, Here
<1>3. drain.detail \in RomDetail /\ drain.detail.ver \in Versions /\ drain.detail.ver # None
  BY <1>1 DEF IInv, DrainFits, RomDetail, Versions
<1>4. PICK clear : clear = [Here EXCEPT !.staged = None, !.part = None]
  OBVIOUS
<1>5. PICK bare : bare = [Here EXCEPT !.staged = None]
  OBVIOUS
<1>6. /\ clear \in OnCard /\ clear.staged = None /\ clear.part = None /\ clear.dest = Here.dest
      /\ bare \in OnCard /\ bare.staged = None
  BY <1>2, <1>4, <1>5 DEF OnCard
<1>7. CASE Settles(IF drain.detail.kind = "set" THEN "skipped" ELSE "failed", None) /\ UNCHANGED card
  <2>1. PICK state \in {"skipped", "failed"} : Settles(state, None)
    BY <1>7
  <2>2. /\ drain' \in Drainer /\ drain'.pc = "settle" /\ drain'.set = drain.set
        /\ drain'.entry \in Row /\ Rom' = Rom /\ drain'.entry.state = state
    BY <1>1, <2>1, SettlesTo DEF QueueState, Notes
  <2>3. DrainFits' /\ FilesFit'
    BY <1>1, <1>7, <2>2, WorkingOn DEF IInv, DrainFits, FilesFit, Terminal
  <2> QED  BY <1>1, <1>7, <2>2, <2>3, WorkInv
<1>8. ASSUME NEW state \in {"done", "failed"}, NEW note \in Notes,
             drain' = [drain EXCEPT !.pc = "settle", !.entry.sha = drain.detail.ver,
                                    !.entry.state = state, !.entry.note = note],
             state = "done" => Here.dest = drain.detail.ver,
             card' = [card EXCEPT ![Rom] = clear]
      PROVE  IInv'
  <2>1. PICK e : e = [drain.entry EXCEPT !.sha = drain.detail.ver, !.state = state, !.note = note]
    OBVIOUS
  <2>2. e \in Row /\ e.rom = Rom /\ e.sha = drain.detail.ver /\ e.state = state
    BY <1>1, <1>3, <2>1, WorkingOn DEF Row, Rom, QueueState
  <2>3. drain' = [drain EXCEPT !.pc = "settle", !.entry = e]
    BY <1>1, <1>8, <2>1, WorkingOn DEF Drainer, Row
  <2>4. drain' \in Drainer /\ drain'.pc = "settle" /\ drain'.set = drain.set /\ drain'.entry = e
    BY <1>1, <2>2, <2>3, WorkingOn DEF Drainer, DrainStep
  <2>5. /\ card'[Rom] = clear
        /\ \A r \in Roms : card'[r].staged = None \/ card'[r].part = None
    BY <1>1, <1>6, <1>8, FilesOfRom
  <2>6. state = "done" => OnTheCard(e)'
    BY <1>3, <1>6, <1>8, <2>2, <2>5 DEF OnTheCard
  <2>7. DrainFits' /\ FilesFit'
    BY <1>1, <1>8, <2>2, <2>4, <2>5, <2>6, WorkingOn DEF DrainFits, FilesFit, Terminal, OnTheCard
  <2> QED  BY <1>1, <1>6, <1>8, <2>2, <2>4, <2>7, WorkInv DEF Rom
<1>9. ASSUME NEW pc \in {"verify", "begin"}, NEW inherited \in {"no", "body", "salvage"},
             drain' = [drain EXCEPT !.pc = pc, !.entry.sha = drain.detail.ver,
                                    !.inherited = inherited],
             \/ pc = "verify" /\ Here.staged # None /\ UNCHANGED card
             \/ pc = "begin" /\ card' = [card EXCEPT ![Rom] = bare]
      PROVE  IInv'
  <2>1. PICK e : e = [drain.entry EXCEPT !.sha = drain.detail.ver]
    OBVIOUS
  <2>2. e \in Row /\ e.rom = Rom /\ e.sha = drain.detail.ver
    BY <1>1, <1>3, <2>1, WorkingOn DEF Row, Rom
  <2>3. drain' = [drain EXCEPT !.pc = pc, !.entry = e, !.inherited = inherited]
    BY <1>1, <1>9, <2>1, WorkingOn DEF Drainer, Row
  <2>4. /\ drain' \in Drainer /\ drain'.pc = pc /\ drain'.set = drain.set /\ drain'.entry = e
        /\ drain'.detail = drain.detail
    BY <1>1, <2>2, <2>3, WorkingOn DEF Drainer, DrainStep
  <2>5. /\ \A r \in Roms : card'[r].staged = None \/ card'[r].part = None
        /\ pc = "begin" => card'[Rom].staged = None
        /\ pc = "verify" => card'[Rom].staged # None
    BY <1>1, <1>6, <1>9, FilesOfRom DEF IInv, FilesFit, Here
  <2>6. DrainFits' /\ FilesFit'
    BY <1>1, <1>3, <2>2, <2>4, <2>5, WorkingOn DEF DrainFits, FilesFit, Here, Rom
  <2> QED  BY <1>1, <1>6, <1>9, <2>2, <2>4, <2>6, WorkInv DEF Rom
<1>10. CASE ~NotFetched /\ AlreadyOnTheCard /\ Leaves(clear) /\ drain' =
            [drain EXCEPT !.pc = "settle", !.entry.sha = drain.detail.ver,
                          !.entry.state = "done", !.entry.note = "already"]
  BY <1>8, <1>10 DEF AlreadyOnTheCard, Notes
<1>11. CASE NoRoomOnTheCard
  BY <1>4, <1>8, <1>11 DEF NoRoomOnTheCard, Notes
<1>12. CASE Salvages /\ UNCHANGED card /\ drain' =
            [drain EXCEPT !.pc = "verify", !.entry.sha = drain.detail.ver, !.inherited = "salvage"]
  BY <1>9, <1>12 DEF Salvages
<1>13. CASE Leaves(bare) /\ drain' = [drain EXCEPT !.pc = "begin", !.entry.sha = drain.detail.ver]
  <2>1. drain' = [drain EXCEPT !.pc = "begin", !.entry.sha = drain.detail.ver,
                               !.inherited = drain.inherited]
        /\ drain.inherited \in {"no", "body", "salvage"}
    BY <1>1, <1>13, WorkingOn DEF Drainer
  <2> QED  BY <1>9, <1>13, <2>1
<1> QED  BY <1>4, <1>5, <1>7, <1>10, <1>11, <1>12, <1>13 DEF Place

(* The rom is given up, put off or asked for again, with nothing staged.    *)
LEMMA UnstagedInv ==
    ASSUME IInv, drain.pc \in {"body", "check"}, Calm \/ Fault,
           UNCHANGED <<queue, file, cancel, backoff, woken, around>>,
           NEW files \in OnCard, files.staged = None, card' = [card EXCEPT ![Rom] = files],
           \/ Settles("failed", None)
           \/ \E outcome \in DrainOutcome : Requeues(outcome)
           \/ \E spent \in Nat : drain' = [drain EXCEPT !.pc = "begin", !.spent = spent]
    PROVE  IInv'
<1>1. Working
  OBVIOUS
<1>2. /\ card'[Rom] = files
      /\ \A r \in Roms : card'[r].staged = None \/ card'[r].part = None
  BY <1>1, FilesOfRom
<1>3. CASE Settles("failed", None)
  <2>1. /\ drain' \in Drainer /\ drain'.pc = "settle" /\ drain'.set = drain.set
        /\ drain'.entry \in Row /\ Rom' = Rom /\ drain'.entry.state = "failed"
    BY <1>1, <1>3, SettlesTo DEF QueueState, Notes
  <2>2. DrainFits' /\ FilesFit'
    BY <1>1, <1>2, <2>1, WorkingOn DEF DrainFits, FilesFit, Terminal
  <2> QED  BY <1>1, <2>1, <2>2, WorkInv
<1>4. ASSUME NEW outcome \in DrainOutcome, Requeues(outcome) PROVE IInv'
  <2>1. /\ drain' \in Drainer /\ drain'.pc = "requeue" /\ drain'.set = drain.set
        /\ drain'.entry \in Row /\ Rom' = Rom /\ drain'.entry.state = "queued"
    BY <1>1, <1>4, RequeuesTo
  <2>2. DrainFits' /\ FilesFit'
    BY <1>1, <1>2, <2>1, WorkingOn DEF DrainFits, FilesFit
  <2> QED  BY <1>1, <2>1, <2>2, WorkInv
<1>5. ASSUME NEW spent \in Nat, drain' = [drain EXCEPT !.pc = "begin", !.spent = spent] PROVE IInv'
  <2>1. /\ drain' \in Drainer /\ drain'.pc = "begin" /\ drain'.set = drain.set
        /\ drain'.entry = drain.entry /\ drain'.detail = drain.detail /\ Rom' = Rom
    BY <1>1, <1>5, WorkingOn DEF Drainer, DrainStep, Rom
  <2>2. drain.detail \in RomDetail /\ drain.entry.sha = drain.detail.ver
    BY DEF IInv, DrainFits
  <2>3. DrainFits' /\ FilesFit'
    BY <1>1, <1>2, <2>1, <2>2, WorkingOn DEF DrainFits, FilesFit, Here
  <2> QED  BY <1>1, <2>1, <2>3, WorkInv
<1> QED  BY <1>3, <1>4, <1>5

(* A body takes the partial one's place; one that broke off leaves part of  *)
(* it.                                                                      *)
LEMMA BodyInv == ASSUME IInv, Body PROVE IInv'
<1> USE DEF Leaves
<1>1. /\ Working /\ drain.pc = "body" /\ (Calm \/ Fault)
      /\ UNCHANGED <<queue, file, cancel, backoff, woken, around>>
  BY DEF Body
<1>2. Here \in OnCard /\ Here.staged = None
  BY <1>1, WorkingOn DEF IInv, FilesFit, Here
<1>3. Fetched \subseteq Bodies /\ None \notin Bodies /\ Spent \in Nat
  <2>1. library[Rom].ver \in Versions
    BY <1>1, WorkingOn DEF RomDetail
  <2>2. Fetched \subseteq Bodies
    BY <2>1 DEF Fetched, Bodies
  <2>3. Spent \in Nat
    BY <1>1, WorkingOn DEF Drainer, Spent
  <2> QED  BY <2>2, <2>3 DEF Bodies, Versions
<1>4. Leftovers \subseteq Bodies \cup {None}
  BY <1>2, <1>3 DEF Leftovers, OnCard
<1>5. CASE \E body \in Fetched :
              /\ Leaves([Here EXCEPT !.staged = body, !.part = None])
              /\ drain' = [drain EXCEPT !.pc = "verify", !.spent = Spent]
  <2>1. PICK body \in Fetched :
              /\ Leaves([Here EXCEPT !.staged = body, !.part = None])
              /\ drain' = [drain EXCEPT !.pc = "verify", !.spent = Spent]
    BY <1>5
  <2>2. PICK files : files = [Here EXCEPT !.staged = body, !.part = None]
    OBVIOUS
  <2>3. files \in OnCard /\ files.staged # None /\ files.part = None
    BY <1>2, <1>3, <2>1, <2>2 DEF OnCard
  <2>4. /\ drain' \in Drainer /\ drain'.pc = "verify" /\ drain'.set = drain.set
        /\ drain'.entry = drain.entry /\ drain'.detail = drain.detail /\ Rom' = Rom
    BY <1>1, <1>3, <2>1, WorkingOn DEF Drainer, DrainStep, Rom
  <2>5. drain.detail \in RomDetail /\ drain.entry.sha = drain.detail.ver
    BY <1>1 DEF IInv, DrainFits
  <2>6. /\ card' = [card EXCEPT ![Rom] = files] /\ card'[Rom] = files
        /\ \A r \in Roms : card'[r].staged = None \/ card'[r].part = None
    BY <1>1, <2>1, <2>2, <2>3, FilesOfRom
  <2>7. DrainFits'
    BY <1>1, <2>4, <2>5, WorkingOn DEF DrainFits
  <2>8. FilesFit'
    BY <2>3, <2>4, <2>6 DEF FilesFit, Here
  <2> QED  BY <1>1, <2>3, <2>4, <2>6, <2>7, <2>8, WorkInv
<1>6. ASSUME NEW part \in Bodies \cup {None}, Leaves([Here EXCEPT !.part = part]),
             \/ Settles("failed", None)
             \/ \E outcome \in DrainOutcome : Requeues(outcome)
             \/ \E spent \in Nat : drain' = [drain EXCEPT !.pc = "begin", !.spent = spent]
      PROVE  IInv'
  <2>1. PICK files : files = [Here EXCEPT !.part = part]
    OBVIOUS
  <2>2. files \in OnCard /\ files.staged = None /\ card' = [card EXCEPT ![Rom] = files]
    BY <1>2, <1>6, <2>1 DEF OnCard
  <2> QED  BY <1>1, <1>6, <2>2, UnstagedInv
<1>7. ASSUME NEW verdict \in Judge, BrokeOff(verdict) PROVE IInv'
  <2>1. OutcomeFor(verdict) \in DrainOutcome /\ "canceled" \in DrainOutcome
    BY DEF OutcomeFor, DrainOutcome
  <2>2. Here.part \in Bodies \cup {None}
    BY <1>2 DEF OnCard
  <2>3. CASE verdict = "fatal"
    BY <1>6, <1>7, <2>3 DEF BrokeOff
  <2>4. CASE verdict = "refused"
    <3>1. PICK part \in Bodies \cup {None} :
             Leaves([Here EXCEPT !.part = part]) /\ part = IF Inherits THEN Here.part ELSE None
      BY <1>7, <2>2, <2>4 DEF BrokeOff
    <3>2. \E outcome \in DrainOutcome : Requeues(outcome)
      BY <1>7, <2>1, <2>4 DEF BrokeOff
    <3> QED  BY <1>6, <3>1, <3>2
  <2>5. CASE verdict = "retry"
    <3>1. PICK part \in Bodies \cup {None} : Leaves([Here EXCEPT !.part = part])
      BY <1>4, <1>7, <2>5 DEF BrokeOff
    <3>2. \/ \E outcome \in DrainOutcome : Requeues(outcome)
          \/ \E spent \in Nat : drain' = [drain EXCEPT !.pc = "begin", !.spent = spent]
      BY <1>3, <1>7, <2>1, <2>5 DEF BrokeOff
    <3> QED  BY <1>6, <3>1, <3>2
  <2> QED  BY <2>3, <2>4, <2>5 DEF Judge
<1>8. CASE cancel /\ Requeues("canceled")
           /\ \E part \in Leftovers : Leaves([Here EXCEPT !.part = part])
  BY <1>4, <1>6, <1>8 DEF DrainOutcome
<1> QED  BY <1>5, <1>7, <1>8 DEF Body

(* The bytes are thrown away where they do not match and take the rom's     *)
(* name where they do.                                                      *)
LEMMA CheckInv == ASSUME IInv, Check PROVE IInv'
<1> USE DEF Leaves
<1>1. /\ Working /\ drain.pc = "check" /\ (Calm \/ Fault)
      /\ UNCHANGED <<queue, file, cancel, backoff, woken, around>>
  BY DEF Check
<1>2. Here \in OnCard /\ Here.staged # None /\ Here.part = None
  BY <1>1, WorkingOn DEF IInv, FilesFit, Here
<1>3. drain.detail \in RomDetail /\ drain.entry.sha = drain.detail.ver
  BY <1>1 DEF IInv, DrainFits
<1>4. CASE Leaves([Here EXCEPT !.staged = None, !.part = None]) /\ Mismatched
           /\ (Settles("failed", None) \/ Goes("begin") \/ Requeues("canceled") \/ Requeues("retryable"))
  <2>1. PICK files : files = [Here EXCEPT !.staged = None, !.part = None]
    OBVIOUS
  <2>2. files \in OnCard /\ files.staged = None /\ card' = [card EXCEPT ![Rom] = files]
    BY <1>2, <1>4, <2>1 DEF OnCard
  <2>3. \/ Settles("failed", None)
        \/ \E outcome \in DrainOutcome : Requeues(outcome)
        \/ \E spent \in Nat : drain' = [drain EXCEPT !.pc = "begin", !.spent = spent]
    <3>1. CASE Goes("begin")
      <4>1. drain' = [drain EXCEPT !.pc = "begin", !.spent = drain.spent] /\ drain.spent \in Nat
        BY <1>1, <3>1, WorkingOn DEF Goes, Drainer
      <4> QED  BY <4>1
    <3> QED  BY <1>4, <3>1 DEF DrainOutcome
  <2> QED  BY <1>1, <2>2, <2>3, UnstagedInv
<1>5. CASE /\ ~Mismatched /\ Settles("done", IF Checkable THEN "verified" ELSE "unchecked")
           /\ Leaves([Here EXCEPT !.dest = Here.staged, !.staged = None])
  <2>1. PICK note \in {"verified", "unchecked"} :
           note = (IF Checkable THEN "verified" ELSE "unchecked") /\ Settles("done", note)
    BY <1>5
  <2>2. PICK files : files = [Here EXCEPT !.dest = Here.staged, !.staged = None]
    OBVIOUS
  <2>3. /\ files \in OnCard /\ files.staged = None /\ files.part = None
        /\ files.dest = Here.staged
    BY <1>2, <2>2 DEF OnCard
  <2>4. /\ drain' \in Drainer /\ drain'.pc = "settle" /\ drain'.set = drain.set
        /\ drain'.entry \in Row /\ Rom' = Rom /\ drain'.entry.state = "done"
        /\ drain'.entry.sha = drain.entry.sha /\ drain'.entry.note = note
    BY <1>1, <2>1, SettlesTo DEF QueueState, Notes
  <2>5. /\ card' = [card EXCEPT ![Rom] = files] /\ card'[Rom] = files
        /\ \A r \in Roms : card'[r].staged = None \/ card'[r].part = None
    BY <1>1, <1>5, <2>2, <2>3, FilesOfRom
  <2>6. note # "unchecked" => Here.staged = drain.entry.sha
    BY <1>3, <1>5, <2>1 DEF Mismatched
  <2>7. OnTheCard(drain.entry)'
    BY <1>2, <2>3, <2>4, <2>5, <2>6 DEF OnTheCard, Rom
  <2>8. DrainFits' /\ FilesFit'
    BY <1>1, <2>4, <2>5, <2>7, WorkingOn DEF DrainFits, FilesFit, Terminal
  <2> QED  BY <1>1, <2>3, <2>4, <2>5, <2>8, WorkInv
<1>6. CASE Settles("failed", None) /\ \E dest \in {Here.dest, None} :
              Leaves([Here EXCEPT !.dest = dest, !.staged = None, !.part = None])
  <2>1. PICK dest \in {Here.dest, None} :
           Leaves([Here EXCEPT !.dest = dest, !.staged = None, !.part = None])
    BY <1>6
  <2>2. PICK files : files = [Here EXCEPT !.dest = dest, !.staged = None, !.part = None]
    OBVIOUS
  <2>3. files \in OnCard /\ files.staged = None /\ card' = [card EXCEPT ![Rom] = files]
    BY <1>2, <2>1, <2>2 DEF OnCard
  <2> QED  BY <1>1, <1>6, <2>3, UnstagedInv
<1> QED  BY <1>4, <1>5, <1>6 DEF Check

-----------------------------------------------------------------------------
(* The row the drain writes.                                                *)

(* Persist writes a row that the steps to come may rely on.                 *)
LEMMA PersistFits ==
    ASSUME IInv, Working, NEW row \in Row, row.rom = Rom, Persist(row), UNCHANGED <<card, trusted>>,
           row.state = "done" => OnTheCard(row),
           Working' => Rom' = Rom /\ ~Terminal(row.state)
    PROVE  /\ ListsFit' /\ queue' \in Rows /\ file' \in Rows
           /\ IsInjective([i \in DOMAIN queue' |-> queue'[i].rom])
<1>1. ListOK(queue) /\ Holds(queue, row.rom)
  BY ListsOf DEF Persist
<1>2. PICK old \in ToSet(queue) :
         /\ old.rom = row.rom
         /\ ListOK(UpdateLocked(queue, row))
         /\ ToSet(UpdateLocked(queue, row)) = (ToSet(queue) \ {old}) \cup {row}
  BY <1>1, UpdatedRow
<1>3. PICK q : q = UpdateLocked(queue, row) /\ queue' = q /\ file' = q
  BY DEF Persist
<1>4. ASSUME NEW m \in ToSet(q)
      PROVE  /\ m.state = "done" => OnTheCard(m)'
             /\ Working' /\ m.rom = Rom' => ~Terminal(m.state)
  <2>1. CASE m = row
    BY <2>1 DEF OnTheCard
  <2>2. CASE m \in ToSet(queue) /\ m # old
    <3>1. m.rom # Rom
      BY <1>1, <1>2, <2>2, OneRow
    <3> QED  BY <2>2, <3>1 DEF IInv, ListsFit, OnTheCard
  <2> QED  BY <1>2, <1>3, <2>1, <2>2
<1> QED  BY <1>2, <1>3, <1>4, WorkingOn, ListsStored

(* A step of the drain that writes its row, or finds it gone, or is refused *)
(* the write.                                                               *)
LEMMA PersistInv ==
    ASSUME IInv, Working, UNCHANGED around, Calm \/ Fault, NEW row \in Row, row.rom = Rom,
           \/ Persist(row) /\ UNCHANGED card
           \/ UNCHANGED <<queue, file>>,
           card' = card \/ \E files \in OnCard : card' = [card EXCEPT ![Rom] = files],
           row.state = "done" => OnTheCard(row),
           Working' => Rom' = Rom /\ ~Terminal(row.state),
           cancel' \in BOOLEAN, backoff' \in BOOLEAN, woken' \in BOOLEAN,
           drain' \in Drainer, DrainFits', FilesFit'
    PROVE  IInv'
<1>1. CASE Persist(row) /\ UNCHANGED card
  <2>1. /\ ListsFit' /\ queue' \in Rows /\ file' \in Rows
        /\ IsInjective([i \in DOMAIN queue' |-> queue'[i].rom])
    BY <1>1, PersistFits
  <2>2. DownloadsTypeOK'
    <3>1. owes' \in BOOLEAN /\ trusted' \in BOOLEAN
      BY Zenon DEF IInv, DownloadsTypeOK
    <3> QED  BY <1>1, <2>1, <3>1 DEF IInv, DownloadsTypeOK
  <2> QED  BY <2>1, <2>2 DEF IInv
<1>2. CASE UNCHANGED <<queue, file>>
  <2>1. \A r \in Roms : card'[r] = card[r] \/ (Working /\ r = Rom)
    BY WorkingOn
  <2>2. ListsFit'
    BY <1>2, <2>1, ListsKept
  <2>3. card' \in [Roms -> OnCard]
    BY WorkingOn
  <2>4. DownloadsTypeOK'
    <3>1. owes' \in BOOLEAN /\ trusted' \in BOOLEAN
      BY Zenon DEF IInv, DownloadsTypeOK
    <3> QED  BY <1>2, <2>3, <3>1 DEF IInv, DownloadsTypeOK
  <2> QED  BY <2>2, <2>4 DEF IInv
<1> QED  BY <1>1, <1>2

(* Where the drain goes when the row is written, and when it ends.          *)
LEMMA EndsFits ==
    ASSUME IInv, NEW outcome, Ends(outcome)
    PROVE  /\ drain' \in Drainer /\ drain'.pc = "off"
           /\ cancel' \in BOOLEAN /\ backoff' \in BOOLEAN /\ woken' \in BOOLEAN
<1>1. cancel' \in BOOLEAN /\ backoff' \in BOOLEAN /\ woken' \in BOOLEAN
  BY Zenon DEF Ends, IInv, DownloadsTypeOK
<1>2. drain' \in Drainer /\ drain'.pc = "off"
  BY DEF Ends, NoDrain, Drainer, DrainStep, DrainOutcome
<1> QED  BY <1>1, <1>2

(* A drain that goes on has nothing in hand.                                *)
LEMMA OnwardFits ==
    ASSUME IInv, Working, Onward
    PROVE  /\ drain' \in Drainer /\ drain'.pc = "pick" /\ drain'.set = drain.set
           /\ cancel' \in BOOLEAN /\ backoff' \in BOOLEAN /\ woken' \in BOOLEAN
<1>1. cancel' \in BOOLEAN /\ backoff' \in BOOLEAN /\ woken' \in BOOLEAN
  BY Zenon DEF Onward, IInv, DownloadsTypeOK
<1>2. drain' \in Drainer /\ drain'.pc = "pick" /\ drain'.set = drain.set
  BY WorkingOn DEF Onward, Drainer, DrainStep
<1> QED  BY <1>1, <1>2

(* The drain lets the row go, whatever it leaves of the staged body.        *)
LEMMA LetGoInv ==
    ASSUME IInv, Working, UNCHANGED around, Calm \/ Fault, NEW row \in Row, row.rom = Rom,
           \/ Persist(row) /\ UNCHANGED card
           \/ UNCHANGED <<queue, file>>,
           \/ UNCHANGED card
           \/ card' = [card EXCEPT ![Rom] = [Here EXCEPT !.staged = None]],
           row.state = "done" => OnTheCard(row),
           Onward \/ \E outcome \in DrainOutcome : Ends(outcome)
    PROVE  IInv'
<1>1. /\ drain' \in Drainer
      /\ drain'.pc = "off" \/ (drain'.pc = "pick" /\ drain'.set = drain.set)
      /\ cancel' \in BOOLEAN /\ backoff' \in BOOLEAN /\ woken' \in BOOLEAN
  BY EndsFits, OnwardFits
<1>2. [Here EXCEPT !.staged = None] \in OnCard
  <2>1. Here \in OnCard
    BY WorkingOn DEF Here
  <2> QED  BY <2>1 DEF OnCard
<1>3. \A r \in Roms : card'[r].staged = None \/ card'[r].part = None
  <2>1. CASE UNCHANGED card
    BY <2>1 DEF IInv, FilesFit
  <2>2. CASE card' = [card EXCEPT ![Rom] = [Here EXCEPT !.staged = None]]
    <3>1. PICK files : files = [Here EXCEPT !.staged = None]
      OBVIOUS
    <3>2. files \in OnCard /\ files.staged = None
      <4>1. files \in OnCard
        BY <1>2, <3>1, Zenon
      <4>2. PICK here \in OnCard : here = Here
        BY WorkingOn DEF Here
      <4>3. files = [here EXCEPT !.staged = None]
        BY <3>1, <4>2, Zenon
      <4> QED  BY <4>1, <4>3 DEF OnCard
    <3> QED  BY <2>2, <3>1, <3>2, FilesOfRom
  <2> QED  BY <2>1, <2>2
<1>4. DrainFits' /\ FilesFit'
  BY <1>1, <1>3, WorkingOn DEF DrainFits, FilesFit
<1> QED  BY <1>1, <1>2, <1>4, PersistInv

(* The row is active on the card before a byte is asked for.                *)
LEMMA BeginInv == ASSUME IInv, Begin PROVE IInv'
<1>1. PICK row : row = [drain.entry EXCEPT !.state = "active", !.note = None]
  OBVIOUS
<1>2. Working /\ drain.pc = "begin" /\ UNCHANGED card /\ UNCHANGED around
  BY DEF Begin
<1>3. /\ row \in Row /\ row.rom = Rom /\ row.state = "active" /\ row.sha = drain.entry.sha
  BY <1>1, <1>2, WorkingOn DEF Row, Rom, QueueState, Notes
<1>4. CASE /\ Persist(row) /\ UNCHANGED <<cancel, backoff, woken>>
           /\ drain' = [drain EXCEPT !.pc = "body", !.entry = row,
                            !.inherited = IF Inherits THEN "body" ELSE "no"]
  <2>1. /\ drain' \in Drainer /\ drain'.pc = "body" /\ drain'.set = drain.set
        /\ drain'.entry = row /\ drain'.detail = drain.detail
    BY <1>2, <1>3, <1>4, WorkingOn DEF Drainer, DrainStep
  <2>2. drain.detail \in RomDetail /\ drain.entry.sha = drain.detail.ver /\ card[Rom].staged = None
        /\ \A r \in Roms : card[r].staged = None \/ card[r].part = None
    BY <1>2 DEF IInv, DrainFits, FilesFit, Here
  <2>3. DrainFits'
    BY <1>2, <1>3, <2>1, <2>2, WorkingOn DEF DrainFits
  <2>4. FilesFit' /\ Rom' = Rom
    BY <1>2, <1>3, <2>1, <2>2 DEF FilesFit, Here, Rom
  <2>5. cancel' \in BOOLEAN /\ backoff' \in BOOLEAN /\ woken' \in BOOLEAN
    BY <1>4, Zenon DEF IInv, DownloadsTypeOK
  <2>6. ~Terminal(row.state) /\ row.state # "done" /\ (Calm \/ Fault)
    BY <1>3, <1>4 DEF Terminal, Persist
  <2> QED  BY <1>2, <1>3, <1>4, <2>1, <2>3, <2>4, <2>5, <2>6, PersistInv
<1>5. CASE Gone /\ Onward
  BY <1>2, <1>3, <1>5, LetGoInv DEF Gone
<1>6. CASE StoreFailed /\ EndsHere
  BY <1>2, <1>3, <1>6, LetGoInv DEF StoreFailed, EndsHere, DrainOutcome
<1> QED  BY <1>1, <1>4, <1>5, <1>6 DEF Begin

(* The row says it is being checked; a row that is gone takes the body with *)
(* it.                                                                      *)
LEMMA VerifyInv == ASSUME IInv, Verify PROVE IInv'
<1>1. PICK row : row = [drain.entry EXCEPT !.state = "verifying", !.note = None]
  OBVIOUS
<1>2. Working /\ drain.pc = "verify" /\ UNCHANGED around
  BY DEF Verify
<1>3. /\ row \in Row /\ row.rom = Rom /\ row.state = "verifying" /\ row.sha = drain.entry.sha
  BY <1>1, <1>2, WorkingOn DEF Row, Rom, QueueState, Notes
<1>4. CASE /\ Persist(row) /\ drain' = [drain EXCEPT !.pc = "check", !.entry = row]
           /\ UNCHANGED <<card, cancel, backoff, woken>>
  <2>1. /\ drain' \in Drainer /\ drain'.pc = "check" /\ drain'.set = drain.set
        /\ drain'.entry = row /\ drain'.detail = drain.detail
    BY <1>2, <1>3, <1>4, WorkingOn DEF Drainer, DrainStep
  <2>2. drain.detail \in RomDetail /\ drain.entry.sha = drain.detail.ver /\ card[Rom].staged # None
        /\ \A r \in Roms : card[r].staged = None \/ card[r].part = None
    BY <1>2 DEF IInv, DrainFits, FilesFit, Here
  <2>3. DrainFits'
    BY <1>2, <1>3, <2>1, <2>2, WorkingOn DEF DrainFits
  <2>4. FilesFit' /\ Rom' = Rom
    BY <1>2, <1>3, <1>4, <2>1, <2>2 DEF FilesFit, Here, Rom
  <2>5. cancel' \in BOOLEAN /\ backoff' \in BOOLEAN /\ woken' \in BOOLEAN
    BY <1>4, Zenon DEF IInv, DownloadsTypeOK
  <2>6. ~Terminal(row.state) /\ row.state # "done" /\ (Calm \/ Fault)
    BY <1>3, <1>4 DEF Terminal, Persist
  <2> QED  BY <1>2, <1>3, <1>4, <2>1, <2>3, <2>4, <2>5, <2>6, PersistInv
<1>5. CASE Gone /\ Leaves([Here EXCEPT !.staged = None]) /\ Onward
  BY <1>2, <1>3, <1>5, LetGoInv DEF Gone, Leaves
<1>6. CASE StoreFailed /\ Leaves([Here EXCEPT !.staged = None]) /\ EndsHere
  BY <1>2, <1>3, <1>6, LetGoInv DEF StoreFailed, EndsHere, DrainOutcome, Leaves
<1> QED  BY <1>1, <1>4, <1>5, <1>6 DEF Verify

(* The row ends as the drain left it.                                       *)
LEMMA SettleInv == ASSUME IInv, Settle PROVE IInv'
<1>1. Working /\ drain.pc = "settle" /\ UNCHANGED card /\ UNCHANGED around
  BY DEF Settle
<1>2. drain.entry \in Row /\ drain.entry.rom = Rom
      /\ (drain.entry.state = "done" => OnTheCard(drain.entry))
  BY <1>1, WorkingOn DEF IInv, FilesFit, Rom
<1>3. CASE Persist(drain.entry) /\ Onward
  BY <1>1, <1>2, <1>3, LetGoInv DEF Persist
<1>4. CASE Gone /\ Onward
  BY <1>1, <1>2, <1>4, LetGoInv DEF Gone
<1>5. CASE StoreFailed /\ EndsHere
  BY <1>1, <1>2, <1>5, LetGoInv DEF StoreFailed, EndsHere, DrainOutcome
<1> QED  BY <1>3, <1>4, <1>5 DEF Settle

(* The row waits again, for this drain's end or for the next.               *)
LEMMA RequeueInv == ASSUME IInv, Requeue PROVE IInv'
<1>1. Working /\ drain.pc = "requeue" /\ UNCHANGED card /\ UNCHANGED around
  BY DEF Requeue
<1>2. drain.entry \in Row /\ drain.entry.rom = Rom /\ drain.entry.state = "queued"
      /\ drain.outcome \in DrainOutcome
  BY <1>1, WorkingOn DEF IInv, DrainFits, Rom, Drainer
<1>3. CASE Persist(drain.entry) /\ UNCHANGED <<cancel, backoff, woken>>
           /\ drain' = [drain EXCEPT !.pc = "pick", !.deferred = @ \cup {Rom}]
  <2>1. drain' \in Drainer /\ drain'.pc = "pick" /\ drain'.set = drain.set
    BY <1>1, <1>3, WorkingOn DEF Drainer, DrainStep
  <2>2. DrainFits' /\ FilesFit'
    BY <1>1, <2>1, WorkingOn DEF IInv, DrainFits, FilesFit
  <2>3. cancel' \in BOOLEAN /\ backoff' \in BOOLEAN /\ woken' \in BOOLEAN
    BY <1>3, Zenon DEF IInv, DownloadsTypeOK
  <2> QED  BY <1>1, <1>2, <1>3, <2>1, <2>2, <2>3, PersistInv DEF Persist
<1>4. CASE Persist(drain.entry) /\ Ends(drain.outcome)
  BY <1>1, <1>2, <1>4, LetGoInv DEF Persist
<1>5. CASE Gone /\ (Onward \/ Ends(drain.outcome))
  BY <1>1, <1>2, <1>5, LetGoInv DEF Gone
<1>6. CASE StoreFailed /\ EndsHere
  BY <1>1, <1>2, <1>6, LetGoInv DEF StoreFailed, EndsHere, DrainOutcome
<1> QED  BY <1>3, <1>4, <1>5, <1>6 DEF Requeue

-----------------------------------------------------------------------------
(* The first state, and a step that is none.                                *)

(* A list of queued roms that was read back, or was not.                    *)
LEMMA InitInv == ASSUME Init PROVE IInv
<1> USE DEF Init
<1>1. PICK roms \in Queued : file = [i \in DOMAIN roms |-> NewRow(roms[i])]
  OBVIOUS
<1>2. PICK n \in 0 .. MaxQueueEntries : roms \in [1 .. n -> Roms] /\ IsInjective(roms)
  OBVIOUS
<1>3. \A r \in Roms : NewRow(r) \in Row /\ NewRow(r).rom = r /\ NewRow(r).state = "queued"
  BY DEF NewRow, Row, QueueState, Notes
<1>4. /\ DOMAIN file = 1 .. n /\ file \in [1 .. n -> Row]
      /\ \A i \in 1 .. n : file[i] = NewRow(roms[i]) /\ roms[i] \in Roms
  BY <1>1, <1>2, <1>3
<1>5. ListOK(file) /\ \A row \in ToSet(file) : row.state = "queued"
  <2>1. file \in Rows
    BY <1>4 DEF Rows
  <2>2. \A i, j \in DOMAIN file : file[i].rom = file[j].rom => i = j
    BY <1>2, <1>3, <1>4 DEF IsInjective
  <2> QED  BY <1>3, <1>4, <2>1, <2>2 DEF ListOK, ToSet
<1>6. ListOK(queue) /\ (\A row \in ToSet(queue) : row.state = "queued")
      /\ IF trusted THEN queue \in {file, Reloaded(file)} ELSE queue = <<>>
  <2>1. CASE trusted
    <3>1. queue = Reloaded(file)
      BY <2>1
    <3>2. ListOK(queue) /\ ToSet(queue) = {Again(row) : row \in ToSet(file)}
      BY <1>5, <3>1, ReloadedMembers
    <3>3. \A row \in ToSet(queue) : row.state = "queued"
      BY <1>5, <3>2 DEF Again
    <3> QED  BY <2>1, <3>1, <3>2, <3>3
  <2>2. CASE ~trusted
    BY <2>2, EmptyList
  <2> QED  BY <2>1, <2>2
<1>7. DownloadsTypeOK
  <2>1. drain \in Drainer
    BY DEF NoDrain, Drainer, DrainStep, DrainOutcome
  <2>2. cancel \in BOOLEAN /\ owes \in BOOLEAN /\ backoff \in BOOLEAN /\ woken \in BOOLEAN
        /\ trusted \in BOOLEAN
    BY Zenon
  <2>3. library \in [Roms -> RomDetail]
    BY DEF RomDetail, Versions
  <2>4. card \in [Roms -> OnCard]
    BY DEF OnCard, Bodies, Versions
  <2>5. queue \in Rows /\ file \in Rows /\ IsInjective([i \in DOMAIN queue |-> queue[i].rom])
    BY <1>5, <1>6, ListOKIsInjective
  <2> QED  BY <2>1, <2>2, <2>3, <2>4, <2>5 DEF DownloadsTypeOK
<1>8. drain.pc = "off"
  BY DEF NoDrain
<1>9. ListsFit
  <2>1. IsInjective([i \in DOMAIN file |-> file[i].rom])
    BY <1>5, ListOKIsInjective
  <2> QED  BY <1>5, <1>6, <1>8, <2>1 DEF ListsFit
<1>10. DrainFits /\ FilesFit
  BY <1>8 DEF DrainFits, FilesFit
<1> QED  BY <1>7, <1>9, <1>10 DEF IInv

(* A step that changes nothing changes nothing the invariant reads.         *)
LEMMA StutterInv == ASSUME IInv, UNCHANGED vars PROVE IInv'
<1>1. DownloadsTypeOK'
  BY DEF IInv, DownloadsTypeOK
<1>2. ListsFit'
  BY ListsKept DEF Rom
<1> QED  BY <1>1, <1>2 DEF IInv, DrainFits, FilesFit, OnTheCard, Here, Rom

-----------------------------------------------------------------------------
(* The queue implements its board.                                          *)

(* A board says of each rom what its one row says.                          *)
LEMMA BoardSays ==
    ASSUME NEW q, ListOK(q)
    PROVE  /\ \A m \in ToSet(q) : BoardOf(q)[m.rom] = Says(m)
           /\ \A r \in Roms : (\A m \in ToSet(q) : m.rom # r) => BoardOf(q)[r] = "absent"
<1>1. q \in Rows
  BY DEF ListOK
<1>2. ASSUME NEW i \in DOMAIN q PROVE BoardOf(q)[q[i].rom] = Says(q[i])
  <2>1. Find(q, q[i].rom) = i /\ Holds(q, q[i].rom)
    BY FindIs
  <2>2. q[i].rom \in Roms
    BY <1>1, ListFacts DEF Row
  <2> QED  BY <2>1, <2>2 DEF BoardOf
<1>3. ASSUME NEW r \in Roms, \A m \in ToSet(q) : m.rom # r PROVE BoardOf(q)[r] = "absent"
  <2>1. ~Holds(q, r)
    BY <1>1, <1>3, FindNone DEF ToSet
  <2> QED  BY <2>1 DEF BoardOf
<1> QED  BY <1>2, <1>3 DEF ToSet

(* Two lists with the same row of a rom, or both with none, say the same.   *)
LEMMA BoardsAgree ==
    ASSUME NEW q, ListOK(q), NEW p, ListOK(p), NEW r \in Roms,
           \A m : m.rom = r => (m \in ToSet(q) <=> m \in ToSet(p))
    PROVE  BoardOf(q)[r] = BoardOf(p)[r]
<1>1. CASE \E m \in ToSet(q) : m.rom = r
  BY <1>1, BoardSays
<1>2. CASE \A m \in ToSet(q) : m.rom # r
  BY <1>2, BoardSays
<1> QED  BY <1>1, <1>2

(* The board of a list with a row changed, with one taken out, and of the   *)
(* list Load makes of it.                                                   *)
LEMMA UpdatedBoard ==
    ASSUME NEW q, ListOK(q), NEW row \in Row, Holds(q, row.rom)
    PROVE  /\ ListOK(UpdateLocked(q, row))
           /\ BoardOf(UpdateLocked(q, row)) = [BoardOf(q) EXCEPT ![row.rom] = Says(row)]
<1>1. PICK p : p = UpdateLocked(q, row)
  OBVIOUS
<1>2. PICK old \in ToSet(q) : /\ old.rom = row.rom /\ ListOK(p)
                              /\ ToSet(p) = (ToSet(q) \ {old}) \cup {row}
  BY <1>1, UpdatedRow
<1>3. row.rom \in Roms /\ BoardOf(p)[row.rom] = Says(row)
  BY <1>2, BoardSays DEF Row
<1>4. ASSUME NEW r \in Roms, r # row.rom PROVE BoardOf(p)[r] = BoardOf(q)[r]
  BY <1>2, <1>4, BoardsAgree
<1>5. BoardOf(p) \in [Roms -> {BoardOf(p)[r] : r \in Roms}]
      /\ BoardOf(q) \in [Roms -> {BoardOf(q)[r] : r \in Roms}]
  BY DEF BoardOf
<1>6. BoardOf(p) = [BoardOf(q) EXCEPT ![row.rom] = Says(row)]
  BY <1>3, <1>4, <1>5
<1> QED  BY <1>1, <1>2, <1>6

(* ... one taken out leaves its rom absent.                                 *)
LEMMA RemovedBoard ==
    ASSUME NEW q, ListOK(q), NEW r \in Roms, Holds(q, r)
    PROVE  /\ ListOK(RemoveLocked(q, r))
           /\ BoardOf(RemoveLocked(q, r)) = [BoardOf(q) EXCEPT ![r] = "absent"]
<1>1. PICK p : p = RemoveLocked(q, r)
  OBVIOUS
<1>2. PICK old \in ToSet(q) : old.rom = r /\ ListOK(p) /\ ToSet(p) = ToSet(q) \ {old}
  BY <1>1, RemovedRow
<1>3. BoardOf(p)[r] = "absent"
  <2>1. \A m \in ToSet(p) : m.rom # r
    BY <1>2, OneRow
  <2> QED  BY <1>2, <2>1, BoardSays
<1>4. ASSUME NEW x \in Roms, x # r PROVE BoardOf(p)[x] = BoardOf(q)[x]
  BY <1>2, <1>4, BoardsAgree
<1>5. BoardOf(p) \in [Roms -> {BoardOf(p)[x] : x \in Roms}]
      /\ BoardOf(q) \in [Roms -> {BoardOf(q)[x] : x \in Roms}]
  BY DEF BoardOf
<1>6. BoardOf(p) = [BoardOf(q) EXCEPT ![r] = "absent"]
  BY <1>3, <1>4, <1>5
<1> QED  BY <1>1, <1>2, <1>6

(* ... and what a boot queues again was pending all along.                  *)
LEMMA ReloadedBoard ==
    ASSUME NEW q, ListOK(q)
    PROVE  BoardOf(Reloaded(q)) = BoardOf(q)
<1>1. PICK p : p = Reloaded(q)
  OBVIOUS
<1>2. ListOK(p) /\ ToSet(p) = {Again(row) : row \in ToSet(q)}
  BY <1>1, ReloadedMembers
<1>3. \A m \in ToSet(q) : m \in Row
  BY ListFacts DEF ListOK, ToSet
<1>4. \A m \in Row : Again(m).rom = m.rom /\ Says(Again(m)) = Says(m)
  BY DEF Again, Row, Says, Terminal
<1>5. ASSUME NEW r \in Roms PROVE BoardOf(p)[r] = BoardOf(q)[r]
  <2>1. CASE \E m \in ToSet(q) : m.rom = r
    <3>1. PICK m \in ToSet(q) : m.rom = r
      BY <2>1
    <3>2. Again(m) \in ToSet(p) /\ Again(m).rom = r /\ Says(Again(m)) = Says(m)
      BY <1>2, <1>3, <1>4, <3>1
    <3> QED  BY <1>2, <3>1, <3>2, BoardSays
  <2>2. CASE \A m \in ToSet(q) : m.rom # r
    <3>1. \A m \in ToSet(p) : m.rom # r
      BY <1>2, <1>3, <1>4, <2>2
    <3> QED  BY <1>2, <2>2, <3>1, BoardSays
  <2> QED  BY <2>1, <2>2
<1>6. BoardOf(p) \in [Roms -> {BoardOf(p)[r] : r \in Roms}]
      /\ BoardOf(q) \in [Roms -> {BoardOf(q)[r] : r \in Roms}]
  BY DEF BoardOf
<1> QED  BY <1>1, <1>5, <1>6

(* A rom that may be asked for is not pending, and its row takes at most    *)
(* one that has ended with it.                                              *)
LEMMA EnqueuedBoard ==
    ASSUME NEW q, ListOK(q), NEW r \in Roms, CanEnqueue(q, r)
    PROVE  /\ ListOK(EnqueueLocked(q, r))
           /\ BoardOf(q)[r] # "pending"
           /\ \/ BoardOf(EnqueueLocked(q, r)) = [BoardOf(q) EXCEPT ![r] = "pending"]
              \/ \E old \in Roms \ {r} :
                    /\ BoardOf(q)[old] \in Board!Ends
                    /\ BoardOf(EnqueueLocked(q, r)) =
                          [BoardOf(q) EXCEPT ![r] = "pending", ![old] = "absent"]
<1>1. PICK p : p = EnqueueLocked(q, r)
  OBVIOUS
<1>2. PICK gone \in SUBSET ToSet(q) : MakesRoom(p, q, r, gone)
  BY <1>1, EnqueuedMembers
<1>3. \A m \in ToSet(q) : m \in Row /\ m.rom \in Roms
  <2>1. \A m \in ToSet(q) : m \in Row
    BY ListFacts DEF ListOK, ToSet
  <2> QED  BY <2>1 DEF Row
<1>4. \A m \in Row : Terminal(m.state) <=> Says(m) \in Board!Ends
  BY DEF Says, Terminal, Board!Ends
<1>5. BoardOf(q)[r] # "pending"
  <2>1. CASE \E m \in ToSet(q) : m.rom = r
    <3>1. PICK m \in gone : m.rom = r
      BY <1>2, <2>1 DEF MakesRoom
    <3> QED  BY <1>2, <1>3, <1>4, <3>1, BoardSays DEF Board!Ends, MakesRoom
  <2>2. CASE \A m \in ToSet(q) : m.rom # r
    BY <2>2, BoardSays
  <2> QED  BY <2>1, <2>2
<1>6. BoardOf(p)[r] = "pending"
  <2>1. NewRow(r).rom = r /\ Says(NewRow(r)) = "pending" /\ NewRow(r) \in ToSet(p)
    BY <1>2 DEF NewRow, Says, Terminal, MakesRoom
  <2> QED  BY <1>2, <2>1, BoardSays DEF MakesRoom
<1>7. ASSUME NEW x \in Roms, x # r, \A m \in gone : m.rom # x PROVE BoardOf(p)[x] = BoardOf(q)[x]
  <2>1. NewRow(r).rom # x
    BY <1>7 DEF NewRow
  <2> QED  BY <1>2, <1>7, <2>1, BoardsAgree DEF MakesRoom
<1>8. BoardOf(p) \in [Roms -> {BoardOf(p)[x] : x \in Roms}]
      /\ BoardOf(q) \in [Roms -> {BoardOf(q)[x] : x \in Roms}]
  BY DEF BoardOf
<1>9. CASE \A m \in gone : m.rom = r
  <2>1. \A x \in Roms : x # r => BoardOf(p)[x] = BoardOf(q)[x]
    BY <1>7, <1>9
  <2>2. BoardOf(p) = [BoardOf(q) EXCEPT ![r] = "pending"]
    BY <1>6, <1>8, <2>1
  <2> QED  BY <1>1, <1>2, <1>5, <2>2 DEF MakesRoom
<1>10. CASE \E m \in gone : m.rom # r
  <2>1. PICK m \in gone : m.rom # r
    BY <1>10
  <2>2. m.rom \in Roms \ {r} /\ BoardOf(q)[m.rom] \in Board!Ends
    BY <1>2, <1>3, <1>4, <2>1, BoardSays DEF MakesRoom
  <2>3. BoardOf(p)[m.rom] = "absent"
    <3>1. \A n \in ToSet(p) : n.rom # m.rom
      BY <1>2, <2>1, OneRow DEF NewRow, MakesRoom
    <3> QED  BY <1>2, <2>2, <3>1, BoardSays DEF MakesRoom
  <2>4. \A x \in Roms : x # r /\ x # m.rom => BoardOf(p)[x] = BoardOf(q)[x]
    BY <1>2, <1>7, <2>1 DEF MakesRoom
  <2>5. BoardOf(p) = [BoardOf(q) EXCEPT ![r] = "pending", ![m.rom] = "absent"]
    BY <1>6, <1>8, <2>2, <2>3, <2>4
  <2> QED  BY <1>1, <1>2, <1>5, <2>2, <2>5 DEF MakesRoom
<1> QED  BY <1>9, <1>10

(* What queue.json says is what the list kept says, read back or not.       *)
LEMMA KeptNow ==
    ASSUME IInv
    PROVE  /\ BoardOf(ListKept) = BoardOf(file)
           /\ trusted => BoardOf(ListKept) = BoardOf(queue)
<1>1. trusted => BoardOf(queue) = BoardOf(file)
  BY ListsOf, ReloadedBoard DEF IInv, ListsFit
<1> QED  BY <1>1 DEF ListKept

(* ... and after a step: what the lock wrote, or what there was.            *)
LEMMA KeptNext ==
    ASSUME NEW q, trusted' => queue' = q, ~trusted' => file' = q
    PROVE  BoardOf(ListKept)' = BoardOf(q)
<1>1. ListKept' = q
  BY DEF ListKept
<1>2. BoardOf(ListKept)' = BoardOf(ListKept')
  BY DEF BoardOf, Holds, Find, SelectInSeq
<1> QED  BY <1>1, <1>2

(* A step that leaves both lists alone is none of the board's.              *)
LEMMA BoardStands ==
    ASSUME UNCHANGED <<queue, file, trusted>>
    PROVE  UNCHANGED Board!boardVars
<1>1. BoardOf(ListKept)' = BoardOf(ListKept)
  BY KeptNext DEF ListKept
<1> QED  BY <1>1 DEF Board!boardVars

(* The owner asks for a rom or takes one out.                               *)
LEMMA PressesOnBoard ==
    ASSUME IInv, NEW r \in Roms, Enqueue(r) \/ Dequeue(r)
    PROVE  Board!BoardNext \/ UNCHANGED Board!boardVars
<1>1. trusted /\ UNCHANGED trusted
  BY DEF Enqueue, Dequeue
<1>2. ListOK(queue) /\ BoardOf(ListKept) = BoardOf(queue)
  BY <1>1, ListsOf, KeptNow
<1>3. CASE UNCHANGED <<queue, file>>
  BY <1>1, <1>3, BoardStands
<1>4. CASE Enqueue(r) /\ Stored(EnqueueLocked(queue, r))
  <2>1. CanEnqueue(queue, r)
    BY <1>4 DEF Enqueue
  <2>2. PICK p : p = EnqueueLocked(queue, r)
    OBVIOUS
  <2>3. BoardOf(ListKept)' = BoardOf(p)
    BY <1>1, <1>4, <2>2, KeptNext
  <2>4. Board!Ask(r)
    BY <1>1, <1>2, <2>1, <2>2, <2>3, EnqueuedBoard DEF Board!Ask
  <2> QED  BY <2>4 DEF Board!BoardNext
<1>5. CASE Dequeue(r) /\ Stored(RemoveLocked(queue, r))
  <2>1. Holds(queue, r)
    BY <1>5 DEF Dequeue
  <2>2. PICK p : p = RemoveLocked(queue, r)
    OBVIOUS
  <2>3. BoardOf(ListKept)' = BoardOf(p)
    BY <1>1, <1>5, <2>2, KeptNext
  <2>4. BoardOf(p) = [BoardOf(queue) EXCEPT ![r] = "absent"]
    BY <1>2, <2>1, <2>2, RemovedBoard
  <2>5. BoardOf(queue)[r] # "absent"
    BY <2>1 DEF BoardOf, Says
  <2>6. Board!Withdraw(r)
    BY <1>1, <1>2, <2>3, <2>4, <2>5 DEF Board!Withdraw
  <2> QED  BY <2>6 DEF Board!BoardNext
<1> QED  BY <1>3, <1>4, <1>5 DEF Enqueue, Dequeue

(* A boot reads the list or leaves it, and it is the list there was.        *)
LEMMA PowerCutOnBoard ==
    ASSUME IInv, PowerCut
    PROVE  Board!BoardNext \/ UNCHANGED Board!boardVars
<1>1. trusted' \in BOOLEAN /\ UNCHANGED file /\ (trusted' => queue' = Reloaded(file))
  BY DEF PowerCut, LoadQueue
<1>2. BoardOf(ListKept) = BoardOf(file) /\ BoardOf(Reloaded(file)) = BoardOf(file)
  BY KeptNow, ListsOf, ReloadedBoard
<1>3. BoardOf(ListKept)' = BoardOf(file)
  <2>1. CASE trusted'
    BY <1>1, <1>2, <2>1, KeptNext
  <2>2. CASE ~trusted'
    BY <1>1, <2>2, KeptNext
  <2> QED  BY <2>1, <2>2
<1>4. Board!ReadAgain \/ Board!Unreadable
  BY <1>1, <1>2, <1>3 DEF Board!ReadAgain, Board!Unreadable
<1> QED  BY <1>4 DEF Board!BoardNext

(* What the drain writes of its rom: the row was pending, and says what the *)
(* new one says.                                                            *)
LEMMA PersistOnBoard ==
    ASSUME IInv, Working, UNCHANGED trusted, NEW row \in Row, row.rom = Rom, Persist(row)
    PROVE  /\ trusted /\ BoardOf(ListKept)[Rom] = "pending" /\ Rom \in Roms
           /\ BoardOf(ListKept)' = [BoardOf(ListKept) EXCEPT ![Rom] = Says(row)]
<1>1. trusted /\ ListOK(queue) /\ Rom \in Roms /\ Holds(queue, row.rom)
  BY WorkingOn, ListsOf DEF Persist
<1>2. BoardOf(ListKept) = BoardOf(queue)
  BY <1>1, KeptNow
<1>3. BoardOf(queue)[Rom] = "pending"
  <2>1. PICK old \in ToSet(queue) : old.rom = Rom
    BY <1>1, UpdatedRow
  <2>2. ~Terminal(old.state)
    BY <2>1 DEF IInv, ListsFit
  <2> QED  BY <1>1, <2>1, <2>2, BoardSays DEF Says
<1>4. PICK p : p = UpdateLocked(queue, row)
  OBVIOUS
<1>5. BoardOf(p) = [BoardOf(queue) EXCEPT ![Rom] = Says(row)]
  BY <1>1, <1>4, UpdatedBoard
<1>6. BoardOf(ListKept)' = BoardOf(p)
  BY <1>4, KeptNext DEF Persist
<1> QED  BY <1>1, <1>2, <1>3, <1>5, <1>6

(* A row that has not ended leaves the board as it was.                     *)
LEMMA StillPending ==
    ASSUME IInv, Working, UNCHANGED trusted, NEW row \in Row, row.rom = Rom, Persist(row),
           ~Terminal(row.state)
    PROVE  UNCHANGED Board!boardVars
<1>1. PICK b : b = BoardOf(ListKept)
  OBVIOUS
<1>2. Says(row) = "pending" /\ b \in [Roms -> {b[r] : r \in Roms}]
  BY <1>1 DEF Says, BoardOf
<1>3. b[Rom] = "pending" /\ BoardOf(ListKept)' = [b EXCEPT ![Rom] = "pending"]
  BY <1>1, <1>2, PersistOnBoard
<1>4. [b EXCEPT ![Rom] = "pending"] = b
  BY <1>2, <1>3
<1> QED  BY <1>1, <1>3, <1>4 DEF Board!boardVars

(* The drain ends a pending rom in Settle, and nowhere else.                *)
LEMMA DrainOnBoard ==
    ASSUME IInv, Drain
    PROVE  Board!BoardNext \/ UNCHANGED Board!boardVars
<1>1. CASE RunOneDrain \/ Pick \/ FetchDetail \/ Place \/ Body \/ Check
  <2>1. UNCHANGED <<queue, file, trusted>>
    BY <1>1 DEF RunOneDrain, Pick, FetchDetail, Place, Body, Check
  <2> QED  BY <2>1, BoardStands
<1>2. CASE UNCHANGED <<queue, file>> /\ (Begin \/ Verify \/ Settle \/ Requeue)
  BY <1>2, BoardStands DEF Begin, Verify, Settle, Requeue
<1>3. ASSUME NEW state \in {"active", "verifying"}, Working, UNCHANGED trusted,
             Persist([drain.entry EXCEPT !.state = state, !.note = None])
      PROVE  UNCHANGED Board!boardVars
  <2>1. PICK row : row = [drain.entry EXCEPT !.state = state, !.note = None]
    OBVIOUS
  <2>2. row \in Row /\ row.rom = Rom /\ ~Terminal(row.state)
    BY <1>3, <2>1, WorkingOn DEF Row, Rom, QueueState, Notes, Terminal
  <2> QED  BY <1>3, <2>1, <2>2, StillPending
<1>4. CASE Begin \/ Verify
  <2>1. Working /\ UNCHANGED trusted
    BY <1>4 DEF Begin, Verify
  <2>2. \/ UNCHANGED <<queue, file>>
        \/ Persist([drain.entry EXCEPT !.state = "active", !.note = None])
        \/ Persist([drain.entry EXCEPT !.state = "verifying", !.note = None])
    BY <1>4 DEF Begin, Verify, Gone, StoreFailed
  <2> QED  BY <1>2, <1>3, <1>4, <2>1, <2>2
<1>5. CASE Requeue /\ Persist(drain.entry)
  <2>1. Working /\ UNCHANGED trusted /\ drain.pc = "requeue"
    BY <1>5 DEF Requeue
  <2>2. drain.entry \in Row /\ drain.entry.rom = Rom /\ ~Terminal(drain.entry.state)
    BY <2>1, WorkingOn DEF IInv, DrainFits, Rom, Terminal
  <2> QED  BY <1>5, <2>1, <2>2, StillPending
<1>6. CASE Settle /\ Persist(drain.entry)
  <2>1. Working /\ UNCHANGED trusted /\ drain.pc = "settle"
    BY <1>6 DEF Settle
  <2>2. drain.entry \in Row /\ drain.entry.rom = Rom /\ Terminal(drain.entry.state)
    BY <2>1, WorkingOn DEF IInv, DrainFits, Rom
  <2>3. PICK end \in Board!Ends : end = Says(drain.entry)
    BY <2>2 DEF Says, Terminal, Board!Ends
  <2>4. Board!End(Rom, end)
    BY <1>6, <2>1, <2>2, <2>3, PersistOnBoard DEF Board!End
  <2>5. Rom \in Roms
    BY <2>1, WorkingOn
  <2> QED  BY <2>3, <2>4, <2>5 DEF Board!BoardNext
<1> QED  BY <1>1, <1>2, <1>4, <1>5, <1>6 DEF Drain, Settle, Requeue, Gone, StoreFailed

(* The first list is a board.                                               *)
LEMMA InitOnBoard == ASSUME Init PROVE Board!BoardInit
<1>1. IInv
  BY InitInv
<1>2. BoardOf(file) \in [Roms -> {"absent", "pending"} \cup Board!Ends]
  BY DEF BoardOf, Says, Board!Ends
<1>3. trusted \in BOOLEAN
  BY Zenon DEF Init
<1> QED  BY <1>1, <1>2, <1>3, KeptNow DEF Board!BoardInit

-----------------------------------------------------------------------------
(* The theorems.                                                            *)

(* What the steps rely on holds in every state.                             *)
THEOREM Invariance == Spec => []IInv
<1>1. Init => IInv
  BY InitInv
<1>2. IInv /\ [Next]_vars => IInv'
  BY EnqueueInv, DequeueInv, ReplacedInv, DequeueCancelsInv, PowerCutInv, RunOneDrainInv, PickInv,
     FetchDetailInv, PlaceInv, BeginInv, BodyInv, VerifyInv, CheckInv, SettleInv, RequeueInv,
     BackoffEndsInv, StutterInv
  DEF Next, Drain
<1> QED  BY <1>1, <1>2, PTL DEF Spec

(* For any roms and any length of the list, the queue holds a rom once and  *)
(* never more rows than it may (Queue::EnqueueLocked, Load).                *)
THEOREM TypeCorrect == Spec => []DownloadsTypeOK
<1>1. IInv => DownloadsTypeOK
  BY DEF IInv
<1> QED  BY <1>1, Invariance, PTL

(* A row that says done is about a file that is there, whatever is dequeued,*)
(* replaced or cut between the commit and the row (Drainer::Verify, Settle).*)
THEOREM DoneMeansDone == Spec => []DoneIsOnCard
<1>1. IInv => DoneIsOnCard
  BY DEF IInv, ListsFit, DoneIsOnCard
<1> QED  BY <1>1, Invariance, PTL

(* The queue implements the board its readers are promised: for any roms,   *)
(* any drain and any cut, a pending rom leaves only by ending or by the     *)
(* owner's hand, and a list a boot could not read is left as it was         *)
(* (Queue's operations under the lock, Load, SdEngine::LoadQueue).          *)
THEOREM QueueKeepsTheBoard == Spec => BoardIsKept
<1>1. Init => Board!BoardInit
  BY InitOnBoard
<1>2. IInv /\ [Next]_vars => [Board!BoardNext]_(Board!boardVars)
  <2> SUFFICES ASSUME IInv, [Next]_vars PROVE Board!BoardNext \/ UNCHANGED Board!boardVars
    OBVIOUS
  <2>1. CASE \/ DequeueCancels \/ BackoffEnds \/ UNCHANGED vars
             \/ \E r \in Roms : Replaced(r)
    BY <2>1, BoardStands DEF DequeueCancels, BackoffEnds, Replaced
  <2> QED  BY <2>1, PressesOnBoard, PowerCutOnBoard, DrainOnBoard DEF Next
<1> QED  BY <1>1, <1>2, Invariance, PTL DEF Spec, BoardIsKept, Board!BoardSpec
=============================================================================
